CONSTANTS
  None = None
  Genesis = Genesis
  Process = {p1, p2, p3}
  Occurrence = {o1, o2, o3}
  Times = {0, 1}
  Stamps <- MCStamps
  Ends <- MCEnds
  MaxReceipts = 3
  Overlap = FALSE
  MaxFaults = 1
  Header <- MCHeader
  Bodies <- MCBodies
  Runtimes <- MCRuntimes
  Inspections <- MCInspections
SPECIFICATION Spec
INVARIANTS CountedIsPublished JournalIsRecoverable CompositionHolds
SYMMETRY Interchangeable
\* Every process may have ended.
CHECK_DEADLOCK FALSE
