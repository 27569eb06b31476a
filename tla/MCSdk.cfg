CONSTANTS
  None = None
  Logical = {l1, l2}
  Context = {c1, c2}
  Policy = {"allowed", "budget"}
  MaxAttempts = 2
  MaxTime = 1
  MaxChain = 4
  MaxOperations = 2
  MaxFaults = 1
  Requirement <- MCRequirement
SPECIFICATION ReaderSpec
INVARIANTS FinalizedVerifies NothingStranded VerifiedIsComplete ReaderIsConsistent GraphIsFaithful
PROPERTIES VerdictStable LedgerSpec
CONSTRAINT Bounded
SYMMETRY Symmetry
\* The application may stop at any time, and a sealed recorder does nothing more.
CHECK_DEADLOCK FALSE
