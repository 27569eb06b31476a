CONSTANTS
  Request = {r1, r2}
  Owner = owner
  Recoverer = {p1, p2}
  Overlap = FALSE
  Reported = {"completed", "tool_failure", "blocked"}
  MaxFaults = 1
  MaxCrashes = 2
  HeedsTerm = TRUE
  None = None
SPECIFICATION ProxySpec
INVARIANTS DispatchIsCovered Recoverable NothingInvented
PROPERTY BundleComplete
SYMMETRY Symmetry
\* A session that is closed, or whose process died, does nothing more.
CHECK_DEADLOCK FALSE
