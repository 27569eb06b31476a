CONSTANTS
  Request = {r1, r2}
  Owner = owner
  Recoverer = {}
  Overlap = FALSE
  Reported = {"completed", "tool_failure", "blocked"}
  MaxFaults = 0
  MaxCrashes = 0
  MaxNoise = 1
  HeedsTerm = TRUE
  Versions = {1, 2}
  MaxRows = 10
  None = None
SPECIFICATION SessionSpec
INVARIANTS CompletedWasAnswered BundlesAgree CloseSucceeds SessionCallIsPinned
PROPERTIES InterruptIsFinal SessionEnds
\* A session that is closed, or whose process died, does nothing more.
CHECK_DEADLOCK FALSE
