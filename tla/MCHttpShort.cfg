CONSTANTS
  Request = {r1, r2}
  Owner = owner
  Recoverer = {p1}
  ShortWrites = TRUE
  MaxFaults = 1
  MaxCrashes = 0
  None = None
  Routes <- MCRoutes
  Granted <- MCGranted
SPECIFICATION Spec
INVARIANT ResponseIsDurable
SYMMETRY Symmetry
\* A session that is closed, or whose process died, does nothing more.
CHECK_DEADLOCK FALSE
