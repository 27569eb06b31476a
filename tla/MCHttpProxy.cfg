CONSTANTS
  Request = {r1, r2}
  Owner = owner
  Recoverer = {p1, p2}
  ShortWrites = FALSE
  MaxFaults = 1
  MaxCrashes = 2
  None = None
  Routes <- MCRoutes
  Granted <- MCGranted
SPECIFICATION Spec
INVARIANTS ResponseIsDurable UpstreamIsTrue BundlesAgree CloseSucceeds SealedVerifies
PROPERTY NoCallAfterClose
SYMMETRY Symmetry
\* A session that is closed, or whose process died, does nothing more.
CHECK_DEADLOCK FALSE
