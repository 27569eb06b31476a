CONSTANTS
  Caller = {c1, c2}
  Input <- MCInput
  Routes <- MCRoutes
  Offered = {"read"}
  Lifetime = 3
  MaxLifetime = 3
  Margin = 1
  Window = 1
  Timeout = 1
  MaxTime = 4
  None = None
SPECIFICATION FairSpec
INVARIANTS DispatchIsTrusted IssuanceIsLinear NeverExpiresInFlight
PROPERTY CallsEnd
\* Every call may have ended, and the clock stops at its bound.
CHECK_DEADLOCK FALSE
