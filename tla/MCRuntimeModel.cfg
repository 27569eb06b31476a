SPECIFICATION Spec
CONSTANTS
  Request = {r1, r2}
  Name = {x}
  Logical <- MCLogical
  Routes <- MCRoutes
  Egress <- MCEgress
  Pins <- MCPins
  Identity <- MCIdentity
  MaxLifetime = 2
  Skew = 0
  Explicit <- MCExplicit
  Native <- MCNative
  Exchange <- MCExchange
  Times = {1, 2}
  Absent = Absent
  MaxCount = 3
  MaxAttempt = 1
  MaxFaults = 0
  None = None
INVARIANTS SubstitutionIsRecorded
\* Once the child ended and the receipt is written nothing more happens.
CHECK_DEADLOCK FALSE
