CONSTANTS
  Channel = {"stdout", "stderr"}
  Signal = {"SIGINT", "SIGTERM"}
  MaxChunks = 2
  MaxFaults = 1
  None = None
SPECIFICATION FairSpec
INVARIANTS VerifiedRunIsWhole ResolvedRunVerifies
PROPERTY RunEnds
\* The run ends, or its guard does.
CHECK_DEADLOCK FALSE
