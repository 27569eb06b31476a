CONSTANTS
  None = None
  Run = {r1, r2}
  Logical <- MCLogical
  Context = {c}
  Policy = {"allowed", "budget"}
  MaxAttempts = 2
  MaxTime = 1
  MaxOperations = 2
  MaxFrames = 3
  MaxFaults = 1
SPECIFICATION Spec
INVARIANTS VerdictTellsCalls GoodSessionVerifies
PROPERTY PythonLedgerSpec
CONSTRAINT Bounded
SYMMETRY Symmetry
\* A finalized recorder does nothing more, and the framework may stop at any time.
CHECK_DEADLOCK FALSE
