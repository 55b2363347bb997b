\* Tool calls from before a pause are not counted at the end.
CONSTANTS
  Reads = {"read"}
  Inserts = {"insert"}
  Risky = {"update"}
  MaxRealSteps = 2
  MaxNonProgress = 2
  MaxReactSteps = 2
  MaxRepeats = 1
  MaxTries = 2
  MaxConcurrent = 1
  MaxCalls = 3
  MaxBatch = 3
  MaxPlan = 2
SPECIFICATION Spec
INVARIANT AllCallsCounted
CHECK_DEADLOCK FALSE
