\* One turn: two steps, one re-plan that runs, two tool calls on one slot, pauses, Stop;
\* beside it, tokens of a dynamic provider, and requests through the gateway.
CONSTANTS
  i1 = i1  i2 = i2  c1 = c1  c2 = c2  u1 = u1  r1 = r1  r2 = r2  None = None
  Reads = {"read"}
  Inserts = {"insert"}
  Risky = {"update"}
  MaxRealSteps = 2
  MaxNonProgress = 2
  MaxReactSteps = 3
  MaxRepeats = 1
  MaxTries = 2
  MaxConcurrent = 1
  MaxCalls = 2
  MaxBatch = 2
  MaxPlan = 2
SPECIFICATION MCSpec
INVARIANTS
  StepBudget
  
  SlotsAreKept
  ProviderKeepsToken
  GatewayHolds
PROPERTY
  NobodyIsStuck
CHECK_DEADLOCK FALSE
