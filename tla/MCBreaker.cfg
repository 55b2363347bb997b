\* Calm and rough surroundings: one probe at a time, and the circuit closes again;
\* beside it, the MCP client, joins and owners of a workspace, the events of Stripe, and sockets.
CONSTANTS
  c1 = c1  c2 = c2  c3 = c3  u1 = u1  u2 = u2  u3 = u3  l1 = l1  i1 = i1
  q1 = q1  q2 = q2  w1 = w1  w2 = w2  s1 = s1  s2 = s2  t1 = t1  a1 = a1  h1 = h1  h2 = h2  e1 = e1
  None = None
  Callers = {c1, c2}
  Volume = 2
  Percentage = 50
  Window = 2
  ResetTimeout = 2
  ProbeLockTtl = 3
  MaxTotal = 3
  FaultSets <- MCFaultSets
SPECIFICATION MCSpec
INVARIANTS
  TypeOK
  SingleProbe
  WorkspaceHolds
  BillingHolds
  ToolCallsHold
  RealtimeHolds
PROPERTY
  Recovers
CHECK_DEADLOCK FALSE
