\* Three steps and 'done' of one or two streams of a key, two processes;
\* beside it, overlapping requests to a board, and video calls.
CONSTANTS
  p1 = p1  p2 = p2  t1 = t1  t2 = t2  t3 = t3  g1 = g1  g2 = g2
  u1 = u1  u2 = u2  d1 = d1  r1 = r1  r2 = r2  None = None
  Processes = {p1, p2}
  Only = p1
  MaxSteps = 3
  MaxStreams = 2
  NoState = NoState
  FaultSets <- MCFaultSets
SPECIFICATION MCSpec
INVARIANTS ShownInOrder PromptWhenSteady BoardAndHuddlesHold
PROPERTIES ShownAndForgotten
CHECK_DEADLOCK FALSE
