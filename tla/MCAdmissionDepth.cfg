\* Jobs with a priority are not counted: the queue grows past its depth.
CONSTANTS
  m1 = m1  m2 = m2  m3 = m3  m4 = m4
  u1 = u1  u2 = u2  w1 = w1  w2 = w2
  Messages = {m1, m2, m3, m4}
  user = user  bot = bot  r1 = r1  r2 = r2  s1 = s1  n1 = n1  n2 = n2  n3 = n3  j1 = j1  None = None
  Users = {u1, u2}
  Workspaces = {w1, w2}
  Author <- MCAuthor
  Home <- MCHome
  UserLimit = 2
  WorkspaceLimit = 4
  Window = 2
  PriorityMax = 2
  MaxDepth = 1
  Concurrency = 1
SPECIFICATION DepthSpec
INVARIANT
  QueueBounded
CHECK_DEADLOCK FALSE
