\* Five requests (the last a refresh) and three pairs of one user; beside it, overlapping requests
\* to the settings of a workspace.
CONSTANTS
  t1 = t1  t2 = t2  t3 = t3  t4 = t4
  r1 = r1  r2 = r2  r3 = r3  r4 = r4  r5 = r5
  u1 = u1  u2 = u2  p1 = p1
  None = None
  Tokens = {t1, t2, t3}
  Requests = {r1, r2, r3, r4, r5}
SPECIFICATION MCSpec
INVARIANTS TypeOK OneLivePerLogin LogoutEnds TabsShareAPair 
PROPERTY RequestEnds
CHECK_DEADLOCK FALSE
