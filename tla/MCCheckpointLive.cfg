\* An approval ends in a final message and a done event; beside it, the channels
\* of a workspace with their cached lists, and the events and lists of messages.
CONSTANTS
  c1 = c1  r1 = r1  r2 = r2  w1 = w1  w2 = w2  s1 = s1
  j1 = j1  j2 = j2  j3 = j3  e1 = e1
  m1 = m1  m2 = m2  g1 = g1  d1 = d1  p1 = p1  x1 = x1  x2 = x2  h1 = h1  h2 = h2  y1 = y1  y2 = y2  NoValue = NoValue
  None = None
  Checkpoints = {c1}
  Requests = {r1}
  Workers = {w1, w2}
  Sweepers = {s1}
  Jobs = {j1, j2}
  Choices = {e1}
  Faults <- MCFaultsNoLoss
SPECIFICATION MCSpec

  
PROPERTY
  ApprovalSettles
CHECK_DEADLOCK FALSE
