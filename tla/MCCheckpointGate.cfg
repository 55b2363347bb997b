\* Two concurrent answers, two workers, a cron run: one execution, one gate;
\* beside it, accounts, users and the tokens of applications.
CONSTANTS
  c1 = c1  r1 = r1  r2 = r2  w1 = w1  w2 = w2  s1 = s1
  j1 = j1  j2 = j2  j3 = j3  e1 = e1  p1 = p1  q1 = q1  q2 = q2
  d1 = d1  d2 = d2  a1 = a1  a2 = a2  h1 = h1  h2 = h2
  None = None
  Checkpoints = {c1}
  Requests = {r1, r2}
  Workers = {w1, w2}
  Sweepers = {s1}
  Jobs = {j1, j2}
  Choices = {e1}
  Faults <- MCFaultsReliableAdd
SPECIFICATION MCSpec
INVARIANTS
  TypeOK
  AtMostOnceExecution
  RanWhatWasApproved
  IdentityAndDeskHold
PROPERTIES
  RejectionIsFinal
  AttemptsAreOwned
  ImplementsGate
SYMMETRY MCSymmetry
CHECK_DEADLOCK FALSE
