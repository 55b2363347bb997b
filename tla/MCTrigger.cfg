\* Retries, redeliveries, deaths and the reaper: one turn, one placeholder, one end;
\* beside it, leave and work of an employee.
CONSTANTS
  t1 = t1  w1 = w1  w2 = w2  w3 = w3  p1 = p1  p2 = p2  p3 = p3
  a = a  b = b  s1 = s1  r1 = r1  r2 = r2
  None = None
  Triggers = {t1}
  Replies = {p1, p2, p3}
  Workers = {w1, w2, w3}
  MaxAttempts = 3
  FaultSets <- MCFaultSets
SPECIFICATION MCSpec
INVARIANTS
  TypeOK
  TurnRunsOnce
  
  CalendarHolds
PROPERTY
  EverythingEnds
CHECK_DEADLOCK FALSE
