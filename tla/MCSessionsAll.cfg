\* The first log-out everywhere leaves the access tokens valid.
CONSTANTS
  None = None
  Tokens = {t1, t2, t3}
  Requests = {r1, r2, r3, r4}
SPECIFICATION Spec
INVARIANT AllLoggedOut
CHECK_DEADLOCK FALSE
