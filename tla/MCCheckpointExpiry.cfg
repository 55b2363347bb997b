\* An expired row is rejected, its message keeps asking.
CONSTANTS
  None = None
  Checkpoints = {c1}
  Requests = {r1}
  Workers = {w1, w2}
  Sweepers = {s1}
  Jobs = {j1, j2}
  Choices = {e1}
  Faults = {}
SPECIFICATION FairSpec
PROPERTY
  RejectionIsShown
CHECK_DEADLOCK FALSE
