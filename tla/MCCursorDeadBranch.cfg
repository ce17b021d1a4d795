CONSTANTS
  NumJobs = 1
  u1 = u1
  u2 = u2
  x = x
  Keys = {u1}
  Foreign = {x}
  Cloned = {x}
  None = None
  NoRepo = {}
  MaxRetries = 1
  MaxRestarts = 0
SPECIFICATION Spec
INVARIANT NotOnDeadBranch
CHECK_DEADLOCK FALSE
