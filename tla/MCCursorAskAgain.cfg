CONSTANTS
  NumJobs = 2
  u1 = u1
  u2 = u2
  x = x
  Keys = {u1}
  Foreign = {x}
  Cloned = {}
  None = None
  NoRepo = {}
  MaxRetries = 1
  MaxRestarts = 1
SPECIFICATION Spec
INVARIANT AskAgain
CHECK_DEADLOCK FALSE
