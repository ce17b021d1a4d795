CONSTANTS
  NumJobs = 3
  u1 = u1
  u2 = u2
  x = x
  Keys = {u1, u2}
  Foreign = {x}
  Cloned = {x}
  None = None
  NoRepo = {u2}
  MaxRetries = 1
  MaxRestarts = 1
SPECIFICATION MCSpec
INVARIANTS TypeOK BranchIsolation RowPrMatches DeadNotPicked
CHECK_DEADLOCK FALSE
