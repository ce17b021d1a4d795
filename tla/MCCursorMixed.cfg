CONSTANTS
  Jobs = {j1, j2}
  r1 = r1
  Repos <- MCRepos
  Asks <- MCMixedThread
  MaxParallel = 2
  MaxFix = 1
  Faults = {}
  MaxRestarts = 0
SPECIFICATION Spec
INVARIANT WriteSerialized
CHECK_DEADLOCK FALSE
