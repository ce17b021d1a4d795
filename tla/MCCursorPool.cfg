CONSTANTS
  Jobs = {j1, j2, j3}
  r1 = r1
  Repos <- MCRepos
  Asks <- MCPoolAsks
  MaxParallel = 2
  MaxFix = 1
  Faults = {"other"}
  MaxRestarts = 1
SPECIFICATION Spec
SYMMETRY JobSymmetry
INVARIANTS Capacity RepoExclusive
CHECK_DEADLOCK FALSE
