CONSTANTS
  Jobs = {j1, j2}
  r1 = r1
  Repos <- MCRepos
  Asks <- MCAsks
  MaxParallel = 1
  MaxFix = 1
  Faults = {"timeout", "other"}
  MaxRestarts = 1
SPECIFICATION FairSpec
INVARIANTS TypeOK GreenGate InFlightOwned ToldConsistent FixBudget
PROPERTIES KeepsBoard EveryJobEnds
CHECK_DEADLOCK FALSE
