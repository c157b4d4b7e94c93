SPECIFICATION FairSpec
CONSTANTS
  Runs = {r1, r2}
  NoRun = NoRun
  Sets = {1, 2}
  Sports = {1, 2}
  Tier <- MCTier
  Limit = 2
  SlowLimit = 1
  MaxFaults = 1
  MaxOverruns = 1
INVARIANTS
  TypeOK
  OneRunPerLease
PROPERTIES
  SharedAsQueue
  EverySetTried
CHECK_DEADLOCK FALSE
