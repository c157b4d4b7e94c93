SPECIFICATION FairSpec
CONSTANTS
  Runs = {r1, r2}
  Sets = {1, 2, 3, 4}
  Dead = {2}
  BatchSize = 3
  MaxRequests = 1
  Budgets = {1, 2}
  MaxFailures = 2
  Threshold = 1
  MaxFaults = 1
  MaxOutages = 1
INVARIANTS
  TypeOK
  StampsEarned
  OutagesForgiven
PROPERTIES
  EveryHealthySetTurns
CHECK_DEADLOCK FALSE
