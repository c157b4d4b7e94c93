SPECIFICATION FairSpec
CONSTANTS
  Tokens = {1, 2}
  Periods = {1, 2}
  Scans = {s1, s2, s3}
  Days = {1, 2}
  Limit = 1
  MaxInputs = 6
  MaxFaults = 1
INVARIANTS
  TypeOK
  MonthCapped
  StoresHeard
PROPERTIES
  GoogleSettles
CHECK_DEADLOCK FALSE
