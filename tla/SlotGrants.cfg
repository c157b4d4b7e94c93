SPECIFICATION FairSpec
CONSTANTS
  Callers = {"refresh", "sets"}
  Classes = {"categories", "backfill", "tier3"}
  Essential = {"categories"}
  NoClass = NoClass
  ClassOf <- MCClassOf
  Entitlement <- MCEntitlement
  Uncapped = Uncapped
  Interval = 3
  ActiveWindow = 5
  PolicyRetry = 1
  MaxNap = 1
  MaxWait = 1
  Fallback = 1
  Published = 2
  Day = 7
  MaxLag = 1
  Jitter = 1
  CallDelay = 0
  MaxFaults = 1
INVARIANTS
  TypeOK
  BulkCapped
PROPERTIES
  EssentialFirst
  NobodyStarves
  WithinVendorLimit
