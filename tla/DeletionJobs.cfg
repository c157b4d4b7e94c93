SPECIFICATION FairSpec
CONSTANTS
  u1 = u1
  u2 = u2
  Users = {u1, u2}
  Attached = {u1}
  LastTable = 2
  Tickets = 1
  Limit = 2
  MaxRequests = 2
  MaxWrites = 1
  MaxFaults = 1
  MaxCrashes = 1
INVARIANTS
  TypeOK
  LeavesNothing
PROPERTIES
  PurgeKeepsGrace
  CompletedIsEmptied
  DueDeletionsSettle

