SPECIFICATION FairSpec
CONSTANTS
  Items = {i1}
  Alerts = {a1}
  ItemOf <- MCItemOf
  Devices = {d1, d2}
  Prices = {low, high}
  Crossing = {high}
  NoPrice = NoPrice
  MaxFaults = 1
INVARIANTS
  TypeOK
  NotifyOnce
PROPERTIES
  EveryCrossingPushed
CHECK_DEADLOCK FALSE
