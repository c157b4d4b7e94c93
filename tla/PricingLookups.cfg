SPECIFICATION FairSpec
CONSTANTS
  Lookups = {l1, l2}
  Chain <- MCChain
  Requests <- MCRequests
  Catalogued = {"kicksdb"}
  MemTtl = 2
  CatalogTtl = 1
  FailTtl = 1
  MarketTtl = 2
  LongTtl = 3
  MaxFaults = 1
INVARIANTS
  TypeOK
  PricesFresh
PROPERTIES
  PriceStands
  PricedInTheEnd
