SPECIFICATION FairSpec
CONSTANTS
  p1 = p1
  p2 = p2
  m1 = m1
  m2 = m2
  Writers = {w1, w2}
  Ids = {1}
  Prices = {p1, p2}
  Metas = {m1, m2}
  None = None
  KeyOf <- MCKeyOf
  SubBatches <- MCOneSubBatch
  Files = {1, 2}
  Contents <- MCContents
  Attempts = 1
  MaxStarts = 5
  MaxFaults = 0
  MaxCrashes = 1
PROPERTIES
  EveryFileLands
CHECK_DEADLOCK FALSE
