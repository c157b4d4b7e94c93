SPECIFICATION Spec
CONSTANTS
  p1 = p1
  p2 = p2
  m1 = m1
  m2 = m2
  Writers = {w1}
  Ids = {1, 2}
  Prices = {p1, p2}
  Metas = {m1, m2}
  None = None
  KeyOf <- MCKeyOf
  SubBatches <- MCSubBatches
  Files = {1, 2}
  Contents <- MCContents
  Attempts = 2
  MaxStarts = 4
  MaxFaults = 1
  MaxCrashes = 1
INVARIANTS
  SnapshotsAgree
CHECK_DEADLOCK FALSE
