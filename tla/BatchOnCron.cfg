SPECIFICATION Spec
CONSTANTS
  DownloadRuns = {d1}
  IngestRuns = {i1}
  Registry = {1, 2, 3, 4}
  UidOf <- MCUidOf
  BatchSize = 2
  MaxQueueDepth = 1
  MaxDownloadAttempts = 2
  MaxIngestAttempts = 2
  HonestLeases = TRUE
  MaxBatches = 3
  MaxCrashes = 2
  MaxExpiries = 2
INVARIANTS
  TypeOK
  IngestableIsStored
  RefreshIsEarned
  ClaimedOnce
PROPERTIES
  RotationInTurn
CHECK_DEADLOCK TRUE
