SPECIFICATION FairSpec
CONSTANTS
  DownloadRuns = {d1}
  IngestRuns = {i1, i2}
  Registry = {1, 2}
  UidOf <- MCUidOf
  BatchSize = 1
  MaxQueueDepth = 1
  MaxDownloadAttempts = 2
  MaxIngestAttempts = 2
  HonestLeases = TRUE
  MaxBatches = 2
  MaxCrashes = 1
  MaxExpiries = 1
INVARIANTS
  IngestExclusiveWhileLeasesHold
PROPERTIES
  EveryBatchSettles
