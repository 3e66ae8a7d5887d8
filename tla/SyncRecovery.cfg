\* A chain of four in batches of two, one reorganisation, one fault, one rewind.
\* The app rewinds to one below the tip, which may not reach what broke the scan.
SPECIFICATION RecoverySpec
CONSTANTS
  None = None
  DownloadBatchSize = 2
  ScanBatchSize = 2
  OriginalCheckpoint = 1
  TxHeights = {2}
  MaxHeight = 4
  MaxReorgs = 1
  MaxFaults = 1
  MaxRewinds = 1
  AutoRewindDepth = 0
  MaxWipes = 1
INVARIANTS
  CacheFollowsScan
  SyncedMeansScanned
  CatchUpEnhances
PROPERTIES
  CatchesUp
