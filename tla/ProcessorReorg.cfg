\* Refutes ScannedBlocksLink.
SPECIFICATION RecoverySpec
CONSTANTS
  None = None
  DownloadBatchSize = 2
  ScanBatchSize = 2
  OriginalCheckpoint = 1
  TxHeights = {2}
  MaxHeight = 4
  MaxReorgs = 1
  MaxFaults = 0
  MaxRewinds = 0
  AutoRewindDepth = 2
  MaxWipes = 1
INVARIANTS
  ScannedBlocksLink
CHECK_DEADLOCK FALSE
