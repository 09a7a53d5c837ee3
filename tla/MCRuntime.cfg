SPECIFICATION FairSpec
CONSTANTS
  QueueCapacity = 2
  SnapshotRetries = 1
  MaxStarts = 2
  MaxConns = 2
  MaxMsgs = 2
  MaxChunks = 2
INVARIANTS Accounting StopDrains InvalidateIsPrompt
PROPERTIES NoOlderOverNewer FirstConnectionSynced StopReturns SnapshotReachesBook
