SPECIFICATION FairSpec
CONSTANTS
  QueueCapacity = 4
  SnapshotRetries = 1
  MaxStarts = 1
  MaxConns = 2
  MaxMsgs = 2
  MaxChunks = 1
PROPERTY AppliedToOwnSnapshot
