SPECIFICATION FairSpec
CONSTANTS
  HeartbeatTimeout = 9
  BackoffInitial = 3
  BackoffMax = 20
  Slice = 2
  ReadLimit = 4
  PushLimit = 1
  MaxPieces = 3
  MaxFails = 4
INVARIANTS TypeOK SilenceEnds StopPrompt
PROPERTIES DialsPaced Redials
