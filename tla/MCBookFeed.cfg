SPECIFICATION FeedSpec
CONSTANTS
  Capacity = 8
  WordBits = 2
  Prices = {0, 1, 3, 4, 5, 6, 8, 9}
  Qtys = {0, 1}
  MaxLevels = 3
  MaxRebases = 2
  SnapLevels = 2
  ChunkSize = 2
  Parts = 4
  Updates <- MCUpdates
  Junk <- MCJunk
  MaxUntold = 2
INVARIANTS IndexAgrees FeedNoPhantoms BookIsMarket RecenterKeepsNarrowTouch SnapshotAnchored
PROPERTIES FeedWindowLevelsKept
