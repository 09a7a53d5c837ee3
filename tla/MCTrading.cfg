SPECIFICATION Spec
CONSTANTS
  MaxBookWalk = 2
  MaxPosition = 2
  Books <- MCBooks
  DepthLevels = 2
  SmoothingWindow = 2
  Scale = 6
  EntryImbalance = 1
  TakeProfitBps = 500
  StopLossBps = 500
  MaxSpreadBps = 1000
  TradeFraction = 50
  Cooldown = 1
  AllowShort = TRUE
  InitialCash = 100
  Threshold = 2
  WindowMsgs = 3
  MaxEvents = 7
INVARIANTS TypeOK BooksAgree PnlIdentity WithinLimits FilledWhole LongExitApproved SmoothsRecent
PROPERTIES OnePosition
