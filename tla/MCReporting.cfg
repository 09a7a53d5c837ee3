SPECIFICATION Spec
CONSTANTS
  SubBits = 1
  Width = 4
  MaxBookWalk = 1
  MaxPosition = 1
  Durations <- MCDurations
  Bids = {9, 12}
  InitialCash = 20
  MaxEvents = 3
INVARIANTS DumpBelowMax PercentilesAccurate FinalReportBalances
