SPECIFICATION FairSpec
CONSTANTS
  Producers = {p1, p2}
  RingSize = 2
  Modulus = 16
  Blank = Blank
  MaxLogs = 4
PROPERTY DropOnlyWhenFull
CHECK_DEADLOCK FALSE
