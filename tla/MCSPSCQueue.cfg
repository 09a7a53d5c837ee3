SPECIFICATION FairSpec
CONSTANTS
  Capacity = 4
  Modulus = 8
  Values = {v1, v2}
  NoValue = NoValue
INVARIANTS NoDataRace CursorOrder
PROPERTIES RefinesFifo Delivered
