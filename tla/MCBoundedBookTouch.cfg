SPECIFICATION UncrossedSpec
CONSTANTS
  Capacity = 8
  WordBits = 2
  Prices = {0, 1, 2, 3, 4, 5, 6, 7, 8, 9}
  Qtys = {0, 1}
  MaxLevels = 3
  MaxRebases = 2
INVARIANT RecenterKeepsTouch
