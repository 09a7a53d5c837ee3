SPECIFICATION Spec
CONSTANTS
  Threshold = 2
  WindowMsgs = 3
  MaxEvents = 10
INVARIANTS TripsAsDocumented HaltIsBounded
