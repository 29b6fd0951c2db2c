CONSTANTS
  Asked <- MCAsked
  NotInt = NotInt
  Amounts = {0, 1, 2}
  MaxCalls = 2
SPECIFICATION LaneSpec
INVARIANTS
  ChangesRepelledOrCaught
  CountsMeasured
