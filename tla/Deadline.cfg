SPECIFICATION DSpec
CONSTANTS
  IntMax = 3
  LongMax = 31
  Day = 4
  GAME_TIME = 2
  Typed <- MCTyped
  MaxNow = 4
  MaxUpdates = 3
PROPERTIES MovedAsTyped ShownIsLeft
CHECK_DEADLOCK FALSE
