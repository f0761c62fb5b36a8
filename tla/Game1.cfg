SPECIFICATION RSpec
CONSTANTS
  GAME_TIME = 2
  MaxNow = 2
  MaxTokens = 5
  UninitPhases <- MCUninitPhases
  AdminValues <- MCAdminValues
  EndTimes <- MCEndTimes
INVARIANTS TypeOK ClockAgrees BagBound OnStory NoDeadEnd ViewAgrees MessagesInStep
PROPERTIES FairVerdict ImplementsStory
CHECK_DEADLOCK FALSE
