SPECIFICATION Spec
CONSTANTS
  GAME_TIME = 2
  MaxNow = 2
  MaxTokens = 5
  UninitPhases = {32764}
  AdminValues <- MCAdminValues
  EndTimes <- MCEndTimes
  Unread <- MCUnread
INVARIANTS ToldAlways
CHECK_DEADLOCK FALSE
