SPECIFICATION SFairSpec
CONSTANTS
  GAME_TIME = 1
  MaxNow = 1
  MaxTokens = 4
  UninitPhases = {32764}
  AdminValues <- MCAdminValues
  EndTimes <- MCEndTimes
  Unread <- MCUnread
INVARIANTS TypeOK Welcome ShownIsTrue ToldTruly
PROPERTIES ImplementsPlay MovedOnRequest BothReplied
CHECK_DEADLOCK FALSE
