SPECIFICATION FairSpec
CONSTANTS
  Payloads <- MCPayloads
  Replies <- MCReplies
  Garbage <- MCGarbage
  RespLen = 4
  RequestLen = 5
  MaxRequests = 3
INVARIANTS OnlyLastCut BuffersHold
PROPERTIES ImplementsCall Returned
CHECK_DEADLOCK FALSE
