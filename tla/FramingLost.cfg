SPECIFICATION Spec
CONSTANTS
  Payloads <- MCPayloads
  Replies <- MCReplies
  Garbage <- MCGarbage
  RespLen = 4
  RequestLen = 5
  MaxRequests = 3
INVARIANTS ErrorsReported
CHECK_DEADLOCK FALSE
