SPECIFICATION FairSpec
CONSTANTS
  Texts <- MCTexts
  NL = "nl"
  END = "end"
  BufferLen = 3
  Setups <- MCPipe
  MaxTyped = 3
  MaxKeys = 0
  MaxHanded = 4
PROPERTIES Executed
CHECK_DEADLOCK FALSE
