SPECIFICATION FairSpec
CONSTANTS
  Texts <- MCTexts
  NL = "nl"
  END = "end"
  BufferLen = 3
  Setups <- MCParts
  MaxTyped = 3
  MaxKeys = 0
  MaxHanded = 4
PROPERTIES Served
CHECK_DEADLOCK FALSE
