SPECIFICATION FairSpec
CONSTANTS
  Texts <- MCTexts
  NL = "nl"
  END = "end"
  BufferLen = 3
  Setups <- MCSetups
  MaxTyped = 3
  MaxKeys = 2
  MaxHanded = 4
INVARIANTS Faithful
PROPERTIES Executed Served
CHECK_DEADLOCK FALSE
