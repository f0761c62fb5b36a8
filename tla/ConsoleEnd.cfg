SPECIFICATION FairSpec
CONSTANTS
  Texts <- MCTexts
  NL = "nl"
  END = "end"
  BufferLen = 3
  Setups <- MCEnds
  MaxTyped = 3
  MaxKeys = 0
  MaxHanded = 4
PROPERTIES StdinServed
CHECK_DEADLOCK FALSE
