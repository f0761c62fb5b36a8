SPECIFICATION FairSpec
CONSTANTS
  Texts <- MCTexts
  NL = "nl"
  END = "end"
  BufferLen = 3
  Setups <- MCSetups
  MaxTyped = 3
  MaxKeys = 0
  MaxHanded = 4
INVARIANTS FaithfulAlways
CHECK_DEADLOCK FALSE
