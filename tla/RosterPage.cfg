SPECIFICATION Spec
CONSTANTS
  FirstFd = 8
  LastFd = 10
  Names <- MCNames
  NoName = ""
  NameLen <- MCNameLen
  Zeroed <- MCZeroed
  LIMIT = 49
  RESPONSE = 73
  MaxConns = 3
INVARIANTS PageIsWhole
CHECK_DEADLOCK FALSE
