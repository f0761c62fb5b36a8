SPECIFICATION Spec
CONSTANTS
  FirstFd = 8
  LastFd = 10
  Names <- MCNames
  NoName = ""
  NameLen <- MCNameLen
  Zeroed <- MCZeroed
  LIMIT = 49
  RESPONSE = 73
  MaxConns = 4
INVARIANTS ListMirrorsConnections ListFits
PROPERTIES UpdatesShownOrNewer
CHECK_DEADLOCK FALSE
