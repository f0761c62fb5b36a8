SPECIFICATION FairSpec
CONSTANTS
  Clients = {c1, c2}
  MaxFd = 5
  Requests = {"DUP"}
  Commands = {"start"}
  ListenFails = FALSE
PROPERTIES Admitted
CHECK_DEADLOCK FALSE
