SPECIFICATION FairSpec
CONSTANTS
  Clients = {c1, c2}
  MaxFd = 6
  Requests = {"LOGIN"}
  Commands = {"start", "other"}
  ListenFails = FALSE
PROPERTIES Answered Admitted Forgotten
CHECK_DEADLOCK FALSE
