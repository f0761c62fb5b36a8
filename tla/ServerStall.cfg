SPECIFICATION StallSpec
CONSTANTS
  Clients = {c1, c2}
  MaxFd = 6
  Requests = {"LOGIN"}
  Commands = {"start"}
  ListenFails = FALSE
PROPERTIES Answered
CHECK_DEADLOCK FALSE
