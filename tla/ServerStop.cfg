SPECIFICATION Spec
CONSTANTS
  Clients = {c1}
  MaxFd = 5
  Requests = {"LOGIN", "GMN"}
  Commands = {"start", "stop"}
  ListenFails = FALSE
PROPERTIES StopsAlone
CHECK_DEADLOCK FALSE
