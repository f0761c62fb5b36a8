SPECIFICATION Spec
CONSTANTS
  Clients = {c1}
  MaxFd = 5
  Requests = {"LOGIN", "GMN"}
  Commands = {"start", "stop"}
  ListenFails = FALSE
INVARIANTS SurvivesClients
CHECK_DEADLOCK FALSE
