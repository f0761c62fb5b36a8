SPECIFICATION Spec
CONSTANTS
  Clients = {c1, c2}
  MaxFd = 5
  Requests = {"LOGIN", "ADMIN", "DUP", "LOGOUT", "GMN", "BAD", "EARLY", "REFUSED"}
  Commands = {"start", "stop"}
  ListenFails = TRUE
SYMMETRY Permuted
INVARIANTS TypeOK Bookkeeping NoBlindRecv CleanStop
PROPERTIES ImplementsService
CHECK_DEADLOCK FALSE
