SPECIFICATION Spec
CONSTANTS
  Fds = {4, 5}
  Names = {"ann", "bob"}
  AdminName = "admin"
  Passwords = {"p", "pq"}
  AdminPassword = "pq"
  Begins <- MCBegins
  Values <- MCValues
  MaxShift = 1
INVARIANTS ListNamesUser
CHECK_DEADLOCK FALSE
