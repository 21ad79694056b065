SPECIFICATION Spec
CONSTANTS
  Callers = {server}
  Server = server
  Players = {p1, p2}
  Sendspin = sendspin
  None = None
  Updates = FALSE
  MaxClaims = 2
INVARIANT AvailableAfterward
CHECK_DEADLOCK FALSE
