SPECIFICATION GatewaySpec
CONSTANTS
  c1 = c1
  c2 = c2
  c3 = c3
  n1 = n1
  n2 = n2
  Calls = {c1, c2, c3}
  Usernames = {n1}
  MaxBots = 1
  MaxFaults = 0
  NoUser = NoUser
  NoName = NoName
  r1 = r1
  HttpRequests = {}
  Nobody = Nobody
INVARIANTS
  CanBeReactivated
CHECK_DEADLOCK FALSE
