SPECIFICATION GatewaySpec
CONSTANTS
  c1 = c1
  c2 = c2
  c3 = c3
  n1 = n1
  n2 = n2
  r1 = r1
  Calls = {c1, c2, c3}
  Usernames = {n1, n2}
  HttpRequests = {r1}
  MaxBots = 2
  MaxFaults = 2
  NoUser = NoUser
  NoName = NoName
  Nobody = Nobody
SYMMETRY SymmetricCalls
INVARIANTS
  GatewayTypeOK
  QuietBotsConsistent
  NoOrphanUsers
  HalfDeactivated
  OutOfService
  ActsForItsToken
PROPERTIES
  NoLostUpdates
CHECK_DEADLOCK FALSE
