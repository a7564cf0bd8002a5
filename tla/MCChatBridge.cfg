SPECIFICATION Spec
CONSTANTS
  b1 = b1
  b2 = b2
  u1 = u1
  u2 = u2
  person = person
  t1 = t1
  Bots = {b1, b2}
  Users = {u1, u2, person}
  UserOf <- UserOfBots
  Topics = {t1}
  Existing = {b1}
  Churning = {b1}
  Published <- TopicTraffic
  MaxEvents = 2
  Prefetch = 1
  NoUser = NoUser
  NoBot = NoBot
  NoEvent = NoEvent
INVARIANTS
  TypeOK
  MapsInverse
  RegistryJustified
  OvertakenOnlyWhenResolved
PROPERTIES
  RegistryChangesForCause
  NoEchoInService
  EveryEventSettles
CHECK_DEADLOCK FALSE
