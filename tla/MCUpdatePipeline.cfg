SPECIFICATION Spec
CONSTANTS
  e1 = e1
  p1 = p1
  p2 = p2
  b1 = b1
  b2 = b2
  Nobody = Nobody
  Events = {e1}
  Published <- TopicTraffic
  Bots = {b1, b2}
  Existing = {b1}
  Processes = {p1, p2}
  MaxFaults = 2
  MaxCalls = 1
INVARIANTS
  RowsOnlyByDelivery
  LostForCause
  MissedForCause
  BotMessagesSkipped
PROPERTIES
  EveryEventEnds
CHECK_DEADLOCK FALSE
