SPECIFICATION Spec
CONSTANTS
  e1 = e1
  p1 = p1
  p2 = p2
  b1 = b1
  b2 = b2
  Nobody = Nobody
  Events = {e1}
  Published <- OneMessage
  Bots = {b1}
  Existing = {b1}
  Processes = {p1}
  MaxFaults = 1
  MaxCalls = 0
PROPERTIES
  SurvivesRestarts
CHECK_DEADLOCK FALSE
