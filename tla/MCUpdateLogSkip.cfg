SPECIFICATION Spec
CONSTANTS
  b1 = b1
  b2 = b2
  Bots = {b1}
  Self = b1
  MaxUpdates = 2
  Limit = 2
  Timeout = 1
  MaxManagers = 1
  MaxFaults = 0
  NoBot = NoBot
PROPERTIES
  EveryUpdateDelivered
