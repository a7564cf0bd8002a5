SPECIFICATION Spec
CONSTANTS
  b1 = b1
  b2 = b2
  Bots = {b1, b2}
  Self = b1
  MaxUpdates = 3
  Limit = 2
  Timeout = 1
  MaxManagers = 2
  MaxFaults = 1
  NoBot = NoBot
INVARIANTS
  InOrderOnce
  SkippedOnlyIfOvertaken
  StoppedPollsNoMore
PROPERTIES
  IsUpdateFeed
  DeliveredUnlessOvertaken
