SPECIFICATION Spec
CONSTANTS
  h1 = h1
  h2 = h2
  p1 = p1
  p2 = p2
  MaxUpdates = 2
  Hooks = {h1, h2}
  Processes = {p1, p2}
  Attempts = 2
  MaxStalled = 1
  MaxFaults = 2
  NoHook = NoHook
  Nobody = Nobody
INVARIANTS
  PostsToHookInForce
  PostsAccountedFor
  QueuedOnce
  SharedOnlyByStall
PROPERTIES
  FirstSeenInOrder
  EveryJobEnds
