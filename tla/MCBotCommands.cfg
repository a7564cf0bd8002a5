SPECIFICATION Spec
CONSTANTS
  Chars = {"a", "A", "b", "d", "!", "/", " "}
  NameChars = {"a", "A", "b"}
  LowerCase <- MCLowerCase
  MaxName = 2
  MaxDescription = 2
  MaxCommands = 2
  Backfilled <- MCBackfilled
  Requests <- MCRequests
INVARIANTS
  AcceptedAsSent
PROPERTIES
  SettingWhatIsSet
