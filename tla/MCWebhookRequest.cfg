SPECIFICATION Spec
CONSTANTS
  Answers <- BoundaryAnswers
  MaxResponseBytes = 2
  MaxSent = 4
INVARIANTS
  TypeOK
  SettledOnce
  AnswerIsSound
  VerdictMatchesRanges
PROPERTIES
  AttemptEnds
CHECK_DEADLOCK FALSE
