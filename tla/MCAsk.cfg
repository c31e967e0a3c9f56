SPECIFICATION Spec
CONSTANTS
  MaxRounds = 2
  MaxCalls = 2
  MaxPieces = 1
  Ids = {i1, i2}
  Slugs = {d1}
  None = None
INVARIANTS
  HistoryAccepted
  OutcomeIsTold
PROPERTIES
  QuestionEnds
CHECK_DEADLOCK FALSE
