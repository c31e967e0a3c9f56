SPECIFICATION Spec
CONSTANTS
  ToolIndices <- MCToolIndices
  Chunks <- MCChunks
  MaxChunks = 4
INVARIANTS
  IndexAgreement
  StreamIntact
  AnswersAgree
PROPERTIES
  EndIsAnnounced
  KeepsPromise
CHECK_DEADLOCK FALSE
