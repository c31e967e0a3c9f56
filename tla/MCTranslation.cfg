SPECIFICATION MCSpec
CONSTANTS
  CallIds = {c1, c2}
  MaxItems = 5
  Alphabet <- MCAlphabet
  OpenTag <- MCOpenTag
  CloseTag <- MCCloseTag
  MaxText = 10
  ClientTools <- MCTools
  FeatureSets <- MCFeatures
  MaxParts = 3
INVARIANTS
  UpstreamAccepts
  ConversationIntact
  SplitterAgrees
  RequestKept
CHECK_DEADLOCK FALSE
