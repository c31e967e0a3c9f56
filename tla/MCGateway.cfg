SPECIFICATION MCSpec
CONSTANTS
  Requests = {r1, r2}
  Rewritten = {r1}
  Replies = {"429", "overflow", "field"}
  Friendly = TRUE
  MaxRetries = 1
  MaxReads = 1
  Rows = {"pro", "flash"}
  MaxReposts = 1
  MaxProbes = 2
  MaxDisruptions = 1
INVARIANTS
  OutcomeHonest
PROPERTIES
  CancelHeard
  ProbesSound
CHECK_DEADLOCK FALSE
