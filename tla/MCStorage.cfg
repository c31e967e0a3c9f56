SPECIFICATION MCSpec
CONSTANTS
  Dirs = {Home, D1, D2}
  Default = Home
  Db = "data.db"
  Files <- MCFiles
  Nested <- MCNested
  Tasks = {t1}
  MaxMoves = 2
  MaxRows = 2
  MaxStarts = 3
  Procs = {p1, p2}
  Sources <- AllSources
  ModelIds = {"a", "b", "c"}
  MaxBoots = 3
  MaxFaults = 1
  Span <- MCSpan
  Width <- MCWidth
  Models = {"m1", "m2", "m3"}
  MAX_SERIES = 1
  Selections <- MCSelections
  LogTables <- MCTables
  NewRows <- MCRows
  Loads = {1, 2}
  StartsAt = 9
  MaxNow = 10
  MaxLogs = 1
  MaxClicks = 1
  MaxBreaks = 1
INVARIANTS
  MigrationSafe
  RowsTellTruth
  UpMeansWhole
  CatalogueSound
  FiguresAgree
PROPERTIES
  MigrationEnds
  QuietBootsSucceed
  ShowsNow
CHECK_DEADLOCK FALSE
