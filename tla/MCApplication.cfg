SPECIFICATION MCSpec
CONSTANTS
  Dirs = {home, other}
  Default = home
  MaxRestarts = 1
  Slots = {o1}
  MaxOps = 3
  MaxCrashes = 2
  MaxRows = 1
  MaxSignals = 1
  MaxLaunches = 2
  Viewers = {t1}
  Methods = {"git", "npm-global", "desktop", "unknown"}
  Newest = 2
  MaxRuns <- MCMaxRuns

  
PROPERTIES
  OperationsEnd
  
CHECK_DEADLOCK FALSE
