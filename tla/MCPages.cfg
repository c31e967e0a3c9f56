SPECIFICATION Spec
CONSTANTS
  Tabs = {t1}
  Ids = {"a", "b"}
  Vendors = {"sensenova", "minimax"}
  Switches = {"dropNullStrict", "minimaxCompat"}
  AtStart <- MCAtStart
  Pasted <- MCPasted
  Torn = Torn
  Unloaded = Unloaded
  MaxActs = 5
  Threads = {"s1", "s2"}
  Homes = {"mimo", "openai"}
  Dialogs = {"d1"}
  Lines <- MCLines
  MaxWrites = 1
  Found <- MCFound
  MaxClicks = 3
  Targets = {"pro", "flash"}
  Keyed = {"pro"}
  CodexDirs = {"home", "other"}
  Modes = {"off", "on"}
  MaxTouches = 3
  MaxFailures = 1
  Ips = {"near"}
  MyIp = "near"
  Handlers = {h1, h2}
  PerMinute = 1
  PerDay = 1
  PageSize = 1
  Tables <- MCTables
  Busy = {1}
  MaxRows = 5
  MaxPages = 2
  MaxVisits = 2
  LogKinds = {"a", "b"}
  Filters = {{"a", "b"}, {"a"}}
  Journals <- MCJournals
  Linked = 1
  Opened = {1}
  PageLen = 1
  MaxJournal = 3
  MaxLoads = 3
  MaxCuts = 1
INVARIANTS
  OutputsShown
  
  
  LogIsWhole
PROPERTIES
  
  
  WarnedBeforeLoss
SYMMETRY HandlerSymmetry
CHECK_DEADLOCK FALSE
