SPECIFICATION MCSpec
CONSTANTS
  Specs <- MCSpecs
  EnvSpec <- MCEnvSpec
  KeySets <- MCKeySets
  Asked = {"mimo-v2.5-pro", "deepseek-reasoner", "gpt-vl", "big"}
  Overridden = {"gpt-vl"}
  Users = {ada}
  OwnFor = {"mimo"}
  MaxSpecs = 2
  MaxMaster = 2
  Logins = {login}
  Sections = {mcp}
  Keep = 1
  Recent = 1
  MaxOps = 3
  MaxFaults = 1
  Places = {"home", "new", "other"}
  Home = "home"
  Wrong = {}
  AuthModes = {"off", "on"}
  MaxAsks = 3
  MaxMishaps = 1
INVARIANTS
  ServedAsTold
  ChoicesReach
  WayBackKept
  
CHECK_DEADLOCK FALSE
