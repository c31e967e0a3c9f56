SPECIFICATION Spec
SYMMETRY Symmetry
CONSTANTS
  ada = ada
  bob = bob
  gh = gh
  Names = {ada, bob}
  Identities = {gh}
  Handle <- MCHandle
  Slots = {r1, r2}
  SessionTTL = 2
  MaxUsers = 2
  MaxSessions = 2
  AtStart <- MCAtStart
  Patches <- MCPatches
  Grants = {FALSE}
  Changes <- MCChanges
  MaxStates = 2
  MaxTime = 2
INVARIANTS
  SessionsSlide
  OneOfEach
  AnswersHold
CHECK_DEADLOCK FALSE
