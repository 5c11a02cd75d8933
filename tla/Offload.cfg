SPECIFICATION FairSpec
CONSTANTS
  Calls = {c1, c2}
  Configs = {f1}
  NoConfig = NoConfig
  MaxHellos = 2
INVARIANTS
  ConfigHasOneOwner
  SessionReachesOwner
  ScoutIsComplete
PROPERTY Answered
CHECK_DEADLOCK FALSE
