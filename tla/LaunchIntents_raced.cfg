CONSTANTS
  MaxLaunches = 1
  Environments = {home, away}
  Connections = {kept, shared}
  home = home
  away = away
  kept = kept
  shared = shared
  Home <- OneHome
  AdHoc = AdHoc
  NoEnv = NoEnv
  Crossings = {"boot"}
SPECIFICATION LaunchIntentsSpec
INVARIANT HandledOnce
CHECK_DEADLOCK FALSE
