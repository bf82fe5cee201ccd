CONSTANTS
  Servers = {s1}
  ServerOf <- OneServer
  ChildRequest = 2
  Reaper = reaper
  NoDb = none
  None = None
  DriverOf <- AllSql
  Budget <- OnePoolBudget
  MaxChildPools = 0
  Keychain = {p1}
  Profiles = {p1}
  Databases = {d1, d2}
  Workers = {w1, w2}
  PoolIds = {i1, i2, i3}
  Operations = {"connect", "bridge", "view", "release", "sweep"}
SPECIFICATION FairSpec
INVARIANTS TypeOK 
PROPERTIES KeepsLedger CommandsFinish IdleBridgeReaped
