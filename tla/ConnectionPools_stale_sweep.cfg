CONSTANTS
  Servers = {s1}
  ServerOf <- OneServer
  ChildRequest = 2
  Reaper = reaper
  NoDb = none
  None = None
  DriverOf <- AllSql
  Budget <- TightBudget
  MaxChildPools = 2
  Keychain = {}
  Profiles = {p1}
  Databases = {d1, d2}
  Workers = {w1}
  PoolIds = {i1, i2, i3, i4, i5}
  Operations = {"connect", "bridge", "sweep"}
SPECIFICATION Spec
PROPERTIES ReapedOnlyIfBridgeOpened
SYMMETRY Interchangeable
