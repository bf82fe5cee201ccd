CONSTANTS
  Servers = {s1}
  ServerOf <- OneServer
  ChildRequest = 2
  Reaper = reaper
  NoDb = none
  None = None
  DriverOf <- AllSql
  Budget <- TightBudget
  MaxChildPools = 2
  Keychain = {}
  Profiles = {p1}
  Databases = {d1}
  Workers = {w1, w2}
  PoolIds = {i1, i2, i3, i4, i5}
  Operations = {"connect"}
SPECIFICATION Spec
PROPERTIES NeverReplacesLivePool
SYMMETRY Interchangeable
