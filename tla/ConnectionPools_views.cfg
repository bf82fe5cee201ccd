CONSTANTS
  Servers = {s1}
  ServerOf <- OneServer
  ChildRequest = 2
  Reaper = reaper
  NoDb = none
  None = None
  DriverOf <- AllSql
  Budget <- SevenAndFour
  MaxChildPools = 0
  Keychain = {}
  Profiles = {p1, p2}
  Databases = {d1, d2}
  Workers = {w1, w2}
  PoolIds = {i1, i2, i3, i4, i5, i6}
  Operations = {"connect", "disconnect", "view", "test"}
SPECIFICATION Spec
INVARIANTS NeverOwnedTwice OwnedIffLive GrantsAccounted BudgetRespected
SYMMETRY Interchangeable
