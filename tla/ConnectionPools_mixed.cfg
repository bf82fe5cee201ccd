CONSTANTS
  Servers = {s1}
  ServerOf <- OneServer
  ChildRequest = 2
  Reaper = reaper
  NoDb = none
  None = None
  DriverOf <- OneOfEach
  Budget <- AmpleForSql
  MaxChildPools = 1
  Keychain = {}
  Profiles = {p1, p2, p3}
  Databases = {d1, d2}
  Workers = {w1}
  PoolIds = {i1, i2, i3, i4, i5, i6, i7, i8}
  Operations = {"connect", "bridge", "disconnect", "view", "test", "release", "sweep"}
SPECIFICATION Spec
CONSTRAINT OneKind
INVARIANTS ConnectedClientOpen 
 
SYMMETRY Interchangeable
