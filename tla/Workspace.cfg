CONSTANTS
  Envs = {e1, e2}
  Conns = {c1, c2}
  Views = {v1}
  c1 = c1
  c2 = c2
  v1 = v1
  Parent <- ViewOfFirst
  MaxTabs = 1
  Races = {}
  Preds = {p, q}
  Orders = {a, b}
  Pages = {first, second}
  FirstPage = first
  MaxWire = 2
  MaxWrites = 1
  MaxAsks = 2
  Overlaps = {}
  EditTabs = {t1, t2}
  Cells = {k1, k2}
  Texts = {x1, x2}
  NoText = NoText
  MaxTyped = 2
  Hurried = FALSE
  Origins = {o1, o2}
  Profiles = {p1, p2}
  Nobody = Nobody
  SuspicionFloor = 2
  MaxPublished = 1
  MaxSweeps = 2
  Meanwhile = {}
  Pools = {i1}
  Tables = {b1}
  RestoreTabs = FALSE
  MaxOpens = 2
  MaxAltered = 1
  MaxUnderWay = 3
  Overtakings = {}
  Talks = {d1}
  MaxTurns = 2
  MaxSteps = 2
  MaxChunks = 1
  Impatient = FALSE
  MaxReleases = 2
  MaxChecks = 4
  MaxClicks = 3
  Meddling = {}
  None = None
  Writers = {w1, w2}
  Inodes = {i1, i2, i3, i4, i5}
  MaxVersions = 3
  MaxLaunches = 2
  Environments = {home, away}
  Connections = {kept, shared}
  home = home
  away = away
  kept = kept
  shared = shared
  Home <- OneHome
  AdHoc = AdHoc
  NoEnv = NoEnv
  Crossings = {}
  MainWindows = {m1, m2}
  SmallWindows = {m3}
  Settings = {g1, g2}
  MaxChanges = 2
  NoSave = NoSave
  Coincidences = {}
  Callers = {u1, u2, u3}
  TdsSessions = {s1, s2}
  MaxSessions = 2
  NoSession = NoSession
  LateCeilings = FALSE
  dbA = dbA
  dbB = dbB
  Databases = {dbA, dbB}
  NoDatabase = NoDatabase
  NoLimit = NoLimit
  NoOne = NoOne
  Relations <- NamedRelations
  Contexts <- ContextsTried
  Documents = {y1}
  Panes = {n1}
  NoDocument = NoDocument
  Retries = 1
  MaxPolicies = 1
  MaxWakes = 1
  MaxEnquiries = 2
  Coinciding = {}
SPECIFICATION WorkspaceSpec
INVARIANTS
  WorkspaceTypeOK
  SavedWhereOpened
  TabCurrent
  TypedTextKept EditorFollowsTab
  
   SliceCurrent
  
  InstallOnce
  ReadsWhole SavedIsOnDisk
  HandledOnce 
  SettingsStand
  
  DecisionsCohere LocksInForce
PROPERTIES SavedStays LaunchRemembered NeverGoesBack LendsAsPromised
CONSTRAINT OneOfTwo
VIEW Followed
CHECK_DEADLOCK FALSE
