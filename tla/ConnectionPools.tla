------------------------- MODULE ConnectionPools -------------------------
(***************************************************************************)
(* The life of a connection pool in the desktop backend.                   *)
(*                                                                         *)
(* Commands (connect, disconnect, open_database_view, test_connection,     *)
(* release_idle_pools) and the idle reaper run as asynchronous tasks over  *)
(* three pieces of shared state, each behind a lock of its own: the map of *)
(* live pools (AppState::connections), the cached secrets                  *)
(* (AppState::session_secrets) and the per-server budgets                  *)
(* (AppState::endpoints).  No lock is held across an await or from one of  *)
(* these accesses to the next, so an action below is one critical section  *)
(* and any other task may run between two of them.                         *)
(*                                                                         *)
(* A pool id stands for one capacity reservation from the moment it is     *)
(* taken to the moment it is dropped: while the server is being dialled it *)
(* belongs to the task that dials, then to the map, then to the task that  *)
(* closes it.                                                              *)
(***************************************************************************)
EXTENDS Integers, Sequences, FiniteSets

CONSTANTS
  Profiles,       \* saved connection profiles
  Databases,      \* databases that can be browsed through a view
  Servers,        \* endpoint keys
  ServerOf,       \* Profiles -> Servers, the key of a profile
  DriverOf,       \* Profiles -> Drivers
  Budget,         \* Profiles -> Nat, the clamped endpoint_budget of a profile
  ChildRequest,   \* preference connections.childMaxConnections
  MaxChildPools,  \* preference connections.maxChildPools, 0 for no cap
  Keychain,       \* profiles whose password the OS keychain holds
  Operations,     \* what happens in an instance, out of AllOperations
  Workers,        \* command tasks that may run at the same time
  Reaper,         \* the task of the idle sweep
  PoolIds,        \* identities for pools
  NoDb, None      \* the database of a top-level pool; the absent value

Drivers == {"sql", "mongo", "sqlite"}
AllOperations == {"connect", "bridge", "disconnect", "view", "test",
                  "release", "sweep"}
MIN_MAX_CONNECTIONS == 2
TOP_LEVEL_REQUEST == 5

ASSUME ConstantsAssumption ==
  /\ IsFiniteSet(Profiles) /\ IsFiniteSet(Databases)
  /\ ServerOf \in [Profiles -> Servers]
  /\ DriverOf \in [Profiles -> Drivers]
  /\ Budget \in [Profiles -> Nat]
  /\ \A p \in Profiles : Budget[p] >= MIN_MAX_CONNECTIONS
  /\ ChildRequest \in Nat
  /\ MaxChildPools \in Nat
  /\ Keychain \subseteq Profiles
  /\ Operations \subseteq AllOperations
  /\ Reaper \notin Workers
  /\ NoDb \notin Databases
  /\ None \notin PoolIds \cup Profiles

Tasks == Workers \cup {Reaper}
Top(p) == <<p, NoDb>>
View(p, d) == <<p, d>>
Views == Profiles \X Databases
Conns == Views \cup (Profiles \X {NoDb})
Origins == {"User", "Bridge"}

VARIABLES
  registry,  \* ActiveConnections: connection id -> pool or None
  pool,      \* what the program knows of each pool id
  inUse,     \* EndpointRegistry: server -> connections reserved
  secrets,   \* profiles whose secrets are cached for the session
  older,     \* <<c, e>>: registered views, c unused for longer than e
  idle,      \* registered connections unused for longer than their TTL
  shut,      \* Mongo clients that were shut down
  pc,        \* where each task is
  arg,       \* what each task was asked to do
  mine,      \* the pool a task is opening, or the parent it is closing
  closing,   \* pools a task took out of the map and has yet to close
  doomed,    \* views a task will close to open its own, in that order
  victims    \* connections a sweep will close

vars == <<registry, pool, inUse, secrets, older, idle, shut,
          pc, arg, mine, closing, doomed, victims>>
taskVars == <<pc, arg, mine, closing, doomed, victims>>

Blank == [home |-> None, grant |-> 0, origin |-> "User",
          heart |-> FALSE, client |-> None]
Request(p, d, origin) == [p |-> p, d |-> d, origin |-> origin, ref |-> None]
NoRequest == Request(None, NoDb, "User")

-----------------------------------------------------------------------------
(* Operators on the shared state *)

Monus(m, n) == IF m >= n THEN m - n ELSE 0
AtMost(m, n) == IF m <= n THEN m ELSE n
AtLeast(m, n) == IF m >= n THEN m ELSE n

Live == {i \in PoolIds : pool[i].home # None}

\* An id can be used again once nothing refers to it, not even as the client
\* of a view.
Fresh == {i \in PoolIds \ Live :
            /\ \A j \in Live : pool[j].client # i
            /\ \A t \in Tasks : arg[t].ref # i}

\* Identities carry no meaning: one unused id stands for all of them.
NewId == CHOOSE i \in Fresh : TRUE

\* What a top-level pool asks for: a user's leaves room for one view.
TopRequest(p, origin) ==
  IF origin = "User"
  THEN AtLeast(MIN_MAX_CONNECTIONS,
               AtMost(TOP_LEVEL_REQUEST, Monus(Budget[p], ChildRequest)))
  ELSE AtMost(AtLeast(ChildRequest, MIN_MAX_CONNECTIONS), Budget[p])

ViewRequest == AtLeast(ChildRequest, MIN_MAX_CONNECTIONS)

\* Mutant: what other pools hold is not counted.
AvailableAlone(p, request) == AtMost(request, Budget[p])

\* What EndpointRegistry::reserve would hand out for a request.
Available(p, request) == AtMost(request, Monus(Budget[p], inUse[ServerOf[p]]))

\* SQLite has no server to ration.
Metered(p) == DriverOf[p] # "sqlite"

ViewsOf(p) == {c \in Views : c[1] = p /\ registry[c] # None}
IsView(c) == c[2] # NoDb

RegisteredViews == {c \in Views : registry[c] # None}

\* The orders in which S is sorted by last_used, longest unused first: one.
OldestFirst(S) == {s \in [1..Cardinality(S) -> S] :
                     \A m, n \in DOMAIN s : m < n => <<s[m], s[n]>> \in older}

\* Mutant: the view about to be opened is not counted.
ExcessBefore(p, extra) == Monus(Cardinality(ViewsOf(p)), MaxChildPools)

\* How many views p has past the cap, with `extra` more about to be opened.
Excess(p, extra) == Monus(Cardinality(ViewsOf(p)) + extra, MaxChildPools)

\* Those that would have to be closed: the ones unused for longest.
OverCap(p, extra) ==
  {c \in ViewsOf(p) :
     /\ MaxChildPools > 0
     /\ Cardinality({e \in ViewsOf(p) : <<e, c>> \in older}) < Excess(p, extra)}

\* The recency of the views outside S.
Without(S) == {pair \in older : pair[1] \notin S /\ pair[2] \notin S}

\* ActiveConnections::get stamps last_used.
Touch(c) ==
  /\ idle' = idle \ {c}
  /\ older' = IF IsView(c)
              THEN Without({c}) \cup ((RegisteredViews \ {c}) \X {c})
              ELSE older

\* Every connection of S leaves the map under one write lock.
Unregister(S) ==
  /\ registry' = [c \in Conns |-> IF c \in S THEN None ELSE registry[c]]
  /\ idle' = idle \ S
  /\ older' = Without(S)

\* EndpointGrant::drop: the registry counts down and never below zero.
Release(i) ==
  inUse' = [inUse EXCEPT ![ServerOf[pool[i].home]] = Monus(@, pool[i].grant)]

\* Dropping an ActivePool drops its grant.
Drop(i) == pool' = [pool EXCEPT ![i] = Blank] /\ Release(i)

\* Task t begins to open a pool for p.
Open(t, p, amount, origin) ==
  /\ Fresh # {}
  /\ pool' = [pool EXCEPT ![NewId] =
                [home |-> p, grant |-> amount, origin |-> origin,
                 heart |-> FALSE, client |-> NewId]]
  /\ mine' = [mine EXCEPT ![t] = NewId]
  /\ shut' = shut \ {NewId}

\* Mutant: what is counted is what was asked for.
ReserveCountsRequest(t, p, request, floor, origin) ==
  LET amount == Available(p, request) IN
  /\ amount >= floor
  /\ Open(t, p, amount, origin)
  /\ inUse' = [inUse EXCEPT ![ServerOf[p]] = @ + request]

\* EndpointRegistry::reserve: at least `floor` connections, for a new pool.
Reserve(t, p, request, floor, origin) ==
  LET amount == Available(p, request) IN
  /\ amount >= floor
  /\ Open(t, p, amount, origin)
  /\ inUse' = [inUse EXCEPT ![ServerOf[p]] = @ + amount]

\* The pool is opened without a grant.
OpenUnmetered(t, p, origin) == Open(t, p, 0, origin) /\ UNCHANGED inUse

Goto(t, label) == pc' = [pc EXCEPT ![t] = label]
Finish(t) == Goto(t, "idle") /\ arg' = [arg EXCEPT ![t] = NoRequest]
At(t, label) == pc[t] = label

-----------------------------------------------------------------------------
Init ==
  /\ registry = [c \in Conns |-> None]
  /\ pool = [i \in PoolIds |-> Blank]
  /\ inUse = [s \in Servers |-> 0]
  /\ secrets = {}
  /\ older = {}
  /\ idle = {}
  /\ shut = {}
  /\ pc = [t \in Tasks |-> "idle"]
  /\ arg = [t \in Tasks |-> NoRequest]
  /\ mine = [t \in Tasks |-> None]
  /\ closing = [t \in Tasks |-> {}]
  /\ doomed = [t \in Tasks |-> <<>>]
  /\ victims = [t \in Tasks |-> {}]

-----------------------------------------------------------------------------
(* connect, for a window (origin User) or for the MCP bridge (Bridge) *)

\* The map already holds the profile.  The bridge returns at once; a user may
\* be connecting to what the bridge opened and goes on to adopt it.
ConnectReuse(t, p) ==
  /\ At(t, "idle")
  /\ registry[Top(p)] # None
  /\ Goto(t, "adopt")
  /\ arg' = [arg EXCEPT ![t] = Request(p, NoDb, "User")]
  /\ UNCHANGED <<registry, pool, inUse, secrets, older, idle, shut,
                 mine, closing, doomed, victims>>

\* Mutant: the adopted pool is left without a heartbeat.
ConnectAdoptOnly(t) ==
  LET i == registry[Top(arg[t].p)] IN
  /\ At(t, "adopt")
  /\ pool' = IF i # None THEN [pool EXCEPT ![i].origin = "User"] ELSE pool
  /\ Finish(t)
  /\ UNCHANGED <<registry, inUse, secrets, older, idle, shut,
                 mine, closing, doomed, victims>>

\* adopt_from_bridge: nothing to adopt when the pool is gone or a user's.
ConnectAdopt(t) ==
  LET i == registry[Top(arg[t].p)]
      adoptable == i # None /\ pool[i].origin = "Bridge"
  IN
  /\ At(t, "adopt")
  /\ \/ /\ adoptable
        /\ pool' = [pool EXCEPT ![i].origin = "User"]
        /\ Goto(t, "attach")
        /\ UNCHANGED arg
     \/ ~adoptable /\ Finish(t) /\ UNCHANGED pool
  /\ UNCHANGED <<registry, inUse, secrets, older, idle, shut,
                 mine, closing, doomed, victims>>

\* attach_keepalive looks the profile up again, under a lock of its own.
ConnectAttach(t) ==
  LET i == registry[Top(arg[t].p)] IN
  /\ At(t, "attach")
  /\ pool' = IF i = None THEN pool
             ELSE [pool EXCEPT ![i].heart = TRUE]
  /\ Finish(t)
  /\ UNCHANGED <<registry, inUse, secrets, older, idle, shut,
                 mine, closing, doomed, victims>>

ConnectNew(t, p, origin) ==
  /\ At(t, "idle")
  /\ registry[Top(p)] = None
  /\ Goto(t, "reserve")
  /\ arg' = [arg EXCEPT ![t] = Request(p, NoDb, origin)]
  /\ UNCHANGED <<registry, pool, inUse, secrets, older, idle, shut,
                 mine, closing, doomed, victims>>

\* reserve_top_level; a refused reservation ends the command with an error.
ConnectReserve(t) ==
  LET p == arg[t].p
      request == TopRequest(p, arg[t].origin)
  IN
  /\ At(t, "reserve")
  /\ \/ /\ ~Metered(p)
        /\ OpenUnmetered(t, p, arg[t].origin)
        /\ Goto(t, "dial")
        /\ UNCHANGED arg
     \/ /\ Metered(p)
        /\ Reserve(t, p, request, MIN_MAX_CONNECTIONS, arg[t].origin)
        /\ Goto(t, "dial")
        /\ UNCHANGED arg
     \/ /\ Metered(p)
        /\ Available(p, request) < MIN_MAX_CONNECTIONS
        /\ Finish(t)
        /\ UNCHANGED <<pool, inUse, mine, shut>>
  /\ UNCHANGED <<registry, secrets, older, idle, closing, doomed, victims>>

\* open_pool succeeded: the secrets it used are cached first.
ConnectDialled(t) ==
  /\ At(t, "dial")
  /\ secrets' = secrets \cup {arg[t].p}
  /\ Goto(t, "insert")
  /\ UNCHANGED <<registry, pool, inUse, older, idle, shut,
                 arg, mine, closing, doomed, victims>>

\* The pool enters the map; whatever was under the id is dropped unclosed.
\* A user's pool has a heartbeat, the bridge's has none.
ConnectInsert(t) ==
  LET c == Top(arg[t].p)
      i == mine[t]
      old == registry[c]
      inserted == [pool EXCEPT ![i].heart = arg[t].origin = "User"]
  IN
  /\ At(t, "insert")
  /\ registry' = [registry EXCEPT ![c] = i]
  /\ IF old = None
     THEN pool' = inserted /\ UNCHANGED inUse
     ELSE pool' = [inserted EXCEPT ![old] = Blank] /\ Release(old)
  /\ idle' = idle \ {c}
  /\ mine' = [mine EXCEPT ![t] = None]
  /\ Finish(t)
  /\ UNCHANGED <<secrets, older, shut, closing, doomed, victims>>

\* Mutant: a failed attempt keeps its pool.
GiveUpLeaks(t) ==
  /\ pc[t] \in {"dial", "dialView", "probe"}
  /\ mine' = [mine EXCEPT ![t] = None]
  /\ Finish(t)
  /\ UNCHANGED <<registry, pool, inUse, secrets, older, idle, shut,
                 closing, doomed, victims>>

\* open_pool failed, for connect, open_database_view or test_connection, or
\* the test is over: the grant of the attempt is dropped.
GiveUp(t) ==
  /\ pc[t] \in {"dial", "dialView", "probe"}
  /\ Drop(mine[t])
  /\ mine' = [mine EXCEPT ![t] = None]
  /\ Finish(t)
  /\ UNCHANGED <<registry, secrets, older, idle, shut, closing, doomed, victims>>

\* test_connection meters its one connection, with a floor of one.
TestConnection(t, p) ==
  /\ At(t, "idle")
  /\ Metered(p)
  /\ Reserve(t, p, 1, 1, "User")
  /\ Goto(t, "probe")
  /\ arg' = [arg EXCEPT ![t] = Request(p, NoDb, "User")]
  /\ UNCHANGED <<registry, secrets, older, idle, closing, doomed, victims>>

-----------------------------------------------------------------------------
(* disconnect *)

DisconnectForget(t, p) ==
  /\ At(t, "idle")
  /\ secrets' = secrets \ {p}
  /\ Goto(t, "unregister")
  /\ arg' = [arg EXCEPT ![t] = Request(p, NoDb, "User")]
  /\ UNCHANGED <<registry, pool, inUse, older, idle, shut,
                 mine, closing, doomed, victims>>

\* The parent leaves the map; the task holds it until its views are closed.
DisconnectUnregister(t) ==
  LET c == Top(arg[t].p) IN
  /\ At(t, "unregister")
  /\ Unregister({c})
  /\ mine' = [mine EXCEPT ![t] = registry[c]]
  /\ Goto(t, "takeViews")
  /\ UNCHANGED <<pool, inUse, secrets, shut, arg, closing, doomed, victims>>

\* Mutant: only the idle views are taken.
TakeIdleViews(t) ==
  LET views == ViewsOf(arg[t].p) \cap idle IN
  /\ pc[t] \in {"takeViews", "reapViews"}
  /\ Unregister(views)
  /\ closing' = [closing EXCEPT ![t] = {registry[c] : c \in views}]
  /\ Goto(t, IF At(t, "takeViews") THEN "closeParent" ELSE "reapParent")
  /\ UNCHANGED <<pool, inUse, secrets, shut, arg, mine, doomed, victims>>

\* close_children takes every view of the profile out of the map at once,
\* for disconnect and for the reaping of a bridge parent.
TakeViews(t) ==
  LET views == ViewsOf(arg[t].p) IN
  /\ pc[t] \in {"takeViews", "reapViews"}
  /\ Unregister(views)
  /\ closing' = [closing EXCEPT ![t] = {registry[c] : c \in views}]
  /\ Goto(t, IF At(t, "takeViews") THEN "closeParent" ELSE "reapParent")
  /\ UNCHANGED <<pool, inUse, secrets, shut, arg, mine, doomed, victims>>

\* Mutant: closing a view shuts its client down.
CloseViewAndClient(t) ==
  /\ \E i \in closing[t] :
       /\ Drop(i)
       /\ shut' = shut \cup ({pool[i].client} \ {None})
       /\ closing' = [closing EXCEPT ![t] = @ \ {i}]
  /\ UNCHANGED <<registry, secrets, older, idle, pc, arg, mine, doomed, victims>>

\* close_pool on one of the pools taken, then its drop.  A view borrows the
\* client of its parent, so closing it never shuts that client down.
CloseView(t) ==
  /\ \E i \in closing[t] :
       /\ Drop(i)
       /\ closing' = [closing EXCEPT ![t] = @ \ {i}]
  /\ UNCHANGED <<registry, secrets, older, idle, shut, pc, arg, mine, doomed, victims>>

\* close_pool on a parent shuts down the client it owns.
Shutdown(i) ==
  shut' = IF DriverOf[pool[i].home] = "mongo" THEN shut \cup {i} ELSE shut

DisconnectClose(t) ==
  /\ At(t, "closeParent")
  /\ closing[t] = {}
  /\ IF mine[t] = None THEN UNCHANGED <<pool, inUse, shut>>
     ELSE Drop(mine[t]) /\ Shutdown(mine[t])
  /\ mine' = [mine EXCEPT ![t] = None]
  /\ Finish(t)
  /\ UNCHANGED <<registry, secrets, older, idle, closing, doomed, victims>>

-----------------------------------------------------------------------------
(* open_database_view; ensure_database_view, which every command runs before *)
(* it uses a view, is the same                                               *)

\* Every child pool of SQLite is its parent: nothing to open.
OpenView(t, p, d) ==
  /\ At(t, "idle")
  /\ DriverOf[p] # "sqlite"
  /\ IF registry[View(p, d)] # None
     THEN Touch(View(p, d)) /\ UNCHANGED <<pc, arg>>
     ELSE /\ Goto(t, IF DriverOf[p] = "mongo" THEN "mongoChild" ELSE "secret")
          /\ arg' = [arg EXCEPT ![t] = Request(p, d, "User")]
          /\ UNCHANGED <<idle, older>>
  /\ UNCHANGED <<registry, pool, inUse, secrets, shut, mine, closing, doomed, victims>>

\* resolve_mongo_database_view looks for the view once more.
MongoChild(t) ==
  LET c == View(arg[t].p, arg[t].d) IN
  /\ At(t, "mongoChild")
  /\ IF registry[c] # None
     THEN Touch(c) /\ Finish(t)
     ELSE Goto(t, "mongoParent") /\ UNCHANGED <<idle, older, arg>>
  /\ UNCHANGED <<registry, pool, inUse, secrets, shut, mine, closing, doomed, victims>>

\* A Mongo view is a clone of its parent's client, which must be connected.
MongoParent(t) ==
  LET c == Top(arg[t].p) IN
  /\ At(t, "mongoParent")
  /\ IF registry[c] = None
     THEN Finish(t) /\ UNCHANGED <<idle, older>>
     ELSE /\ Touch(c)
          /\ arg' = [arg EXCEPT ![t].ref = pool[registry[c]].client]
          /\ Goto(t, "mongoInsert")
  /\ UNCHANGED <<registry, pool, inUse, secrets, shut, mine, closing, doomed, victims>>

\* The view enters the map without a grant; a view of the same database that
\* entered it meanwhile is dropped.
MongoInsert(t) ==
  LET c == View(arg[t].p, arg[t].d)
      view == [Blank EXCEPT !.home = arg[t].p, !.client = arg[t].ref]
  IN
  /\ At(t, "mongoInsert")
  /\ Fresh # {}
  /\ registry' = [registry EXCEPT ![c] = NewId]
  /\ pool' = [i \in PoolIds |-> IF i = NewId THEN view
                                ELSE IF i = registry[c] THEN Blank ELSE pool[i]]
  /\ shut' = shut \ {NewId}
  /\ Touch(c)
  /\ Finish(t)
  /\ UNCHANGED <<inUse, secrets, mine, closing, doomed, victims>>

\* Credentials: those cached by connect, else the keychain's.
ViewSecret(t) ==
  /\ At(t, "secret")
  /\ IF arg[t].p \in secrets \cup Keychain
     THEN Goto(t, "cap") /\ UNCHANGED arg
     ELSE Finish(t)
  /\ UNCHANGED <<registry, pool, inUse, secrets, older, idle, shut,
                 mine, closing, doomed, victims>>

\* The views to close to stay under the cap are chosen under the read lock...
ViewCap(t) ==
  /\ At(t, "cap")
  /\ \E order \in OldestFirst(OverCap(arg[t].p, 1)) :
       doomed' = [doomed EXCEPT ![t] = order]
  /\ Goto(t, "evict")
  /\ UNCHANGED <<registry, pool, inUse, secrets, older, idle, shut,
                 arg, mine, closing, victims>>

\* Mutant: the view is read from the map and stays in it.
ReadFirstDoomed(t) ==
  /\ UNCHANGED <<registry, idle, older>>
  /\ closing' = [closing EXCEPT ![t] = {registry[Head(doomed[t])]} \ {None}]
  /\ doomed' = [doomed EXCEPT ![t] = Tail(@)]

\* Mutant: the view stays on the list, to be closed again.
TakeSameDoomed(t) ==
  LET c == Head(doomed[t]) IN
  /\ Unregister({c})
  /\ closing' = [closing EXCEPT ![t] = {registry[c]} \ {None}]
  /\ UNCHANGED doomed

\* close_view on the first doomed view, if it is still in the map.
TakeFirstDoomed(t) ==
  LET c == Head(doomed[t]) IN
  /\ Unregister({c})
  /\ closing' = [closing EXCEPT ![t] = {registry[c]} \ {None}]
  /\ doomed' = [doomed EXCEPT ![t] = Tail(@)]

\* ...and closed one after the other, before the reservation is attempted.
ViewEvict(t) ==
  /\ At(t, "evict")
  /\ closing[t] = {}
  /\ doomed[t] # <<>>
  /\ TakeFirstDoomed(t)
  /\ UNCHANGED <<pool, inUse, secrets, shut, pc, arg, mine, victims>>

\* Views that draw on the same server could pay for this one.
ViewReclaimable(t) ==
  LET p == arg[t].p
      metered == {c \in Views : /\ ServerOf[c[1]] = ServerOf[p]
                                /\ registry[c] # None
                                /\ pool[registry[c]].grant > 0}
  IN
  /\ At(t, "evict")
  /\ closing[t] = {}
  /\ doomed[t] = <<>>
  /\ \E order \in OldestFirst(metered \ {View(p, arg[t].d)}) :
       doomed' = [doomed EXCEPT ![t] = order]
  /\ Goto(t, "reserveView")
  /\ UNCHANGED <<registry, pool, inUse, secrets, older, idle, shut,
                 arg, mine, closing, victims>>

\* The retry loop: reserve, or close the next view that could pay, or fail.
ViewReserve(t) ==
  LET p == arg[t].p
      refused == Available(p, ViewRequest) < MIN_MAX_CONNECTIONS
  IN
  /\ At(t, "reserveView")
  /\ closing[t] = {}
  /\ \/ /\ Reserve(t, p, ViewRequest, MIN_MAX_CONNECTIONS, "User")
        /\ Goto(t, "dialView")
        /\ doomed' = [doomed EXCEPT ![t] = <<>>]
        /\ UNCHANGED <<registry, older, idle, arg, closing>>
     \/ /\ refused
        /\ doomed[t] # <<>>
        /\ TakeFirstDoomed(t)
        /\ UNCHANGED <<pool, inUse, shut, mine, pc, arg>>
     \/ /\ refused
        /\ doomed[t] = <<>>
        /\ Finish(t)
        /\ UNCHANGED <<registry, pool, inUse, older, idle, shut,
                       mine, closing, doomed>>
  /\ UNCHANGED <<secrets, victims>>

\* open_pool succeeded and the view enters the map.
ViewInsert(t) ==
  LET c == View(arg[t].p, arg[t].d)
      old == registry[c]
  IN
  /\ At(t, "dialView")
  /\ registry' = [registry EXCEPT ![c] = mine[t]]
  /\ IF old = None THEN UNCHANGED <<pool, inUse>> ELSE Drop(old)
  /\ Touch(c)
  /\ mine' = [mine EXCEPT ![t] = None]
  /\ Finish(t)
  /\ UNCHANGED <<secrets, shut, closing, doomed, victims>>

-----------------------------------------------------------------------------
(* The idle sweep and release_idle_pools *)

BridgeTops == {c \in Conns : /\ ~IsView(c)
                             /\ registry[c] # None
                             /\ pool[registry[c]].origin = "Bridge"}

\* Mutant: the sweep only looks at views.
SweepSelectViews ==
  LET connected == {p \in Profiles : registry[Top(p)] # None}
      chosen == (RegisteredViews \cap idle)
                \cup UNION {OverCap(p, 0) : p \in connected}
  IN
  /\ At(Reaper, "idle")
  /\ chosen # {}
  /\ victims' = [victims EXCEPT ![Reaper] = chosen]
  /\ Goto(Reaper, "reap")
  /\ UNCHANGED <<registry, pool, inUse, secrets, older, idle, shut,
                 arg, mine, closing, doomed>>

\* select_victims, under one read lock: idle views, idle pools of the bridge,
\* and the views past the cap of each connected parent.
SweepSelect ==
  LET connected == {p \in Profiles : registry[Top(p)] # None}
      chosen == ((RegisteredViews \cup BridgeTops) \cap idle)
                \cup UNION {OverCap(p, 0) : p \in connected}
  IN
  /\ At(Reaper, "idle")
  /\ chosen # {}
  /\ victims' = [victims EXCEPT ![Reaper] = chosen]
  /\ Goto(Reaper, "reap")
  /\ UNCHANGED <<registry, pool, inUse, secrets, older, idle, shut,
                 arg, mine, closing, doomed>>

\* release_idle_pools: every view, however recent, and every pool of the bridge.
ReleaseSelect(t) ==
  /\ At(t, "idle")
  /\ victims' = [victims EXCEPT ![t] = RegisteredViews \cup BridgeTops]
  /\ Goto(t, "release")
  /\ UNCHANGED <<registry, pool, inUse, secrets, older, idle, shut,
                 arg, mine, closing, doomed>>

\* Mutant: a view that left the map since it was chosen is not passed over.
TakeChosenViews(t) ==
  LET views == victims[t] \cap Views IN
  /\ \/ At(t, "release")
     \/ At(t, "reap") /\ closing[t] = {} /\ victims[t] = views /\ views # {}
  /\ Unregister(views)
  /\ closing' = [closing EXCEPT ![t] = {registry[c] : c \in views}]
  /\ victims' = [victims EXCEPT ![t] = @ \ views]
  /\ Goto(t, "reap")
  /\ UNCHANGED <<pool, inUse, secrets, shut, arg, mine, doomed>>

\* The views chosen leave the map at once, to be closed one by one.  The sweep
\* does this once its parents are closed, release_idle_pools before.
TakeVictimViews(t) ==
  LET views == victims[t] \cap Views IN
  /\ \/ At(t, "release")
     \/ At(t, "reap") /\ closing[t] = {} /\ victims[t] = views /\ views # {}
  /\ Unregister(views)
  /\ closing' = [closing EXCEPT ![t] = {registry[c] : c \in views} \ {None}]
  /\ victims' = [victims EXCEPT ![t] = @ \ views]
  /\ Goto(t, "reap")
  /\ UNCHANGED <<pool, inUse, secrets, shut, arg, mine, doomed>>

\* reap_bridge_parent on the next of the parents, by its id alone.
ReapNext(t) ==
  /\ At(t, "reap")
  /\ closing[t] = {}
  /\ \E c \in victims[t] \ Views :
       /\ victims' = [victims EXCEPT ![t] = @ \ {c}]
       /\ arg' = [arg EXCEPT ![t] = Request(c[1], NoDb, "User")]
  /\ Goto(t, "reapViews")
  /\ UNCHANGED <<registry, pool, inUse, secrets, older, idle, shut,
                 mine, closing, doomed>>

\* Once its views are closed (TakeViews, CloseView) the parent leaves the map.
ReapUnregister(t) ==
  LET c == Top(arg[t].p) IN
  /\ At(t, "reapParent")
  /\ closing[t] = {}
  /\ Unregister({c})
  /\ mine' = [mine EXCEPT ![t] = registry[c]]
  /\ Goto(t, IF registry[c] = None THEN "reap" ELSE "reapClose")
  /\ UNCHANGED <<pool, inUse, secrets, shut, arg, closing, doomed, victims>>

\* Its close is awaited and its secrets are forgotten...
ReapClose(t) ==
  /\ At(t, "reapClose")
  /\ Shutdown(mine[t])
  /\ secrets' = secrets \ {arg[t].p}
  /\ Goto(t, "reapDrop")
  /\ UNCHANGED <<registry, pool, inUse, older, idle,
                 arg, mine, closing, doomed, victims>>

\* ...and it is dropped.
ReapDrop(t) ==
  /\ At(t, "reapDrop")
  /\ Drop(mine[t])
  /\ mine' = [mine EXCEPT ![t] = None]
  /\ Goto(t, "reap")
  /\ UNCHANGED <<registry, secrets, older, idle, shut,
                 arg, closing, doomed, victims>>

SweepDone(t) ==
  /\ At(t, "reap")
  /\ closing[t] = {}
  /\ victims[t] = {}
  /\ Finish(t)
  /\ UNCHANGED <<registry, pool, inUse, secrets, older, idle, shut,
                 mine, closing, doomed, victims>>

-----------------------------------------------------------------------------
(* Use and disuse *)

\* A command resolves its pool, which counts as use.
Use(c) ==
  /\ registry[c] # None
  /\ Touch(c)
  /\ UNCHANGED <<registry, pool, inUse, secrets, shut, taskVars>>

\* Nobody used c for its whole TTL, which matters to the sweep alone.
GrowIdle(c) ==
  /\ registry[c] # None
  /\ idle' = idle \cup {c}
  /\ UNCHANGED <<registry, pool, inUse, secrets, older, shut, taskVars>>

-----------------------------------------------------------------------------
Start(t) ==
  \/ \E p \in Profiles :
       \/ "connect" \in Operations /\ (ConnectReuse(t, p) \/ ConnectNew(t, p, "User"))
       \/ "bridge" \in Operations /\ ConnectNew(t, p, "Bridge")
       \/ "test" \in Operations /\ TestConnection(t, p)
       \/ "disconnect" \in Operations /\ DisconnectForget(t, p)
       \/ "view" \in Operations /\ \E d \in Databases : OpenView(t, p, d)
  \/ "release" \in Operations /\ ReleaseSelect(t)

\* The next step of what t has begun.
Step(t) ==
  \/ ConnectAdopt(t) \/ ConnectAttach(t) \/ ConnectReserve(t)
  \/ ConnectDialled(t) \/ ConnectInsert(t) \/ GiveUp(t)
  \/ DisconnectUnregister(t) \/ TakeViews(t) \/ CloseView(t)
  \/ DisconnectClose(t)
  \/ MongoChild(t) \/ MongoParent(t) \/ MongoInsert(t)
  \/ ViewSecret(t) \/ ViewCap(t) \/ ViewEvict(t) \/ ViewReclaimable(t)
  \/ ViewReserve(t) \/ ViewInsert(t)
  \/ TakeVictimViews(t) \/ ReapNext(t) \/ ReapUnregister(t)
  \/ ReapClose(t) \/ ReapDrop(t) \/ SweepDone(t)

Next ==
  \/ \E t \in Workers : Start(t)
  \/ "sweep" \in Operations /\ SweepSelect
  \/ \E t \in Tasks : Step(t)
  \/ \E c \in Conns : Use(c)
  \/ "sweep" \in Operations /\ \E c \in Conns : GrowIdle(c)

\* Every await of a task is bounded (ACQUIRE_TIMEOUT, CLOSE_TIMEOUT) and the
\* sweep runs every SWEEP_INTERVAL.  Nobody has to issue a command.
Fairness ==
  /\ \A t \in Tasks : WF_vars(Step(t))
  /\ "sweep" \in Operations => WF_vars(SweepSelect)

Spec == Init /\ [][Next]_vars
FairSpec == Spec /\ Fairness

-----------------------------------------------------------------------------
(* Properties *)

Labels == {"idle", "adopt", "attach", "reserve", "dial", "insert", "probe",
           "unregister", "takeViews", "closeParent", "mongoChild",
           "mongoParent", "mongoInsert", "secret", "cap", "evict",
           "reserveView", "dialView", "release", "reap", "reapViews",
           "reapParent", "reapClose", "reapDrop"}

PoolRecords == [home : Profiles \cup {None}, grant : Nat, origin : Origins,
                heart : BOOLEAN, client : PoolIds \cup {None}]
Requests == [p : Profiles \cup {None}, d : Databases \cup {NoDb},
             origin : Origins, ref : PoolIds \cup {None}]

TypeOK ==
  /\ registry \in [Conns -> PoolIds \cup {None}]
  /\ pool \in [PoolIds -> PoolRecords]
  /\ inUse \in [Servers -> Nat]
  /\ secrets \subseteq Profiles
  /\ older \subseteq Views \X Views
  /\ idle \subseteq Conns
  /\ shut \subseteq PoolIds
  /\ pc \in [Tasks -> Labels]
  /\ arg \in [Tasks -> Requests]
  /\ mine \in [Tasks -> PoolIds \cup {None}]
  /\ closing \in [Tasks -> SUBSET PoolIds]
  /\ doomed \in [Tasks -> Seq(Views)]
  /\ victims \in [Tasks -> SUBSET Conns]

\* A pool, and the capacity it reserves, has one owner at any time: the map,
\* the task that opens it or the task that closes it.  Two owners would close
\* it and give its capacity back twice.
NeverOwnedTwice ==
  /\ \A c, e \in Conns : registry[c] # None /\ registry[c] = registry[e] => c = e
  /\ \A t, u \in Tasks :
       /\ mine[t] # None /\ mine[t] = mine[u] => t = u
       /\ closing[t] \cap closing[u] # {} => t = u
       /\ mine[t] \notin closing[u]
  /\ \A c \in Conns, t \in Tasks : registry[c] # None =>
       registry[c] # mine[t] /\ registry[c] \notin closing[t]

\* A pool with no owner would hold its share of the server's budget until the
\* program exits: every early return, failure and replacement drops its pool.
\* Conversely nobody owns a pool that was dropped.
OwnedIffLive ==
  \A i \in PoolIds : i \in Live <=>
    \/ \E c \in Conns : registry[c] = i
    \/ \E t \in Tasks : mine[t] = i \/ i \in closing[t]

\* However reservations, evictions and releases interleave, what is reserved
\* on a server stays within the largest budget of the profiles that share it.
BudgetRespected ==
  \A s \in Servers : inUse[s] = 0 \/
    \E p \in Profiles : ServerOf[p] = s /\ inUse[s] <= Budget[p]

\* The grants of the pools, as entries of the ledger.
Entries == {[grant |-> i, server |-> ServerOf[pool[i].home], amount |-> pool[i].grant] :
              i \in {j \in Live : pool[j].grant > 0}}

Ledger ==
  INSTANCE EndpointLedger WITH
    Grants <- PoolIds,
    Budgets <- [s \in Servers |-> {Budget[p] : p \in {q \in Profiles : ServerOf[q] = s}}],
    entries <- Entries

\* What is reserved on a server is what the live pools on it hold: the counter
\* never drifts from the grants, however drops and reservations interleave.
GrantsAccounted == \A s \in Servers : inUse[s] = Ledger!Outstanding(s)

\* Every step on the pools is a step of the ledger or none: capacity is only
\* ever handed out under a budget, and given back once, one pool at a time.
KeepsLedger == Ledger!Spec

\* A connection a person opened or adopted has lost-connection detection,
\* unless the adoption is about to attach it.
UserPoolHasHeartbeat ==
  \A p \in Profiles : registry[Top(p)] # None =>
    LET i == registry[Top(p)] IN
    \/ pool[i].origin = "Bridge"
    \/ pool[i].heart
    \/ \E t \in Tasks : At(t, "attach") /\ arg[t].p = p

\* Closing a view never closes the Mongo client of the connection it borrows
\* it from: a connection in the map has a client that was not shut down.
ConnectedClientOpen ==
  \A p \in Profiles : registry[Top(p)] # None =>
    pool[registry[Top(p)]].client \notin shut

\* connect must not replace a live pool (it would tear it down under the
\* window that shows it), nor may the opening of a view.
NeverReplacesLivePool ==
  [][\A c \in Conns : registry[c] # None =>
       registry'[c] \in {registry[c], None}]_vars

\* disconnect also closes the pool of every view of the profile.
DisconnectLeavesNoViews ==
  [][\A t \in Workers : At(t, "closeParent") /\ pc'[t] = "idle" =>
       ViewsOf(arg[t].p) = {}]_vars

\* A profile never holds more views than the cap (a MongoDB view is not counted: it
\* shares its parent's client).
CapRespected ==
  MaxChildPools > 0 =>
    \A p \in Profiles :
      DriverOf[p] # "mongo" => Cardinality(ViewsOf(p)) <= MaxChildPools

\* The sweep and release_idle_pools close no top-level pool a person opened.
ReapedOnlyIfBridgeOpened ==
  [][\A t \in Tasks : At(t, "reapParent") /\ mine'[t] # None =>
       pool[mine'[t]].origin = "Bridge"]_vars

\* No command or sweep gets stuck: retry loops run out of pools to close.
CommandsFinish == \A t \in Tasks : pc[t] # "idle" ~> pc[t] = "idle"

\* A pool only the connector wanted is not kept forever: once idle, it is
\* used again, adopted by a person or closed.
IdleBridgeReaped ==
  \A p \in Profiles : (Top(p) \in BridgeTops \cap idle)
    ~> (Top(p) \notin BridgeTops \cap idle)
=============================================================================
