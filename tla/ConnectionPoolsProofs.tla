----------------------- MODULE ConnectionPoolsProofs -----------------------
(***************************************************************************)
(* Proofs about ConnectionPools, for every number of profiles, databases,  *)
(* workers and pools, and every budget.                                    *)
(***************************************************************************)
EXTENDS ConnectionPools, FiniteSetTheorems, TLAPS

(* The inductive invariant.  A task owns a pool exactly at the labels below: *)
(* elsewhere it could neither be given one nor overwrite one.                *)

Holding == {"dial", "insert", "probe", "dialView", "reapClose", "reapDrop"}
MayHold == {"takeViews", "closeParent"}
MayClose == {"closeParent", "reapParent", "evict", "reserveView", "reap"}
Detached == {"idle", "release", "reap"}
OnView == {"mongoChild", "mongoParent", "mongoInsert", "secret", "cap",
           "evict", "reserveView", "dialView"}

Control ==
  \A t \in Tasks :
    /\ pc[t] \in Holding => mine[t] # None
    /\ mine[t] # None => pc[t] \in Holding \cup MayHold
    /\ closing[t] # {} => pc[t] \in MayClose
    /\ pc[t] \notin Detached => arg[t].p \in Profiles
    /\ pc[t] \in OnView => arg[t].d \in Databases

Ownership == NeverOwnedTwice /\ OwnedIffLive
IInv == TypeOK /\ Control /\ Ownership /\ BudgetRespected

-----------------------------------------------------------------------------
(* Lemmas on the operators *)

\* An unused id, when there is one, is one that no live pool has.
LEMMA FreshId ==
  ASSUME Fresh # {}
  PROVE  NewId \in PoolIds /\ NewId \notin Live
<1>1. NewId \in Fresh
  BY Zenon DEF NewId
<1> QED
  BY <1>1 DEF Fresh

\* Views and top-level connections are connections.
LEMMA ConnTypes ==
  /\ Views \subseteq Conns
  /\ \A p \in Profiles : Top(p) \in Conns
  /\ \A p \in Profiles, d \in Databases : View(p, d) \in Views
  /\ \A c \in Conns : IsView(c) => c \in Views
  /\ \A c \in Views : c[1] \in Profiles /\ IsView(c)
  /\ \A c \in Conns : c[1] \in Profiles
BY ConstantsAssumption DEF Conns, Views, Top, View, IsView

\* Sorting views by their last use yields a sequence of views.
LEMMA OldestFirstType ==
  ASSUME NEW S \in SUBSET Views, NEW order \in OldestFirst(S)
  PROVE  order \in Seq(Views)
<1>1. IsFiniteSet(Views)
  BY ConstantsAssumption, FS_Product DEF Views
<1>2. Cardinality(S) \in Nat
  BY <1>1, FS_Subset, FS_CardinalityType
<1>3. order \in [1..Cardinality(S) -> S]
  BY DEF OldestFirst
<1> QED
  BY <1>2, <1>3

\* Arithmetic of a reservation: what is available fits under the budget.
LEMMA AvailableFits ==
  ASSUME TypeOK, NEW p \in Profiles, NEW request \in Nat
  PROVE  /\ Available(p, request) \in Nat
         /\ Available(p, request) > 0 =>
              inUse[ServerOf[p]] + Available(p, request) <= Budget[p]
BY ConstantsAssumption DEF TypeOK, Available, AtMost, Monus

-----------------------------------------------------------------------------
(* Ownership: how each kind of step moves pools between their owners *)

\* Nothing changes hands.
LEMMA QuietKeepsOwnership ==
  ASSUME Ownership, UNCHANGED <<registry, mine, closing>>, Live' = Live
  PROVE  Ownership'
BY DEF Ownership, NeverOwnedTwice, OwnedIffLive

\* A pool is opened: it belongs to the task that dials.
LEMMA OpenKeepsOwnership ==
  ASSUME TypeOK, Ownership, NEW t \in Tasks, mine[t] = None,
         NEW p \in Profiles, NEW amount, NEW origin,
         Open(t, p, amount, origin), UNCHANGED <<registry, closing>>
  PROVE  Ownership'
<1> DEFINE i == NewId
<1>1. i \in PoolIds /\ i \notin Live
  BY FreshId DEF Open
<1>2. Live' = Live \cup {i} /\ i # None /\ None \notin Live
  BY <1>1, ConstantsAssumption DEF Open, Live, TypeOK
<1>3. mine' = [mine EXCEPT ![t] = i]
  BY DEF Open
<1>4. /\ \A c \in Conns : registry[c] # i
      /\ \A u \in Tasks : mine[u] # i /\ i \notin closing[u]
  BY <1>1 DEF Ownership, OwnedIffLive
<1> HIDE DEF i
<1>5. NeverOwnedTwice'
  BY <1>1, <1>2, <1>3, <1>4, ConstantsAssumption DEF Ownership, NeverOwnedTwice, TypeOK
<1>6. OwnedIffLive'
  BY <1>1, <1>2, <1>3, <1>4 DEF Ownership, OwnedIffLive, TypeOK
<1> QED
  BY <1>5, <1>6 DEF Ownership

\* A task hands the pool it opened to the map; the pool it replaces is dropped.
LEMMA InsertKeepsOwnership ==
  ASSUME TypeOK, Ownership, NEW t \in Tasks, mine[t] # None, NEW c \in Conns,
         registry' = [registry EXCEPT ![c] = mine[t]],
         mine' = [mine EXCEPT ![t] = None],
         UNCHANGED closing, Live' = Live \ {registry[c]}
  PROVE  Ownership'
<1> DEFINE i == mine[t]
<1>1. i \in Live /\ i \in PoolIds /\ i # registry[c]
  BY DEF Ownership, NeverOwnedTwice, OwnedIffLive, TypeOK
<1>2. /\ \A e \in Conns : registry'[e] = IF e = c THEN i ELSE registry[e]
      /\ \A u \in Tasks : mine'[u] = IF u = t THEN None ELSE mine[u]
  BY DEF TypeOK
<1>3. NeverOwnedTwice'
  BY <1>1, <1>2, ConstantsAssumption DEF Ownership, NeverOwnedTwice, TypeOK
<1>4. ASSUME NEW j \in PoolIds
      PROVE  (j \in Live <=> \/ \E e \in Conns : registry[e] = j
                             \/ \E u \in Tasks : mine[u] = j \/ j \in closing[u])'
  <2>1. CASE j = i
    BY <1>1, <1>2, <2>1
  <2>2. CASE j = registry[c]
    BY <1>1, <1>2, <2>2, ConstantsAssumption DEF Ownership, NeverOwnedTwice
  <2>3. CASE j # i /\ j # registry[c]
    BY <1>1, <1>2, <2>3, ConstantsAssumption DEF Ownership, OwnedIffLive
  <2> QED
    BY <2>1, <2>2, <2>3
<1> QED
  BY <1>3, <1>4 DEF Ownership, OwnedIffLive

\* The same, for a pool that is created in the map (a Mongo view).
LEMMA CreateKeepsOwnership ==
  ASSUME TypeOK, Ownership, NEW c \in Conns, NEW i \in PoolIds, i \notin Live,
         registry' = [registry EXCEPT ![c] = i],
         UNCHANGED <<mine, closing>>, Live' = (Live \cup {i}) \ {registry[c]}
  PROVE  Ownership'
<1>1. /\ \A e \in Conns : registry[e] # i
      /\ \A u \in Tasks : mine[u] # i /\ i \notin closing[u]
  BY DEF Ownership, OwnedIffLive
<1>2. \A e \in Conns : registry'[e] = IF e = c THEN i ELSE registry[e]
  BY DEF TypeOK
<1>3. NeverOwnedTwice'
  BY <1>1, ConstantsAssumption DEF Ownership, NeverOwnedTwice, TypeOK
<1>4. ASSUME NEW j \in PoolIds
      PROVE  (j \in Live <=> \/ \E e \in Conns : registry[e] = j
                             \/ \E u \in Tasks : mine[u] = j \/ j \in closing[u])'
  <2>1. CASE j = i
    BY <1>1, <1>2, <2>1
  <2>2. CASE j = registry[c]
    BY <1>1, <1>2, <2>2, ConstantsAssumption DEF Ownership, NeverOwnedTwice
  <2>3. CASE j # i /\ j # registry[c]
    BY <1>1, <1>2, <2>3 DEF Ownership, OwnedIffLive
  <2> QED
    BY <2>1, <2>2, <2>3
<1> QED
  BY <1>3, <1>4 DEF Ownership, OwnedIffLive

\* A task drops the pool it was opening, or the parent it closed.
LEMMA DropMineKeepsOwnership ==
  ASSUME TypeOK, Ownership, NEW t \in Tasks,
         mine' = [mine EXCEPT ![t] = None],
         UNCHANGED <<registry, closing>>, Live' = Live \ {mine[t]}
  PROVE  Ownership'
<1>1. \A u \in Tasks : mine'[u] = IF u = t THEN None ELSE mine[u]
  BY DEF TypeOK
<1>2. NeverOwnedTwice'
  BY ConstantsAssumption DEF Ownership, NeverOwnedTwice, TypeOK
<1>3. ASSUME NEW j \in PoolIds
      PROVE  (j \in Live <=> \/ \E e \in Conns : registry[e] = j
                             \/ \E u \in Tasks : mine[u] = j \/ j \in closing[u])'
  <2>1. CASE j = mine[t]
    BY <1>1, <2>1, ConstantsAssumption DEF Ownership, NeverOwnedTwice
  <2>2. CASE j # mine[t]
    BY <1>1, <2>2, ConstantsAssumption DEF Ownership, OwnedIffLive
  <2> QED
    BY <2>1, <2>2
<1> QED
  BY <1>2, <1>3 DEF Ownership, OwnedIffLive

\* A parent leaves the map for the task that will close it.
LEMMA TakeParentKeepsOwnership ==
  ASSUME TypeOK, Ownership, NEW t \in Tasks, mine[t] = None, NEW c \in Conns,
         Unregister({c}), mine' = [mine EXCEPT ![t] = registry[c]],
         UNCHANGED closing, Live' = Live
  PROVE  Ownership'
<1>1. \A e \in Conns : registry'[e] = IF e = c THEN None ELSE registry[e]
  BY DEF Unregister
<1>2. NeverOwnedTwice'
  BY <1>1, ConstantsAssumption DEF Ownership, NeverOwnedTwice, TypeOK
<1>3. OwnedIffLive'
  BY <1>1, ConstantsAssumption DEF Ownership, OwnedIffLive, TypeOK
<1> QED
  BY <1>2, <1>3 DEF Ownership

\* Views leave the map for the task that will close them.
LEMMA TakeViewsKeepsOwnership ==
  ASSUME TypeOK, Ownership, NEW t \in Tasks, closing[t] = {}, NEW S \in SUBSET Conns,
         Unregister(S), UNCHANGED mine, Live' = Live,
         closing' = [closing EXCEPT ![t] = {registry[c] : c \in S} \ {None}]
  PROVE  Ownership'
<1>1. \A e \in Conns : registry'[e] = IF e \in S THEN None ELSE registry[e]
  BY DEF Unregister
<1>2. \A u \in Tasks : closing'[u] = IF u = t THEN {registry[c] : c \in S} \ {None}
                                   ELSE closing[u]
  BY DEF TypeOK
<1>3. NeverOwnedTwice'
  BY <1>1, <1>2, ConstantsAssumption DEF Ownership, NeverOwnedTwice, TypeOK
<1>4. ASSUME NEW j \in PoolIds
      PROVE  (j \in Live <=> \/ \E e \in Conns : registry[e] = j
                             \/ \E u \in Tasks : mine[u] = j \/ j \in closing[u])'
  <2>1. CASE j \in {registry[c] : c \in S} \ {None}
    <3>1. PICK c \in S : j = registry[c]
      BY <2>1
    <3>2. j \in Live
      BY <3>1 DEF Ownership, OwnedIffLive
    <3> QED
      BY <1>2, <2>1, <3>2
  <2>2. CASE j \notin {registry[c] : c \in S} \ {None}
    <3>1. \A e \in Conns : registry'[e] = j <=> registry[e] = j
      BY <1>1, <2>2, ConstantsAssumption
    <3>2. \A u \in Tasks : j \in closing'[u] <=> j \in closing[u]
      BY <1>2, <2>2
    <3> QED
      BY <3>1, <3>2 DEF Ownership, OwnedIffLive
  <2> QED
    BY <2>1, <2>2
<1> QED
  BY <1>3, <1>4 DEF Ownership, OwnedIffLive

\* One of the views a task took is closed and dropped.
LEMMA CloseKeepsOwnership ==
  ASSUME TypeOK, Ownership, NEW t \in Tasks, NEW i \in closing[t],
         closing' = [closing EXCEPT ![t] = @ \ {i}],
         UNCHANGED <<registry, mine>>, Live' = Live \ {i}
  PROVE  Ownership'
<1>1. \A u \in Tasks : closing'[u] = IF u = t THEN closing[t] \ {i} ELSE closing[u]
  BY DEF TypeOK
<1>2. NeverOwnedTwice'
  BY ConstantsAssumption DEF Ownership, NeverOwnedTwice, TypeOK
<1>3. ASSUME NEW j \in PoolIds
      PROVE  (j \in Live <=> \/ \E e \in Conns : registry[e] = j
                             \/ \E u \in Tasks : mine[u] = j \/ j \in closing[u])'
  <2>1. CASE j = i
    BY <1>1, <2>1, ConstantsAssumption DEF Ownership, NeverOwnedTwice
  <2>2. CASE j # i
    BY <1>1, <2>2 DEF Ownership, OwnedIffLive
  <2> QED
    BY <2>1, <2>2
<1> QED
  BY <1>2, <1>3 DEF Ownership, OwnedIffLive


-----------------------------------------------------------------------------
(* Types: what the operators that change the state yield *)

LEMMA OpenType ==
  ASSUME TypeOK, NEW t \in Tasks, NEW p \in Profiles, NEW amount \in Nat,
         NEW origin \in Origins, Open(t, p, amount, origin)
  PROVE  /\ pool' \in [PoolIds -> PoolRecords]
         /\ mine' \in [Tasks -> PoolIds \cup {None}]
         /\ shut' \subseteq PoolIds
         /\ Live' = Live \cup {NewId} /\ mine'[t] # None
<1>1. NewId \in PoolIds
  BY FreshId DEF Open
<1> QED
  BY <1>1, ConstantsAssumption DEF TypeOK, Open, PoolRecords, Live

\* The grant of a pool given back.
LEMMA ReleasedType ==
  ASSUME TypeOK, NEW i \in PoolIds, Release(i)
  PROVE  /\ inUse' \in [Servers -> Nat]
         /\ \A s \in Servers : inUse'[s] <= inUse[s]
<1>1. pool[i].grant \in Nat
  BY DEF TypeOK, PoolRecords
<1>2. \A m \in Nat : Monus(m, pool[i].grant) \in Nat /\ Monus(m, pool[i].grant) <= m
  BY <1>1 DEF Monus
<1> DEFINE server == ServerOf[pool[i].home]
<1>3. inUse' = [s \in Servers |-> IF s = server THEN Monus(inUse[s], pool[i].grant)
                                ELSE inUse[s]]
  BY DEF TypeOK, Release
<1> HIDE DEF server
<1> QED
  BY <1>2, <1>3 DEF TypeOK

LEMMA DropType ==
  ASSUME TypeOK, NEW i \in PoolIds, Drop(i)
  PROVE  /\ pool' \in [PoolIds -> PoolRecords]
         /\ inUse' \in [Servers -> Nat]
         /\ Live' = Live \ {i}
         /\ \A s \in Servers : inUse'[s] <= inUse[s]
<1>1. Blank \in PoolRecords /\ Blank.home = None
  BY DEF Blank, PoolRecords, Origins
<1>2. pool' \in [PoolIds -> PoolRecords] /\ Live' = Live \ {i}
  BY <1>1 DEF TypeOK, Drop, Live
<1> QED
  BY <1>2, ReleasedType DEF Drop

\* A reservation keeps what is reserved under the budget it quotes.
LEMMA ReserveType ==
  ASSUME TypeOK, NEW t \in Tasks, NEW p \in Profiles, NEW request \in Nat,
         NEW floor \in Nat \ {0}, NEW origin \in Origins,
         Reserve(t, p, request, floor, origin)
  PROVE  /\ Available(p, request) \in Nat
         /\ Open(t, p, Available(p, request), origin)
         /\ inUse' \in [Servers -> Nat]
         /\ \A s \in Servers : inUse'[s] # inUse[s] =>
           s = ServerOf[p] /\ inUse'[s] <= Budget[p]
<1> DEFINE amount == Available(p, request)
<1>1. amount \in Nat /\ amount > 0
  BY AvailableFits DEF Reserve
<1>2. Open(t, p, amount, origin)
  BY DEF Reserve
<1>3. ServerOf[p] \in Servers /\ inUse[ServerOf[p]] + amount <= Budget[p]
  BY <1>1, AvailableFits, ConstantsAssumption
<1>4. inUse' = [inUse EXCEPT ![ServerOf[p]] = @ + amount]
  BY DEF Reserve
<1> HIDE DEF amount
<1>5. inUse' \in [Servers -> Nat]
  BY <1>1, <1>3, <1>4 DEF TypeOK
<1>6. \A s \in Servers : inUse'[s] # inUse[s] =>
           s = ServerOf[p] /\ inUse'[s] <= Budget[p]
  BY <1>3, <1>4 DEF TypeOK
<1> QED
  BY <1>1, <1>2, <1>5, <1>6 DEF amount

LEMMA TouchType ==
  ASSUME TypeOK, NEW c \in Conns, Touch(c)
  PROVE  idle' \subseteq Conns /\ older' \subseteq Views \X Views
BY ConnTypes DEF TypeOK, Touch, Without, RegisteredViews

LEMMA UnregisterType ==
  ASSUME TypeOK, NEW S, Unregister(S)
  PROVE  /\ registry' \in [Conns -> PoolIds \cup {None}]
         /\ idle' \subseteq Conns /\ older' \subseteq Views \X Views
BY DEF TypeOK, Unregister, Without

\* Insertion in the map: of a pool a task opened, over what was there.
LEMMA InsertedType ==
  ASSUME TypeOK, NEW i \in PoolIds, NEW b \in BOOLEAN
  PROVE  [pool EXCEPT ![i].heart = b] \in [PoolIds -> PoolRecords]
BY DEF TypeOK, PoolRecords

LEMMA RequestTypes ==
  /\ \A p \in Profiles \cup {None}, d \in Databases \cup {NoDb}, o \in Origins :
       Request(p, d, o) \in Requests
  /\ NoRequest \in Requests
  /\ \A p \in Profiles, o \in Origins :
       TopRequest(p, o) \in Nat /\ TopRequest(p, o) >= MIN_MAX_CONNECTIONS
  /\ ViewRequest \in Nat
<1>1. \A p \in Profiles : Budget[p] \in Nat /\ Budget[p] >= MIN_MAX_CONNECTIONS
  BY ConstantsAssumption
<1>2. \A p \in Profiles, o \in Origins :
        TopRequest(p, o) \in Nat /\ TopRequest(p, o) >= MIN_MAX_CONNECTIONS
  BY <1>1, ConstantsAssumption
     DEF TopRequest, AtLeast, AtMost, Monus, MIN_MAX_CONNECTIONS, TOP_LEVEL_REQUEST
<1>3. ViewRequest \in Nat
  BY ConstantsAssumption DEF ViewRequest, AtLeast, MIN_MAX_CONNECTIONS
<1>4. \A p \in Profiles \cup {None}, d \in Databases \cup {NoDb}, o \in Origins :
        Request(p, d, o) \in Requests
  BY DEF Request, Requests
<1>5. NoRequest \in Requests
  BY <1>4 DEF NoRequest, Origins
<1> QED
  BY <1>2, <1>3, <1>4, <1>5

LEMMA GotoType ==
  ASSUME TypeOK, NEW t \in Tasks, NEW label \in Labels, Goto(t, label)
  PROVE  pc' \in [Tasks -> Labels]
BY DEF TypeOK, Goto

LEMMA FinishType ==
  ASSUME TypeOK, NEW t \in Tasks, Finish(t)
  PROVE  pc' \in [Tasks -> Labels] /\ arg' \in [Tasks -> Requests]
BY GotoType, RequestTypes DEF TypeOK, Finish, Labels

-----------------------------------------------------------------------------
(* Every step preserves the types *)

\* A command that begins.
LEMMA StartType ==
  ASSUME IInv, NEW t \in Workers, Start(t)
  PROVE  TypeOK'
<1> t \in Tasks
  BY DEF Tasks
<1> USE DEF IInv
<1>1. ASSUME NEW p \in Profiles, ConnectReuse(t, p) PROVE TypeOK'
  BY <1>1, RequestTypes DEF TypeOK, ConnectReuse, At, Goto, Labels, Origins
<1>2. ASSUME NEW p \in Profiles, NEW o \in Origins, ConnectNew(t, p, o) PROVE TypeOK'
  BY <1>2, RequestTypes DEF TypeOK, ConnectNew, At, Goto, Labels
<1>3. ASSUME NEW p \in Profiles, TestConnection(t, p) PROVE TypeOK'
  <2>1. /\ Available(p, 1) \in Nat
        /\ Open(t, p, Available(p, 1), "User")
        /\ inUse' \in [Servers -> Nat]
    BY <1>3, ReserveType DEF TestConnection, Origins
  <2> QED
    BY <1>3, <2>1, OpenType, RequestTypes
       DEF TypeOK, TestConnection, Goto, Labels, Origins
<1>4. ASSUME NEW p \in Profiles, DisconnectForget(t, p) PROVE TypeOK'
  BY <1>4, RequestTypes DEF TypeOK, DisconnectForget, At, Goto, Labels, Origins
<1>5. ASSUME NEW p \in Profiles, NEW d \in Databases, OpenView(t, p, d) PROVE TypeOK'
  <2>1. View(p, d) \in Conns
    BY ConnTypes
  <2>2. idle' \subseteq Conns /\ older' \subseteq Views \X Views
    BY <1>5, <2>1, TouchType DEF OpenView, TypeOK
  <2>3. pc' \in [Tasks -> Labels]
    BY <1>5 DEF OpenView, TypeOK, Goto, Labels
  <2>4. Request(p, d, "User") \in Requests
    BY RequestTypes DEF Origins
  <2>5. arg' \in [Tasks -> Requests]
    BY <1>5, <2>4 DEF OpenView, TypeOK
  <2> QED
    BY <1>5, <2>2, <2>3, <2>5 DEF TypeOK, OpenView
<1>6. ASSUME ReleaseSelect(t) PROVE TypeOK'
  BY <1>6, ConnTypes DEF TypeOK, ReleaseSelect, At, Goto, Labels, RegisteredViews, BridgeTops
<1> QED
  BY <1>1, <1>2, <1>3, <1>4, <1>5, <1>6 DEF Start, Origins

\* A step of connect, or the end of an attempt.
LEMMA ConnectType ==
  ASSUME IInv, NEW t \in Tasks,
         \/ ConnectAdopt(t) \/ ConnectAttach(t) \/ ConnectReserve(t)
         \/ ConnectDialled(t) \/ ConnectInsert(t) \/ GiveUp(t)
  PROVE  TypeOK'
<1> USE DEF IInv
<1> DEFINE p == arg[t].p
<1>1. pc[t] \notin Detached => p \in Profiles /\ Top(p) \in Conns
  BY ConnTypes DEF Control
<1>2. arg[t] \in Requests /\ arg[t].origin \in Origins
  BY DEF TypeOK, Requests
<1>3. NoRequest \in Requests
  BY RequestTypes
<1>4. CASE ConnectAdopt(t)
  <2> DEFINE i == registry[Top(p)]
  <2>1. i # None => i \in PoolIds
    BY <1>1, <1>4 DEF ConnectAdopt, At, Detached, TypeOK
  <2>2. i \in PoolIds => [pool EXCEPT ![i].origin = "User"] \in [PoolIds -> PoolRecords]
    BY DEF TypeOK, PoolRecords, Origins
  <2>3. pool' \in [PoolIds -> PoolRecords]
    BY <1>4, <2>1, <2>2 DEF ConnectAdopt, TypeOK
  <2>4. pc' \in [Tasks -> Labels] /\ arg' \in [Tasks -> Requests]
    BY <1>3, <1>4 DEF ConnectAdopt, TypeOK, Goto, Finish, Labels
  <2> QED
    BY <1>4, <2>3, <2>4 DEF ConnectAdopt, TypeOK
<1>5. CASE ConnectAttach(t)
  <2> DEFINE i == registry[Top(p)]
  <2>1. i # None => i \in PoolIds
    BY <1>1, <1>5 DEF ConnectAttach, At, Detached, TypeOK
  <2>2. pool' \in [PoolIds -> PoolRecords]
    BY <1>5, <2>1, InsertedType DEF ConnectAttach, TypeOK
  <2> QED
    BY <1>3, <1>5, <2>2 DEF ConnectAttach, TypeOK, Goto, Finish, Labels
<1>6. CASE ConnectReserve(t)
  <2>1. p \in Profiles /\ TopRequest(p, arg[t].origin) \in Nat
    BY <1>1, <1>2, <1>6, RequestTypes DEF ConnectReserve, At, Detached
  <2>2. pc' \in [Tasks -> Labels] /\ arg' \in [Tasks -> Requests]
    <3>1. CASE Goto(t, "dial") /\ UNCHANGED arg
      BY <3>1, GotoType DEF TypeOK, Labels
    <3>2. CASE Finish(t)
      BY <3>2, FinishType
    <3> QED
      BY <1>6, <3>1, <3>2 DEF ConnectReserve
  <2>3. /\ pool' \in [PoolIds -> PoolRecords]
        /\ mine' \in [Tasks -> PoolIds \cup {None}]
        /\ shut' \subseteq PoolIds
        /\ inUse' \in [Servers -> Nat]
    <3>1. CASE OpenUnmetered(t, p, arg[t].origin)
      BY <1>2, <2>1, <3>1, OpenType DEF OpenUnmetered, TypeOK
    <3>2. CASE Reserve(t, p, TopRequest(p, arg[t].origin), MIN_MAX_CONNECTIONS, arg[t].origin)
      BY <1>2, <2>1, <3>2, ReserveType, OpenType DEF MIN_MAX_CONNECTIONS
    <3>3. CASE UNCHANGED <<pool, inUse, mine, shut>>
      BY <3>3 DEF TypeOK
    <3> QED
      BY <1>6, <3>1, <3>2, <3>3 DEF ConnectReserve
  <2> QED
    BY <1>6, <2>2, <2>3 DEF ConnectReserve, TypeOK
<1>7. CASE ConnectDialled(t)
  BY <1>1, <1>7 DEF ConnectDialled, At, Detached, TypeOK, Goto, Labels
<1>8. CASE ConnectInsert(t)
  <2> DEFINE i == mine[t]
             old == registry[Top(p)]
             inserted == [pool EXCEPT ![i].heart = arg[t].origin = "User"]
  <2>1. i \in PoolIds /\ Top(p) \in Conns /\ (old # None => old \in PoolIds)
    BY <1>1, <1>8 DEF ConnectInsert, At, Detached, Control, Holding, TypeOK
  <2>2. inserted \in [PoolIds -> PoolRecords]
    BY <2>1, InsertedType
  <2>3. CASE old = None
    <3>1. pool' \in [PoolIds -> PoolRecords] /\ UNCHANGED inUse
      BY <1>8, <2>2, <2>3 DEF ConnectInsert
    <3> QED
      BY <1>3, <1>8, <2>1, <3>1 DEF ConnectInsert, TypeOK, Goto, Finish, Labels
  <2>4. CASE old # None
    <3>1. Blank \in PoolRecords
      BY DEF Blank, PoolRecords, Origins
    <3>2. pool' \in [PoolIds -> PoolRecords]
      BY <1>8, <2>2, <2>4, <3>1 DEF ConnectInsert
    <3>3. inUse' \in [Servers -> Nat]
      BY <1>8, <2>1, <2>4, ReleasedType DEF ConnectInsert
    <3> QED
      BY <1>3, <1>8, <2>1, <3>2, <3>3 DEF ConnectInsert, TypeOK, Goto, Finish, Labels
  <2> QED
    BY <2>3, <2>4
<1>9. CASE GiveUp(t)
  <2>1. mine[t] \in PoolIds
    BY <1>9 DEF GiveUp, Control, Holding, TypeOK
  <2> QED
    BY <1>3, <1>9, <2>1, DropType DEF GiveUp, TypeOK, Goto, Finish, Labels
<1> QED
  BY <1>4, <1>5, <1>6, <1>7, <1>8, <1>9

\* A step of disconnect, or the closing of views on anybody's behalf.
LEMMA DisconnectType ==
  ASSUME IInv, NEW t \in Tasks,
         \/ DisconnectUnregister(t) \/ TakeViews(t) \/ CloseView(t)
         \/ DisconnectClose(t)
  PROVE  TypeOK'
<1> USE DEF IInv
<1>1. CASE DisconnectUnregister(t)
  <2>1. Top(arg[t].p) \in Conns
    BY <1>1, ConnTypes DEF DisconnectUnregister, At, Detached, Control
  <2>2. pc' \in [Tasks -> Labels]
    BY <1>1, GotoType DEF DisconnectUnregister, Labels
  <2>3. mine' \in [Tasks -> PoolIds \cup {None}]
    BY <1>1, <2>1 DEF DisconnectUnregister, TypeOK
  <2> QED
    BY <1>1, <2>2, <2>3, UnregisterType DEF DisconnectUnregister, TypeOK
<1>2. CASE TakeViews(t)
  <2> DEFINE views == ViewsOf(arg[t].p)
  <2>1. \A c \in views : registry[c] \in PoolIds
    BY ConnTypes DEF ViewsOf, TypeOK
  <2>2. closing' \in [Tasks -> SUBSET PoolIds]
    BY <1>2, <2>1 DEF TakeViews, TypeOK
  <2>3. pc' \in [Tasks -> Labels]
    BY <1>2 DEF TakeViews, TypeOK, Goto, Labels
  <2> QED
    BY <1>2, <2>2, <2>3, UnregisterType DEF TakeViews, TypeOK
<1>3. CASE CloseView(t)
  <2> PICK i \in closing[t] : /\ Drop(i)
                              /\ closing' = [closing EXCEPT ![t] = @ \ {i}]
    BY <1>3 DEF CloseView
  <2>1. i \in PoolIds
    BY DEF TypeOK
  <2>2. closing' \in [Tasks -> SUBSET PoolIds]
    BY DEF TypeOK
  <2> QED
    BY <1>3, <2>1, <2>2, DropType DEF CloseView, TypeOK
<1>4. CASE DisconnectClose(t)
  <2>1. pc' \in [Tasks -> Labels] /\ arg' \in [Tasks -> Requests]
    BY <1>4, FinishType DEF DisconnectClose
  <2>2. mine' \in [Tasks -> PoolIds \cup {None}]
    BY <1>4 DEF DisconnectClose, TypeOK
  <2>3. CASE mine[t] = None
    BY <1>4, <2>1, <2>2, <2>3 DEF DisconnectClose, TypeOK
  <2>4. CASE mine[t] # None
    <3>1. mine[t] \in PoolIds
      BY <2>4 DEF TypeOK
    <3>2. shut' \subseteq PoolIds
      BY <1>4, <2>4, <3>1 DEF DisconnectClose, Shutdown, TypeOK
    <3> QED
      BY <1>4, <2>1, <2>2, <2>4, <3>1, <3>2, DropType DEF DisconnectClose, TypeOK
  <2> QED
    BY <2>3, <2>4
<1> QED
  BY <1>1, <1>2, <1>3, <1>4

\* The first of the doomed views leaves the map.
LEMMA TakeFirstDoomedType ==
  ASSUME TypeOK, NEW t \in Tasks, doomed[t] # <<>>, TakeFirstDoomed(t)
  PROVE  /\ Head(doomed[t]) \in Views
         /\ registry' \in [Conns -> PoolIds \cup {None}]
         /\ idle' \subseteq Conns /\ older' \subseteq Views \X Views
         /\ closing' \in [Tasks -> SUBSET PoolIds]
         /\ doomed' \in [Tasks -> Seq(Views)]
<1>1. doomed[t] \in Seq(Views)
  BY DEF TypeOK
<1>2. Head(doomed[t]) \in Views /\ Tail(doomed[t]) \in Seq(Views)
  BY <1>1
<1>3. Head(doomed[t]) \in Conns
  BY <1>2, ConnTypes
<1>4. closing' \in [Tasks -> SUBSET PoolIds]
  BY <1>3 DEF TakeFirstDoomed, TypeOK
<1>5. doomed' \in [Tasks -> Seq(Views)]
  BY <1>2 DEF TakeFirstDoomed, TypeOK
<1> QED
  BY <1>2, <1>4, <1>5, UnregisterType DEF TakeFirstDoomed

\* A step of open_database_view.
LEMMA ViewType ==
  ASSUME IInv, NEW t \in Tasks,
         \/ MongoChild(t) \/ MongoParent(t) \/ MongoInsert(t)
         \/ ViewSecret(t) \/ ViewCap(t) \/ ViewEvict(t) \/ ViewReclaimable(t)
         \/ ViewReserve(t) \/ ViewInsert(t)
  PROVE  TypeOK'
<1> USE DEF IInv
<1> DEFINE p == arg[t].p
           c == View(p, arg[t].d)
<1>1. pc[t] \in OnView => /\ p \in Profiles /\ arg[t].d \in Databases
                          /\ c \in Views /\ c \in Conns /\ Top(p) \in Conns
  BY ConnTypes DEF Control, OnView, Detached
<1>2. CASE MongoChild(t)
  <2>1. c \in Conns
    BY <1>1, <1>2 DEF MongoChild, At, OnView
  <2>2. CASE Touch(c) /\ Finish(t)
    BY <1>2, <2>1, <2>2, TouchType, FinishType DEF MongoChild, TypeOK
  <2>3. CASE Goto(t, "mongoParent") /\ UNCHANGED <<idle, older, arg>>
    BY <1>2, <2>3, GotoType DEF MongoChild, TypeOK, Labels
  <2> QED
    BY <1>2, <2>2, <2>3 DEF MongoChild
<1>3. CASE MongoParent(t)
  <2>1. Top(p) \in Conns
    BY <1>1, <1>3 DEF MongoParent, At, OnView
  <2>2. CASE registry[Top(p)] = None
    BY <1>3, <2>2, FinishType DEF MongoParent, TypeOK
  <2>3. CASE registry[Top(p)] # None
    <3>1. pool[registry[Top(p)]].client \in PoolIds \cup {None}
      BY <2>1, <2>3 DEF TypeOK, PoolRecords
    <3>2. arg' \in [Tasks -> Requests]
      <4>1. [arg[t] EXCEPT !.ref = pool[registry[Top(p)]].client] \in Requests
        <5>1. \A q \in Requests, i \in PoolIds \cup {None} :
                [q EXCEPT !.ref = i] \in Requests
          BY DEF Requests
        <5> QED
          BY <3>1, <5>1 DEF TypeOK
      <4>2. arg' = [arg EXCEPT ![t] =
                      [arg[t] EXCEPT !.ref = pool[registry[Top(p)]].client]]
        BY <1>3, <2>3 DEF MongoParent, TypeOK
      <4> QED
        BY <4>1, <4>2 DEF TypeOK
    <3>3. pc' \in [Tasks -> Labels]
      BY <1>3, <2>3, GotoType DEF MongoParent, Labels
    <3>4. idle' \subseteq Conns /\ older' \subseteq Views \X Views
      BY <1>3, <2>1, <2>3, TouchType DEF MongoParent
    <3> QED
      BY <1>3, <3>2, <3>3, <3>4 DEF MongoParent, TypeOK
  <2> QED
    BY <2>2, <2>3
<1>4. CASE MongoInsert(t)
  <2>1. NewId \in PoolIds /\ c \in Conns /\ p \in Profiles
    BY <1>1, <1>4, FreshId DEF MongoInsert, At, OnView
  <2>2. arg[t].ref \in PoolIds \cup {None}
    BY DEF TypeOK, Requests
  <2>3. Blank \in PoolRecords /\ [Blank EXCEPT !.home = p, !.client = arg[t].ref] \in PoolRecords
    BY <2>1, <2>2 DEF Blank, PoolRecords, Origins
  <2>4. pool' \in [PoolIds -> PoolRecords]
    BY <1>4, <2>3 DEF MongoInsert, TypeOK
  <2>5. registry' \in [Conns -> PoolIds \cup {None}] /\ shut' \subseteq PoolIds
    BY <1>4, <2>1 DEF MongoInsert, TypeOK
  <2> QED
    BY <1>4, <2>1, <2>4, <2>5, TouchType, FinishType DEF MongoInsert, TypeOK
<1>5. CASE ViewSecret(t)
  <2>1. CASE Goto(t, "cap") /\ UNCHANGED arg
    BY <1>5, <2>1, GotoType DEF ViewSecret, TypeOK, Labels
  <2>2. CASE Finish(t)
    BY <1>5, <2>2, FinishType DEF ViewSecret, TypeOK
  <2> QED
    BY <1>5, <2>1, <2>2 DEF ViewSecret
<1>6. CASE ViewCap(t)
  <2>1. OverCap(p, 1) \in SUBSET Views
    BY DEF OverCap, ViewsOf
  <2>2. doomed' \in [Tasks -> Seq(Views)]
    BY <1>6, <2>1, OldestFirstType DEF ViewCap, TypeOK
  <2> QED
    BY <1>6, <2>2, GotoType DEF ViewCap, TypeOK, Labels
<1>7. CASE ViewEvict(t)
  BY <1>7, TakeFirstDoomedType DEF ViewEvict, TypeOK
<1>8. CASE ViewReclaimable(t)
  <2>1. doomed' \in [Tasks -> Seq(Views)]
    BY <1>8, OldestFirstType DEF ViewReclaimable, TypeOK
  <2> QED
    BY <1>8, <2>1, GotoType DEF ViewReclaimable, TypeOK, Labels
<1>9. CASE ViewReserve(t)
  <2>1. p \in Profiles
    BY <1>1, <1>9 DEF ViewReserve, At, OnView
  <2>2. CASE Reserve(t, p, ViewRequest, MIN_MAX_CONNECTIONS, "User")
             /\ Goto(t, "dialView") /\ doomed' = [doomed EXCEPT ![t] = <<>>]
             /\ UNCHANGED <<registry, older, idle, arg, closing>>
    <3>1. /\ Available(p, ViewRequest) \in Nat
          /\ Open(t, p, Available(p, ViewRequest), "User")
          /\ inUse' \in [Servers -> Nat]
      BY <2>1, <2>2, ReserveType, RequestTypes DEF MIN_MAX_CONNECTIONS, Origins
    <3>2. doomed' \in [Tasks -> Seq(Views)]
      BY <2>2 DEF TypeOK
    <3> QED
      BY <1>9, <2>1, <2>2, <3>1, <3>2, OpenType, GotoType
         DEF ViewReserve, TypeOK, Origins, Labels
  <2>3. CASE doomed[t] # <<>> /\ TakeFirstDoomed(t)
             /\ UNCHANGED <<pool, inUse, shut, mine, pc, arg>>
    BY <1>9, <2>3, TakeFirstDoomedType DEF ViewReserve, TypeOK
  <2>4. CASE Finish(t) /\ UNCHANGED <<registry, pool, inUse, older, idle, shut,
                                      mine, closing, doomed>>
    BY <1>9, <2>4, FinishType DEF ViewReserve, TypeOK
  <2> QED
    BY <1>9, <2>2, <2>3, <2>4 DEF ViewReserve
<1>10. CASE ViewInsert(t)
  <2>1. c \in Conns /\ mine[t] \in PoolIds
    BY <1>1, <1>10 DEF ViewInsert, At, OnView, Control, Holding, TypeOK
  <2>2. registry' \in [Conns -> PoolIds \cup {None}] /\ mine' \in [Tasks -> PoolIds \cup {None}]
    BY <1>10, <2>1 DEF ViewInsert, TypeOK
  <2>3. pool' \in [PoolIds -> PoolRecords] /\ inUse' \in [Servers -> Nat]
    <3>1. CASE registry[c] = None
      BY <1>10, <3>1 DEF ViewInsert, TypeOK
    <3>2. CASE registry[c] # None
      BY <1>10, <2>1, <3>2, DropType DEF ViewInsert, TypeOK
    <3> QED
      BY <3>1, <3>2
  <2> QED
    BY <1>10, <2>1, <2>2, <2>3, TouchType, FinishType DEF ViewInsert, TypeOK
<1> QED
  BY <1>2, <1>3, <1>4, <1>5, <1>6, <1>7, <1>8, <1>9, <1>10

\* A step of the sweep or of release_idle_pools.
LEMMA SweepType ==
  ASSUME IInv, NEW t \in Tasks,
         \/ TakeVictimViews(t) \/ ReapNext(t) \/ ReapUnregister(t)
         \/ ReapClose(t) \/ ReapDrop(t) \/ SweepDone(t)
  PROVE  TypeOK'
<1> USE DEF IInv
<1>1. CASE TakeVictimViews(t)
  <2>1. \A c \in victims[t] \cap Views : registry[c] \in PoolIds \cup {None}
    BY ConnTypes DEF TypeOK
  <2>2. closing' \in [Tasks -> SUBSET PoolIds]
    BY <1>1, <2>1 DEF TakeVictimViews, TypeOK
  <2>3. victims' \in [Tasks -> SUBSET Conns]
    BY <1>1 DEF TakeVictimViews, TypeOK
  <2> QED
    BY <1>1, <2>2, <2>3, UnregisterType, GotoType DEF TakeVictimViews, TypeOK, Labels
<1>2. CASE ReapNext(t)
  <2> PICK c \in victims[t] \ Views :
        /\ victims' = [victims EXCEPT ![t] = @ \ {c}]
        /\ arg' = [arg EXCEPT ![t] = Request(c[1], NoDb, "User")]
    BY <1>2 DEF ReapNext
  <2>1. Request(c[1], NoDb, "User") \in Requests
    BY ConnTypes, RequestTypes DEF TypeOK, Origins
  <2>2. arg' \in [Tasks -> Requests] /\ victims' \in [Tasks -> SUBSET Conns]
    BY <2>1 DEF TypeOK
  <2> QED
    BY <1>2, <2>2, GotoType DEF ReapNext, TypeOK, Labels
<1>3. CASE ReapUnregister(t)
  <2>1. Top(arg[t].p) \in Conns
    BY <1>3, ConnTypes DEF ReapUnregister, At, Detached, Control
  <2>2. mine' \in [Tasks -> PoolIds \cup {None}]
    BY <1>3, <2>1 DEF ReapUnregister, TypeOK
  <2>3. pc' \in [Tasks -> Labels]
    BY <1>3 DEF ReapUnregister, TypeOK, Goto, Labels
  <2> QED
    BY <1>3, <2>2, <2>3, UnregisterType DEF ReapUnregister, TypeOK
<1>4. CASE ReapClose(t)
  <2>1. mine[t] \in PoolIds
    BY <1>4 DEF ReapClose, At, Control, Holding, TypeOK
  <2>2. shut' \subseteq PoolIds
    BY <1>4, <2>1 DEF ReapClose, Shutdown, TypeOK
  <2> QED
    BY <1>4, <2>2, GotoType DEF ReapClose, TypeOK, Labels
<1>5. CASE ReapDrop(t)
  <2>1. mine[t] \in PoolIds
    BY <1>5 DEF ReapDrop, At, Control, Holding, TypeOK
  <2>2. mine' \in [Tasks -> PoolIds \cup {None}]
    BY <1>5 DEF ReapDrop, TypeOK
  <2> QED
    BY <1>5, <2>1, <2>2, DropType, GotoType DEF ReapDrop, TypeOK, Labels
<1>6. CASE SweepDone(t)
  BY <1>6, FinishType DEF SweepDone, TypeOK
<1> QED
  BY <1>1, <1>2, <1>3, <1>4, <1>5, <1>6

LEMMA TypeStep == IInv /\ [Next]_vars => TypeOK'
<1> SUFFICES ASSUME IInv, [Next]_vars PROVE TypeOK'
  OBVIOUS
<1>1. ASSUME NEW t \in Workers, Start(t) PROVE TypeOK'
  BY <1>1, StartType
<1>2. ASSUME NEW t \in Tasks, Step(t) PROVE TypeOK'
  BY <1>2, ConnectType, DisconnectType, ViewType, SweepType DEF Step
<1>3. CASE SweepSelect
  <2>1. Reaper \in Tasks
    BY DEF Tasks
  <2>2. victims' \in [Tasks -> SUBSET Conns]
    <3>1. /\ RegisteredViews \subseteq Conns /\ BridgeTops \subseteq Conns
          /\ \A p \in Profiles : OverCap(p, 0) \subseteq Conns
      BY ConnTypes DEF RegisteredViews, BridgeTops, OverCap, ViewsOf
    <3>2. PICK chosen \in SUBSET Conns :
            victims' = [victims EXCEPT ![Reaper] = chosen]
      BY <1>3, <3>1 DEF SweepSelect
    <3> QED
      BY <2>1, <3>2 DEF TypeOK, IInv
  <2> QED
    BY <1>3, <2>1, <2>2, GotoType DEF SweepSelect, TypeOK, IInv, Labels
<1>4. ASSUME NEW c \in Conns, Use(c) PROVE TypeOK'
  BY <1>4, TouchType DEF Use, TypeOK, IInv, taskVars
<1>5. ASSUME NEW c \in Conns, GrowIdle(c) PROVE TypeOK'
  BY <1>5 DEF GrowIdle, TypeOK, IInv, taskVars
<1>6. CASE UNCHANGED vars
  BY <1>6 DEF vars, TypeOK, IInv
<1> QED
  BY <1>1, <1>2, <1>3, <1>4, <1>5, <1>6 DEF Next

-----------------------------------------------------------------------------
(* Every step keeps tasks in control of what they own *)

LEMMA StartControl ==
  ASSUME IInv, NEW t \in Workers, Start(t)
  PROVE  Control'
<1> USE DEF IInv, Control, TypeOK, At, Goto, Holding, MayHold, MayClose,
            Detached, OnView, Request
<1> t \in Tasks
  BY DEF Tasks
<1>1. ASSUME NEW p \in Profiles, ConnectReuse(t, p) PROVE Control'
  BY <1>1 DEF ConnectReuse
<1>2. ASSUME NEW p \in Profiles, NEW o \in Origins, ConnectNew(t, p, o) PROVE Control'
  BY <1>2 DEF ConnectNew
<1>3. ASSUME NEW p \in Profiles, TestConnection(t, p) PROVE Control'
  <2>1. mine'[t] # None /\ mine' = [mine EXCEPT ![t] = NewId]
    BY <1>3, FreshId, ConstantsAssumption DEF TestConnection, Reserve, Open
  <2> QED
    BY <1>3, <2>1 DEF TestConnection
<1>4. ASSUME NEW p \in Profiles, DisconnectForget(t, p) PROVE Control'
  BY <1>4 DEF DisconnectForget
<1>5. ASSUME NEW p \in Profiles, NEW d \in Databases, OpenView(t, p, d) PROVE Control'
  BY <1>5 DEF OpenView
<1>6. ASSUME ReleaseSelect(t) PROVE Control'
  BY <1>6 DEF ReleaseSelect
<1> QED
  BY <1>1, <1>2, <1>3, <1>4, <1>5, <1>6 DEF Start, Origins

LEMMA StepControl ==
  ASSUME IInv, NEW t \in Tasks, Step(t)
  PROVE  Control'
<1> USE DEF IInv, Control, TypeOK, At, Goto, Finish, Holding, MayHold, MayClose,
            Detached, OnView
<1>1. CASE ConnectAdopt(t)
  BY <1>1 DEF ConnectAdopt
<1>2. CASE ConnectAttach(t)
  BY <1>2 DEF ConnectAttach
<1>3. CASE ConnectReserve(t)
  <2>1. CASE Finish(t) /\ UNCHANGED mine
    BY <1>3, <2>1 DEF ConnectReserve
  <2>2. CASE Goto(t, "dial") /\ UNCHANGED arg /\ mine' = [mine EXCEPT ![t] = NewId]
             /\ NewId # None
    BY <1>3, <2>2 DEF ConnectReserve
  <2> QED
    BY <1>3, <2>1, <2>2, FreshId, ConstantsAssumption
       DEF ConnectReserve, OpenUnmetered, Reserve, Open
<1>4. CASE ConnectDialled(t)
  BY <1>4 DEF ConnectDialled
<1>5. CASE ConnectInsert(t)
  BY <1>5 DEF ConnectInsert
<1>6. CASE GiveUp(t)
  BY <1>6 DEF GiveUp
<1>7. CASE DisconnectUnregister(t)
  BY <1>7 DEF DisconnectUnregister
<1>8. CASE TakeViews(t)
  BY <1>8 DEF TakeViews
<1>9. CASE CloseView(t)
  BY <1>9 DEF CloseView
<1>10. CASE DisconnectClose(t)
  BY <1>10 DEF DisconnectClose
<1>11. CASE MongoChild(t)
  BY <1>11 DEF MongoChild
<1>12. CASE MongoParent(t)
  <2>1. CASE Finish(t)
    BY <1>12, <2>1 DEF MongoParent
  <2>2. CASE Goto(t, "mongoInsert")
             /\ arg' = [arg EXCEPT ![t].ref = pool[registry[Top(arg[t].p)]].client]
    <3>1. \A u \in Tasks : arg'[u].p = arg[u].p /\ arg'[u].d = arg[u].d
      BY <2>2 DEF Requests
    <3> QED
      BY <1>12, <2>2, <3>1 DEF MongoParent
  <2> QED
    BY <1>12, <2>1, <2>2 DEF MongoParent
<1>13. CASE MongoInsert(t)
  BY <1>13 DEF MongoInsert
<1>14. CASE ViewSecret(t)
  <2>1. CASE Finish(t)
    BY <1>14, <2>1 DEF ViewSecret
  <2>2. CASE Goto(t, "cap") /\ UNCHANGED arg
    BY <1>14, <2>2 DEF ViewSecret
  <2> QED
    BY <1>14, <2>1, <2>2 DEF ViewSecret
<1>15. CASE ViewCap(t)
  BY <1>15 DEF ViewCap
<1>16. CASE ViewEvict(t)
  BY <1>16 DEF ViewEvict, TakeFirstDoomed
<1>17. CASE ViewReclaimable(t)
  BY <1>17 DEF ViewReclaimable
<1>18. CASE ViewReserve(t)
  <2>1. CASE Goto(t, "dialView") /\ UNCHANGED <<arg, closing>> /\ NewId # None
             /\ mine' = [mine EXCEPT ![t] = NewId]
    BY <1>18, <2>1 DEF ViewReserve
  <2>2. CASE UNCHANGED <<mine, pc, arg>> /\ TakeFirstDoomed(t)
    BY <1>18, <2>2 DEF ViewReserve, TakeFirstDoomed
  <2>3. CASE Finish(t) /\ UNCHANGED <<mine, closing>>
    BY <1>18, <2>3 DEF ViewReserve
  <2> QED
    BY <1>18, <2>1, <2>2, <2>3, FreshId, ConstantsAssumption
       DEF ViewReserve, Reserve, Open
<1>19. CASE ViewInsert(t)
  BY <1>19 DEF ViewInsert
<1>20. CASE TakeVictimViews(t)
  BY <1>20 DEF TakeVictimViews
<1>21. CASE ReapNext(t)
  <2>1. PICK c \in victims[t] \ Views : arg' = [arg EXCEPT ![t] = Request(c[1], NoDb, "User")]
    BY <1>21 DEF ReapNext
  <2>2. c[1] \in Profiles
    BY ConnTypes
  <2> QED
    BY <1>21, <2>1, <2>2 DEF ReapNext, Request
<1>22. CASE ReapUnregister(t)
  BY <1>22 DEF ReapUnregister
<1>23. CASE ReapClose(t)
  BY <1>23 DEF ReapClose
<1>24. CASE ReapDrop(t)
  BY <1>24 DEF ReapDrop
<1>25. CASE SweepDone(t)
  BY <1>25 DEF SweepDone
<1> QED
  BY <1>1, <1>2, <1>3, <1>4, <1>5, <1>6, <1>7, <1>8, <1>9, <1>10, <1>11, <1>12,
     <1>13, <1>14, <1>15, <1>16, <1>17, <1>18, <1>19, <1>20, <1>21, <1>22,
     <1>23, <1>24, <1>25 DEF Step

LEMMA ControlStep == IInv /\ [Next]_vars => Control'
<1> SUFFICES ASSUME IInv, [Next]_vars PROVE Control'
  OBVIOUS
<1>1. CASE SweepSelect
  BY <1>1 DEF SweepSelect, IInv, Control, TypeOK, At, Goto, Tasks,
              Holding, MayHold, MayClose, Detached, OnView
<1>2. ASSUME NEW c \in Conns, Use(c) \/ GrowIdle(c) PROVE Control'
  BY <1>2 DEF Use, GrowIdle, IInv, Control, taskVars
<1>3. CASE UNCHANGED vars
  BY <1>3 DEF vars, IInv, Control
<1> QED
  BY <1>1, <1>2, <1>3, StartControl, StepControl DEF Next

-----------------------------------------------------------------------------
(* Every step keeps every pool with one owner *)

LEMMA StartOwnership ==
  ASSUME IInv, NEW t \in Workers, Start(t)
  PROVE  Ownership'
<1> t \in Tasks
  BY DEF Tasks
<1> USE DEF IInv
<1>1. CASE UNCHANGED <<registry, pool, mine, closing>>
  <2>1. Live' = Live
    BY <1>1 DEF Live
  <2> QED
    BY <1>1, <2>1, QuietKeepsOwnership
<1>2. ASSUME NEW p \in Profiles, TestConnection(t, p) PROVE Ownership'
  <2>1. mine[t] = None
    BY <1>2 DEF TestConnection, At, Control, Holding, MayHold
  <2>2. Open(t, p, Available(p, 1), "User")
    BY <1>2 DEF TestConnection, Reserve
  <2> QED
    BY <1>2, <2>1, <2>2, OpenKeepsOwnership DEF TestConnection
<1> QED
  BY <1>1, <1>2
     DEF Start, ConnectReuse, ConnectNew, DisconnectForget, OpenView, ReleaseSelect

\* A step of connect, or the end of an attempt.
LEMMA ConnectOwnership ==
  ASSUME IInv, NEW t \in Tasks,
         \/ ConnectAdopt(t) \/ ConnectAttach(t) \/ ConnectReserve(t)
         \/ ConnectDialled(t) \/ ConnectInsert(t) \/ GiveUp(t)
  PROVE  Ownership'
<1> USE DEF IInv
<1> DEFINE p == arg[t].p
           c == Top(p)
<1>1. pc[t] \notin Detached => p \in Profiles /\ c \in Conns
  BY ConnTypes DEF Control
<1>2. CASE ConnectAdopt(t)
  <2>1. c \in Conns
    BY <1>1, <1>2 DEF ConnectAdopt, At, Detached
  <2>2. registry[c] # None => registry[c] \in PoolIds
    BY <2>1 DEF TypeOK
  <2>3. \A i \in PoolIds : pool'[i].home = pool[i].home
    <3>1. CASE UNCHANGED pool
      BY <3>1
    <3>2. CASE /\ registry[c] # None
               /\ pool' = [pool EXCEPT ![registry[c]].origin = "User"]
      <4>1. \A i \in PoolIds : pool[i] \in PoolRecords
        BY DEF TypeOK
      <4>2. \A q \in PoolRecords : [q EXCEPT !.origin = "User"].home = q.home
        BY DEF PoolRecords
      <4>3. \A i \in PoolIds :
              pool'[i] = IF i = registry[c] THEN [pool[i] EXCEPT !.origin = "User"]
                         ELSE pool[i]
        BY <2>2, <3>2 DEF TypeOK
      <4> QED
        BY <4>1, <4>2, <4>3
    <3> QED
      BY <1>2, <3>1, <3>2 DEF ConnectAdopt
  <2>4. Live' = Live
    BY <2>3 DEF Live
  <2> QED
    BY <1>2, <2>4, QuietKeepsOwnership DEF ConnectAdopt
<1>3. CASE ConnectAttach(t)
  <2>1. c \in Conns
    BY <1>1, <1>3 DEF ConnectAttach, At, Detached
  <2>2. registry[c] # None => registry[c] \in PoolIds
    BY <2>1 DEF TypeOK
  <2>3. Live' = Live
    BY <1>3, <2>2 DEF ConnectAttach, Live, TypeOK, PoolRecords
  <2> QED
    BY <1>3, <2>3, QuietKeepsOwnership DEF ConnectAttach
<1>4. CASE ConnectReserve(t)
  <2>1. mine[t] = None /\ p \in Profiles
    BY <1>1, <1>4 DEF ConnectReserve, At, Control, Holding, MayHold, Detached
  <2>2. ASSUME NEW amount, Open(t, p, amount, arg[t].origin) PROVE Ownership'
    BY <1>4, <2>1, <2>2, OpenKeepsOwnership DEF ConnectReserve
  <2>3. CASE UNCHANGED <<pool, mine>>
    <3>1. Live' = Live
      BY <2>3 DEF Live
    <3> QED
      BY <1>4, <2>3, <3>1, QuietKeepsOwnership DEF ConnectReserve
  <2> QED
    BY <1>4, <2>2, <2>3 DEF ConnectReserve, OpenUnmetered, Reserve
<1>5. CASE ConnectDialled(t)
  <2>1. Live' = Live
    BY <1>5 DEF ConnectDialled, Live
  <2> QED
    BY <1>5, <2>1, QuietKeepsOwnership DEF ConnectDialled
<1>6. CASE ConnectInsert(t)
  <2>1. mine[t] # None /\ mine[t] \in PoolIds /\ c \in Conns
    BY <1>1, <1>6 DEF ConnectInsert, At, Control, Holding, Detached, TypeOK
  <2>2. registry[c] # None => registry[c] \in PoolIds
    BY <2>1 DEF TypeOK
  <2>3. Live' = Live \ {registry[c]}
    <3> DEFINE inserted == [pool EXCEPT ![mine[t]].heart = arg[t].origin = "User"]
    <3>1. inserted \in [PoolIds -> PoolRecords]
          /\ \A i \in PoolIds : inserted[i].home = pool[i].home
      <4>1. (arg[t].origin = "User") \in BOOLEAN
        OBVIOUS
      <4>2. inserted \in [PoolIds -> PoolRecords]
        BY <2>1, <4>1, InsertedType
      <4>3. \A i \in PoolIds : inserted[i].home = pool[i].home
        BY <2>1 DEF TypeOK, PoolRecords
      <4> QED
        BY <4>2, <4>3
    <3>2. CASE registry[c] = None
      <4>1. pool' = inserted /\ None \notin PoolIds
        BY <1>6, <3>2, ConstantsAssumption DEF ConnectInsert
      <4> HIDE DEF inserted
      <4> QED
        BY <3>1, <3>2, <4>1 DEF Live
    <3>3. CASE registry[c] # None
      <4>1. pool' = [inserted EXCEPT ![registry[c]] = Blank]
        BY <1>6, <3>3 DEF ConnectInsert
      <4> HIDE DEF inserted
      <4> QED
        BY <2>2, <3>1, <3>3, <4>1 DEF Live, Blank
    <3> QED
      BY <3>2, <3>3
  <2> QED
    BY <1>6, <2>1, <2>3, InsertKeepsOwnership DEF ConnectInsert
<1>7. CASE GiveUp(t)
  <2>1. mine[t] \in PoolIds
    BY <1>7 DEF GiveUp, Control, Holding, TypeOK
  <2>2. Live' = Live \ {mine[t]}
    BY <1>7, <2>1, DropType DEF GiveUp
  <2> QED
    BY <1>7, <2>2, DropMineKeepsOwnership DEF GiveUp
<1> QED
  BY <1>2, <1>3, <1>4, <1>5, <1>6, <1>7

\* A step of disconnect, or the closing of views on anybody's behalf.
LEMMA DisconnectOwnership ==
  ASSUME IInv, NEW t \in Tasks,
         \/ DisconnectUnregister(t) \/ TakeViews(t) \/ CloseView(t)
         \/ DisconnectClose(t)
  PROVE  Ownership'
<1> USE DEF IInv
<1>1. CASE DisconnectUnregister(t)
  <2>1. Top(arg[t].p) \in Conns /\ mine[t] = None
    BY <1>1, ConnTypes DEF DisconnectUnregister, At, Detached, Control, Holding, MayHold
  <2>2. Live' = Live
    BY <1>1 DEF DisconnectUnregister, Live
  <2> QED
    BY <1>1, <2>1, <2>2, TakeParentKeepsOwnership DEF DisconnectUnregister
<1>2. CASE TakeViews(t)
  <2> DEFINE views == ViewsOf(arg[t].p)
  <2>1. views \in SUBSET Conns /\ \A c \in views : registry[c] # None
    BY ConnTypes DEF ViewsOf
  <2>2. closing[t] = {}
    BY <1>2 DEF TakeViews, Control, MayClose
  <2>3. Live' = Live
    BY <1>2 DEF TakeViews, Live
  <2>4. {registry[c] : c \in views} = {registry[c] : c \in views} \ {None}
    BY <2>1
  <2>5. Unregister(views) /\ UNCHANGED mine
        /\ closing' = [closing EXCEPT ![t] = {registry[c] : c \in views} \ {None}]
    BY <1>2, <2>4 DEF TakeViews
  <2> HIDE DEF views
  <2> QED
    BY <2>1, <2>2, <2>3, <2>5, TakeViewsKeepsOwnership
<1>3. CASE CloseView(t)
  <2> PICK i \in closing[t] : /\ Drop(i)
                              /\ closing' = [closing EXCEPT ![t] = @ \ {i}]
    BY <1>3 DEF CloseView
  <2>1. i \in PoolIds
    BY DEF TypeOK
  <2>2. Live' = Live \ {i}
    BY <2>1, DropType
  <2> QED
    BY <1>3, <2>2, CloseKeepsOwnership DEF CloseView
<1>4. CASE DisconnectClose(t)
  <2>1. Live' = Live \ {mine[t]}
    <3>1. CASE mine[t] = None
      BY <1>4, <3>1, ConstantsAssumption DEF DisconnectClose, Live
    <3>2. CASE mine[t] # None
      <4>1. mine[t] \in PoolIds
        BY <3>2 DEF TypeOK
      <4> QED
        BY <1>4, <3>2, <4>1, DropType DEF DisconnectClose
    <3> QED
      BY <3>1, <3>2
  <2> QED
    BY <1>4, <2>1, DropMineKeepsOwnership DEF DisconnectClose
<1> QED
  BY <1>1, <1>2, <1>3, <1>4

\* The first of the doomed views passes to the task that closes it.
LEMMA TakeFirstDoomedOwnership ==
  ASSUME IInv, NEW t \in Tasks, doomed[t] # <<>>, closing[t] = {},
         TakeFirstDoomed(t), UNCHANGED <<pool, mine>>
  PROVE  Ownership'
<1> USE DEF IInv
<1> DEFINE c == Head(doomed[t])
<1>1. {c} \in SUBSET Conns
  BY TakeFirstDoomedType, ConnTypes
<1>2. Live' = Live
  BY DEF Live
<1>3. /\ Unregister({c})
      /\ closing' = [closing EXCEPT ![t] = {registry[e] : e \in {c}} \ {None}]
  BY DEF TakeFirstDoomed
<1> HIDE DEF c
<1> QED
  BY <1>1, <1>2, <1>3, TakeViewsKeepsOwnership

\* A step of open_database_view.
LEMMA ViewOwnership ==
  ASSUME IInv, NEW t \in Tasks,
         \/ MongoChild(t) \/ MongoParent(t) \/ MongoInsert(t)
         \/ ViewSecret(t) \/ ViewCap(t) \/ ViewEvict(t) \/ ViewReclaimable(t)
         \/ ViewReserve(t) \/ ViewInsert(t)
  PROVE  Ownership'
<1> USE DEF IInv
<1> DEFINE p == arg[t].p
           c == View(p, arg[t].d)
<1>1. pc[t] \in OnView => p \in Profiles /\ c \in Conns
  BY ConnTypes DEF Control, OnView, Detached
<1>2. CASE UNCHANGED <<registry, pool, mine, closing>>
  <2>1. Live' = Live
    BY <1>2 DEF Live
  <2> QED
    BY <1>2, <2>1, QuietKeepsOwnership
<1>3. CASE MongoInsert(t)
  <2> DEFINE i == NewId
             view == [Blank EXCEPT !.home = p, !.client = arg[t].ref]
  <2>1. i \in PoolIds /\ i \notin Live /\ c \in Conns /\ p # None
    BY <1>1, <1>3, FreshId, ConstantsAssumption DEF MongoInsert, At, OnView
  <2>2. registry' = [registry EXCEPT ![c] = i] /\ UNCHANGED <<mine, closing>>
    BY <1>3 DEF MongoInsert
  <2>3. pool' = [j \in PoolIds |-> IF j = i THEN view
                                   ELSE IF j = registry[c] THEN Blank ELSE pool[j]]
    BY <1>3 DEF MongoInsert
  <2>4. registry[c] # i
    BY <2>1 DEF Ownership, OwnedIffLive
  <2>5. view.home = p /\ Blank.home = None
    BY DEF Blank
  <2> HIDE DEF i, view
  <2>6. Live' = (Live \cup {i}) \ {registry[c]}
    BY <2>1, <2>3, <2>4, <2>5 DEF Live
  <2> QED
    BY <2>1, <2>2, <2>6, CreateKeepsOwnership
<1>4. CASE ViewEvict(t)
  BY <1>4, TakeFirstDoomedOwnership DEF ViewEvict
<1>5. CASE ViewReserve(t)
  <2>1. mine[t] = None /\ p \in Profiles
    BY <1>1, <1>5 DEF ViewReserve, At, Control, Holding, MayHold, OnView
  <2>2. CASE /\ Open(t, p, Available(p, ViewRequest), "User")
             /\ UNCHANGED <<registry, closing>>
    BY <2>1, <2>2, OpenKeepsOwnership
  <2>3. CASE doomed[t] # <<>> /\ TakeFirstDoomed(t) /\ UNCHANGED <<pool, mine>>
    BY <1>5, <2>3, TakeFirstDoomedOwnership DEF ViewReserve
  <2> QED
    BY <1>2, <1>5, <2>2, <2>3 DEF ViewReserve, Reserve
<1>6. CASE ViewInsert(t)
  <2>1. mine[t] # None /\ c \in Conns
    BY <1>1, <1>6 DEF ViewInsert, At, Control, Holding, OnView
  <2>2. Live' = Live \ {registry[c]}
    <3>1. CASE registry[c] = None
      BY <1>6, <3>1, ConstantsAssumption DEF ViewInsert, Live
    <3>2. CASE registry[c] # None
      <4>1. registry[c] \in PoolIds
        BY <2>1, <3>2 DEF TypeOK
      <4> QED
        BY <1>6, <3>2, <4>1, DropType DEF ViewInsert
    <3> QED
      BY <3>1, <3>2
  <2> QED
    BY <1>6, <2>1, <2>2, InsertKeepsOwnership DEF ViewInsert
<1> QED
  BY <1>2, <1>3, <1>4, <1>5, <1>6
     DEF MongoChild, MongoParent, ViewSecret, ViewCap, ViewReclaimable

\* A step of the sweep or of release_idle_pools.
LEMMA SweepOwnership ==
  ASSUME IInv, NEW t \in Tasks,
         \/ TakeVictimViews(t) \/ ReapNext(t) \/ ReapUnregister(t)
         \/ ReapClose(t) \/ ReapDrop(t) \/ SweepDone(t)
  PROVE  Ownership'
<1> USE DEF IInv
<1>1. CASE UNCHANGED <<registry, pool, mine, closing>>
  <2>1. Live' = Live
    BY <1>1 DEF Live
  <2> QED
    BY <1>1, <2>1, QuietKeepsOwnership
<1>2. CASE TakeVictimViews(t)
  <2> DEFINE views == victims[t] \cap Views
  <2>1. views \in SUBSET Conns
    BY ConnTypes
  <2>2. closing[t] = {}
    BY <1>2 DEF TakeVictimViews, At, Control, MayClose
  <2>3. Live' = Live
    BY <1>2 DEF TakeVictimViews, Live
  <2>4. Unregister(views) /\ UNCHANGED mine
        /\ closing' = [closing EXCEPT ![t] = {registry[c] : c \in views} \ {None}]
    BY <1>2 DEF TakeVictimViews
  <2> HIDE DEF views
  <2> QED
    BY <2>1, <2>2, <2>3, <2>4, TakeViewsKeepsOwnership
<1>3. CASE ReapUnregister(t)
  <2>1. Top(arg[t].p) \in Conns /\ mine[t] = None
    BY <1>3, ConnTypes DEF ReapUnregister, At, Detached, Control, Holding, MayHold
  <2>2. Live' = Live
    BY <1>3 DEF ReapUnregister, Live
  <2> QED
    BY <1>3, <2>1, <2>2, TakeParentKeepsOwnership DEF ReapUnregister
<1>4. CASE ReapDrop(t)
  <2>1. mine[t] \in PoolIds
    BY <1>4 DEF ReapDrop, At, Control, Holding, TypeOK
  <2>2. Live' = Live \ {mine[t]}
    BY <1>4, <2>1, DropType DEF ReapDrop
  <2> QED
    BY <1>4, <2>2, DropMineKeepsOwnership DEF ReapDrop
<1> QED
  BY <1>1, <1>2, <1>3, <1>4 DEF ReapNext, ReapClose, SweepDone

LEMMA OwnershipStep == IInv /\ [Next]_vars => Ownership'
<1> SUFFICES ASSUME IInv, [Next]_vars PROVE Ownership'
  OBVIOUS
<1>1. CASE UNCHANGED <<registry, pool, mine, closing>>
  <2>1. Live' = Live
    BY <1>1 DEF Live
  <2> QED
    BY <1>1, <2>1, QuietKeepsOwnership DEF IInv
<1>2. ASSUME NEW t \in Tasks, Step(t) PROVE Ownership'
  BY <1>2, ConnectOwnership, DisconnectOwnership, ViewOwnership, SweepOwnership DEF Step
<1> QED
  BY <1>1, <1>2, StartOwnership DEF Next, SweepSelect, Use, GrowIdle, taskVars, vars

-----------------------------------------------------------------------------
(* Every step keeps the reservations within the budgets *)

LEMMA LessKeepsBudget ==
  ASSUME TypeOK, BudgetRespected, inUse' \in [Servers -> Nat],
         \A s \in Servers : inUse'[s] <= inUse[s]
  PROVE  BudgetRespected'
<1> SUFFICES ASSUME NEW s \in Servers, inUse'[s] # 0
             PROVE  \E p \in Profiles : ServerOf[p] = s /\ inUse'[s] <= Budget[p]
  BY DEF BudgetRespected
<1>1. inUse[s] \in Nat /\ inUse'[s] \in Nat /\ inUse[s] # 0
  BY DEF TypeOK
<1>2. PICK p \in Profiles : ServerOf[p] = s /\ inUse[s] <= Budget[p]
  BY <1>1 DEF BudgetRespected
<1>3. Budget[p] \in Nat /\ inUse'[s] <= inUse[s]
  BY ConstantsAssumption
<1> QED
  BY <1>1, <1>2, <1>3

LEMMA ReserveKeepsBudget ==
  ASSUME TypeOK, BudgetRespected, NEW t \in Tasks, NEW p \in Profiles,
         NEW request \in Nat, NEW floor \in Nat \ {0}, NEW origin \in Origins,
         Reserve(t, p, request, floor, origin)
  PROVE  BudgetRespected'
BY ReserveType DEF BudgetRespected

LEMMA BudgetStep == IInv /\ [Next]_vars => BudgetRespected'
<1> SUFFICES ASSUME IInv, [Next]_vars PROVE BudgetRespected'
  OBVIOUS
<1> USE DEF IInv
<1>1. CASE UNCHANGED inUse
  BY <1>1 DEF BudgetRespected
<1>2. ASSUME NEW i \in PoolIds, Release(i) PROVE BudgetRespected'
  BY <1>2, ReleasedType, LessKeepsBudget
<1>3. ASSUME NEW t \in Workers, Start(t) PROVE BudgetRespected'
  <2>1. ASSUME NEW p \in Profiles, TestConnection(t, p) PROVE BudgetRespected'
    BY <2>1, ReserveKeepsBudget DEF TestConnection, Tasks, Origins
  <2> QED
    BY <1>1, <1>3, <2>1
       DEF Start, ConnectReuse, ConnectNew, DisconnectForget, OpenView, ReleaseSelect
<1>4. ASSUME NEW t \in Tasks, Step(t) PROVE BudgetRespected'
  <2> DEFINE p == arg[t].p
  <2>1. CASE ConnectReserve(t)
    <3>1. p \in Profiles /\ arg[t].origin \in Origins
      BY <2>1 DEF ConnectReserve, At, Control, Detached, TypeOK, Requests
    <3>2. TopRequest(p, arg[t].origin) \in Nat
      BY <3>1, RequestTypes
    <3> QED
      BY <1>1, <2>1, <3>1, <3>2, ReserveKeepsBudget
         DEF ConnectReserve, OpenUnmetered, MIN_MAX_CONNECTIONS
  <2>2. CASE ConnectInsert(t)
    <3>1. Top(p) \in Conns
      BY <2>2, ConnTypes DEF ConnectInsert, At, Control, Detached
    <3>2. registry[Top(p)] # None => registry[Top(p)] \in PoolIds
      BY <3>1 DEF TypeOK
    <3> QED
      BY <1>1, <1>2, <2>2, <3>2 DEF ConnectInsert
  <2>3. CASE GiveUp(t) \/ ReapDrop(t)
    <3>1. mine[t] \in PoolIds
      BY <2>3 DEF GiveUp, ReapDrop, At, Control, Holding, TypeOK
    <3> QED
      BY <1>2, <2>3, <3>1 DEF GiveUp, ReapDrop, Drop
  <2>4. CASE CloseView(t)
    <3>1. closing[t] \subseteq PoolIds
      BY DEF TypeOK
    <3> QED
      BY <1>2, <2>4, <3>1 DEF CloseView, Drop
  <2>5. CASE DisconnectClose(t)
    <3>1. mine[t] # None => mine[t] \in PoolIds
      BY DEF TypeOK
    <3> QED
      BY <1>1, <1>2, <2>5, <3>1 DEF DisconnectClose, Drop
  <2>6. CASE ViewReserve(t)
    <3>1. p \in Profiles
      BY <2>6 DEF ViewReserve, At, Control, Detached
    <3> QED
      BY <1>1, <2>6, <3>1, ReserveKeepsBudget, RequestTypes
         DEF ViewReserve, MIN_MAX_CONNECTIONS, Origins
  <2>7. CASE ViewInsert(t)
    <3> DEFINE c == View(p, arg[t].d)
    <3>1. c \in Conns
      BY <2>7, ConnTypes DEF ViewInsert, At, Control, OnView, Detached
    <3>2. registry[c] # None => registry[c] \in PoolIds
      BY <3>1 DEF TypeOK
    <3> QED
      BY <1>1, <1>2, <2>7, <3>2 DEF ViewInsert, Drop
  <2>8. CASE UNCHANGED inUse
    BY <1>1, <2>8
  <2> QED
    BY <1>4, <2>1, <2>2, <2>3, <2>4, <2>5, <2>6, <2>7, <2>8
       DEF Step, ConnectAdopt, ConnectAttach, ConnectDialled, DisconnectUnregister,
           TakeViews, MongoChild, MongoParent, MongoInsert, ViewSecret, ViewCap,
           ViewEvict, ViewReclaimable, TakeVictimViews, ReapNext, ReapUnregister,
           ReapClose, SweepDone
<1> QED
  BY <1>1, <1>3, <1>4 DEF Next, SweepSelect, Use, GrowIdle, taskVars, vars

-----------------------------------------------------------------------------
(* What a user's connection needs: a heartbeat and a client that is open.  A  *)
(* task that dials hands the map a pool fit for it, and whoever drops a pool  *)
(* or shuts a client down owns it, so that neither the map nor another task   *)
(* does.                                                                      *)

Dialling == {"dial", "insert"}

\* A pool that is being dialled is of its task's origin, with a client of its
\* own that is open.
DialledFit ==
  \A t \in Tasks : pc[t] \in Dialling =>
    LET i == mine[t] IN
    pool[i].origin = arg[t].origin /\ pool[i].client = i /\ i \notin shut

\* So is a connection: its client is its own and open.
TopsFit ==
  \A p \in Profiles : registry[Top(p)] # None =>
    LET i == registry[Top(p)] IN pool[i].client = i /\ i \notin shut

Fit == DialledFit /\ TopsFit /\ UserPoolHasHeartbeat

\* What a step must leave alone to keep it so.
DiallersKept ==
  \A u \in Tasks : pc'[u] \in Dialling =>
    /\ pc[u] \in Dialling
    /\ mine'[u] = mine[u]
    /\ arg'[u].origin = arg[u].origin
    /\ pool'[mine[u]] = pool[mine[u]]
    /\ mine[u] \in shut' => mine[u] \in shut
TopsKept ==
  \A p \in Profiles : registry'[Top(p)] # None =>
    /\ registry'[Top(p)] = registry[Top(p)]
    /\ pool'[registry[Top(p)]] = pool[registry[Top(p)]]
    /\ registry[Top(p)] \in shut' => registry[Top(p)] \in shut
AttachersKept ==
  \A u \in Tasks : pc[u] = "attach" => pc'[u] = "attach" /\ arg'[u].p = arg[u].p

LEMMA KeptIsFit ==
  ASSUME Fit, DiallersKept, TopsKept, AttachersKept
  PROVE  Fit'
<1>1. DialledFit'
  BY DEF Fit, DialledFit, DiallersKept
<1>2. TopsFit'
  BY DEF Fit, TopsFit, TopsKept
<1>3. UserPoolHasHeartbeat'
  BY DEF Fit, UserPoolHasHeartbeat, TopsKept, AttachersKept, At
<1> QED
  BY <1>1, <1>2, <1>3 DEF Fit

\* The id of a top-level connection is no view's, and one profile's.
LEMMA TopsApart ==
  /\ \A p \in Profiles, c \in Views : Top(p) # c
  /\ \A p, q \in Profiles : Top(p) = Top(q) => p = q
BY ConstantsAssumption DEF Top, Views

\* A pool in the map, or in the hands of a task that dials, has been opened;
\* no other task holds it.
LEMMA HeldApart ==
  ASSUME IInv
  PROVE  /\ \A c \in Conns : registry[c] # None =>
              /\ registry[c] \in Live /\ registry[c] \in PoolIds
              /\ \A u \in Tasks : registry[c] # mine[u] /\ registry[c] \notin closing[u]
         /\ \A u \in Tasks : pc[u] \in Dialling =>
              /\ mine[u] \in Live /\ mine[u] \in PoolIds /\ mine[u] # None
              /\ \A v \in Tasks : /\ mine[u] \notin closing[v]
                                  /\ u # v => mine[u] # mine[v]
              /\ \A c \in Conns : registry[c] # mine[u]
<1>1. TypeOK /\ NeverOwnedTwice /\ OwnedIffLive /\ Control
  BY DEF IInv, Ownership
<1>2. \A c \in Conns : registry[c] # None =>
        /\ registry[c] \in Live /\ registry[c] \in PoolIds
        /\ \A u \in Tasks : registry[c] # mine[u] /\ registry[c] \notin closing[u]
  BY <1>1 DEF TypeOK, NeverOwnedTwice, OwnedIffLive
<1>3. \A u \in Tasks : pc[u] \in Dialling => mine[u] # None
  BY <1>1 DEF Control, Dialling, Holding
<1>4. \A u \in Tasks : pc[u] \in Dialling => mine[u] \in Live /\ mine[u] \in PoolIds
  BY <1>1, <1>3 DEF TypeOK, OwnedIffLive
<1>5. \A u, v \in Tasks : pc[u] \in Dialling =>
        mine[u] \notin closing[v] /\ (u # v => mine[u] # mine[v])
  BY <1>1, <1>3 DEF NeverOwnedTwice
<1>6. \A u \in Tasks, c \in Conns : pc[u] \in Dialling => registry[c] # mine[u]
  BY <1>2, <1>3
<1> QED
  BY <1>2, <1>3, <1>4, <1>5, <1>6

\* A new pool leaves every other alone.
LEMMA OpenLeaves ==
  ASSUME IInv, NEW t \in Tasks, NEW p, NEW amount, NEW origin,
         Open(t, p, amount, origin)
  PROVE  /\ NewId \in PoolIds
         /\ pool'[NewId].origin = origin /\ pool'[NewId].client = NewId
         /\ NewId \notin shut' /\ shut' \subseteq shut
         /\ mine' = [mine EXCEPT ![t] = NewId]
         /\ \A i \in Live : pool'[i] = pool[i]
<1>1. NewId \in PoolIds /\ NewId \notin Live
  BY FreshId DEF Open
<1> DEFINE i == NewId
<1>2. /\ pool' = [pool EXCEPT ![i] = [home |-> p, grant |-> amount, origin |-> origin,
                                      heart |-> FALSE, client |-> i]]
      /\ mine' = [mine EXCEPT ![t] = i] /\ shut' = shut \ {i}
  BY DEF Open
<1>3. pool \in [PoolIds -> PoolRecords] /\ Live \subseteq PoolIds
  BY DEF IInv, TypeOK, Live
<1> HIDE DEF i
<1>4. /\ pool'[i].origin = origin /\ pool'[i].client = i
      /\ i \notin shut' /\ shut' \subseteq shut
      /\ \A j \in Live : pool'[j] = pool[j]
  BY <1>1, <1>2, <1>3 DEF i
<1> QED
  BY <1>1, <1>2, <1>4 DEF i

\* A pool that is dropped by its owner, who does not dial any more, is no
\* connection's and no other task's.
LEMMA DropIsFit ==
  ASSUME IInv, Fit, NEW t \in Tasks, mine[t] # None, Drop(mine[t]),
         pc'[t] \notin Dialling, shut' \subseteq shut \cup {mine[t]},
         \A u \in Tasks \ {t} : pc'[u] = pc[u] /\ arg'[u] = arg[u] /\ mine'[u] = mine[u],
         pc[t] # "attach", UNCHANGED registry
  PROVE  Fit'
<1>1. pool' = [pool EXCEPT ![mine[t]] = Blank] /\ pool \in [PoolIds -> PoolRecords]
  BY DEF Drop, IInv, TypeOK
<1>2. \A i \in PoolIds : i # mine[t] => pool'[i] = pool[i] /\ (i \in shut' => i \in shut)
  BY <1>1
<1>3. DiallersKept
  BY <1>2, HeldApart DEF DiallersKept
<1>4. TopsKept
  BY <1>2, HeldApart, ConnTypes DEF TopsKept
<1> QED
  BY <1>3, <1>4, KeptIsFit DEF AttachersKept

LEMMA StartFit ==
  ASSUME IInv, Fit, NEW t \in Workers, Start(t)
  PROVE  Fit'
<1> t \in Tasks
  BY DEF Tasks
<1>0. TypeOK
  BY DEF IInv
<1>1. /\ pc[t] = "idle"
      /\ \A u \in Tasks \ {t} : pc'[u] = pc[u] /\ arg'[u] = arg[u] /\ mine'[u] = mine[u]
      /\ UNCHANGED registry
  BY <1>0 DEF Start, ConnectReuse, ConnectNew, TestConnection, DisconnectForget, OpenView,
              ReleaseSelect, At, Goto, Reserve, Open, TypeOK
<1>2. pc'[t] \notin Dialling
  BY <1>0 DEF Start, ConnectReuse, ConnectNew, TestConnection, DisconnectForget, OpenView,
              ReleaseSelect, At, Goto, TypeOK, Dialling
<1>3. AttachersKept
  BY <1>0, <1>1, <1>2 DEF AttachersKept, Start, ConnectReuse, ConnectNew, TestConnection,
              DisconnectForget, OpenView, ReleaseSelect, At
<1>4. CASE UNCHANGED <<pool, shut>>
  BY <1>1, <1>2, <1>3, <1>4, KeptIsFit DEF DiallersKept, TopsKept
<1>5. ASSUME NEW p \in Profiles, TestConnection(t, p) PROVE Fit'
  <2>1. Open(t, p, Available(p, 1), "User")
    BY <1>5 DEF TestConnection, Reserve
  <2>2. shut' \subseteq shut /\ \A i \in Live : pool'[i] = pool[i]
    BY <2>1, OpenLeaves
  <2>3. DiallersKept
    BY <1>1, <1>2, <2>2, HeldApart DEF DiallersKept
  <2>4. TopsKept
    BY <1>1, <2>2, HeldApart, ConnTypes DEF TopsKept
  <2> QED
    BY <1>3, <2>3, <2>4, KeptIsFit
<1> QED
  BY <1>4, <1>5
     DEF Start, ConnectReuse, ConnectNew, DisconnectForget, OpenView, ReleaseSelect

\* A step of connect, or the end of an attempt.
LEMMA ConnectFit ==
  ASSUME IInv, Fit, NEW t \in Tasks,
         \/ ConnectAdopt(t) \/ ConnectAttach(t) \/ ConnectReserve(t)
         \/ ConnectDialled(t) \/ ConnectInsert(t) \/ GiveUp(t)
  PROVE  Fit'
<1> DEFINE p == arg[t].p
           c == Top(p)
           i == registry[c]
<1>0. TypeOK
  BY DEF IInv
<1>1. pc[t] \notin Detached => p \in Profiles /\ c \in Conns
  BY ConnTypes DEF IInv, Control
<1>2. ASSUME p \in Profiles, c \in Conns, UNCHANGED registry,
             \A j \in PoolIds : j # i => pool'[j] = pool[j],
             \A u \in Tasks \ {t} : pc'[u] = pc[u] /\ arg'[u] = arg[u],
             pc[t] \notin Dialling, pc'[t] \notin Dialling,
             UNCHANGED <<mine, shut>>,
             i # None => pool'[i].client = pool[i].client,
             i # None => \/ pool'[i].heart \/ pool'[i].origin = "Bridge"
                         \/ pc'[t] = "attach" /\ arg'[t].p = p
      PROVE  Fit'
  <2>1. \A q \in Profiles : q # p /\ registry[Top(q)] # None =>
          pool'[registry[Top(q)]] = pool[registry[Top(q)]]
    <3>1. \A q \in Profiles : q # p => Top(q) # c /\ Top(q) \in Conns
      BY <1>2, TopsApart, ConnTypes
    <3>2. \A q \in Profiles : q # p /\ registry[Top(q)] # None => registry[Top(q)] # i
      BY <1>2, <3>1 DEF IInv, Ownership, NeverOwnedTwice
    <3> QED
      BY <1>2, <3>1, <3>2, HeldApart
  <2>2. \A u \in Tasks : pc'[u] \in Dialling =>
          /\ u # t /\ pc[u] \in Dialling /\ arg'[u] = arg[u]
          /\ pool'[mine[u]] = pool[mine[u]]
    BY <1>2, HeldApart
  <2>3. DialledFit'
    BY <1>2, <2>2 DEF Fit, DialledFit
  <2>4. TopsFit'
    BY <1>2, <2>1 DEF Fit, TopsFit
  <2>5. UserPoolHasHeartbeat'
    BY <1>2, <2>1 DEF Fit, UserPoolHasHeartbeat, At
  <2> QED
    BY <2>3, <2>4, <2>5 DEF Fit
<1>3. CASE ConnectAdopt(t)
  <2>1. /\ p \in Profiles /\ c \in Conns /\ UNCHANGED <<registry, mine, shut>>
        /\ pc[t] \notin Dialling /\ pc'[t] \notin Dialling /\ pc[t] # "attach"
        /\ \A u \in Tasks \ {t} : pc'[u] = pc[u] /\ arg'[u] = arg[u]
    BY <1>0, <1>1, <1>3 DEF ConnectAdopt, At, Detached, Dialling, Goto, Finish, TypeOK
  <2>2. i # None => i \in PoolIds /\ pool[i] \in PoolRecords
    BY <1>0, <2>1 DEF TypeOK
  <2>3. CASE i # None /\ pool[i].origin = "Bridge"
    <3>1. /\ pool' = [pool EXCEPT ![i].origin = "User"]
          /\ pc'[t] = "attach" /\ arg' = arg
      BY <1>0, <1>3, <2>3 DEF ConnectAdopt, Goto, TypeOK
    <3>2. \A j \in PoolIds : j # i => pool'[j] = pool[j]
      BY <1>0, <3>1 DEF TypeOK
    <3>3. pool'[i].client = pool[i].client
      <4>1. pool'[i] = [pool[i] EXCEPT !.origin = "User"]
        BY <1>0, <2>2, <2>3, <3>1 DEF TypeOK
      <4> QED
        BY <2>2, <2>3, <4>1 DEF PoolRecords
    <3> QED
      BY <1>2, <2>1, <3>1, <3>2, <3>3
  <2>4. CASE ~(i # None /\ pool[i].origin = "Bridge")
    <3>1. UNCHANGED pool
      BY <1>3, <2>4 DEF ConnectAdopt
    <3>2. DiallersKept /\ TopsKept /\ AttachersKept
      BY <2>1, <3>1 DEF DiallersKept, TopsKept, AttachersKept
    <3> QED
      BY <3>2, KeptIsFit
  <2> QED
    BY <2>3, <2>4
<1>4. CASE ConnectAttach(t)
  <2>1. /\ p \in Profiles /\ c \in Conns /\ UNCHANGED <<registry, mine, shut>>
        /\ pc[t] \notin Dialling /\ pc'[t] \notin Dialling
        /\ \A u \in Tasks \ {t} : pc'[u] = pc[u] /\ arg'[u] = arg[u]
    BY <1>0, <1>1, <1>4 DEF ConnectAttach, At, Detached, Dialling, Goto, Finish, TypeOK
  <2>2. i # None => i \in PoolIds /\ pool[i] \in PoolRecords
    BY <1>0, <2>1 DEF TypeOK
  <2>3. \A j \in PoolIds : j # i => pool'[j] = pool[j]
    BY <1>0, <1>4 DEF ConnectAttach, TypeOK
  <2>4. i # None => pool'[i].client = pool[i].client /\ pool'[i].heart
    BY <1>0, <1>4, <2>2 DEF ConnectAttach, TypeOK, PoolRecords
  <2> QED
    BY <1>2, <2>1, <2>3, <2>4
<1>5. CASE ConnectReserve(t)
  <2>1. /\ UNCHANGED registry /\ pc[t] = "reserve"
        /\ \A u \in Tasks \ {t} : pc'[u] = pc[u] /\ arg'[u] = arg[u]
    BY <1>0, <1>5 DEF ConnectReserve, At, Goto, Finish, TypeOK
  <2>2. AttachersKept
    BY <1>0, <1>5, <2>1 DEF AttachersKept
  <2>3. CASE Finish(t) /\ UNCHANGED <<pool, inUse, mine, shut>>
    <3>1. DiallersKept /\ TopsKept
      BY <1>0, <2>1, <2>3 DEF DiallersKept, TopsKept, Finish, Goto, TypeOK, Dialling
    <3> QED
      BY <2>2, <3>1, KeptIsFit
  <2>4. ASSUME NEW amount, Open(t, p, amount, arg[t].origin), UNCHANGED arg
        PROVE  Fit'
    <3>1. /\ pool'[NewId].origin = arg[t].origin /\ pool'[NewId].client = NewId
          /\ NewId \notin shut' /\ shut' \subseteq shut /\ mine'[t] = NewId
          /\ \A u \in Tasks \ {t} : mine'[u] = mine[u]
          /\ \A j \in Live : pool'[j] = pool[j]
      BY <1>0, <2>4, OpenLeaves DEF TypeOK
    <3>2. DialledFit'
      BY <2>1, <2>4, <3>1, HeldApart DEF Fit, DialledFit
    <3>3. TopsKept
      BY <2>1, <3>1, HeldApart, ConnTypes DEF TopsKept
    <3>4. TopsFit'
      BY <3>3 DEF Fit, TopsFit, TopsKept
    <3>5. UserPoolHasHeartbeat'
      BY <2>2, <3>3 DEF Fit, UserPoolHasHeartbeat, TopsKept, AttachersKept, At
    <3> QED
      BY <3>2, <3>4, <3>5 DEF Fit
  <2> QED
    BY <1>5, <2>3, <2>4 DEF ConnectReserve, OpenUnmetered, Reserve
<1>6. CASE ConnectDialled(t)
  <2>1. DiallersKept
    BY <1>0, <1>6 DEF ConnectDialled, At, Goto, TypeOK, DiallersKept, Dialling
  <2>2. TopsKept /\ AttachersKept
    BY <1>0, <1>6 DEF ConnectDialled, At, Goto, TypeOK, TopsKept, AttachersKept
  <2> QED
    BY <2>1, <2>2, KeptIsFit
<1>7. CASE GiveUp(t)
  <2>1. mine[t] # None
    BY <1>7 DEF GiveUp, IInv, Control, Holding
  <2>2. /\ pc'[t] \notin Dialling /\ pc[t] # "attach"
        /\ \A u \in Tasks \ {t} : pc'[u] = pc[u] /\ arg'[u] = arg[u] /\ mine'[u] = mine[u]
        /\ UNCHANGED <<registry, shut>> /\ Drop(mine[t])
    BY <1>0, <1>7 DEF GiveUp, Finish, Goto, TypeOK, Dialling
  <2> QED
    BY <2>1, <2>2, DropIsFit
<1>8. CASE ConnectInsert(t)
  <2> DEFINE new == mine[t]
             b == (arg[t].origin = "User")
             inserted == [pool EXCEPT ![new].heart = b]
  <2>1. /\ p \in Profiles /\ c \in Conns /\ pc[t] = "insert"
        /\ new # None /\ new \in PoolIds /\ new # i /\ pool[new] \in PoolRecords
        /\ i # None => i \in PoolIds
        /\ arg[t].origin \in Origins
    BY <1>0, <1>1, <1>8, HeldApart
       DEF ConnectInsert, At, Detached, Dialling, TypeOK, Requests
  <2>2. /\ registry' = [registry EXCEPT ![c] = new] /\ UNCHANGED shut
        /\ pc'[t] = "idle"
        /\ \A u \in Tasks \ {t} : pc'[u] = pc[u] /\ arg'[u] = arg[u] /\ mine'[u] = mine[u]
    BY <1>0, <1>8 DEF ConnectInsert, Finish, Goto, TypeOK
  <2>3. /\ inserted[new].heart = b /\ inserted[new].origin = pool[new].origin
        /\ inserted[new].client = pool[new].client
        /\ \A j \in PoolIds : j # new => inserted[j] = pool[j]
        /\ inserted \in [PoolIds -> PoolRecords]
    <3>1. b \in BOOLEAN
      OBVIOUS
    <3> HIDE DEF b
    <3> QED
      BY <1>0, <2>1, <3>1 DEF TypeOK, PoolRecords
  <2>4. \A j \in PoolIds : j # i => pool'[j] = inserted[j]
    BY <1>8, <2>3 DEF ConnectInsert
  <2> HIDE DEF inserted
  <2>5. /\ pool'[new].heart = b /\ pool'[new].origin = pool[new].origin
        /\ pool'[new].client = pool[new].client
        /\ \A j \in PoolIds : j # new /\ j # i => pool'[j] = pool[j]
    BY <2>1, <2>3, <2>4
  <2>6. pool[new].origin = arg[t].origin /\ pool[new].client = new /\ new \notin shut
    BY <2>1 DEF Fit, DialledFit, Dialling
  <2>7. DiallersKept
    BY <2>1, <2>2, <2>5, HeldApart DEF DiallersKept, Dialling
  <2>8. \A q \in Profiles : q # p /\ registry'[Top(q)] # None =>
          /\ registry'[Top(q)] = registry[Top(q)]
          /\ pool'[registry[Top(q)]] = pool[registry[Top(q)]]
    <3>1. \A q \in Profiles : q # p => Top(q) # c /\ Top(q) \in Conns
      BY <2>1, TopsApart, ConnTypes
    <3>2. \A q \in Profiles : q # p /\ registry[Top(q)] # None =>
            registry[Top(q)] # i /\ registry[Top(q)] # new /\ registry[Top(q)] \in PoolIds
      BY <2>1, <3>1, HeldApart DEF IInv, Ownership, NeverOwnedTwice
    <3> QED
      BY <1>0, <2>2, <2>5, <3>1, <3>2 DEF TypeOK
  <2>9. registry'[Top(p)] = new
    BY <1>0, <2>1, <2>2 DEF TypeOK
  <2>10. DialledFit'
    BY <2>7 DEF Fit, DialledFit, DiallersKept
  <2>11. TopsFit'
    BY <2>2, <2>5, <2>6, <2>8, <2>9 DEF Fit, TopsFit
  <2>12. UserPoolHasHeartbeat'
    <3>1. pool'[new].origin = "Bridge" \/ pool'[new].heart
      BY <2>1, <2>5, <2>6 DEF Origins
    <3> QED
      BY <2>1, <2>2, <2>8, <2>9, <3>1 DEF Fit, UserPoolHasHeartbeat, At
  <2> QED
    BY <2>10, <2>11, <2>12 DEF Fit
<1> QED
  BY <1>3, <1>4, <1>5, <1>6, <1>7, <1>8

\* Connections and views leave the map, and no pool changes.
LEMMA UnregisterIsFit ==
  ASSUME IInv, Fit, NEW S, Unregister(S), NEW t \in Tasks,
         pc'[t] \notin Dialling, pc[t] # "attach",
         \A u \in Tasks \ {t} : pc'[u] = pc[u] /\ arg'[u] = arg[u] /\ mine'[u] = mine[u],
         UNCHANGED <<pool, shut>>
  PROVE  Fit'
<1>1. DiallersKept
  BY DEF DiallersKept
<1>2. TopsKept
  BY ConnTypes DEF TopsKept, Unregister
<1> QED
  BY <1>1, <1>2, KeptIsFit DEF AttachersKept

\* Nothing happens to the pools or to the map.
LEMMA QuietIsFit ==
  ASSUME IInv, Fit, UNCHANGED <<registry, pool, shut, mine>>, NEW t \in Tasks,
         pc'[t] \notin Dialling, pc[t] # "attach",
         \A u \in Tasks \ {t} : pc'[u] = pc[u] /\ arg'[u] = arg[u]
  PROVE  Fit'
<1>1. DiallersKept /\ TopsKept /\ AttachersKept
  BY DEF DiallersKept, TopsKept, AttachersKept
<1> QED
  BY <1>1, KeptIsFit

\* A step of disconnect, or the closing of views on anybody's behalf.
LEMMA DisconnectFit ==
  ASSUME IInv, Fit, NEW t \in Tasks,
         \/ DisconnectUnregister(t) \/ TakeViews(t) \/ CloseView(t)
         \/ DisconnectClose(t)
  PROVE  Fit'
<1>0. TypeOK
  BY DEF IInv
<1>1. CASE DisconnectUnregister(t)
  BY <1>0, <1>1, UnregisterIsFit
     DEF DisconnectUnregister, At, Goto, TypeOK, Dialling
<1>2. CASE TakeViews(t)
  BY <1>0, <1>2, UnregisterIsFit DEF TakeViews, Goto, TypeOK, Dialling
<1>3. CASE CloseView(t)
  <2>1. PICK i \in closing[t] : pool' = [pool EXCEPT ![i] = Blank]
    BY <1>3 DEF CloseView, Drop
  <2>2. \A j \in PoolIds : j # i => pool'[j] = pool[j]
    BY <1>0, <2>1 DEF TypeOK
  <2>3. DiallersKept
    BY <1>3, <2>2, HeldApart DEF CloseView, DiallersKept
  <2>4. TopsKept
    BY <1>3, <2>2, HeldApart, ConnTypes DEF CloseView, TopsKept
  <2> QED
    BY <1>3, <2>3, <2>4, KeptIsFit DEF CloseView, AttachersKept
<1>4. CASE DisconnectClose(t)
  <2>1. /\ pc'[t] \notin Dialling /\ pc[t] # "attach"
        /\ \A u \in Tasks \ {t} : pc'[u] = pc[u] /\ arg'[u] = arg[u] /\ mine'[u] = mine[u]
        /\ UNCHANGED registry
    BY <1>0, <1>4 DEF DisconnectClose, At, Finish, Goto, TypeOK, Dialling
  <2>2. CASE mine[t] = None
    <3>1. UNCHANGED <<pool, shut>>
      BY <1>4, <2>2 DEF DisconnectClose
    <3>2. DiallersKept /\ TopsKept /\ AttachersKept
      BY <2>1, <3>1 DEF DiallersKept, TopsKept, AttachersKept
    <3> QED
      BY <3>2, KeptIsFit
  <2>3. CASE mine[t] # None
    <3>1. Drop(mine[t]) /\ shut' \subseteq shut \cup {mine[t]}
      BY <1>4, <2>3 DEF DisconnectClose, Shutdown
    <3> QED
      BY <2>1, <2>3, <3>1, DropIsFit
  <2> QED
    BY <2>2, <2>3
<1> QED
  BY <1>1, <1>2, <1>3, <1>4

\* A step of open_database_view.
LEMMA ViewFit ==
  ASSUME IInv, Fit, NEW t \in Tasks,
         \/ MongoChild(t) \/ MongoParent(t) \/ MongoInsert(t)
         \/ ViewSecret(t) \/ ViewCap(t) \/ ViewEvict(t) \/ ViewReclaimable(t)
         \/ ViewReserve(t) \/ ViewInsert(t)
  PROVE  Fit'
<1> DEFINE c == View(arg[t].p, arg[t].d)
<1>0. TypeOK
  BY DEF IInv
<1>1. /\ pc'[t] \notin Dialling /\ pc[t] \in OnView /\ pc[t] # "attach"
      /\ \A u \in Tasks \ {t} : pc'[u] = pc[u] /\ arg'[u] = arg[u]
  BY <1>0 DEF MongoChild, MongoParent, MongoInsert, ViewSecret, ViewCap, ViewEvict,
     ViewReclaimable, ViewReserve, ViewInsert, At, Goto, Finish, TypeOK, Dialling, OnView
<1>2. /\ c \in Views
      /\ \A p \in Profiles : Top(p) \in Conns /\ Top(p) # c
  BY <1>1, ConnTypes, TopsApart DEF IInv, Control, OnView, Detached
<1>3. AttachersKept
  BY <1>1 DEF AttachersKept
<1>4. ASSUME \A u \in Tasks \ {t} : mine'[u] = mine[u],
             shut' \subseteq shut,
             \A p \in Profiles : registry'[Top(p)] = registry[Top(p)],
             \A i \in Live : i # registry[c] => pool'[i] = pool[i]
      PROVE  Fit'
  <2>1. \A p \in Profiles : registry[Top(p)] # None => registry[Top(p)] # registry[c]
    BY <1>2, ConnTypes DEF IInv, Ownership, NeverOwnedTwice
  <2>2. TopsKept
    BY <1>2, <1>4, <2>1, HeldApart DEF TopsKept
  <2>3. \A u \in Tasks : pc[u] \in Dialling => mine[u] # registry[c]
    BY <1>2, ConnTypes, HeldApart
  <2>4. DiallersKept
    BY <1>1, <1>4, <2>3, HeldApart DEF DiallersKept
  <2> QED
    BY <1>3, <2>2, <2>4, KeptIsFit
<1>5. CASE UNCHANGED <<registry, pool, shut, mine>>
  BY <1>1, <1>5, QuietIsFit
<1>6. CASE MongoInsert(t)
  <2>1. NewId \in PoolIds /\ NewId \notin Live
    BY <1>6, FreshId DEF MongoInsert
  <2>2. \A i \in Live : i # registry[c] => pool'[i] = pool[i]
    BY <1>6, <2>1 DEF MongoInsert, Live
  <2>3. \A p \in Profiles : registry'[Top(p)] = registry[Top(p)]
    BY <1>0, <1>2, <1>6 DEF MongoInsert, TypeOK
  <2>4. shut' \subseteq shut /\ \A u \in Tasks \ {t} : mine'[u] = mine[u]
    BY <1>6 DEF MongoInsert
  <2> QED
    BY <1>4, <2>2, <2>3, <2>4
<1>7. ASSUME TakeFirstDoomed(t), UNCHANGED <<pool, shut, mine>> PROVE Fit'
  BY <1>1, <1>7, UnregisterIsFit DEF TakeFirstDoomed
<1>8. CASE ViewReserve(t)
  <2>1. ASSUME Open(t, arg[t].p, Available(arg[t].p, ViewRequest), "User"),
               UNCHANGED registry
        PROVE  Fit'
    <3>1. shut' \subseteq shut /\ \A i \in Live : pool'[i] = pool[i]
      BY <2>1, OpenLeaves
    <3>2. \A u \in Tasks \ {t} : mine'[u] = mine[u]
      BY <1>0, <2>1, OpenLeaves DEF TypeOK
    <3> QED
      BY <1>4, <2>1, <3>1, <3>2
  <2> QED
    BY <1>5, <1>7, <1>8, <2>1 DEF ViewReserve, Reserve
<1>9. CASE ViewInsert(t)
  <2>1. \A i \in Live : i # registry[c] => pool'[i] = pool[i]
    BY <1>0, <1>9 DEF ViewInsert, Drop, Live, TypeOK
  <2>2. \A p \in Profiles : registry'[Top(p)] = registry[Top(p)]
    BY <1>0, <1>2, <1>9 DEF ViewInsert, TypeOK
  <2>3. shut' \subseteq shut /\ \A u \in Tasks \ {t} : mine'[u] = mine[u]
    BY <1>0, <1>9 DEF ViewInsert, TypeOK
  <2> QED
    BY <1>4, <2>1, <2>2, <2>3
<1> QED
  BY <1>5, <1>6, <1>7, <1>8, <1>9
     DEF MongoChild, MongoParent, ViewSecret, ViewCap, ViewEvict, ViewReclaimable

\* A step of the sweep or of release_idle_pools.
LEMMA SweepFit ==
  ASSUME IInv, Fit, NEW t \in Tasks,
         \/ TakeVictimViews(t) \/ ReapNext(t) \/ ReapUnregister(t)
         \/ ReapClose(t) \/ ReapDrop(t) \/ SweepDone(t)
  PROVE  Fit'
<1>0. TypeOK
  BY DEF IInv
<1>1. /\ pc'[t] \notin Dialling /\ pc[t] # "attach"
      /\ \A u \in Tasks \ {t} : pc'[u] = pc[u] /\ arg'[u] = arg[u] /\ mine'[u] = mine[u]
  BY <1>0 DEF TakeVictimViews, ReapNext, ReapUnregister, ReapClose, ReapDrop, SweepDone,
     At, Goto, Finish, TypeOK, Dialling
<1>2. CASE TakeVictimViews(t) \/ ReapUnregister(t)
  BY <1>1, <1>2, UnregisterIsFit DEF TakeVictimViews, ReapUnregister
<1>3. CASE ReapNext(t) \/ SweepDone(t)
  BY <1>1, <1>3, QuietIsFit DEF ReapNext, SweepDone
<1>4. CASE ReapClose(t)
  <2>1. /\ mine[t] # None /\ shut' \subseteq shut \cup {mine[t]}
        /\ UNCHANGED <<registry, pool, mine>>
    BY <1>4 DEF ReapClose, At, Shutdown, IInv, Control, Holding
  <2>2. DiallersKept
    BY <1>1, <2>1, HeldApart DEF DiallersKept
  <2>3. TopsKept
    BY <2>1, HeldApart, ConnTypes DEF TopsKept
  <2> QED
    BY <1>1, <2>2, <2>3, KeptIsFit DEF AttachersKept
<1>5. CASE ReapDrop(t)
  <2>1. mine[t] # None /\ Drop(mine[t]) /\ UNCHANGED <<registry, shut>>
    BY <1>5 DEF ReapDrop, At, IInv, Control, Holding
  <2> QED
    BY <1>1, <2>1, DropIsFit
<1> QED
  BY <1>2, <1>3, <1>4, <1>5

LEMMA FitStep == IInv /\ Fit /\ [Next]_vars => Fit'
<1> SUFFICES ASSUME IInv, Fit, [Next]_vars PROVE Fit'
  OBVIOUS
<1>1. ASSUME NEW t \in Tasks, Step(t) PROVE Fit'
  BY <1>1, ConnectFit, DisconnectFit, ViewFit, SweepFit DEF Step
<1>2. CASE SweepSelect
  <2>1. Reaper \in Tasks
    BY DEF Tasks
  <2> QED
    BY <1>2, <2>1, QuietIsFit DEF SweepSelect, At, Goto, IInv, TypeOK, Dialling
<1>3. CASE UNCHANGED <<registry, pool, shut, mine, pc, arg>>
  <2>1. DiallersKept /\ TopsKept /\ AttachersKept
    BY <1>3 DEF DiallersKept, TopsKept, AttachersKept
  <2> QED
    BY <2>1, KeptIsFit
<1> QED
  BY <1>1, <1>2, <1>3, StartFit DEF Next, Use, GrowIdle, taskVars, vars

-----------------------------------------------------------------------------
(* Disconnecting.  Between the moment a worker took the views of the profile  *)
(* and the end of its command only another worker could open a view: the      *)
(* sweep opens none.                                                          *)

Sweeping == {"idle", "reap", "reapViews", "reapParent", "reapClose", "reapDrop"}

ReaperSweeps == pc[Reaper] \in Sweeping
NoneLeft == \A t \in Workers : At(t, "closeParent") => ViewsOf(arg[t].p) = {}

\* While a worker opens a view of a profile, no other opens one of it, nor is it being
\* disconnected.
OneOpens ==
  \A t, u \in Workers :
    t # u /\ pc[t] \in OnView /\ pc[u] \in OnView \cup {"closeParent"} => arg[t].p # arg[u].p

\* A step of one task leaves the others where they are.
LEMMA OthersStay ==
  ASSUME TypeOK, NEW t \in Tasks, Step(t) \/ Start(t)
  PROVE  \A u \in Tasks \ {t} : pc'[u] = pc[u] /\ arg'[u] = arg[u] /\ doomed'[u] = doomed[u]
<1> SUFFICES ASSUME NEW u \in Tasks, u # t
             PROVE  pc'[u] = pc[u] /\ arg'[u] = arg[u] /\ doomed'[u] = doomed[u]
  OBVIOUS
<1>1. pc \in [Tasks -> Labels] /\ DOMAIN arg = Tasks /\ DOMAIN doomed = Tasks
  BY DEF TypeOK
<1>2. CASE Start(t)
  BY <1>1, <1>2
     DEF Start, ConnectReuse, ConnectNew, TestConnection, DisconnectForget, OpenView,
         ReleaseSelect, Goto
<1>3. CASE Step(t)
  BY <1>1, <1>3
     DEF Step, ConnectAdopt, ConnectAttach, ConnectReserve, ConnectDialled, ConnectInsert,
         GiveUp, DisconnectUnregister, TakeViews, CloseView, DisconnectClose, MongoChild,
         MongoParent, MongoInsert, ViewSecret, ViewCap, ViewEvict, ViewReclaimable,
         TakeFirstDoomed, ViewReserve, ViewInsert, TakeVictimViews, ReapNext,
         ReapUnregister, ReapClose, ReapDrop, SweepDone, Finish, Goto
<1> QED
  BY <1>2, <1>3

LEMMA ReaperStep == IInv /\ ReaperSweeps /\ [Next]_vars => ReaperSweeps'
<1> SUFFICES ASSUME IInv, ReaperSweeps, [Next]_vars PROVE ReaperSweeps'
  OBVIOUS
<1> USE DEF ReaperSweeps
<1>1. pc \in [Tasks -> Labels] /\ Reaper \in Tasks
  BY DEF IInv, TypeOK, Tasks
<1>2. CASE SweepSelect
  BY <1>1, <1>2 DEF SweepSelect, Goto, Sweeping
<1>3. ASSUME NEW t \in Workers, Start(t) PROVE ReaperSweeps'
  <2>1. t # Reaper /\ t \in Tasks
    BY ConstantsAssumption DEF Tasks
  <2> QED
    BY <1>1, <1>3, <2>1
       DEF Start, ConnectReuse, ConnectNew, TestConnection, DisconnectForget, OpenView,
           ReleaseSelect, Goto
<1>4. ASSUME NEW t \in Tasks, t # Reaper, Step(t) PROVE ReaperSweeps'
  BY <1>1, <1>4
     DEF Step, ConnectAdopt, ConnectAttach, ConnectReserve, ConnectDialled, ConnectInsert,
         GiveUp, DisconnectUnregister, TakeViews, CloseView, DisconnectClose, MongoChild,
         MongoParent, MongoInsert, ViewSecret, ViewCap, ViewEvict, ViewReclaimable,
         ViewReserve, ViewInsert, TakeVictimViews, ReapNext, ReapUnregister, ReapClose,
         ReapDrop, SweepDone, Finish, Goto
<1>5. ASSUME Step(Reaper) PROVE ReaperSweeps'
  BY <1>1, <1>5
     DEF Step, ConnectAdopt, ConnectAttach, ConnectReserve, ConnectDialled, ConnectInsert,
         GiveUp, DisconnectUnregister, TakeViews, CloseView, DisconnectClose, MongoChild,
         MongoParent, MongoInsert, ViewSecret, ViewCap, ViewEvict, ViewReclaimable,
         ViewReserve, ViewInsert, TakeVictimViews, ReapNext, ReapUnregister, ReapClose,
         ReapDrop, SweepDone, Finish, Goto, At, Sweeping
<1>6. CASE UNCHANGED pc
  BY <1>6
<1> QED
  BY <1>2, <1>3, <1>4, <1>5, <1>6 DEF Next, Use, GrowIdle, taskVars, vars

\* Between sweeps and in them the reaper only closes.
LEMMA ReapersStep ==
  ASSUME ReaperSweeps, Step(Reaper)
  PROVE  \/ TakeViews(Reaper) \/ CloseView(Reaper) \/ TakeVictimViews(Reaper)
         \/ ReapNext(Reaper) \/ ReapUnregister(Reaper) \/ ReapClose(Reaper)
         \/ ReapDrop(Reaper) \/ SweepDone(Reaper)
BY DEF Step, ReaperSweeps, Sweeping, ConnectAdopt, ConnectAttach, ConnectReserve,
       ConnectDialled, ConnectInsert, GiveUp, DisconnectUnregister, DisconnectClose,
       MongoChild, MongoParent, MongoInsert, ViewSecret, ViewCap, ViewEvict,
       ViewReclaimable, ViewReserve, ViewInsert, At

\* No view enters the map and no worker begins to close a parent.
LEMMA NoneEnters ==
  ASSUME NoneLeft, \A c \in Views : registry'[c] \in {registry[c], None},
         \A t \in Workers : pc'[t] = "closeParent" =>
           pc[t] = "closeParent" /\ arg'[t] = arg[t]
  PROVE  NoneLeft'
BY ConnTypes DEF NoneLeft, At, ViewsOf

LEMMA NoneLeftStep ==
  OneOpens /\ IInv /\ ReaperSweeps /\ NoneLeft /\ [Next]_vars => NoneLeft'
<1> SUFFICES ASSUME OneOpens, IInv, ReaperSweeps, NoneLeft, [Next]_vars
             PROVE  NoneLeft'
  OBVIOUS
<1>0. TypeOK /\ Workers \subseteq Tasks
  BY DEF IInv, Tasks
<1>1. CASE UNCHANGED <<registry, pc, arg>>
  BY <1>1 DEF NoneLeft, At, ViewsOf
<1>2. CASE SweepSelect
  <2>1. \A t \in Workers : pc'[t] = pc[t]
    BY <1>0, <1>2, ConstantsAssumption DEF SweepSelect, Goto, TypeOK
  <2> QED
    BY <1>2, <2>1, NoneEnters DEF SweepSelect
<1>3. ASSUME NEW t \in Workers, pc'[t] # "closeParent",
             \A u \in Workers \ {t} : pc'[u] = pc[u] /\ arg'[u] = arg[u],
             \A c \in Views : registry'[c] \in {registry[c], None}
      PROVE  NoneLeft'
  BY <1>3, NoneEnters
<1>4. ASSUME NEW t \in Workers, Start(t) PROVE NoneLeft'
  <2>1. pc'[t] # "closeParent" /\ UNCHANGED registry
    BY <1>0, <1>4 DEF Start, ConnectReuse, ConnectNew, TestConnection, DisconnectForget,
       OpenView, ReleaseSelect, At, Goto, TypeOK
  <2> QED
    BY <1>0, <1>3, <1>4, <2>1, OthersStay
<1>5. ASSUME NEW t \in Workers, Step(t) PROVE NoneLeft'
  <2>0. /\ t \in Tasks
        /\ \A u \in Workers \ {t} : pc'[u] = pc[u] /\ arg'[u] = arg[u]
    BY <1>0, <1>5, OthersStay
  <2>1. CASE TakeViews(t)
    <3>1. /\ Unregister(ViewsOf(arg[t].p)) /\ UNCHANGED arg
      BY <2>1 DEF TakeViews
    <3>2. ViewsOf(arg[t].p)' = {} /\ \A p : ViewsOf(p)' \subseteq ViewsOf(p)
      BY <3>1, ConnTypes DEF Unregister, ViewsOf
    <3> QED
      BY <2>0, <3>1, <3>2 DEF NoneLeft, At, ViewsOf
  <2>2. CASE CloseView(t)
    BY <1>1, <2>2 DEF CloseView
  <2>3. CASE ~TakeViews(t) /\ ~CloseView(t)
    <3>1. pc'[t] # "closeParent"
      BY <1>0, <1>5, <2>3
         DEF Step, ConnectAdopt, ConnectAttach, ConnectReserve, ConnectDialled, GiveUp,
             ConnectInsert, DisconnectUnregister, DisconnectClose, MongoChild, MongoParent,
             MongoInsert, ViewSecret, ViewCap, ViewEvict, ViewReclaimable, ViewReserve,
             ViewInsert, TakeVictimViews, ReapNext, ReapUnregister, ReapClose, ReapDrop,
             SweepDone, Finish, Goto, At, TypeOK
    <3>2. CASE MongoInsert(t) \/ ViewInsert(t)
      <4>1. /\ pc[t] \in OnView
            /\ \A c \in Conns : c[1] # arg[t].p => registry'[c] = registry[c]
        BY <1>0, <3>2 DEF MongoInsert, ViewInsert, At, OnView, TypeOK, View
      <4>2. \A u \in Workers \ {t} :
              pc[u] = "closeParent" => ViewsOf(arg[u].p)' = ViewsOf(arg[u].p)
        BY <2>0, <4>1, ConnTypes DEF OneOpens, ViewsOf
      <4> QED
        BY <2>0, <3>1, <4>2 DEF NoneLeft, At, ViewsOf
    <3>3. CASE ConnectInsert(t)
      <4>1. t \in Tasks /\ arg[t].p \in Profiles
        BY <2>0, <3>3 DEF ConnectInsert, At, IInv, Control, Detached
      <4>2. \A c \in Views : registry'[c] = registry[c]
        BY <1>0, <3>3, <4>1, TopsApart, ConnTypes DEF ConnectInsert, TypeOK
      <4> QED
        BY <1>3, <2>0, <3>1, <4>2
    <3>4. CASE ~MongoInsert(t) /\ ~ViewInsert(t) /\ ~ConnectInsert(t)
      <4>1. \A c \in Conns : registry'[c] \in {registry[c], None}
        BY <1>5, <2>3, <3>4
           DEF Step, ConnectAdopt, ConnectAttach, ConnectReserve, ConnectDialled, GiveUp,
               DisconnectUnregister, DisconnectClose, MongoChild, MongoParent, ViewSecret,
               ViewCap, ViewEvict, ViewReclaimable, ViewReserve, TakeFirstDoomed,
               TakeVictimViews, ReapNext, ReapUnregister, ReapClose, ReapDrop, SweepDone,
               Unregister
      <4> QED
        BY <1>3, <2>0, <3>1, <4>1, ConnTypes
    <3> QED
      BY <3>2, <3>3, <3>4
  <2> QED
    BY <2>1, <2>2, <2>3
<1>6. ASSUME Step(Reaper) PROVE NoneLeft'
  <2>1. \/ TakeViews(Reaper) \/ CloseView(Reaper) \/ TakeVictimViews(Reaper)
        \/ ReapNext(Reaper) \/ ReapUnregister(Reaper) \/ ReapClose(Reaper)
        \/ ReapDrop(Reaper) \/ SweepDone(Reaper)
    BY <1>6, ReapersStep
  <2>2. \A c \in Conns : registry'[c] \in {registry[c], None}
    BY <1>0, <2>1 DEF TakeViews, CloseView, TakeVictimViews, ReapNext, ReapUnregister,
       ReapClose, ReapDrop, SweepDone, Unregister
  <2>3. \A t \in Workers : pc'[t] = pc[t] /\ arg'[t] = arg[t]
    BY <1>0, <2>1, ConstantsAssumption DEF TakeViews, CloseView, TakeVictimViews, ReapNext,
       ReapUnregister, ReapClose, ReapDrop, SweepDone, Finish, Goto, TypeOK, Tasks
  <2> QED
    BY <2>2, <2>3, NoneEnters, ConnTypes
<1> QED
  BY <1>1, <1>2, <1>4, <1>5, <1>6 DEF Next, Use, GrowIdle, taskVars, vars, Tasks

-----------------------------------------------------------------------------
(* Replacing.  A connection enters the map only at the end of a command that  *)
(* found it absent; unless another task opens it too, it is still absent then. *)

Connecting == {"reserve", "dial", "insert"}

\* Task t is opening connection c.
Opens(t, c) ==
  \/ pc[t] \in Connecting /\ c = Top(arg[t].p)
  \/ pc[t] \in OnView /\ c = View(arg[t].p, arg[t].d)

\* No two tasks open one connection at once.
OneOpensEach ==
  \A t, u \in Tasks, c \in Conns : Opens(t, c) /\ Opens(u, c) => t = u

OpensAbsent == \A t \in Tasks, c \in Conns : Opens(t, c) => registry[c] = None

\* Of what task t opens it goes on with the same or ends.
LEMMA GoesOn ==
  ASSUME TypeOK, NEW t \in Tasks, Step(t)
  PROVE  \A c \in Conns : Opens(t, c)' => Opens(t, c)
<1>0. pc \in [Tasks -> Labels] /\ arg \in [Tasks -> Requests]
  BY DEF TypeOK
<1>1. CASE ConnectReserve(t) \/ ConnectDialled(t)
  <2>1. /\ pc[t] \in Connecting /\ pc'[t] \notin OnView
        /\ pc'[t] \in Connecting => arg'[t].p = arg[t].p
    BY <1>0, <1>1 DEF ConnectReserve, ConnectDialled, Finish, Goto, At, Connecting, OnView
  <2> QED
    BY <2>1 DEF Opens
<1>2. CASE \/ MongoChild(t) \/ MongoParent(t) \/ ViewSecret(t) \/ ViewCap(t) \/ ViewEvict(t)
           \/ ViewReclaimable(t) \/ ViewReserve(t)
  <2>1. pc[t] \in OnView /\ pc'[t] \notin Connecting
    BY <1>0, <1>2 DEF MongoChild, MongoParent, ViewSecret, ViewCap, ViewEvict,
       ViewReclaimable, ViewReserve, Finish, Goto, At, Connecting, OnView
  <2>2. pc'[t] \in OnView => arg'[t].p = arg[t].p /\ arg'[t].d = arg[t].d
    BY <1>0, <1>2 DEF MongoChild, MongoParent, ViewSecret, ViewCap, ViewEvict,
       ViewReclaimable, ViewReserve, Finish, Goto, OnView, Requests
  <2> QED
    BY <2>1, <2>2 DEF Opens
<1>3. CASE CloseView(t)
  BY <1>3 DEF CloseView, Opens
<1>4. CASE \/ ConnectAdopt(t) \/ ConnectAttach(t) \/ ConnectInsert(t) \/ GiveUp(t)
           \/ DisconnectUnregister(t) \/ TakeViews(t) \/ DisconnectClose(t)
           \/ MongoInsert(t) \/ ViewInsert(t) \/ TakeVictimViews(t) \/ ReapNext(t)
           \/ ReapUnregister(t) \/ ReapClose(t) \/ ReapDrop(t) \/ SweepDone(t)
  <2>1. pc'[t] \notin Connecting \cup OnView
    BY <1>0, <1>4 DEF ConnectAdopt, ConnectAttach, ConnectInsert, GiveUp,
       DisconnectUnregister, TakeViews, DisconnectClose, MongoInsert, ViewInsert,
       TakeVictimViews, ReapNext, ReapUnregister, ReapClose, ReapDrop, SweepDone, Finish,
       Goto, At, Connecting, OnView
  <2> QED
    BY <2>1 DEF Opens
<1> QED
  BY <1>1, <1>2, <1>3, <1>4 DEF Step

\* A connection enters the map when the task that opened it is done.
LEMMA EntersLast ==
  ASSUME IInv, NEW t \in Tasks, Step(t)
  PROVE  \/ \A c \in Conns : registry'[c] \in {registry[c], None}
         \/ /\ pc'[t] = "idle"
            /\ \E c \in Conns : /\ Opens(t, c)
                                /\ \A e \in Conns \ {c} : registry'[e] = registry[e]
<1>0. TypeOK
  BY DEF IInv
<1>1. CASE ConnectInsert(t)
  <2>1. Top(arg[t].p) \in Conns /\ pc[t] = "insert"
    BY <1>1, ConnTypes DEF ConnectInsert, At, IInv, Control, Detached
  <2>2. pc'[t] = "idle" /\ \A e \in Conns \ {Top(arg[t].p)} : registry'[e] = registry[e]
    BY <1>0, <1>1 DEF ConnectInsert, Finish, Goto, TypeOK
  <2> QED
    BY <2>1, <2>2 DEF Opens, Connecting
<1>2. CASE MongoInsert(t) \/ ViewInsert(t)
  <2>1. View(arg[t].p, arg[t].d) \in Conns /\ pc[t] \in {"mongoInsert", "dialView"}
    BY <1>2, ConnTypes DEF MongoInsert, ViewInsert, At, IInv, Control, Detached, OnView
  <2>2. /\ pc'[t] = "idle"
        /\ \A e \in Conns \ {View(arg[t].p, arg[t].d)} : registry'[e] = registry[e]
    BY <1>0, <1>2 DEF MongoInsert, ViewInsert, Finish, Goto, TypeOK
  <2>3. Opens(t, View(arg[t].p, arg[t].d))
    BY <2>1 DEF Opens, OnView
  <2> QED
    BY <2>1, <2>2, <2>3
<1>3. CASE ~ConnectInsert(t) /\ ~MongoInsert(t) /\ ~ViewInsert(t)
  BY <1>3
     DEF Step, ConnectAdopt, ConnectAttach, ConnectReserve, ConnectDialled, GiveUp,
         DisconnectUnregister, TakeViews, CloseView, DisconnectClose, MongoChild, MongoParent,
         ViewSecret, ViewCap, ViewEvict, ViewReclaimable, ViewReserve, TakeFirstDoomed,
         TakeVictimViews, ReapNext, ReapUnregister, ReapClose, ReapDrop, SweepDone,
         Unregister
<1> QED
  BY <1>1, <1>2, <1>3

LEMMA StartsAbsent ==
  ASSUME IInv, OpensAbsent, NEW t \in Workers, Start(t)
  PROVE  OpensAbsent' /\ UNCHANGED registry
<1>0. TypeOK /\ t \in Tasks
  BY DEF IInv, Tasks
<1>1. /\ UNCHANGED registry
      /\ \A u \in Tasks \ {t} : pc'[u] = pc[u] /\ arg'[u] = arg[u]
  BY <1>0, OthersStay
     DEF Start, ConnectReuse, ConnectNew, TestConnection, DisconnectForget, OpenView,
         ReleaseSelect
<1>2. \A c \in Conns : Opens(t, c)' => registry[c] = None
  <2>1. CASE pc'[t] \notin Connecting \cup OnView
    BY <2>1 DEF Opens
  <2>2. ASSUME NEW p \in Profiles, NEW origin, ConnectNew(t, p, origin)
        PROVE  \A c \in Conns : Opens(t, c)' => registry[c] = None
    BY <1>0, <2>2 DEF ConnectNew, Goto, Request, TypeOK, Opens, Connecting, OnView
  <2>3. ASSUME NEW p \in Profiles, NEW d \in Databases, OpenView(t, p, d)
        PROVE  \A c \in Conns : Opens(t, c)' => registry[c] = None
    <3>1. CASE registry[View(p, d)] # None
      BY <1>0, <2>3, <3>1 DEF OpenView, At, Opens, Connecting, OnView
    <3>2. CASE registry[View(p, d)] = None
      <4>1. arg'[t].p = p /\ arg'[t].d = d /\ pc'[t] \in {"mongoChild", "secret"}
        BY <1>0, <2>3, <3>2 DEF OpenView, Goto, Request, TypeOK
      <4> QED
        BY <3>2, <4>1 DEF Opens, Connecting, OnView
    <3> QED
      BY <3>1, <3>2
  <2> QED
    BY <1>0, <2>1, <2>2, <2>3
       DEF Start, ConnectReuse, TestConnection, DisconnectForget, ReleaseSelect, At, Goto,
           TypeOK, Connecting, OnView
<1> QED
  BY <1>1, <1>2 DEF OpensAbsent, Opens

LEMMA AbsentStep ==
  OneOpensEach /\ IInv /\ OpensAbsent /\ [Next]_vars =>
    /\ OpensAbsent'
    /\ \A c \in Conns : registry[c] # None => registry'[c] \in {registry[c], None}
<1> SUFFICES ASSUME OneOpensEach, IInv, OpensAbsent, [Next]_vars
             PROVE  /\ OpensAbsent'
                    /\ \A c \in Conns : registry[c] # None =>
                         registry'[c] \in {registry[c], None}
  OBVIOUS
<1>0. TypeOK /\ pc \in [Tasks -> Labels] /\ Reaper \in Tasks
  BY DEF IInv, TypeOK, Tasks
<1>1. CASE UNCHANGED <<registry, pc, arg>>
  BY <1>1 DEF OpensAbsent, Opens
<1>2. CASE SweepSelect
  <2>1. /\ pc'[Reaper] = "reap" /\ UNCHANGED <<registry, arg>>
        /\ \A u \in Tasks \ {Reaper} : pc'[u] = pc[u]
    BY <1>0, <1>2 DEF SweepSelect, Goto
  <2> QED
    BY <2>1 DEF OpensAbsent, Opens, Connecting, OnView
<1>3. ASSUME NEW t \in Tasks, Step(t)
      PROVE  /\ OpensAbsent'
             /\ \A c \in Conns : registry[c] # None => registry'[c] \in {registry[c], None}
  <2>1. /\ \A u \in Tasks \ {t} : pc'[u] = pc[u] /\ arg'[u] = arg[u]
        /\ \A c \in Conns : Opens(t, c)' => Opens(t, c)
    BY <1>0, <1>3, OthersStay, GoesOn
  <2>2. \A u \in Tasks, c \in Conns : Opens(u, c)' => Opens(u, c)
    BY <2>1 DEF Opens
  <2>3. CASE \A c \in Conns : registry'[c] \in {registry[c], None}
    BY <2>2, <2>3 DEF OpensAbsent
  <2>4. ASSUME pc'[t] = "idle", NEW c \in Conns, Opens(t, c),
               \A e \in Conns \ {c} : registry'[e] = registry[e]
        PROVE  /\ OpensAbsent'
               /\ \A e \in Conns : registry[e] # None => registry'[e] \in {registry[e], None}
    <3>1. \A u \in Tasks : ~Opens(u, c)'
      BY <2>2, <2>4 DEF OneOpensEach, Opens, Connecting, OnView
    <3>2. registry[c] = None
      BY <2>4 DEF OpensAbsent
    <3> QED
      BY <2>2, <2>4, <3>1, <3>2 DEF OpensAbsent
  <2> QED
    BY <1>3, <2>3, <2>4, EntersLast
<1> QED
  BY <1>1, <1>2, <1>3, StartsAbsent DEF Next, Use, GrowIdle, taskVars, vars

-----------------------------------------------------------------------------
(* Reaping.  What a sweep chose was the bridge's then; whose pool it is when  *)
(* the sweep closes it is for those who connected it meanwhile to say.        *)

\* Task t has chosen to close the top-level connection of p.
Closes(t, p) ==
  \/ Top(p) \in victims[t]
  \/ pc[t] \in {"reapViews", "reapParent"} /\ arg[t].p = p

\* Task t connects p for a person, who gets a pool that is there or a new one.
Wants(t, p) ==
  /\ arg[t].p = p
  /\ pc[t] = "adopt" \/ (pc[t] \in Connecting /\ arg[t].origin = "User")

\* Nobody connects what is about to be closed.
NoneWanted == \A t, u \in Tasks, p \in Profiles : Closes(t, p) => ~Wants(u, p)

ClosesBridges ==
  \A t \in Tasks, p \in Profiles : Closes(t, p) /\ registry[Top(p)] # None =>
    pool[registry[Top(p)]].origin = "Bridge"

\* The pools in the map are those that were, of the origin they had.
OriginsStay ==
  \A p \in Profiles : registry'[Top(p)] # None =>
    /\ registry'[Top(p)] = registry[Top(p)]
    /\ pool'[registry[Top(p)]].origin = pool[registry[Top(p)]].origin

\* A step of one task leaves alone what the others hold and chose.
LEMMA OthersHold ==
  ASSUME TypeOK, NEW t \in Tasks, Step(t) \/ Start(t)
  PROVE  \A u \in Tasks \ {t} : mine'[u] = mine[u] /\ victims'[u] = victims[u]
<1> SUFFICES ASSUME NEW u \in Tasks, u # t
             PROVE  mine'[u] = mine[u] /\ victims'[u] = victims[u]
  OBVIOUS
<1>1. DOMAIN mine = Tasks /\ DOMAIN victims = Tasks
  BY DEF TypeOK
<1>2. CASE Start(t)
  BY <1>1, <1>2
     DEF Start, ConnectReuse, ConnectNew, TestConnection, DisconnectForget, OpenView,
         ReleaseSelect, Reserve, Open
<1>3. CASE TakeVictimViews(t) \/ ReapNext(t)
  BY <1>1, <1>3 DEF TakeVictimViews, ReapNext
<1>4. ASSUME UNCHANGED victims, mine' = mine \/ \E i : mine' = [mine EXCEPT ![t] = i]
      PROVE  mine'[u] = mine[u] /\ victims'[u] = victims[u]
  BY <1>1, <1>4
<1>5. CASE ConnectReserve(t) \/ ViewReserve(t)
  <2>1. UNCHANGED victims
    BY <1>5 DEF ConnectReserve, ViewReserve
  <2>2. mine' = mine \/ \E i : mine' = [mine EXCEPT ![t] = i]
    BY <1>5 DEF ConnectReserve, ViewReserve, OpenUnmetered, Reserve, Open
  <2> QED
    BY <1>4, <2>1, <2>2
<1>6. CASE \/ ConnectInsert(t) \/ GiveUp(t) \/ DisconnectUnregister(t)
           \/ DisconnectClose(t) \/ ViewInsert(t) \/ ReapUnregister(t) \/ ReapDrop(t)
  <2>1. UNCHANGED victims
    BY <1>6
       DEF ConnectInsert, GiveUp, DisconnectUnregister, DisconnectClose, ViewInsert,
           ReapUnregister, ReapDrop
  <2>2. \E i : mine' = [mine EXCEPT ![t] = i]
    BY <1>6
       DEF ConnectInsert, GiveUp, DisconnectUnregister, DisconnectClose, ViewInsert,
           ReapUnregister, ReapDrop
  <2> QED
    BY <1>4, <2>1, <2>2
<1>7. CASE \/ ConnectAdopt(t) \/ ConnectAttach(t) \/ ConnectDialled(t) \/ TakeViews(t)
           \/ CloseView(t) \/ MongoChild(t) \/ MongoParent(t) \/ MongoInsert(t)
  BY <1>7
     DEF ConnectAdopt, ConnectAttach, ConnectDialled, TakeViews, CloseView, MongoChild,
         MongoParent, MongoInsert
<1>8. CASE \/ ViewSecret(t) \/ ViewCap(t) \/ ViewEvict(t) \/ ViewReclaimable(t)
           \/ ReapClose(t) \/ SweepDone(t)
  BY <1>8 DEF ViewSecret, ViewCap, ViewEvict, ViewReclaimable, ReapClose, SweepDone
<1> QED
  BY <1>2, <1>3, <1>5, <1>6, <1>7, <1>8 DEF Step

\* A pool that somebody owns is dropped by no other, and a new one is nobody's.
LEMMA DropLeavesOrigins ==
  ASSUME IInv, NEW i, Drop(i), UNCHANGED registry,
         \A c \in Conns : registry[c] # None => registry[c] # i
  PROVE  OriginsStay
BY HeldApart, ConnTypes DEF OriginsStay, Drop, IInv, TypeOK

LEMMA OpenLeavesOrigins ==
  ASSUME IInv, NEW t \in Tasks, NEW p, NEW amount, NEW origin,
         Open(t, p, amount, origin), UNCHANGED registry
  PROVE  OriginsStay
BY OpenLeaves, HeldApart, ConnTypes DEF OriginsStay

LEMMA OriginsStep ==
  ASSUME IInv, NEW t \in Tasks, Step(t), ~ConnectAdopt(t), ~ConnectInsert(t)
  PROVE  OriginsStay
<1>0. TypeOK
  BY DEF IInv
<1>1. CASE UNCHANGED pool /\ \A c \in Conns : registry'[c] \in {registry[c], None}
  BY <1>1, ConnTypes DEF OriginsStay
<1>2. CASE ConnectAttach(t)
  <2>1. arg[t].p \in Profiles
    BY <1>2 DEF ConnectAttach, At, IInv, Control, Detached
  <2>2. ASSUME NEW j \in PoolIds PROVE pool'[j].origin = pool[j].origin
    BY <1>0, <1>2, <2>1 DEF ConnectAttach, TypeOK, PoolRecords
  <2> QED
    BY <1>2, <2>2, HeldApart, ConnTypes DEF ConnectAttach, OriginsStay
<1>3. CASE ConnectReserve(t)
  BY <1>1, <1>3, OpenLeavesOrigins DEF ConnectReserve, OpenUnmetered, Reserve
<1>4. CASE GiveUp(t) \/ ReapDrop(t)
  BY <1>4, HeldApart, DropLeavesOrigins DEF GiveUp, ReapDrop
<1>5. CASE CloseView(t)
  BY <1>5, HeldApart, DropLeavesOrigins DEF CloseView
<1>6. CASE DisconnectClose(t)
  BY <1>1, <1>6, HeldApart, DropLeavesOrigins DEF DisconnectClose
<1>7. CASE MongoInsert(t) \/ ViewInsert(t)
  <2> DEFINE c == View(arg[t].p, arg[t].d)
  <2>1. /\ c \in Conns
        /\ \A p \in Profiles : Top(p) \in Conns /\ Top(p) # c
    BY <1>7, ConnTypes, TopsApart
       DEF MongoInsert, ViewInsert, At, IInv, Control, Detached, OnView
  <2>2. \A p \in Profiles : registry'[Top(p)] = registry[Top(p)]
    BY <1>0, <1>7, <2>1 DEF MongoInsert, ViewInsert, TypeOK
  <2>3. \A p \in Profiles : registry[Top(p)] # None => registry[Top(p)] # registry[c]
    BY <2>1 DEF IInv, Ownership, NeverOwnedTwice
  <2>4. \A i \in Live : i # registry[c] => pool'[i] = pool[i]
    <3>1. CASE MongoInsert(t)
      <4>1. NewId \in PoolIds /\ NewId \notin Live
        BY <3>1, FreshId DEF MongoInsert
      <4> QED
        BY <3>1, <4>1 DEF MongoInsert, Live
    <3>2. CASE ViewInsert(t)
      BY <1>0, <3>2 DEF ViewInsert, Drop, Live, TypeOK
    <3> QED
      BY <1>7, <3>1, <3>2
  <2> QED
    BY <2>1, <2>2, <2>3, <2>4, HeldApart DEF OriginsStay
<1>8. CASE ViewReserve(t)
  <2>1. ASSUME Open(t, arg[t].p, Available(arg[t].p, ViewRequest), "User"),
               UNCHANGED registry
        PROVE  OriginsStay
    BY <2>1, OpenLeavesOrigins
  <2> QED
    BY <1>1, <1>8, <2>1 DEF ViewReserve, Reserve, TakeFirstDoomed, Unregister
<1> QED
  BY <1>1, <1>2, <1>3, <1>4, <1>5, <1>6, <1>7, <1>8
     DEF Step, ConnectDialled, DisconnectUnregister, TakeViews, MongoChild, MongoParent,
         ViewSecret, ViewCap, ViewEvict, TakeFirstDoomed, ViewReclaimable, TakeVictimViews,
         ReapNext, ReapUnregister, ReapClose, SweepDone, Unregister

\* What a task has chosen grows only when it chooses.
LEMMA ChosenBefore ==
  ASSUME IInv, NEW t \in Tasks, Step(t)
  PROVE  \A u \in Tasks, p \in Profiles : Closes(u, p)' => Closes(u, p)
<1>0. TypeOK
  BY DEF IInv
<1>1. \A u \in Tasks \ {t} :
        pc'[u] = pc[u] /\ arg'[u] = arg[u] /\ victims'[u] = victims[u]
  BY <1>0, OthersStay, OthersHold
<1>2. CASE ReapNext(t)
  <2>1. PICK c \in victims[t] \ Views :
          /\ victims' = [victims EXCEPT ![t] = @ \ {c}]
          /\ arg' = [arg EXCEPT ![t] = Request(c[1], NoDb, "User")]
    BY <1>2 DEF ReapNext
  <2>2. arg'[t].p = c[1] /\ victims'[t] \subseteq victims[t] /\ c \in victims[t]
    BY <1>0, <2>1 DEF TypeOK, Request
  <2>3. c = Top(c[1])
    BY <1>0, <2>1 DEF TypeOK, Conns, Views, Top
  <2> QED
    BY <1>1, <2>2, <2>3 DEF Closes
<1>3. CASE TakeVictimViews(t)
  <2>1. victims'[t] \subseteq victims[t] /\ pc'[t] = "reap"
    BY <1>0, <1>3 DEF TakeVictimViews, Goto, TypeOK
  <2> QED
    BY <1>1, <2>1 DEF Closes
<1>4. CASE TakeViews(t) \/ CloseView(t)
  <2>1. /\ UNCHANGED <<victims, arg>>
        /\ pc'[t] \in {"reapViews", "reapParent"} => pc[t] \in {"reapViews", "reapParent"}
    BY <1>0, <1>4 DEF TakeViews, CloseView, Goto, At, TypeOK
  <2> QED
    BY <1>1, <2>1 DEF Closes
<1>5. CASE ~ReapNext(t) /\ ~TakeVictimViews(t) /\ ~TakeViews(t) /\ ~CloseView(t)
  <2>1. pc'[t] \notin {"reapViews", "reapParent"}
    BY <1>0, <1>5
       DEF Step, ConnectAdopt, ConnectAttach, ConnectReserve, ConnectDialled, ConnectInsert,
           GiveUp, DisconnectUnregister, DisconnectClose, MongoChild, MongoParent,
           MongoInsert, ViewSecret, ViewCap, ViewEvict, ViewReclaimable, ViewReserve,
           ViewInsert, ReapUnregister, ReapClose, ReapDrop, SweepDone, Finish, Goto, At,
           TypeOK
  <2>2. CASE \/ ConnectAdopt(t) \/ ConnectAttach(t) \/ ConnectReserve(t) \/ ConnectDialled(t)
             \/ ConnectInsert(t) \/ GiveUp(t) \/ DisconnectUnregister(t)
             \/ DisconnectClose(t) \/ MongoChild(t) \/ MongoParent(t) \/ MongoInsert(t)
    <3>1. UNCHANGED victims
      BY <2>2
         DEF ConnectAdopt, ConnectAttach, ConnectReserve, ConnectDialled, ConnectInsert,
             GiveUp, DisconnectUnregister, DisconnectClose, MongoChild, MongoParent,
             MongoInsert
    <3> QED
      BY <1>1, <2>1, <3>1 DEF Closes
  <2>3. CASE \/ ViewSecret(t) \/ ViewCap(t) \/ ViewEvict(t) \/ ViewReclaimable(t)
             \/ ViewReserve(t) \/ ViewInsert(t) \/ ReapUnregister(t) \/ ReapClose(t)
             \/ ReapDrop(t) \/ SweepDone(t)
    <3>1. UNCHANGED victims
      BY <2>3
         DEF ViewSecret, ViewCap, ViewEvict, ViewReclaimable, ViewReserve, ViewInsert,
             ReapUnregister, ReapClose, ReapDrop, SweepDone
    <3> QED
      BY <1>1, <2>1, <3>1 DEF Closes
  <2> QED
    BY <1>5, <2>2, <2>3 DEF Step
<1> QED
  BY <1>2, <1>3, <1>4, <1>5

\* What is chosen is views and pools of the bridge.
LEMMA ChoosesBridges ==
  ASSUME IInv, NEW p \in Profiles
  PROVE  /\ Top(p) \in RegisteredViews \cup BridgeTops =>
              pool[registry[Top(p)]].origin = "Bridge"
         /\ Top(p) \notin RegisteredViews
         /\ \A q, n : Top(p) \notin OverCap(q, n)
BY TopsApart DEF RegisteredViews, BridgeTops, OverCap, ViewsOf

LEMMA StartsBridges ==
  ASSUME IInv, ClosesBridges, NEW t \in Workers, Start(t)
  PROVE  ClosesBridges'
<1>0. TypeOK /\ t \in Tasks
  BY DEF IInv, Tasks
<1>1. /\ UNCHANGED registry
      /\ \A u \in Tasks \ {t} :
           pc'[u] = pc[u] /\ arg'[u] = arg[u] /\ victims'[u] = victims[u]
      /\ pc'[t] \notin {"reapViews", "reapParent"}
  BY <1>0, OthersStay, OthersHold
     DEF Start, ConnectReuse, ConnectNew, TestConnection, DisconnectForget, OpenView,
         ReleaseSelect, At, Goto, TypeOK
<1>2. CASE ReleaseSelect(t)
  <2>1. UNCHANGED pool /\ victims'[t] = RegisteredViews \cup BridgeTops
    BY <1>0, <1>2 DEF ReleaseSelect, TypeOK
  <2> QED
    BY <1>1, <2>1, ChoosesBridges DEF ClosesBridges, Closes
<1>3. CASE ~ReleaseSelect(t)
  <2>1. UNCHANGED victims
    BY <1>3 DEF Start, ConnectReuse, ConnectNew, TestConnection, DisconnectForget, OpenView
  <2>2. OriginsStay
    <3>1. ASSUME NEW p \in Profiles, TestConnection(t, p) PROVE OriginsStay
      BY <1>0, <1>1, <3>1, OpenLeavesOrigins DEF TestConnection, Reserve
    <3>2. CASE UNCHANGED pool
      BY <1>1, <3>2 DEF OriginsStay
    <3> QED
      BY <1>3, <3>1, <3>2
         DEF Start, ConnectReuse, ConnectNew, DisconnectForget, OpenView
  <2> QED
    BY <1>1, <2>1, <2>2 DEF ClosesBridges, Closes, OriginsStay
<1> QED
  BY <1>2, <1>3

LEMMA BridgesStep ==
  NoneWanted /\ IInv /\ Fit /\ ClosesBridges /\ [Next]_vars => ClosesBridges'
<1> SUFFICES ASSUME NoneWanted, IInv, Fit, ClosesBridges, [Next]_vars
             PROVE  ClosesBridges'
  OBVIOUS
<1>0. TypeOK /\ Reaper \in Tasks
  BY DEF IInv, Tasks
<1>1. CASE UNCHANGED <<registry, pool, pc, arg, victims>>
  BY <1>1 DEF ClosesBridges, Closes
<1>2. CASE SweepSelect
  <2>1. /\ UNCHANGED <<registry, pool, arg>> /\ pc'[Reaper] = "reap"
        /\ \A u \in Tasks \ {Reaper} : pc'[u] = pc[u] /\ victims'[u] = victims[u]
        /\ \A c \in victims'[Reaper] : \/ c \in RegisteredViews \cup BridgeTops
                                       \/ \E q : c \in OverCap(q, 0)
    BY <1>0, <1>2 DEF SweepSelect, Goto, TypeOK
  <2> QED
    BY <2>1, ChoosesBridges DEF ClosesBridges, Closes
<1>3. ASSUME NEW t \in Tasks, Step(t) PROVE ClosesBridges'
  <2>1. \A u \in Tasks, p \in Profiles : Closes(u, p)' => Closes(u, p)
    BY <1>3, ChosenBefore
  <2>2. CASE OriginsStay
    BY <2>1, <2>2 DEF ClosesBridges, OriginsStay
  <2>3. CASE ConnectAdopt(t)
    <3>1. /\ arg[t].p \in Profiles /\ Wants(t, arg[t].p) /\ UNCHANGED registry
      BY <2>3 DEF ConnectAdopt, At, Wants, IInv, Control, Detached
    <3>2. \A q \in Profiles : q # arg[t].p /\ registry[Top(q)] # None =>
            registry[Top(q)] # registry[Top(arg[t].p)]
      BY <3>1, TopsApart, ConnTypes DEF IInv, Ownership, NeverOwnedTwice
    <3>3. \A j \in PoolIds : j # registry[Top(arg[t].p)] => pool'[j] = pool[j]
      BY <1>0, <2>3 DEF ConnectAdopt, TypeOK
    <3>4. \A u \in Tasks : ~Closes(u, arg[t].p)
      BY <3>1 DEF NoneWanted
    <3> QED
      BY <2>1, <3>1, <3>2, <3>3, <3>4, HeldApart, ConnTypes DEF ClosesBridges
  <2>4. CASE ConnectInsert(t)
    <3> DEFINE c == Top(arg[t].p)
               new == mine[t]
               b == (arg[t].origin = "User")
               inserted == [pool EXCEPT ![new].heart = b]
    <3>1. /\ arg[t].p \in Profiles /\ c \in Conns /\ pc[t] = "insert"
          /\ new \in PoolIds /\ new # registry[c] /\ new \in Live
          /\ \A e \in Conns : registry[e] # new
          /\ arg[t].origin \in Origins /\ pool[new].origin = arg[t].origin
      BY <1>0, <2>4, ConnTypes, HeldApart
         DEF ConnectInsert, At, Dialling, TypeOK, Requests, IInv, Control, Detached, Fit,
             DialledFit
    <3>2. /\ inserted[new].origin = pool[new].origin
          /\ \A j \in PoolIds : j # new => inserted[j] = pool[j]
      <4>1. pool \in [PoolIds -> PoolRecords]
        BY <1>0 DEF TypeOK
      <4> HIDE DEF b
      <4> QED
        BY <3>1, <4>1 DEF PoolRecords
    <3>3. \A j \in PoolIds : j # registry[c] => pool'[j] = inserted[j]
      BY <1>0, <2>4 DEF ConnectInsert, TypeOK
    <3>4. registry'[c] = new /\ \A e \in Conns \ {c} : registry'[e] = registry[e]
      BY <1>0, <2>4, <3>1 DEF ConnectInsert, TypeOK
    <3> HIDE DEF inserted
    <3>5. \A u \in Tasks : Closes(u, arg[t].p) => pool[new].origin = "Bridge"
      BY <3>1 DEF NoneWanted, Wants, Connecting, Origins
    <3>6. pool'[new].origin = pool[new].origin
      BY <3>1, <3>2, <3>3
    <3>7. ASSUME NEW q \in Profiles, q # arg[t].p, registry'[Top(q)] # None
          PROVE  /\ registry'[Top(q)] = registry[Top(q)]
                 /\ pool'[registry[Top(q)]].origin = pool[registry[Top(q)]].origin
      <4>1. Top(q) \in Conns /\ Top(q) # c
        BY <3>1, <3>7, TopsApart, ConnTypes
      <4>2. registry'[Top(q)] = registry[Top(q)]
        BY <3>4, <4>1
      <4>3. /\ registry[Top(q)] \in PoolIds /\ registry[Top(q)] # new
            /\ registry[Top(q)] # registry[c]
        BY <3>1, <3>7, <4>1, <4>2, HeldApart DEF IInv, Ownership, NeverOwnedTwice
      <4> QED
        BY <3>2, <3>3, <4>2, <4>3
    <3> QED
      BY <2>1, <3>4, <3>5, <3>6, <3>7 DEF ClosesBridges
  <2> QED
    BY <1>3, <2>2, <2>3, <2>4, OriginsStep
<1> QED
  BY <1>1, <1>2, <1>3, StartsBridges DEF Next, Use, GrowIdle, taskVars, vars

\* What a sweep takes out of the map to close is what was there under the id it chose.
LEMMA TakesChosen ==
  ASSUME IInv, ClosesBridges, [Next]_vars, NEW t \in Tasks, At(t, "reapParent"),
         mine'[t] # None
  PROVE  pool[mine'[t]].origin = "Bridge"
<1>0. TypeOK /\ mine[t] = None
  BY DEF IInv, Control, At, Holding, MayHold
<1>1. ASSUME NEW u \in Tasks, u # t, Step(u) \/ Start(u) PROVE FALSE
  BY <1>0, <1>1, OthersHold
<1>2. CASE UNCHANGED mine
  BY <1>0, <1>2
<1>3. CASE Start(t)
  BY <1>3 DEF Start, ConnectReuse, ConnectNew, TestConnection, DisconnectForget, OpenView,
     ReleaseSelect, At
<1>4. CASE Step(t)
  <2>1. CASE ReapUnregister(t)
    <3>1. mine'[t] = registry[Top(arg[t].p)] /\ arg[t].p \in Profiles
      BY <1>0, <2>1 DEF ReapUnregister, TypeOK, At, IInv, Control, Detached
    <3> QED
      BY <3>1 DEF ClosesBridges, Closes, At
  <2> QED
    BY <1>2, <1>4, <2>1
       DEF Step, ConnectAdopt, ConnectAttach, ConnectReserve, ConnectDialled, ConnectInsert,
           GiveUp, DisconnectUnregister, TakeViews, CloseView, DisconnectClose, MongoChild,
           MongoParent, MongoInsert, ViewSecret, ViewCap, ViewEvict, ViewReclaimable,
           ViewReserve, ViewInsert, TakeVictimViews, ReapNext, ReapClose, ReapDrop,
           SweepDone, At
<1> QED
  BY <1>1, <1>2, <1>3, <1>4 DEF Next, SweepSelect, Use, GrowIdle, taskVars, vars, Tasks

-----------------------------------------------------------------------------
(* The ledger.  A pool with a grant is an entry; what is reserved on a server *)
(* is what its entries amount to.                                             *)

Holds(i) == pool[i].home # None /\ pool[i].grant > 0
Entry(i, p, amount) == [grant |-> i, server |-> ServerOf[p], amount |-> amount]
Given(i) == {i} \X (1..pool[i].grant)

Accounted ==
  \A s \in Servers : /\ IsFiniteSet(Ledger!Granted(s))
                     /\ inUse[s] = Cardinality(Ledger!Granted(s))

\* The ledger counts as this module does.
LEMMA Counting == \A S : Ledger!Cardinality(S) = Cardinality(S)
BY DEF Ledger!Cardinality, Cardinality

\* Every step is a step of the ledger, or none.
Kept == Accounted' /\ [Ledger!Next]_Entries

\* What is entered, and which connections are granted on a server.
Granting ==
  /\ \A e : e \in Entries <=> \E i \in PoolIds :
       Holds(i) /\ e = Entry(i, pool[i].home, pool[i].grant)
  /\ \A s, x : x \in Ledger!Granted(s) <=> \E i \in PoolIds :
       Holds(i) /\ ServerOf[pool[i].home] = s /\ x \in Given(i)

LEMMA GrantingHolds == Granting
<1>1. \A e : e \in Entries <=> \E i \in PoolIds :
        Holds(i) /\ e = Entry(i, pool[i].home, pool[i].grant)
  BY DEF Entries, Holds, Entry, Live
<1>2. ASSUME NEW s, NEW x, x \in Ledger!Granted(s)
      PROVE  \E i \in PoolIds : Holds(i) /\ ServerOf[pool[i].home] = s /\ x \in Given(i)
  <2>1. PICK e \in Entries : e.server = s /\ x \in {e.grant} \X (1..e.amount)
    BY <1>2 DEF Ledger!Granted
  <2>2. PICK i \in PoolIds : Holds(i) /\ e = Entry(i, pool[i].home, pool[i].grant)
    BY <1>1
  <2>3. e.grant = i /\ e.server = ServerOf[pool[i].home] /\ e.amount = pool[i].grant
    BY <2>2 DEF Entry
  <2> QED
    BY <2>1, <2>2, <2>3 DEF Given
<1>3. ASSUME NEW s, NEW x, NEW i \in PoolIds, Holds(i), ServerOf[pool[i].home] = s,
             x \in Given(i)
      PROVE  x \in Ledger!Granted(s)
  <2> DEFINE e == Entry(i, pool[i].home, pool[i].grant)
  <2>1. e \in Entries
    BY <1>1, <1>3
  <2>2. e.grant = i /\ e.server = s /\ e.amount = pool[i].grant
    BY <1>3 DEF Entry
  <2> HIDE DEF e
  <2> QED
    BY <1>3, <2>1, <2>2 DEF Ledger!Granted, Given
<1> QED
  BY <1>1, <1>2, <1>3 DEF Granting

LEMMA GrantingNext == Granting'
BY GrantingHolds, PTL

\* The numbers up to n are n.
LEMMA Upto ==
  ASSUME NEW n \in Nat
  PROVE  IsFiniteSet(1..n) /\ Cardinality(1..n) = n
<1>1. IsFiniteSet(1..n) /\ Cardinality(1..n) = IF 1 > n THEN 0 ELSE n - 1 + 1
  BY FS_Interval
<1> QED
  BY <1>1

\* As many as there are in T, each with the tag i.
LEMMA Tagged ==
  ASSUME NEW i, NEW T, IsFiniteSet(T)
  PROVE  IsFiniteSet({i} \X T) /\ Cardinality({i} \X T) = Cardinality(T)
<1>1. IsFiniteSet({i}) /\ Cardinality({i}) = 1
  BY FS_Singleton
<1>2. IsFiniteSet({i} \X T) /\ Cardinality({i} \X T) = Cardinality({i}) * Cardinality(T)
  BY <1>1, FS_Product, Zenon
<1>3. Cardinality(T) \in Nat
  BY FS_CardinalityType
<1> QED
  BY <1>1, <1>2, <1>3

\* Nothing changes on the ledger.
LEMMA SameEntries ==
  ASSUME Accounted, UNCHANGED inUse,
         \A i \in PoolIds : \/ pool'[i].home = pool[i].home /\ pool'[i].grant = pool[i].grant
                            \/ ~Holds(i) /\ ~Holds(i)'
  PROVE  Kept
<1>1. \A i \in PoolIds : /\ Holds(i)' = Holds(i)
                         /\ Holds(i) => pool'[i].home = pool[i].home
                                        /\ pool'[i].grant = pool[i].grant
  BY DEF Holds
<1>2. Entries' = Entries
  <2>1. \A e : e \in Entries' <=> e \in Entries
    BY <1>1, GrantingHolds, GrantingNext DEF Granting
  <2> QED
    BY <2>1
<1>3. \A s : Ledger!Granted(s)' = Ledger!Granted(s)
  BY <1>2 DEF Ledger!Granted
<1> QED
  BY <1>2, <1>3 DEF Accounted, Kept

\* A grant that was not there is entered, within the budget of its profile.
LEMMA AddedEntry ==
  ASSUME TypeOK, Accounted, NEW i \in PoolIds, i \notin Live,
         NEW p \in Profiles, NEW amount \in Nat \ {0},
         pool'[i].home = p, pool'[i].grant = amount,
         \A j \in PoolIds \ {i} : pool'[j] = pool[j],
         inUse[ServerOf[p]] + amount <= Budget[p],
         inUse' = [inUse EXCEPT ![ServerOf[p]] = @ + amount]
  PROVE  Kept
<1> DEFINE s == ServerOf[p]
           added == {i} \X (1..amount)
<1>1. /\ s \in Servers /\ Budget[p] \in Nat /\ p # None
      /\ \A t \in Servers : inUse[t] \in Nat
  BY ConstantsAssumption DEF TypeOK
<1>2. ~Holds(i) /\ Holds(i)' /\ \A j \in PoolIds \ {i} : Holds(j)' = Holds(j)
  BY <1>1 DEF Holds, Live
<1>3. Entries' = Entries \cup {Entry(i, p, amount)}
  <2>1. \A e : e \in Entries' <=> e \in Entries \/ e = Entry(i, p, amount)
    BY <1>2, GrantingHolds, GrantingNext DEF Granting
  <2> QED
    BY <2>1
<1>4. \A e \in Entries : e.grant # i
  BY <1>2, GrantingHolds DEF Granting, Entry
<1>5. \A t : Ledger!Granted(t)' = IF t = s THEN Ledger!Granted(t) \cup added
                                  ELSE Ledger!Granted(t)
  <2>1. \A t, x : x \in Ledger!Granted(t)' <=>
                    x \in Ledger!Granted(t) \/ (t = s /\ x \in added)
    BY <1>2, GrantingHolds, GrantingNext DEF Granting, Given
  <2> QED
    BY <2>1
<1>6. Ledger!Granted(s) \cap added = {}
  BY <1>4 DEF Ledger!Granted
<1>7. IsFiniteSet(added) /\ Cardinality(added) = amount
  <2>1. IsFiniteSet(1..amount) /\ Cardinality(1..amount) = amount
    BY Upto
  <2> QED
    BY <2>1, Tagged
<1> HIDE DEF added
<1>8. /\ IsFiniteSet(Ledger!Granted(s) \cup added)
      /\ Cardinality(Ledger!Granted(s) \cup added) = inUse[s] + amount
  <2>1. IsFiniteSet(Ledger!Granted(s)) /\ Cardinality(Ledger!Granted(s)) = inUse[s]
    BY <1>1 DEF Accounted
  <2>2. Cardinality({}) = 0
    BY FS_EmptySet
  <2> QED
    BY <1>1, <1>6, <1>7, <2>1, <2>2, FS_Union
<1>9. \A t \in Servers : inUse'[t] = IF t = s THEN inUse[t] + amount ELSE inUse[t]
  BY DEF TypeOK
<1>10. Accounted'
  BY <1>5, <1>8, <1>9 DEF Accounted
<1>11. Ledger!Reserve(i, s, amount)
  <2>1. Ledger!Outstanding(s) = inUse[s]
    BY <1>1, Counting DEF Accounted, Ledger!Outstanding
  <2>2. Budget[p] \in {Budget[q] : q \in {r \in Profiles : ServerOf[r] = s}}
    OBVIOUS
  <2> QED
    BY <1>1, <1>3, <1>4, <2>1, <2>2 DEF Ledger!Reserve, Entry
<1>12. amount \in 1..Budget[p]
  BY <1>1
<1>13. Ledger!Next
  BY <1>1, <1>11, <1>12 DEF Ledger!Next
<1> QED
  BY <1>10, <1>13 DEF Kept

\* The pool i is dropped: its entry, if it has one, is struck out.
LEMMA DroppedEntry ==
  ASSUME TypeOK, Accounted, NEW i \in Live, ~Holds(i)',
         \A j \in PoolIds \ {i} : pool'[j].home = pool[j].home
                                  /\ pool'[j].grant = pool[j].grant,
         Release(i)
  PROVE  Kept
<1>0. /\ i \in PoolIds /\ pool[i].home \in Profiles /\ pool[i].grant \in Nat
      /\ \A t \in Servers : inUse[t] \in Nat
  BY DEF TypeOK, PoolRecords, Live
<1>1. PICK p \in Profiles, amount \in Nat : p = pool[i].home /\ amount = pool[i].grant
  BY <1>0
<1> DEFINE s == ServerOf[p]
           gone == {i} \X (1..amount)
<1>2. /\ s \in Servers
      /\ \A t \in Servers : inUse'[t] = IF t = s THEN Monus(inUse[t], amount) ELSE inUse[t]
  BY <1>0, <1>1, ConstantsAssumption DEF Release, TypeOK
<1>3. \A j \in PoolIds \ {i} : Holds(j)' = Holds(j)
  BY DEF Holds
<1>4. CASE ~Holds(i)
  <2>1. amount = 0
    BY <1>0, <1>1, <1>4 DEF Holds, Live
  <2>2. \A n \in Nat : Monus(n, 0) = n
    BY DEF Monus
  <2>3. inUse' = inUse
    BY <1>0, <1>1, <2>1, <2>2 DEF TypeOK, Release
  <2> QED
    BY <1>4, <2>3, SameEntries
<1>5. CASE Holds(i)
  <2> DEFINE e == Entry(i, p, amount)
  <2>1. e \in Entries
    BY <1>0, <1>1, <1>5, GrantingHolds DEF Granting
  <2>2. Entries' = Entries \ {e}
    <3>1. \A f : f \in Entries' <=> f \in Entries /\ f # e
      BY <1>0, <1>1, <1>3, <1>5, GrantingHolds, GrantingNext DEF Granting, Entry
    <3> QED
      BY <3>1
  <2>3. \A t : Ledger!Granted(t)' = IF t = s THEN Ledger!Granted(t) \ gone
                                    ELSE Ledger!Granted(t)
    <3>1. \A t, x : x \in Ledger!Granted(t)' <=>
                      x \in Ledger!Granted(t) /\ ~(t = s /\ x \in gone)
      BY <1>0, <1>1, <1>3, <1>5, GrantingHolds, GrantingNext DEF Granting, Given
    <3> HIDE DEF gone, s
    <3>2. ASSUME NEW t, t = s PROVE Ledger!Granted(t)' = Ledger!Granted(t) \ gone
      BY <3>1, <3>2
    <3>3. ASSUME NEW t, t # s PROVE Ledger!Granted(t)' = Ledger!Granted(t)
      BY <3>1, <3>3
    <3> QED
      BY <3>2, <3>3
  <2>4. gone \subseteq Ledger!Granted(s)
    BY <1>0, <1>1, <1>5, GrantingHolds DEF Granting, Given
  <2>5. IsFiniteSet(gone) /\ Cardinality(gone) = amount
    <3>1. IsFiniteSet(1..amount) /\ Cardinality(1..amount) = amount
      BY <1>1, Upto
    <3> QED
      BY <3>1, Tagged
  <2> HIDE DEF gone
  <2>6. /\ IsFiniteSet(Ledger!Granted(s) \ gone)
        /\ Cardinality(Ledger!Granted(s) \ gone) = Monus(inUse[s], amount)
    <3>1. IsFiniteSet(Ledger!Granted(s)) /\ Cardinality(Ledger!Granted(s)) = inUse[s]
      BY <1>2 DEF Accounted
    <3>2. Ledger!Granted(s) \cap gone = gone
      BY <2>4
    <3>3. /\ IsFiniteSet(Ledger!Granted(s) \ gone)
          /\ Cardinality(Ledger!Granted(s) \ gone) = inUse[s] - amount
      <4>1. /\ IsFiniteSet(Ledger!Granted(s) \ gone)
            /\ Cardinality(Ledger!Granted(s) \ gone)
                 = Cardinality(Ledger!Granted(s)) - Cardinality(Ledger!Granted(s) \cap gone)
        BY <3>1, FS_Difference
      <4> QED
        BY <2>5, <3>1, <3>2, <4>1
    <3>4. amount <= inUse[s]
      BY <2>4, <2>5, <3>1, FS_Subset
    <3> QED
      BY <1>0, <1>2, <3>3, <3>4 DEF Monus
  <2>7. Accounted'
    BY <1>2, <2>3, <2>6 DEF Accounted
  <2>8. Ledger!Next
    BY <2>1, <2>2 DEF Ledger!Next, Ledger!Release
  <2> QED
    BY <2>7, <2>8 DEF Kept
<1> QED
  BY <1>4, <1>5

\* Pools in the map or in the hands of a task have been opened.
LEMMA OwnedLive ==
  ASSUME IInv
  PROVE  /\ Live \subseteq PoolIds
         /\ \A c \in Conns : registry[c] # None => registry[c] \in Live
         /\ \A t \in Tasks : /\ mine[t] # None => mine[t] \in Live
                             /\ closing[t] \subseteq Live
BY DEF IInv, TypeOK, Ownership, OwnedIffLive, Live

\* q is what is known of the pools, but for the origin or the heartbeat of one.
Marked(q) == \E i, b : \/ q = [pool EXCEPT ![i].origin = b]
                       \/ q = [pool EXCEPT ![i].heart = b]

\* Adoption and the heartbeat leave homes and grants alone.
LEMMA SameGrants ==
  ASSUME TypeOK, NEW q, Marked(q)
  PROVE  \A j \in PoolIds : q[j].home = pool[j].home /\ q[j].grant = pool[j].grant
<1>1. PICK i, b : \/ q = [pool EXCEPT ![i].origin = b]
                  \/ q = [pool EXCEPT ![i].heart = b]
  BY DEF Marked
<1>2. \A r \in PoolRecords : /\ [r EXCEPT !.origin = b].home = r.home
                             /\ [r EXCEPT !.origin = b].grant = r.grant
                             /\ [r EXCEPT !.heart = b].home = r.home
                             /\ [r EXCEPT !.heart = b].grant = r.grant
  BY DEF PoolRecords
<1> SUFFICES ASSUME NEW j \in PoolIds
             PROVE  q[j].home = pool[j].home /\ q[j].grant = pool[j].grant
  OBVIOUS
<1>3. pool \in [PoolIds -> PoolRecords] /\ pool[j] \in PoolRecords
  BY DEF TypeOK
<1>4. CASE i = j
  BY <1>1, <1>2, <1>3, <1>4
<1>5. CASE i # j
  BY <1>1, <1>3, <1>5
<1> QED
  BY <1>4, <1>5

LEMMA QuietKept ==
  ASSUME Accounted, UNCHANGED <<pool, inUse>>
  PROVE  Kept
BY SameEntries

LEMMA DropKept ==
  ASSUME IInv, Accounted, NEW i \in Live, Drop(i)
  PROVE  Kept
<1>1. TypeOK /\ i \in PoolIds /\ Blank.home = None
  BY DEF IInv, Live, Blank
<1>2. pool'[i].home = None /\ \A j \in PoolIds \ {i} : pool'[j] = pool[j]
  BY <1>1 DEF Drop, TypeOK
<1> QED
  BY <1>1, <1>2, DroppedEntry DEF Drop, Holds

LEMMA OpenKept ==
  ASSUME IInv, Accounted, NEW t, NEW p \in Profiles, NEW origin, NEW amount \in Nat,
         Open(t, p, amount, origin),
         IF amount = 0 THEN UNCHANGED inUse
         ELSE /\ inUse[ServerOf[p]] + amount <= Budget[p]
              /\ inUse' = [inUse EXCEPT ![ServerOf[p]] = @ + amount]
  PROVE  Kept
<1>1. TypeOK /\ NewId \in PoolIds /\ NewId \notin Live
  BY FreshId DEF IInv, Open
<1> DEFINE i == NewId
           new == [home |-> p, grant |-> amount, origin |-> origin,
                   heart |-> FALSE, client |-> i]
<1>2. pool' = [pool EXCEPT ![i] = new] /\ new.home = p /\ new.grant = amount
  BY DEF Open
<1> HIDE DEF i, new
<1>3. /\ pool'[NewId].home = p /\ pool'[NewId].grant = amount
      /\ \A j \in PoolIds \ {NewId} : pool'[j] = pool[j]
  BY <1>1, <1>2 DEF TypeOK, i
<1>4. CASE amount = 0
  BY <1>1, <1>3, <1>4, SameEntries DEF Holds, Live
<1>5. CASE amount # 0
  BY <1>1, <1>3, <1>5, AddedEntry
<1> QED
  BY <1>4, <1>5

LEMMA ReserveKept ==
  ASSUME IInv, Accounted, NEW t, NEW p \in Profiles, NEW request \in Nat,
         NEW floor \in Nat \ {0}, NEW origin, Reserve(t, p, request, floor, origin)
  PROVE  Kept
<1> DEFINE amount == Available(p, request)
<1>1. /\ amount \in Nat /\ amount >= floor
      /\ amount > 0 => inUse[ServerOf[p]] + amount <= Budget[p]
  BY AvailableFits DEF IInv, Reserve
<1>2. /\ Open(t, p, amount, origin)
      /\ inUse' = [inUse EXCEPT ![ServerOf[p]] = @ + amount]
  BY DEF Reserve
<1>3. /\ amount # 0
      /\ inUse[ServerOf[p]] + amount <= Budget[p]
  BY <1>1
<1> HIDE DEF amount
<1> QED
  BY <1>1, <1>2, <1>3, OpenKept

(* A Mongo view has no grant: its place in the map passes from one to the next *)
(* without the ledger taking notice.                                           *)

OnMongo == {"mongoChild", "mongoParent", "mongoInsert"}
OnSql == {"secret", "cap", "evict", "reserveView", "dialView"}

DriversApart ==
  \A t \in Tasks : /\ pc[t] \in OnMongo => DriverOf[arg[t].p] = "mongo"
                   /\ pc[t] \in OnSql => DriverOf[arg[t].p] # "mongo"

MongoViewsFree ==
  \A c \in Views : DriverOf[c[1]] = "mongo" /\ registry[c] # None =>
    pool[registry[c]].grant = 0

LedgerInv == Accounted /\ DriversApart /\ MongoViewsFree

LEMMA DriversStep == IInv /\ DriversApart /\ [Next]_vars => DriversApart'
<1> SUFFICES ASSUME IInv, DriversApart, [Next]_vars PROVE DriversApart'
  OBVIOUS
<1>0. TypeOK
  BY DEF IInv
<1>1. ASSUME NEW t \in Tasks,
             \A u \in Tasks \ {t} : pc'[u] = pc[u] /\ arg'[u] = arg[u],
             \/ pc'[t] \notin OnMongo \cup OnSql
             \/ pc[t] \in OnMongo /\ pc'[t] \in OnMongo /\ arg'[t].p = arg[t].p
             \/ pc[t] \in OnSql /\ pc'[t] \in OnSql /\ arg'[t].p = arg[t].p
      PROVE  DriversApart'
  BY <1>1 DEF DriversApart, OnMongo, OnSql
<1>2. ASSUME NEW t \in Workers, Start(t) PROVE DriversApart'
  <2> t \in Tasks
    BY DEF Tasks
  <2>1. \A u \in Tasks \ {t} : pc'[u] = pc[u] /\ arg'[u] = arg[u]
    BY <1>0, <1>2 DEF Start, ConnectReuse, ConnectNew, TestConnection, DisconnectForget,
       OpenView, ReleaseSelect, Goto, TypeOK
  <2>2. ASSUME NEW p \in Profiles, NEW d \in Databases, OpenView(t, p, d)
        PROVE  DriversApart'
    <3>1. CASE UNCHANGED <<pc, arg>>
      BY <3>1 DEF DriversApart
    <3>2. CASE registry[View(p, d)] = None
      <4>1. arg'[t].p = p
        BY <1>0, <2>2, <3>2 DEF OpenView, TypeOK, Request
      <4>2. pc'[t] = IF DriverOf[p] = "mongo" THEN "mongoChild" ELSE "secret"
        BY <1>0, <2>2, <3>2 DEF OpenView, Goto, TypeOK, At
      <4> QED
        BY <2>1, <4>1, <4>2 DEF DriversApart, OnMongo, OnSql
    <3> QED
      BY <2>2, <3>1, <3>2 DEF OpenView
  <2>3. CASE pc'[t] \notin OnMongo \cup OnSql
    BY <1>1, <2>1, <2>3
  <2> QED
    BY <1>0, <1>2, <2>2, <2>3 DEF Start, ConnectReuse, ConnectNew, TestConnection,
       DisconnectForget, ReleaseSelect, Goto, At, TypeOK, OnMongo, OnSql
<1>3. ASSUME NEW t \in Tasks, Step(t) PROVE DriversApart'
  <2>1. \A u \in Tasks \ {t} : pc'[u] = pc[u] /\ arg'[u] = arg[u]
    BY <1>0, <1>3
       DEF Step, ConnectAdopt, ConnectAttach, ConnectReserve, ConnectDialled, ConnectInsert,
           GiveUp, DisconnectUnregister, TakeViews, CloseView, DisconnectClose, MongoChild,
           MongoParent, MongoInsert, ViewSecret, ViewCap, ViewEvict, ViewReclaimable,
           ViewReserve, ViewInsert, TakeVictimViews, ReapNext, ReapUnregister, ReapClose,
           ReapDrop, SweepDone, Finish, Goto, TypeOK
  <2>2. CASE MongoChild(t) \/ ViewSecret(t) \/ ViewCap(t) \/ ViewReclaimable(t)
    BY <1>0, <1>1, <2>1, <2>2 DEF MongoChild, ViewSecret, ViewCap, ViewReclaimable,
       Finish, Goto, At, TypeOK, OnMongo, OnSql
  <2>3. CASE MongoParent(t)
    <3>1. \/ arg'[t].p = arg[t].p /\ pc'[t] = "mongoInsert"
          \/ pc'[t] = "idle"
      BY <1>0, <2>3 DEF MongoParent, Finish, Goto, TypeOK, Requests
    <3> QED
      BY <1>1, <2>1, <2>3, <3>1 DEF MongoParent, At, OnMongo, OnSql
  <2>4. CASE CloseView(t) \/ ViewEvict(t)
    BY <2>4 DEF CloseView, ViewEvict, DriversApart
  <2>5. CASE ViewReserve(t)
    <3>1. \/ UNCHANGED <<pc, arg>>
          \/ pc'[t] = "idle"
          \/ pc'[t] = "dialView" /\ UNCHANGED arg
      BY <1>0, <2>5 DEF ViewReserve, Finish, Goto, TypeOK
    <3> QED
      BY <1>1, <2>1, <2>5, <3>1 DEF ViewReserve, At, OnMongo, OnSql, DriversApart
  <2>6. CASE pc'[t] \notin OnMongo \cup OnSql
    BY <1>1, <2>1, <2>6
  <2>7. \/ MongoChild(t) \/ ViewSecret(t) \/ ViewCap(t) \/ ViewReclaimable(t)
        \/ MongoParent(t) \/ CloseView(t) \/ ViewEvict(t) \/ ViewReserve(t)
        \/ pc'[t] \notin OnMongo \cup OnSql
    BY <1>0, <1>3
       DEF Step, ConnectAdopt, ConnectAttach, ConnectReserve, ConnectDialled, ConnectInsert,
           GiveUp, DisconnectUnregister, TakeViews, DisconnectClose, MongoInsert,
           ViewInsert, TakeVictimViews, ReapNext, ReapUnregister, ReapClose,
           ReapDrop, SweepDone, Finish, Goto, TypeOK, OnMongo, OnSql
  <2> QED
    BY <2>2, <2>3, <2>4, <2>5, <2>6, <2>7
<1>4. CASE SweepSelect
  <2>1. Reaper \in Tasks
    BY DEF Tasks
  <2> QED
    BY <1>0, <1>1, <1>4, <2>1 DEF SweepSelect, Goto, TypeOK, OnMongo, OnSql
<1>5. CASE UNCHANGED <<pc, arg>>
  BY <1>5 DEF DriversApart
<1> QED
  BY <1>2, <1>3, <1>4, <1>5 DEF Next, Use, GrowIdle, taskVars, vars

\* Views leave the map, stay in it or enter it without a grant, and a pool that
\* is there already is never given one.
LEMMA FreeKept ==
  ASSUME MongoViewsFree,
         \A c \in Views : DriverOf[c[1]] = "mongo" /\ registry'[c] # None =>
           \/ pool'[registry'[c]].grant = 0
           \/ registry'[c] = registry[c] /\ pool'[registry[c]].grant = pool[registry[c]].grant
  PROVE  MongoViewsFree'
BY DEF MongoViewsFree

\* Pools are dropped, or opened under a new id, and the map changes only at the
\* id of a connection that is no Mongo view.
LEMMA PoolsLeft ==
  ASSUME IInv, MongoViewsFree,
         \A i \in Live : pool'[i].grant \in {pool[i].grant, 0},
         \A c \in Views : DriverOf[c[1]] = "mongo" => registry'[c] \in {registry[c], None}
  PROVE  MongoViewsFree'
BY OwnedLive, ConnTypes, FreeKept

LEMMA FreeStep == IInv /\ DriversApart /\ MongoViewsFree /\ [Next]_vars => MongoViewsFree'
<1> SUFFICES ASSUME IInv, DriversApart, MongoViewsFree, [Next]_vars PROVE MongoViewsFree'
  OBVIOUS
<1>0. TypeOK /\ Blank.grant = 0
  BY DEF IInv, Blank
<1>1. CASE UNCHANGED <<registry, pool>>
  BY <1>1 DEF MongoViewsFree
<1>2. ASSUME NEW S, Unregister(S), UNCHANGED pool PROVE MongoViewsFree'
  BY <1>2, ConnTypes, PoolsLeft DEF Unregister
<1>3. ASSUME NEW t \in Tasks, NEW p, NEW amount, NEW origin, Open(t, p, amount, origin),
             UNCHANGED registry
      PROVE  MongoViewsFree'
  BY <1>3, OpenLeaves, PoolsLeft
<1>4. ASSUME NEW i \in PoolIds, Drop(i) PROVE \A j \in Live : pool'[j].grant \in {pool[j].grant, 0}
  BY <1>0, <1>4 DEF Drop, TypeOK, Live
<1>5. ASSUME NEW t \in Workers, Start(t) PROVE MongoViewsFree'
  BY <1>1, <1>3, <1>5 DEF Start, ConnectReuse, ConnectNew, TestConnection, Reserve,
     DisconnectForget, OpenView, ReleaseSelect, Tasks
<1>6. ASSUME NEW t \in Tasks, Step(t) PROVE MongoViewsFree'
  <2> DEFINE p == arg[t].p
             c == View(p, arg[t].d)
  <2>1. CASE ConnectAdopt(t) \/ ConnectAttach(t)
    <3>1. \A i \in Live : pool'[i].grant = pool[i].grant
      <4>1. pool' = pool \/ Marked(pool')
        BY <2>1 DEF ConnectAdopt, ConnectAttach, Marked
      <4> QED
        BY <1>0, <4>1, SameGrants DEF Live
    <3> QED
      BY <2>1, <3>1, PoolsLeft DEF ConnectAdopt, ConnectAttach
  <2>2. CASE ConnectReserve(t)
    BY <1>1, <1>3, <2>2 DEF ConnectReserve, OpenUnmetered, Reserve
  <2>3. CASE ConnectInsert(t)
    <3> DEFINE inserted == [pool EXCEPT ![mine[t]].heart = arg[t].origin = "User"]
               old == registry[Top(p)]
    <3>0. /\ Top(p) \in Conns
          /\ old # None => old \in PoolIds
          /\ inserted \in [PoolIds -> PoolRecords]
          /\ \A i \in PoolIds : inserted[i].grant = pool[i].grant
      <4>1. Marked(inserted)
        BY DEF Marked
      <4>2. inserted \in [PoolIds -> PoolRecords]
        BY <1>0, <2>3, HeldApart, InsertedType DEF ConnectInsert, At, Dialling
      <4>3. Top(p) \in Conns
        BY <2>3, ConnTypes DEF ConnectInsert, IInv, Control, At, Detached
      <4> HIDE DEF inserted
      <4> QED
        BY <1>0, <4>1, <4>2, <4>3, SameGrants DEF TypeOK
    <3>1. \A i \in Live : pool'[i].grant \in {pool[i].grant, 0}
      <4>1. pool' = inserted \/ (old # None /\ pool' = [inserted EXCEPT ![old] = Blank])
        BY <2>3 DEF ConnectInsert
      <4> HIDE DEF inserted, old
      <4> QED
        BY <1>0, <3>0, <4>1 DEF Live
    <3> HIDE DEF inserted, old
    <3>2. \A e \in Views : registry'[e] = registry[e]
      BY <1>0, <2>3, <3>0, TopsApart, ConnTypes
         DEF ConnectInsert, TypeOK, At, IInv, Control, Detached
    <3> QED
      BY <3>1, <3>2, PoolsLeft
  <2>4. CASE GiveUp(t) \/ ReapDrop(t)
    <3>1. mine[t] \in PoolIds
      BY <2>4 DEF GiveUp, ReapDrop, At, IInv, Control, Holding, TypeOK
    <3> QED
      BY <1>4, <2>4, <3>1, PoolsLeft DEF GiveUp, ReapDrop
  <2>5. CASE CloseView(t)
    BY <1>0, <1>4, <2>5, PoolsLeft DEF CloseView, TypeOK
  <2>6. CASE DisconnectClose(t)
    BY <1>0, <1>1, <1>4, <2>6, PoolsLeft DEF DisconnectClose, TypeOK
  <2>7. CASE MongoInsert(t)
    <3>1. /\ NewId \in PoolIds /\ NewId \notin Live /\ c \in Views /\ Views \subseteq Conns
          /\ registry' = [registry EXCEPT ![c] = NewId]
      BY <2>7, FreshId, ConnTypes DEF MongoInsert, At, IInv, Control, OnView, Detached
    <3>2. \A i \in Live : pool'[i].grant \in {pool[i].grant, 0}
      BY <1>0, <2>7, <3>1 DEF MongoInsert, Live
    <3>3. pool'[NewId].grant = 0
      BY <2>7, <3>1 DEF MongoInsert, Blank
    <3>4. \A e \in Views : registry'[e] = IF e = c THEN NewId ELSE registry[e]
      BY <1>0, <3>1 DEF TypeOK
    <3> QED
      BY <3>1, <3>2, <3>3, <3>4, OwnedLive, FreeKept DEF MongoViewsFree
  <2>8. CASE ViewReserve(t)
    BY <1>1, <1>2, <1>3, <2>8 DEF ViewReserve, Reserve, TakeFirstDoomed
  <2>9. CASE ViewInsert(t)
    <3>1. c \in Views /\ Views \subseteq Conns /\ c[1] = p /\ DriverOf[p] # "mongo"
      BY <2>9, ConnTypes
         DEF ViewInsert, At, IInv, Control, OnView, Detached, DriversApart, OnSql, View
    <3>2. registry[c] # None => registry[c] \in PoolIds
      BY <1>0, <3>1 DEF TypeOK
    <3>3. \A i \in Live : pool'[i].grant \in {pool[i].grant, 0}
      BY <1>4, <2>9, <3>2 DEF ViewInsert
    <3>4. \A e \in Views : DriverOf[e[1]] = "mongo" => registry'[e] = registry[e]
      BY <1>0, <2>9, <3>1 DEF ViewInsert, TypeOK
    <3> QED
      BY <3>3, <3>4, PoolsLeft
  <2> QED
    BY <1>1, <1>2, <1>6, <2>1, <2>2, <2>3, <2>4, <2>5, <2>6, <2>7, <2>8, <2>9
       DEF Step, ConnectDialled, DisconnectUnregister, TakeViews, MongoChild, MongoParent,
           ViewSecret, ViewCap, ViewEvict, TakeFirstDoomed, ViewReclaimable,
           TakeVictimViews, ReapNext, ReapUnregister, ReapClose, SweepDone
<1> QED
  BY <1>1, <1>5, <1>6 DEF Next, SweepSelect, Use, GrowIdle, taskVars, vars

\* A step of the pools is a step of the ledger.
LEMMA LedgerStep ==
  IInv /\ Accounted /\ DriversApart /\ MongoViewsFree /\ [Next]_vars => Kept
<1> SUFFICES ASSUME IInv, Accounted, DriversApart, MongoViewsFree, [Next]_vars PROVE Kept
  OBVIOUS
<1>0. TypeOK
  BY DEF IInv
<1>1. CASE UNCHANGED <<pool, inUse>>
  BY <1>1, QuietKept
<1>2. ASSUME NEW t \in Workers, Start(t) PROVE Kept
  <2>1. ASSUME NEW p \in Profiles, TestConnection(t, p) PROVE Kept
    BY <2>1, ReserveKept DEF TestConnection
  <2> QED
    BY <1>1, <1>2, <2>1
       DEF Start, ConnectReuse, ConnectNew, DisconnectForget, OpenView, ReleaseSelect
<1>3. ASSUME NEW t \in Tasks, Step(t) PROVE Kept
  <2> DEFINE p == arg[t].p
             c == View(p, arg[t].d)
  <2>1. CASE ConnectAdopt(t) \/ ConnectAttach(t)
    <3>1. \A i \in PoolIds : pool'[i].home = pool[i].home /\ pool'[i].grant = pool[i].grant
      <4>1. pool' = pool \/ Marked(pool')
        BY <2>1 DEF ConnectAdopt, ConnectAttach, Marked
      <4> QED
        BY <1>0, <4>1, SameGrants
    <3> QED
      BY <2>1, <3>1, SameEntries DEF ConnectAdopt, ConnectAttach
  <2>2. CASE ConnectReserve(t)
    <3>1. p \in Profiles /\ arg[t].origin \in Origins
      BY <1>0, <2>2 DEF ConnectReserve, At, IInv, Control, Detached, TypeOK, Requests
    <3>2. TopRequest(p, arg[t].origin) \in Nat
      BY <3>1, RequestTypes
    <3>3. ASSUME OpenUnmetered(t, p, arg[t].origin) PROVE Kept
      BY <3>1, <3>3, OpenKept DEF OpenUnmetered
    <3> QED
      BY <1>1, <2>2, <3>1, <3>2, <3>3, ReserveKept DEF ConnectReserve, MIN_MAX_CONNECTIONS
  <2>3. CASE ConnectInsert(t)
    <3> DEFINE old == registry[Top(p)]
               inserted == [pool EXCEPT ![mine[t]].heart = arg[t].origin = "User"]
    <3>1. Top(p) \in Conns
      BY <2>3, ConnTypes DEF ConnectInsert, At, IInv, Control, Detached
    <3>2. /\ inserted \in [PoolIds -> PoolRecords]
          /\ \A i \in PoolIds : inserted[i].home = pool[i].home
                                /\ inserted[i].grant = pool[i].grant
      <4>1. Marked(inserted)
        BY DEF Marked
      <4>2. inserted \in [PoolIds -> PoolRecords]
        BY <1>0, <2>3, HeldApart, InsertedType DEF ConnectInsert, At, Dialling
      <4> HIDE DEF inserted
      <4> QED
        BY <1>0, <4>1, <4>2, SameGrants
    <3>3. CASE old = None
      <4>1. pool' = inserted /\ UNCHANGED inUse
        BY <2>3, <3>3 DEF ConnectInsert
      <4> HIDE DEF inserted
      <4> QED
        BY <3>2, <4>1, SameEntries
    <3>4. CASE old # None
      <4>1. pool' = [inserted EXCEPT ![old] = Blank] /\ Release(old)
        BY <2>3, <3>4 DEF ConnectInsert
      <4>2. old \in Live /\ old \in PoolIds
        BY <3>1, <3>4, OwnedLive
      <4> HIDE DEF inserted, old
      <4>3. /\ pool'[old].home = None
            /\ \A i \in PoolIds \ {old} : pool'[i] = inserted[i]
        BY <3>2, <4>1, <4>2 DEF Blank
      <4> QED
        BY <1>0, <3>2, <4>1, <4>2, <4>3, DroppedEntry DEF Holds
    <3> QED
      BY <3>3, <3>4
  <2>4. CASE GiveUp(t) \/ ReapDrop(t)
    <3>1. mine[t] \in Live
      BY <2>4, OwnedLive DEF GiveUp, ReapDrop, At, IInv, Control, Holding
    <3> QED
      BY <2>4, <3>1, DropKept DEF GiveUp, ReapDrop
  <2>5. CASE CloseView(t)
    BY <2>5, OwnedLive, DropKept DEF CloseView
  <2>6. CASE DisconnectClose(t)
    BY <1>1, <2>6, OwnedLive, DropKept DEF DisconnectClose
  <2>7. CASE MongoInsert(t)
    <3>1. /\ NewId \in PoolIds /\ NewId \notin Live /\ c \in Views /\ c[1] = p
          /\ DriverOf[p] = "mongo"
      BY <2>7, FreshId, ConnTypes
         DEF MongoInsert, At, IInv, Control, OnView, Detached, DriversApart, OnMongo, View
    <3>2. registry[c] # None => pool[registry[c]].grant = 0
      BY <3>1 DEF MongoViewsFree
    <3>3. Blank.grant = 0
      BY DEF Blank
    <3>4. \A i \in PoolIds : \/ pool'[i] = pool[i]
                             \/ ~Holds(i) /\ ~Holds(i)'
      BY <2>7, <3>1, <3>2, <3>3, ConstantsAssumption DEF MongoInsert, Holds, Live
    <3> QED
      BY <2>7, <3>4, SameEntries DEF MongoInsert
  <2>8. CASE ViewReserve(t)
    <3>1. p \in Profiles
      BY <2>8 DEF ViewReserve, At, IInv, Control, Detached
    <3> QED
      BY <1>1, <2>8, <3>1, ReserveKept, RequestTypes DEF ViewReserve, MIN_MAX_CONNECTIONS
  <2>9. CASE ViewInsert(t)
    <3>1. c \in Conns
      BY <2>9, ConnTypes DEF ViewInsert, At, IInv, Control, OnView, Detached
    <3> QED
      BY <1>1, <2>9, <3>1, OwnedLive, DropKept DEF ViewInsert
  <2> QED
    BY <1>1, <1>3, <2>1, <2>2, <2>3, <2>4, <2>5, <2>6, <2>7, <2>8, <2>9
       DEF Step, ConnectDialled, DisconnectUnregister, TakeViews, MongoChild, MongoParent,
           ViewSecret, ViewCap, ViewEvict, ViewReclaimable, TakeVictimViews, ReapNext,
           ReapUnregister, ReapClose, SweepDone
<1> QED
  BY <1>1, <1>2, <1>3 DEF Next, SweepSelect, Use, GrowIdle, taskVars, vars

\* Nothing is entered to begin with.
LEMMA LedgerInit == Init => LedgerInv /\ Ledger!Init
<1> SUFFICES ASSUME Init PROVE LedgerInv /\ Ledger!Init
  OBVIOUS
<1>1. Live = {}
  BY DEF Init, Live, Blank
<1>2. Entries = {}
  BY <1>1 DEF Entries
<1>3. \A s : Ledger!Granted(s) = {}
  BY <1>2 DEF Ledger!Granted
<1>4. Accounted
  BY <1>3, FS_EmptySet DEF Accounted, Init
<1>5. DriversApart
  BY DEF Init, DriversApart, OnMongo, OnSql
<1>6. MongoViewsFree
  BY ConnTypes DEF Init, MongoViewsFree
<1> QED
  BY <1>2, <1>4, <1>5, <1>6 DEF LedgerInv, Ledger!Init

LEMMA LedgerInvStep == IInv /\ LedgerInv /\ [Next]_vars => LedgerInv' /\ [Ledger!Next]_Entries
BY LedgerStep, DriversStep, FreeStep DEF LedgerInv, Kept

-----------------------------------------------------------------------------
(* The cap on views.  A worker that opens a view closes those unused for       *)
(* longest until there is room for one more; if meanwhile no other worker      *)
(* opens one of the same profile, nothing else makes them more.                *)

\* The recency of the views orders those in the map, and no others.
OrderedByUse ==
  /\ older \subseteq RegisteredViews \X RegisteredViews
  /\ \A c \in RegisteredViews : <<c, c>> \notin older
  /\ \A c, e \in RegisteredViews : c = e \/ <<c, e>> \in older \/ <<e, c>> \in older
  /\ \A c, e, f \in RegisteredViews :
       <<c, e>> \in older /\ <<e, f>> \in older => <<c, f>> \in older

Listed(t) == {doomed[t][n] : n \in DOMAIN doomed[t]}

\* Once what it chose to close is closed, a worker has room for the view it opens.
RoomMade ==
  MaxChildPools > 0 =>
    \A t \in Workers :
      /\ At(t, "evict") => Cardinality(ViewsOf(arg[t].p) \ Listed(t)) < MaxChildPools
      /\ pc[t] \in {"reserveView", "dialView"} =>
           Cardinality(ViewsOf(arg[t].p)) < MaxChildPools

CapInv == OrderedByUse /\ RoomMade /\ CapRespected

LEMMA ViewsFinite ==
  /\ IsFiniteSet(Views)
  /\ \A S \in SUBSET Views : IsFiniteSet(S) /\ Cardinality(S) \in Nat
  /\ \A S \in SUBSET Views : \A T \in SUBSET S : Cardinality(T) <= Cardinality(S)
<1>1. IsFiniteSet(Views)
  BY ConstantsAssumption, FS_Product, Zenon DEF Views
<1>2. \A S \in SUBSET Views : IsFiniteSet(S) /\ Cardinality(S) \in Nat
  BY <1>1, FS_Subset, FS_CardinalityType
<1>3. \A S \in SUBSET Views : \A T \in SUBSET S : Cardinality(T) <= Cardinality(S)
  BY <1>2, FS_Subset
<1> QED
  BY <1>1, <1>2, <1>3

\* A sequence that sorts views by their last use lists all of them.
LEMMA OldestFirstLists ==
  ASSUME OrderedByUse, NEW S \in SUBSET RegisteredViews, NEW s \in OldestFirst(S)
  PROVE  {s[n] : n \in DOMAIN s} = S
<1> DEFINE N == Cardinality(S)
<1>1. IsFiniteSet(S) /\ N \in Nat
  BY ViewsFinite DEF RegisteredViews
<1>2. s \in [1..N -> S]
  BY DEF OldestFirst
<1>3. \A m, n \in 1..N : m < n => <<s[m], s[n]>> \in older
  BY <1>2 DEF OldestFirst
<1>4. \A m, n \in 1..N : s[m] = s[n] => m = n
  <2> SUFFICES ASSUME NEW m \in 1..N, NEW n \in 1..N, m < n PROVE s[m] # s[n]
    BY <1>1
  <2>1. <<s[m], s[n]>> \in older /\ s[m] \in RegisteredViews
    BY <1>2, <1>3
  <2> QED
    BY <2>1 DEF OrderedByUse
<1>5. s \in Injection(1..N, S)
  BY <1>2, <1>4 DEF Injection, IsInjective
<1>6. IsFiniteSet(1..N) /\ Cardinality(1..N) = N
  BY <1>1, FS_Interval
<1>7. s \in Surjection(1..N, S)
  BY <1>1, <1>5, <1>6, FS_Injection
<1> QED
  BY <1>2, <1>7 DEF Surjection

\* The views that need not be closed leave room for one more.  Each has as many that were
\* unused for longer as its rank, ranks differ, and those ranks are few.
LEMMA RestFits ==
  ASSUME OrderedByUse, MaxChildPools > 0, NEW p \in Profiles
  PROVE  Cardinality(ViewsOf(p) \ OverCap(p, 1)) < MaxChildPools
<1> DEFINE V == ViewsOf(p)
           rank(c) == Cardinality({e \in V : <<e, c>> \in older})
           N == Cardinality(V)
           Rest == V \ OverCap(p, 1)
<1>1. /\ V \subseteq Views /\ V \subseteq RegisteredViews /\ IsFiniteSet(V)
      /\ N \in Nat /\ MaxChildPools \in Nat
  BY ViewsFinite, ConstantsAssumption DEF ViewsOf, RegisteredViews
<1>2. \A c \in V : rank(c) \in 0..N - 1
  <2> TAKE c \in V
  <2> DEFINE E == {e \in V : <<e, c>> \in older}
  <2>1. E \subseteq V /\ c \notin E
    BY <1>1 DEF OrderedByUse
  <2>2. Cardinality(E) \in Nat /\ Cardinality(E) <= N /\ Cardinality(E) # N
    BY <1>1, <2>1, FS_Subset, FS_CardinalityType
  <2> QED
    BY <1>1, <2>2
<1>3. \A c, e \in V : <<c, e>> \in older => rank(c) < rank(e)
  <2> SUFFICES ASSUME NEW c \in V, NEW e \in V, <<c, e>> \in older
               PROVE  rank(c) < rank(e)
    OBVIOUS
  <2> DEFINE B == {f \in V : <<f, c>> \in older}
             A == {f \in V : <<f, e>> \in older}
  <2>1. B \subseteq A /\ c \in A /\ c \notin B
    BY <1>1 DEF OrderedByUse
  <2>2. IsFiniteSet(A) /\ A \subseteq V
    BY <1>1, FS_Subset
  <2>3. Cardinality(A) \in Nat /\ Cardinality(B) \in Nat
    BY <2>1, <2>2, FS_Subset, FS_CardinalityType
  <2>4. Cardinality(B) <= Cardinality(A) /\ Cardinality(B) # Cardinality(A)
    BY <2>1, <2>2, FS_Subset
  <2> QED
    BY <2>3, <2>4
<1>4. \A c, e \in V : rank(c) = rank(e) => c = e
  <2> TAKE c \in V, e \in V
  <2> HIDE DEF rank
  <2>1. c = e \/ <<c, e>> \in older \/ <<e, c>> \in older
    BY <1>1 DEF OrderedByUse
  <2>2. rank(c) \in Int /\ rank(e) \in Int
    BY <1>1, <1>2
  <2> QED
    BY <1>3, <2>1, <2>2
<1>5. CASE N < MaxChildPools
  <2>1. Cardinality(Rest) <= N /\ Cardinality(Rest) \in Nat
    BY <1>1, FS_Subset, FS_CardinalityType
  <2> QED
    BY <1>1, <1>5, <2>1
<1>6. CASE N >= MaxChildPools
  <2> DEFINE low == N + 1 - MaxChildPools
  <2>1. Excess(p, 1) = low
    BY <1>1, <1>6 DEF Excess, Monus
  <2>2. \A c \in Rest : c \in V /\ rank(c) >= low
    BY <1>1, <1>2, <2>1 DEF OverCap
  <2>3. [c \in Rest |-> rank(c)] \in Injection(Rest, low..N - 1)
    <3> HIDE DEF rank, V, Rest
    <3>1. \A c \in Rest : rank(c) \in low..N - 1
      BY <1>1, <1>2, <2>2 DEF N
    <3> QED
      BY <1>4, <2>2, <3>1 DEF Injection, IsInjective
  <2>4. IsFiniteSet(low..N - 1) /\ Cardinality(low..N - 1) = MaxChildPools - 1
    <3>1. low \in Int /\ N - 1 \in Int
      BY <1>1
    <3>2. (N - 1) - low + 1 = MaxChildPools - 1 /\ (low > N - 1 => MaxChildPools = 1)
      BY <1>1
    <3>3. \A a, b \in Int : /\ IsFiniteSet(a..b)
                            /\ Cardinality(a..b) = IF a > b THEN 0 ELSE b - a + 1
      BY FS_Interval
    <3> HIDE DEF low, N
    <3> QED
      BY <1>1, <3>1, <3>2, <3>3
  <2>5. Cardinality(Rest) <= MaxChildPools - 1
    BY <2>3, <2>4, FS_Injection
  <2>6. Cardinality(Rest) \in Nat
    BY <1>1, FS_Subset, FS_CardinalityType
  <2> QED
    BY <1>1, <2>5, <2>6
<1> QED
  BY <1>1, <1>5, <1>6

\* Connections leave the map, and the recency of the views with them.
LEMMA UnregisterOrders ==
  ASSUME OrderedByUse, NEW S, Unregister(S)
  PROVE  OrderedByUse'
<1>1. RegisteredViews' = RegisteredViews \ S
  BY ConnTypes DEF Unregister, RegisteredViews
<1>2. older' = {pair \in older : pair[1] \notin S /\ pair[2] \notin S}
  BY DEF Unregister, Without
<1>3. \A c, e : <<c, e>> \in older' <=> <<c, e>> \in older /\ c \notin S /\ e \notin S
  BY <1>2
<1>4. older' \subseteq (RegisteredViews \ S) \X (RegisteredViews \ S)
  BY <1>2 DEF OrderedByUse
<1> QED
  BY <1>1, <1>3, <1>4 DEF OrderedByUse

\* A view that is used, or enters the map, becomes the last of all.
LEMMA TouchOrders ==
  ASSUME OrderedByUse, NEW c \in Conns, Touch(c), registry \in [Conns -> PoolIds \cup {None}],
         \/ registry[c] # None /\ UNCHANGED registry
         \/ \E i : i # None /\ registry' = [registry EXCEPT ![c] = i]
  PROVE  OrderedByUse'
<1>1. RegisteredViews' = RegisteredViews \cup (IF IsView(c) THEN {c} ELSE {})
  BY ConnTypes DEF RegisteredViews
<1>2. CASE ~IsView(c)
  <2>1. UNCHANGED <<RegisteredViews, older>>
    BY <1>1, <1>2 DEF Touch
  <2> QED
    BY <2>1 DEF OrderedByUse
<1>3. CASE IsView(c)
  <2>1. older' = Without({c}) \cup ((RegisteredViews \ {c}) \X {c})
    BY <1>3 DEF Touch
  <2>2. \A d, e : <<d, e>> \in older' <=>
                    \/ <<d, e>> \in older /\ d # c /\ e # c
                    \/ d \in RegisteredViews \ {c} /\ e = c
    BY <2>1 DEF Without
  <2>3. RegisteredViews' = RegisteredViews \cup {c}
    BY <1>1, <1>3
  <2>4. older' \subseteq RegisteredViews' \X RegisteredViews'
    BY <2>1, <2>3 DEF OrderedByUse, Without
  <2> QED
    BY <2>2, <2>3, <2>4 DEF OrderedByUse
<1> QED
  BY <1>2, <1>3

LEMMA OrderStep == IInv /\ OrderedByUse /\ [Next]_vars => OrderedByUse'
<1> SUFFICES ASSUME IInv, OrderedByUse, [Next]_vars PROVE OrderedByUse'
  OBVIOUS
<1>0. registry \in [Conns -> PoolIds \cup {None}]
  BY DEF IInv, TypeOK
<1>1. CASE UNCHANGED <<registry, older>>
  BY <1>1 DEF OrderedByUse, RegisteredViews
<1>2. ASSUME NEW S, Unregister(S) PROVE OrderedByUse'
  BY <1>2, UnregisterOrders
<1>3. ASSUME NEW c \in Conns, Touch(c), registry[c] # None, UNCHANGED registry
      PROVE  OrderedByUse'
  BY <1>0, <1>3, TouchOrders
<1>4. ASSUME NEW t \in Workers, Start(t) PROVE OrderedByUse'
  <2>1. ASSUME NEW p \in Profiles, NEW d \in Databases, OpenView(t, p, d)
        PROVE  OrderedByUse'
    <3>1. View(p, d) \in Conns
      BY ConnTypes
    <3> QED
      BY <1>1, <1>3, <2>1, <3>1 DEF OpenView
  <2> QED
    BY <1>1, <1>4, <2>1 DEF Start, ConnectReuse, ConnectNew, TestConnection, DisconnectForget,
       ReleaseSelect
<1>5. ASSUME NEW t \in Tasks, Step(t) PROVE OrderedByUse'
  <2> DEFINE c == View(arg[t].p, arg[t].d)
  <2>1. CASE ConnectInsert(t)
    <3>1. \A e \in Views : registry'[e] = registry[e]
      BY <1>0, <2>1, TopsApart, ConnTypes DEF ConnectInsert, At, IInv, Control, Detached
    <3>2. UNCHANGED <<RegisteredViews, older>>
      BY <2>1, <3>1 DEF ConnectInsert, RegisteredViews
    <3> QED
      BY <3>2 DEF OrderedByUse
  <2>2. CASE MongoChild(t)
    <3>1. c \in Conns
      BY <2>2, ConnTypes DEF MongoChild, At, IInv, Control, OnView, Detached
    <3> QED
      BY <1>1, <1>3, <2>2, <3>1 DEF MongoChild
  <2>3. CASE MongoParent(t)
    <3>1. Top(arg[t].p) \in Conns
      BY <2>3, ConnTypes DEF MongoParent, At, IInv, Control, Detached
    <3> QED
      BY <1>1, <1>3, <2>3, <3>1 DEF MongoParent
  <2>4. CASE MongoInsert(t)
    <3>1. c \in Conns
      BY <2>4, ConnTypes DEF MongoInsert, At, IInv, Control, OnView, Detached
    <3>2. NewId # None /\ registry' = [registry EXCEPT ![c] = NewId] /\ Touch(c)
      BY <2>4, FreshId, ConstantsAssumption DEF MongoInsert
    <3> QED
      BY <1>0, <3>1, <3>2, TouchOrders
  <2>5. CASE ViewInsert(t)
    <3>1. c \in Conns
      BY <2>5, ConnTypes DEF ViewInsert, At, IInv, Control, OnView, Detached
    <3>2. mine[t] # None /\ registry' = [registry EXCEPT ![c] = mine[t]] /\ Touch(c)
      BY <2>5 DEF ViewInsert, At, IInv, Control, Holding
    <3> QED
      BY <1>0, <3>1, <3>2, TouchOrders
  <2>6. CASE ViewReserve(t)
    BY <1>1, <1>2, <2>6 DEF ViewReserve, TakeFirstDoomed
  <2> QED
    BY <1>1, <1>2, <1>5, <2>1, <2>2, <2>3, <2>4, <2>5, <2>6
       DEF Step, ConnectAdopt, ConnectAttach, ConnectReserve, ConnectDialled, GiveUp,
           DisconnectUnregister, TakeViews, CloseView, DisconnectClose, ViewSecret, ViewCap,
           ViewEvict, TakeFirstDoomed, ViewReclaimable, TakeVictimViews, ReapNext,
           ReapUnregister, ReapClose, ReapDrop, SweepDone
<1>6. ASSUME NEW c \in Conns, Use(c) PROVE OrderedByUse'
  BY <1>3, <1>6 DEF Use
<1> QED
  BY <1>1, <1>4, <1>5, <1>6 DEF Next, SweepSelect, GrowIdle, vars

\* While no view enters the map, and what was chosen for closing leaves it before it leaves
\* the list, room stays.
LEMMA RoomKept ==
  ASSUME RoomMade, CapRespected,
         \A c \in Views : registry'[c] # None => registry[c] # None,
         \A t \in Workers : pc'[t] = "evict" =>
           /\ pc[t] = "evict" /\ arg'[t] = arg[t]
           /\ Listed(t) \subseteq Listed(t)' \cup {c \in Conns : registry'[c] = None},
         \A t \in Workers : pc'[t] \in {"reserveView", "dialView"} =>
           /\ arg'[t] = arg[t]
           /\ pc[t] \in {"reserveView", "dialView"} \/ (pc[t] = "evict" /\ Listed(t) = {})
  PROVE  RoomMade' /\ CapRespected'
<1>1. \A p : ViewsOf(p)' \subseteq ViewsOf(p) /\ ViewsOf(p) \subseteq Views
  BY DEF ViewsOf
<1>2. \A p : /\ Cardinality(ViewsOf(p)') <= Cardinality(ViewsOf(p))
             /\ Cardinality(ViewsOf(p)') \in Nat /\ Cardinality(ViewsOf(p)) \in Nat
  BY <1>1, ViewsFinite
<1>3. MaxChildPools \in Nat
  BY ConstantsAssumption
<1>4. CapRespected'
  BY <1>2, <1>3 DEF CapRespected
<1>5. ASSUME NEW t \in Workers, pc'[t] = "evict", MaxChildPools > 0
      PROVE  Cardinality((ViewsOf(arg[t].p) \ Listed(t))') < MaxChildPools
  <2>1. /\ arg'[t] = arg[t]
        /\ Cardinality(ViewsOf(arg[t].p) \ Listed(t)) < MaxChildPools
    BY <1>5 DEF RoomMade, At
  <2>2. (ViewsOf(arg[t].p) \ Listed(t))' \subseteq ViewsOf(arg[t].p) \ Listed(t)
    BY <1>1, <1>5, <2>1 DEF ViewsOf
  <2>3. ViewsOf(arg[t].p) \ Listed(t) \subseteq Views
    BY <1>1
  <2>4. /\ Cardinality((ViewsOf(arg[t].p) \ Listed(t))')
             <= Cardinality(ViewsOf(arg[t].p) \ Listed(t))
        /\ Cardinality((ViewsOf(arg[t].p) \ Listed(t))') \in Nat
        /\ Cardinality(ViewsOf(arg[t].p) \ Listed(t)) \in Nat
    BY <2>2, <2>3, ViewsFinite
  <2> QED
    BY <1>3, <2>1, <2>4
<1>6. ASSUME NEW t \in Workers, pc'[t] \in {"reserveView", "dialView"}, MaxChildPools > 0
      PROVE  Cardinality(ViewsOf(arg[t].p)') < MaxChildPools
  <2>1. /\ arg'[t] = arg[t]
        /\ Cardinality(ViewsOf(arg[t].p)) < MaxChildPools
    BY <1>6 DEF RoomMade, At
  <2>2. ViewsOf(arg[t].p)' \subseteq ViewsOf(arg[t].p) /\ ViewsOf(arg[t].p) \subseteq Views
    BY <1>1, <2>1 DEF ViewsOf
  <2>3. /\ Cardinality(ViewsOf(arg[t].p)') <= Cardinality(ViewsOf(arg[t].p))
        /\ Cardinality(ViewsOf(arg[t].p)') \in Nat /\ Cardinality(ViewsOf(arg[t].p)) \in Nat
    BY <2>2, ViewsFinite
  <2> QED
    BY <1>3, <2>1, <2>3
<1> QED
  BY <1>4, <1>5, <1>6 DEF RoomMade, At

\* The one view that enters the map has room.
LEMMA InsertKeepsCap ==
  ASSUME OneOpens, IInv, DriversApart, RoomMade, CapRespected, NEW t \in Workers, Step(t),
         MongoInsert(t) \/ ViewInsert(t)
  PROVE  RoomMade' /\ CapRespected'
<1> DEFINE p == arg[t].p
           c == View(p, arg[t].d)
<1>0. TypeOK /\ t \in Tasks /\ p \in Profiles /\ c \in Views /\ c \in Conns /\ c[1] = p
  BY ConnTypes DEF IInv, Control, MongoInsert, ViewInsert, At, OnView, Detached, Tasks, View
<1>1. pc'[t] = "idle"
  BY <1>0 DEF MongoInsert, ViewInsert, Finish, Goto, TypeOK
<1>3. \A e \in Conns \ {c} : registry'[e] = registry[e]
  BY <1>0 DEF MongoInsert, ViewInsert, TypeOK
<1>2. RoomMade'
  <2> SUFFICES ASSUME NEW u \in Workers, u # t, pc'[u] \in OnView
               PROVE  /\ UNCHANGED <<pc[u], arg[u], Listed(u)>>
                      /\ ViewsOf(arg[u].p)' = ViewsOf(arg[u].p)
    BY <1>1 DEF RoomMade, At, OnView
  <2>1. u \in Tasks /\ UNCHANGED <<pc[u], arg[u], doomed[u]>>
    BY <1>0, OthersStay DEF Tasks
  <2>2. arg[u].p # p
    BY <2>1 DEF OneOpens, MongoInsert, ViewInsert, At, OnView
  <2>3. ViewsOf(arg[u].p)' = ViewsOf(arg[u].p)
    BY <1>0, <1>3, <2>1, <2>2, ConnTypes DEF ViewsOf
  <2> QED
    BY <2>1, <2>3 DEF Listed
<1>4. CapRespected'
  <2> SUFFICES ASSUME MaxChildPools > 0, NEW q \in Profiles, DriverOf[q] # "mongo"
               PROVE  Cardinality(ViewsOf(q)') <= MaxChildPools
    BY DEF CapRespected
  <2>1. Cardinality(ViewsOf(q)) <= MaxChildPools
    BY DEF CapRespected
  <2>2. CASE q # p
    <3>1. ViewsOf(q)' = ViewsOf(q)
      BY <1>0, <1>3, <2>2, ConnTypes DEF ViewsOf
    <3> QED
      BY <2>1, <3>1
  <2>3. CASE q = p
    <3>1. pc[t] = "dialView"
      BY <2>3 DEF MongoInsert, ViewInsert, At, DriversApart, OnMongo, Tasks
    <3>2. Cardinality(ViewsOf(q)) < MaxChildPools
      BY <2>3, <3>1 DEF RoomMade
    <3>3. ViewsOf(q)' \subseteq ViewsOf(q) \cup {c} /\ ViewsOf(q) \subseteq Views
      BY <1>0, <1>3, ConnTypes DEF ViewsOf
    <3>4. /\ IsFiniteSet(ViewsOf(q)) /\ Cardinality(ViewsOf(q)) \in Nat
          /\ ViewsOf(q) \cup {c} \subseteq Views
      BY <1>0, <3>3, ViewsFinite
    <3>5. /\ Cardinality(ViewsOf(q) \cup {c}) <= Cardinality(ViewsOf(q)) + 1
          /\ Cardinality(ViewsOf(q) \cup {c}) \in Nat
      BY <3>4, FS_AddElement, ViewsFinite
    <3>6. Cardinality(ViewsOf(q)') <= Cardinality(ViewsOf(q) \cup {c})
          /\ Cardinality(ViewsOf(q)') \in Nat
      BY <3>3, <3>4, ViewsFinite
    <3> QED
      BY <3>2, <3>4, <3>5, <3>6, ConstantsAssumption
  <2> QED
    BY <2>2, <2>3
<1> QED
  BY <1>2, <1>4

\* What is taken from the list of a worker leaves the map.
LEMMA TakenListed ==
  ASSUME TypeOK, NEW t \in Tasks, doomed[t] # <<>>, TakeFirstDoomed(t)
  PROVE  /\ Listed(t) \subseteq Listed(t)' \cup {c \in Conns : registry'[c] = None}
         /\ \A c \in Conns : registry'[c] \in {registry[c], None}
         /\ \A u \in Tasks \ {t} : Listed(u)' = Listed(u)
<1> DEFINE s == doomed[t]
<1>1. s \in Seq(Views) /\ Len(s) \in Nat /\ DOMAIN s = 1..Len(s) /\ Len(s) > 0
  BY DEF TypeOK
<1>2. doomed'[t] = Tail(s) /\ \A u \in Tasks \ {t} : doomed'[u] = doomed[u]
  BY DEF TakeFirstDoomed, TypeOK
<1>3. s[1] \in Conns /\ registry'[s[1]] = None
  BY <1>1, ConnTypes DEF TakeFirstDoomed, Unregister
<1>4. DOMAIN Tail(s) = 1..(Len(s) - 1) /\ \A n \in 1..(Len(s) - 1) : Tail(s)[n] = s[n + 1]
  BY <1>1
<1>5. \A n \in DOMAIN s : n # 1 => n - 1 \in DOMAIN Tail(s) /\ Tail(s)[n - 1] = s[n]
  BY <1>1, <1>4
<1>6. Listed(t) \subseteq Listed(t)' \cup {c \in Conns : registry'[c] = None}
  <2> SUFFICES ASSUME NEW n \in DOMAIN s, n # 1 PROVE s[n] \in Listed(t)'
    BY <1>3 DEF Listed
  <2>1. n - 1 \in DOMAIN doomed'[t] /\ doomed'[t][n - 1] = s[n]
    BY <1>2, <1>5
  <2> QED
    BY <2>1 DEF Listed
<1> QED
  BY <1>2, <1>6 DEF Listed, TakeFirstDoomed, Unregister

LEMMA CapStep ==
  OneOpens /\ IInv /\ DriversApart /\ ReaperSweeps /\ CapInv /\ [Next]_vars => CapInv'
<1> SUFFICES ASSUME OneOpens, IInv, DriversApart, ReaperSweeps, CapInv, [Next]_vars
             PROVE  RoomMade' /\ CapRespected'
  BY OrderStep DEF CapInv
<1>0. TypeOK /\ OrderedByUse /\ RoomMade /\ CapRespected /\ Workers \subseteq Tasks
      /\ Views \subseteq Conns
  BY ConnTypes DEF IInv, CapInv, Tasks
<1>1. ASSUME NEW t \in Workers, Step(t) \/ Start(t),
             pc'[t] \notin {"evict", "reserveView", "dialView"},
             \A c \in Views : registry'[c] \in {registry[c], None}
      PROVE  RoomMade' /\ CapRespected'
  <2>1. \A u \in Workers \ {t} :
          pc'[u] = pc[u] /\ arg'[u] = arg[u] /\ Listed(u)' = Listed(u)
    BY <1>0, <1>1, OthersStay DEF Listed
  <2> QED
    BY <1>0, <1>1, <2>1, RoomKept
<1>2. ASSUME \A c \in Conns : registry'[c] \in {registry[c], None},
             \A t \in Workers : pc'[t] = pc[t] /\ arg'[t] = arg[t] /\ doomed'[t] = doomed[t]
      PROVE  RoomMade' /\ CapRespected'
  <2>1. \A t \in Workers : Listed(t)' = Listed(t)
    BY <1>2 DEF Listed
  <2> QED
    BY <1>0, <1>2, <2>1, RoomKept
<1>4. ASSUME NEW t \in Workers, Start(t) PROVE RoomMade' /\ CapRespected'
  <2>1. UNCHANGED registry /\ pc'[t] \notin {"evict", "reserveView", "dialView"}
    BY <1>0, <1>4 DEF Start, ConnectReuse, ConnectNew, TestConnection, DisconnectForget,
       OpenView, ReleaseSelect, At, Goto, TypeOK
  <2> QED
    BY <1>1, <1>4, <2>1
<1>5. ASSUME NEW t \in Workers, Step(t) PROVE RoomMade' /\ CapRespected'
  <2>0. /\ t \in Tasks
        /\ \A u \in Workers \ {t} :
             pc'[u] = pc[u] /\ arg'[u] = arg[u] /\ Listed(u)' = Listed(u)
    BY <1>0, <1>5, OthersStay DEF Listed
  <2>1. CASE ViewCap(t)
    <3>1. /\ UNCHANGED <<registry, arg>> /\ pc'[t] = "evict"
          /\ doomed'[t] \in OldestFirst(OverCap(arg[t].p, 1)) /\ arg[t].p \in Profiles
      BY <1>0, <2>0, <2>1
         DEF ViewCap, Goto, TypeOK, At, IInv, Control, Detached
    <3>2. OverCap(arg[t].p, 1) \subseteq RegisteredViews
      BY DEF OverCap, ViewsOf, RegisteredViews
    <3>3. Listed(t)' = OverCap(arg[t].p, 1)
      BY <1>0, <3>1, <3>2, OldestFirstLists DEF Listed
    <3>4. ViewsOf(arg[t].p)' = ViewsOf(arg[t].p)
      BY <3>1 DEF ViewsOf
    <3>5. RoomMade'
      <4>1. \A p : ViewsOf(p)' = ViewsOf(p)
        BY <3>1 DEF ViewsOf
      <4>2. ASSUME NEW u \in Workers, u # t, MaxChildPools > 0
            PROVE  /\ At(u, "evict")' => Cardinality((ViewsOf(arg[u].p) \ Listed(u))') < MaxChildPools
                   /\ pc'[u] \in {"reserveView", "dialView"} =>
                        Cardinality(ViewsOf(arg[u].p)') < MaxChildPools
        <5>1. ViewsOf(arg[u].p)' = ViewsOf(arg[u].p)
          BY <2>0, <3>1, <4>2 DEF ViewsOf
        <5> QED
          BY <1>0, <2>0, <4>2, <5>1 DEF RoomMade, At
      <4> QED
        BY <1>0, <3>1, <3>3, <3>4, <4>2, RestFits DEF RoomMade, At
    <3>6. CapRespected'
      BY <1>0, <3>1 DEF CapRespected, ViewsOf
    <3> QED
      BY <3>5, <3>6
  <2>2. CASE ViewEvict(t) \/ (ViewReserve(t) /\ TakeFirstDoomed(t) /\ doomed[t] # <<>>
                                             /\ UNCHANGED <<pc, arg>>)
    <3>1. doomed[t] # <<>> /\ TakeFirstDoomed(t) /\ UNCHANGED <<pc, arg>>
      BY <2>2 DEF ViewEvict
    <3> QED
      BY <1>0, <2>0, <3>1, TakenListed, RoomKept
  <2>3. CASE ViewReclaimable(t)
    <3>1. pc[t] = "evict" /\ pc'[t] = "reserveView" /\ Listed(t) = {}
          /\ UNCHANGED <<registry, arg>>
      BY <1>0, <2>0, <2>3 DEF ViewReclaimable, At, Goto, TypeOK, Listed
    <3> QED
      BY <1>0, <2>0, <3>1, RoomKept
  <2>4. CASE ViewReserve(t) /\ ~(TakeFirstDoomed(t) /\ doomed[t] # <<>>
                                                    /\ UNCHANGED <<pc, arg>>)
    <3>1. /\ UNCHANGED registry /\ pc[t] = "reserveView"
          /\ pc'[t] = "idle" \/ (pc'[t] = "dialView" /\ UNCHANGED arg)
      BY <1>0, <2>0, <2>4 DEF ViewReserve, At, Goto, Finish, TypeOK
    <3> QED
      BY <1>0, <2>0, <3>1, RoomKept
  <2>5. CASE MongoInsert(t) \/ ViewInsert(t)
    BY <1>0, <1>5, <2>5, InsertKeepsCap DEF CapInv
  <2>6. CASE CloseView(t)
    BY <1>2, <2>6 DEF CloseView
  <2>7. CASE ConnectInsert(t)
    <3>0. t \in Tasks /\ arg[t].p \in Profiles
      BY <2>0, <2>7 DEF ConnectInsert, At, IInv, Control, Detached
    <3>1. \A e \in Views : registry'[e] = registry[e]
      BY <1>0, <2>7, <3>0, TopsApart, ConnTypes DEF ConnectInsert, TypeOK
    <3>2. pc'[t] = "idle"
      BY <1>0, <2>0, <2>7 DEF ConnectInsert, Finish, Goto, TypeOK
    <3> QED
      BY <1>1, <1>5, <3>1, <3>2
  <2>8. CASE ~ViewCap(t) /\ ~ViewEvict(t) /\ ~ViewReserve(t) /\ ~ViewReclaimable(t)
             /\ ~MongoInsert(t) /\ ~ViewInsert(t) /\ ~CloseView(t) /\ ~ConnectInsert(t)
    <3>1. \A c \in Conns : registry'[c] \in {registry[c], None}
      BY <1>5, <2>8
         DEF Step, ConnectAdopt, ConnectAttach, ConnectReserve, ConnectDialled, GiveUp,
             DisconnectUnregister, TakeViews, DisconnectClose, MongoChild, MongoParent,
             ViewSecret, TakeVictimViews, ReapNext, ReapUnregister, ReapClose, ReapDrop,
             SweepDone, Unregister
    <3>2. pc'[t] \notin {"evict", "reserveView", "dialView"}
      BY <1>0, <1>5, <2>0, <2>8
         DEF Step, ConnectAdopt, ConnectAttach, ConnectReserve, ConnectDialled, GiveUp,
             DisconnectUnregister, TakeViews, DisconnectClose, MongoChild, MongoParent,
             ViewSecret, TakeVictimViews, ReapNext, ReapUnregister, ReapClose, ReapDrop,
             SweepDone, Finish, Goto, At, TypeOK
    <3> QED
      BY <1>0, <1>1, <1>5, <3>1, <3>2
  <2> QED
    BY <2>1, <2>2, <2>3, <2>4, <2>5, <2>6, <2>7, <2>8
<1>6. ASSUME Step(Reaper) PROVE RoomMade' /\ CapRespected'
  <2>1. \/ TakeViews(Reaper) \/ CloseView(Reaper) \/ TakeVictimViews(Reaper)
        \/ ReapNext(Reaper) \/ ReapUnregister(Reaper) \/ ReapClose(Reaper)
        \/ ReapDrop(Reaper) \/ SweepDone(Reaper)
    BY <1>6, ReapersStep
  <2>2. \A c \in Conns : registry'[c] \in {registry[c], None}
    BY <1>0, <2>1 DEF TakeViews, CloseView, TakeVictimViews, ReapNext, ReapUnregister,
       ReapClose, ReapDrop, SweepDone, Unregister
  <2>3. \A t \in Workers : pc'[t] = pc[t] /\ arg'[t] = arg[t] /\ doomed'[t] = doomed[t]
    BY <1>0, <2>1, ConstantsAssumption DEF TakeViews, CloseView, TakeVictimViews, ReapNext,
       ReapUnregister, ReapClose, ReapDrop, SweepDone, Finish, Goto, TypeOK, Tasks
  <2> QED
    BY <1>2, <2>2, <2>3
<1>7. CASE SweepSelect
  <2>1. \A t \in Workers : pc'[t] = pc[t] /\ arg'[t] = arg[t] /\ doomed'[t] = doomed[t]
    BY <1>0, <1>7, ConstantsAssumption DEF SweepSelect, Goto, TypeOK
  <2> QED
    BY <1>2, <1>7, <2>1 DEF SweepSelect
<1>8. CASE UNCHANGED <<registry, taskVars>>
  BY <1>2, <1>8 DEF taskVars
<1> QED
  BY <1>4, <1>5, <1>6, <1>7, <1>8 DEF Next, Use, GrowIdle, taskVars, vars, Tasks

LEMMA CapInit == Init => CapInv
<1> SUFFICES ASSUME Init PROVE CapInv
  OBVIOUS
<1>1. RegisteredViews = {} /\ older = {}
  BY ConnTypes DEF Init, RegisteredViews
<1>2. OrderedByUse
  BY <1>1 DEF OrderedByUse
<1>3. RoomMade
  BY DEF Init, RoomMade, At, Tasks
<1>4. CapRespected
  <2>1. \A p : ViewsOf(p) = {}
    BY <1>1 DEF ViewsOf, RegisteredViews
  <2> QED
    BY <2>1, FS_EmptySet, ConstantsAssumption DEF CapRespected
<1> QED
  BY <1>2, <1>3, <1>4 DEF CapInv

-----------------------------------------------------------------------------
(* The theorems *)

LEMMA InitInv == Init => IInv
<1> SUFFICES ASSUME Init PROVE IInv
  OBVIOUS
<1>1. TypeOK
  <2>1. Blank \in PoolRecords
    BY DEF Blank, PoolRecords, Origins
  <2>2. <<>> \in Seq(Views)
    OBVIOUS
  <2> QED
    BY <2>1, <2>2, RequestTypes DEF Init, TypeOK, Labels
<1>2. Control
  BY DEF Init, Control, Holding, Detached, OnView
<1>3. Ownership
  BY ConstantsAssumption DEF Init, Ownership, NeverOwnedTwice, OwnedIffLive, Live, Blank
<1>4. BudgetRespected
  BY DEF Init, BudgetRespected
<1> QED
  BY <1>1, <1>2, <1>3, <1>4 DEF IInv

\* The strengthened invariant holds in every reachable state: whatever the
\* interleaving of commands and sweeps, a task holds a pool exactly while its
\* place in the code says so.
THEOREM Invariant == Spec => []IInv
<1>1. IInv /\ [Next]_vars => IInv'
  BY TypeStep, ControlStep, OwnershipStep, BudgetStep DEF IInv
<1> QED
  BY InitInv, <1>1, PTL DEF Spec

\* The state keeps its types.
THEOREM TypeCorrect == Spec => []TypeOK
<1>1. IInv => TypeOK
  BY DEF IInv
<1> QED
  BY <1>1, Invariant, PTL

\* No pool, and no grant, ever has two owners: no connection is closed twice
\* and no capacity is given back twice, whatever races with what.
THEOREM OneOwner == Spec => []NeverOwnedTwice
<1>1. IInv => NeverOwnedTwice
  BY DEF IInv, Ownership
<1> QED
  BY <1>1, Invariant, PTL

\* No pool, and no grant, is ever without an owner: every failure, replacement
\* and early return gives the capacity back.
THEOREM NothingLeaks == Spec => []OwnedIffLive
<1>1. IInv => OwnedIffLive
  BY DEF IInv, Ownership
<1> QED
  BY <1>1, Invariant, PTL

\* What is reserved on a server never exceeds the largest budget of the
\* profiles that share it.
THEOREM BudgetKept == Spec => []BudgetRespected
<1>1. IInv => BudgetRespected
  BY DEF IInv
<1> QED
  BY <1>1, Invariant, PTL

\* The second invariant: every connection, and every pool on its way to be one,
\* is fit for the one who asked for it.
THEOREM FitInvariant == Spec => [](IInv /\ Fit)
<1>1. Init => Fit
  BY ConnTypes DEF Init, Fit, DialledFit, TopsFit, UserPoolHasHeartbeat, Dialling
<1>2. IInv /\ [Next]_vars => IInv'
  BY TypeStep, ControlStep, OwnershipStep, BudgetStep DEF IInv
<1> QED
  BY InitInv, <1>1, <1>2, FitStep, PTL DEF Spec

\* Whoever else opens, adopts, replaces or closes the pools of a profile, the
\* one a person uses is watched for a lost connection.
THEOREM HeartbeatKept == Spec => []UserPoolHasHeartbeat
<1>1. Fit => UserPoolHasHeartbeat
  BY DEF Fit
<1> QED
  BY <1>1, FitInvariant, PTL

\* However views come and go, the Mongo client that a connection and its views
\* share is open as long as the connection is in the map.
THEOREM ClientKeptOpen == Spec => []ConnectedClientOpen
<1>1. Fit => ConnectedClientOpen
  BY DEF Fit, TopsFit, ConnectedClientOpen
<1> QED
  BY <1>1, FitInvariant, PTL

\* A disconnect leaves no view of its profile in the map, whatever the sweep and the other
\* commands do meanwhile, as long as none of them opens a view of that profile.  (One that
\* did could insert it while the disconnect awaits the closing of the others.)
THEOREM ViewsGoWithProfile == Spec /\ []OneOpens => DisconnectLeavesNoViews
<1>1. Init => ReaperSweeps /\ NoneLeft
  BY DEF Init, ReaperSweeps, NoneLeft, Sweeping, At, Tasks
<1>2. IInv /\ [Next]_vars => IInv'
  BY TypeStep, ControlStep, OwnershipStep, BudgetStep DEF IInv
<1>3. NoneLeft => [\A t \in Workers : At(t, "closeParent") /\ pc'[t] = "idle" =>
                     ViewsOf(arg[t].p) = {}]_vars
  BY DEF NoneLeft
<1>4. OneOpens /\ IInv /\ ReaperSweeps /\ NoneLeft /\ [Next]_vars => NoneLeft'
  BY NoneLeftStep
<1> QED
  BY InitInv, <1>1, <1>2, <1>3, <1>4, ReaperStep, PTL DEF Spec, DisconnectLeavesNoViews

\* A connection in the map is never replaced by another, as long as no two tasks open one
\* connection at once: each finds it absent before it dials, and nobody else lets it in.
THEOREM LivePoolsStay == Spec /\ []OneOpensEach => NeverReplacesLivePool
<1>1. Init => OpensAbsent
  BY DEF Init, OpensAbsent
<1>2. IInv /\ [Next]_vars => IInv'
  BY TypeStep, ControlStep, OwnershipStep, BudgetStep DEF IInv
<1>3. OneOpensEach /\ IInv /\ OpensAbsent /\ [Next]_vars =>
        [\A c \in Conns : registry[c] # None => registry'[c] \in {registry[c], None}]_vars
  BY AbsentStep
<1>4. OneOpensEach /\ IInv /\ OpensAbsent /\ [Next]_vars => OpensAbsent'
  BY AbsentStep
<1> QED
  BY InitInv, <1>1, <1>2, <1>3, <1>4, PTL DEF Spec, NeverReplacesLivePool

\* The sweep and release_idle_pools close no pool a person opened or adopted, as long as
\* nobody connects what they have chosen before it is closed: what they look at again then is
\* only whether there is a pool under the id.
THEOREM ReapedAreBridges == Spec /\ []NoneWanted => ReapedOnlyIfBridgeOpened
<1>1. Init => ClosesBridges
  BY DEF Init, ClosesBridges, Closes
<1>2. Init => Fit
  BY ConnTypes DEF Init, Fit, DialledFit, TopsFit, UserPoolHasHeartbeat, Dialling
<1>3. IInv /\ [Next]_vars => IInv'
  BY TypeStep, ControlStep, OwnershipStep, BudgetStep DEF IInv
<1>4. IInv /\ ClosesBridges /\ [Next]_vars =>
        [\A t \in Tasks : At(t, "reapParent") /\ mine'[t] # None =>
           pool[mine'[t]].origin = "Bridge"]_vars
  BY TakesChosen
<1> QED
  BY InitInv, <1>1, <1>2, <1>3, <1>4, FitStep, BridgesStep, PTL
     DEF Spec, ReapedOnlyIfBridgeOpened

\* A profile never holds more views than the cap, as long as its views are opened one at a
\* time: those chosen for closing are the ones unused for longest, and what other commands and
\* the sweep use, reap or close between the choice and the opening can only leave more room.
THEOREM CapIsRespected == Spec /\ []OneOpens => []CapRespected
<1>1. Init => ReaperSweeps /\ DriversApart
  BY LedgerInit DEF Init, ReaperSweeps, Sweeping, Tasks, LedgerInv
<1>2. IInv /\ [Next]_vars => IInv'
  BY TypeStep, ControlStep, OwnershipStep, BudgetStep DEF IInv
<1>3. OneOpens /\ IInv /\ DriversApart /\ ReaperSweeps /\ CapInv /\ [Next]_vars => CapInv'
  BY CapStep
<1>4. CapInv => CapRespected
  BY DEF CapInv
<1> QED
  BY InitInv, CapInit, DriversStep, ReaperStep, <1>1, <1>2, <1>3, <1>4, PTL DEF Spec

\* The third invariant: the counter of every server is the size of what is
\* entered for it, and the views that share a Mongo client hold no grant.
THEOREM LedgerInvariant == Spec => [](IInv /\ LedgerInv)
<1>1. IInv /\ [Next]_vars => IInv'
  BY TypeStep, ControlStep, OwnershipStep, BudgetStep DEF IInv
<1> QED
  BY InitInv, LedgerInit, <1>1, LedgerInvStep, PTL DEF Spec

\* The counters never drift from the grants of the pools, whatever is reserved,
\* replaced and dropped in between.
THEOREM GrantsAlwaysAccounted == Spec => []GrantsAccounted
<1>1. LedgerInv => GrantsAccounted
  BY Counting DEF LedgerInv, Accounted, GrantsAccounted, Ledger!Outstanding
<1> QED
  BY <1>1, LedgerInvariant, PTL

\* The life of the pools implements the ledger: seen through the grants of the
\* pools that live, every step enters one grant within a budget, strikes one
\* out, or is none of the ledger's business.
THEOREM ImplementsLedger == Spec => KeepsLedger
<1>1. IInv /\ LedgerInv /\ [Next]_vars => [Ledger!Next]_Entries
  BY LedgerInvStep
<1>2. Init => Ledger!Init
  BY LedgerInit
<1> QED
  BY <1>1, <1>2, LedgerInvariant, PTL DEF KeepsLedger, Ledger!Spec, Spec
=============================================================================
