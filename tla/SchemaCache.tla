----------------------------- MODULE SchemaCache -----------------------------
(***************************************************************************)
(* What the schema tree knows about each open connection                   *)
(* (stores/session/schema.ts): a slice that is refreshed, whose table      *)
(* nodes load their columns when they are clicked, and that is dropped     *)
(* with the connection (connections.ts, lib/connection/connectFlow.ts).    *)
(*                                                                         *)
(* A request is two steps, the server's and the answer's, so that answers  *)
(* arrive in any order.  Requests that could not be told apart are one.    *)
(*                                                                         *)
(* Left out: indexes (the same rules as columns), database sizes, which    *)
(* tables exist (all of them), the pools of single databases, cards.       *)
(***************************************************************************)
EXTENDS Naturals, FiniteSets

CONSTANTS
  Pools,        \* connections
  Tables,
  RestoreTabs,  \* the restoreTabsOnOpen preference
  MaxOpens,     \* bound: openings of a connection
  MaxAltered,   \* bound: changes of the tables by others
  MaxUnderWay,  \* bound: requests under way when the user asks for more
  Overtakings   \* see OvertakingKinds

(***************************************************************************)
(* reopen   a connection is opened again before what was asked of its last *)
(*          pool has been answered                                         *)
(* refresh  a refresh begins before columns asked for earlier have arrived *)
(***************************************************************************)
OvertakingKinds == {"reopen", "refresh"}

ASSUME SchemaCacheAssumption ==
  /\ RestoreTabs \in BOOLEAN /\ "tables" \notin Tables
  /\ MaxOpens \in Nat /\ MaxAltered \in Nat /\ MaxUnderWay \in Nat
  /\ Overtakings \subseteq OvertakingKinds

\* Editions of the tables are numbered from 1; 0 is "no columns yet".
Editions == 1..MaxAltered + 1
NoColumns == [t \in Tables |-> 0]
NoSlice == [there |-> FALSE, initialized |-> FALSE, loading |-> FALSE, error |-> 0,
            listed |-> FALSE, expanded |-> {}, columns |-> NoColumns, columnErrors |-> {}]
emptyState == [NoSlice EXCEPT !.there = TRUE]

Request == [of : Tables \cup {"tables"}, pool : Pools, era : 0..MaxOpens,
            answer : {"none", "failed", "read"}, read : {0} \cup Editions]

VARIABLES
  byConnection,  \* the slices
  requests,      \* list_tables and list_columns under way
  opens,         \* how often each connection was opened: the number of its pool
  pooled,        \* connections the backend has a pool for
  live,         \* useConnections.active
  opening,       \* connect, as far as the schema is concerned
  teardown,      \* disconnectAndClean
  savedNodes,         \* the expanded nodes in tab_state.json
  edition,       \* of the tables, on the server
  refreshedAt    \* history: the edition when the last refresh began

connection == <<opens, pooled, live, opening, teardown, savedNodes>>
schemaCacheVars == <<byConnection, requests, connection, edition, refreshedAt>>

SchemaCacheTypeOK ==
  /\ byConnection \in
       [Pools -> [there : BOOLEAN, initialized : BOOLEAN, loading : BOOLEAN,
                  error : 0..MaxOpens, listed : BOOLEAN, expanded : SUBSET Tables,
                  columns : [Tables -> {0} \cup Editions], columnErrors : SUBSET Tables]]
  /\ requests \subseteq Request
  /\ opens \in [Pools -> 0..MaxOpens]
  /\ pooled \subseteq Pools /\ live \subseteq Pools
  /\ opening \in [Pools -> {"no", "hydrate", "warm"}]
  /\ teardown \in [Pools -> {"no", "closing", "cleaning"}]
  /\ savedNodes \in [Pools -> SUBSET Tables]
  /\ edition \in Editions /\ refreshedAt \in [Pools -> {0} \cup Editions]

SchemaCacheInit ==
  /\ byConnection = [i \in Pools |-> NoSlice]
  /\ requests = {}
  /\ opens = [i \in Pools |-> 0] /\ pooled = {} /\ live = {}
  /\ opening = [i \in Pools |-> "no"] /\ teardown = [i \in Pools |-> "no"]
  /\ savedNodes = [i \in Pools |-> {}]
  /\ edition = 1 /\ refreshedAt = [i \in Pools |-> 0]

SliceOf(i) == byConnection[i]
PutSlice(i, cs) == byConnection' = [byConnection EXCEPT ![i] = cs]
Asked(i, what) == [of |-> what, pool |-> i, era |-> opens[i],
                   answer |-> "none", read |-> 0]
UnderWay(i) == {r \in requests : r.pool = i}
Room == Cardinality(requests) < MaxUnderWay

\* state.byConnection[id] ?? emptyState()
OrEmpty(i) == IF SliceOf(i).there THEN SliceOf(i) ELSE emptyState

-----------------------------------------------------------------------------
(* Connecting and disconnecting.                                           *)

\* api.connect has returned: markConnected.
OpenPool(i) ==
  /\ i \notin live /\ opening[i] = "no" /\ opens[i] < MaxOpens
  /\ "reopen" \in Overtakings \/ (teardown[i] = "no" /\ UnderWay(i) = {})
  /\ opens' = [opens EXCEPT ![i] = @ + 1]
  /\ pooled' = pooled \cup {i} /\ live' = live \cup {i}
  /\ opening' = [opening EXCEPT ![i] = "hydrate"]
  /\ UNCHANGED <<byConnection, requests, teardown, savedNodes, edition, refreshedAt>>

\* hydrateTabState: replaceExpanded, when something was saved.
Hydrate(i) ==
  /\ opening[i] = "hydrate"
  /\ opening' = [opening EXCEPT ![i] = "warm"]
  /\ IF RestoreTabs /\ opens[i] > 1
       THEN PutSlice(i, [OrEmpty(i) EXCEPT !.expanded = savedNodes[i]])
       ELSE UNCHANGED byConnection
  /\ UNCHANGED <<requests, opens, pooled, live, teardown, savedNodes, edition, refreshedAt>>

\* disconnect: the tabs and the expanded nodes are saved, the backend closes the pool.
ClosePool(i) ==
  /\ i \in live /\ teardown[i] = "no" /\ opening[i] = "no"
  /\ savedNodes' = [savedNodes EXCEPT ![i] = SliceOf(i).expanded]
  /\ pooled' = pooled \ {i}
  /\ teardown' = [teardown EXCEPT ![i] = "closing"]
  /\ UNCHANGED <<byConnection, requests, opens, live, opening, edition, refreshedAt>>

\* markDisconnected: the slice goes with the connection.
MarkDisconnected(i) ==
  /\ teardown[i] = "closing"
  /\ live' = live \ {i}
  /\ PutSlice(i, NoSlice)
  /\ teardown' = [teardown EXCEPT ![i] = "cleaning"]
  /\ UNCHANGED <<requests, opens, pooled, opening, savedNodes, edition, refreshedAt>>

\* disconnectAndClean drops it again, when the connection's views are torn down too.
DropAgain(i) ==
  /\ teardown[i] = "cleaning"
  /\ PutSlice(i, NoSlice)
  /\ teardown' = [teardown EXCEPT ![i] = "no"]
  /\ UNCHANGED <<requests, opens, pooled, live, opening, savedNodes, edition, refreshedAt>>

-----------------------------------------------------------------------------
(* refresh.                                                                *)

RefreshBegins(i) ==
  /\ "refresh" \in Overtakings \/ \A r \in UnderWay(i) : r.of = "tables"
  /\ PutSlice(i, [OrEmpty(i) EXCEPT !.loading = TRUE, !.error = 0])
  /\ requests' = requests \cup {Asked(i, "tables")}
  /\ refreshedAt' = [refreshedAt EXCEPT ![i] = edition]
  /\ UNCHANGED edition

\* The button, the palette, or what follows a change made in the app.
RefreshNow(i) ==
  /\ i \in live /\ Room
  /\ RefreshBegins(i)
  /\ UNCHANGED connection

\* useEnsureSchemaLoaded: once per slice, for as long as the tree shows the connection.
EnsureLoaded(i) ==
  /\ i \in live
  /\ ~SliceOf(i).there \/ (~SliceOf(i).initialized /\ ~SliceOf(i).loading)
  /\ RefreshBegins(i)
  /\ UNCHANGED connection

\* connectAndWarm, after connect.
Warm(i) ==
  /\ opening[i] = "warm"
  /\ opening' = [opening EXCEPT ![i] = "no"]
  /\ RefreshBegins(i)
  /\ UNCHANGED <<opens, pooled, live, teardown, savedNodes>>

\* What a refresh leaves of the slice.
Wiped(cs) ==
  [cs EXCEPT !.columns = NoColumns, !.columnErrors = {}, !.loading = FALSE,
             !.initialized = TRUE, !.listed = TRUE]

\* Mutant: nodes whose columns failed to load are not loaded again.
ReloadOnlyLoaded(cs) == {t \in cs.expanded : cs.columns[t] # 0}

\* reloadColumns: the open nodes that had columns, or an error.
Reload(cs) == {t \in cs.expanded : cs.columns[t] # 0 \/ t \in cs.columnErrors}

ListArrives(r) ==
  /\ r \in requests /\ r.of = "tables" /\ r.answer = "read"
  /\ LET cs == SliceOf(r.pool) IN
       IF cs.there
         THEN /\ PutSlice(r.pool, Wiped(cs))
              /\ requests' = (requests \ {r}) \cup {Asked(r.pool, t) : t \in Reload(cs)}
         ELSE requests' = requests \ {r} /\ UNCHANGED byConnection
  /\ UNCHANGED <<connection, edition, refreshedAt>>

\* Mutant: a failure is written whether or not its slice is still there.
ListFailsRegardless(r) ==
  /\ r \in requests /\ r.of = "tables" /\ r.answer = "failed"
  /\ requests' = requests \ {r}
  /\ PutSlice(r.pool, [OrEmpty(r.pool) EXCEPT !.loading = FALSE, !.initialized = TRUE,
                                              !.error = r.era])
  /\ UNCHANGED <<connection, edition, refreshedAt>>

ListFails(r) ==
  /\ r \in requests /\ r.of = "tables" /\ r.answer = "failed"
  /\ requests' = requests \ {r}
  /\ LET cs == SliceOf(r.pool) IN
       IF cs.there
         THEN PutSlice(r.pool, [cs EXCEPT !.loading = FALSE, !.initialized = TRUE,
                                          !.error = r.era])
         ELSE UNCHANGED byConnection
  /\ UNCHANGED <<connection, edition, refreshedAt>>

-----------------------------------------------------------------------------
(* The nodes.                                                              *)

LoadColumns(i, t) == requests' = requests \cup {Asked(i, t)}

\* toggleNode, and loadColumns unless there are columns or an error to show.
ToggleNode(i, t) ==
  /\ i \in live /\ SliceOf(i).listed /\ Room
  /\ LET cs == SliceOf(i) IN
       /\ PutSlice(i, [cs EXCEPT !.expanded =
                         IF t \in @ THEN @ \ {t} ELSE @ \cup {t}])
       /\ IF cs.columns[t] = 0 /\ t \notin cs.columnErrors
            THEN LoadColumns(i, t) ELSE UNCHANGED requests
  /\ UNCHANGED <<connection, edition, refreshedAt>>

\* The error's retry button.
Retry(i, t) ==
  /\ i \in live /\ SliceOf(i).listed /\ Room
  /\ t \in SliceOf(i).expanded \cap SliceOf(i).columnErrors
  /\ LoadColumns(i, t)
  /\ UNCHANGED <<byConnection, connection, edition, refreshedAt>>

ColumnsArrive(r) ==
  /\ r \in requests /\ r.of \in Tables /\ r.answer # "none"
  /\ requests' = requests \ {r}
  /\ LET cs == SliceOf(r.pool) IN
       IF ~cs.there THEN UNCHANGED byConnection
       ELSE IF r.answer = "failed"
         THEN PutSlice(r.pool, [cs EXCEPT !.columnErrors = @ \cup {r.of}])
         ELSE PutSlice(r.pool, [cs EXCEPT !.columns[r.of] = r.read,
                                          !.columnErrors = @ \ {r.of}])
  /\ UNCHANGED <<connection, edition, refreshedAt>>

-----------------------------------------------------------------------------
(* The server.                                                             *)

\* A request fails when its pool is gone, and may fail whenever it likes.
ServerAnswers(r) ==
  /\ r \in requests /\ r.answer = "none"
  /\ \/ requests' = (requests \ {r}) \cup {[r EXCEPT !.answer = "failed"]}
     \/ /\ r.pool \in pooled /\ r.era = opens[r.pool]
        /\ requests' = (requests \ {r}) \cup {[r EXCEPT !.answer = "read", !.read = edition]}
  /\ UNCHANGED <<byConnection, connection, edition, refreshedAt>>

\* Somebody alters the tables.
Alter ==
  /\ edition <= MaxAltered
  /\ edition' = edition + 1
  /\ UNCHANGED <<byConnection, requests, connection, refreshedAt>>

SchemaCacheNext ==
  \/ \E i \in Pools : \/ OpenPool(i) \/ Hydrate(i) \/ Warm(i)
                      \/ ClosePool(i) \/ MarkDisconnected(i) \/ DropAgain(i)
                      \/ RefreshNow(i) \/ EnsureLoaded(i)
  \/ \E i \in Pools, t \in Tables : ToggleNode(i, t) \/ Retry(i, t)
  \/ \E r \in requests : \/ ServerAnswers(r) \/ ListArrives(r) \/ ListFails(r)
                         \/ ColumnsArrive(r)
  \/ Alter

SchemaCacheSpec == SchemaCacheInit /\ [][SchemaCacheNext]_schemaCacheVars

-----------------------------------------------------------------------------
(* Properties.                                                             *)

\* An open node of a loaded tree shows its columns or the error with its retry button,
\* or an answer is on its way: it is never left on its skeleton.
OpenNodeFills ==
  \A i \in live : LET cs == SliceOf(i) IN
    cs.listed /\ ~cs.loading =>
      \A t \in cs.expanded : \/ cs.columns[t] # 0 \/ t \in cs.columnErrors
                             \/ \E r \in UnderWay(i) : r.of = t

RefreshedIsCurrent ==
  \A i \in Pools : UnderWay(i) = {} /\ ~SliceOf(i).loading /\ SliceOf(i).error = 0 =>
    \A t \in Tables : SliceOf(i).columns[t] # 0 => SliceOf(i).columns[t] >= refreshedAt[i]

SliceOfThisPool ==
  \A i \in Pools : SliceOf(i).initialized =>
    /\ i \in live
    /\ SliceOf(i).error \in {0, opens[i]}

\* "Refresh" means the schema: once it has succeeded, no columns on screen are older.  And
\* what a slice says is about the pool that is open: a request that outlives its pool
\* neither revives the slice, which stops it from loading, nor leaves its error there.
SliceCurrent == RefreshedIsCurrent /\ SliceOfThisPool
=============================================================================
