------------------------------ MODULE TableTab ------------------------------
(***************************************************************************)
(* A table tab (components/grid/TableDataTab.tsx): the query its toolbar   *)
(* describes, the requests it has on the wire for the page and for the row *)
(* total, the rows and the total on screen, and the writes the grid        *)
(* commits.                                                                *)
(*                                                                         *)
(* React runs an effect whose dependencies changed right after the event   *)
(* that changed them, so the requests an event causes leave in the same    *)
(* action.  A callback keeps the query of the render it was made in: a     *)
(* write that ends later asks again for the page it was started from.      *)
(*                                                                         *)
(* A query is the predicate (filters, search, expression, collation),      *)
(* which is what the total depends on, the order (sort, projection, hint)  *)
(* and the page (offset, page size).  Rows are the query they answer and the   *)
(* version of the table they were read at; only this tab writes.           *)
(*                                                                         *)
(* Left out: columns and the policy's locks (which gestures are offered),  *)
(* exports, the view state saved with the tab.                             *)
(***************************************************************************)
EXTENDS Naturals, Sequences
Queues == INSTANCE SequencesExt

CONSTANTS
  Preds, Orders, Pages,  \* what the user may ask for
  FirstPage,             \* offset zero, where every new predicate or order starts
  MaxWire,               \* bound: page requests and count requests under way
  MaxWrites,             \* bound: writes
  MaxAsks,               \* bound: changes of the query
  Overlaps               \* see OverlapKinds

(***************************************************************************)
(* What a user in a hurry, or a slow server, may cause:                    *)
(* reorder  the answers to two requests arrive in the other order          *)
(* paged    the query changes while a write, or an editor that will write, *)
(*          keeps the query it was opened under                            *)
(* swallow  a write ends while the page or the total is being fetched      *)
(* uncounted  a count fails after the answer to an older one has come      *)
(***************************************************************************)
OverlapKinds == {"reorder", "paged", "swallow", "uncounted"}

ASSUME TableTabAssumption ==
  /\ FirstPage \in Pages /\ "none" \notin Preds
  /\ MaxWire \in Nat \ {0} /\ MaxWrites \in Nat /\ MaxAsks \in Nat
  /\ Overlaps \subseteq OverlapKinds

Queries == [pred : Preds, order : Orders, page : Pages]
NoQuery == [pred |-> "none"]
NoPred == "none"
NoTotal == [pred |-> NoPred]

VARIABLES
  asked,      \* the query on the toolbar
  wire,       \* page requests, oldest first
  inflight,   \* inflightKeyRef
  fetchPromise, \* fetchPromiseRef: position in wire, 0 once settled
  loading, failed,
  result,      \* rows on screen
  countWire,  \* count requests, each with the page request it lets go first
  countInflight, total,
  tableVersion, rowVersion,  \* writes applied, and those of them that add or remove rows
  writes,     \* writes under way, with the query their callback closed over
  editor,     \* the docked cell editor's callback: the query it closed over
  draft,      \* the row being typed in
  asks        \* history: changes of the query

paging == <<wire, inflight, fetchPromise, loading, failed>>
counting == <<countWire, countInflight>>
table == <<tableVersion, rowVersion>>
tableTabVars == <<asked, paging, result, counting, total, table, writes, editor, draft, asks>>

Unread == MaxWrites + 1
Kinds == {"value", "rows", "draft"}

TableTabTypeOK ==
  /\ asked \in Queries
  /\ \A i \in 1..Len(wire) : wire[i] \in [q : Queries, at : 0..Unread]
  /\ inflight \in Queries \cup {NoQuery}
  /\ fetchPromise \in 0..Len(wire)
  /\ loading \in BOOLEAN /\ failed \in BOOLEAN
  /\ result = NoQuery \/ result \in [q : Queries, at : 0..MaxWrites]
  /\ \A i \in 1..Len(countWire) :
       countWire[i] \in [pred : Preds, after : 0..Len(wire), at : 0..Unread]
  /\ countInflight \in Preds \cup {NoPred}
  /\ total = NoTotal \/ total \in [pred : Preds, at : 0..MaxWrites]
  /\ tableVersion \in 0..MaxWrites /\ rowVersion \in 0..tableVersion
  /\ \A i \in 1..Len(writes) : writes[i] \in [kind : Kinds, q : Queries]
  /\ editor \in Queries \cup {NoQuery}
  /\ draft \in {"none", "open", "saving", "refused"}
  /\ asks \in 0..MaxAsks

-----------------------------------------------------------------------------
(* Requests.                                                               *)

\* fetchData: the same request is not sent twice at once.
Fetch(q) ==
  IF inflight = q THEN UNCHANGED <<wire, inflight, loading, failed>>
  ELSE /\ Len(wire) < MaxWire
       /\ wire' = Append(wire, [q |-> q, at |-> Unread])
       /\ inflight' = q
       /\ loading' = TRUE /\ failed' = FALSE

\* fetchPromiseRef = fetchData(): a request that was not sent has settled.
Stash(q) == fetchPromise' = IF inflight = q THEN 0 ELSE Len(wire) + 1

\* refreshCount waits for the page request to settle before it asks.
Count(p) ==
  IF countInflight = p THEN UNCHANGED <<countWire, countInflight, total>>
  ELSE /\ Len(countWire) < MaxWire
       /\ countWire' = Append(countWire, [pred |-> p, after |-> fetchPromise', at |-> Unread])
       /\ countInflight' = p
       /\ total' = NoTotal

\* The effects on fetchData and on refreshCount, after the query changed to q.
Effects(q) ==
  /\ Fetch(q) /\ Stash(q)
  /\ IF q.pred # asked.pred THEN Count(q.pred) ELSE UNCHANGED <<counting, total>>

ReloadAll(q) == Fetch(q) /\ Stash(q) /\ Count(q.pred)

TableTabInit ==
  /\ asked \in {q \in Queries : q.page = FirstPage}
  /\ wire = <<[q |-> asked, at |-> Unread]>> /\ inflight = asked /\ fetchPromise = 1
  /\ loading = TRUE /\ failed = FALSE /\ result = NoQuery
  /\ countWire = <<[pred |-> asked.pred, after |-> 1, at |-> Unread]>>
  /\ countInflight = asked.pred /\ total = NoTotal
  /\ tableVersion = 0 /\ rowVersion = 0
  /\ writes = <<>> /\ editor = NoQuery /\ draft = "none" /\ asks = 0

Answerable(i) == i = 1 \/ "reorder" \in Overlaps

\* The server reads the table.
FetchRead(i) ==
  /\ wire[i].at = Unread
  /\ wire' = [wire EXCEPT ![i].at = tableVersion]
  /\ UNCHANGED <<asked, inflight, fetchPromise, loading, failed, result, counting, total, table,
                 writes, editor, draft, asks>>

StillAt(k, i) == IF k = i THEN 0 ELSE IF k > i THEN k - 1 ELSE k

\* finally: the key is cleared unless a newer request has claimed it.
FetchSettles(i) ==
  /\ wire' = Queues!RemoveAt(wire, i)
  /\ inflight' = IF inflight = wire[i].q THEN NoQuery ELSE inflight
  /\ fetchPromise' = StillAt(fetchPromise, i)
  /\ countWire' = [c \in 1..Len(countWire) |->
                     [countWire[c] EXCEPT !.after = StillAt(@, i)]]
  /\ loading' = FALSE
  /\ UNCHANGED <<asked, countInflight, total, table, writes, editor, draft, asks>>

FetchAnswered(i) ==
  /\ Answerable(i) /\ wire[i].at # Unread
  /\ result' = wire[i]
  /\ FetchSettles(i)
  /\ UNCHANGED failed

FetchFails(i) ==
  /\ Answerable(i)
  /\ failed' = TRUE
  /\ FetchSettles(i)
  /\ UNCHANGED result

CountRead(i) ==
  /\ countWire[i].after = 0 /\ countWire[i].at = Unread
  /\ countWire' = [countWire EXCEPT ![i].at = rowVersion]
  /\ UNCHANGED <<asked, paging, result, countInflight, total, table, writes, editor, draft,
                 asks>>

\* Mutant: the key is cleared by an answer only.
CountSettlesOnAnswer(i) ==
  /\ countWire' = Queues!RemoveAt(countWire, i)
  /\ countInflight' =
       IF countInflight = countWire[i].pred /\ countWire[i].at # Unread
         THEN NoPred ELSE countInflight
  /\ UNCHANGED <<asked, paging, result, table, writes, editor, draft, asks>>

CountSettles(i) ==
  /\ countWire' = Queues!RemoveAt(countWire, i)
  /\ countInflight' = IF countInflight = countWire[i].pred THEN NoPred ELSE countInflight
  /\ UNCHANGED <<asked, paging, result, table, writes, editor, draft, asks>>

CountAnswered(i) ==
  /\ Answerable(i) /\ countWire[i].at # Unread
  /\ total' = [pred |-> countWire[i].pred, at |-> countWire[i].at]
  /\ CountSettles(i)

\* The grid pages without a total.
CountFails(i) ==
  /\ Answerable(i) /\ countWire[i].after = 0
  /\ "uncounted" \in Overlaps \/ total = NoTotal
  /\ CountSettles(i)
  /\ UNCHANGED total

-----------------------------------------------------------------------------
(* The query.                                                              *)

MayAsk == "paged" \in Overlaps \/ (writes = <<>> /\ editor = NoQuery)

AskFor(q) ==
  /\ MayAsk /\ asks < MaxAsks
  /\ asks' = asks + 1
  /\ asked' = q
  /\ Effects(q)
  /\ UNCHANGED <<result, table, writes, editor, draft>>

\* Filters, the search, the query panel and FK navigation: back to the first page.
AskPred(p) == AskFor([asked EXCEPT !.pred = p, !.page = FirstPage])

\* Sort and projection.
AskOrder(o) == AskFor([asked EXCEPT !.order = o, !.page = FirstPage])

\* The arrows and "go to row" are disabled while a page is loading.
AskPage(g) == ~loading /\ g # asked.page /\ AskFor([asked EXCEPT !.page = g])

\* The refresh button, F5.
Refresh ==
  /\ ReloadAll(asked)
  /\ UNCHANGED <<asked, result, table, writes, editor, draft, asks>>

-----------------------------------------------------------------------------
(* Writes.                                                                 *)

MayWrite == result # NoQuery /\ Len(writes) + tableVersion < MaxWrites

StartWrite(kind, q) == writes' = Append(writes, [kind |-> kind, q |-> q])

\* A cell, a removed field, a bulk update.
SaveField ==
  /\ MayWrite
  /\ StartWrite("value", asked)
  /\ UNCHANGED <<asked, paging, result, counting, total, table, editor, draft, asks>>

\* Deleted rows, inserted documents, an import.
ChangeRows ==
  /\ MayWrite
  /\ StartWrite("rows", asked)
  /\ UNCHANGED <<asked, paging, result, counting, total, table, editor, draft, asks>>

\* The docked editor keeps onSave of the render it was opened in.
OpenEditor ==
  /\ result # NoQuery /\ editor = NoQuery
  /\ editor' = asked
  /\ UNCHANGED <<asked, paging, result, counting, total, table, writes, draft, asks>>

SaveEditor ==
  /\ editor # NoQuery /\ MayWrite
  /\ StartWrite("value", editor)
  /\ UNCHANGED <<asked, paging, result, counting, total, table, editor, draft, asks>>

CloseEditor ==
  /\ editor # NoQuery
  /\ editor' = NoQuery
  /\ UNCHANGED <<asked, paging, result, counting, total, table, writes, draft, asks>>

\* Insert or duplicate: one row at a time.
OpenDraft ==
  /\ draft = "none" /\ result # NoQuery
  /\ draft' = "open"
  /\ UNCHANGED <<asked, paging, result, counting, total, table, writes, editor, asks>>

\* Escape, "discard", and the commit of an untouched row; not while it is being saved,
\* when its controls are disabled.
DropDraft ==
  /\ draft \in {"open", "refused"}
  /\ draft' = "none"
  /\ UNCHANGED <<asked, paging, result, counting, total, table, writes, editor, asks>>

CommitDraft ==
  /\ draft \in {"open", "refused"} /\ MayWrite
  /\ draft' = "saving"
  /\ StartWrite("draft", asked)
  /\ UNCHANGED <<asked, paging, result, counting, total, table, editor, asks>>

\* The write was applied: the page, and the total if rows came or went, are asked for
\* again, as they were when the write began.
WriteDone(i) ==
  LET w == writes[i] IN
  /\ "swallow" \in Overlaps \/ (wire = <<>> /\ countWire = <<>>)
  /\ tableVersion' = tableVersion + 1
  /\ writes' = Queues!RemoveAt(writes, i)
  /\ IF w.kind = "value"
       THEN Fetch(w.q) /\ UNCHANGED <<rowVersion, fetchPromise, counting, total>>
       ELSE ReloadAll(w.q) /\ rowVersion' = tableVersion + 1
  /\ draft' = IF w.kind = "draft" THEN "none" ELSE draft
  /\ UNCHANGED <<asked, result, editor, asks>>

\* The error is shown by whoever asked for the write; the draft stays for another try.
WriteRefused(i) ==
  /\ writes' = Queues!RemoveAt(writes, i)
  /\ draft' = IF writes[i].kind = "draft" THEN "refused" ELSE draft
  /\ UNCHANGED <<asked, paging, result, counting, total, table, editor, asks>>

TableTabNext ==
  \/ \E i \in 1..Len(wire) : FetchRead(i) \/ FetchAnswered(i) \/ FetchFails(i)
  \/ \E i \in 1..Len(countWire) : CountRead(i) \/ CountAnswered(i) \/ CountFails(i)
  \/ \E p \in Preds : AskPred(p)
  \/ \E o \in Orders : AskOrder(o)
  \/ \E g \in Pages : AskPage(g)
  \/ Refresh
  \/ SaveField \/ ChangeRows
  \/ OpenEditor \/ SaveEditor \/ CloseEditor
  \/ OpenDraft \/ DropDraft \/ CommitDraft
  \/ \E i \in 1..Len(writes) : WriteDone(i) \/ WriteRefused(i)

TableTabSpec == TableTabInit /\ [][TableTabNext]_tableTabVars

-----------------------------------------------------------------------------
(* Properties.                                                             *)

Quiet == wire = <<>> /\ writes = <<>>

\* When nothing is under way and no error is shown, the rows on screen answer the query
\* on the toolbar and hold every write this tab made.
RowsCurrent ==
  Quiet /\ ~failed => result # NoQuery /\ result = [q |-> asked, at |-> tableVersion]

\* The total in the footer, once there is one, counts the rows of the query on the
\* toolbar, with those this tab added and without those it deleted.
TotalCurrent ==
  Quiet /\ countWire = <<>> /\ total # NoTotal =>
    total = [pred |-> asked.pred, at |-> rowVersion]

\* A claimed key belongs to a request that will release it, or every later refresh of that
\* query would return at once.
KeysReleased ==
  /\ inflight # NoQuery => \E i \in 1..Len(wire) : wire[i].q = inflight
  /\ countInflight # NoPred => \E i \in 1..Len(countWire) : countWire[i].pred = countInflight

\* At rest the tab shows the rows and the total of the query on its toolbar, and it can
\* always be refreshed.
TabCurrent == RowsCurrent /\ TotalCurrent /\ KeysReleased
=============================================================================
