----------------------------- MODULE SessionPool -----------------------------
(***************************************************************************)
(* The pool of SQL Server sessions (db/mssql/mod.rs), made for a client    *)
(* library that has none: a semaphore bounds how many callers work at      *)
(* once, a stack keeps the sessions nobody uses, and a guard puts a        *)
(* session back when it is dropped, unless the last classified result left *)
(* it in an unknown state.                                                 *)
(*                                                                         *)
(* Callers: commands of the app, each one under the ceiling of             *)
(* with_timeout_for or not, which drops its future wherever it stands.     *)
(*                                                                         *)
(* Left out: which database a session is in, transactions the user's own   *)
(* SQL begins, the tunnel, and the instant the last handle on a closed     *)
(* pool goes and takes the sessions it still keeps with it.                *)
(***************************************************************************)
EXTENDS Naturals, Sequences, FiniteSets

CONSTANTS
  Callers,
  TdsSessions,    \* names for sessions on the server
  MaxSessions,    \* max_sessions, the grant of the endpoint's budget
  NoSession,
  LateCeilings    \* whether a ceiling may strike after a call's first statement

ASSUME SessionPoolAssumption ==
  /\ IsFiniteSet(Callers)
  /\ MaxSessions \in Nat \ {0}
  /\ NoSession \notin TdsSessions /\ "opening" \notin TdsSessions \cup {NoSession}
  /\ LateCeilings \in BOOLEAN

VARIABLES
  closed,   \* the semaphore is closed
  permits,  \* permits that are free
  queue,    \* callers waiting for a permit, first come first served
  idle,     \* the stack of sessions nobody uses, oldest at the bottom
  caller,   \* each caller: where it is, what it runs, its guard
  midway,   \* sessions whose stream is in the middle of an answer
  inTx      \* sessions with a transaction open

sessionPoolVars == <<closed, permits, queue, idle, caller, midway, inTx>>

(***************************************************************************)
(* look   reads the schema: one statement or two, under the ceiling        *)
(* ping   the heartbeat's probe, one statement, under the ceiling          *)
(* script statements one after the other until one fails                   *)
(* write  a transaction of the app's own                                   *)
(* drop   leaves the database, closes the idle sessions and drops it       *)
(***************************************************************************)
Jobs == {"look", "ping", "script", "write", "drop"}
Bounded == {"look", "ping"}
FirstStage(job) == IF job = "write" THEN "begin" ELSE "first"
Stages == {"first", "more", "begin", "execute", "commit", "rollback"}

Away == [pc |-> "away", job |-> "look", stage |-> "first",
         session |-> NoSession, healthy |-> FALSE]

Labels == {"away", "queued", "admitted", "connecting", "holding", "running", "clearing",
           "dropping", "releasing", "reaping"}
Standings == [pc : Labels, job : Jobs, stage : Stages,
              session : TdsSessions \cup {NoSession}, healthy : BOOLEAN]

SessionPoolTypeOK ==
  /\ closed \in BOOLEAN /\ permits \in 0..MaxSessions
  /\ queue \in Seq(Callers) /\ idle \in Seq(TdsSessions)
  /\ caller \in [Callers -> Standings]
  /\ midway \subseteq TdsSessions /\ inTx \subseteq TdsSessions

SessionPoolInit ==
  /\ closed = FALSE /\ permits = MaxSessions
  /\ queue = <<>> /\ idle = <<>>
  /\ caller = [c \in Callers |-> Away]
  /\ midway = {} /\ inTx = {}

In(c, label) == caller[c].pc = label
Step(c, label) == caller' = [caller EXCEPT ![c].pc = label]
Leave(c) == caller' = [caller EXCEPT ![c] = Away]
Held == {caller[c].session : c \in Callers} \ {NoSession}
Kept == {idle[i] : i \in DOMAIN idle}
Gone(s) == midway' = midway \ {s} /\ inTx' = inTx \ {s}

\* A caller that no longer waits leaves the semaphore's queue wherever it stood.
StopsWaiting(c) ==
  \E i \in DOMAIN queue :
    /\ queue[i] = c
    /\ queue' = SubSeq(queue, 1, i - 1) \o SubSeq(queue, i + 1, Len(queue))

-----------------------------------------------------------------------------
(* acquire                                                                 *)

Ask(c, job) ==
  /\ In(c, "away") /\ ~closed
  /\ caller' = [caller EXCEPT ![c] = [Away EXCEPT !.pc = "queued", !.job = job,
                                                  !.stage = FirstStage(job)]]
  /\ queue' = Append(queue, c)
  /\ UNCHANGED <<closed, permits, idle, midway, inTx>>

Admit(c) ==
  /\ queue # <<>> /\ Head(queue) = c /\ ~closed /\ permits > 0
  /\ queue' = Tail(queue) /\ permits' = permits - 1
  /\ Step(c, "admitted")
  /\ UNCHANGED <<closed, idle, midway, inTx>>

Refuse(c) ==
  /\ In(c, "queued") /\ closed
  /\ StopsWaiting(c) /\ Leave(c)
  /\ UNCHANGED <<closed, permits, idle, midway, inTx>>

\* Mutant: a session is opened although one is idle.
TakeLeavingIdle(c) ==
  /\ In(c, "admitted") /\ Step(c, "connecting")
  /\ UNCHANGED <<closed, permits, queue, idle, midway, inTx>>

\* Mutant: a guard starts healthy.
TakeHealthy(c) ==
  /\ In(c, "admitted")
  /\ IF idle = <<>>
       THEN caller' = [caller EXCEPT ![c].pc = "connecting", ![c].healthy = TRUE]
            /\ UNCHANGED idle
       ELSE /\ caller' = [caller EXCEPT ![c].pc = "holding", ![c].healthy = TRUE,
                                        ![c].session = idle[Len(idle)]]
            /\ idle' = SubSeq(idle, 1, Len(idle) - 1)
  /\ UNCHANGED <<closed, permits, queue, midway, inTx>>

\* drop_expired: the sessions idle for too long are the ones at the bottom.
Unexpired(n) == SubSeq(idle, n, Len(idle))

\* What has expired goes first, then the session at the top is taken, if one is left.
Take(c) ==
  /\ In(c, "admitted")
  /\ \E n \in 1..Len(idle) + 1 :
       IF Unexpired(n) = <<>>
         THEN Step(c, "connecting") /\ idle' = <<>>
         ELSE /\ caller' = [caller EXCEPT ![c].pc = "holding", ![c].session = idle[Len(idle)]]
              /\ idle' = SubSeq(idle, n, Len(idle) - 1)
  /\ UNCHANGED <<closed, permits, queue, midway, inTx>>

Connects(c) ==
  /\ In(c, "connecting")
  /\ \E s \in TdsSessions \ (Held \cup Kept) :
       /\ caller' = [caller EXCEPT ![c].pc = "holding", ![c].session = s]
       /\ Gone(s)
  /\ UNCHANGED <<closed, permits, queue, idle>>

\* The server refuses, or the ceiling on connecting strikes: the permit goes with it.
ConnectFails(c) ==
  /\ In(c, "connecting")
  /\ Leave(c) /\ permits' = permits + 1
  /\ UNCHANGED <<closed, queue, idle, midway, inTx>>

-----------------------------------------------------------------------------
(* Statements on a session one holds, and what classify makes of them.     *)

Run(c) ==
  /\ In(c, "holding") /\ Step(c, "running")
  /\ midway' = midway \cup {caller[c].session}
  /\ UNCHANGED <<closed, permits, queue, idle, inTx>>

Goes(c, label, stage) ==
  caller' = [caller EXCEPT ![c].pc = label, ![c].stage = stage, ![c].healthy = TRUE]
Ends(c) == Goes(c, "dropping", caller[c].stage)

Succeeds(c) ==
  /\ In(c, "running")
  /\ LET s == caller[c].session
         stage == caller[c].stage
     IN /\ midway' = midway \ {s}
        /\ inTx' = CASE stage = "begin" -> inTx \cup {s}
                     [] stage \in {"commit", "rollback"} -> inTx \ {s}
                     [] OTHER -> inTx
        /\ CASE stage = "first" /\ caller[c].job = "drop" -> Goes(c, "clearing", "more")
             [] stage = "first" /\ caller[c].job # "drop" ->
                  \/ Ends(c)
                  \/ caller[c].job # "ping" /\ Goes(c, "holding", "more")
             [] stage = "more" -> \/ Ends(c)
                                  \/ caller[c].job = "script" /\ Goes(c, "holding", "more")
             [] stage = "begin" -> Goes(c, "holding", "execute")
             [] stage = "execute" -> \E next \in {"execute", "commit", "rollback"} :
                                       Goes(c, "holding", next)
             [] OTHER -> Ends(c)
  /\ UNCHANGED <<closed, permits, queue, idle>>

\* The server rejects the statement; it refuses to end a transaction only when none is open.
Refused(c) ==
  /\ In(c, "running")
  /\ LET s == caller[c].session
         stage == caller[c].stage
     IN /\ midway' = midway \ {s}
        /\ inTx' = IF stage \in {"commit", "rollback"} THEN inTx \ {s} ELSE inTx
        /\ IF stage = "execute" THEN Goes(c, "holding", "rollback") ELSE Ends(c)
  /\ UNCHANGED <<closed, permits, queue, idle>>

\* A transport error: the guard lets the session go, and with it its transaction.
Lost(c) ==
  /\ In(c, "running")
  /\ caller' = [caller EXCEPT ![c].pc = "dropping", ![c].session = NoSession,
                              ![c].healthy = FALSE]
  /\ Gone(caller[c].session)
  /\ UNCHANGED <<closed, permits, queue, idle>>

\* drop_database, between its two statements.
CloseIdle(c) ==
  /\ In(c, "clearing") /\ Step(c, "holding")
  /\ idle' = <<>>
  /\ UNCHANGED <<closed, permits, queue, midway, inTx>>

-----------------------------------------------------------------------------
(* The ceiling, and the guard's end.                                       *)

TimesOut(c) ==
  /\ caller[c].job \in Bounded
  /\ \/ /\ In(c, "queued")
        /\ StopsWaiting(c) /\ Leave(c) /\ UNCHANGED permits
     \/ /\ In(c, "admitted") \/ In(c, "connecting")
        /\ Leave(c) /\ permits' = permits + 1 /\ UNCHANGED queue
     \/ /\ In(c, "running")
        /\ LateCeilings \/ caller[c].stage = "first"
        /\ Step(c, "dropping") /\ UNCHANGED <<queue, permits>>
     \/ /\ In(c, "reaping")
        /\ Leave(c) /\ UNCHANGED <<queue, permits>>
  /\ UNCHANGED <<closed, idle, midway, inTx>>

\* PooledClient::drop: a session is let go when it is unfit, or the stack is locked.
PutBack(c) ==
  /\ In(c, "dropping")
  /\ caller' = [caller EXCEPT ![c].pc = "releasing", ![c].session = NoSession]
  /\ \/ /\ caller[c].healthy /\ caller[c].session # NoSession
        /\ idle' = Append(idle, caller[c].session) /\ UNCHANGED <<midway, inTx>>
     \/ Gone(caller[c].session) /\ UNCHANGED idle
  /\ UNCHANGED <<closed, permits, queue>>

\* The fields of the guard go after it, the permit last.
ReleasePermit(c) ==
  /\ In(c, "releasing") /\ permits' = permits + 1
  /\ IF caller[c].job = "ping" THEN Step(c, "reaping") ELSE Leave(c)
  /\ UNCHANGED <<closed, queue, idle, midway, inTx>>

ReapIdle(c) ==
  /\ In(c, "reaping") /\ Leave(c)
  /\ \E n \in 1..Len(idle) + 1 : idle' = Unexpired(n)
  /\ UNCHANGED <<closed, permits, queue, midway, inTx>>

CloseSessions ==
  /\ ~closed /\ closed' = TRUE
  /\ idle' = <<>>
  /\ UNCHANGED <<permits, queue, caller, midway, inTx>>

SessionPoolNext ==
  \/ CloseSessions
  \/ \E c \in Callers :
       \/ \E job \in Jobs : Ask(c, job)
       \/ Admit(c) \/ Refuse(c) \/ Take(c) \/ Connects(c) \/ ConnectFails(c)
       \/ Run(c) \/ Succeeds(c) \/ Refused(c) \/ Lost(c) \/ CloseIdle(c)
       \/ TimesOut(c) \/ PutBack(c) \/ ReleasePermit(c) \/ ReapIdle(c)

SessionPoolSpec == SessionPoolInit /\ [][SessionPoolNext]_sessionPoolVars

-----------------------------------------------------------------------------
(* Properties.                                                             *)

Occupied == {c \in Callers : In(c, "connecting") \/ caller[c].session # NoSession}

\* The server never sees more sessions of this pool than its budget granted, those idle
\* and those being opened included, although a session goes back before its permit does
\* and callers find the stack empty while others are about to put a session there.
WithinGrant == Len(idle) + Cardinality(Occupied) <= MaxSessions

\* What the pool is about: who waits, whose turn it is, and who has which session.
Turns == {c \in Callers : In(c, "admitted")}
LoanOf(standing) == IF standing.pc = "connecting" THEN "opening" ELSE standing.session
LoanTo == [c \in Callers |-> LoanOf(caller[c])]

Loans == INSTANCE SessionLoans WITH
  Clients <- Callers, Sessions <- TdsSessions, Most <- MaxSessions, Nothing <- NoSession,
  line <- queue, turn <- Turns, loan <- LoanTo, spare <- Kept, shut <- closed

\* The pool lends sessions as it should: first come, first served, never more of them
\* than were granted, a session that is kept before a new one, none to two callers.
LendsAsPromised == Loans!Spec

\* The next caller finds its session at the end of an answer and outside a transaction,
\* wherever the previous one was dropped and whichever of its statements failed.
IdleIsFit == Kept \cap (midway \cup inTx) = {}
=============================================================================
