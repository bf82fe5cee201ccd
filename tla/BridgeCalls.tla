---------------------------- MODULE BridgeCalls ----------------------------
(***************************************************************************)
(* A sidecar (huginndb-mcp) that serves the tools of one MCP client, either *)
(* through the app's listener or with a pool of its own.                   *)
(*                                                                         *)
(* A tool call makes two requests: it ensures that the connection is open, *)
(* then it writes.  BridgeClient::call sends a request as a payload and a  *)
(* newline, on one stream that a mutex guards, dials again at most once,   *)
(* and decides whether the sidecar may run the request itself.             *)
(***************************************************************************)
EXTENDS BridgeListener, Sequences, FiniteSets

CONSTANTS
  Calls,   \* tool calls
  Buffer   \* frames a stream holds before a sender waits

ASSUME CallsAssumption ==
  /\ IsFiniteSet(Calls)
  /\ None \notin Calls
  /\ Buffer \in Nat \ {0}

VARIABLES
  mode,       \* whether the sidecar attached to an app when it started
  link,       \* the listener at the other end of the stream
  lock,       \* the call that holds the stream's mutex
  inbox,      \* frames the app has yet to read
  job,        \* the frame the app is handling
  outbox,     \* answers the sidecar has yet to read
  appPool,    \* the app has a pool for the connection
  localPool,  \* the sidecar has one
  step,       \* the request each call is at
  pc,         \* where each call is
  outcome,    \* what each call reported
  applied     \* how often each call's write took effect in the database

callVars == <<mode, link, lock, inbox, job, outbox, appPool, localPool,
              step, pc, outcome, applied>>
vars == <<listenerVars, callVars>>

NoJob == [call |-> None, step |-> "ensure", whole |-> TRUE, result |-> "none"]
Frame(c) == [call |-> c, step |-> step[c], whole |-> FALSE]

Goto(c, label) == pc' = [pc EXCEPT ![c] = label]
At(c, label) == pc[c] = label

\* The connection's task at the app ends with the listener or the process.
Open == link \in serving

\* Call c reports to the client and is over.
Report(c, result) ==
  /\ Goto(c, "done")
  /\ outcome' = [outcome EXCEPT ![c] = result]

Init ==
  /\ ListenerInit
  /\ mode = "starting"
  /\ link = None
  /\ lock = None
  /\ inbox = <<>>
  /\ job = NoJob
  /\ outbox = <<>>
  /\ appPool = FALSE
  /\ localPool = FALSE
  /\ step = [c \in Calls |-> "ensure"]
  /\ pc = [c \in Calls |-> "idle"]
  /\ outcome = [c \in Calls |-> "none"]
  /\ applied = [c \in Calls |-> 0]

-----------------------------------------------------------------------------
(* Dialling *)

\* read_discovery and handshake: a new stream to the listener the file names.
\* A stale file, a refused token or CONNECT_TIMEOUT make it fail.
Dial ==
  /\ discovery \in serving
  /\ link' = discovery
  /\ inbox' = <<>>
  /\ outbox' = <<>>
  /\ job' = NoJob

\* BridgeClient::connect when the sidecar starts; without an app it never
\* looks for one again.
SidecarStarts ==
  /\ mode = "starting"
  /\ \/ Dial /\ mode' = "bridged"
     \/ mode' = "local" /\ UNCHANGED <<link, inbox, outbox, job>>
  /\ UNCHANGED <<listenerVars, lock, appPool, localPool, step, pc, outcome, applied>>

-----------------------------------------------------------------------------
(* BridgeClient::call *)

Begin(c) ==
  /\ At(c, "idle")
  /\ mode # "starting"
  /\ Goto(c, IF mode = "bridged" THEN "lock" ELSE "ensureLocal")
  /\ UNCHANGED <<listenerVars, mode, link, lock, inbox, job, outbox, appPool,
                 localPool, step, outcome, applied>>

\* Mutant: a call uses the stream without waiting for the other's answer.
LockShared(c) ==
  /\ At(c, "lock")
  /\ lock' = c
  /\ Goto(c, "payload")
  /\ UNCHANGED <<listenerVars, mode, link, inbox, job, outbox, appPool,
                 localPool, step, outcome, applied>>

Lock(c) ==
  /\ At(c, "lock")
  /\ lock = None
  /\ lock' = c
  /\ Goto(c, "payload")
  /\ UNCHANGED <<listenerVars, mode, link, inbox, job, outbox, appPool,
                 localPool, step, outcome, applied>>

\* The payload is written, into the void when the app has just closed.
SendPayload(c) ==
  /\ pc[c] \in {"payload", "payloadAgain"}
  /\ Open => Len(inbox) < Buffer
  /\ inbox' = IF Open THEN Append(inbox, Frame(c)) ELSE inbox
  /\ Goto(c, IF At(c, "payload") THEN "newline" ELSE "newlineAgain")
  /\ UNCHANGED <<listenerVars, mode, link, lock, job, outbox, appPool,
                 localPool, step, outcome, applied>>

\* The newline, a write of its own, completes the frame.
SendNewline(c) ==
  /\ pc[c] \in {"newline", "newlineAgain"}
  /\ inbox' = IF Open THEN [inbox EXCEPT ![Len(inbox)].whole = TRUE] ELSE inbox
  /\ Goto(c, "await")
  /\ UNCHANGED <<listenerVars, mode, link, lock, job, outbox, appPool,
                 localPool, step, outcome, applied>>

\* One of the two writes fails: dial again, unless that was the second stream.
SendFails(c) ==
  /\ ~Open
  /\ \/ pc[c] \in {"payload", "newline"} /\ Goto(c, "redial")
     \/ pc[c] \in {"payloadAgain", "newlineAgain"} /\ Goto(c, "unsent")
  /\ UNCHANGED <<listenerVars, mode, link, lock, inbox, job, outbox, appPool,
                 localPool, step, outcome, applied>>

Redial(c) ==
  /\ At(c, "redial")
  /\ \/ Dial /\ Goto(c, "payloadAgain")
     \/ Goto(c, "unsent") /\ UNCHANGED <<link, inbox, outbox, job>>
  /\ UNCHANGED <<listenerVars, mode, lock, appPool, localPool, step,
                 outcome, applied>>

\* Mutant: a request that could not be sent is tried again.
UnsentRetries(c) ==
  /\ At(c, "unsent")
  /\ lock' = None
  /\ Goto(c, "lock")
  /\ UNCHANGED <<listenerVars, mode, link, inbox, job, outbox, appPool,
                 localPool, step, outcome, applied>>

\* Unreachable: the sidecar runs the request itself.
Unsent(c) ==
  /\ At(c, "unsent")
  /\ lock' = None
  /\ Goto(c, "execute")
  /\ UNCHANGED <<listenerVars, mode, link, inbox, job, outbox, appPool,
                 localPool, step, outcome, applied>>

\* The next line is the answer: of an earlier request, when that one's caller
\* stopped waiting.  A good answer to the first request leads to the second;
\* an answer of the wrong kind may not be readable as a result.
ReadAnswer(c) ==
  LET answer == Head(outbox) IN
  /\ At(c, "await")
  /\ outbox # <<>>
  /\ outbox' = Tail(outbox)
  /\ lock' = None
  /\ \/ /\ answer.result = "ok"
        /\ step[c] = "ensure"
        /\ step' = [step EXCEPT ![c] = "write"]
        /\ Goto(c, "lock")
        /\ UNCHANGED outcome
     \/ /\ answer.result = "ok"
        /\ step[c] = "write"
        /\ Report(c, "ok")
        /\ UNCHANGED step
     \/ /\ answer.result = "error" \/ answer.step # step[c]
        /\ Report(c, "error")
        /\ UNCHANGED step
  /\ UNCHANGED <<listenerVars, mode, link, inbox, job, appPool, localPool,
                 applied>>

\* Mutant: the stream ended, so the request goes out once more.
LoseAnswerResends(c) ==
  /\ At(c, "await")
  /\ ~Open
  /\ Goto(c, "redial")
  /\ UNCHANGED <<listenerVars, mode, link, lock, inbox, job, outbox, appPool,
                 localPool, step, outcome, applied>>

\* Mutant: the stream ended, so the sidecar runs the request itself.
LoseAnswerFallsBack(c) ==
  /\ At(c, "await")
  /\ ~Open
  /\ lock' = None
  /\ outbox' = <<>>
  /\ Goto(c, "execute")
  /\ UNCHANGED <<listenerVars, mode, link, inbox, job, appPool,
                 localPool, step, outcome, applied>>

\* The stream ends, or breaks and takes the unread answers with it: an error,
\* never a fallback, for the request may have taken effect.
LoseAnswer(c) ==
  /\ At(c, "await")
  /\ ~Open
  /\ lock' = None
  /\ outbox' = <<>>
  /\ Report(c, "error")
  /\ UNCHANGED <<listenerVars, mode, link, inbox, job, appPool,
                 localPool, step, applied>>

\* CALL_TIMEOUT: the call gives up and the stream stays as it is.
TimeOut(c) ==
  /\ At(c, "await")
  /\ outbox = <<>>
  /\ lock' = None
  /\ Report(c, "timeout")
  /\ UNCHANGED <<listenerVars, mode, link, inbox, job, outbox, appPool,
                 localPool, step, applied>>

-----------------------------------------------------------------------------
(* The sidecar's own pool *)

\* ensure_connected without a bridge.
EnsureLocal(c) ==
  /\ At(c, "ensureLocal")
  /\ \/ localPool' = TRUE
        /\ step' = [step EXCEPT ![c] = "write"]
        /\ Goto(c, "execute")
        /\ UNCHANGED outcome
     \/ Report(c, "error") /\ UNCHANGED <<localPool, step>>
  /\ UNCHANGED <<listenerVars, mode, link, lock, inbox, job, outbox, appPool,
                 applied>>

\* bridge::exec::execute in the sidecar.  It refuses to open a connection; a
\* write needs the pool, and one that fails may have taken effect.
ExecuteLocal(c) ==
  /\ At(c, "execute")
  /\ \/ /\ step[c] = "write"
        /\ localPool
        /\ applied' = [applied EXCEPT ![c] = @ + 1]
        /\ Report(c, "ok") \/ Report(c, "error")
     \/ Report(c, "error") /\ UNCHANGED applied
  /\ UNCHANGED <<listenerVars, mode, link, lock, inbox, job, outbox, appPool,
                 localPool, step>>

\* The sidecar's reaper closes an idle pool.
ReapLocal ==
  /\ localPool
  /\ localPool' = FALSE
  /\ UNCHANGED <<listenerVars, mode, link, lock, inbox, job, outbox, appPool,
                 step, pc, outcome, applied>>

-----------------------------------------------------------------------------
(* serve_connection, in the app *)

ReadRequest ==
  /\ Open
  /\ job = NoJob
  /\ inbox # <<>>
  /\ Head(inbox).whole
  /\ job' = [call |-> Head(inbox).call, step |-> Head(inbox).step,
             whole |-> TRUE, result |-> "none"]
  /\ inbox' = Tail(inbox)
  /\ UNCHANGED <<listenerVars, mode, link, lock, outbox, appPool, localPool,
                 step, pc, outcome, applied>>

\* dispatch: connect_inner for the first request, bridge::exec::execute for
\* the second.  Exposure, policy, the budget or the server may refuse.
Dispatch ==
  /\ Open
  /\ job # NoJob
  /\ job.result = "none"
  /\ \/ /\ job.step = "ensure"
        /\ appPool' = TRUE
        /\ job' = [job EXCEPT !.result = "ok"]
        /\ UNCHANGED applied
     \/ /\ job.step = "write"
        /\ appPool
        /\ applied' = [applied EXCEPT ![job.call] = @ + 1]
        /\ \E result \in {"ok", "error"} : job' = [job EXCEPT !.result = result]
        /\ UNCHANGED appPool
     \/ job' = [job EXCEPT !.result = "error"] /\ UNCHANGED <<appPool, applied>>
  /\ UNCHANGED <<listenerVars, mode, link, lock, inbox, outbox, localPool,
                 step, pc, outcome>>

Reply ==
  /\ Open
  /\ job.result # "none"
  /\ outbox' = Append(outbox, job)
  /\ job' = NoJob
  /\ UNCHANGED <<listenerVars, mode, link, lock, inbox, appPool, localPool,
                 step, pc, outcome, applied>>

\* The app's reaper, or a window, closes the pool.
ClosePool ==
  /\ appPool
  /\ appPool' = FALSE
  /\ UNCHANGED <<listenerVars, mode, link, lock, inbox, job, outbox, localPool,
                 step, pc, outcome, applied>>

-----------------------------------------------------------------------------
CallStep(c) ==
  \/ Lock(c) \/ SendPayload(c) \/ SendNewline(c) \/ SendFails(c) \/ Redial(c)
  \/ Unsent(c) \/ ReadAnswer(c) \/ LoseAnswer(c) \/ TimeOut(c)
  \/ EnsureLocal(c) \/ ExecuteLocal(c)

Serve == ReadRequest \/ Dispatch \/ Reply

\* The app's exit takes its pools with it.
AppExits ==
  /\ AppStops
  /\ appPool' = FALSE
  /\ UNCHANGED <<mode, link, lock, inbox, job, outbox, localPool, step, pc,
                 outcome, applied>>

Next ==
  \/ ListenerNext /\ UNCHANGED callVars
  \/ AppExits
  \/ SidecarStarts
  \/ \E c \in Calls : Begin(c) \/ CallStep(c)
  \/ Serve \/ ClosePool \/ ReapLocal

\* A statement ends, and the runtime runs every task; nobody has to call a
\* tool, start the app or change the preference.
Fairness ==
  /\ WF_vars(Serve)
  /\ \A c \in Calls : WF_vars(CallStep(c))

Spec == Init /\ [][Next]_vars
FairSpec == Spec /\ Fairness

-----------------------------------------------------------------------------
(* Properties *)

Steps == {"ensure", "write"}
Results == {"none", "ok", "error"}
Frames == [call : Calls, step : Steps, whole : BOOLEAN]
Jobs == [call : Calls, step : Steps, whole : {TRUE}, result : Results]

TypeOK ==
  /\ ListenerTypeOK
  /\ mode \in {"starting", "bridged", "local"}
  /\ link \in Listeners \cup {None}
  /\ lock \in Calls \cup {None}
  /\ inbox \in Seq(Frames)
  /\ job \in Jobs \cup {NoJob}
  /\ outbox \in Seq(Jobs)
  /\ appPool \in BOOLEAN
  /\ localPool \in BOOLEAN
  /\ step \in [Calls -> Steps]
  /\ pc \in [Calls -> {"idle", "lock", "payload", "newline", "redial",
                       "payloadAgain", "newlineAgain", "unsent", "await",
                       "ensureLocal", "execute", "done"}]
  /\ outcome \in [Calls -> {"none", "ok", "error", "timeout"}]
  /\ applied \in [Calls -> Nat]

\* A write is never applied twice, whatever breaks between the sidecar, the
\* app and the database: a frame that may have been read is not sent again.
NeverAppliedTwice == \A c \in Calls : applied[c] <= 1

\* The sidecar runs a request itself only if the app has not run it and never
\* will: no complete frame of it is left for the app to read.
FallbackNeverSent ==
  \A c \in Calls : At(c, "execute") =>
    /\ step[c] = "write" => applied[c] = 0
    /\ Open =>
         /\ \A n \in 1..Len(inbox) : ~(inbox[n].call = c /\ inbox[n].step = step[c])
         /\ ~(job.call = c /\ job.step = step[c])

\* What is reported as done was done: as long as no call timed out, an answer
\* is never taken for the answer to another request.
ReportedOkWasApplied ==
  (\A c \in Calls : outcome[c] # "timeout") =>
    \A c \in Calls : outcome[c] = "ok" => applied[c] = 1

\* Every tool call that began ends, however often the app comes and goes: the
\* mutex is given back, a call that waits for room or for an answer goes on.
CallsFinish == \A c \in Calls : ~At(c, "idle") ~> At(c, "done")

\* One request, one response, in order: the line a call reads is its answer,
\* so a call that reports success succeeded.
AnswerIsOwn == \A c \in Calls : outcome[c] = "ok" => applied[c] = 1

\* Whoever runs the shared executor intercepts the request to open a
\* connection, which it does not handle.
EnsureIntercepted == \A c \in Calls : ~(At(c, "execute") /\ step[c] = "ensure")
=============================================================================
