------------------------------- MODULE AiTurns -------------------------------
(***************************************************************************)
(* The assistant's conversations (stores/session/ai.ts) and the turns that *)
(* answer them: a turn runs in the backend (commands/ai.rs, ai/agent.rs),  *)
(* streams what it writes as events (lib/bridges/ai-stream-bridge.ts) and  *)
(* returns its whole answer to whoever asked (components/ai/AiPanel.tsx,   *)
(* lib/ai/runTask.ts).                                                     *)
(*                                                                         *)
(* Events arrive in order, but any of them may be lost, and the answer     *)
(* does not wait for them.                                                 *)
(*                                                                         *)
(* Left out: what the questions and answers say, the history sent with a   *)
(* question, drafts, the capability probe's verdict, budgets of rows and   *)
(* characters, several windows (each has its own conversations).           *)
(***************************************************************************)
EXTENDS Naturals, Sequences, FiniteSets

CONSTANTS
  Talks,      \* connections with a conversation
  MaxTurns,   \* bound: questions
  MaxSteps,   \* AgentLimits::max_iterations
  MaxChunks,  \* bound: deltas of one model call
  Impatient   \* a task is started in a conversation that is being answered

ASSUME AiTurnsAssumption ==
  /\ MaxTurns \in Nat /\ MaxSteps \in Nat \ {0} /\ MaxChunks \in Nat
  /\ Impatient \in BOOLEAN

Seqs == INSTANCE SequencesExt

TurnIds == 1..MaxTurns

\* A part of a message, and the event that brings it.
Text(step, n) == [what |-> "text", step |-> step, n |-> n]
ToolCall(step) == [what |-> "toolCall", step |-> step, n |-> 0]
ToolResult(step) == [what |-> "toolResult", step |-> step, n |-> 0]
Note == [what |-> "text", step |-> 0, n |-> 0]
Part == [what : {"text", "toolCall", "toolResult"}, step : 0..MaxSteps, n : 0..MaxChunks]
TextPart == {part \in Part : part.what = "text"}
ToolPart == Part \ TextPart

\* The members of a list that are of a kind, in their order (Array.filter): the k-th is the
\* one with k of its kind up to it.
Rank(s, kind, i) == Cardinality({j \in 1..i : s[j] \in kind})
OfKind(s, kind) ==
  [k \in 1..Rank(s, kind, Len(s)) |->
     s[CHOOSE i \in 1..Len(s) : s[i] \in kind /\ Rank(s, kind, i) = k]]

VARIABLES
  messages,    \* the turns of each conversation, oldest first
  turnId,      \* the turn it is waiting for, 0 for none
  failure,     \* its error line
  parts,       \* the parts of each turn's assistant message
  turnOwners,  \* in-flight turns, as the store files them
  turn,        \* the backend's side of each turn
  events,      \* deltas on their way, with the turn they are of
  questions    \* questions so far

talk == <<messages, turnId, failure, parts, turnOwners>>
aiTurnsVars == <<talk, turn, events, questions>>

NoTurn == [pc |-> "none", step |-> 1, chunks |-> 0, nudged |-> FALSE, content |-> <<>>]

AiTurnsTypeOK ==
  /\ \A c \in Talks : Seqs!Range(messages[c]) \subseteq TurnIds
  /\ turnId \in [Talks -> 0..MaxTurns] /\ failure \in [Talks -> BOOLEAN]
  /\ \A t \in TurnIds : Seqs!Range(parts[t]) \subseteq Part
  /\ turnOwners \in [TurnIds -> SUBSET Talks]
  /\ \A t \in TurnIds :
       /\ turn[t].pc \in {"none", "preparing", "running", "notified", "answered", "failed",
                          "over", "lost"}
       /\ turn[t].step \in 1..MaxSteps /\ turn[t].chunks \in 0..MaxChunks
       /\ turn[t].nudged \in BOOLEAN
       /\ Seqs!Range(turn[t].content) \subseteq Part
  /\ \A e \in Seqs!Range(events) : e.turn \in TurnIds /\ e.part \in Part
  /\ questions \in 0..MaxTurns

AiTurnsInit ==
  /\ messages = [c \in Talks |-> <<>>]
  /\ turnId = [c \in Talks |-> 0] /\ failure = [c \in Talks |-> FALSE]
  /\ parts = [t \in TurnIds |-> <<>>]
  /\ turnOwners = [t \in TurnIds |-> {}]
  /\ turn = [t \in TurnIds |-> NoTurn]
  /\ events = <<>> /\ questions = 0

-----------------------------------------------------------------------------
(* The panel.                                                              *)

\* startTurn: by send, which is disabled during a turn, or by a task, which is not.
StartTurn(c) ==
  /\ questions < MaxTurns
  /\ turnId[c] = 0 \/ Impatient
  /\ questions' = questions + 1
  /\ messages' = [messages EXCEPT ![c] = Append(@, questions')]
  /\ turnId' = [turnId EXCEPT ![c] = questions']
  /\ failure' = [failure EXCEPT ![c] = FALSE]
  /\ turnOwners' = [turnOwners EXCEPT ![questions'] = {c}]
  /\ turn' = [turn EXCEPT ![questions'].pc = "preparing"]
  /\ UNCHANGED <<parts, events>>

\* inTurn: nothing of a turn the conversation is no longer waiting for is shown.
InTurn(t) == {c \in turnOwners[t] : turnId[c] = t}

\* mapLastAssistant
LastTurn(c) == Seqs!Last(messages[c])

\* pushDelta, pushToolCall, pushToolResult.
Deliver ==
  /\ events # <<>>
  /\ events' = Tail(events)
  /\ LET e == Head(events)
         shownIn == {c \in InTurn(e.turn) : messages[c] # <<>>}
     IN parts' = [t \in TurnIds |->
          IF \E c \in shownIn : t = LastTurn(c) THEN Append(parts[t], e.part) ELSE parts[t]]
  /\ UNCHANGED <<messages, turnId, failure, turnOwners, turn, questions>>

Lose ==
  /\ events # <<>>
  /\ events' = Tail(events)
  /\ UNCHANGED <<talk, turn, questions>>

\* Mutant: what was streamed is taken for the answer.
ReconciledNot(shown, content) == shown

\* The tools stay where they were unless the text has to be replaced.
Reconciled(shown, content) ==
  IF OfKind(shown, TextPart) = content THEN shown
  ELSE OfKind(shown, ToolPart) \o content

\* finishTurn
Finish(t) ==
  /\ turn[t].pc = "answered"
  /\ turn' = [turn EXCEPT ![t].pc = "over"]
  /\ parts' = IF InTurn(t) = {} THEN parts
              ELSE [parts EXCEPT ![t] = Reconciled(@, turn[t].content)]
  /\ turnId' = [c \in Talks |-> IF c \in InTurn(t) THEN 0 ELSE turnId[c]]
  /\ turnOwners' = [turnOwners EXCEPT ![t] = {}]
  /\ UNCHANGED <<messages, failure, events, questions>>

\* failTurn
Fail(t) ==
  /\ turn[t].pc = "failed"
  /\ turn' = [turn EXCEPT ![t].pc = "lost"]
  /\ turnId' = [c \in Talks |-> IF c \in InTurn(t) THEN 0 ELSE turnId[c]]
  /\ failure' = [c \in Talks |-> failure[c] \/ c \in InTurn(t)]
  /\ turnOwners' = [turnOwners EXCEPT ![t] = {}]
  /\ UNCHANGED <<messages, parts, events, questions>>

\* clear: disabled during a turn.
Clear(c) ==
  /\ messages[c] # <<>> /\ turnId[c] = 0
  /\ messages' = [messages EXCEPT ![c] = <<>>]
  /\ failure' = [failure EXCEPT ![c] = FALSE]
  /\ UNCHANGED <<turnId, parts, turnOwners, turn, events, questions>>

\* ai_cancel: it finds the turns that are registered, and tells the others nothing.
Cancel(c) ==
  /\ turnId[c] # 0
  /\ LET t == turnId[c] IN
       turn' = IF turn[t].pc = "running"
                 THEN [turn EXCEPT ![t].pc = "notified"] ELSE turn
  /\ UNCHANGED <<talk, events, questions>>

-----------------------------------------------------------------------------
(* The backend.                                                            *)

\* The probe of the model (run_agent) or the reads of a task (gather) come first.
Registered(t) ==
  /\ turn[t].pc = "preparing"
  /\ turn' = [turn EXCEPT ![t].pc = "running"]
  /\ UNCHANGED <<talk, events, questions>>

Emit(t, ps) == events' = events \o [i \in 1..Len(ps) |-> [turn |-> t, part |-> ps[i]]]

\* on_text
Stream(t) ==
  /\ turn[t].pc = "running" /\ turn[t].chunks < MaxChunks
  /\ turn' = [turn EXCEPT ![t].chunks = @ + 1]
  /\ Emit(t, <<Text(turn[t].step, turn[t].chunks + 1)>>)
  /\ UNCHANGED <<talk, questions>>

NextStep(t) == [turn EXCEPT ![t].step = @ + 1, ![t].chunks = 0]

\* The content is the last model call's, with a note when a budget ended the turn.
Ended(t, cut) ==
  [turn EXCEPT ![t].pc = "answered", ![t].content =
     [n \in 1..turn[t].chunks |-> Text(turn[t].step, n)] \o (IF cut THEN <<Note>> ELSE <<>>)]

\* The model called a tool: the call and what came of it are events, then it goes on,
\* unless the steps or the results are more than a turn may have.
UseTool(t) ==
  /\ turn[t].pc = "running"
  /\ turn' = Ended(t, TRUE) \/ (turn[t].step < MaxSteps /\ turn' = NextStep(t))
  /\ Emit(t, <<ToolCall(turn[t].step), ToolResult(turn[t].step)>>)
  /\ UNCHANGED <<talk, questions>>

\* RUN_IT_YOURSELF, once: the text it answers has been streamed and is abandoned.
Nudge(t) ==
  /\ turn[t].pc = "running" /\ turn[t].step < MaxSteps
  /\ turn[t].chunks > 0 /\ ~turn[t].nudged
  /\ turn' = [NextStep(t) EXCEPT ![t].nudged = TRUE]
  /\ UNCHANGED <<talk, events, questions>>

\* It called none, or more than it has left.
Answered(t, cut) ==
  /\ turn[t].pc \in {"running", "notified"}
  /\ turn' = Ended(t, cut)
  /\ UNCHANGED <<talk, events, questions>>

\* The server fails, the connection is refused, or the turn is cancelled.
Broken(t) ==
  /\ turn[t].pc \in {"preparing", "running", "notified"}
  /\ turn' = [turn EXCEPT ![t].pc = "failed"]
  /\ UNCHANGED <<talk, events, questions>>

AiTurnsNext ==
  \/ \E c \in Talks : StartTurn(c) \/ Cancel(c) \/ Clear(c)
  \/ Deliver \/ Lose
  \/ \E t \in TurnIds : \/ Registered(t) \/ Stream(t) \/ UseTool(t) \/ Nudge(t)
                        \/ Answered(t, TRUE) \/ Answered(t, FALSE) \/ Broken(t)
                        \/ Finish(t) \/ Fail(t)

AiTurnsSpec == AiTurnsInit /\ [][AiTurnsNext]_aiTurnsVars

-----------------------------------------------------------------------------
(* Properties.                                                             *)

\* Every question in a transcript whose turn is over has its whole answer under it,
\* whatever was lost or came late, and nothing that is not part of the answer; or, when
\* it failed and nothing was asked since, the conversation shows that it failed.
TurnLands ==
  \A c \in Talks : \A t \in Seqs!Range(messages[c]) :
    /\ turn[t].pc = "over" => OfKind(parts[t], TextPart) = turn[t].content
    /\ turn[t].pc = "lost" /\ t = LastTurn(c) => failure[c]
=============================================================================
