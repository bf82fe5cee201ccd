---------------------------- MODULE SessionLoans ----------------------------
(***************************************************************************)
(* What a pool of sessions promises its callers, whatever it is made of:   *)
(* they are served in the order they came, at most Most of them at once;   *)
(* whoever is served is lent a session that nobody else has, a spare one   *)
(* if there is any and otherwise a new one; what comes back is spare; and  *)
(* there are never more than Most sessions, lent, spare or being opened.   *)
(***************************************************************************)
EXTENDS Naturals, Sequences, FiniteSets

CONSTANTS
  Clients,   \* who asks for a session
  Sessions,
  Most,      \* sessions there may be
  Nothing    \* no session

VARIABLES
  line,      \* clients waiting, first come first served
  turn,      \* clients served that have nothing yet
  loan,      \* what each client has: a session, one being opened, or nothing
  spare,     \* sessions nobody has
  shut       \* nobody is served any more

loansVars == <<line, turn, loan, spare, shut>>

Borrowers == {c \in Clients : loan[c] # Nothing}
Lent == {loan[c] : c \in Borrowers}

Init ==
  /\ line = <<>> /\ turn = {}
  /\ loan = [c \in Clients |-> Nothing]
  /\ spare = {} /\ shut = FALSE

Join(c) ==
  /\ ~shut /\ c \notin turn \cup Borrowers
  /\ line' = Append(line, c)
  /\ UNCHANGED <<turn, loan, spare, shut>>

Serve(c) ==
  /\ ~shut /\ line # <<>> /\ c = Head(line)
  /\ Cardinality(turn \cup Borrowers) < Most
  /\ line' = Tail(line) /\ turn' = turn \cup {c}
  /\ UNCHANGED <<loan, spare, shut>>

\* Out of the line, or out of turn, with nothing.
LeavesLine(i) ==
  /\ line' = SubSeq(line, 1, i - 1) \o SubSeq(line, i + 1, Len(line))
  /\ UNCHANGED <<turn, loan, spare, shut>>

GivesUp(c) ==
  /\ c \in turn /\ turn' = turn \ {c}
  /\ UNCHANGED <<line, loan, spare, shut>>

\* Spare sessions may go at any time, and whenever one is lent.
Borrow(c) ==
  /\ c \in turn /\ turn' = turn \ {c}
  /\ \E s \in spare : loan' = [loan EXCEPT ![c] = s] /\ spare' \subseteq spare \ {s}
  /\ UNCHANGED <<line, shut>>

\* A session is opened when those spare have gone, and never beyond what there may be.
OpenFor(c) ==
  /\ c \in turn /\ turn' = turn \ {c}
  /\ Cardinality(Borrowers) < Most
  /\ loan' = [loan EXCEPT ![c] = "opening"] /\ spare' = {}
  /\ UNCHANGED <<line, shut>>

Opened(c) ==
  /\ loan[c] = "opening"
  /\ \E s \in Sessions \ (Lent \cup spare) : loan' = [loan EXCEPT ![c] = s]
  /\ UNCHANGED <<line, turn, spare, shut>>

GiveBack(c) ==
  /\ loan[c] \in Sessions
  /\ loan' = [loan EXCEPT ![c] = Nothing] /\ spare' = spare \cup {loan[c]}
  /\ UNCHANGED <<line, turn, shut>>

\* The session is closed, or was never opened.
CloseLent(c) ==
  /\ c \in Borrowers
  /\ loan' = [loan EXCEPT ![c] = Nothing]
  /\ UNCHANGED <<line, turn, spare, shut>>

CloseSpare ==
  /\ spare' \subseteq spare
  /\ UNCHANGED <<line, turn, loan, shut>>

Shut ==
  /\ ~shut /\ shut' = TRUE /\ spare' = {}
  /\ UNCHANGED <<line, turn, loan>>

Next ==
  \/ Shut \/ CloseSpare
  \/ \E i \in DOMAIN line : LeavesLine(i)
  \/ \E c \in Clients :
       \/ Join(c) \/ Serve(c) \/ GivesUp(c) \/ Borrow(c) \/ OpenFor(c) \/ Opened(c)
       \/ GiveBack(c) \/ CloseLent(c)

Spec == Init /\ [][Next]_loansVars
=============================================================================
