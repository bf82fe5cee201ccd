-------------------------- MODULE EndpointLedger --------------------------
(***************************************************************************)
(* What the registry of endpoint budgets promises, whoever uses it: a      *)
(* ledger of grants, each entered when there is room for it on its server  *)
(* under some budget, and struck out once.                                 *)
(***************************************************************************)
EXTENDS Integers, FiniteSets

CONSTANTS
  Grants,    \* identities of grants
  Servers,   \* endpoint keys
  Budgets    \* Servers -> SUBSET Nat: the budgets reservations may quote

VARIABLE entries   \* the grants given: which, on what server, of how many connections

\* The connections granted on a server: a grant of n is n of them.
Granted(s) == UNION {{e.grant} \X (1..e.amount) : e \in {f \in entries : f.server = s}}

Outstanding(s) == Cardinality(Granted(s))

Init == entries = {}

\* EndpointRegistry::reserve trims a request to the room its budget leaves.
Reserve(g, s, amount) ==
  /\ \A e \in entries : e.grant # g
  /\ \E budget \in Budgets[s] : Outstanding(s) + amount <= budget
  /\ entries' = entries \cup {[grant |-> g, server |-> s, amount |-> amount]}

\* EndpointGrant is dropped.
Release(e) == entries' = entries \ {e}

Next ==
  \/ \E e \in entries : Release(e)
  \/ \E g \in Grants, s \in Servers : \E budget \in Budgets[s] :
       \E amount \in 1..budget : Reserve(g, s, amount)

Spec == Init /\ [][Next]_entries
=============================================================================
