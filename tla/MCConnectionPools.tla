------------------------ MODULE MCConnectionPools ------------------------
(***************************************************************************)
(* Instances of ConnectionPools for TLC.                                   *)
(***************************************************************************)
EXTENDS ConnectionPools, TLC

AnyServer == CHOOSE s \in Servers : TRUE
AnyProfile == CHOOSE p \in Profiles : TRUE

OneServer == [p \in Profiles |-> AnyServer]
AllSql == [p \in Profiles |-> "sql"]
SomeProfile == CHOOSE p \in Profiles : p # AnyProfile
OneOfEach ==
  [p \in Profiles |-> CASE p = AnyProfile -> "mongo" [] p = SomeProfile -> "sqlite"
                        [] OTHER -> "sql"]

\* Room for a top-level pool of 2 and one view of 2.
TightBudget == [p \in Profiles |-> 4]
\* Two profiles of one server with budgets that disagree: one has room for a
\* pool of 5 and a view, the other only for what the first leaves.
SevenAndFour == [p \in Profiles |-> IF p = AnyProfile THEN 4 ELSE 7]
\* Room for one pool: whoever opens a second one has to close the first.
OnePoolBudget == [p \in Profiles |-> 3]
\* Ample for the profiles that hold SQL pools, tight for the others.
AmpleForSql == [p \in Profiles |-> IF p \in {AnyProfile, SomeProfile} THEN 4 ELSE 12]
\* Room for every pool of the instance.
AmpleBudget == [p \in Profiles |-> 12]

\* One behaviour is about the SQL profile alone, or about the others: those with one
\* database each, and with no pool of the bridge.
InUse(ps) == \/ \E i \in PoolIds : pool[i].home \in ps
             \/ \E t \in Tasks : arg[t].p \in ps
OneKind ==
  LET others == {AnyProfile, SomeProfile}
      second == Databases \ {CHOOSE d \in Databases : TRUE}
  IN InUse(others) =>
       /\ ~InUse(Profiles \ others)
       /\ \A t \in Tasks : arg[t].origin # "Bridge" /\ arg[t].d \notin second
       /\ \A p \in others, d \in second : registry[View(p, d)] = None

\* The pool ids of an instance never hold a task back.
IdsSuffice == Fresh # {}

\* Workers are alike, and so are databases.
Interchangeable == Permutations(Workers) \cup Permutations(Databases)
=============================================================================
