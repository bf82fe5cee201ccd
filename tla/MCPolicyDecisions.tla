-------------------------- MODULE MCPolicyDecisions --------------------------
(***************************************************************************)
(* Instances of PolicyDecisions for TLC.                                   *)
(***************************************************************************)
EXTENDS PolicyDecisions

CONSTANTS dbA, dbB  \* members of Databases

Plain == [schema |-> NoDatabase, name |-> "invoices"]
Qualified == [schema |-> dbA, name |-> "invoices"]
NamedRelations == {Plain, Qualified, [schema |-> dbB, name |-> "payroll"]}

Reading == [NoGrant EXCEPT !.verbs = {"select"}]
Filling == [NoGrant EXCEPT !.verbs = {"select", "insert"}, !.export = TRUE]
Shaping == [NoGrant EXCEPT !.verbs = {"ddl"}, !.monitor = TRUE]

\* What a rule gives the person, and the AI.
Pairs == {<<NoGrant, Reading>>, <<Reading, Reading>>, <<Filling, Shaping>>, <<Shaping, Shaping>>,
          <<[NoGrant EXCEPT !.export = TRUE], Filling>>}

Limits == {<<NoLimit, {}>>, <<{Plain, Qualified}, {}>>, <<NoLimit, {Qualified}>>}

RulesTried ==
  {[databases |-> d, allow |-> l[1], deny |-> l[2], human |-> g[1], ai |-> g[2]] :
     d \in {NoLimit, {dbA}}, l \in Limits, g \in Pairs}

\* At most two rules name the server.
ContextsTried ==
  {c \in [rules : {{}} \cup {{q, r} : q, r \in RulesTried}, leftAlone : BOOLEAN,
          subject : Subjects, database : Databases \cup {NoDatabase}, view : BOOLEAN,
          schemaIsDatabase : BOOLEAN] :
     /\ c.leftAlone => c.rules = {}
     /\ c.view => c.database # NoDatabase}
=============================================================================
