--------------------------- MODULE PolicyDecisions ---------------------------
(***************************************************************************)
(* What a policy lets somebody do (policy/resolve.rs), and what the        *)
(* interface shows as locked (policy/enforce.rs, lib/policy/access.ts).    *)
(*                                                                         *)
(* The rules here are those of the user's role whose endpoint matches the  *)
(* connection.  A glob is the set of what it matches.                      *)
(***************************************************************************)
CONSTANTS
  Databases,   \* the server's databases, whose names MySQL gives its schemas
  Relations,   \* records with a schema, or NoDatabase, and a name
  NoDatabase,  \* where a connection or a name says no database
  NoLimit,     \* where a rule says no databases, or no relations it allows
  Contexts,    \* who may ask, about which connection (see Askable)
  NoOne        \* nobody has asked yet

VARIABLE asker  \* whose request is being decided

Verbs == {"select", "insert", "update", "delete", "ddl"}
Grants == [verbs : SUBSET Verbs, export : BOOLEAN, monitor : BOOLEAN]
NoGrant == [verbs |-> {}, export |-> FALSE, monitor |-> FALSE]
Everything == [verbs |-> Verbs, export |-> TRUE, monitor |-> TRUE]

Rules == [databases : (SUBSET Databases) \cup {NoLimit},
          allow : (SUBSET Relations) \cup {NoLimit}, deny : SUBSET Relations,
          human : Grants, ai : Grants]

Subjects == {"Human", "Ai"}

\* Who asks, about which connection: the rules that name its server, whether the document
\* leaves a server no rule names alone, the database the connection is of, whether its id
\* says so (a view), and whether the engine calls its databases schemas.
Askable == [rules : SUBSET Rules, leftAlone : BOOLEAN, subject : Subjects,
            database : Databases \cup {NoDatabase}, view : BOOLEAN,
            schemaIsDatabase : BOOLEAN]

ASSUME ContextsAssumption ==
  /\ Contexts \subseteq Askable
  /\ NoOne \notin Contexts
  /\ \A c \in Contexts : c.view => c.database # NoDatabase

Intersect(g, h) == [verbs |-> g.verbs \cap h.verbs, export |-> g.export /\ h.export,
                    monitor |-> g.monitor /\ h.monitor]

GrantFor(r, subject) == IF subject = "Human" THEN r.human ELSE Intersect(r.ai, r.human)

\* Mutant: a rule that denies relations is not taken for narrower than its server.
IsScopedByAllowance(r) == r.databases # NoLimit \/ r.allow # NoLimit

IsScoped(r) == r.databases # NoLimit \/ r.allow # NoLimit \/ r.deny # {}

Grant(c, r) == GrantFor(r, c.subject)

Unmanaged(c) == c.rules = {} /\ c.leftAlone

DatabaseMatches(r, db) ==
  r.databases = NoLimit \/ (db # NoDatabase /\ db \in r.databases)

RelationAllowed(r, rel) == rel \notin r.deny /\ (r.allow = NoLimit \/ rel \in r.allow)

RulesForDatabase(c, db) == {r \in c.rules : DatabaseMatches(r, db)}

\* A qualified name says which database it is in where schemas are databases.
DatabaseFor(c, rel) ==
  IF c.schemaIsDatabase /\ rel.schema # NoDatabase THEN rel.schema ELSE c.database

Reachable(c, rules) == \E r \in rules : Grant(c, r) # NoGrant

(* decide, one operator for each need. *)
MayUseEndpoint(c) == Unmanaged(c) \/ Reachable(c, c.rules)

MayUseDatabase(c, db) == Unmanaged(c) \/ Reachable(c, RulesForDatabase(c, db))

Covering(c, rel) ==
  {r \in RulesForDatabase(c, DatabaseFor(c, rel)) : RelationAllowed(r, rel)}

MayUseRelation(c, rel, verbs) ==
  Unmanaged(c) \/ \E r \in Covering(c, rel) : verbs \subseteq Grant(c, r).verbs

MayExport(c, rel) ==
  Unmanaged(c) \/ \E r \in Covering(c, rel) : Grant(c, r).export /\ "select" \in Grant(c, r).verbs

MayChangeDatabase(c, db) ==
  Unmanaged(c) \/ \E r \in RulesForDatabase(c, db) : "ddl" \in Grant(c, r).verbs

MayRunFreely(c, verbs) ==
  \/ Unmanaged(c)
  \/ \E r \in RulesForDatabase(c, c.database) : ~IsScoped(r) /\ verbs \subseteq Grant(c, r).verbs

MayMonitor(c) == Unmanaged(c) \/ \E r \in c.rules : Grant(c, r).monitor

(* What discovery lists and the interface offers. *)
UnionOf(c, rules) == [verbs |-> UNION {Grant(c, r).verbs : r \in rules},
                      export |-> \E r \in rules : Grant(c, r).export,
                      monitor |-> \E r \in rules : Grant(c, r).monitor]

RelationGrant(c, rel) ==
  IF Unmanaged(c) THEN Everything ELSE UnionOf(c, Covering(c, rel))

RelationVisible(c, rel) == RelationGrant(c, rel) # NoGrant

DatabaseGrant(c) ==
  IF Unmanaged(c) THEN Everything ELSE UnionOf(c, RulesForDatabase(c, c.database))

FreeSqlBlocked(c) ==
  /\ ~Unmanaged(c)
  /\ \A r \in RulesForDatabase(c, c.database) : IsScoped(r) \/ "select" \notin Grant(c, r).verbs

ConnectionAccess(c) ==
  LET visible == MayUseEndpoint(c) /\ (c.view => MayUseDatabase(c, c.database)) IN
  [managed |-> ~Unmanaged(c), visible |-> visible, freeSql |-> visible /\ ~FreeSqlBlocked(c),
   grant |-> IF visible THEN DatabaseGrant(c) ELSE NoGrant,
   monitor |-> visible /\ MayMonitor(c)]

RelationAccess(c, rel) ==
  LET g == RelationGrant(c, rel) IN
  [visible |-> RelationVisible(c, rel), verbs |-> g.verbs,
   export |-> g.export /\ "select" \in g.verbs]

\* lockFor, once the answers about the connection and the relation are there: needs that are
\* not about a relation, verbs on one, and export.
Locked(conn, allowed) == ~conn.visible \/ (conn.managed /\ ~allowed)

FreeSqlLocked(c) == Locked(ConnectionAccess(c), ConnectionAccess(c).freeSql)

MonitorLocked(c) == Locked(ConnectionAccess(c), ConnectionAccess(c).monitor)

VerbLocked(c, rel, verb) ==
  LET conn == ConnectionAccess(c)
      access == RelationAccess(c, rel)
  IN Locked(conn, verb \in conn.grant.verbs /\ access.visible /\ verb \in access.verbs)

ExportLocked(c, rel) ==
  Locked(ConnectionAccess(c), ConnectionAccess(c).grant.export /\ RelationAccess(c, rel).export)

(* One request after the other is decided, each under the policy then in force. *)
PolicyDecisionsInit == asker = NoOne

Pose == asker = NoOne /\ asker' \in Contexts

Reply == asker # NoOne /\ asker' = NoOne

PolicyDecisionsNext == Pose \/ Reply

PolicyDecisionsSpec == PolicyDecisionsInit /\ [][PolicyDecisionsNext]_asker

PolicyDecisionsTypeOK == asker \in Contexts \cup {NoOne}

-----------------------------------------------------------------------------
(* What these decisions promise, for one context. *)

\* What the policy hides is out of reach: a relation that is not listed may not be used in
\* any way, and who may use one may use its database and its server.
HiddenIsRefused(c) ==
  \A rel \in Relations :
    /\ ~RelationVisible(c, rel) =>
         ~MayExport(c, rel) /\ \A verb \in Verbs : ~MayUseRelation(c, rel, {verb})
    /\ RelationVisible(c, rel) =>
         MayUseDatabase(c, DatabaseFor(c, rel)) /\ MayUseEndpoint(c)

\* Free SQL reaches nothing that the same verbs may not reach by name, in any database.
FreeSqlStaysWithin(c) ==
  \A verbs \in SUBSET Verbs : MayRunFreely(c, verbs) =>
    \A rel \in Relations : MayUseRelation(c, rel, verbs)

\* The AI may do nothing the person it acts for may not.
AiStaysWithin(c) ==
  LET person == [c EXCEPT !.subject = "Human"] IN
  c.subject = "Ai" =>
    /\ MayUseEndpoint(c) => MayUseEndpoint(person)
    /\ MayMonitor(c) => MayMonitor(person)
    /\ \A db \in Databases : /\ MayUseDatabase(c, db) => MayUseDatabase(person, db)
                             /\ MayChangeDatabase(c, db) => MayChangeDatabase(person, db)
    /\ \A verbs \in SUBSET Verbs :
         /\ MayRunFreely(c, verbs) => MayRunFreely(person, verbs)
         /\ \A rel \in Relations :
              MayUseRelation(c, rel, verbs) => MayUseRelation(person, rel, verbs)
    /\ \A rel \in Relations : MayExport(c, rel) => MayExport(person, rel)

\* A control is locked when the command behind it would refuse, and only then; about a
\* relation, when it is in the database the connection is of.  (Monitoring and export are
\* looser: a view of a hidden database locks what its server would answer, and export may be
\* offered where select and export come from different rules.)
LocksTell(c) ==
  c.subject = "Human" =>
    /\ FreeSqlLocked(c) <=> ~MayRunFreely(c, {"select"})
    /\ ~MonitorLocked(c) => MayMonitor(c)
    /\ \A rel \in Relations : DatabaseFor(c, rel) = c.database =>
         /\ \A verb \in Verbs : VerbLocked(c, rel, verb) <=> ~MayUseRelation(c, rel, {verb})
         /\ MayExport(c, rel) => ~ExportLocked(c, rel)

\* The decisions fit together: what is hidden is refused, free SQL and the AI stay within
\* what is granted by name and to the person, and the interface shows locked what would
\* be refused.
DecisionsCohere ==
  asker # NoOne =>
    HiddenIsRefused(asker) /\ FreeSqlStaysWithin(asker) /\ AiStaysWithin(asker) /\ LocksTell(asker)
=============================================================================
