---------------------------- MODULE PolicyProofs ----------------------------
(***************************************************************************)
(* The decisions taken in one context agree, for any server, rules and     *)
(* contexts, and a window at rest shows the policy in force and its locks, *)
(* for any number of windows, policies and reads of it.                    *)
(***************************************************************************)
EXTENDS PolicyDecisions, PolicyReload, QueueFacts

(***************************************************************************)
(* The decisions: nothing here depends on a step; each promise is about    *)
(* decisions taken in one context, and holds of every context there is.    *)
(***************************************************************************)

\* A grant that holds anything is not the empty one.
LEMMA GrantsSomething ==
  ASSUME NEW g, g.verbs # {} \/ g.export \/ g.monitor
  PROVE  g # NoGrant
BY DEF NoGrant

\* A rule that reaches a database reaches its server.
LEMMA DatabaseReachesEndpoint ==
  ASSUME NEW c, NEW db, MayUseDatabase(c, db)
  PROVE  MayUseEndpoint(c)
BY DEF MayUseDatabase, MayUseEndpoint, Reachable, RulesForDatabase

-----------------------------------------------------------------------------
(* What is hidden is refused.                                              *)

\* Of a relation no rule shows, no verb is granted and neither is its export.
LEMMA HiddenGrantsNothing ==
  ASSUME NEW c \in Askable, NEW rel, ~RelationVisible(c, rel)
  PROVE  /\ ~Unmanaged(c)
         /\ \A r \in Covering(c, rel) : Grant(c, r).verbs = {} /\ ~Grant(c, r).export
<1>1. ~Unmanaged(c)
  <2>1. Everything # NoGrant
    BY DEF Everything, NoGrant, Verbs
  <2> QED
    BY <2>1 DEF RelationVisible, RelationGrant
<1>2. UnionOf(c, Covering(c, rel)) = NoGrant
  BY <1>1 DEF RelationVisible, RelationGrant
<1>3. /\ UNION {Grant(c, r).verbs : r \in Covering(c, rel)} = {}
      /\ ~\E r \in Covering(c, rel) : Grant(c, r).export
  BY <1>2 DEF UnionOf, NoGrant
<1>4. \A r \in Covering(c, rel) : Grant(c, r).verbs = {}
  BY <1>3
<1> QED
  BY <1>1, <1>3, <1>4

\* A relation some rule shows is in a database that may be used.
LEMMA VisibleIsReachable ==
  ASSUME NEW c \in Askable, NEW rel, RelationVisible(c, rel)
  PROVE  MayUseDatabase(c, DatabaseFor(c, rel)) /\ MayUseEndpoint(c)
<1>1. CASE Unmanaged(c)
  BY <1>1 DEF MayUseDatabase, MayUseEndpoint
<1>2. CASE ~Unmanaged(c)
  <2>1. UnionOf(c, Covering(c, rel)) # NoGrant
    BY <1>2 DEF RelationVisible, RelationGrant
  <2>2. PICK r \in Covering(c, rel) : Grant(c, r) # NoGrant
    <3>1. SUFFICES ASSUME \A r \in Covering(c, rel) : Grant(c, r) = NoGrant
                   PROVE  FALSE
      OBVIOUS
    <3>2. UNION {Grant(c, r).verbs : r \in Covering(c, rel)} = {}
      BY <3>1 DEF NoGrant
    <3>3. (\E r \in Covering(c, rel) : Grant(c, r).export) = FALSE
      BY <3>1 DEF NoGrant
    <3>4. (\E r \in Covering(c, rel) : Grant(c, r).monitor) = FALSE
      BY <3>1 DEF NoGrant
    <3> QED
      BY <2>1, <3>2, <3>3, <3>4 DEF UnionOf, NoGrant
  <2>3. r \in RulesForDatabase(c, DatabaseFor(c, rel))
    BY DEF Covering
  <2>4. MayUseDatabase(c, DatabaseFor(c, rel))
    BY <2>2, <2>3 DEF MayUseDatabase, Reachable
  <2> QED
    BY <2>4, DatabaseReachesEndpoint
<1> QED
  BY <1>1, <1>2

LEMMA HiddenRefused ==
  ASSUME NEW c \in Askable
  PROVE  HiddenIsRefused(c)
<1> SUFFICES ASSUME NEW rel \in Relations
             PROVE  /\ ~RelationVisible(c, rel) =>
                         /\ ~MayExport(c, rel)
                         /\ \A verb \in Verbs : ~MayUseRelation(c, rel, {verb})
                    /\ RelationVisible(c, rel) =>
                         MayUseDatabase(c, DatabaseFor(c, rel)) /\ MayUseEndpoint(c)
  BY DEF HiddenIsRefused
<1>1. ASSUME ~RelationVisible(c, rel)
      PROVE  ~MayExport(c, rel) /\ \A verb \in Verbs : ~MayUseRelation(c, rel, {verb})
  <2>1. /\ ~Unmanaged(c)
        /\ \A r \in Covering(c, rel) : Grant(c, r).verbs = {} /\ ~Grant(c, r).export
    BY <1>1, HiddenGrantsNothing
  <2> QED
    BY <2>1 DEF MayExport, MayUseRelation
<1> QED
  BY <1>1, VisibleIsReachable

-----------------------------------------------------------------------------
(* Free SQL reaches nothing that is not granted by name.                   *)

LEMMA FreeSqlWithin ==
  ASSUME NEW c \in Askable
  PROVE  FreeSqlStaysWithin(c)
<1> SUFFICES ASSUME NEW verbs \in SUBSET Verbs, MayRunFreely(c, verbs),
                    NEW rel \in Relations, ~Unmanaged(c)
             PROVE  MayUseRelation(c, rel, verbs)
  BY DEF FreeSqlStaysWithin, MayUseRelation
<1>1. PICK r \in RulesForDatabase(c, c.database) :
        ~IsScoped(r) /\ verbs \subseteq Grant(c, r).verbs
  BY DEF MayRunFreely
<1>2. r.databases = NoLimit /\ r.allow = NoLimit /\ r.deny = {}
  BY <1>1 DEF IsScoped
<1>3. r \in Covering(c, rel)
  BY <1>1, <1>2 DEF Covering, RulesForDatabase, DatabaseMatches, RelationAllowed
<1> QED
  BY <1>1, <1>3 DEF MayUseRelation

-----------------------------------------------------------------------------
(* The AI may do nothing the person it acts for may not.                   *)

Person(c) == [c EXCEPT !.subject = "Human"]

\* Only who asks is different, so the same rules apply, about the same databases.
LEMMA PersonAlike ==
  ASSUME NEW c \in Askable
  PROVE  /\ Person(c) \in Askable
         /\ Person(c).subject = "Human"
         /\ Person(c).rules = c.rules /\ Person(c).database = c.database
         /\ Unmanaged(Person(c)) = Unmanaged(c)
         /\ \A db : RulesForDatabase(Person(c), db) = RulesForDatabase(c, db)
         /\ \A rel : DatabaseFor(Person(c), rel) = DatabaseFor(c, rel)
         /\ \A rel : Covering(Person(c), rel) = Covering(c, rel)
<1>1. /\ Person(c) \in Askable
      /\ Person(c).subject = "Human"
      /\ Person(c).rules = c.rules /\ Person(c).database = c.database
      /\ Person(c).leftAlone = c.leftAlone /\ Person(c).schemaIsDatabase = c.schemaIsDatabase
  BY DEF Person, Askable, Subjects
<1>2. \A db : RulesForDatabase(Person(c), db) = RulesForDatabase(c, db)
  BY <1>1 DEF RulesForDatabase
<1>3. \A rel : DatabaseFor(Person(c), rel) = DatabaseFor(c, rel)
  BY <1>1 DEF DatabaseFor
<1>4. \A rel : Covering(Person(c), rel) = Covering(c, rel)
  BY <1>2, <1>3 DEF Covering
<1>5. Unmanaged(Person(c)) = Unmanaged(c)
  BY <1>1 DEF Unmanaged
<1> QED
  BY <1>1, <1>2, <1>3, <1>4, <1>5

\* A rule gives the AI no more than it gives the person.
LEMMA PersonHasMore ==
  ASSUME NEW c \in Askable, c.subject = "Ai", NEW r \in c.rules
  PROVE  /\ Grant(c, r).verbs \subseteq Grant(Person(c), r).verbs
         /\ Grant(c, r).export => Grant(Person(c), r).export
         /\ Grant(c, r).monitor => Grant(Person(c), r).monitor
         /\ Grant(c, r) # NoGrant => Grant(Person(c), r) # NoGrant
<1>1. Grant(c, r) = Intersect(r.ai, r.human)
  BY DEF Grant, GrantFor
<1>2. Grant(Person(c), r) = r.human
  BY PersonAlike DEF Grant, GrantFor
<1>3. /\ Grant(c, r).verbs = r.ai.verbs \cap r.human.verbs
      /\ Grant(c, r).export = (r.ai.export /\ r.human.export)
      /\ Grant(c, r).monitor = (r.ai.monitor /\ r.human.monitor)
  BY <1>1 DEF Intersect
<1>4. ASSUME r.human = NoGrant
      PROVE  Grant(c, r) = NoGrant
  <2>1. r.human.verbs = {} /\ ~r.human.export /\ ~r.human.monitor
    BY <1>4 DEF NoGrant
  <2>2. r.ai.verbs \cap r.human.verbs = {}
    BY <2>1
  <2>3. (r.ai.export /\ r.human.export) = FALSE
    BY <2>1
  <2>4. (r.ai.monitor /\ r.human.monitor) = FALSE
    BY <2>1
  <2> QED
    BY <1>1, <2>2, <2>3, <2>4 DEF Intersect, NoGrant
<1> QED
  BY <1>2, <1>3, <1>4

LEMMA AiWithin ==
  ASSUME NEW c \in Askable
  PROVE  AiStaysWithin(c)
<1> DEFINE person == [c EXCEPT !.subject = "Human"]
<1> SUFFICES ASSUME c.subject = "Ai"
             PROVE  /\ MayUseEndpoint(c) => MayUseEndpoint(person)
                    /\ MayMonitor(c) => MayMonitor(person)
                    /\ \A db \in Databases :
                         /\ MayUseDatabase(c, db) => MayUseDatabase(person, db)
                         /\ MayChangeDatabase(c, db) => MayChangeDatabase(person, db)
                    /\ \A verbs \in SUBSET Verbs :
                         /\ MayRunFreely(c, verbs) => MayRunFreely(person, verbs)
                         /\ \A rel \in Relations :
                              MayUseRelation(c, rel, verbs) => MayUseRelation(person, rel, verbs)
                    /\ \A rel \in Relations : MayExport(c, rel) => MayExport(person, rel)
  BY DEF AiStaysWithin
<1>1. person = Person(c)
  BY DEF Person
<1> HIDE DEF person
<1>2. /\ person.rules = c.rules /\ person.database = c.database
      /\ Unmanaged(person) = Unmanaged(c)
      /\ \A db : RulesForDatabase(person, db) = RulesForDatabase(c, db)
      /\ \A rel : Covering(person, rel) = Covering(c, rel)
  BY <1>1, PersonAlike
<1>3. \A r \in c.rules : /\ Grant(c, r).verbs \subseteq Grant(person, r).verbs
                         /\ Grant(c, r).export => Grant(person, r).export
                         /\ Grant(c, r).monitor => Grant(person, r).monitor
                         /\ Grant(c, r) # NoGrant => Grant(person, r) # NoGrant
  BY <1>1, PersonHasMore
<1>4. \A db : RulesForDatabase(c, db) \subseteq c.rules
  BY DEF RulesForDatabase
<1>5. \A rel : Covering(c, rel) \subseteq c.rules
  BY <1>4 DEF Covering
<1>6. MayUseEndpoint(c) => MayUseEndpoint(person)
  BY <1>2, <1>3 DEF MayUseEndpoint, Reachable
<1>7. MayMonitor(c) => MayMonitor(person)
  BY <1>2, <1>3 DEF MayMonitor
<1>8. ASSUME NEW db \in Databases
      PROVE  /\ MayUseDatabase(c, db) => MayUseDatabase(person, db)
             /\ MayChangeDatabase(c, db) => MayChangeDatabase(person, db)
  <2>1. MayUseDatabase(c, db) => MayUseDatabase(person, db)
    BY <1>2, <1>3, <1>4 DEF MayUseDatabase, Reachable
  <2>2. MayChangeDatabase(c, db) => MayChangeDatabase(person, db)
    BY <1>2, <1>3, <1>4 DEF MayChangeDatabase
  <2> QED
    BY <2>1, <2>2
<1>9. ASSUME NEW verbs \in SUBSET Verbs
      PROVE  /\ MayRunFreely(c, verbs) => MayRunFreely(person, verbs)
             /\ \A rel \in Relations :
                  MayUseRelation(c, rel, verbs) => MayUseRelation(person, rel, verbs)
  <2>1. MayRunFreely(c, verbs) => MayRunFreely(person, verbs)
    BY <1>2, <1>3, <1>4 DEF MayRunFreely
  <2>2. ASSUME NEW rel \in Relations
        PROVE  MayUseRelation(c, rel, verbs) => MayUseRelation(person, rel, verbs)
    BY <1>2, <1>3, <1>5 DEF MayUseRelation
  <2> QED
    BY <2>1, <2>2
<1>10. ASSUME NEW rel \in Relations
       PROVE  MayExport(c, rel) => MayExport(person, rel)
  BY <1>2, <1>3, <1>5 DEF MayExport
<1> QED
  BY <1>6, <1>7, <1>8, <1>9, <1>10

-----------------------------------------------------------------------------
(* What is locked would be refused, and the other way round.               *)

\* A connection no rule governs is open, and says so.
LEMMA UnmanagedAccess ==
  ASSUME NEW c \in Askable, Unmanaged(c)
  PROVE  /\ ConnectionAccess(c).visible /\ ~ConnectionAccess(c).managed
         /\ MayMonitor(c)
         /\ \A verbs : MayRunFreely(c, verbs)
         /\ \A rel, verbs : MayUseRelation(c, rel, verbs)
<1>1. MayUseEndpoint(c) /\ MayUseDatabase(c, c.database)
  BY DEF MayUseEndpoint, MayUseDatabase
<1>2. ConnectionAccess(c).visible /\ ~ConnectionAccess(c).managed
  BY <1>1 DEF ConnectionAccess
<1> QED
  BY <1>2 DEF MayMonitor, MayRunFreely, MayUseRelation

\* A rule that grants something in the connection's database makes the connection visible.
LEMMA GrantedIsVisible ==
  ASSUME NEW c \in Askable, NEW r \in RulesForDatabase(c, c.database), Grant(c, r) # NoGrant
  PROVE  ConnectionAccess(c).visible /\ ConnectionAccess(c).grant = DatabaseGrant(c)
<1>1. MayUseDatabase(c, c.database)
  BY DEF MayUseDatabase, Reachable
<1>2. MayUseEndpoint(c)
  BY <1>1, DatabaseReachesEndpoint
<1> QED
  BY <1>1, <1>2 DEF ConnectionAccess

LEMMA FreeSqlLockTells ==
  ASSUME NEW c \in Askable
  PROVE  FreeSqlLocked(c) <=> ~MayRunFreely(c, {"select"})
<1>1. CASE Unmanaged(c)
  BY <1>1, UnmanagedAccess DEF FreeSqlLocked, Locked
<1>2. CASE ~Unmanaged(c)
  <2>1. MayRunFreely(c, {"select"}) <=> ~FreeSqlBlocked(c)
    BY <1>2 DEF MayRunFreely, FreeSqlBlocked
  <2>2. ASSUME ~FreeSqlBlocked(c)
        PROVE  ConnectionAccess(c).visible
    <3>1. PICK r \in RulesForDatabase(c, c.database) : "select" \in Grant(c, r).verbs
      BY <1>2, <2>2 DEF FreeSqlBlocked
    <3> QED
      BY <3>1, GrantsSomething, GrantedIsVisible
  <2>3. /\ ConnectionAccess(c).managed
        /\ ConnectionAccess(c).freeSql <=> ConnectionAccess(c).visible /\ ~FreeSqlBlocked(c)
    BY <1>2 DEF ConnectionAccess
  <2> QED
    BY <2>1, <2>2, <2>3 DEF FreeSqlLocked, Locked
<1> QED
  BY <1>1, <1>2

LEMMA MonitorLockTells ==
  ASSUME NEW c \in Askable, ~MonitorLocked(c)
  PROVE  MayMonitor(c)
<1>1. CASE Unmanaged(c)
  BY <1>1, UnmanagedAccess
<1>2. CASE ~Unmanaged(c)
  <2>1. ConnectionAccess(c).managed /\ (ConnectionAccess(c).monitor => MayMonitor(c))
    BY <1>2 DEF ConnectionAccess
  <2> QED
    BY <2>1 DEF MonitorLocked, Locked
<1> QED
  BY <1>1, <1>2

\* A rule that covers a relation of the connection's database, and grants something, shows
\* both, and its grant is part of what is said of both.
LEMMA CoveringRuleShows ==
  ASSUME NEW c \in Askable, ~Unmanaged(c), NEW rel, DatabaseFor(c, rel) = c.database,
         NEW r \in Covering(c, rel), Grant(c, r).verbs # {}
  PROVE  /\ ConnectionAccess(c).visible
         /\ RelationAccess(c, rel).visible
         /\ Grant(c, r).verbs \subseteq ConnectionAccess(c).grant.verbs
         /\ Grant(c, r).verbs \subseteq RelationAccess(c, rel).verbs
         /\ Grant(c, r).export =>
              ConnectionAccess(c).grant.export /\ RelationGrant(c, rel).export
<1>1. r \in RulesForDatabase(c, c.database)
  BY DEF Covering
<1>2. ConnectionAccess(c).visible /\ ConnectionAccess(c).grant = DatabaseGrant(c)
  BY <1>1, GrantsSomething, GrantedIsVisible
<1>3. DatabaseGrant(c) = UnionOf(c, RulesForDatabase(c, c.database))
  BY DEF DatabaseGrant
<1>4. RelationGrant(c, rel) = UnionOf(c, Covering(c, rel))
  BY DEF RelationGrant
<1>5. ASSUME NEW rules, r \in rules
      PROVE  /\ Grant(c, r).verbs \subseteq UnionOf(c, rules).verbs
             /\ Grant(c, r).export => UnionOf(c, rules).export
  <2>1. Grant(c, r).verbs \subseteq UNION {Grant(c, q).verbs : q \in rules}
    BY <1>5
  <2> QED
    BY <1>5, <2>1 DEF UnionOf
<1>6. Grant(c, r).verbs \subseteq ConnectionAccess(c).grant.verbs
  BY <1>1, <1>2, <1>3, <1>5
<1>7. Grant(c, r).verbs \subseteq RelationGrant(c, rel).verbs
  BY <1>4, <1>5
<1>8. RelationVisible(c, rel)
  BY <1>7, GrantsSomething DEF RelationVisible
<1>9. Grant(c, r).export => ConnectionAccess(c).grant.export /\ RelationGrant(c, rel).export
  BY <1>1, <1>2, <1>3, <1>4, <1>5
<1>10. /\ RelationAccess(c, rel).visible = RelationVisible(c, rel)
       /\ RelationAccess(c, rel).verbs = RelationGrant(c, rel).verbs
  BY DEF RelationAccess
<1> QED
  BY <1>2, <1>6, <1>7, <1>8, <1>9, <1>10

LEMMA VerbLockTells ==
  ASSUME NEW c \in Askable, NEW rel, DatabaseFor(c, rel) = c.database, NEW verb
  PROVE  VerbLocked(c, rel, verb) <=> ~MayUseRelation(c, rel, {verb})
<1>1. CASE Unmanaged(c)
  BY <1>1, UnmanagedAccess DEF VerbLocked, Locked
<1>2. CASE ~Unmanaged(c)
  <2>1. MayUseRelation(c, rel, {verb}) <=>
          \E r \in Covering(c, rel) : verb \in Grant(c, r).verbs
    BY <1>2 DEF MayUseRelation
  <2>2. ASSUME NEW r \in Covering(c, rel), verb \in Grant(c, r).verbs
        PROVE  ~VerbLocked(c, rel, verb)
    BY <1>2, <2>2, CoveringRuleShows DEF VerbLocked, Locked
  <2>3. ASSUME ~VerbLocked(c, rel, verb)
        PROVE  \E r \in Covering(c, rel) : verb \in Grant(c, r).verbs
    <3>1. ConnectionAccess(c).managed
      BY <1>2 DEF ConnectionAccess
    <3>2. verb \in RelationAccess(c, rel).verbs
      BY <2>3, <3>1 DEF VerbLocked, Locked
    <3>3. verb \in UnionOf(c, Covering(c, rel)).verbs
      BY <1>2, <3>2 DEF RelationAccess, RelationGrant
    <3>4. verb \in UNION {Grant(c, r).verbs : r \in Covering(c, rel)}
      BY <3>3 DEF UnionOf
    <3> QED
      BY <3>4
  <2> QED
    BY <2>1, <2>2, <2>3
<1> QED
  BY <1>1, <1>2

LEMMA ExportLockTells ==
  ASSUME NEW c \in Askable, NEW rel, DatabaseFor(c, rel) = c.database, MayExport(c, rel)
  PROVE  ~ExportLocked(c, rel)
<1>1. CASE Unmanaged(c)
  BY <1>1, UnmanagedAccess DEF ExportLocked, Locked
<1>2. CASE ~Unmanaged(c)
  <2>1. PICK r \in Covering(c, rel) : Grant(c, r).export /\ "select" \in Grant(c, r).verbs
    BY <1>2 DEF MayExport
  <2>2. /\ ConnectionAccess(c).visible
        /\ "select" \in RelationAccess(c, rel).verbs
        /\ ConnectionAccess(c).grant.export /\ RelationGrant(c, rel).export
    BY <1>2, <2>1, CoveringRuleShows
  <2>3. RelationAccess(c, rel).export
    BY <2>2 DEF RelationAccess
  <2> QED
    BY <2>2, <2>3 DEF ExportLocked, Locked
<1> QED
  BY <1>1, <1>2

LEMMA LocksTellTruth ==
  ASSUME NEW c \in Askable
  PROVE  LocksTell(c)
<1>1. \A rel \in Relations : DatabaseFor(c, rel) = c.database =>
        /\ \A verb \in Verbs : VerbLocked(c, rel, verb) <=> ~MayUseRelation(c, rel, {verb})
        /\ MayExport(c, rel) => ~ExportLocked(c, rel)
  BY VerbLockTells, ExportLockTells
<1> QED
  BY <1>1, FreeSqlLockTells, MonitorLockTells DEF LocksTell

-----------------------------------------------------------------------------
(* Theorems.                                                               *)

\* Whoever asks, asks in one of the contexts there are.
THEOREM TypeCorrect == PolicyDecisionsSpec => []PolicyDecisionsTypeOK
<1>1. PolicyDecisionsInit => PolicyDecisionsTypeOK
  BY DEF PolicyDecisionsInit, PolicyDecisionsTypeOK
<1>2. PolicyDecisionsTypeOK /\ [PolicyDecisionsNext]_asker => PolicyDecisionsTypeOK'
  BY DEF PolicyDecisionsTypeOK, PolicyDecisionsNext, Pose, Reply
<1> QED
  BY <1>1, <1>2, PTL DEF PolicyDecisionsSpec

\* Whatever the rules, the server and who asks, the decisions fit together: a relation that
\* is not listed is refused in every way, free SQL and the AI stay within what is granted by
\* name and to the person, and controls are locked when the command behind them would refuse.
THEOREM Coherent == PolicyDecisionsSpec => []DecisionsCohere
<1>1. PolicyDecisionsTypeOK => DecisionsCohere
  <2> SUFFICES ASSUME asker \in Askable
               PROVE  /\ HiddenIsRefused(asker) /\ FreeSqlStaysWithin(asker)
                      /\ AiStaysWithin(asker) /\ LocksTell(asker)
    BY ContextsAssumption DEF PolicyDecisionsTypeOK, DecisionsCohere
  <2> QED
    BY HiddenRefused, FreeSqlWithin, AiWithin, LocksTellTruth
<1> QED
  BY <1>1, TypeCorrect, PTL

(***************************************************************************)
(* Reading the policy again, and the windows that show it.                 *)
(***************************************************************************)

USE PolicyReloadAssumption DEF PolicyReloadAssumption

-----------------------------------------------------------------------------
(* The invariant.                                                          *)

\* One read of the policy at a time, which ends as it was decided: the state in force is
\* still the one the read began with, and it is kept only if the read found it again.
OneReads ==
  \A r, q \in Readers : r # q => reload[r].pc = "asleep" \/ reload[q].pc = "asleep"

ReadsInForce ==
  \A r \in Readers :
    /\ reload[r].pc \in {"load", "compare"} => reload[r].prev = inForce
    /\ reload[r].pc = "keep" => reload[r].next = inForce

\* The command reads the policy only where it saved it.
CommandReads == reload["command"].pc # "asleep" => command.pc = "reload"

\* The window has heard of every change.
HasHeard(w) == announced[w] = 0 /\ \A r \in Readers : reload[r].pc # "tell"

Current(w, i) == enquiries[w][i].gen = panes[w].gen

\* A window that does not listen yet has asked nothing. One that has heard of every change
\* shows the policy in force where it shows one, and what it shows of an older one an answer
\* to a current question will replace.
WindowFollows(w) ==
  /\ ~panes[w].listens =>
       /\ announced[w] = 0 /\ enquiries[w] = <<>>
       /\ panes[w].state = Unknown /\ panes[w].locks = Unknown
  /\ \A i \in DOMAIN enquiries[w] : enquiries[w][i].gen <= panes[w].gen
  /\ HasHeard(w) =>
       /\ panes[w].locks \in {inForce, Unknown}
       /\ \A i \in DOMAIN enquiries[w] :
            Current(w, i) => enquiries[w][i].answer \in {inForce, Unknown}
       /\ \/ panes[w].state \in {inForce, Unknown}
          \/ \E i \in DOMAIN enquiries[w] : Current(w, i)

WindowsFollow == \A w \in Panes : WindowFollows(w)

PolicyReloadInv ==
  PolicyReloadTypeOK /\ OneReads /\ ReadsInForce /\ CommandReads /\ WindowsFollow

-----------------------------------------------------------------------------
(* Types of what the actions compute.                                      *)

LEMMA StateTypes ==
  /\ UnmanagedState \in States /\ CannotRead \in States /\ Unknown \in States
  /\ Asleep \in Readings /\ Asleep.pc = "asleep" /\ NoCommand \in Commands
<1>1. UnmanagedState \in States /\ CannotRead \in States /\ Unknown \in States
  BY DEF UnmanagedState, CannotRead, Unknown, State, States
<1>2. Asleep \in Readings /\ Asleep.pc = "asleep"
  BY <1>1 DEF Asleep, Readings
<1>3. NoCommand \in Commands
  BY DEF NoCommand, Commands
<1> QED
  BY <1>1, <1>2, <1>3

LEMMA EvaluatedType == ASSUME anchor \in Anchors PROVE Evaluated(anchor) \in States
<1>1. CASE anchor.kind = "none"
  <2>1. ~anchor.missing
    BY <1>1 DEF Anchors
  <2> QED
    BY <1>1, <2>1, StateTypes, Zenon DEF Evaluated
<1>2. CASE anchor.kind # "none" /\ anchor.missing
  <2>1. anchor.doc = NoDocument
    BY <1>2 DEF Anchors
  <2> QED
    BY <1>2, <2>1, StateTypes, Zenon DEF Evaluated
<1>3. CASE anchor.kind # "none" /\ ~anchor.missing
  <2>1. anchor.kind \in {"inline", "file"} /\ anchor.doc \in Documents \cup {NoDocument}
    BY <1>3 DEF Anchors
  <2>2. /\ State("active", anchor.kind, anchor.doc) \in States
        /\ State("broken", anchor.kind, NoDocument) \in States
    BY <2>1 DEF State, States
  <2>3. Evaluated(anchor) \in {State("active", anchor.kind, anchor.doc),
                              State("broken", anchor.kind, NoDocument)}
    BY <1>3, Zenon DEF Evaluated
  <2> QED
    BY <2>2, <2>3
<1> QED
  BY <1>1, <1>2, <1>3

\* A reader that goes to another standing.
LEMMA ReaderMoves ==
  ASSUME PolicyReloadTypeOK, NEW r \in Readers, NEW s \in Readings,
         reload' = [reload EXCEPT ![r] = s]
  PROVE  /\ reload' \in [Readers -> Readings] /\ reload'[r] = s
         /\ \A q \in Readers \ {r} : reload'[q] = reload[q]
BY DEF PolicyReloadTypeOK

-----------------------------------------------------------------------------
(* The invariant holds at the start and after every step.                  *)

LEMMA PolicyReloadInitInv == PolicyReloadInit => PolicyReloadInv
<1> SUFFICES ASSUME PolicyReloadInit PROVE PolicyReloadInv
  OBVIOUS
<1>1. inForce \in States
  <2>1. State("pending", "file", NoDocument) \in States
    BY DEF State, States
  <2> QED
    BY <2>1, EvaluatedType, Zenon DEF PolicyReloadInit
<1> DEFINE first == [Asleep EXCEPT !.pc = "load", !.prev = inForce]
<1>2. first \in Readings /\ first.pc = "load" /\ first.prev = inForce
  BY <1>1, StateTypes DEF Readings
<1> HIDE DEF first
<1>3. reload = [r \in Readers |-> IF r = "thread" THEN first ELSE Asleep]
  BY DEF PolicyReloadInit, first
<1>4. /\ reload \in [Readers -> Readings]
      /\ reload["thread"] = first /\ reload["command"] = Asleep
  BY <1>2, <1>3, StateTypes DEF Readers
<1> DEFINE none == [listens |-> FALSE, state |-> Unknown, locks |-> Unknown, gen |-> 0]
<1>5. none \in PaneStates /\ ~none.listens /\ none.state = Unknown /\ none.locks = Unknown
  BY StateTypes DEF PaneStates
<1> HIDE DEF none
<1>6. panes = [w \in Panes |-> none]
  BY DEF PolicyReloadInit, none
<1>7. <<>> \in Seq(Enquiries) /\ DOMAIN <<>> = {}
  BY EmptySeq, LenProperties
<1>8. PolicyReloadTypeOK
  <2>1. /\ panes \in [Panes -> PaneStates] /\ enquiries \in [Panes -> Seq(Enquiries)]
        /\ announced \in [Panes -> Nat]
    BY <1>5, <1>6, <1>7 DEF PolicyReloadInit
  <2>2. anchor \in Anchors /\ command \in Commands /\ policies \in 0..MaxPolicies
        /\ wakes \in 0..MaxWakes
    BY StateTypes DEF PolicyReloadInit
  <2> QED
    BY <1>1, <1>4, <2>1, <2>2 DEF PolicyReloadTypeOK
<1>9. OneReads /\ ReadsInForce /\ CommandReads
  BY <1>2, <1>4, StateTypes DEF OneReads, ReadsInForce, CommandReads, Readers
<1>10. WindowsFollow
  BY <1>5, <1>6, <1>7 DEF PolicyReloadInit, WindowsFollow, WindowFollows
<1> QED
  BY <1>8, <1>9, <1>10 DEF PolicyReloadInv

\* What the state in force and the readers are is all a window at rest depends on.
LEMMA ElsewhereInv ==
  ASSUME PolicyReloadInv, UNCHANGED <<inForce, reload, panes, enquiries, announced>>,
         PolicyReloadTypeOK', CommandReads'
  PROVE  PolicyReloadInv'
BY DEF PolicyReloadInv, OneReads, ReadsInForce, WindowsFollow, WindowFollows, HasHeard, Current

LEMMA AdministratorInv ==
  ASSUME PolicyReloadInv, Administrator
  PROVE  PolicyReloadInv'
<1>1. PolicyReloadTypeOK'
  BY DEF PolicyReloadInv, PolicyReloadTypeOK, Administrator
<1>2. CommandReads'
  BY DEF PolicyReloadInv, CommandReads, Administrator
<1> QED
  BY <1>1, <1>2, ElsewhereInv DEF Administrator

LEMMA EditorInv ==
  ASSUME PolicyReloadInv, OpensEditor \/ SaveChecks \/ SaveFails
  PROVE  PolicyReloadInv'
<1>1. UNCHANGED <<anchor, inForce, reload, panes, enquiries, announced, policies, wakes>>
  BY DEF OpensEditor, SaveChecks, SaveFails
<1>2. anchor \in Anchors /\ command \in Commands
  BY DEF PolicyReloadInv, PolicyReloadTypeOK
<1>3. command' \in Commands
  <2>1. CASE OpensEditor
    <3>1. anchor.doc \in Documents \cup {NoDocument} /\ anchor.missing \in BOOLEAN
      BY <1>2 DEF Anchors
    <3> QED
      BY <2>1, <3>1 DEF OpensEditor, Commands
  <2>2. CASE SaveChecks
    <3>1. [command EXCEPT !.pc = "replace", !.base = NoDocument] \in Commands
      BY <1>2 DEF Commands
    <3> QED
      BY <2>2, <3>1, StateTypes DEF SaveChecks
  <2>3. CASE SaveFails
    BY <2>3, StateTypes DEF SaveFails
  <2> QED
    BY <2>1, <2>2, <2>3
<1>4. PolicyReloadTypeOK'
  BY <1>1, <1>3 DEF PolicyReloadInv, PolicyReloadTypeOK
<1>5. CommandReads'
  BY <1>1 DEF PolicyReloadInv, CommandReads, OpensEditor, SaveChecks, SaveFails, NoCommand
<1> QED
  BY <1>1, <1>4, <1>5, ElsewhereInv

\* A reader begins when the other one sleeps, from the state in force.
LEMMA BeginInv ==
  ASSUME PolicyReloadInv, NEW r \in Readers, reload[r].pc = "asleep",
         \A q \in Readers \ {r} : reload[q].pc = "asleep", Begin(r),
         UNCHANGED <<inForce, panes, enquiries, announced>>,
         anchor' \in Anchors, command' \in Commands,
         policies' \in 0..MaxPolicies, wakes' \in 0..MaxWakes,
         command'.pc = IF r = "command" THEN "reload" ELSE command.pc
  PROVE  PolicyReloadInv'
<1> USE DEF PolicyReloadInv
<1> DEFINE s == [Asleep EXCEPT !.pc = "load", !.prev = inForce]
<1>1. s \in Readings /\ s.pc = "load" /\ s.prev = inForce
  BY StateTypes DEF Readings, PolicyReloadTypeOK
<1>2. reload' = [reload EXCEPT ![r] = s]
  BY DEF Begin
<1> HIDE DEF s
<1>3. /\ reload' \in [Readers -> Readings] /\ reload'[r] = s
      /\ \A q \in Readers \ {r} : reload'[q] = reload[q]
  BY <1>1, <1>2, ReaderMoves
<1>4. PolicyReloadTypeOK'
  BY <1>3 DEF PolicyReloadTypeOK
<1>5. OneReads' /\ ReadsInForce' /\ CommandReads'
  BY <1>1, <1>3 DEF OneReads, ReadsInForce, CommandReads, Readers
<1>6. WindowsFollow'
  <2>1. \A w \in Panes : HasHeard(w)' => HasHeard(w)
    BY <1>1, <1>3 DEF HasHeard
  <2> QED
    BY <2>1 DEF WindowsFollow, WindowFollows, Current
<1> QED
  BY <1>4, <1>5, <1>6

LEMMA ThreadWakesInv ==
  ASSUME PolicyReloadInv, Coinciding = {}, ThreadWakes
  PROVE  PolicyReloadInv'
<1>1. /\ anchor' \in Anchors /\ command' \in Commands /\ policies' \in 0..MaxPolicies
      /\ wakes' \in 0..MaxWakes
      /\ command'.pc = command.pc /\ "thread" # "command"
  BY DEF ThreadWakes, PolicyReloadInv, PolicyReloadTypeOK
<1>2. "thread" \in Readers /\ \A q \in Readers \ {"thread"} : reload[q].pc = "asleep"
  BY DEF ThreadWakes, Alone, Readers
<1> QED
  BY <1>1, <1>2, BeginInv DEF ThreadWakes

\* The editor saves and reads while the thread sleeps, and its command stands at "replace"
\* only while it reads nothing.
LEMMA SaveReplacesInv ==
  ASSUME PolicyReloadInv, Coinciding = {}, SaveReplaces
  PROVE  PolicyReloadInv'
<1> USE DEF PolicyReloadInv
<1>1. anchor \in Anchors /\ command \in Commands
  BY DEF PolicyReloadTypeOK
<1>2. PICK d \in Documents :
        anchor' = IF anchor.kind = "file" THEN [anchor EXCEPT !.doc = d, !.missing = FALSE]
                  ELSE anchor
  BY DEF SaveReplaces
<1>3. anchor' \in Anchors
  <2>1. CASE anchor.kind = "file"
    <3>1. anchor' = [kind |-> "file", doc |-> d, missing |-> FALSE]
      BY <1>1, <1>2, <2>1 DEF Anchors
    <3> QED
      BY <3>1 DEF Anchors
  <2>2. CASE anchor.kind # "file"
    BY <1>1, <1>2, <2>2
  <2> QED
    BY <2>1, <2>2
<1>4. command' \in Commands
  BY <1>1 DEF SaveReplaces, Commands
<1>7. command'.pc = "reload" /\ reload["command"].pc = "asleep"
  BY <1>1 DEF SaveReplaces, Commands, CommandReads
<1>5. policies' \in 0..MaxPolicies /\ wakes' \in 0..MaxWakes
  BY DEF SaveReplaces, PolicyReloadTypeOK
<1>6. "command" \in Readers /\ \A q \in Readers \ {"command"} : reload[q].pc = "asleep"
  BY DEF SaveReplaces, Alone, Readers
<1> QED
  BY <1>3, <1>4, <1>5, <1>6, <1>7, BeginInv DEF SaveReplaces

\* A reader goes on, and no window is told.
LEMMA ReaderInv ==
  ASSUME PolicyReloadInv, NEW r \in Readers, NEW s \in Readings,
         reload[r].pc # "asleep", reload' = [reload EXCEPT ![r] = s],
         s.pc \in {"load", "compare"} => s.prev = inForce,
         s.pc = "keep" => s.next = inForce,
         reload[r].pc = "tell" => s.pc = "tell",
         UNCHANGED <<anchor, inForce, command, panes, enquiries, announced, policies, wakes>>
  PROVE  PolicyReloadInv'
<1> USE DEF PolicyReloadInv
<1>1. /\ reload' \in [Readers -> Readings] /\ reload'[r] = s
      /\ \A q \in Readers \ {r} : reload'[q] = reload[q]
  BY ReaderMoves
<1>2. PolicyReloadTypeOK'
  BY <1>1 DEF PolicyReloadTypeOK
<1>3. OneReads' /\ ReadsInForce' /\ CommandReads'
  BY <1>1 DEF OneReads, ReadsInForce, CommandReads, Readers
<1>4. WindowsFollow'
  <2>1. \A w \in Panes : HasHeard(w)' => HasHeard(w)
    BY <1>1 DEF HasHeard
  <2> QED
    BY <2>1 DEF WindowsFollow, WindowFollows, Current
<1> QED
  BY <1>2, <1>3, <1>4

LEMMA LoadInv ==
  ASSUME PolicyReloadInv, NEW r \in Readers, Load(r)
  PROVE  PolicyReloadInv'
<1> USE DEF PolicyReloadInv
<1>1. PICK found \in Loaded :
        LET again == /\ reload[r].prev.label = "active" /\ found = CannotRead
                     /\ reload[r].tries < Retries
        IN reload' = [reload EXCEPT ![r].pc = IF again THEN "load" ELSE "compare",
                                    ![r].next = found,
                                    ![r].tries = IF again THEN @ + 1 ELSE @]
  BY DEF Load
<1>2. found \in States
  BY EvaluatedType, StateTypes DEF Loaded, PolicyReloadTypeOK
<1>3. reload[r] \in Readings /\ reload \in [Readers -> Readings]
  BY DEF PolicyReloadTypeOK
<1> DEFINE again == /\ reload[r].prev.label = "active" /\ found = CannotRead
                    /\ reload[r].tries < Retries
           s == [reload[r] EXCEPT !.pc = IF again THEN "load" ELSE "compare", !.next = found,
                                  !.tries = IF again THEN @ + 1 ELSE @]
<1>4. reload' = [reload EXCEPT ![r] = s]
  BY <1>1, <1>3
<1>5. s \in Readings /\ s.pc \in {"load", "compare"} /\ s.prev = reload[r].prev
  <2>1. reload[r].tries \in 0..Retries
    BY <1>3 DEF Readings
  <2>2. (IF again THEN reload[r].tries + 1 ELSE reload[r].tries) \in 0..Retries
    BY <2>1
  <2>3. (IF again THEN "load" ELSE "compare") \in {"load", "compare"}
    OBVIOUS
  <2> HIDE DEF again
  <2> QED
    BY <1>2, <1>3, <2>2, <2>3 DEF Readings
<1> HIDE DEF again, s
<1>6. /\ reload[r].pc # "asleep" /\ reload[r].pc # "tell" /\ reload[r].prev = inForce
      /\ UNCHANGED <<anchor, inForce, command, panes, enquiries, announced, policies, wakes>>
  BY DEF Load, ReadsInForce
<1> QED
  BY <1>4, <1>5, <1>6, ReaderInv

LEMMA CompareInv ==
  ASSUME PolicyReloadInv, NEW r \in Readers, Compare(r)
  PROVE  PolicyReloadInv'
<1> USE DEF PolicyReloadInv
<1> DEFINE found == reload[r].next
           s == [Asleep EXCEPT !.pc = IF found # inForce THEN "change" ELSE "keep", !.next = found]
<1>1. /\ reload[r].pc = "compare" /\ reload[r].prev = inForce
      /\ UNCHANGED <<anchor, inForce, command, panes, enquiries, announced, policies, wakes>>
  BY DEF Compare, ReadsInForce
<1>2. reload' = [reload EXCEPT ![r] = s]
  BY <1>1 DEF Compare
<1>3. found \in States
  BY DEF PolicyReloadTypeOK, Readings
<1>4. s \in Readings /\ s.pc \in {"change", "keep"} /\ (s.pc = "keep" => s.next = inForce)
  BY <1>3, StateTypes DEF Readings
<1> HIDE DEF s
<1> QED
  BY <1>1, <1>2, <1>4, ReaderInv

\* The state changes only where the windows are told next.
LEMMA PutInForceInv ==
  ASSUME PolicyReloadInv, NEW r \in Readers, PutInForce(r)
  PROVE  PolicyReloadInv'
<1> USE DEF PolicyReloadInv
<1> DEFINE tells == reload[r].pc = "change" \/ (r = "command" /\ ~command.creates)
           s == [Asleep EXCEPT !.pc = IF tells THEN "tell" ELSE @]
<1>1. /\ reload[r].pc \in {"change", "keep"} /\ inForce' = reload[r].next
      /\ reload' = [reload EXCEPT ![r] = s]
      /\ command' = IF r = "command" /\ ~tells THEN NoCommand ELSE command
      /\ UNCHANGED <<anchor, panes, enquiries, announced, policies, wakes>>
  BY DEF PutInForce
<1>2. /\ s \in Readings /\ s.pc \in {"tell", "asleep"} /\ (tells => s.pc = "tell")
      /\ (~tells => s.pc = "asleep")
  BY StateTypes DEF Readings
<1>3. reload[r].pc = "change" => tells
  OBVIOUS
<1> HIDE DEF tells, s
<1>4. /\ reload' \in [Readers -> Readings] /\ reload'[r] = s
      /\ \A q \in Readers \ {r} : reload'[q] = reload[q]
  BY <1>1, <1>2, ReaderMoves
<1>5. \A q \in Readers \ {r} : reload[q].pc = "asleep"
  BY <1>1 DEF OneReads
<1>6. inForce' # inForce => tells
  BY <1>1, <1>3 DEF ReadsInForce
<1>7. PolicyReloadTypeOK'
  <2>1. inForce' \in States /\ command' \in Commands
    BY <1>1, StateTypes DEF PolicyReloadTypeOK, Readings
  <2> QED
    BY <1>1, <1>4, <2>1 DEF PolicyReloadTypeOK
<1>8. OneReads' /\ ReadsInForce' /\ CommandReads'
  BY <1>1, <1>2, <1>4, <1>5 DEF OneReads, ReadsInForce, CommandReads, Readers
<1>9. WindowsFollow'
  <2>1. \A w \in Panes : HasHeard(w)' => HasHeard(w) /\ inForce' = inForce
    BY <1>1, <1>2, <1>4, <1>6 DEF HasHeard
  <2> QED
    BY <1>1, <2>1 DEF WindowsFollow, WindowFollows, Current
<1> QED
  BY <1>7, <1>8, <1>9

\* A window that is told has something to hear.
LEMMA NotifyInv ==
  ASSUME PolicyReloadInv, NEW r \in Readers, Notify(r)
  PROVE  PolicyReloadInv'
<1> USE DEF PolicyReloadInv
<1>1. /\ reload[r].pc = "tell" /\ reload' = [reload EXCEPT ![r] = Asleep]
      /\ announced' = [w \in Panes |-> IF panes[w].listens THEN announced[w] + 1 ELSE announced[w]]
      /\ command' = IF r = "command" THEN NoCommand ELSE command
      /\ UNCHANGED <<anchor, inForce, panes, enquiries, policies, wakes>>
  BY DEF Notify, Tell
<1>2. /\ reload' \in [Readers -> Readings] /\ reload'[r] = Asleep
      /\ \A q \in Readers \ {r} : reload'[q] = reload[q]
  BY <1>1, StateTypes, ReaderMoves
<1>3. announced \in [Panes -> Nat] /\ announced' \in [Panes -> Nat]
  BY <1>1 DEF PolicyReloadTypeOK
<1>4. PolicyReloadTypeOK'
  <2>1. command' \in Commands
    BY <1>1, StateTypes DEF PolicyReloadTypeOK
  <2> QED
    BY <1>1, <1>2, <1>3, <2>1 DEF PolicyReloadTypeOK
<1>5. OneReads' /\ ReadsInForce' /\ CommandReads'
  BY <1>1, <1>2, StateTypes DEF OneReads, ReadsInForce, CommandReads, Readers
<1>6. WindowsFollow'
  <2>1. ASSUME NEW w \in Panes PROVE WindowFollows(w)'
    <3>1. CASE panes[w].listens
      <4>1. announced'[w] # 0
        BY <1>1, <1>3, <3>1
      <4> QED
        BY <1>1, <3>1, <4>1 DEF WindowsFollow, WindowFollows, HasHeard
    <3>2. CASE ~panes[w].listens
      <4>1. /\ enquiries[w] = <<>> /\ panes[w].state = Unknown /\ panes[w].locks = Unknown
            /\ announced'[w] = 0
        BY <1>1, <1>3, <3>2 DEF WindowsFollow, WindowFollows
      <4>2. DOMAIN enquiries[w] = {}
        BY <4>1
      <4> QED
        BY <1>1, <4>1, <4>2 DEF WindowFollows
    <3> QED
      BY <3>1, <3>2
  <2> QED
    BY <2>1 DEF WindowsFollow
<1> QED
  BY <1>4, <1>5, <1>6

-----------------------------------------------------------------------------
(* One window goes on by itself.                                           *)

LEMMA WindowInv ==
  ASSUME PolicyReloadInv, NEW w \in Panes, NEW p \in PaneStates, NEW q \in Seq(Enquiries), NEW n \in Nat,
         panes' = [panes EXCEPT ![w] = p], enquiries' = [enquiries EXCEPT ![w] = q],
         announced' = [announced EXCEPT ![w] = n], WindowFollows(w)',
         UNCHANGED <<anchor, inForce, reload, command, policies, wakes>>
  PROVE  PolicyReloadInv'
<1> USE DEF PolicyReloadInv
<1>1. PolicyReloadTypeOK'
  BY DEF PolicyReloadTypeOK
<1>2. OneReads' /\ ReadsInForce' /\ CommandReads'
  BY DEF OneReads, ReadsInForce, CommandReads
<1>3. ASSUME NEW v \in Panes, v # w PROVE WindowFollows(v)'
  <2>1. panes'[v] = panes[v] /\ enquiries'[v] = enquiries[v] /\ announced'[v] = announced[v]
    BY <1>3 DEF PolicyReloadTypeOK
  <2> QED
    BY <2>1 DEF WindowsFollow, WindowFollows, HasHeard, Current
<1>4. WindowsFollow'
  BY <1>3 DEF WindowsFollow
<1> QED
  BY <1>1, <1>2, <1>4

\* What the window holds.
LEMMA WindowTypes ==
  ASSUME PolicyReloadInv, NEW w \in Panes
  PROVE  /\ panes \in [Panes -> PaneStates] /\ enquiries \in [Panes -> Seq(Enquiries)]
         /\ announced \in [Panes -> Nat] /\ announced[w] \in Nat
         /\ panes[w] \in PaneStates /\ panes[w].gen \in Nat
         /\ panes[w].state \in States /\ panes[w].locks \in States
         /\ enquiries[w] \in Seq(Enquiries)
         /\ DOMAIN enquiries[w] = 1..Len(enquiries[w]) /\ Len(enquiries[w]) \in Nat
         /\ \A i \in DOMAIN enquiries[w] :
              /\ enquiries[w][i] \in Enquiries /\ enquiries[w][i].gen \in Nat
              /\ enquiries[w][i].answer \in States
         /\ WindowFollows(w)
<1>1. /\ panes \in [Panes -> PaneStates] /\ enquiries \in [Panes -> Seq(Enquiries)]
      /\ announced \in [Panes -> Nat] /\ WindowFollows(w)
  BY DEF PolicyReloadInv, PolicyReloadTypeOK, WindowsFollow
<1>2. panes[w] \in PaneStates /\ enquiries[w] \in Seq(Enquiries) /\ announced[w] \in Nat
  BY <1>1
<1>3. DOMAIN enquiries[w] = 1..Len(enquiries[w]) /\ Len(enquiries[w]) \in Nat
  BY <1>2, LenProperties
<1>4. \A i \in DOMAIN enquiries[w] : enquiries[w][i] \in Enquiries
  BY <1>2, <1>3, ElementOfSeq
<1> QED
  BY <1>1, <1>2, <1>3, <1>4 DEF PaneStates, Enquiries

\* A question behind the others.
LEMMA OneMore ==
  ASSUME PolicyReloadInv, NEW w \in Panes, NEW g \in Nat, NEW about \in SUBSET {"connection"},
         NEW q, q = Enquiry(w, g, about)
  PROVE  /\ q \in Seq(Enquiries) /\ Len(enquiries[w]) + 1 \in DOMAIN q
         /\ q[Len(enquiries[w]) + 1].gen = g /\ q[Len(enquiries[w]) + 1].answer = Unknown
         /\ \A i \in DOMAIN q : \/ i \in DOMAIN enquiries[w] /\ q[i] = enquiries[w][i]
                                \/ i = Len(enquiries[w]) + 1
         /\ \A i \in DOMAIN enquiries[w] : i \in DOMAIN q /\ q[i] = enquiries[w][i]
<1> DEFINE e == [gen |-> g, about |-> about, answer |-> Unknown]
<1>1. e \in Enquiries /\ e.gen = g /\ e.answer = Unknown
  BY StateTypes DEF Enquiries
<1>2. q = Append(enquiries[w], e)
  BY DEF Enquiry
<1> HIDE DEF e
<1>3. enquiries[w] \in Seq(Enquiries)
  BY WindowTypes
<1>4. /\ Append(enquiries[w], e) \in Seq(Enquiries)
      /\ Len(Append(enquiries[w], e)) = Len(enquiries[w]) + 1
      /\ \A i \in 1..Len(enquiries[w]) : Append(enquiries[w], e)[i] = enquiries[w][i]
      /\ Append(enquiries[w], e)[Len(enquiries[w]) + 1] = e
  BY <1>1, <1>3, AppendProperties
<1>5. /\ DOMAIN q = 1..Len(enquiries[w]) + 1 /\ DOMAIN enquiries[w] = 1..Len(enquiries[w])
      /\ Len(enquiries[w]) \in Nat
  BY <1>2, <1>3, <1>4, LenProperties
<1> QED
  BY <1>1, <1>2, <1>4, <1>5

\* The window asks.
LEMMA AsksInv ==
  ASSUME PolicyReloadInv, NEW w \in Panes, NEW about \in SUBSET {"connection"},
         panes[w].listens,
         enquiries' = [enquiries EXCEPT ![w] = Enquiry(w, panes[w].gen, about)],
         UNCHANGED <<anchor, inForce, reload, command, panes, announced, policies, wakes>>
  PROVE  PolicyReloadInv'
<1> DEFINE q == Enquiry(w, panes[w].gen, about)
<1> HIDE DEF q
<1>1. /\ panes \in [Panes -> PaneStates] /\ enquiries \in [Panes -> Seq(Enquiries)]
      /\ announced \in [Panes -> Nat] /\ announced[w] \in Nat /\ panes[w] \in PaneStates
      /\ panes[w].gen \in Nat /\ WindowFollows(w)
  BY WindowTypes
<1>2. /\ q \in Seq(Enquiries) /\ Len(enquiries[w]) + 1 \in DOMAIN q
      /\ q[Len(enquiries[w]) + 1].gen = panes[w].gen
      /\ q[Len(enquiries[w]) + 1].answer = Unknown
      /\ \A i \in DOMAIN q : \/ i \in DOMAIN enquiries[w] /\ q[i] = enquiries[w][i]
                             \/ i = Len(enquiries[w]) + 1
      /\ \A i \in DOMAIN enquiries[w] : i \in DOMAIN q /\ q[i] = enquiries[w][i]
  BY <1>1, OneMore DEF q
<1>3. enquiries' = [enquiries EXCEPT ![w] = q] /\ enquiries'[w] = q
  BY <1>1 DEF q
<1>4. /\ panes' = [panes EXCEPT ![w] = panes[w]]
      /\ announced' = [announced EXCEPT ![w] = announced[w]]
  BY <1>1
<1>5. WindowFollows(w)'
  <2>1. HasHeard(w)' => HasHeard(w)
    BY DEF HasHeard
  <2>2. ASSUME NEW i \in DOMAIN q PROVE q[i].gen <= panes[w].gen
    <3>1. CASE i = Len(enquiries[w]) + 1
      BY <1>1, <1>2, <3>1
    <3>2. CASE i \in DOMAIN enquiries[w] /\ q[i] = enquiries[w][i]
      BY <1>1, <3>2 DEF WindowFollows
    <3> QED
      BY <1>2, <3>1, <3>2
  <2>3. ASSUME HasHeard(w)
        PROVE  /\ panes[w].locks \in {inForce, Unknown}
               /\ \A i \in DOMAIN q : q[i].gen = panes[w].gen => q[i].answer \in {inForce, Unknown}
               /\ \E i \in DOMAIN q : q[i].gen = panes[w].gen
    BY <1>1, <1>2, <2>3 DEF WindowFollows, Current
  <2> QED
    BY <1>3, <2>1, <2>2, <2>3 DEF WindowFollows, Current
<1> QED
  BY <1>1, <1>2, <1>3, <1>4, <1>5, WindowInv

LEMMA ShowsInv ==
  ASSUME PolicyReloadInv, Coinciding = {}, NEW w \in Panes, ShowsRibbon(w) \/ ShowsControl(w)
  PROVE  PolicyReloadInv'
<1>1. PICK about \in SUBSET {"connection"} :
        enquiries' = [enquiries EXCEPT ![w] = Enquiry(w, panes[w].gen, about)]
  <2>1. {} \in SUBSET {"connection"} /\ {"connection"} \in SUBSET {"connection"}
    OBVIOUS
  <2> QED
    BY <2>1 DEF ShowsRibbon, ShowsControl
<1>2. /\ panes[w].listens
      /\ UNCHANGED <<anchor, inForce, reload, command, panes, announced, policies, wakes>>
  BY DEF ShowsRibbon, ShowsControl, MayEnquire
<1> QED
  BY <1>1, <1>2, AsksInv

LEMMA StartsPolicyBridgeInv ==
  ASSUME PolicyReloadInv, NEW w \in Panes, StartsPolicyBridge(w)
  PROVE  PolicyReloadInv'
<1> DEFINE p == [panes[w] EXCEPT !.listens = TRUE]
<1>1. /\ panes \in [Panes -> PaneStates] /\ enquiries \in [Panes -> Seq(Enquiries)]
      /\ enquiries[w] \in Seq(Enquiries) /\ panes[w] \in PaneStates /\ WindowFollows(w)
      /\ announced \in [Panes -> Nat] /\ announced[w] \in Nat
  BY WindowTypes
<1>2. /\ p \in PaneStates /\ p.listens /\ p.gen = panes[w].gen
      /\ p.state = panes[w].state /\ p.locks = panes[w].locks
  BY <1>1 DEF PaneStates
<1>3. /\ panes' = [panes EXCEPT ![w] = p]
      /\ UNCHANGED <<anchor, inForce, reload, command, enquiries, announced, policies, wakes>>
  BY <1>1 DEF StartsPolicyBridge
<1> HIDE DEF p
<1>4. panes'[w] = p
  BY <1>1, <1>3
<1>5. WindowFollows(w)'
  BY <1>1, <1>2, <1>3, <1>4 DEF WindowFollows, HasHeard, Current
<1>6. /\ enquiries' = [enquiries EXCEPT ![w] = enquiries[w]]
      /\ announced' = [announced EXCEPT ![w] = announced[w]]
  BY <1>1, <1>3
<1> QED
  BY <1>1, <1>2, <1>3, <1>5, <1>6, WindowInv

LEMMA AnswersInv ==
  ASSUME PolicyReloadInv, NEW w \in Panes, NEW i \in 1..Len(enquiries[w]), Answers(w, i)
  PROVE  PolicyReloadInv'
<1> DEFINE e == [enquiries[w][i] EXCEPT !.answer = inForce]
           q == [enquiries[w] EXCEPT ![i] = e]
<1>1. /\ panes \in [Panes -> PaneStates] /\ enquiries \in [Panes -> Seq(Enquiries)]
      /\ enquiries[w] \in Seq(Enquiries) /\ panes[w] \in PaneStates /\ WindowFollows(w)
      /\ announced \in [Panes -> Nat] /\ announced[w] \in Nat
      /\ DOMAIN enquiries[w] = 1..Len(enquiries[w]) /\ enquiries[w][i] \in Enquiries
      /\ inForce \in States
  BY WindowTypes DEF PolicyReloadInv, PolicyReloadTypeOK
<1>2. e \in Enquiries /\ e.gen = enquiries[w][i].gen /\ e.answer = inForce
  BY <1>1 DEF Enquiries
<1>3. /\ enquiries' = [enquiries EXCEPT ![w] = q]
      /\ UNCHANGED <<anchor, inForce, reload, command, panes, announced, policies, wakes>>
  BY <1>1 DEF Answers
<1> HIDE DEF e
<1>4. /\ q \in Seq(Enquiries) /\ DOMAIN q = DOMAIN enquiries[w] /\ q[i] = e
      /\ \A j \in DOMAIN enquiries[w] : j # i => q[j] = enquiries[w][j]
  <2>1. q \in Seq(Enquiries)
    BY <1>1, <1>2, ExceptSeq
  <2> QED
    BY <1>1, <2>1
<1> HIDE DEF q
<1>5. enquiries'[w] = q
  BY <1>1, <1>3
<1>6. WindowFollows(w)'
  <2>1. HasHeard(w)' = HasHeard(w)
    BY <1>3 DEF HasHeard
  <2>2. /\ DOMAIN q # {}
        /\ \A j \in DOMAIN q : q[j].gen = enquiries[w][j].gen
        /\ \A j \in DOMAIN q : q[j].answer \in {inForce, enquiries[w][j].answer}
    BY <1>1, <1>2, <1>4
  <2>3. ~panes[w].listens => FALSE
    BY <1>1, <1>4, <2>2 DEF WindowFollows
  <2>4. \A j \in DOMAIN q : Current(w, j)' <=> Current(w, j)
    BY <1>3, <1>5, <2>2 DEF Current
  <2> QED
    BY <1>1, <1>3, <1>4, <1>5, <2>1, <2>2, <2>3, <2>4 DEF WindowFollows
<1>7. /\ panes' = [panes EXCEPT ![w] = panes[w]]
      /\ announced' = [announced EXCEPT ![w] = announced[w]]
  BY <1>1, <1>3
<1> QED
  BY <1>1, <1>3, <1>4, <1>6, <1>7, WindowInv

\* An answer arrives: to a current question, it is what the window shows from then on.
LEMMA AnswerArrivesInv ==
  ASSUME PolicyReloadInv, NEW w \in Panes, NEW i \in 1..Len(enquiries[w]), AnswerArrives(w, i)
  PROVE  PolicyReloadInv'
<1> DEFINE e == enquiries[w][i]
           q == Less(enquiries[w], i)
           p == IF e.gen = panes[w].gen
                THEN [panes[w] EXCEPT !.state = e.answer,
                                      !.locks = IF e.about = {} THEN @ ELSE e.answer]
                ELSE panes[w]
<1>1. /\ panes \in [Panes -> PaneStates] /\ enquiries \in [Panes -> Seq(Enquiries)]
      /\ enquiries[w] \in Seq(Enquiries) /\ panes[w] \in PaneStates /\ WindowFollows(w)
      /\ announced \in [Panes -> Nat] /\ announced[w] \in Nat
      /\ i \in DOMAIN enquiries[w] /\ e \in Enquiries /\ e.answer \in States
  BY WindowTypes
<1>2. /\ e.answer # Unknown
      /\ UNCHANGED <<anchor, inForce, reload, command, announced, policies, wakes>>
  BY DEF AnswerArrives
<1>3. enquiries' = [enquiries EXCEPT ![w] = q]
  BY <1>1 DEF AnswerArrives, Lists!RemoveAt, Less
<1>4. panes' = [panes EXCEPT ![w] = p]
  BY <1>1 DEF AnswerArrives, Learns
<1>5. /\ p \in PaneStates /\ p.gen = panes[w].gen /\ p.listens = panes[w].listens
      /\ p.state = (IF e.gen = panes[w].gen THEN e.answer ELSE panes[w].state)
      /\ p.locks \in {panes[w].locks, IF e.gen = panes[w].gen THEN e.answer ELSE panes[w].locks}
  BY <1>1 DEF PaneStates
<1>6. /\ q \in Seq(Enquiries)
      /\ \A j \in DOMAIN q : \E k \in DOMAIN enquiries[w] : k # i /\ q[j] = enquiries[w][k]
      /\ \A k \in DOMAIN enquiries[w] : k # i => \E j \in DOMAIN q : q[j] = enquiries[w][k]
  BY <1>1, SameOthers
<1> HIDE DEF p, q
<1>7. enquiries'[w] = q /\ panes'[w] = p
  BY <1>1, <1>3, <1>4
<1>8. WindowFollows(w)'
  <2>1. HasHeard(w)' = HasHeard(w)
    BY <1>2 DEF HasHeard
  <2>2. panes[w].listens
    <3>1. SUFFICES ASSUME enquiries[w] = <<>> PROVE FALSE
      BY <1>1 DEF WindowFollows
    <3> QED
      BY <1>1, <3>1
  <2>3. \A j \in DOMAIN q : q[j].gen <= p.gen
    BY <1>1, <1>5, <1>6 DEF WindowFollows
  <2>4. ASSUME HasHeard(w)
        PROVE  /\ p.locks \in {inForce, Unknown}
               /\ \A j \in DOMAIN q : q[j].gen = p.gen => q[j].answer \in {inForce, Unknown}
               /\ \/ p.state \in {inForce, Unknown}
                  \/ \E j \in DOMAIN q : q[j].gen = p.gen
    <3>1. e.gen = panes[w].gen => e.answer = inForce
      BY <1>1, <1>2, <2>4 DEF WindowFollows, Current
    <3>2. p.locks \in {inForce, Unknown}
      BY <1>1, <1>5, <2>4, <3>1 DEF WindowFollows
    <3>3. \A j \in DOMAIN q : q[j].gen = p.gen => q[j].answer \in {inForce, Unknown}
      BY <1>1, <1>5, <1>6, <2>4 DEF WindowFollows, Current
    <3>4. p.state \in {inForce, Unknown} \/ \E j \in DOMAIN q : q[j].gen = p.gen
      <4>1. CASE e.gen = panes[w].gen
        BY <1>5, <3>1, <4>1
      <4>2. CASE e.gen # panes[w].gen
        <5>1. ASSUME NEW k \in DOMAIN enquiries[w], Current(w, k)
              PROVE  \E j \in DOMAIN q : q[j].gen = p.gen
          <6>1. k # i
            BY <4>2, <5>1 DEF Current
          <6> QED
            BY <1>5, <1>6, <5>1, <6>1 DEF Current
        <5> QED
          BY <1>1, <1>5, <2>4, <4>2, <5>1 DEF WindowFollows
      <4> QED
        BY <4>1, <4>2
    <3> QED
      BY <3>2, <3>3, <3>4
  <2>5. p.listens
    BY <1>5, <2>2
  <2> QED
    BY <1>2, <1>7, <2>1, <2>3, <2>4, <2>5 DEF WindowFollows, Current
<1>9. announced' = [announced EXCEPT ![w] = announced[w]]
  BY <1>1, <1>2
<1> QED
  BY <1>1, <1>2, <1>3, <1>4, <1>5, <1>6, <1>8, <1>9, WindowInv

\* What a window asks for when it hears of a change is the only current question it has.
LEMMA InvalidateInv ==
  ASSUME PolicyReloadInv, NEW w \in Panes, Invalidate(w)
  PROVE  PolicyReloadInv'
<1> DEFINE about == IF panes[w].locks = Unknown THEN {} ELSE {"connection"}
           q == Enquiry(w, panes[w].gen + 1, about)
           p == [panes[w] EXCEPT !.locks = Unknown, !.gen = @ + 1]
<1>1. /\ panes \in [Panes -> PaneStates] /\ enquiries \in [Panes -> Seq(Enquiries)]
      /\ announced \in [Panes -> Nat] /\ announced[w] \in Nat /\ panes[w] \in PaneStates
      /\ panes[w].gen \in Nat /\ WindowFollows(w)
      /\ \A i \in DOMAIN enquiries[w] : enquiries[w][i].gen \in Nat
  BY WindowTypes
<1>2. /\ panes' = [panes EXCEPT ![w] = p] /\ enquiries' = [enquiries EXCEPT ![w] = q]
      /\ announced[w] > 0 /\ announced' = [announced EXCEPT ![w] = announced[w] - 1]
      /\ UNCHANGED <<anchor, inForce, reload, command, policies, wakes>>
  BY <1>1 DEF Invalidate
<1>3. /\ p \in PaneStates /\ p.gen = panes[w].gen + 1 /\ p.locks = Unknown
      /\ p.state = panes[w].state /\ p.listens = panes[w].listens
  <2> DEFINE n == panes[w].gen + 1
             r == [panes[w] EXCEPT !.locks = Unknown, !.gen = n]
  <2>1. n \in Nat
    BY <1>1
  <2>2. p = r
    BY <1>1 DEF PaneStates
  <2> HIDE DEF n, p
  <2>3. /\ r \in PaneStates /\ r.gen = n /\ r.locks = Unknown
        /\ r.state = panes[w].state /\ r.listens = panes[w].listens
    BY <1>1, <2>1, StateTypes DEF PaneStates
  <2> QED
    BY <2>2, <2>3 DEF n
<1>4. about \in SUBSET {"connection"} /\ panes[w].gen + 1 \in Nat
  BY <1>1
<1> HIDE DEF about, q, p
<1>5. /\ q \in Seq(Enquiries) /\ Len(enquiries[w]) + 1 \in DOMAIN q
      /\ q[Len(enquiries[w]) + 1].gen = panes[w].gen + 1
      /\ q[Len(enquiries[w]) + 1].answer = Unknown
      /\ \A i \in DOMAIN q : \/ i \in DOMAIN enquiries[w] /\ q[i] = enquiries[w][i]
                             \/ i = Len(enquiries[w]) + 1
      /\ \A i \in DOMAIN enquiries[w] : i \in DOMAIN q /\ q[i] = enquiries[w][i]
  BY <1>4, OneMore DEF q
<1>6. panes'[w] = p /\ enquiries'[w] = q /\ announced'[w] = announced[w] - 1
  BY <1>1, <1>2
<1>7. WindowFollows(w)'
  <2>1. ASSUME NEW i \in DOMAIN q
        PROVE  q[i].gen <= p.gen /\ (q[i].gen = p.gen => q[i].answer = Unknown)
    <3>1. CASE i = Len(enquiries[w]) + 1
      BY <1>1, <1>3, <1>5, <3>1
    <3>2. CASE i \in DOMAIN enquiries[w] /\ q[i] = enquiries[w][i]
      <4>1. q[i].gen <= panes[w].gen /\ q[i].gen \in Nat
        BY <1>1, <3>2 DEF WindowFollows
      <4> QED
        BY <1>1, <1>3, <4>1
    <3> QED
      BY <1>5, <3>1, <3>2
  <2>2. \E i \in DOMAIN q : q[i].gen = p.gen
    BY <1>3, <1>5
  <2>3. p.listens
    BY <1>1, <1>2, <1>3 DEF WindowFollows
  <2> QED
    BY <1>3, <1>6, <2>1, <2>2, <2>3 DEF WindowFollows, Current
<1>8. announced[w] - 1 \in Nat
  BY <1>1, <1>2
<1> QED
  BY <1>2, <1>3, <1>5, <1>7, <1>8, WindowInv

-----------------------------------------------------------------------------
(* The results.                                                            *)

LEMMA PolicyReloadStepInv ==
  ASSUME PolicyReloadInv, Coinciding = {}, [PolicyReloadNext]_policyReloadVars
  PROVE  PolicyReloadInv'
<1>1. CASE Administrator
  BY <1>1, AdministratorInv
<1>2. CASE ThreadWakes
  BY <1>2, ThreadWakesInv
<1>3. ASSUME NEW r \in Readers, Load(r) \/ Compare(r) \/ PutInForce(r) \/ Notify(r)
      PROVE  PolicyReloadInv'
  BY <1>3, LoadInv, CompareInv, PutInForceInv, NotifyInv
<1>4. CASE OpensEditor \/ SaveChecks \/ SaveFails
  BY <1>4, EditorInv
<1>5. CASE SaveReplaces
  BY <1>5, SaveReplacesInv
<1>6. ASSUME NEW w \in Panes,
             ShowsRibbon(w) \/ ShowsControl(w) \/ StartsPolicyBridge(w) \/ Invalidate(w)
      PROVE  PolicyReloadInv'
  BY <1>6, ShowsInv, StartsPolicyBridgeInv, InvalidateInv
<1>7. ASSUME NEW w \in Panes, NEW i \in 1..Len(enquiries[w]), Answers(w, i) \/ AnswerArrives(w, i)
      PROVE  PolicyReloadInv'
  BY <1>7, AnswersInv, AnswerArrivesInv
<1>8. CASE UNCHANGED policyReloadVars
  <2>1. PolicyReloadTypeOK' /\ CommandReads'
    BY <1>8 DEF PolicyReloadInv, PolicyReloadTypeOK, CommandReads, policyReloadVars
  <2> QED
    BY <1>8, <2>1, ElsewhereInv DEF policyReloadVars
<1> QED
  BY <1>1, <1>2, <1>3, <1>4, <1>5, <1>6, <1>7, <1>8 DEF PolicyReloadNext

\* Every state and every question keeps its form (policy/mod.rs, policyAccess.ts), and the
\* reads and the windows' questions keep up with the policy in force, where no two reads
\* coincide and every window listens before it asks.
THEOREM PolicyReloadInvariant ==
  ASSUME Coinciding = {}
  PROVE  PolicyReloadSpec => []PolicyReloadInv
<1>1. PolicyReloadInv /\ [PolicyReloadNext]_policyReloadVars => PolicyReloadInv'
  BY PolicyReloadStepInv
<1> QED
  BY <1>1, PolicyReloadInitInv, PTL DEF PolicyReloadSpec

\* LocksInForce: a window at rest shows the policy in force and its locks, or knows that it
\* does not know (policyAccess.ts invalidate, request), however reads, saves, announcements
\* and answers crossed, where no two reads coincide and every window listens before it asks.
THEOREM LocksKept ==
  ASSUME Coinciding = {}
  PROVE  PolicyReloadSpec => []LocksInForce
<1>1. ASSUME PolicyReloadInv PROVE LocksInForce
  <2>1. ASSUME NEW w \in Panes, panes[w].listens, NothingDue(w)
        PROVE  {panes[w].state, panes[w].locks} \subseteq {inForce, Unknown}
    <3>1. DOMAIN enquiries[w] = {} /\ HasHeard(w)
      BY <2>1 DEF NothingDue, HasHeard
    <3> QED
      BY <1>1, <3>1 DEF PolicyReloadInv, WindowsFollow, WindowFollows
  <2> QED
    BY <2>1 DEF LocksInForce
<1> QED
  BY <1>1, PolicyReloadInvariant, PTL

-----------------------------------------------------------------------------
(* Form, whatever coincides.                                               *)

\* A reader that goes to another standing.
LEMMA ReaderTyped ==
  ASSUME PolicyReloadTypeOK, NEW r \in Readers, NEW s \in Readings,
         reload' = [reload EXCEPT ![r] = s], inForce' \in States, command' \in Commands,
         anchor' \in Anchors, announced' \in [Panes -> Nat], policies' \in 0..MaxPolicies,
         wakes' \in 0..MaxWakes, UNCHANGED <<panes, enquiries>>
  PROVE  PolicyReloadTypeOK'
BY DEF PolicyReloadTypeOK

LEMMA ReadingTyped ==
  ASSUME PolicyReloadTypeOK, NEW r \in Readers
  PROVE  /\ reload[r] \in Readings /\ reload[r].pc \in {"asleep", "load", "compare", "change", "keep", "tell"}
         /\ reload[r].prev \in States /\ reload[r].next \in States
         /\ reload[r].tries \in 0..Retries /\ inForce \in States /\ command \in Commands
         /\ anchor \in Anchors /\ announced \in [Panes -> Nat] /\ panes \in [Panes -> PaneStates]
         /\ policies \in 0..MaxPolicies /\ wakes \in 0..MaxWakes
         /\ reload \in [Readers -> Readings]
BY DEF PolicyReloadTypeOK, Readings

\* The read begins.
LEMMA BeginTyped ==
  ASSUME PolicyReloadTypeOK, NEW r \in Readers, Begin(r)
  PROVE  \E s \in Readings : reload' = [reload EXCEPT ![r] = s]
<1> DEFINE s == [Asleep EXCEPT !.pc = "load", !.prev = inForce]
<1>1. s \in Readings
  BY StateTypes, ReadingTyped DEF Readings
<1>2. reload' = [reload EXCEPT ![r] = s]
  BY DEF Begin
<1> QED
  BY <1>1, <1>2

LEMMA LoadTyped ==
  ASSUME PolicyReloadTypeOK, NEW r \in Readers, Load(r)
  PROVE  PolicyReloadTypeOK'
<1>1. PICK found \in Loaded :
        LET again == /\ reload[r].prev.label = "active" /\ found = CannotRead
                     /\ reload[r].tries < Retries
        IN reload' = [reload EXCEPT ![r].pc = IF again THEN "load" ELSE "compare",
                                    ![r].next = found,
                                    ![r].tries = IF again THEN @ + 1 ELSE @]
  BY Zenon DEF Load
<1>2. found \in States
  BY EvaluatedType, StateTypes DEF Loaded, PolicyReloadTypeOK
<1>3. reload[r] \in Readings /\ reload \in [Readers -> Readings]
  BY DEF PolicyReloadTypeOK
<1> DEFINE again == /\ reload[r].prev.label = "active" /\ found = CannotRead
                    /\ reload[r].tries < Retries
           s == [reload[r] EXCEPT !.pc = IF again THEN "load" ELSE "compare", !.next = found,
                                  !.tries = IF again THEN @ + 1 ELSE @]
<1>4. reload' = [reload EXCEPT ![r] = s]
  BY <1>1, <1>3
<1>5. s \in Readings
  <2>1. reload[r].tries \in 0..Retries
    BY <1>3 DEF Readings
  <2>2. (IF again THEN reload[r].tries + 1 ELSE reload[r].tries) \in 0..Retries
    BY <2>1
  <2>3. (IF again THEN "load" ELSE "compare") \in {"load", "compare"}
    OBVIOUS
  <2> HIDE DEF again
  <2> QED
    BY <1>2, <1>3, <2>2, <2>3 DEF Readings
<1> HIDE DEF again, s
<1>6. UNCHANGED <<anchor, inForce, command, panes, enquiries, announced, policies, wakes>>
  BY DEF Load
<1> QED
  BY <1>4, <1>5, <1>6, ReadingTyped, ReaderTyped

LEMMA CompareTyped ==
  ASSUME PolicyReloadTypeOK, NEW r \in Readers, Compare(r)
  PROVE  PolicyReloadTypeOK'
<1> DEFINE before == IF r = "thread" THEN inForce ELSE reload[r].prev
           pc == IF reload[r].next # before THEN "change" ELSE "keep"
           s == [Asleep EXCEPT !.pc = pc, !.next = reload[r].next]
<1>1. UNCHANGED <<anchor, inForce, command, panes, enquiries, announced, policies, wakes>>
  BY DEF Compare
<1>2. reload' = [reload EXCEPT ![r] = s]
  BY DEF Compare
<1>3. pc \in {"change", "keep"} /\ reload[r].next \in States
  BY ReadingTyped
<1> HIDE DEF pc
<1>4. s \in Readings
  BY <1>3, StateTypes DEF Readings
<1> HIDE DEF s
<1> QED
  BY <1>1, <1>2, <1>4, ReadingTyped, ReaderTyped

LEMMA PutInForceTyped ==
  ASSUME PolicyReloadTypeOK, NEW r \in Readers, PutInForce(r)
  PROVE  PolicyReloadTypeOK'
<1> DEFINE tells == reload[r].pc = "change" \/ (r = "command" /\ ~command.creates)
           s == [Asleep EXCEPT !.pc = IF tells THEN "tell" ELSE @]
<1>1. /\ inForce' = reload[r].next /\ reload' = [reload EXCEPT ![r] = s]
      /\ command' = IF r = "command" /\ ~tells THEN NoCommand ELSE command
      /\ UNCHANGED <<anchor, panes, enquiries, announced, policies, wakes>>
  BY DEF PutInForce
<1>2. s \in Readings
  BY StateTypes DEF Readings
<1> HIDE DEF tells, s
<1>3. inForce' \in States /\ command' \in Commands
  BY <1>1, StateTypes, ReadingTyped
<1> QED
  BY <1>1, <1>2, <1>3, ReadingTyped, ReaderTyped

LEMMA NotifyTyped ==
  ASSUME PolicyReloadTypeOK, NEW r \in Readers, Notify(r)
  PROVE  PolicyReloadTypeOK'
<1>1. /\ reload' = [reload EXCEPT ![r] = Asleep]
      /\ announced' = [w \in Panes |-> IF panes[w].listens THEN announced[w] + 1 ELSE announced[w]]
      /\ command' = IF r = "command" THEN NoCommand ELSE command
      /\ UNCHANGED <<anchor, inForce, panes, enquiries, policies, wakes>>
  BY DEF Notify, Tell
<1>2. announced' \in [Panes -> Nat]
  BY <1>1, ReadingTyped
<1>3. command' \in Commands
  BY <1>1, StateTypes, ReadingTyped
<1> QED
  BY <1>1, <1>2, <1>3, StateTypes, ReadingTyped, ReaderTyped

LEMMA ThreadWakesTyped ==
  ASSUME PolicyReloadTypeOK, ThreadWakes
  PROVE  PolicyReloadTypeOK'
<1>1. "thread" \in Readers
  BY DEF Readers
<1>2. PICK s \in Readings : reload' = [reload EXCEPT !["thread"] = s]
  BY <1>1, BeginTyped DEF ThreadWakes
<1>3. /\ UNCHANGED <<anchor, inForce, command, panes, enquiries, announced, policies>>
      /\ wakes' \in 0..MaxWakes
  BY <1>1, ReadingTyped DEF ThreadWakes
<1> QED
  BY <1>1, <1>2, <1>3, ReadingTyped, ReaderTyped

LEMMA SaveReplacesTyped ==
  ASSUME PolicyReloadTypeOK, SaveReplaces
  PROVE  PolicyReloadTypeOK'
<1>1. "command" \in Readers
  BY DEF Readers
<1>2. PICK s \in Readings : reload' = [reload EXCEPT !["command"] = s]
  BY <1>1, BeginTyped DEF SaveReplaces
<1>3. /\ UNCHANGED <<inForce, panes, enquiries, announced, wakes>>
      /\ policies' \in 0..MaxPolicies
  BY <1>1, ReadingTyped DEF SaveReplaces
<1>4. command' \in Commands
  BY <1>1, ReadingTyped DEF SaveReplaces, Commands
<1>5. anchor' \in Anchors
  <2>1. PICK d \in Documents :
          anchor' = IF anchor.kind = "file" THEN [anchor EXCEPT !.doc = d, !.missing = FALSE]
                    ELSE anchor
    BY Zenon DEF SaveReplaces
  <2>2. anchor \in Anchors
    BY <1>1, ReadingTyped
  <2> QED
    BY <2>1, <2>2 DEF Anchors
<1> QED
  BY <1>1, <1>2, <1>3, <1>4, <1>5, ReadingTyped, ReaderTyped

LEMMA OutsideTyped ==
  ASSUME PolicyReloadTypeOK, Administrator \/ OpensEditor \/ SaveChecks \/ SaveFails
  PROVE  PolicyReloadTypeOK'
<1>1. CASE Administrator
  BY <1>1 DEF Administrator, PolicyReloadTypeOK
<1>2. CASE OpensEditor
  <2>1. anchor.doc \in Documents \cup {NoDocument} /\ anchor.missing \in BOOLEAN
    BY DEF PolicyReloadTypeOK, Anchors
  <2> QED
    BY <1>2, <2>1 DEF OpensEditor, PolicyReloadTypeOK, Commands
<1>3. CASE SaveChecks
  <2>1. [command EXCEPT !.pc = "replace", !.base = NoDocument] \in Commands
    BY DEF PolicyReloadTypeOK, Commands
  <2> QED
    BY <1>3, <2>1, StateTypes DEF SaveChecks, PolicyReloadTypeOK
<1>4. CASE SaveFails
  BY <1>4, StateTypes DEF SaveFails, PolicyReloadTypeOK
<1> QED
  BY <1>1, <1>2, <1>3, <1>4

\* One window goes on by itself.
LEMMA PaneTyped ==
  ASSUME PolicyReloadTypeOK, NEW w \in Panes, NEW p \in PaneStates, NEW q \in Seq(Enquiries),
         NEW n \in Nat, panes' = [panes EXCEPT ![w] = p], enquiries' = [enquiries EXCEPT ![w] = q],
         announced' = [announced EXCEPT ![w] = n],
         UNCHANGED <<anchor, inForce, reload, command, policies, wakes>>
  PROVE  PolicyReloadTypeOK'
BY DEF PolicyReloadTypeOK

LEMMA PaneHolds ==
  ASSUME PolicyReloadTypeOK, NEW w \in Panes
  PROVE  /\ panes \in [Panes -> PaneStates] /\ enquiries \in [Panes -> Seq(Enquiries)]
         /\ announced \in [Panes -> Nat] /\ announced[w] \in Nat
         /\ panes[w] \in PaneStates /\ panes[w].gen \in Nat
         /\ enquiries[w] \in Seq(Enquiries) /\ inForce \in States
         /\ \A i \in 1..Len(enquiries[w]) : enquiries[w][i] \in Enquiries
<1>1. /\ panes \in [Panes -> PaneStates] /\ enquiries \in [Panes -> Seq(Enquiries)]
      /\ announced \in [Panes -> Nat] /\ inForce \in States
  BY DEF PolicyReloadTypeOK
<1>2. panes[w] \in PaneStates /\ enquiries[w] \in Seq(Enquiries) /\ announced[w] \in Nat
  BY <1>1
<1>3. \A i \in 1..Len(enquiries[w]) : enquiries[w][i] \in Enquiries
  BY <1>2, ElementOfSeq
<1>4. panes[w].gen \in Nat
  BY <1>2 DEF PaneStates
<1> QED
  BY <1>1, <1>2, <1>3, <1>4

LEMMA PaneSame ==
  ASSUME PolicyReloadTypeOK, NEW w \in Panes
  PROVE  /\ enquiries = [enquiries EXCEPT ![w] = enquiries[w]]
         /\ panes = [panes EXCEPT ![w] = panes[w]]
         /\ announced = [announced EXCEPT ![w] = announced[w]]
BY DEF PolicyReloadTypeOK

LEMMA EnquiryTyped ==
  ASSUME PolicyReloadTypeOK, NEW w \in Panes, NEW g \in Nat, NEW about \in SUBSET {"connection"}
  PROVE  Enquiry(w, g, about) \in Seq(Enquiries)
<1> DEFINE e == [gen |-> g, about |-> about, answer |-> Unknown]
<1>1. e \in Enquiries
  BY StateTypes DEF Enquiries
<1>2. Enquiry(w, g, about) = Append(enquiries[w], e)
  BY DEF Enquiry
<1>3. enquiries[w] \in Seq(Enquiries)
  BY PaneHolds
<1> HIDE DEF e
<1> QED
  BY <1>1, <1>2, <1>3, AppendProperties

LEMMA AsksTyped ==
  ASSUME PolicyReloadTypeOK, NEW w \in Panes,
         ShowsRibbon(w) \/ ShowsControl(w) \/ StartsPolicyBridge(w) \/ Invalidate(w)
  PROVE  PolicyReloadTypeOK'
<1>1. ASSUME NEW about \in SUBSET {"connection"},
             enquiries' = [enquiries EXCEPT ![w] = Enquiry(w, panes[w].gen, about)],
             UNCHANGED <<anchor, inForce, reload, command, panes, announced, policies, wakes>>
      PROVE  PolicyReloadTypeOK'
  <2>1. panes[w] \in PaneStates /\ panes[w].gen \in Nat /\ announced[w] \in Nat
    BY PaneHolds
  <2>2. Enquiry(w, panes[w].gen, about) \in Seq(Enquiries)
    BY <2>1, EnquiryTyped
  <2>3. panes' = [panes EXCEPT ![w] = panes[w]] /\ announced' = [announced EXCEPT ![w] = announced[w]]
    BY <1>1, PaneSame
  <2> QED
    BY <1>1, <2>1, <2>2, <2>3, PaneTyped
<1>2. CASE ShowsRibbon(w)
  <2>1. /\ enquiries' = [enquiries EXCEPT ![w] = Enquiry(w, panes[w].gen, {})]
        /\ UNCHANGED <<anchor, inForce, reload, command, panes, announced, policies, wakes>>
    BY <1>2 DEF ShowsRibbon
  <2>2. {} \in SUBSET {"connection"}
    OBVIOUS
  <2> QED
    BY <2>1, <2>2, <1>1
<1>3. CASE ShowsControl(w)
  BY <1>3, <1>1 DEF ShowsControl
<1>4. CASE StartsPolicyBridge(w)
  <2> DEFINE p == [panes[w] EXCEPT !.listens = TRUE]
  <2>0. panes[w] \in PaneStates
    BY PaneHolds
  <2>1. p \in PaneStates
    BY <2>0 DEF PaneStates
  <2>2. panes' = [panes EXCEPT ![w] = p]
    BY <1>4 DEF StartsPolicyBridge
  <2> HIDE DEF p
  <2>3. UNCHANGED <<anchor, inForce, reload, command, enquiries, announced, policies, wakes>>
    BY <1>4 DEF StartsPolicyBridge
  <2>4. enquiries[w] \in Seq(Enquiries) /\ announced[w] \in Nat
    BY PaneHolds
  <2>5. /\ enquiries' = [enquiries EXCEPT ![w] = enquiries[w]]
        /\ announced' = [announced EXCEPT ![w] = announced[w]]
    BY <2>3, PaneSame
  <2> QED
    BY <2>1, <2>2, <2>3, <2>4, <2>5, PaneTyped
<1>5. CASE Invalidate(w)
  <2> DEFINE p == [panes[w] EXCEPT !.locks = Unknown, !.gen = @ + 1]
             about == IF panes[w].locks = Unknown THEN {} ELSE {"connection"}
  <2>0. panes[w] \in PaneStates /\ panes[w].gen + 1 \in Nat /\ Unknown \in States
    BY PaneHolds, StateTypes
  <2>1. p \in PaneStates
    BY <2>0 DEF PaneStates
  <2>2. /\ panes' = [panes EXCEPT ![w] = p]
        /\ enquiries' = [enquiries EXCEPT ![w] = Enquiry(w, panes[w].gen + 1, about)]
        /\ announced' = [announced EXCEPT ![w] = announced[w] - 1] /\ announced[w] > 0
        /\ UNCHANGED <<anchor, inForce, reload, command, policies, wakes>>
    BY <1>5 DEF Invalidate
  <2>3. about \in SUBSET {"connection"} /\ panes[w].gen + 1 \in Nat
    BY PaneHolds
  <2>4. announced[w] - 1 \in Nat
    BY <2>2, PaneHolds
  <2> HIDE DEF p, about
  <2>5. Enquiry(w, panes[w].gen + 1, about) \in Seq(Enquiries)
    BY <2>3, EnquiryTyped
  <2> QED
    BY <2>1, <2>2, <2>4, <2>5, PaneTyped
<1> QED
  BY <1>2, <1>3, <1>4, <1>5

LEMMA RepliesTyped ==
  ASSUME PolicyReloadTypeOK, NEW w \in Panes, NEW i \in 1..Len(enquiries[w]),
         Answers(w, i) \/ AnswerArrives(w, i)
  PROVE  PolicyReloadTypeOK'
<1> DEFINE e == enquiries[w][i]
<1>1. e \in Enquiries /\ e.answer \in States
  BY PaneHolds DEF Enquiries
<1>2. CASE Answers(w, i)
  <2> DEFINE q == [enquiries[w] EXCEPT ![i] = [e EXCEPT !.answer = inForce]]
  <2>1. [e EXCEPT !.answer = inForce] \in Enquiries
    BY <1>1, PaneHolds DEF Enquiries
  <2>2. q \in Seq(Enquiries)
    BY <2>1, PaneHolds, ExceptSeq
  <2>3. /\ enquiries' = [enquiries EXCEPT ![w] = q]
        /\ UNCHANGED <<anchor, inForce, reload, command, panes, announced, policies, wakes>>
    BY <1>2 DEF Answers
  <2> HIDE DEF q
  <2>4. panes[w] \in PaneStates /\ announced[w] \in Nat
    BY PaneHolds
  <2>5. panes' = [panes EXCEPT ![w] = panes[w]] /\ announced' = [announced EXCEPT ![w] = announced[w]]
    BY <2>3, PaneSame
  <2> QED
    BY <2>2, <2>3, <2>4, <2>5, PaneTyped
<1>3. CASE AnswerArrives(w, i)
  <2> DEFINE q == Less(enquiries[w], i)
             p == IF e.gen = panes[w].gen
                  THEN [panes[w] EXCEPT !.state = e.answer,
                                        !.locks = IF e.about = {} THEN @ ELSE e.answer]
                  ELSE panes[w]
  <2>1. enquiries' = [enquiries EXCEPT ![w] = q]
    BY <1>3 DEF AnswerArrives, Lists!RemoveAt, Less
  <2>2. panes' = [panes EXCEPT ![w] = p]
    BY <1>3, PaneSame DEF AnswerArrives, Learns
  <2>3. UNCHANGED <<anchor, inForce, reload, command, announced, policies, wakes>>
    BY <1>3 DEF AnswerArrives
  <2>4. p \in PaneStates
    BY <1>1, PaneHolds DEF PaneStates
  <2>5. DOMAIN enquiries[w] = 1..Len(enquiries[w])
    BY PaneHolds, LenProperties
  <2>6. q \in Seq(Enquiries)
    BY <2>5, PaneHolds, SameOthers
  <2> HIDE DEF p, q
  <2>7. announced[w] \in Nat
    BY PaneHolds
  <2>8. announced' = [announced EXCEPT ![w] = announced[w]]
    BY <2>3, PaneSame
  <2> QED
    BY <2>1, <2>2, <2>3, <2>4, <2>6, <2>7, <2>8, PaneTyped
<1> QED
  BY <1>2, <1>3

\* Every reading, question and answer keeps its form (policy/mod.rs PolicyState,
\* policyAccess.ts), also where two reads coincide and a window asks before it listens.
THEOREM PolicyReloadTyped == PolicyReloadSpec => []PolicyReloadTypeOK
<1>1. PolicyReloadInit => PolicyReloadTypeOK
  BY PolicyReloadInitInv DEF PolicyReloadInv
<1>2. ASSUME PolicyReloadTypeOK, [PolicyReloadNext]_policyReloadVars
      PROVE  PolicyReloadTypeOK'
  <2>1. ASSUME NEW r \in Readers, Load(r) \/ Compare(r) \/ PutInForce(r) \/ Notify(r)
        PROVE  PolicyReloadTypeOK'
    BY <1>2, <2>1, LoadTyped, CompareTyped, PutInForceTyped, NotifyTyped
  <2>2. CASE ThreadWakes \/ SaveReplaces
    BY <1>2, <2>2, ThreadWakesTyped, SaveReplacesTyped
  <2>3. CASE Administrator \/ OpensEditor \/ SaveChecks \/ SaveFails
    BY <1>2, <2>3, OutsideTyped
  <2>4. ASSUME NEW w \in Panes,
               ShowsRibbon(w) \/ ShowsControl(w) \/ StartsPolicyBridge(w) \/ Invalidate(w)
        PROVE  PolicyReloadTypeOK'
    BY <1>2, <2>4, AsksTyped
  <2>5. ASSUME NEW w \in Panes, NEW i \in 1..Len(enquiries[w]),
               Answers(w, i) \/ AnswerArrives(w, i)
        PROVE  PolicyReloadTypeOK'
    BY <1>2, <2>5, RepliesTyped
  <2>6. CASE UNCHANGED policyReloadVars
    BY <1>2, <2>6 DEF PolicyReloadTypeOK, policyReloadVars
  <2> QED
    BY <1>2, <2>1, <2>2, <2>3, <2>4, <2>5, <2>6 DEF PolicyReloadNext
<1> QED
  BY <1>1, <1>2, PTL DEF PolicyReloadSpec

=============================================================================
