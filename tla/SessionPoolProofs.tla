-------------------------- MODULE SessionPoolProofs --------------------------
(***************************************************************************)
(* What the pool of SQL Server sessions promises, for any number of        *)
(* callers, sessions and permits: it stays within its grant wherever the   *)
(* callers are, and where no ceiling strikes after a call's first          *)
(* statement, what it keeps for the next caller is fit for it.             *)
(***************************************************************************)
EXTENDS SessionPool, QueueFacts, FiniteSetTheorems, TLAPS

USE SessionPoolAssumption DEF SessionPoolAssumption

-----------------------------------------------------------------------------
(* The invariant.                                                          *)

\* The labels at which a caller has a session in its guard, and those at which it has a
\* permit.
Guarding == {"holding", "running", "clearing", "dropping"}
Permitting == Guarding \cup {"admitted", "connecting", "releasing"}
Permitted == {c \in Callers : caller[c].pc \in Permitting}

\* A caller has a session exactly while it works, up to the moment its guard lets go of one
\* whose transport failed.
SessionsGuarded ==
  \A c \in Callers :
    /\ caller[c].session # NoSession => caller[c].pc \in Guarding
    /\ caller[c].pc \in Guarding \ {"dropping"} => caller[c].session # NoSession

\* Who waits in the semaphore's queue is queued, and stands there once.
QueueOfQueued ==
  /\ \A i \in DOMAIN queue : In(queue[i], "queued")
  /\ \A i, j \in DOMAIN queue : queue[i] = queue[j] => i = j

\* Every permit is free or with a caller.
PermitsAccounted == permits + Cardinality(Permitted) = MaxSessions

SessionPoolInv ==
  /\ SessionPoolTypeOK /\ SessionsGuarded /\ QueueOfQueued
  /\ PermitsAccounted /\ WithinGrant

-----------------------------------------------------------------------------
(* Facts about finite sets.                                                *)

\* One member enters a finite set or leaves it, whether or not it was in it.
LEMMA InOrOut ==
  ASSUME NEW S, IsFiniteSet(S), NEW x, NEW T,
         T = S \cup {x} \/ T = S \ {x}
  PROVE  /\ IsFiniteSet(T) /\ Cardinality(T) \in Nat
         /\ Cardinality(T) = Cardinality(S) - (IF x \in S THEN 1 ELSE 0)
                                          + (IF x \in T THEN 1 ELSE 0)
<1>1. Cardinality(S) \in Nat
  BY FS_CardinalityType
<1>2. CASE T = S \cup {x}
  <2>1. IsFiniteSet(T) /\ Cardinality(T) = IF x \in S THEN Cardinality(S)
                                                     ELSE Cardinality(S) + 1
    BY <1>2, FS_AddElement
  <2> QED
    BY <1>1, <1>2, <2>1
<1>3. CASE T = S \ {x}
  <2>1. IsFiniteSet(T) /\ Cardinality(T) = IF x \in S THEN Cardinality(S) - 1
                                                     ELSE Cardinality(S)
    BY <1>3, FS_RemoveElement
  <2>2. Cardinality(T) \in Nat
    BY <2>1, FS_CardinalityType
  <2> QED
    BY <1>1, <1>3, <2>1, <2>2
<1> QED
  BY <1>2, <1>3

LEMMA SubsetsFinite ==
  /\ IsFiniteSet(Permitted) /\ Cardinality(Permitted) \in Nat
  /\ IsFiniteSet(Occupied) /\ Cardinality(Occupied) \in Nat
<1>1. Permitted \in SUBSET Callers /\ Occupied \in SUBSET Callers
  BY DEF Permitted, Occupied
<1> QED
  BY <1>1, FS_Subset, FS_CardinalityType DEF SessionPoolAssumption

-----------------------------------------------------------------------------
(* A step of one caller.                                                   *)

Occupies(r) == r.pc = "connecting" \/ r.session # NoSession

LEMMA Moves ==
  ASSUME SessionPoolTypeOK, NEW c \in Callers, NEW r \in Standings,
         caller' = [caller EXCEPT ![c] = r]
  PROVE  /\ caller' \in [Callers -> Standings] /\ caller'[c] = r
         /\ \A d \in Callers \ {c} : caller'[d] = caller[d]
         /\ Permitted' = IF r.pc \in Permitting THEN Permitted \cup {c} ELSE Permitted \ {c}
         /\ Occupied' = IF Occupies(r) THEN Occupied \cup {c} ELSE Occupied \ {c}
<1>1. /\ caller' \in [Callers -> Standings] /\ caller'[c] = r
      /\ \A d \in Callers \ {c} : caller'[d] = caller[d]
  BY DEF SessionPoolTypeOK
<1> QED
  BY <1>1, Zenon DEF Permitted, Occupied, Occupies, In

\* What a step of c may do to the permits and to the stack, given where it leaves c.
StaysWithin(c, r) ==
  /\ r.session # NoSession => r.pc \in Guarding
  /\ r.pc \in Guarding \ {"dropping"} => r.session # NoSession
  /\ permits' = permits + (IF caller[c].pc \in Permitting THEN 1 ELSE 0)
                        - (IF r.pc \in Permitting THEN 1 ELSE 0)
  /\ \/ idle' = <<>> /\ r.pc \in Permitting
     \/ Len(idle') + (IF Occupies(r) THEN 1 ELSE 0)
          <= Len(idle) + (IF Occupies(caller[c]) THEN 1 ELSE 0)

LEMMA StepWithin ==
  ASSUME SessionPoolInv, NEW c \in Callers, NEW r \in Standings,
         caller' = [caller EXCEPT ![c] = r], idle' \in Seq(TdsSessions), permits' \in Nat,
         StaysWithin(c, r)
  PROVE  SessionsGuarded' /\ PermitsAccounted' /\ WithinGrant' /\ permits' \in 0..MaxSessions
<1> USE DEF SessionPoolInv
<1>1. /\ caller' \in [Callers -> Standings] /\ caller'[c] = r
      /\ \A d \in Callers \ {c} : caller'[d] = caller[d]
      /\ Permitted' = IF r.pc \in Permitting THEN Permitted \cup {c} ELSE Permitted \ {c}
      /\ Occupied' = IF Occupies(r) THEN Occupied \cup {c} ELSE Occupied \ {c}
  BY Moves
<1>2. SessionsGuarded'
  BY <1>1, Zenon DEF SessionsGuarded, StaysWithin
<1>3. /\ (c \in Permitted <=> caller[c].pc \in Permitting)
      /\ (c \in Occupied <=> Occupies(caller[c]))
  BY Zenon DEF Permitted, Occupied, Occupies, In
<1>4. /\ Cardinality(Permitted') = Cardinality(Permitted)
           - (IF caller[c].pc \in Permitting THEN 1 ELSE 0) + (IF r.pc \in Permitting THEN 1 ELSE 0)
      /\ Cardinality(Permitted') \in Nat /\ IsFiniteSet(Permitted')
  <2>1. IsFiniteSet(Permitted) /\ (Permitted' = Permitted \cup {c} \/ Permitted' = Permitted \ {c})
    BY <1>1, SubsetsFinite
  <2>2. c \in Permitted' <=> r.pc \in Permitting
    BY <1>1
  <2>3. /\ Cardinality(Permitted') \in Nat /\ IsFiniteSet(Permitted')
        /\ Cardinality(Permitted') = Cardinality(Permitted) - (IF c \in Permitted THEN 1 ELSE 0)
                                             + (IF c \in Permitted' THEN 1 ELSE 0)
    BY <2>1, InOrOut
  <2> QED
    BY <1>3, <2>2, <2>3
<1>5. /\ Cardinality(Occupied') = Cardinality(Occupied)
           - (IF Occupies(caller[c]) THEN 1 ELSE 0) + (IF Occupies(r) THEN 1 ELSE 0)
      /\ Cardinality(Occupied') \in Nat /\ IsFiniteSet(Occupied')
  <2>1. IsFiniteSet(Occupied) /\ (Occupied' = Occupied \cup {c} \/ Occupied' = Occupied \ {c})
    BY <1>1, SubsetsFinite
  <2>2. c \in Occupied' <=> Occupies(r)
    BY <1>1
  <2>3. /\ Cardinality(Occupied') \in Nat /\ IsFiniteSet(Occupied')
        /\ Cardinality(Occupied') = Cardinality(Occupied) - (IF c \in Occupied THEN 1 ELSE 0)
                                             + (IF c \in Occupied' THEN 1 ELSE 0)
    BY <2>1, InOrOut
  <2> QED
    BY <1>3, <2>2, <2>3
<1>6. /\ permits \in Nat /\ Len(idle) \in Nat /\ Len(idle') \in Nat
      /\ Cardinality(Permitted) \in Nat /\ Cardinality(Occupied) \in Nat /\ MaxSessions \in Nat
  BY SubsetsFinite, LenProperties DEF SessionPoolTypeOK, SessionPoolAssumption
<1>7. PermitsAccounted' /\ permits' \in 0..MaxSessions
  <2>1. permits' + Cardinality(Permitted') = MaxSessions
    BY <1>4, <1>6 DEF StaysWithin, PermitsAccounted
  <2> QED
    BY <2>1, <1>4, <1>6 DEF PermitsAccounted
<1>8. WithinGrant'
  <2>1. CASE idle' = <<>> /\ r.pc \in Permitting
    <3>1. Occupied' \in SUBSET Permitted'
      BY <1>1, <1>2, Zenon DEF SessionsGuarded, Occupied, Permitted, Permitting, In
    <3>2. Cardinality(Occupied') <= Cardinality(Permitted')
      BY <3>1, <1>4, FS_Subset
    <3>3. Cardinality(Permitted') <= MaxSessions
      BY <1>4, <1>6, <1>7 DEF PermitsAccounted
    <3>4. Len(idle') = 0
      BY <2>1, EmptySeq
    <3> QED
      BY <1>4, <1>5, <1>6, <3>2, <3>3, <3>4 DEF WithinGrant
  <2>2. CASE Len(idle') + (IF Occupies(r) THEN 1 ELSE 0)
               <= Len(idle) + (IF Occupies(caller[c]) THEN 1 ELSE 0)
    BY <1>5, <1>6, <2>2 DEF WithinGrant
  <2> QED
    BY <2>1, <2>2 DEF StaysWithin
<1> QED
  BY <1>2, <1>7, <1>8

\* A step of a caller that does not wait, and after which it does not either.
LEMMA StepOfWorking ==
  ASSUME SessionPoolInv, NEW c \in Callers, NEW r \in Standings, caller[c].pc # "queued",
         caller' = [caller EXCEPT ![c] = r], idle' \in Seq(TdsSessions), permits' \in Nat,
         StaysWithin(c, r), UNCHANGED <<closed, queue>>,
         midway' \subseteq TdsSessions, inTx' \subseteq TdsSessions
  PROVE  SessionPoolInv'
<1> USE DEF SessionPoolInv
<1>1. SessionsGuarded' /\ PermitsAccounted' /\ WithinGrant' /\ permits' \in 0..MaxSessions
  BY StepWithin
<1>2. /\ caller' \in [Callers -> Standings]
      /\ \A d \in Callers \ {c} : caller'[d] = caller[d]
  BY Moves
<1>3. SessionPoolTypeOK'
  BY <1>1, <1>2 DEF SessionPoolTypeOK
<1>4. QueueOfQueued'
  <2>1. \A i \in DOMAIN queue : queue[i] \in Callers /\ queue[i] # c
    BY LenProperties, ElementOfSeq DEF QueueOfQueued, In, SessionPoolTypeOK
  <2> QED
    BY <1>2, <2>1 DEF QueueOfQueued, In
<1> QED
  BY <1>1, <1>3, <1>4

-----------------------------------------------------------------------------
(* The invariant holds at the start and after every step.                  *)

LEMMA InitInv == SessionPoolInit => SessionPoolInv
<1> SUFFICES ASSUME SessionPoolInit PROVE SessionPoolInv
  OBVIOUS
<1> USE DEF SessionPoolInit
<1>1. SessionPoolTypeOK
  <2>1. Away \in Standings
    BY DEF Away, Standings, Labels, Jobs, Stages
  <2>2. queue \in Seq(Callers) /\ idle \in Seq(TdsSessions)
    BY EmptySeq
  <2>3. caller \in [Callers -> Standings]
    BY <2>1
  <2>4. permits \in 0..MaxSessions
    OBVIOUS
  <2> QED
    BY <2>2, <2>3, <2>4, Zenon DEF SessionPoolTypeOK
<1>2. Permitted = {} /\ Occupied = {}
  BY DEF Permitted, Occupied, Permitting, Guarding, In, Away
<1>3. PermitsAccounted /\ WithinGrant
  BY <1>2, FS_EmptySet, EmptySeq DEF PermitsAccounted, WithinGrant, SessionPoolAssumption
<1> QED
  BY <1>1, <1>3, EmptySeq
     DEF SessionPoolInv, SessionsGuarded, QueueOfQueued, Guarding, Away

LEMMA AskInv ==
  ASSUME SessionPoolInv, NEW c \in Callers, NEW job \in Jobs, Ask(c, job)
  PROVE  SessionPoolInv'
<1> DEFINE r == [Away EXCEPT !.pc = "queued", !.job = job, !.stage = FirstStage(job)]
<1> USE DEF SessionPoolInv
<1>1. r \in Standings /\ r.pc = "queued" /\ r.session = NoSession
  BY DEF Away, Standings, Labels, Jobs, Stages, FirstStage
<1>2. /\ caller' = [caller EXCEPT ![c] = r] /\ In(c, "away")
      /\ UNCHANGED <<closed, permits, idle, midway, inTx>> /\ queue' = Append(queue, c)
  BY DEF Ask
<1> HIDE DEF r
<1>3. caller[c].session = NoSession
  BY <1>2 DEF SessionsGuarded, Guarding, In
<1>4. StaysWithin(c, r)
  BY <1>1, <1>2, <1>3, LenProperties
     DEF StaysWithin, Occupies, Permitting, Guarding, In, SessionPoolTypeOK
<1>5. SessionsGuarded' /\ PermitsAccounted' /\ WithinGrant' /\ permits' \in 0..MaxSessions
  <2>1. idle' \in Seq(TdsSessions) /\ permits' \in Nat
    BY <1>2 DEF SessionPoolTypeOK
  <2> QED
    BY <1>1, <1>2, <1>4, <2>1, StepWithin
<1>6. /\ caller' \in [Callers -> Standings] /\ caller'[c] = r
      /\ \A d \in Callers \ {c} : caller'[d] = caller[d]
  BY <1>1, <1>2, Moves
<1>7. /\ queue' \in Seq(Callers) /\ Len(queue') = Len(queue) + 1 /\ Len(queue) \in Nat
      /\ DOMAIN queue = 1..Len(queue) /\ DOMAIN queue' = 1..Len(queue) + 1
      /\ \A i \in 1..Len(queue) : queue'[i] = queue[i]
      /\ queue'[Len(queue) + 1] = c
  BY <1>2, AppendProperties, LenProperties DEF SessionPoolTypeOK
<1>8. SessionPoolTypeOK'
  BY <1>2, <1>5, <1>6, <1>7 DEF SessionPoolTypeOK
<1>9. QueueOfQueued'
  <2>1. \A i \in 1..Len(queue) : queue[i] \in Callers /\ queue[i] # c /\ In(queue[i], "queued")
    BY <1>2, <1>7, ElementOfSeq DEF QueueOfQueued, In, SessionPoolTypeOK
  <2>2. \A i \in DOMAIN queue' : caller'[queue'[i]].pc = "queued"
    BY <1>1, <1>6, <1>7, <2>1 DEF In
  <2>3. \A i, j \in DOMAIN queue' : queue'[i] = queue'[j] => i = j
    BY <1>7, <2>1 DEF QueueOfQueued
  <2> QED
    BY <2>2, <2>3 DEF QueueOfQueued, In
<1> QED
  BY <1>5, <1>8, <1>9

\* The head of the queue leaves it with a permit.
LEMMA AdmitInv ==
  ASSUME SessionPoolInv, NEW c \in Callers, Admit(c)
  PROVE  SessionPoolInv'
<1> DEFINE r == [caller[c] EXCEPT !.pc = "admitted"]
<1> USE DEF SessionPoolInv
<1>1. /\ queue # <<>> /\ c = Head(queue) /\ queue' = Tail(queue) /\ permits > 0
      /\ permits' = permits - 1 /\ UNCHANGED <<closed, idle, midway, inTx>>
      /\ caller' = [caller EXCEPT ![c] = r]
  BY DEF Admit, Step
<1>2. /\ Len(queue) \in Nat \ {0} /\ c = queue[1]
      /\ Tail(queue) \in Seq(Callers) /\ Len(Tail(queue)) = Len(queue) - 1
      /\ \A i \in 1..Len(queue) - 1 : Tail(queue)[i] = queue[i + 1]
      /\ DOMAIN queue = 1..Len(queue) /\ DOMAIN queue' = 1..Len(queue) - 1
  BY <1>1, HeadTailProperties, EmptySeq, LenProperties DEF SessionPoolTypeOK
<1>3. caller[c].pc = "queued" /\ caller[c].session = NoSession
  BY <1>2 DEF QueueOfQueued, In, SessionsGuarded, Guarding
<1>4. r \in Standings /\ r.pc = "admitted" /\ r.session = NoSession
  BY <1>3 DEF SessionPoolTypeOK, Standings, Labels
<1> HIDE DEF r
<1>5. permits' \in Nat /\ permits \in Nat /\ idle' \in Seq(TdsSessions) /\ Len(idle) \in Nat
  BY <1>1, LenProperties DEF SessionPoolTypeOK
<1>6. StaysWithin(c, r)
  BY <1>1, <1>3, <1>4, <1>5 DEF StaysWithin, Occupies, Permitting, Guarding
<1>7. SessionsGuarded' /\ PermitsAccounted' /\ WithinGrant' /\ permits' \in 0..MaxSessions
  BY <1>1, <1>4, <1>5, <1>6, StepWithin
<1>8. /\ caller' \in [Callers -> Standings]
      /\ \A d \in Callers \ {c} : caller'[d] = caller[d]
  BY <1>1, <1>4, Moves
<1>9. SessionPoolTypeOK'
  BY <1>1, <1>2, <1>7, <1>8 DEF SessionPoolTypeOK
<1>10. QueueOfQueued'
  <2>1. \A i \in 1..Len(queue) - 1 :
          queue[i + 1] \in Callers /\ queue[i + 1] # c /\ In(queue[i + 1], "queued")
    BY <1>2, ElementOfSeq DEF QueueOfQueued, SessionPoolTypeOK
  <2> QED
    BY <1>1, <1>2, <1>8, <2>1 DEF QueueOfQueued, In
<1> QED
  BY <1>7, <1>9, <1>10

\* Who gives up waiting leaves the queue, and holds nothing.
LEMMA StopsWaitingInv ==
  ASSUME SessionPoolInv, NEW c \in Callers, In(c, "queued"), StopsWaiting(c), Leave(c),
         UNCHANGED <<closed, permits, idle, midway, inTx>>
  PROVE  SessionPoolInv'
<1> USE DEF SessionPoolInv
<1>1. Away \in Standings /\ Away.pc = "away" /\ Away.session = NoSession
  BY DEF Away, Standings, Labels, Jobs, Stages
<1>2. caller' = [caller EXCEPT ![c] = Away]
  BY DEF Leave
<1>3. caller[c].pc = "queued" /\ caller[c].session = NoSession
  BY DEF In, SessionsGuarded, Guarding
<1>4. permits' \in Nat /\ permits \in Nat /\ idle' \in Seq(TdsSessions) /\ Len(idle) \in Nat
  BY LenProperties DEF SessionPoolTypeOK
<1>5. StaysWithin(c, Away)
  BY <1>1, <1>3, <1>4 DEF StaysWithin, Occupies, Permitting, Guarding
<1>6. SessionsGuarded' /\ PermitsAccounted' /\ WithinGrant' /\ permits' \in 0..MaxSessions
  BY <1>1, <1>2, <1>4, <1>5, StepWithin
<1>7. /\ caller' \in [Callers -> Standings]
      /\ \A d \in Callers \ {c} : caller'[d] = caller[d]
  BY <1>1, <1>2, Moves
<1>8. /\ queue' \in Seq(Callers)
      /\ \A j \in DOMAIN queue' : queue'[j] # c /\ \E k \in DOMAIN queue : queue'[j] = queue[k]
      /\ \A j, k \in DOMAIN queue' : queue'[j] = queue'[k] => j = k
  <2>1. PICK i \in DOMAIN queue :
          /\ queue[i] = c
          /\ queue' = SubSeq(queue, 1, i - 1) \o SubSeq(queue, i + 1, Len(queue))
    BY DEF StopsWaiting
  <2>2. queue \in Seq(Callers) /\ \A j, k \in DOMAIN queue : queue[j] = queue[k] => j = k
    BY DEF SessionPoolTypeOK, QueueOfQueued
  <2>3. /\ queue' \in Seq(Callers)
        /\ \A j \in DOMAIN queue' :
             queue'[j] # queue[i] /\ \E k \in DOMAIN queue : queue'[j] = queue[k]
        /\ \A j, k \in DOMAIN queue' : queue'[j] = queue'[k] => j = k
    <3>1. queue' = Less(queue, i)
      BY <2>1 DEF Less
    <3> DEFINE r == Less(queue, i)
    <3>2. /\ r \in Seq(Callers)
          /\ \A j \in DOMAIN r : r[j] # queue[i] /\ \E k \in DOMAIN queue : r[j] = queue[k]
          /\ \A j, k \in DOMAIN r : r[j] = r[k] => j = k
      BY <2>2, OneLeaves
    <3> QED
      BY <3>1, <3>2
  <2> QED
    BY <2>1, <2>3
<1>9. SessionPoolTypeOK'
  BY <1>6, <1>7, <1>8 DEF SessionPoolTypeOK
<1>10. QueueOfQueued'
  <2>1. \A j \in DOMAIN queue' : caller'[queue'[j]].pc = "queued"
    <3>1. \A k \in DOMAIN queue : queue[k] \in Callers /\ caller[queue[k]].pc = "queued"
      BY LenProperties, ElementOfSeq DEF QueueOfQueued, In, SessionPoolTypeOK
    <3> QED
      BY <1>7, <1>8, <3>1
  <2> QED
    BY <1>8, <2>1 DEF QueueOfQueued, In
<1> QED
  BY <1>6, <1>9, <1>10

LEMMA TakeInv ==
  ASSUME SessionPoolInv, NEW c \in Callers, Take(c)
  PROVE  SessionPoolInv'
<1> USE DEF SessionPoolInv
<1>1. /\ caller[c] \in Standings /\ caller[c].pc = "admitted" /\ caller[c].session = NoSession
      /\ permits \in Nat /\ permits' = permits /\ UNCHANGED <<closed, queue, midway, inTx>>
      /\ idle \in Seq(TdsSessions) /\ Len(idle) \in Nat
      /\ midway \subseteq TdsSessions /\ inTx \subseteq TdsSessions
  BY LenProperties DEF Take, In, SessionPoolTypeOK, SessionsGuarded, Guarding
<1>2. PICK n \in 1..Len(idle) + 1 :
        IF Unexpired(n) = <<>>
          THEN Step(c, "connecting") /\ idle' = <<>>
          ELSE /\ caller' = [caller EXCEPT ![c].pc = "holding", ![c].session = idle[Len(idle)]]
               /\ idle' = SubSeq(idle, n, Len(idle) - 1)
  BY DEF Take
<1>3. CASE Unexpired(n) = <<>>
  <2> DEFINE r == [caller[c] EXCEPT !.pc = "connecting"]
  <2>1. caller' = [caller EXCEPT ![c] = r] /\ idle' = <<>> /\ idle' \in Seq(TdsSessions)
    BY <1>2, <1>3, EmptySeq DEF Step
  <2>2. r \in Standings /\ r.pc = "connecting" /\ r.session = NoSession
    BY <1>1 DEF Standings, Labels
  <2> HIDE DEF r
  <2>3. StaysWithin(c, r)
    BY <1>1, <2>1, <2>2 DEF StaysWithin, Permitting, Guarding
  <2> QED
    BY <1>1, <2>1, <2>2, <2>3, StepOfWorking
<1>4. CASE Unexpired(n) # <<>>
  <2> DEFINE s == idle[Len(idle)]
             r == [caller[c] EXCEPT !.pc = "holding", !.session = s]
  <2>1. Len(idle) \in 1..Len(idle) /\ s \in TdsSessions
    <3>1. Len(idle) # 0
      BY <1>1, <1>2, <1>4, SubSeqEmpty DEF Unexpired
    <3> QED
      BY <1>1, <3>1, ElementOfSeq
  <2>2. caller' = [caller EXCEPT ![c] = r] /\ idle' = SubSeq(idle, n, Len(idle) - 1)
    BY <1>2, <1>4
  <2>3. r \in Standings /\ r.pc = "holding" /\ r.session = s /\ s # NoSession
    BY <1>1, <2>1 DEF Standings, Labels
  <2> HIDE DEF r, s
  <2>4. idle' \in Seq(TdsSessions) /\ Len(idle') <= Len(idle) - 1 /\ Len(idle') \in Nat
    <3>1. Len(idle) - 1 \in 0..Len(idle)
      BY <1>1, <2>1
    <3>2. /\ SubSeq(idle, n, Len(idle) - 1) \in Seq(TdsSessions)
          /\ Len(SubSeq(idle, n, Len(idle) - 1)) =
               IF n <= Len(idle) - 1 THEN (Len(idle) - 1) - n + 1 ELSE 0
      BY <1>1, <3>1, PartOf
    <3>3. Len(idle') = IF n <= Len(idle) - 1 THEN (Len(idle) - 1) - n + 1 ELSE 0
      BY <2>2, <3>2
    <3> QED
      BY <1>1, <2>1, <2>2, <3>2, <3>3
  <2>5. StaysWithin(c, r)
    BY <1>1, <2>3, <2>4 DEF StaysWithin, Permitting, Guarding, Occupies
  <2> QED
    BY <1>1, <2>2, <2>3, <2>4, <2>5, StepOfWorking
<1> QED
  BY <1>3, <1>4

LEMMA ConnectsInv ==
  ASSUME SessionPoolInv, NEW c \in Callers, Connects(c)
  PROVE  SessionPoolInv'
<1> USE DEF SessionPoolInv
<1>1. PICK s \in TdsSessions : /\ caller' = [caller EXCEPT ![c].pc = "holding", ![c].session = s]
                               /\ Gone(s)
  BY DEF Connects
<1> DEFINE r == [caller[c] EXCEPT !.pc = "holding", !.session = s]
<1>2. /\ caller[c] \in Standings /\ caller[c].pc = "connecting" /\ permits \in Nat
      /\ UNCHANGED <<closed, permits, queue, idle>> /\ idle \in Seq(TdsSessions)
      /\ Len(idle) \in Nat /\ midway' \subseteq TdsSessions /\ inTx' \subseteq TdsSessions
  BY <1>1, LenProperties DEF Connects, Gone, In, SessionPoolTypeOK
<1>3. r \in Standings /\ r.pc = "holding" /\ r.session = s /\ s # NoSession
  BY <1>2 DEF Standings, Labels
<1>4. caller' = [caller EXCEPT ![c] = r]
  BY <1>1
<1> HIDE DEF r
<1>5. StaysWithin(c, r)
  BY <1>2, <1>3 DEF StaysWithin, Permitting, Guarding, Occupies
<1> QED
  BY <1>2, <1>3, <1>4, <1>5, StepOfWorking

\* A caller that has no session goes away, and its permit with it if it had one.
LEMMA LeavesInv ==
  ASSUME SessionPoolInv, NEW c \in Callers, Leave(c),
         \/ caller[c].pc \in {"admitted", "connecting", "releasing"} /\ permits' = permits + 1
         \/ caller[c].pc \in {"away", "reaping"} /\ permits' = permits,
         idle' \in Seq(TdsSessions), Len(idle') <= Len(idle), UNCHANGED <<closed, queue, midway, inTx>>
  PROVE  SessionPoolInv'
<1> USE DEF SessionPoolInv
<1>1. /\ Away \in Standings /\ Away.pc = "away" /\ Away.session = NoSession
      /\ caller' = [caller EXCEPT ![c] = Away]
  BY DEF Away, Standings, Labels, Jobs, Stages, Leave
<1>2. /\ permits \in Nat /\ permits' \in Nat /\ Len(idle) \in Nat /\ Len(idle') \in Nat
      /\ midway' \subseteq TdsSessions /\ inTx' \subseteq TdsSessions
  BY LenProperties DEF SessionPoolTypeOK
<1>3. caller[c].session = NoSession
  BY DEF SessionsGuarded, Guarding
<1>4. StaysWithin(c, Away)
  BY <1>1, <1>2, <1>3 DEF StaysWithin, Permitting, Guarding, Occupies
<1> QED
  BY <1>1, <1>2, <1>4, StepOfWorking

\* A statement begins or ends, or the guard goes, on a session that the caller keeps or that
\* the guard lets go.
LEMMA WorksInv ==
  ASSUME SessionPoolInv, NEW c \in Callers, NEW r \in Standings,
         caller' = [caller EXCEPT ![c] = r],
         caller[c].pc \in Guarding, r.pc \in Guarding \cup {"releasing"},
         r.session = caller[c].session \/ (r.session = NoSession /\ r.pc \in {"dropping", "releasing"}),
         r.pc = "releasing" => r.session = NoSession,
         caller[c].pc # "dropping" \/ r.pc = "releasing",
         UNCHANGED <<closed, permits, queue>>, idle' \in Seq(TdsSessions),
         \/ Len(idle') <= Len(idle)
         \/ Len(idle') = Len(idle) + 1 /\ caller[c].session # NoSession /\ r.session = NoSession,
         midway' \subseteq TdsSessions, inTx' \subseteq TdsSessions
  PROVE  SessionPoolInv'
<1> USE DEF SessionPoolInv
<1>1. /\ permits \in Nat /\ permits' \in Nat /\ Len(idle) \in Nat /\ Len(idle') \in Nat
      /\ caller[c].pc \in Guarding \ {"dropping"} => caller[c].session # NoSession
  BY LenProperties DEF SessionPoolTypeOK, SessionsGuarded
<1>2. StaysWithin(c, r)
  BY <1>1 DEF StaysWithin, Permitting, Guarding, Occupies
<1> QED
  BY <1>1, <1>2, StepOfWorking DEF Guarding

\* What a caller that works has.
LEMMA Works ==
  ASSUME SessionPoolInv, NEW c \in Callers, caller[c].pc \in Guarding
  PROVE  /\ caller[c] \in Standings /\ idle \in Seq(TdsSessions) /\ Len(idle) \in Nat
         /\ caller[c].pc # "dropping" => caller[c].session \in TdsSessions
         /\ midway \subseteq TdsSessions /\ inTx \subseteq TdsSessions
BY LenProperties DEF SessionPoolInv, SessionPoolTypeOK, SessionsGuarded, Standings, Guarding

LEMMA RunInv ==
  ASSUME SessionPoolInv, NEW c \in Callers, Run(c)
  PROVE  SessionPoolInv'
<1> DEFINE r == [caller[c] EXCEPT !.pc = "running"]
<1>1. /\ caller[c].pc = "holding" /\ caller' = [caller EXCEPT ![c] = r]
      /\ midway' = midway \cup {caller[c].session} /\ UNCHANGED <<closed, permits, queue, idle, inTx>>
  BY DEF Run, In, Step
<1>2. /\ caller[c] \in Standings /\ idle \in Seq(TdsSessions) /\ Len(idle) \in Nat
      /\ caller[c].session \in TdsSessions
      /\ midway \subseteq TdsSessions /\ inTx \subseteq TdsSessions
  BY <1>1, Works DEF Guarding
<1>3. r \in Standings /\ r.pc = "running" /\ r.session = caller[c].session
  BY <1>2 DEF Standings, Labels
<1> HIDE DEF r
<1>4. /\ UNCHANGED <<closed, permits, queue>> /\ idle' \in Seq(TdsSessions)
      /\ Len(idle') <= Len(idle) /\ midway' \subseteq TdsSessions /\ inTx' \subseteq TdsSessions
  BY <1>1, <1>2
<1>5. /\ caller[c].pc \in Guarding /\ r.pc \in Guarding \cup {"releasing"}
      /\ r.pc # "releasing" /\ caller[c].pc # "dropping"
  BY <1>1, <1>3 DEF Guarding
<1> QED
  BY <1>1, <1>3, <1>4, <1>5, WorksInv

\* classify sends the caller on with a guard that is healthy again.
LEMMA GoesInv ==
  ASSUME SessionPoolInv, NEW c \in Callers, In(c, "running"),
         NEW label \in {"holding", "clearing", "dropping"}, NEW stage \in Stages,
         Goes(c, label, stage), UNCHANGED <<closed, permits, queue, idle>>,
         midway' \subseteq TdsSessions, inTx' \subseteq TdsSessions
  PROVE  SessionPoolInv'
<1> DEFINE r == [caller[c] EXCEPT !.pc = label, !.stage = stage, !.healthy = TRUE]
<1>1. caller[c].pc = "running" /\ caller' = [caller EXCEPT ![c] = r]
  BY DEF In, Goes
<1>2. caller[c] \in Standings /\ idle \in Seq(TdsSessions) /\ Len(idle) \in Nat
  BY <1>1, Works DEF Guarding
<1>3. r \in Standings /\ r.pc = label /\ r.session = caller[c].session
  BY <1>2 DEF Standings, Labels
<1> HIDE DEF r
<1>4. /\ UNCHANGED <<closed, permits, queue>> /\ idle' \in Seq(TdsSessions)
      /\ Len(idle') <= Len(idle) /\ midway' \subseteq TdsSessions /\ inTx' \subseteq TdsSessions
  BY <1>1, <1>2
<1>5. /\ caller[c].pc \in Guarding /\ r.pc \in Guarding \cup {"releasing"}
      /\ r.pc # "releasing" /\ caller[c].pc # "dropping"
  BY <1>1, <1>3 DEF Guarding
<1> QED
  BY <1>1, <1>3, <1>4, <1>5, WorksInv

\* What a statement that ends makes of the session's stream and transaction.
Settles(c) ==
  /\ midway' = midway \ {caller[c].session}
  /\ inTx' \in {inTx, inTx \cup {caller[c].session}, inTx \ {caller[c].session}}

LEMMA StatementEnds ==
  ASSUME SessionPoolInv, NEW c \in Callers, Succeeds(c) \/ Refused(c)
  PROVE  /\ In(c, "running") /\ UNCHANGED <<closed, permits, queue, idle>> /\ Settles(c)
         /\ \E label \in {"holding", "clearing", "dropping"}, stage \in Stages :
              Goes(c, label, stage)
<1>1. caller[c].stage \in Stages
  BY DEF SessionPoolInv, SessionPoolTypeOK, Standings
<1>2. CASE Succeeds(c)
  <2>1. In(c, "running") /\ UNCHANGED <<closed, permits, queue, idle>> /\ Settles(c)
    BY <1>2, Zenon DEF Succeeds, Settles
  <2>2. \E label \in {"holding", "clearing", "dropping"}, stage \in Stages : Goes(c, label, stage)
    <3> DEFINE to == caller[c].stage
    <3>1. CASE to = "first"
      BY <1>1, <1>2, <3>1 DEF Succeeds, Ends, Stages
    <3>2. CASE to = "more"
      BY <1>1, <1>2, <3>2 DEF Succeeds, Ends, Stages
    <3>3. CASE to = "begin"
      BY <1>1, <1>2, <3>3 DEF Succeeds, Ends, Stages
    <3>4. CASE to = "execute"
      BY <1>1, <1>2, <3>4 DEF Succeeds, Ends, Stages
    <3>5. CASE to \in {"commit", "rollback"}
      BY <1>1, <1>2, <3>5 DEF Succeeds, Ends, Stages
    <3> QED
      BY <1>1, <3>1, <3>2, <3>3, <3>4, <3>5 DEF Stages
  <2> QED
    BY <2>1, <2>2
<1>3. CASE Refused(c)
  <2>1. In(c, "running") /\ UNCHANGED <<closed, permits, queue, idle>> /\ Settles(c)
    BY <1>3, Zenon DEF Refused, Settles
  <2>2. Goes(c, "holding", "rollback") \/ Goes(c, "dropping", caller[c].stage)
    BY <1>3 DEF Refused, Ends
  <2> QED
    BY <1>1, <2>1, <2>2 DEF Stages
<1> QED
  BY <1>2, <1>3

LEMMA StatementEndsInv ==
  ASSUME SessionPoolInv, NEW c \in Callers, Succeeds(c) \/ Refused(c)
  PROVE  SessionPoolInv'
<1>1. /\ In(c, "running") /\ UNCHANGED <<closed, permits, queue, idle>> /\ Settles(c)
      /\ \E label \in {"holding", "clearing", "dropping"}, stage \in Stages :
           Goes(c, label, stage)
  BY StatementEnds
<1>2. PICK label \in {"holding", "clearing", "dropping"}, stage \in Stages :
        Goes(c, label, stage)
  BY <1>1
<1>3. /\ midway \subseteq TdsSessions /\ inTx \subseteq TdsSessions
      /\ caller[c].session \in TdsSessions
  BY <1>1, Works DEF In, Guarding
<1>4. midway' \subseteq TdsSessions /\ inTx' \subseteq TdsSessions
  BY <1>1, <1>3 DEF Settles
<1> QED
  BY <1>1, <1>2, <1>4, GoesInv

LEMMA LostInv ==
  ASSUME SessionPoolInv, NEW c \in Callers, Lost(c)
  PROVE  SessionPoolInv'
<1> DEFINE r == [caller[c] EXCEPT !.pc = "dropping", !.session = NoSession, !.healthy = FALSE]
<1>1. /\ caller[c].pc = "running" /\ caller' = [caller EXCEPT ![c] = r]
      /\ Gone(caller[c].session) /\ UNCHANGED <<closed, permits, queue, idle>>
  BY DEF Lost, In
<1>2. /\ caller[c] \in Standings /\ idle \in Seq(TdsSessions) /\ Len(idle) \in Nat
      /\ midway \subseteq TdsSessions /\ inTx \subseteq TdsSessions
  BY <1>1, Works DEF Guarding
<1>3. r \in Standings /\ r.pc = "dropping" /\ r.session = NoSession
  BY <1>2 DEF Standings, Labels
<1> HIDE DEF r
<1>4. /\ UNCHANGED <<closed, permits, queue>> /\ idle' \in Seq(TdsSessions)
      /\ Len(idle') <= Len(idle) /\ midway' \subseteq TdsSessions /\ inTx' \subseteq TdsSessions
  BY <1>1, <1>2 DEF Gone
<1>5. /\ caller[c].pc \in Guarding /\ r.pc \in Guarding \cup {"releasing"}
      /\ r.pc # "releasing" /\ caller[c].pc # "dropping" /\ r.pc \in {"dropping", "releasing"}
  BY <1>1, <1>3 DEF Guarding
<1> QED
  BY <1>1, <1>3, <1>4, <1>5, WorksInv

\* A caller that works goes on from another label, its session and its guard as they were.
LEMMA StepsInv ==
  ASSUME SessionPoolInv, NEW c \in Callers, NEW label \in Guarding, Step(c, label),
         caller[c].pc \in Guarding \ {"dropping"},
         UNCHANGED <<closed, permits, queue, midway, inTx>>,
         idle' \in Seq(TdsSessions), Len(idle') <= Len(idle)
  PROVE  SessionPoolInv'
<1> DEFINE r == [caller[c] EXCEPT !.pc = label]
<1>1. caller' = [caller EXCEPT ![c] = r]
  BY DEF Step
<1>2. /\ caller[c] \in Standings /\ midway \subseteq TdsSessions /\ inTx \subseteq TdsSessions
  BY Works
<1>3. r \in Standings /\ r.pc = label /\ r.session = caller[c].session
  BY <1>2 DEF Standings, Labels, Guarding
<1> HIDE DEF r
<1>4. /\ UNCHANGED <<closed, permits, queue>>
      /\ midway' \subseteq TdsSessions /\ inTx' \subseteq TdsSessions
  BY <1>2
<1>5. /\ caller[c].pc \in Guarding /\ r.pc \in Guarding \cup {"releasing"}
      /\ r.pc # "releasing" /\ caller[c].pc # "dropping"
  BY <1>3 DEF Guarding
<1> QED
  BY <1>1, <1>3, <1>4, <1>5, WorksInv

LEMMA CloseIdleInv ==
  ASSUME SessionPoolInv, NEW c \in Callers, CloseIdle(c)
  PROVE  SessionPoolInv'
<1>1. /\ caller[c].pc = "clearing" /\ Step(c, "holding") /\ idle' = <<>>
      /\ UNCHANGED <<closed, permits, queue, midway, inTx>>
  BY DEF CloseIdle, In
<1>2. Len(idle) \in Nat
  BY <1>1, Works DEF Guarding
<1>3. idle' \in Seq(TdsSessions) /\ Len(idle') = 0
  BY <1>1, EmptySeq
<1> QED
  BY <1>1, <1>2, <1>3, StepsInv DEF Guarding

LEMMA TimesOutInv ==
  ASSUME SessionPoolInv, NEW c \in Callers, TimesOut(c)
  PROVE  SessionPoolInv'
<1>1. /\ idle \in Seq(TdsSessions) /\ Len(idle) \in Nat /\ idle' = idle
      /\ UNCHANGED <<closed, midway, inTx>>
  BY LenProperties DEF TimesOut, SessionPoolInv, SessionPoolTypeOK
<1>2. CASE In(c, "queued") /\ StopsWaiting(c) /\ Leave(c) /\ UNCHANGED permits
  BY <1>1, <1>2, StopsWaitingInv
<1>3. CASE /\ In(c, "admitted") \/ In(c, "connecting")
           /\ Leave(c) /\ permits' = permits + 1 /\ UNCHANGED queue
  BY <1>1, <1>3, LeavesInv DEF In
<1>4. CASE In(c, "running") /\ Step(c, "dropping") /\ UNCHANGED <<queue, permits>>
  BY <1>1, <1>4, StepsInv DEF In, Guarding
<1>5. CASE In(c, "reaping") /\ Leave(c) /\ UNCHANGED <<queue, permits>>
  BY <1>1, <1>5, LeavesInv DEF In
<1> QED
  BY <1>2, <1>3, <1>4, <1>5 DEF TimesOut

LEMMA PutBackInv ==
  ASSUME SessionPoolInv, NEW c \in Callers, PutBack(c)
  PROVE  SessionPoolInv'
<1> DEFINE r == [caller[c] EXCEPT !.pc = "releasing", !.session = NoSession]
<1>1. /\ caller[c].pc = "dropping" /\ caller' = [caller EXCEPT ![c] = r]
      /\ UNCHANGED <<closed, permits, queue>>
      /\ \/ /\ caller[c].session # NoSession /\ idle' = Append(idle, caller[c].session)
            /\ UNCHANGED <<midway, inTx>>
         \/ Gone(caller[c].session) /\ UNCHANGED idle
  BY DEF PutBack, In
<1>2. /\ caller[c] \in Standings /\ idle \in Seq(TdsSessions) /\ Len(idle) \in Nat
      /\ midway \subseteq TdsSessions /\ inTx \subseteq TdsSessions
  BY <1>1, Works DEF Guarding
<1>3. r \in Standings /\ r.pc = "releasing" /\ r.session = NoSession
  BY <1>2 DEF Standings, Labels
<1> HIDE DEF r
<1>4. /\ midway' \subseteq TdsSessions /\ inTx' \subseteq TdsSessions
      /\ idle' \in Seq(TdsSessions)
      /\ \/ Len(idle') <= Len(idle)
         \/ Len(idle') = Len(idle) + 1 /\ caller[c].session # NoSession
  <2>1. CASE /\ caller[c].session # NoSession /\ idle' = Append(idle, caller[c].session)
             /\ UNCHANGED <<midway, inTx>>
    <3>1. caller[c].session \in TdsSessions
      BY <1>2, <2>1 DEF Standings
    <3> QED
      BY <1>2, <2>1, <3>1, AppendProperties
  <2>2. CASE Gone(caller[c].session) /\ UNCHANGED idle
    BY <1>2, <2>2 DEF Gone
  <2> QED
    BY <1>1, <2>1, <2>2
<1>5. /\ caller[c].pc \in Guarding /\ r.pc \in Guarding \cup {"releasing"}
      /\ r.pc \in {"dropping", "releasing"}
  BY <1>1, <1>3 DEF Guarding
<1> QED
  BY <1>1, <1>3, <1>4, <1>5, WorksInv

LEMMA ReleasePermitInv ==
  ASSUME SessionPoolInv, NEW c \in Callers, ReleasePermit(c)
  PROVE  SessionPoolInv'
<1>1. /\ caller[c].pc = "releasing" /\ permits' = permits + 1
      /\ UNCHANGED <<closed, queue, idle, midway, inTx>>
      /\ Step(c, "reaping") \/ Leave(c)
  BY DEF ReleasePermit, In
<1>2. /\ caller[c] \in Standings /\ caller[c].session = NoSession
      /\ idle \in Seq(TdsSessions) /\ Len(idle) \in Nat /\ permits \in Nat
      /\ midway \subseteq TdsSessions /\ inTx \subseteq TdsSessions
  BY <1>1, LenProperties
     DEF SessionPoolInv, SessionPoolTypeOK, SessionsGuarded, Guarding
<1>3. CASE Leave(c)
  BY <1>1, <1>2, <1>3, LeavesInv
<1>4. CASE Step(c, "reaping")
  <2> DEFINE r == [caller[c] EXCEPT !.pc = "reaping"]
  <2>1. caller' = [caller EXCEPT ![c] = r]
    BY <1>4 DEF Step
  <2>2. r \in Standings /\ r.pc = "reaping" /\ r.session = NoSession
    BY <1>2 DEF Standings, Labels
  <2> HIDE DEF r
  <2>3. StaysWithin(c, r)
    BY <1>1, <1>2, <2>2 DEF StaysWithin, Permitting, Guarding, Occupies
  <2>4. /\ permits' \in Nat /\ idle' \in Seq(TdsSessions) /\ UNCHANGED <<closed, queue>>
        /\ midway' \subseteq TdsSessions /\ inTx' \subseteq TdsSessions
        /\ caller[c].pc # "queued"
    BY <1>1, <1>2
  <2> QED
    BY <2>1, <2>2, <2>3, <2>4, StepOfWorking
<1> QED
  BY <1>1, <1>3, <1>4

LEMMA ReapIdleInv ==
  ASSUME SessionPoolInv, NEW c \in Callers, ReapIdle(c)
  PROVE  SessionPoolInv'
<1>1. idle \in Seq(TdsSessions) /\ Len(idle) \in Nat
  BY LenProperties DEF SessionPoolInv, SessionPoolTypeOK
<1>2. PICK n \in 1..Len(idle) + 1 : idle' = SubSeq(idle, n, Len(idle))
  BY DEF ReapIdle, Unexpired
<1>3. idle' \in Seq(TdsSessions) /\ Len(idle') <= Len(idle)
  <2>1. Len(idle) \in 0..Len(idle)
    BY <1>1
  <2> QED
    BY <1>1, <1>2, <2>1, PartOf
<1> QED
  BY <1>3, LeavesInv DEF ReapIdle, In

LEMMA CloseSessionsInv ==
  ASSUME SessionPoolInv, CloseSessions
  PROVE  SessionPoolInv'
<1> USE DEF SessionPoolInv
<1>1. /\ UNCHANGED <<permits, queue, caller, midway, inTx>> /\ closed' = TRUE
      /\ idle' = <<>> /\ idle' \in Seq(TdsSessions) /\ Len(idle') = 0
  BY EmptySeq DEF CloseSessions
<1>2. SessionPoolTypeOK'
  BY <1>1, Zenon DEF SessionPoolTypeOK
<1>3. SessionsGuarded' /\ QueueOfQueued' /\ PermitsAccounted'
  BY <1>1 DEF SessionsGuarded, QueueOfQueued, In, PermitsAccounted, Permitted
<1>4. WithinGrant'
  <2>1. Occupied' = Occupied
    BY <1>1 DEF Occupied, In
  <2>2. Cardinality(Occupied) \in Nat /\ Len(idle) \in Nat
    BY SubsetsFinite, LenProperties DEF SessionPoolTypeOK
  <2> QED
    BY <1>1, <2>1, <2>2 DEF WithinGrant
<1> QED
  BY <1>2, <1>3, <1>4

LEMMA StepInv == SessionPoolInv /\ [SessionPoolNext]_sessionPoolVars => SessionPoolInv'
<1> SUFFICES ASSUME SessionPoolInv, [SessionPoolNext]_sessionPoolVars PROVE SessionPoolInv'
  OBVIOUS
<1>1. CASE CloseSessions
  BY <1>1, CloseSessionsInv
<1>2. ASSUME NEW c \in Callers, NEW job \in Jobs, Ask(c, job) PROVE SessionPoolInv'
  BY <1>2, AskInv
<1>3. ASSUME NEW c \in Callers, Admit(c) \/ Refuse(c) \/ Take(c) \/ Connects(c)
      PROVE SessionPoolInv'
  BY <1>3, AdmitInv, StopsWaitingInv, TakeInv, ConnectsInv DEF Refuse
<1>4. ASSUME NEW c \in Callers, ConnectFails(c) PROVE SessionPoolInv'
  <2>1. idle' \in Seq(TdsSessions) /\ Len(idle') <= Len(idle)
    BY <1>4, LenProperties DEF ConnectFails, SessionPoolInv, SessionPoolTypeOK
  <2> QED
    BY <1>4, <2>1, LeavesInv DEF ConnectFails, In
<1>5. ASSUME NEW c \in Callers, Run(c) \/ Succeeds(c) \/ Refused(c) \/ Lost(c) \/ CloseIdle(c)
      PROVE SessionPoolInv'
  BY <1>5, RunInv, StatementEndsInv, LostInv, CloseIdleInv
<1>6. ASSUME NEW c \in Callers, TimesOut(c) \/ PutBack(c) \/ ReleasePermit(c) \/ ReapIdle(c)
      PROVE SessionPoolInv'
  BY <1>6, TimesOutInv, PutBackInv, ReleasePermitInv, ReapIdleInv
<1>7. CASE UNCHANGED sessionPoolVars
  BY <1>7 DEF sessionPoolVars, SessionPoolInv, SessionPoolTypeOK, SessionsGuarded, QueueOfQueued,
              In, PermitsAccounted, Permitted, WithinGrant, Occupied
<1> QED
  BY <1>1, <1>2, <1>3, <1>4, <1>5, <1>6, <1>7 DEF SessionPoolNext

-----------------------------------------------------------------------------
(* The theorems.                                                           *)

\* Permits, queue, idle stack and where each caller stands account for every session and
\* every permit, for any number of callers and any size of pool.
THEOREM SessionPoolInvariant == SessionPoolSpec => []SessionPoolInv
BY InitInv, StepInv, PTL DEF SessionPoolSpec

\* The state of the pool and of its callers keeps its types.
THEOREM SessionPoolTyped == SessionPoolSpec => []SessionPoolTypeOK
<1>1. SessionPoolInv => SessionPoolTypeOK
  BY DEF SessionPoolInv
<1> QED
  BY <1>1, SessionPoolInvariant, PTL

\* Whatever the number of callers, wherever each one is dropped, the server never sees more
\* sessions of the pool than were granted to it.
THEOREM GrantKept == SessionPoolSpec => []WithinGrant
<1>1. SessionPoolInv => WithinGrant
  BY DEF SessionPoolInv
<1> QED
  BY <1>1, SessionPoolInvariant, PTL

-----------------------------------------------------------------------------
(* No session is in two places, and the pool lends as SessionLoans has it. *)

\* No session is in two places.
SessionsApart ==
  /\ \A c, d \in Callers :
       caller[c].session = caller[d].session /\ caller[c].session # NoSession => c = d
  /\ \A c \in Callers : caller[c].session \notin Kept
  /\ \A i, j \in DOMAIN idle : idle[i] = idle[j] => i = j

\* What is left of the stack keeps its sessions apart and no others.
LEMMA StackPart ==
  ASSUME SessionPoolInv, SessionsApart, NEW m \in 1..Len(idle) + 1, NEW n \in 0..Len(idle),
         idle' = SubSeq(idle, m, n)
  PROVE  /\ Kept' \subseteq Kept
         /\ \A i, j \in DOMAIN idle' : idle'[i] = idle'[j] => i = j
         /\ \A k \in 1..Len(idle) : ~(m <= k /\ k <= n) => idle[k] \notin Kept'
<1> DEFINE q == SubSeq(idle, m, n)
<1>1. idle \in Seq(TdsSessions) /\ Len(idle) \in Nat /\ DOMAIN idle = 1..Len(idle)
  BY LenProperties DEF SessionPoolInv, SessionPoolTypeOK
<1>2. /\ q \in Seq(TdsSessions) /\ Len(q) = IF m <= n THEN n - m + 1 ELSE 0
      /\ \A i \in 1..Len(q) : m + i - 1 \in 1..Len(idle) /\ q[i] = idle[m + i - 1]
  BY <1>1, PartOf
<1>3. idle' = q /\ DOMAIN q = 1..Len(q) /\ Len(q) \in Nat
  BY <1>2, LenProperties
<1> HIDE DEF q
<1>4. Kept' = {q[i] : i \in 1..Len(q)} /\ Kept = {idle[i] : i \in 1..Len(idle)}
  BY <1>1, <1>3 DEF Kept
<1>5. \A i, j \in 1..Len(idle) : idle[i] = idle[j] => i = j
  BY <1>1 DEF SessionsApart
<1>6. Kept' \subseteq Kept
  BY <1>2, <1>4
<1>7. ASSUME NEW i \in 1..Len(q), NEW j \in 1..Len(q), q[i] = q[j] PROVE i = j
  <2>1. m + i - 1 = m + j - 1
    BY <1>2, <1>5, <1>7
  <2> QED
    BY <1>1, <1>3, <2>1
<1>8. ASSUME NEW k \in 1..Len(idle), ~(m <= k /\ k <= n) PROVE idle[k] \notin Kept'
  <2> SUFFICES ASSUME NEW i \in 1..Len(q), idle[k] = q[i] PROVE FALSE
    BY <1>4
  <2>1. k = m + i - 1
    BY <1>2, <1>5
  <2> QED
    BY <1>1, <1>2, <1>8, <2>1
<1> QED
  BY <1>3, <1>6, <1>7, <1>8

\* A step of c: what the stack gains is what c had, and what c gets nobody has.
LEMMA ApartStep ==
  ASSUME SessionPoolInv, SessionsApart, NEW c \in Callers, NEW r \in Standings,
         caller' = [caller EXCEPT ![c] = r],
         \A i, j \in DOMAIN idle' : idle'[i] = idle'[j] => i = j,
         \A x \in Kept' : x \in Kept \/ (x = caller[c].session /\ x # NoSession),
         NoSession \notin Kept', r.session \notin Kept',
         \A d \in Callers \ {c} : caller[d].session = r.session => r.session = NoSession
  PROVE  SessionsApart'
<1>1. /\ caller'[c] = r
      /\ \A d \in Callers \ {c} : caller'[d] = caller[d]
  BY Moves DEF SessionPoolInv
<1>2. \A d, e \in Callers :
        caller'[d].session = caller'[e].session /\ caller'[d].session # NoSession => d = e
  BY <1>1 DEF SessionsApart
<1>3. \A d \in Callers : caller'[d].session \notin Kept'
  BY <1>1 DEF SessionsApart
<1> QED
  BY <1>2, <1>3 DEF SessionsApart

\* What the loan of a caller is, and whether it is its turn, before a step and after it.
LEMMA LoanMoves ==
  ASSUME SessionPoolInv, NEW c \in Callers, NEW r \in Standings, NEW x,
         caller' = [caller EXCEPT ![c] = r], LoanOf(r) = x
  PROVE  LoanTo' = [LoanTo EXCEPT ![c] = x]
<1>1. /\ caller'[c] = r
      /\ \A d \in Callers \ {c} : caller'[d] = caller[d]
  BY Moves DEF SessionPoolInv
<1>2. LoanTo' = [d \in Callers |-> LoanOf(caller'[d])]
  BY DEF LoanTo, LoanOf
<1>3. \A d \in Callers : LoanOf(caller'[d]) = IF d = c THEN x ELSE LoanTo[d]
  BY <1>1 DEF LoanTo
<1> QED
  BY <1>2, <1>3 DEF LoanTo

LEMMA LoanBefore ==
  ASSUME NEW c \in Callers
  PROVE  LoanTo[c] = LoanOf(caller[c]) /\ (c \in Turns <=> caller[c].pc = "admitted")
BY DEF LoanTo, Turns, In

LEMMA TurnsMove ==
  ASSUME SessionPoolInv, NEW c \in Callers, NEW r \in Standings,
         caller' = [caller EXCEPT ![c] = r]
  PROVE  /\ r.pc = "admitted" => Turns' = Turns \cup {c}
         /\ r.pc # "admitted" => Turns' = Turns \ {c}
<1>1. /\ caller'[c] = r
      /\ \A d \in Callers \ {c} : caller'[d] = caller[d]
  BY Moves DEF SessionPoolInv
<1> QED
  BY <1>1 DEF Turns, In

LEMMA LoansStand ==
  ASSUME SessionPoolInv, NEW c \in Callers, NEW r \in Standings,
         caller' = [caller EXCEPT ![c] = r], LoanOf(r) = LoanOf(caller[c]),
         r.pc # "admitted", caller[c].pc # "admitted"
  PROVE  LoanTo' = LoanTo /\ Turns' = Turns
<1>1. LoanTo' = [LoanTo EXCEPT ![c] = LoanTo[c]]
  BY LoanMoves, LoanBefore
<1>2. Turns' = Turns \ {c} /\ c \notin Turns
  BY LoanBefore, TurnsMove
<1> QED
  BY <1>1, <1>2 DEF LoanTo

\* What is known of the stack, of a caller without a session, and of those with a loan.
LEMMA StackTypes ==
  ASSUME SessionPoolInv
  PROVE  /\ idle \in Seq(TdsSessions) /\ Len(idle) \in Nat /\ DOMAIN idle = 1..Len(idle)
         /\ Kept \subseteq TdsSessions /\ NoSession \notin Kept
         /\ queue \in Seq(Callers)
         /\ \A c \in Callers : caller[c] \in Standings
         /\ \A c \in Callers : caller[c].pc \notin Guarding => caller[c].session = NoSession
<1>1. idle \in Seq(TdsSessions) /\ Len(idle) \in Nat /\ DOMAIN idle = 1..Len(idle)
  BY LenProperties DEF SessionPoolInv, SessionPoolTypeOK
<1>2. Kept \subseteq TdsSessions
  BY <1>1, ElementOfSeq DEF Kept
<1> QED
  BY <1>1, <1>2 DEF SessionPoolInv, SessionPoolTypeOK, SessionsGuarded

LEMMA BorrowersPermitted ==
  ASSUME SessionPoolInv
  PROVE  /\ Loans!Borrowers \cup Turns \in SUBSET Permitted
         /\ Loans!Borrowers \in SUBSET (Permitted \ Turns)
<1>1. ASSUME NEW c \in Callers, LoanOf(caller[c]) # NoSession
      PROVE  caller[c].pc \in Guarding \cup {"connecting"}
  BY <1>1 DEF LoanOf, SessionPoolInv, SessionsGuarded
<1>2. \A c \in Callers : LoanTo[c] = LoanOf(caller[c])
  BY DEF LoanTo
<1> QED
  BY <1>1, <1>2 DEF Loans!Borrowers, Permitted, Permitting, Guarding, Turns, In

\* SessionLoans counts as this module does.
LEMMA SameCount == \A S : Loans!Cardinality(S) = Cardinality(S)
BY DEF Cardinality, Loans!Cardinality

\* A step of c that changes neither what it has nor whose turn it is.
LEMMA StandsStill ==
  ASSUME SessionPoolInv, SessionsApart, NEW c \in Callers, NEW r \in Standings,
         caller' = [caller EXCEPT ![c] = r], UNCHANGED <<closed, queue, idle>>,
         r.session = caller[c].session,
         r.pc \notin {"admitted", "connecting"}, caller[c].pc \notin {"admitted", "connecting"}
  PROVE  SessionsApart' /\ UNCHANGED Loans!loansVars
<1>1. Kept' = Kept
  BY DEF Kept
<1>2. SessionsApart'
  <2>1. /\ \A i, j \in DOMAIN idle' : idle'[i] = idle'[j] => i = j
        /\ \A x \in Kept' : x \in Kept
        /\ NoSession \notin Kept' /\ r.session \notin Kept'
        /\ \A d \in Callers \ {c} : caller[d].session = r.session => r.session = NoSession
    BY <1>1, StackTypes DEF SessionsApart
  <2> QED
    BY <2>1, ApartStep
<1>3. LoanOf(r) = LoanOf(caller[c])
  BY DEF LoanOf
<1>4. LoanTo' = LoanTo /\ Turns' = Turns
  BY <1>3, LoansStand
<1> QED
  BY <1>1, <1>2, <1>4 DEF Loans!loansVars

\* A caller joins the line.
LEMMA AskLends ==
  ASSUME SessionPoolInv, SessionsApart, NEW c \in Callers, NEW job \in Jobs, Ask(c, job)
  PROVE  SessionsApart' /\ Loans!Join(c)
<1> DEFINE r == [Away EXCEPT !.pc = "queued", !.job = job, !.stage = FirstStage(job)]
<1>1. /\ r \in Standings /\ r.pc = "queued" /\ r.session = NoSession
      /\ caller' = [caller EXCEPT ![c] = r] /\ caller[c].pc = "away" /\ ~closed
      /\ queue' = Append(queue, c) /\ UNCHANGED <<closed, idle>>
  BY DEF Ask, In, Away, Standings, Labels, Jobs, Stages, FirstStage
<1> HIDE DEF r
<1>2. caller[c].session = NoSession /\ Kept' = Kept
  BY <1>1, StackTypes DEF Guarding, Kept
<1>3. SessionsApart'
  <2>1. /\ \A i, j \in DOMAIN idle' : idle'[i] = idle'[j] => i = j
        /\ \A x \in Kept' : x \in Kept
        /\ NoSession \notin Kept' /\ r.session \notin Kept'
        /\ \A d \in Callers \ {c} : caller[d].session = r.session => r.session = NoSession
    BY <1>1, <1>2, StackTypes DEF SessionsApart
  <2> QED
    BY <1>1, <2>1, ApartStep
<1>4. LoanOf(caller[c]) = NoSession /\ LoanOf(r) = NoSession
  BY <1>1, <1>2 DEF LoanOf
<1>5. LoanTo[c] = NoSession /\ c \notin Turns
  BY <1>1, <1>4, LoanBefore
<1>6. LoanTo' = LoanTo /\ Turns' = Turns
  BY <1>1, <1>4, LoansStand
<1> QED
  BY <1>1, <1>2, <1>3, <1>5, <1>6 DEF Loans!Join, Loans!Borrowers

\* The head of the line is served, while fewer are than there may be.
LEMMA AdmitLends ==
  ASSUME SessionPoolInv, SessionsApart, NEW c \in Callers, Admit(c)
  PROVE  SessionsApart' /\ Loans!Serve(c)
<1> DEFINE r == [caller[c] EXCEPT !.pc = "admitted"]
<1>1. /\ queue # <<>> /\ c = Head(queue) /\ queue' = Tail(queue) /\ permits > 0 /\ ~closed
      /\ UNCHANGED <<closed, idle>> /\ caller' = [caller EXCEPT ![c] = r]
  BY DEF Admit, Step
<1>2. Len(queue) \in Nat \ {0} /\ c = queue[1] /\ DOMAIN queue = 1..Len(queue)
  BY <1>1, HeadTailProperties, EmptySeq, LenProperties DEF SessionPoolInv, SessionPoolTypeOK
<1>3. caller[c].pc = "queued" /\ caller[c].session = NoSession /\ caller[c] \in Standings
  BY <1>2, StackTypes DEF SessionPoolInv, QueueOfQueued, In, Guarding
<1>4. r \in Standings /\ r.pc = "admitted" /\ r.session = NoSession
  BY <1>3 DEF Standings, Labels
<1> HIDE DEF r
<1>5. Kept' = Kept
  BY <1>1 DEF Kept
<1>6. SessionsApart'
  <2>1. /\ \A i, j \in DOMAIN idle' : idle'[i] = idle'[j] => i = j
        /\ \A x \in Kept' : x \in Kept
        /\ NoSession \notin Kept' /\ r.session \notin Kept'
        /\ \A d \in Callers \ {c} : caller[d].session = r.session => r.session = NoSession
    BY <1>1, <1>4, <1>5, StackTypes DEF SessionsApart
  <2> QED
    BY <1>1, <1>4, <2>1, ApartStep
<1>7. LoanOf(caller[c]) = NoSession /\ LoanOf(r) = NoSession
  BY <1>3, <1>4 DEF LoanOf
<1>8. /\ LoanTo' = [LoanTo EXCEPT ![c] = NoSession] /\ LoanTo[c] = NoSession
      /\ Turns' = Turns \cup {c}
  <2>1. LoanTo' = [LoanTo EXCEPT ![c] = NoSession]
    BY <1>1, <1>4, <1>7, LoanMoves
  <2>2. LoanTo[c] = NoSession
    BY <1>7, LoanBefore
  <2>3. Turns' = Turns \cup {c}
    BY <1>1, <1>4, TurnsMove
  <2> QED
    BY <2>1, <2>2, <2>3
<1>9. LoanTo' = LoanTo
  BY <1>8 DEF LoanTo
<1>10. Cardinality(Turns \cup Loans!Borrowers) < MaxSessions
  <2>1. Turns \cup Loans!Borrowers \in SUBSET Permitted
    BY BorrowersPermitted
  <2>2. /\ Cardinality(Turns \cup Loans!Borrowers) <= Cardinality(Permitted)
        /\ Cardinality(Turns \cup Loans!Borrowers) \in Nat
    BY <2>1, SubsetsFinite, FS_Subset, FS_CardinalityType
  <2>3. permits \in Nat /\ Cardinality(Permitted) \in Nat
        /\ permits + Cardinality(Permitted) = MaxSessions
    BY SubsetsFinite DEF SessionPoolInv, SessionPoolTypeOK, PermitsAccounted
  <2> QED
    BY <1>1, <2>2, <2>3
<1> QED
  BY <1>1, <1>5, <1>6, <1>8, <1>9, <1>10, SameCount DEF Loans!Serve

\* Who waits no longer leaves the line where it stands.
LEMMA StopsWaitingLends ==
  ASSUME SessionPoolInv, SessionsApart, NEW c \in Callers, In(c, "queued"), StopsWaiting(c),
         Leave(c), UNCHANGED <<closed, idle>>
  PROVE  SessionsApart' /\ \E i \in DOMAIN queue : Loans!LeavesLine(i)
<1>1. /\ Away \in Standings /\ Away.pc = "away" /\ Away.session = NoSession
      /\ caller' = [caller EXCEPT ![c] = Away] /\ caller[c].pc = "queued"
  BY DEF Away, Standings, Labels, Jobs, Stages, Leave, In
<1>2. caller[c].session = NoSession /\ Kept' = Kept
  BY <1>1, StackTypes DEF Guarding, Kept
<1>3. SessionsApart'
  <2>1. /\ \A i, j \in DOMAIN idle' : idle'[i] = idle'[j] => i = j
        /\ \A x \in Kept' : x \in Kept
        /\ NoSession \notin Kept' /\ Away.session \notin Kept'
        /\ \A d \in Callers \ {c} : caller[d].session = Away.session => Away.session = NoSession
    BY <1>1, <1>2, StackTypes DEF SessionsApart
  <2> QED
    BY <1>1, <2>1, ApartStep
<1>4. LoanOf(caller[c]) = NoSession /\ LoanOf(Away) = NoSession
  BY <1>1, <1>2 DEF LoanOf
<1>5. LoanTo' = LoanTo /\ Turns' = Turns
  BY <1>1, <1>4, LoansStand
<1> QED
  BY <1>2, <1>3, <1>5 DEF StopsWaiting, Loans!LeavesLine

\* A caller whose turn it is takes the session on top of the stack, or opens one once those
\* that were kept have gone.
LEMMA TakeLends ==
  ASSUME SessionPoolInv, SessionsApart, NEW c \in Callers, Take(c)
  PROVE  SessionsApart' /\ (Loans!Borrow(c) \/ Loans!OpenFor(c))
<1>1. /\ caller[c] \in Standings /\ caller[c].pc = "admitted" /\ caller[c].session = NoSession
      /\ UNCHANGED <<closed, queue>> /\ idle \in Seq(TdsSessions) /\ Len(idle) \in Nat
      /\ DOMAIN idle = 1..Len(idle)
  BY StackTypes DEF Take, In, Guarding
<1>2. PICK n \in 1..Len(idle) + 1 :
        IF Unexpired(n) = <<>>
          THEN Step(c, "connecting") /\ idle' = <<>>
          ELSE /\ caller' = [caller EXCEPT ![c].pc = "holding", ![c].session = idle[Len(idle)]]
               /\ idle' = SubSeq(idle, n, Len(idle) - 1)
  BY DEF Take
<1>3. CASE Unexpired(n) = <<>>
  <2> DEFINE r == [caller[c] EXCEPT !.pc = "connecting"]
  <2>1. caller' = [caller EXCEPT ![c] = r] /\ idle' = <<>> /\ DOMAIN idle' = {}
    BY <1>2, <1>3, EmptySeq, LenProperties DEF Step
  <2>2. r \in Standings /\ r.pc = "connecting" /\ r.session = NoSession
    BY <1>1 DEF Standings, Labels
  <2> HIDE DEF r
  <2>3. Kept' = {}
    BY <2>1 DEF Kept
  <2>4. SessionsApart'
    BY <2>1, <2>2, <2>3, ApartStep
  <2>5. LoanOf(r) = "opening"
    BY <2>2 DEF LoanOf
  <2>6. /\ LoanTo' = [LoanTo EXCEPT ![c] = "opening"]
        /\ Turns' = Turns \ {c} /\ c \in Turns
    <3>1. LoanTo' = [LoanTo EXCEPT ![c] = "opening"]
      BY <2>1, <2>2, <2>5, LoanMoves
    <3>2. Turns' = Turns \ {c} /\ c \in Turns
      BY <1>1, <2>1, <2>2, LoanBefore, TurnsMove
    <3> QED
      BY <3>1, <3>2
  <2>7. Cardinality(Loans!Borrowers) < MaxSessions
    <3>1. c \in Permitted /\ Loans!Borrowers \in SUBSET (Permitted \ {c})
      BY <1>1, <2>6, BorrowersPermitted DEF Permitted, Permitting
    <3>2. /\ IsFiniteSet(Permitted \ {c})
          /\ Cardinality(Permitted \ {c}) = Cardinality(Permitted) - 1
      BY <3>1, SubsetsFinite, FS_RemoveElement
    <3>3. /\ Cardinality(Loans!Borrowers) <= Cardinality(Permitted \ {c})
          /\ Cardinality(Loans!Borrowers) \in Nat
      BY <3>1, <3>2, FS_Subset, FS_CardinalityType
    <3>4. permits \in Nat /\ Cardinality(Permitted) \in Nat
          /\ permits + Cardinality(Permitted) = MaxSessions
      BY SubsetsFinite DEF SessionPoolInv, SessionPoolTypeOK, PermitsAccounted
    <3> QED
      BY <3>2, <3>3, <3>4
  <2> QED
    BY <1>1, <2>3, <2>4, <2>6, <2>7, SameCount DEF Loans!OpenFor
<1>4. CASE Unexpired(n) # <<>>
  <2> DEFINE s == idle[Len(idle)]
             r == [caller[c] EXCEPT !.pc = "holding", !.session = s]
  <2>1. Len(idle) \in 1..Len(idle) /\ s \in TdsSessions /\ s \in Kept
    <3>1. Len(idle) # 0
      BY <1>1, <1>2, <1>4, SubSeqEmpty DEF Unexpired
    <3> QED
      BY <1>1, <3>1, ElementOfSeq, LenProperties DEF Kept
  <2>2. caller' = [caller EXCEPT ![c] = r] /\ idle' = SubSeq(idle, n, Len(idle) - 1)
    BY <1>2, <1>4
  <2>3. r \in Standings /\ r.pc = "holding" /\ r.session = s /\ s # NoSession
    BY <1>1, <2>1 DEF Standings, Labels
  <2>4. Len(idle) - 1 \in 0..Len(idle) /\ ~(n <= Len(idle) /\ Len(idle) <= Len(idle) - 1)
    BY <1>1, <2>1
  <2>5. /\ Kept' \subseteq Kept /\ s \notin Kept'
        /\ \A i, j \in DOMAIN idle' : idle'[i] = idle'[j] => i = j
    BY <2>1, <2>2, <2>4, StackPart
  <2> HIDE DEF r, s
  <2>6. SessionsApart'
    <3>1. /\ NoSession \notin Kept' /\ r.session \notin Kept'
          /\ \A d \in Callers \ {c} : caller[d].session = r.session => r.session = NoSession
      BY <2>1, <2>3, <2>5, StackTypes DEF SessionsApart
    <3> QED
      BY <2>2, <2>3, <2>5, <3>1, ApartStep
  <2>7. LoanOf(r) = s
    BY <2>3 DEF LoanOf
  <2>8. /\ LoanTo' = [LoanTo EXCEPT ![c] = s]
        /\ Turns' = Turns \ {c} /\ c \in Turns
    <3>1. LoanTo' = [LoanTo EXCEPT ![c] = s]
      BY <2>2, <2>3, <2>7, LoanMoves
    <3>2. Turns' = Turns \ {c} /\ c \in Turns
      BY <1>1, <2>2, <2>3, LoanBefore, TurnsMove
    <3> QED
      BY <3>1, <3>2
  <2>9. Kept' \subseteq Kept \ {s}
    BY <2>5
  <2> QED
    BY <1>1, <2>1, <2>6, <2>8, <2>9 DEF Loans!Borrow
<1> QED
  BY <1>3, <1>4

\* A session is opened that nobody has.
LEMMA ConnectsLends ==
  ASSUME SessionPoolInv, SessionsApart, NEW c \in Callers, Connects(c)
  PROVE  SessionsApart' /\ Loans!Opened(c)
<1>1. PICK s \in TdsSessions \ (Held \cup Kept) :
        caller' = [caller EXCEPT ![c].pc = "holding", ![c].session = s]
  BY DEF Connects
<1> DEFINE r == [caller[c] EXCEPT !.pc = "holding", !.session = s]
<1>2. /\ caller[c] \in Standings /\ caller[c].pc = "connecting"
      /\ UNCHANGED <<closed, queue, idle>>
  BY StackTypes DEF Connects, In
<1>3. /\ r \in Standings /\ r.pc = "holding" /\ r.session = s /\ s # NoSession
      /\ caller' = [caller EXCEPT ![c] = r]
  BY <1>1, <1>2 DEF Standings, Labels
<1> HIDE DEF r
<1>4. Kept' = Kept /\ \A d \in Callers : caller[d].session # s
  BY <1>2 DEF Kept, Held
<1>5. SessionsApart'
  <2>1. /\ \A i, j \in DOMAIN idle' : idle'[i] = idle'[j] => i = j
        /\ \A x \in Kept' : x \in Kept
        /\ NoSession \notin Kept' /\ r.session \notin Kept'
        /\ \A d \in Callers \ {c} : caller[d].session = r.session => r.session = NoSession
    BY <1>1, <1>2, <1>3, <1>4, StackTypes DEF SessionsApart
  <2> QED
    BY <1>3, <2>1, ApartStep
<1>6. LoanOf(caller[c]) = "opening" /\ LoanOf(r) = s
  BY <1>2, <1>3 DEF LoanOf
<1>7. /\ LoanTo' = [LoanTo EXCEPT ![c] = s] /\ LoanTo[c] = "opening"
      /\ Turns' = Turns \ {c} /\ c \notin Turns
  <2>1. LoanTo' = [LoanTo EXCEPT ![c] = s]
    BY <1>3, <1>6, LoanMoves
  <2>2. LoanTo[c] = "opening" /\ c \notin Turns
    BY <1>2, <1>6, LoanBefore
  <2>3. Turns' = Turns \ {c}
    BY <1>3, TurnsMove
  <2> QED
    BY <2>1, <2>2, <2>3
<1>8. s \notin Loans!Lent
  <2>1. \A d \in Callers : LoanTo[d] # s
    BY <1>1, <1>4 DEF LoanTo, LoanOf
  <2> QED
    BY <2>1 DEF Loans!Lent, Loans!Borrowers
<1>9. Turns' = Turns
  BY <1>7
<1> QED
  BY <1>1, <1>2, <1>4, <1>5, <1>7, <1>8, <1>9 DEF Loans!Opened

\* A caller that has nothing yet, or is being opened a session, leaves with nothing; one
\* whose session is closed keeps nothing.
LEMMA CutLends ==
  ASSUME SessionPoolInv, SessionsApart, NEW c \in Callers, NEW r \in Standings,
         caller' = [caller EXCEPT ![c] = r], UNCHANGED <<closed, queue, idle>>,
         r.session = NoSession, r.pc \notin {"admitted", "connecting"},
         caller[c].pc \in Guarding \cup {"admitted", "connecting"}
  PROVE  /\ SessionsApart'
         /\ Loans!GivesUp(c) \/ Loans!CloseLent(c) \/ UNCHANGED Loans!loansVars
<1>1. Kept' = Kept
  BY DEF Kept
<1>2. SessionsApart'
  <2>1. /\ \A i, j \in DOMAIN idle' : idle'[i] = idle'[j] => i = j
        /\ \A x \in Kept' : x \in Kept
        /\ NoSession \notin Kept' /\ r.session \notin Kept'
        /\ \A d \in Callers \ {c} : caller[d].session = r.session => r.session = NoSession
    BY <1>1, StackTypes DEF SessionsApart
  <2> QED
    BY <2>1, ApartStep
<1>3. LoanOf(r) = NoSession
  BY DEF LoanOf
<1>4. /\ LoanTo' = [LoanTo EXCEPT ![c] = NoSession] /\ LoanTo[c] = LoanOf(caller[c])
      /\ Turns' = Turns \ {c} /\ (c \in Turns <=> caller[c].pc = "admitted")
  <2>1. LoanTo' = [LoanTo EXCEPT ![c] = NoSession]
    BY <1>3, LoanMoves
  <2>2. Turns' = Turns \ {c}
    BY TurnsMove
  <2> QED
    BY <2>1, <2>2, LoanBefore
<1>5. LoanTo[c] = NoSession => LoanTo' = LoanTo
  BY <1>4 DEF LoanTo
<1>6. CASE caller[c].pc = "admitted"
  <2>1. LoanTo[c] = NoSession
    BY <1>4, <1>6, StackTypes DEF LoanOf, Guarding
  <2> QED
    BY <1>1, <1>2, <1>4, <1>5, <1>6, <2>1 DEF Loans!GivesUp
<1>7. CASE caller[c].pc # "admitted" /\ LoanTo[c] # NoSession
  <2>1. Turns' = Turns
    BY <1>4, <1>7
  <2> QED
    BY <1>1, <1>2, <1>4, <1>7, <2>1 DEF Loans!CloseLent, Loans!Borrowers
<1>8. CASE caller[c].pc # "admitted" /\ LoanTo[c] = NoSession
  <2>1. Turns' = Turns
    BY <1>4, <1>8
  <2> QED
    BY <1>1, <1>2, <1>5, <1>8, <2>1 DEF Loans!loansVars
<1> QED
  BY <1>6, <1>7, <1>8

\* A guard's session goes on top of the stack, or is closed.
LEMMA PutBackLends ==
  ASSUME SessionPoolInv, SessionsApart, NEW c \in Callers, PutBack(c)
  PROVE  /\ SessionsApart'
         /\ Loans!GiveBack(c) \/ Loans!GivesUp(c) \/ Loans!CloseLent(c)
            \/ UNCHANGED Loans!loansVars
<1> DEFINE r == [caller[c] EXCEPT !.pc = "releasing", !.session = NoSession]
           s == caller[c].session
<1>1. /\ caller[c].pc = "dropping" /\ caller' = [caller EXCEPT ![c] = r]
      /\ UNCHANGED <<closed, queue>>
      /\ (s # NoSession /\ idle' = Append(idle, s)) \/ UNCHANGED idle
  BY DEF PutBack, In
<1>2. /\ caller[c] \in Standings /\ idle \in Seq(TdsSessions) /\ Len(idle) \in Nat
      /\ DOMAIN idle = 1..Len(idle)
  BY StackTypes
<1>3. r \in Standings /\ r.pc = "releasing" /\ r.session = NoSession
  BY <1>2 DEF Standings, Labels
<1> HIDE DEF r
<1>4. CASE UNCHANGED idle
  BY <1>1, <1>3, <1>4, CutLends DEF Guarding
<1>5. CASE s # NoSession /\ idle' = Append(idle, s)
  <2>1. s \in TdsSessions /\ s \notin Kept
    BY <1>2, <1>5 DEF Standings, SessionsApart
  <2>2. s = caller[c].session
    OBVIOUS
  <2> HIDE DEF s
  <2>3. /\ DOMAIN idle' = 1..Len(idle) + 1
        /\ \A i \in 1..Len(idle) : idle'[i] = idle[i]
        /\ idle'[Len(idle) + 1] = s
    BY <1>2, <1>5, <2>1, AppendProperties, LenProperties
  <2>4. \A i \in 1..Len(idle) : idle[i] # s /\ idle[i] \in Kept
    BY <1>2, <2>1 DEF Kept
  <2>5. \A i, j \in DOMAIN idle' : idle'[i] = idle'[j] => i = j
    BY <1>2, <2>3, <2>4 DEF SessionsApart
  <2>6. Kept' = Kept \cup {s}
    <3>1. \A i \in DOMAIN idle' : idle'[i] = s \/ idle'[i] \in Kept
      BY <1>2, <2>3, <2>4
    <3>2. \A i \in DOMAIN idle : i \in DOMAIN idle' /\ idle'[i] = idle[i]
      BY <1>2, <2>3
    <3>3. Len(idle) + 1 \in DOMAIN idle'
      BY <1>2, <2>3
    <3>4. Kept' \subseteq Kept \cup {s}
      BY <3>1 DEF Kept
    <3>5. Kept \subseteq Kept' /\ s \in Kept'
      BY <2>3, <3>2, <3>3 DEF Kept
    <3> QED
      BY <3>4, <3>5
  <2>7. SessionsApart'
    <3>1. /\ \A x \in Kept' : x \in Kept \/ (x = caller[c].session /\ x # NoSession)
          /\ NoSession \notin Kept' /\ r.session \notin Kept'
          /\ \A d \in Callers \ {c} : caller[d].session = r.session => r.session = NoSession
      BY <1>3, <1>5, <2>2, <2>6, StackTypes
    <3> QED
      BY <1>1, <1>3, <2>5, <3>1, ApartStep
  <2>8. LoanOf(r) = NoSession /\ LoanOf(caller[c]) = s
    BY <1>1, <1>3, <2>2 DEF LoanOf
  <2>9. /\ LoanTo' = [LoanTo EXCEPT ![c] = NoSession] /\ LoanTo[c] = s
        /\ Turns' = Turns \ {c} /\ c \notin Turns
    <3>1. LoanTo' = [LoanTo EXCEPT ![c] = NoSession]
      BY <1>1, <1>3, <2>8, LoanMoves
    <3>2. LoanTo[c] = s /\ c \notin Turns
      BY <1>1, <2>8, LoanBefore
    <3>3. Turns' = Turns \ {c}
      BY <1>1, <1>3, TurnsMove
    <3> QED
      BY <3>1, <3>2, <3>3
  <2>10. Turns' = Turns
    BY <2>9
  <2> QED
    BY <1>1, <2>1, <2>6, <2>7, <2>9, <2>10 DEF Loans!GiveBack
<1> QED
  BY <1>1, <1>4, <1>5

\* Sessions nobody has are closed, by a caller that holds one or goes away, or with the pool.
LEMMA StackLends ==
  ASSUME SessionPoolInv, SessionsApart, NEW c \in Callers, NEW r \in Standings,
         caller' = [caller EXCEPT ![c] = r], UNCHANGED <<closed, queue>>,
         r.session = caller[c].session,
         r.pc \notin {"admitted", "connecting"}, caller[c].pc \notin {"admitted", "connecting"},
         Kept' \subseteq Kept, \A i, j \in DOMAIN idle' : idle'[i] = idle'[j] => i = j
  PROVE  SessionsApart' /\ Loans!CloseSpare
<1>1. SessionsApart'
  <2>1. /\ \A x \in Kept' : x \in Kept
        /\ NoSession \notin Kept' /\ r.session \notin Kept'
        /\ \A d \in Callers \ {c} : caller[d].session = r.session => r.session = NoSession
    BY StackTypes DEF SessionsApart
  <2> QED
    BY <2>1, ApartStep
<1>2. LoanOf(r) = LoanOf(caller[c])
  BY DEF LoanOf
<1>3. LoanTo' = LoanTo /\ Turns' = Turns
  BY <1>2, LoansStand
<1> QED
  BY <1>1, <1>3 DEF Loans!CloseSpare

LEMMA CloseIdleLends ==
  ASSUME SessionPoolInv, SessionsApart, NEW c \in Callers, CloseIdle(c)
  PROVE  SessionsApart' /\ Loans!CloseSpare
<1> DEFINE r == [caller[c] EXCEPT !.pc = "holding"]
<1>1. /\ caller[c].pc = "clearing" /\ caller' = [caller EXCEPT ![c] = r] /\ idle' = <<>>
      /\ UNCHANGED <<closed, queue>> /\ caller[c] \in Standings
  BY StackTypes DEF CloseIdle, In, Step
<1>2. r \in Standings /\ r.pc = "holding" /\ r.session = caller[c].session
  BY <1>1 DEF Standings, Labels
<1>3. DOMAIN idle' = {} /\ Kept' = {}
  BY <1>1, EmptySeq, LenProperties DEF Kept
<1> HIDE DEF r
<1> QED
  BY <1>1, <1>2, <1>3, StackLends

LEMMA ReapIdleLends ==
  ASSUME SessionPoolInv, SessionsApart, NEW c \in Callers, ReapIdle(c)
  PROVE  SessionsApart' /\ Loans!CloseSpare
<1>1. /\ Away \in Standings /\ Away.pc = "away" /\ Away.session = NoSession
      /\ caller' = [caller EXCEPT ![c] = Away] /\ caller[c].pc = "reaping"
      /\ UNCHANGED <<closed, queue>>
  BY DEF Away, Standings, Labels, Jobs, Stages, ReapIdle, Leave, In
<1>2. caller[c].session = NoSession /\ Len(idle) \in Nat
  BY <1>1, StackTypes DEF Guarding
<1>3. PICK n \in 1..Len(idle) + 1 : idle' = SubSeq(idle, n, Len(idle))
  BY DEF ReapIdle, Unexpired
<1>4. Kept' \subseteq Kept /\ \A i, j \in DOMAIN idle' : idle'[i] = idle'[j] => i = j
  <2>1. Len(idle) \in 0..Len(idle)
    BY <1>2
  <2> QED
    BY <1>3, <2>1, StackPart
<1> QED
  BY <1>1, <1>2, <1>4, StackLends

LEMMA CloseSessionsLends ==
  ASSUME SessionPoolInv, SessionsApart, CloseSessions
  PROVE  SessionsApart' /\ Loans!Shut
<1>1. UNCHANGED <<caller, queue>> /\ ~closed /\ closed' = TRUE /\ idle' = <<>>
  BY DEF CloseSessions
<1>2. Kept' = {} /\ DOMAIN idle' = {}
  BY <1>1, EmptySeq, LenProperties DEF Kept
<1>3. LoanTo' = LoanTo /\ Turns' = Turns
  BY <1>1 DEF LoanTo, Turns, In
<1> QED
  BY <1>1, <1>2, <1>3 DEF SessionsApart, Loans!Shut

\* Statements neither give nor take a session, unless its transport fails.
LEMMA StatementsLend ==
  ASSUME SessionPoolInv, SessionsApart, NEW c \in Callers,
         Run(c) \/ Succeeds(c) \/ Refused(c) \/ Lost(c)
  PROVE  SessionsApart' /\ [Loans!Next]_(Loans!loansVars)
<1>1. caller[c] \in Standings
  BY StackTypes
<1>2. CASE Run(c)
  <2> DEFINE r == [caller[c] EXCEPT !.pc = "running"]
  <2>1. /\ r \in Standings /\ r.pc = "running" /\ r.session = caller[c].session
        /\ caller' = [caller EXCEPT ![c] = r] /\ caller[c].pc = "holding"
        /\ UNCHANGED <<closed, queue, idle>>
    BY <1>1, <1>2 DEF Run, In, Step, Standings, Labels
  <2> HIDE DEF r
  <2> QED
    BY <2>1, StandsStill
<1>3. CASE Succeeds(c) \/ Refused(c)
  <2>1. PICK label \in {"holding", "clearing", "dropping"}, stage \in Stages :
          Goes(c, label, stage) /\ In(c, "running") /\ UNCHANGED <<closed, queue, idle>>
    BY <1>3, StatementEnds
  <2> DEFINE r == [caller[c] EXCEPT !.pc = label, !.stage = stage, !.healthy = TRUE]
  <2>2. /\ r \in Standings /\ r.pc = label /\ r.session = caller[c].session
        /\ caller' = [caller EXCEPT ![c] = r] /\ caller[c].pc = "running"
    BY <1>1, <2>1 DEF Goes, In, Standings, Labels
  <2> HIDE DEF r
  <2> QED
    BY <2>1, <2>2, StandsStill
<1>4. CASE Lost(c)
  <2> DEFINE r == [caller[c] EXCEPT !.pc = "dropping", !.session = NoSession, !.healthy = FALSE]
  <2>1. /\ r \in Standings /\ r.pc = "dropping" /\ r.session = NoSession
        /\ caller' = [caller EXCEPT ![c] = r] /\ caller[c].pc = "running"
        /\ UNCHANGED <<closed, queue, idle>>
    BY <1>1, <1>4 DEF Lost, In, Standings, Labels
  <2> HIDE DEF r
  <2> QED
    BY <2>1, CutLends DEF Guarding, Loans!Next
<1> QED
  BY <1>2, <1>3, <1>4

\* Leaving with nothing, or with what there was to have.
LEMMA LeavesLends ==
  ASSUME SessionPoolInv, SessionsApart, NEW c \in Callers,
         Leave(c) \/ (Step(c, "reaping") /\ In(c, "releasing")),
         caller[c].pc \in {"admitted", "connecting", "releasing", "reaping"},
         UNCHANGED <<closed, queue, idle>>
  PROVE  SessionsApart' /\ [Loans!Next]_(Loans!loansVars)
<1>1. /\ Away \in Standings /\ Away.pc = "away" /\ Away.session = NoSession
      /\ Leave(c) => caller' = [caller EXCEPT ![c] = Away]
  BY DEF Away, Standings, Labels, Jobs, Stages, Leave
<1>2. caller[c] \in Standings /\ caller[c].session = NoSession
  BY StackTypes DEF Guarding
<1>3. CASE Leave(c) /\ caller[c].pc \in {"admitted", "connecting"}
  BY <1>1, <1>3, CutLends DEF Loans!Next
<1>4. CASE Leave(c) /\ caller[c].pc \in {"releasing", "reaping"}
  BY <1>1, <1>2, <1>4, StandsStill
<1>5. CASE Step(c, "reaping") /\ In(c, "releasing")
  <2> DEFINE r == [caller[c] EXCEPT !.pc = "reaping"]
  <2>1. /\ r \in Standings /\ r.pc = "reaping" /\ r.session = caller[c].session
        /\ caller' = [caller EXCEPT ![c] = r] /\ caller[c].pc = "releasing"
    BY <1>2, <1>5 DEF Step, In, Standings, Labels
  <2> HIDE DEF r
  <2> QED
    BY <2>1, StandsStill
<1> QED
  BY <1>3, <1>4, <1>5

LEMMA TimesOutLends ==
  ASSUME SessionPoolInv, SessionsApart, NEW c \in Callers, TimesOut(c)
  PROVE  SessionsApart' /\ [Loans!Next]_(Loans!loansVars)
<1>1. UNCHANGED <<closed, idle>>
  BY DEF TimesOut
<1>2. CASE In(c, "queued") /\ StopsWaiting(c) /\ Leave(c)
  BY <1>1, <1>2, StopsWaitingLends DEF Loans!Next
<1>3. CASE /\ In(c, "admitted") \/ In(c, "connecting") \/ In(c, "reaping")
           /\ Leave(c) /\ UNCHANGED queue
  BY <1>1, <1>3, LeavesLends DEF In
<1>4. CASE In(c, "running") /\ Step(c, "dropping") /\ UNCHANGED queue
  <2> DEFINE r == [caller[c] EXCEPT !.pc = "dropping"]
  <2>1. /\ r \in Standings /\ r.pc = "dropping" /\ r.session = caller[c].session
        /\ caller' = [caller EXCEPT ![c] = r] /\ caller[c].pc = "running"
    BY <1>4, StackTypes DEF Step, In, Standings, Labels
  <2> HIDE DEF r
  <2> QED
    BY <1>1, <1>4, <2>1, StandsStill
<1> QED
  BY <1>2, <1>3, <1>4 DEF TimesOut

LEMMA StepLends ==
  ASSUME SessionPoolInv, SessionsApart, [SessionPoolNext]_sessionPoolVars
  PROVE  SessionsApart' /\ [Loans!Next]_(Loans!loansVars)
<1>1. CASE CloseSessions
  BY <1>1, CloseSessionsLends DEF Loans!Next
<1>2. ASSUME NEW c \in Callers, NEW job \in Jobs, Ask(c, job)
      PROVE  SessionsApart' /\ Loans!Next
  BY <1>2, AskLends DEF Loans!Next
<1>3. ASSUME NEW c \in Callers, Admit(c) \/ Take(c) \/ Connects(c)
      PROVE  SessionsApart' /\ Loans!Next
  BY <1>3, AdmitLends, TakeLends, ConnectsLends DEF Loans!Next
<1>4. ASSUME NEW c \in Callers, Refuse(c)
      PROVE  SessionsApart' /\ Loans!Next
  BY <1>4, StopsWaitingLends DEF Refuse, Loans!Next
<1>5. ASSUME NEW c \in Callers, ConnectFails(c) \/ ReleasePermit(c)
      PROVE  SessionsApart' /\ [Loans!Next]_(Loans!loansVars)
  BY <1>5, LeavesLends DEF ConnectFails, ReleasePermit, In
<1>6. ASSUME NEW c \in Callers, Run(c) \/ Succeeds(c) \/ Refused(c) \/ Lost(c) \/ TimesOut(c)
      PROVE  SessionsApart' /\ [Loans!Next]_(Loans!loansVars)
  BY <1>6, StatementsLend, TimesOutLends
<1>7. ASSUME NEW c \in Callers, PutBack(c)
      PROVE  SessionsApart' /\ [Loans!Next]_(Loans!loansVars)
  BY <1>7, PutBackLends DEF Loans!Next
<1>8. ASSUME NEW c \in Callers, CloseIdle(c) \/ ReapIdle(c)
      PROVE  SessionsApart' /\ Loans!Next
  BY <1>8, CloseIdleLends, ReapIdleLends DEF Loans!Next
<1>9. CASE UNCHANGED sessionPoolVars
  BY <1>9 DEF sessionPoolVars, SessionsApart, Kept, LoanTo, Turns, In, Loans!loansVars
<1> QED
  BY <1>1, <1>2, <1>3, <1>4, <1>5, <1>6, <1>7, <1>8, <1>9 DEF SessionPoolNext

LEMMA StartLends == SessionPoolInit => SessionsApart /\ Loans!Init
<1> SUFFICES ASSUME SessionPoolInit PROVE SessionsApart /\ Loans!Init
  OBVIOUS
<1>1. Kept = {} /\ DOMAIN idle = {}
  BY EmptySeq, LenProperties DEF SessionPoolInit, Kept
<1>2. \A c \in Callers : caller[c] = Away
  BY DEF SessionPoolInit
<1>3. Away.pc = "away" /\ Away.session = NoSession
  BY DEF Away
<1>4. LoanTo = [c \in Callers |-> NoSession] /\ Turns = {}
  BY <1>2, <1>3 DEF LoanTo, LoanOf, Turns, In
<1> QED
  BY <1>1, <1>2, <1>3, <1>4 DEF SessionPoolInit, SessionsApart, Loans!Init

\* A session is with one caller, or on the stack, and there once, wherever callers are
\* dropped and however many statements fail.
THEOREM NoneShared == SessionPoolSpec => []SessionsApart
<1>1. SessionPoolInv /\ SessionsApart /\ [SessionPoolNext]_sessionPoolVars => SessionsApart'
  BY StepLends
<1>2. SessionPoolInit => SessionsApart
  BY StartLends
<1> QED
  BY <1>1, <1>2, SessionPoolInvariant, PTL DEF SessionPoolSpec

\* The pool implements the lender of sessions: semaphore, stack and guards serve callers in
\* the order they came, lend each a session nobody else has, a kept one if there is one, and
\* open no more than were granted.
THEOREM LendsWell == SessionPoolSpec => LendsAsPromised
<1>1. SessionPoolInit => Loans!Init
  BY StartLends
<1>2. SessionPoolInv /\ SessionsApart /\ [SessionPoolNext]_sessionPoolVars
        => [Loans!Next]_(Loans!loansVars)
  BY StepLends
<1> QED
  BY <1>1, <1>2, SessionPoolInvariant, NoneShared, PTL
  DEF SessionPoolSpec, LendsAsPromised, Loans!Spec

-----------------------------------------------------------------------------
(* What is kept is fit, where no ceiling strikes after the first statement. *)

\* What a standing r says of its session, given the sessions midway and in a transaction: a
\* guard is healthy only after a statement ended, and then the session is.
FitWith(r, mid, tx) ==
  /\ r.pc \in {"queued", "admitted", "connecting"} =>
       ~r.healthy /\ r.stage \in {"first", "begin"}
  /\ r.pc \in {"holding", "running", "clearing"} /\ r.stage \in {"first", "begin"} => ~r.healthy
  /\ r.pc \in {"holding", "clearing"} => r.session \notin mid
  /\ r.pc \in {"holding", "running", "clearing"} /\ r.stage \in {"first", "more", "begin"} =>
       r.session \notin tx
  /\ r.pc = "dropping" /\ r.healthy => r.session \notin mid \cup tx

AllFit == \A c \in Callers : FitWith(caller[c], midway, inTx)

FitInv == AllFit /\ IdleIsFit

LEMMA FitInit == SessionPoolInit => FitInv
<1> SUFFICES ASSUME SessionPoolInit PROVE FitInv
  OBVIOUS
<1>1. Kept = {} /\ DOMAIN idle = {}
  BY EmptySeq, LenProperties DEF SessionPoolInit, Kept
<1>2. \A c \in Callers : caller[c] = Away
  BY DEF SessionPoolInit
<1>3. Away.pc = "away" /\ Away.session = NoSession
  BY DEF Away
<1> QED
  BY <1>1, <1>2, <1>3 DEF FitInv, AllFit, FitWith, IdleIsFit

\* A step of c in which only the session s is put to another use.
LEMMA FitStep ==
  ASSUME SessionPoolInv, SessionsApart, FitInv, NEW c \in Callers, NEW r \in Standings, NEW s,
         caller' = [caller EXCEPT ![c] = r],
         \A x \in TdsSessions \ {s} : (x \in midway' <=> x \in midway) /\ (x \in inTx' <=> x \in inTx),
         \A d \in Callers \ {c} : caller[d].session = s => s = NoSession,
         midway' \subseteq TdsSessions, inTx' \subseteq TdsSessions,
         \A x \in Kept' : \/ x \in Kept /\ x # s
                          \/ x = s /\ s # NoSession /\ s \notin midway' \cup inTx',
         r.session = NoSession \/ (r.session = s /\ s \notin Kept'),
         FitWith(r, midway', inTx')
  PROVE  FitInv'
<1> USE DEF FitInv
<1>1. /\ caller' \in [Callers -> Standings] /\ caller'[c] = r
      /\ \A d \in Callers \ {c} : caller'[d] = caller[d]
  BY Moves DEF SessionPoolInv
<1>2. \A x \in Kept : x \in TdsSessions
  BY LenProperties, ElementOfSeq DEF Kept, SessionPoolInv, SessionPoolTypeOK
<1>3. \A d \in Callers : caller[d].session \in TdsSessions \cup {NoSession}
  BY DEF Standings, SessionPoolInv, SessionPoolTypeOK
<1>4. AllFit'
  <2>1. ASSUME NEW d \in Callers \ {c} PROVE FitWith(caller[d], midway', inTx')
    <3>1. FitWith(caller[d], midway, inTx)
      BY DEF AllFit
    <3>2. caller[d].session \in TdsSessions \ {s} \/ caller[d].session = NoSession
      BY <1>3
    <3>3. /\ caller[d].session \in midway' <=> caller[d].session \in midway
          /\ caller[d].session \in inTx' <=> caller[d].session \in inTx
      BY <3>2 DEF SessionPoolInv, SessionPoolTypeOK
    <3> QED
      BY <3>1, <3>3 DEF FitWith
  <2> QED
    BY <1>1, <2>1 DEF AllFit
<1>5. IdleIsFit'
  <2>1. ASSUME NEW x \in Kept' PROVE x \notin midway' \cup inTx'
    BY <1>2, <2>1 DEF IdleIsFit
  <2> QED
    BY <2>1 DEF IdleIsFit
<1> QED
  BY <1>4, <1>5

\* The stack and the sessions of the others stay, or lose some.
LEMMA FitStack ==
  ASSUME SessionPoolInv, SessionsApart, FitInv
  PROVE  /\ idle \in Seq(TdsSessions) /\ Len(idle) \in Nat /\ Kept \subseteq TdsSessions
         /\ midway \subseteq TdsSessions /\ inTx \subseteq TdsSessions
         /\ \A c \in Callers : caller[c] \in Standings /\ FitWith(caller[c], midway, inTx)
         /\ \A c, d \in Callers : c # d /\ caller[d].session = caller[c].session =>
              caller[d].session = NoSession
         /\ \A c \in Callers : caller[c].session \notin Kept
         /\ \A x \in Kept : x \notin midway /\ x \notin inTx
<1>1. idle \in Seq(TdsSessions) /\ Len(idle) \in Nat /\ Kept \subseteq TdsSessions
  BY LenProperties, ElementOfSeq DEF Kept, SessionPoolInv, SessionPoolTypeOK
<1> QED
  BY <1>1 DEF SessionPoolInv, SessionPoolTypeOK, FitInv, SessionsApart, AllFit, IdleIsFit

\* A caller without a session goes on without one, and the stack loses some of its own at most.
LEMMA FitIdle ==
  ASSUME SessionPoolInv, SessionsApart, FitInv, NEW c \in Callers, NEW r \in Standings,
         caller' = [caller EXCEPT ![c] = r], UNCHANGED <<midway, inTx>>,
         r.session = NoSession, FitWith(r, midway, inTx), Kept' \subseteq Kept
  PROVE  FitInv'
<1>1. /\ midway' \subseteq TdsSessions /\ inTx' \subseteq TdsSessions
      /\ \A x \in Kept' : x \in Kept /\ x # NoSession
      /\ FitWith(r, midway', inTx')
  BY FitStack
<1> DEFINE s == NoSession
<1>2. \A x \in TdsSessions \ {s} :
        (x \in midway' <=> x \in midway) /\ (x \in inTx' <=> x \in inTx)
  OBVIOUS
<1>3. \A d \in Callers \ {c} : caller[d].session = s => s = NoSession
  OBVIOUS
<1>4. \A x \in Kept' : x \in Kept /\ x # s
  BY <1>1
<1>5. r.session = NoSession \/ (r.session = s /\ s \notin Kept')
  OBVIOUS
<1>6. \A x \in Kept' : \/ x \in Kept /\ x # s
                       \/ x = s /\ s # NoSession /\ s \notin midway' \cup inTx'
  BY <1>4
<1> HIDE DEF s
<1> QED
  BY <1>1, <1>2, <1>3, <1>5, <1>6, FitStep

\* A caller keeps its session, which only it puts to use, while the stack keeps still.
LEMMA FitKeeps ==
  ASSUME SessionPoolInv, SessionsApart, FitInv, NEW c \in Callers, NEW r \in Standings,
         caller' = [caller EXCEPT ![c] = r], UNCHANGED idle,
         midway' \subseteq TdsSessions, inTx' \subseteq TdsSessions,
         \A x \in TdsSessions \ {caller[c].session} :
           (x \in midway' <=> x \in midway) /\ (x \in inTx' <=> x \in inTx),
         r.session \in {NoSession, caller[c].session}, FitWith(r, midway', inTx')
  PROVE  FitInv'
<1> DEFINE s == caller[c].session
<1>1. Kept' = Kept /\ s \notin Kept
  BY FitStack DEF Kept
<1>2. \A d \in Callers \ {c} : caller[d].session = s => s = NoSession
  BY FitStack
<1> HIDE DEF s
<1>3. \A x \in Kept' : \/ x \in Kept /\ x # s
                       \/ x = s /\ s # NoSession /\ s \notin midway' \cup inTx'
  BY <1>1
<1>4. r.session = NoSession \/ (r.session = s /\ s \notin Kept')
  BY <1>1 DEF s
<1>5. \A x \in TdsSessions \ {s} :
        (x \in midway' <=> x \in midway) /\ (x \in inTx' <=> x \in inTx)
  BY DEF s
<1> QED
  BY <1>1, <1>2, <1>3, <1>4, <1>5, FitStep

LEMMA TakeFit ==
  ASSUME SessionPoolInv, SessionsApart, FitInv, NEW c \in Callers, Take(c)
  PROVE  FitInv'
<1>1. /\ caller[c] \in Standings /\ FitWith(caller[c], midway, inTx)
      /\ caller[c].pc = "admitted" /\ caller[c].session = NoSession
      /\ UNCHANGED <<midway, inTx>> /\ idle \in Seq(TdsSessions) /\ Len(idle) \in Nat
  BY FitStack DEF Take, In, SessionPoolInv, SessionsGuarded, Guarding
<1>2. PICK n \in 1..Len(idle) + 1 :
        IF Unexpired(n) = <<>>
          THEN Step(c, "connecting") /\ idle' = <<>>
          ELSE /\ caller' = [caller EXCEPT ![c].pc = "holding", ![c].session = idle[Len(idle)]]
               /\ idle' = SubSeq(idle, n, Len(idle) - 1)
  BY DEF Take
<1>3. CASE Unexpired(n) = <<>>
  <2> DEFINE r == [caller[c] EXCEPT !.pc = "connecting"]
  <2>1. caller' = [caller EXCEPT ![c] = r] /\ idle' = <<>> /\ DOMAIN idle' = {}
    BY <1>2, <1>3, EmptySeq, LenProperties DEF Step
  <2>2. /\ r \in Standings /\ r.pc = "connecting" /\ r.session = NoSession
        /\ r.stage = caller[c].stage /\ r.healthy = caller[c].healthy
    BY <1>1 DEF Standings, Labels
  <2> HIDE DEF r
  <2>3. FitWith(r, midway, inTx)
    BY <1>1, <2>2 DEF FitWith
  <2>4. Kept' \subseteq Kept
    BY <2>1 DEF Kept
  <2> QED
    BY <1>1, <2>1, <2>2, <2>3, <2>4, FitIdle
<1>4. CASE Unexpired(n) # <<>>
  <2> DEFINE s == idle[Len(idle)]
             r == [caller[c] EXCEPT !.pc = "holding", !.session = s]
  <2>1. Len(idle) \in 1..Len(idle) /\ s \in TdsSessions /\ s \in Kept
    <3>1. Len(idle) # 0
      BY <1>1, <1>2, <1>4, SubSeqEmpty DEF Unexpired
    <3> QED
      BY <1>1, <3>1, ElementOfSeq, LenProperties DEF Kept
  <2>2. caller' = [caller EXCEPT ![c] = r] /\ idle' = SubSeq(idle, n, Len(idle) - 1)
    BY <1>2, <1>4
  <2>3. /\ r \in Standings /\ r.pc = "holding" /\ r.session = s /\ s # NoSession
        /\ r.stage = caller[c].stage /\ r.healthy = caller[c].healthy
    BY <1>1, <2>1 DEF Standings, Labels
  <2>4. Len(idle) - 1 \in 0..Len(idle) /\ ~(n <= Len(idle) /\ Len(idle) <= Len(idle) - 1)
    BY <1>1, <2>1
  <2>5. /\ Kept' \subseteq Kept /\ s \notin Kept'
       
    BY <2>1, <2>2, <2>4, StackPart
  <2>6. /\ s \notin midway /\ s \notin inTx
        /\ \A d \in Callers \ {c} : caller[d].session = s => s = NoSession
        /\ midway' \subseteq TdsSessions /\ inTx' \subseteq TdsSessions
    BY <1>1, <2>1, FitStack
  <2> HIDE DEF r, s
  <2>7. FitWith(r, midway', inTx')
    BY <1>1, <2>3, <2>6 DEF FitWith
  <2>8. \A x \in Kept' : \/ x \in Kept /\ x # s
                         \/ x = s /\ s # NoSession /\ s \notin midway' \cup inTx'
    BY <2>5
  <2>9. \A x \in TdsSessions \ {s} :
          (x \in midway' <=> x \in midway) /\ (x \in inTx' <=> x \in inTx)
    BY <1>1
  <2>10. /\ r.session = NoSession \/ (r.session = s /\ s \notin Kept')
         /\ r \in Standings /\ caller' = [caller EXCEPT ![c] = r]
        
    BY <2>2, <2>3, <2>5
  <2> QED
    BY <2>6, <2>7, <2>8, <2>9, <2>10, FitStep
<1> QED
  BY <1>3, <1>4

LEMMA ConnectsFit ==
  ASSUME SessionPoolInv, SessionsApart, FitInv, NEW c \in Callers, Connects(c)
  PROVE  FitInv'
<1>1. PICK s \in TdsSessions \ (Held \cup Kept) :
        caller' = [caller EXCEPT ![c].pc = "holding", ![c].session = s] /\ Gone(s)
  BY DEF Connects
<1> DEFINE r == [caller[c] EXCEPT !.pc = "holding", !.session = s]
<1>2. /\ caller[c] \in Standings /\ FitWith(caller[c], midway, inTx)
      /\ caller[c].pc = "connecting" /\ UNCHANGED idle
      /\ midway \subseteq TdsSessions /\ inTx \subseteq TdsSessions
  BY FitStack DEF Connects, In
<1>3. /\ r \in Standings /\ r.pc = "holding" /\ r.session = s /\ s # NoSession
      /\ r.stage = caller[c].stage /\ r.healthy = caller[c].healthy
  BY <1>2 DEF Standings, Labels
<1>4. caller' = [caller EXCEPT ![c] = r]
  BY <1>1
<1> HIDE DEF r
<1>5. /\ s \notin midway' /\ s \notin inTx' /\ midway' \subseteq TdsSessions
      /\ inTx' \subseteq TdsSessions /\ Kept' = Kept /\ s \notin Kept
      /\ \A x \in TdsSessions \ {s} :
           (x \in midway' <=> x \in midway) /\ (x \in inTx' <=> x \in inTx)
  BY <1>1, <1>2 DEF Gone, Kept
<1>6. \A d \in Callers \ {c} : caller[d].session = s => s = NoSession
  BY <1>1 DEF Held
<1>7. FitWith(r, midway', inTx')
  BY <1>2, <1>3, <1>5 DEF FitWith
<1>8. \A x \in Kept' : \/ x \in Kept /\ x # s
                       \/ x = s /\ s # NoSession /\ s \notin midway' \cup inTx'
  BY <1>5
<1> QED
  BY <1>3, <1>4, <1>5, <1>6, <1>7, <1>8, FitStep

\* A caller leaves, and perhaps a part of the stack with it.
LEMMA LeavesFit ==
  ASSUME SessionPoolInv, SessionsApart, FitInv, NEW c \in Callers, Leave(c), UNCHANGED <<midway, inTx>>,
         Kept' \subseteq Kept
  PROVE  FitInv'
<1>1. /\ Away \in Standings /\ Away.pc = "away" /\ Away.session = NoSession
      /\ caller' = [caller EXCEPT ![c] = Away]
  BY DEF Away, Standings, Labels, Jobs, Stages, Leave
<1>2. FitWith(Away, midway, inTx)
  BY <1>1 DEF FitWith
<1> QED
  BY <1>1, <1>2, FitIdle

LEMMA SameStack ==
  ASSUME SessionPoolInv, SessionsApart, FitInv, UNCHANGED idle
  PROVE  Kept' = Kept
BY FitStack DEF Kept

LEMMA AskFit ==
  ASSUME SessionPoolInv, SessionsApart, FitInv, NEW c \in Callers, NEW job \in Jobs, Ask(c, job)
  PROVE  FitInv'
<1> DEFINE r == [Away EXCEPT !.pc = "queued", !.job = job, !.stage = FirstStage(job)]
<1>1. /\ r \in Standings /\ r.pc = "queued" /\ r.session = NoSession
      /\ ~r.healthy /\ r.stage \in {"first", "begin"}
  BY DEF Away, Standings, Labels, Jobs, Stages, FirstStage
<1>2. caller' = [caller EXCEPT ![c] = r] /\ UNCHANGED <<idle, midway, inTx>>
  BY DEF Ask
<1> HIDE DEF r
<1>3. FitWith(r, midway, inTx)
  BY <1>1 DEF FitWith
<1>4. Kept' \subseteq Kept
  BY <1>2, SameStack
<1> QED
  BY <1>1, <1>2, <1>3, <1>4, FitIdle

\* Who has a permit and no session yet, or no more.
LEMMA AdmitFit ==
  ASSUME SessionPoolInv, SessionsApart, FitInv, NEW c \in Callers, NEW label \in {"admitted", "reaping"},
         caller[c].pc \in {"queued", "releasing"}, label = "admitted" => caller[c].pc = "queued",
         Step(c, label), UNCHANGED <<idle, midway, inTx>>
  PROVE  FitInv'
<1> DEFINE r == [caller[c] EXCEPT !.pc = label]
<1>1. /\ caller[c] \in Standings /\ FitWith(caller[c], midway, inTx)
      /\ caller[c].session = NoSession /\ caller' = [caller EXCEPT ![c] = r]
  BY FitStack DEF SessionPoolInv, SessionsGuarded, Guarding, Step
<1>2. /\ r \in Standings /\ r.pc = label /\ r.session = NoSession
      /\ r.stage = caller[c].stage /\ r.healthy = caller[c].healthy
  BY <1>1 DEF Standings, Labels
<1> HIDE DEF r
<1>3. FitWith(r, midway, inTx)
  BY <1>1, <1>2 DEF FitWith
<1>4. Kept' \subseteq Kept
  BY SameStack
<1> QED
  BY <1>1, <1>2, <1>3, <1>4, FitIdle

LEMMA RunFit ==
  ASSUME SessionPoolInv, SessionsApart, FitInv, NEW c \in Callers, Run(c)
  PROVE  FitInv'
<1> DEFINE r == [caller[c] EXCEPT !.pc = "running"]
<1>1. /\ caller[c].pc = "holding" /\ caller' = [caller EXCEPT ![c] = r]
      /\ midway' = midway \cup {caller[c].session} /\ UNCHANGED <<idle, inTx>>
  BY DEF Run, In, Step
<1>2. /\ caller[c] \in Standings /\ FitWith(caller[c], midway, inTx)
      /\ caller[c].session \in TdsSessions
      /\ midway \subseteq TdsSessions /\ inTx \subseteq TdsSessions
  BY <1>1, Works, FitStack DEF Guarding
<1>3. /\ r \in Standings /\ r.pc = "running" /\ r.session = caller[c].session
      /\ r.stage = caller[c].stage /\ r.healthy = caller[c].healthy
  BY <1>2 DEF Standings, Labels
<1> HIDE DEF r
<1>4. FitWith(r, midway', inTx')
  BY <1>1, <1>2, <1>3 DEF FitWith
<1>5. /\ midway' \subseteq TdsSessions /\ inTx' \subseteq TdsSessions
      /\ \A x \in TdsSessions \ {caller[c].session} :
           (x \in midway' <=> x \in midway) /\ (x \in inTx' <=> x \in inTx)
  BY <1>1, <1>2
<1> QED
  BY <1>1, <1>3, <1>4, <1>5, FitKeeps

\* classify sends the caller on: with a session outside a transaction, if it goes back or if
\* the next statement expects that.
LEMMA GoesFit ==
  ASSUME SessionPoolInv, SessionsApart, FitInv, NEW c \in Callers, In(c, "running"), Settles(c), UNCHANGED idle,
         NEW label \in {"holding", "clearing", "dropping"}, NEW stage \in Stages,
         Goes(c, label, stage),
         label = "dropping" \/ stage = "more" => caller[c].session \notin inTx',
         label = "dropping" \/ stage \notin {"first", "begin"}
  PROVE  FitInv'
<1> DEFINE r == [caller[c] EXCEPT !.pc = label, !.stage = stage, !.healthy = TRUE]
<1>1. caller[c].pc = "running" /\ caller' = [caller EXCEPT ![c] = r]
  BY DEF In, Goes
<1>2. /\ caller[c] \in Standings /\ caller[c].session \in TdsSessions
      /\ midway \subseteq TdsSessions /\ inTx \subseteq TdsSessions
  BY <1>1, Works DEF Guarding
<1>3. /\ r \in Standings /\ r.pc = label /\ r.session = caller[c].session /\ r.stage = stage
  BY <1>2 DEF Standings, Labels
<1> HIDE DEF r
<1>4. /\ midway' \subseteq TdsSessions /\ inTx' \subseteq TdsSessions
      /\ caller[c].session \notin midway'
      /\ \A x \in TdsSessions \ {caller[c].session} :
           (x \in midway' <=> x \in midway) /\ (x \in inTx' <=> x \in inTx)
  BY <1>2 DEF Settles
<1>5. FitWith(r, midway', inTx')
  BY <1>3, <1>4 DEF FitWith
<1> QED
  BY <1>1, <1>3, <1>4, <1>5, FitKeeps

LEMMA SucceedsFit ==
  ASSUME SessionPoolInv, SessionsApart, FitInv, NEW c \in Callers, Succeeds(c)
  PROVE  FitInv'
<1> DEFINE s == caller[c].session
           to == caller[c].stage
<1>1. /\ In(c, "running") /\ Settles(c) /\ UNCHANGED idle
      /\ to \in Stages /\ FitWith(caller[c], midway, inTx)
  BY StatementEnds, FitStack DEF SessionPoolInv, SessionPoolTypeOK, Standings
<1>2. to \in {"first", "more", "begin"} => s \notin inTx
  BY <1>1 DEF FitWith, In
<1>3. CASE to = "first"
  <2>1. /\ s \notin inTx'
        /\ \/ Goes(c, "clearing", "more") \/ Goes(c, "dropping", to)
           \/ Goes(c, "holding", "more")
    BY <1>2, <1>3 DEF Succeeds, Ends
  <2> QED
    BY <1>1, <2>1, GoesFit DEF Stages
<1>4. CASE to = "more"
  <2>1. s \notin inTx' /\ (Goes(c, "dropping", to) \/ Goes(c, "holding", "more"))
    BY <1>2, <1>4 DEF Succeeds, Ends
  <2> QED
    BY <1>1, <2>1, GoesFit DEF Stages
<1>5. CASE to = "begin"
  <2>1. Goes(c, "holding", "execute")
    BY <1>5 DEF Succeeds
  <2> QED
    BY <1>1, <2>1, GoesFit DEF Stages
<1>6. CASE to = "execute"
  <2>1. \E next \in {"execute", "commit", "rollback"} : Goes(c, "holding", next)
    BY <1>6 DEF Succeeds
  <2> QED
    BY <1>1, <2>1, GoesFit DEF Stages
<1>7. CASE to \in {"commit", "rollback"}
  <2>1. s \notin inTx' /\ Goes(c, "dropping", to)
    BY <1>7 DEF Succeeds, Ends
  <2> QED
    BY <1>1, <2>1, GoesFit
<1> QED
  BY <1>1, <1>3, <1>4, <1>5, <1>6, <1>7 DEF Stages

LEMMA RefusedFit ==
  ASSUME SessionPoolInv, SessionsApart, FitInv, NEW c \in Callers, Refused(c)
  PROVE  FitInv'
<1> DEFINE s == caller[c].session
           to == caller[c].stage
<1>1. /\ In(c, "running") /\ Settles(c) /\ UNCHANGED idle
      /\ to \in Stages /\ FitWith(caller[c], midway, inTx)
  BY StatementEnds, FitStack DEF SessionPoolInv, SessionPoolTypeOK, Standings
<1>2. CASE to = "execute"
  <2>1. Goes(c, "holding", "rollback")
    BY <1>2 DEF Refused
  <2> QED
    BY <1>1, <2>1, GoesFit DEF Stages
<1>3. CASE to # "execute"
  <2>1. Goes(c, "dropping", to)
    BY <1>3 DEF Refused, Ends
  <2>2. CASE to \in {"commit", "rollback"}
    <3>1. s \notin inTx'
      BY <2>2 DEF Refused
    <3> QED
      BY <1>1, <2>1, <3>1, GoesFit
  <2>3. CASE to \in {"first", "more", "begin"}
    <3>1. s \notin inTx'
      BY <1>1, <2>3 DEF Refused, FitWith, In
    <3> QED
      BY <1>1, <2>1, <3>1, GoesFit
  <2> QED
    BY <1>1, <1>3, <2>2, <2>3 DEF Stages
<1> QED
  BY <1>2, <1>3

\* The ceiling strikes while a first statement runs, whose guard is not healthy yet, or the
\* caller goes on after it closed the idle sessions.
LEMMA CutsFit ==
  ASSUME SessionPoolInv, SessionsApart, FitInv, NEW c \in Callers, caller[c].pc = "running",
         caller[c].stage = "first", Step(c, "dropping"), UNCHANGED <<idle, midway, inTx>>
  PROVE  FitInv'
<1> DEFINE r == [caller[c] EXCEPT !.pc = "dropping"]
<1>1. caller' = [caller EXCEPT ![c] = r]
  BY DEF Step
<1>2. /\ caller[c] \in Standings /\ FitWith(caller[c], midway, inTx)
      /\ midway' \subseteq TdsSessions /\ inTx' \subseteq TdsSessions
  BY FitStack
<1>3. /\ r \in Standings /\ r.pc = "dropping" /\ r.session = caller[c].session
      /\ r.healthy = caller[c].healthy
  BY <1>2 DEF Standings, Labels
<1> HIDE DEF r
<1>4. FitWith(r, midway', inTx')
  BY <1>2, <1>3 DEF FitWith
<1>5. \A x \in TdsSessions \ {caller[c].session} :
        (x \in midway' <=> x \in midway) /\ (x \in inTx' <=> x \in inTx)
  OBVIOUS
<1> QED
  BY <1>1, <1>2, <1>3, <1>4, <1>5, FitKeeps

LEMMA TimesOutFit ==
  ASSUME SessionPoolInv, SessionsApart, FitInv, ~LateCeilings, NEW c \in Callers, TimesOut(c)
  PROVE  FitInv'
<1>1. UNCHANGED <<idle, midway, inTx>>
  BY DEF TimesOut
<1>2. CASE Leave(c)
  BY <1>1, <1>2, SameStack, LeavesFit
<1>3. CASE In(c, "running") /\ caller[c].stage = "first" /\ Step(c, "dropping")
  BY <1>1, <1>3, CutsFit DEF In
<1> QED
  BY <1>2, <1>3 DEF TimesOut

LEMMA LostFit ==
  ASSUME SessionPoolInv, SessionsApart, FitInv, NEW c \in Callers, Lost(c)
  PROVE  FitInv'
<1> DEFINE r == [caller[c] EXCEPT !.pc = "dropping", !.session = NoSession, !.healthy = FALSE]
<1>1. caller' = [caller EXCEPT ![c] = r] /\ Gone(caller[c].session) /\ UNCHANGED idle
  BY DEF Lost
<1>2. /\ caller[c] \in Standings /\ midway \subseteq TdsSessions /\ inTx \subseteq TdsSessions
  BY FitStack
<1>3. r \in Standings /\ r.pc = "dropping" /\ r.session = NoSession /\ ~r.healthy
  BY <1>2 DEF Standings, Labels
<1> HIDE DEF r
<1>4. FitWith(r, midway', inTx')
  BY <1>3 DEF FitWith
<1>5. /\ midway' \subseteq TdsSessions /\ inTx' \subseteq TdsSessions
      /\ \A x \in TdsSessions \ {caller[c].session} :
           (x \in midway' <=> x \in midway) /\ (x \in inTx' <=> x \in inTx)
  BY <1>1, <1>2 DEF Gone
<1> QED
  BY <1>1, <1>3, <1>4, <1>5, FitKeeps

LEMMA CloseIdleFit ==
  ASSUME SessionPoolInv, SessionsApart, FitInv, NEW c \in Callers, CloseIdle(c)
  PROVE  FitInv'
<1> DEFINE r == [caller[c] EXCEPT !.pc = "holding"]
           s == caller[c].session
<1>1. /\ caller[c].pc = "clearing" /\ caller' = [caller EXCEPT ![c] = r] /\ idle' = <<>>
      /\ UNCHANGED <<midway, inTx>>
  BY DEF CloseIdle, In, Step
<1>2. /\ caller[c] \in Standings /\ FitWith(caller[c], midway, inTx)
      /\ midway' \subseteq TdsSessions /\ inTx' \subseteq TdsSessions
      /\ \A d \in Callers \ {c} : caller[d].session = s => s = NoSession
  BY <1>1, FitStack
<1>3. /\ r \in Standings /\ r.pc = "holding" /\ r.session = s
      /\ r.stage = caller[c].stage /\ r.healthy = caller[c].healthy
  BY <1>2 DEF Standings, Labels
<1>4. DOMAIN idle' = {} /\ Kept' = {}
  BY <1>1, EmptySeq, LenProperties DEF Kept
<1> HIDE DEF r, s
<1>5. FitWith(r, midway', inTx')
  BY <1>1, <1>2, <1>3 DEF FitWith, s
<1>6. /\ \A x \in TdsSessions \ {s} :
           (x \in midway' <=> x \in midway) /\ (x \in inTx' <=> x \in inTx)
      /\ r.session = NoSession \/ (r.session = s /\ s \notin Kept')
  BY <1>1, <1>3, <1>4
<1>7. \A x \in Kept' : \/ x \in Kept /\ x # s
                       \/ x = s /\ s # NoSession /\ s \notin midway' \cup inTx'
  BY <1>4
<1>8. /\ r \in Standings /\ caller' = [caller EXCEPT ![c] = r]
      /\ midway' \subseteq TdsSessions /\ inTx' \subseteq TdsSessions
      /\ \A d \in Callers \ {c} : caller[d].session = s => s = NoSession
  BY <1>1, <1>2, <1>3
<1> QED
  BY <1>5, <1>6, <1>7, <1>8, FitStep

LEMMA PutBackFit ==
  ASSUME SessionPoolInv, SessionsApart, FitInv, NEW c \in Callers, PutBack(c)
  PROVE  FitInv'
<1> DEFINE r == [caller[c] EXCEPT !.pc = "releasing", !.session = NoSession]
           s == caller[c].session
<1>1. /\ caller[c].pc = "dropping" /\ caller' = [caller EXCEPT ![c] = r]
      /\ \/ /\ caller[c].healthy /\ s # NoSession
            /\ idle' = Append(idle, s) /\ UNCHANGED <<midway, inTx>>
         \/ Gone(s) /\ UNCHANGED idle
  BY DEF PutBack, In
<1>2. /\ caller[c] \in Standings /\ FitWith(caller[c], midway, inTx)
      /\ midway \subseteq TdsSessions /\ inTx \subseteq TdsSessions
      /\ \A d \in Callers \ {c} : caller[d].session = s => s = NoSession
      /\ s \notin Kept /\ idle \in Seq(TdsSessions)
  BY FitStack
<1>3. r \in Standings /\ r.pc = "releasing" /\ r.session = NoSession
  BY <1>2 DEF Standings, Labels
<1> HIDE DEF r
<1>4. FitWith(r, midway', inTx')
  BY <1>3 DEF FitWith
<1>5. CASE Gone(s) /\ UNCHANGED idle
  <2>1. /\ midway' \subseteq TdsSessions /\ inTx' \subseteq TdsSessions
        /\ \A x \in TdsSessions \ {caller[c].session} :
             (x \in midway' <=> x \in midway) /\ (x \in inTx' <=> x \in inTx)
    BY <1>2, <1>5 DEF Gone
  <2> QED
    BY <1>1, <1>3, <1>4, <1>5, <2>1, FitKeeps
<1>6. CASE /\ caller[c].healthy /\ s # NoSession
           /\ idle' = Append(idle, s) /\ UNCHANGED <<midway, inTx>>
  <2>1. s \in TdsSessions /\ s \notin midway \cup inTx
    BY <1>1, <1>2, <1>6 DEF Standings, FitWith
  <2> HIDE DEF s
  <2>2. /\ Len(idle) \in Nat /\ DOMAIN idle = 1..Len(idle) /\ DOMAIN idle' = 1..Len(idle) + 1
        /\ \A i \in 1..Len(idle) : idle'[i] = idle[i]
        /\ idle'[Len(idle) + 1] = s
    BY <1>2, <1>6, <2>1, AppendProperties, LenProperties
  <2>3. \A i \in 1..Len(idle) : idle[i] # s /\ idle[i] \in Kept
    BY <1>2, <2>2 DEF Kept
  <2>5. \A i \in DOMAIN idle' : idle'[i] = s \/ (idle'[i] \in Kept /\ idle'[i] # s)
    BY <2>2, <2>3
  <2>6. \A x \in Kept' : \/ x \in Kept /\ x # s
                         \/ x = s /\ s # NoSession /\ s \notin midway' \cup inTx'
    BY <1>6, <2>1, <2>5 DEF Kept
  <2>7. /\ midway' \subseteq TdsSessions /\ inTx' \subseteq TdsSessions
        /\ \A x \in TdsSessions \ {s} :
             (x \in midway' <=> x \in midway) /\ (x \in inTx' <=> x \in inTx)
    BY <1>2, <1>6
  <2> QED
    BY <1>1, <1>2, <1>3, <1>4, <2>6, <2>7, FitStep
<1> QED
  BY <1>1, <1>5, <1>6

LEMMA ReapIdleFit ==
  ASSUME SessionPoolInv, SessionsApart, FitInv, NEW c \in Callers, ReapIdle(c)
  PROVE  FitInv'
<1>1. Len(idle) \in Nat /\ Leave(c) /\ UNCHANGED <<midway, inTx>>
  BY FitStack DEF ReapIdle
<1>2. PICK n \in 1..Len(idle) + 1 : idle' = SubSeq(idle, n, Len(idle))
  BY DEF ReapIdle, Unexpired
<1>3. Kept' \subseteq Kept
  <2>1. Len(idle) \in 0..Len(idle)
    BY <1>1
  <2> QED
    BY <1>2, <2>1, StackPart
<1> QED
  BY <1>1, <1>3, LeavesFit

LEMMA CloseSessionsFit ==
  ASSUME SessionPoolInv, SessionsApart, FitInv, CloseSessions
  PROVE  FitInv'
<1>1. UNCHANGED <<caller, midway, inTx>> /\ idle' = <<>>
  BY DEF CloseSessions
<1>2. Kept' = {} /\ DOMAIN idle' = {}
  BY <1>1, EmptySeq, LenProperties DEF Kept
<1> QED
  BY <1>1, <1>2 DEF FitInv, AllFit, IdleIsFit

LEMMA StepFit ==
  ASSUME SessionPoolInv, SessionsApart, FitInv, ~LateCeilings, [SessionPoolNext]_sessionPoolVars
  PROVE  FitInv'
<1>1. CASE CloseSessions
  BY <1>1, CloseSessionsFit
<1>2. ASSUME NEW c \in Callers, NEW job \in Jobs, Ask(c, job) PROVE FitInv'
  BY <1>2, AskFit
<1>3. ASSUME NEW c \in Callers, Admit(c) PROVE FitInv'
  <2>1. caller[c].pc = "queued"
    <3>1. Len(queue) \in Nat \ {0} /\ c = queue[1] /\ DOMAIN queue = 1..Len(queue)
      BY <1>3, HeadTailProperties, EmptySeq, LenProperties
         DEF Admit, SessionPoolInv, SessionPoolTypeOK
    <3> QED
      BY <3>1 DEF SessionPoolInv, QueueOfQueued, In
  <2>2. Step(c, "admitted") /\ UNCHANGED <<idle, midway, inTx>>
    BY <1>3 DEF Admit
  <2> QED
    BY <2>1, <2>2, AdmitFit
<1>4. ASSUME NEW c \in Callers, Refuse(c) \/ ConnectFails(c) PROVE FitInv'
  BY <1>4, SameStack, LeavesFit DEF Refuse, ConnectFails
<1>5. ASSUME NEW c \in Callers, Take(c) \/ Connects(c) \/ Run(c) \/ Succeeds(c) \/ Refused(c)
      PROVE FitInv'
  BY <1>5, TakeFit, ConnectsFit, RunFit, SucceedsFit, RefusedFit
<1>6. ASSUME NEW c \in Callers, Lost(c) \/ CloseIdle(c) \/ TimesOut(c) \/ PutBack(c) \/ ReapIdle(c)
      PROVE FitInv'
  BY <1>6, LostFit, CloseIdleFit, TimesOutFit, PutBackFit, ReapIdleFit
<1>7. ASSUME NEW c \in Callers, ReleasePermit(c) PROVE FitInv'
  <2>1. CASE Leave(c)
    BY <1>7, <2>1, SameStack, LeavesFit DEF ReleasePermit
  <2>2. CASE Step(c, "reaping")
    <3>1. caller[c].pc = "releasing" /\ UNCHANGED <<idle, midway, inTx>>
      BY <1>7 DEF ReleasePermit, In
    <3>2. "reaping" # "admitted"
      OBVIOUS
    <3> QED
      BY <2>2, <3>1, <3>2, AdmitFit
  <2> QED
    BY <1>7, <2>1, <2>2 DEF ReleasePermit
<1>8. CASE UNCHANGED sessionPoolVars
  BY <1>8 DEF sessionPoolVars, FitInv, SessionsApart, Kept, AllFit, IdleIsFit
<1> QED
  BY <1>1, <1>2, <1>3, <1>4, <1>5, <1>6, <1>7, <1>8 DEF SessionPoolNext

\* Where no ceiling strikes after a call's first statement, a session that waits for its next
\* caller is at the end of an answer and outside a transaction.
THEOREM KeptIsFit ==
  ASSUME ~LateCeilings
  PROVE  SessionPoolSpec => []IdleIsFit
<1>1. SessionPoolInv /\ SessionsApart /\ FitInv /\ [SessionPoolNext]_sessionPoolVars => FitInv'
  BY StepFit
<1>2. FitInv => IdleIsFit
  BY DEF FitInv
<1> QED
  BY <1>1, <1>2, FitInit, SessionPoolInvariant, NoneShared, PTL DEF SessionPoolSpec
=============================================================================
