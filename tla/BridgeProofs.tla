---------------------------- MODULE BridgeProofs ----------------------------
(***************************************************************************)
(* What serves can be found, a write is applied at most once, and the      *)
(* fallback runs only what was never sent, for any number of calls,        *)
(* listeners, starts and exits of the app.                                 *)
(***************************************************************************)
EXTENDS BridgeCalls, SequenceTheorems, TLAPS

(***************************************************************************)
(* The listener: as long as one task at a time runs reconcile.             *)
(***************************************************************************)

USE ListenerAssumption

OneReconciler == \E r : Reconcilers = {r}

-----------------------------------------------------------------------------
(* The invariant.                                                          *)

\* Only what the state or the reconciler holds serves, and the file names what is held.
Accounted ==
  /\ serving = ({handle} \cup {held[r] : r \in Reconcilers}) \ {None}
  /\ handle # None => discovery = handle
  /\ ~up => handle = None /\ \A r \in Reconcilers : In(r, "idle")

\* The reconciler holds a listener only between two of its steps, and no handle is in
\* the state then, nor when it decides to start another one.
Alone ==
  \A r \in Reconcilers :
    /\ doing[r] \in {"drop", "store"} <=> held[r] # None
    /\ doing[r] \in {"drop", "store", "start"} => handle = None
    /\ doing[r] = "store" => discovery = held[r]

\* What runs, or is about to, is wanted on disk, up to a reconcile that is under way.
Wanted ==
  \A r \in Reconcilers :
    /\ doing[r] \in {"idle", "save"} /\ handle # None => saved
    /\ doing[r] = "save" => desired[r] = want
    /\ doing[r] = "readWant" => want = saved
    /\ doing[r] = "readRunning" => desired[r] = saved
    /\ doing[r] \in {"start", "store"} => saved

ListenerInv == ListenerTypeOK /\ Accounted /\ Alone /\ Wanted

-----------------------------------------------------------------------------
(* What the steps preserve.                                                *)

LEMMA ListenerInitInv ==
  ASSUME OneReconciler, Init
  PROVE  ListenerInv
<1> USE DEF Init, ListenerInit
<1>1. ListenerTypeOK
  BY DEF ListenerTypeOK
<1>2. PICK r : Reconcilers = {r}
  BY DEF OneReconciler
<1>3. held[r] = None /\ doing[r] = "idle"
  BY <1>2
<1> QED
  BY <1>1, <1>2, <1>3 DEF ListenerInv, Accounted, Alone, Wanted, In

\* What the invariant says of the one task r.
OfOne(r) ==
  /\ serving = {handle, held[r]} \ {None}
  /\ handle # None => discovery = handle
  /\ ~up => handle = None /\ doing[r] = "idle"
  /\ doing[r] \in {"drop", "store"} <=> held[r] # None
  /\ doing[r] \in {"drop", "store", "start"} => handle = None
  /\ doing[r] = "store" => discovery = held[r]
  /\ doing[r] \in {"idle", "save"} /\ handle # None => saved
  /\ doing[r] = "save" => desired[r] = want
  /\ doing[r] = "readWant" => want = saved
  /\ doing[r] = "readRunning" => desired[r] = saved
  /\ doing[r] \in {"start", "store"} => saved

LEMMA One ==
  ASSUME NEW r, Reconcilers = {r}
  PROVE  ListenerInv <=> ListenerTypeOK /\ OfOne(r)
<1>1. {handle} \cup {held[q] : q \in Reconcilers} = {handle, held[r]}
  OBVIOUS
<1> QED
  BY <1>1 DEF ListenerInv, Accounted, Alone, Wanted, OfOne, In

LEMMA OnePrimed ==
  ASSUME NEW r, Reconcilers = {r}, ListenerTypeOK', OfOne(r)'
  PROVE  ListenerInv'
<1>1. ({handle} \cup {held[q] : q \in Reconcilers})' = {handle', held'[r]}
  OBVIOUS
<1> QED
  BY <1>1 DEF ListenerInv, Accounted, Alone, Wanted, OfOne, In

LEMMA ReconcilesInv ==
  ASSUME NEW r, Reconcilers = {r}, ListenerInv,
         AppStarts(r) \/ (\E value \in BOOLEAN : UpdatePreferences(r, value)) \/ Reconcile(r)
  PROVE  ListenerInv'
<1>1. ListenerTypeOK /\ OfOne(r) /\ r \in Reconcilers
  BY One
<1> USE DEF Run, In, OfOne, ListenerTypeOK
<1>2. CASE AppStarts(r)
  BY <1>1, <1>2, OnePrimed DEF AppStarts
<1>3. ASSUME NEW value \in BOOLEAN, UpdatePreferences(r, value)
      PROVE  ListenerInv'
  BY <1>1, <1>3, OnePrimed DEF UpdatePreferences
<1>4. CASE SavePreferences(r)
  BY <1>1, <1>4, OnePrimed DEF SavePreferences
<1>5. CASE ReadWant(r)
  BY <1>1, <1>5, OnePrimed DEF ReadWant
<1>6. CASE Compare(r)
  BY <1>1, <1>6, OnePrimed DEF Compare
<1>7. CASE TakeHandle(r)
  BY <1>1, <1>7, OnePrimed DEF TakeHandle
<1>8. CASE DropTaken(r)
  BY <1>1, <1>8, OnePrimed DEF DropTaken, DropHandle
<1>9. CASE StartListener(r)
  <2>1. CASE /\ Listeners \ used # {}
             /\ serving' = serving \cup {NewListener}
             /\ discovery' = NewListener
             /\ used' = used \cup {NewListener}
             /\ held' = [held EXCEPT ![r] = NewListener]
             /\ doing' = [doing EXCEPT ![r] = "store"]
    <3>1. PICK l \in Listeners \ used : NewListener = l
      BY <2>1 DEF NewListener
    <3>2. l # None
      BY <3>1
    <3> QED
      BY <1>1, <1>9, <2>1, <3>1, <3>2, OnePrimed DEF StartListener
  <2>2. CASE doing' = [doing EXCEPT ![r] = "idle"] /\ UNCHANGED <<serving, discovery, used, held>>
    BY <1>1, <1>9, <2>2, OnePrimed DEF StartListener
  <2> QED
    BY <1>9, <2>1, <2>2 DEF StartListener
<1>10. CASE StoreHandle(r)
  BY <1>1, <1>10, OnePrimed DEF StoreHandle, DropHandle
<1> QED
  BY <1>2, <1>3, <1>4, <1>5, <1>6, <1>7, <1>8, <1>9, <1>10 DEF Reconcile

LEMMA ListenerStep ==
  ASSUME OneReconciler, ListenerInv, [Next]_vars
  PROVE  ListenerInv'
<1>1. PICK r : Reconcilers = {r}
  BY DEF OneReconciler
<1>2. CASE ListenerNext
  BY <1>1, <1>2, ReconcilesInv DEF ListenerNext
<1>3. CASE AppStops
  <2>1. ListenerTypeOK /\ OfOne(r)
    BY <1>1, One
  <2>2. ListenerTypeOK'
    BY <1>3, <2>1 DEF AppStops, ListenerTypeOK
  <2>3. OfOne(r)'
    BY <1>1, <1>3, <2>1 DEF AppStops, OfOne
  <2> QED
    BY <1>1, <2>2, <2>3, OnePrimed
<1>4. CASE UNCHANGED listenerVars
  BY <1>4 DEF listenerVars, ListenerInv, ListenerTypeOK, Accounted, Alone, Wanted, In
<1>5. ListenerNext \/ AppStops \/ UNCHANGED listenerVars
  <2>1. CASE SidecarStarts \/ Serve \/ ClosePool \/ ReapLocal
    BY <2>1 DEF SidecarStarts, Serve, ReadRequest, Dispatch, Reply, ClosePool, ReapLocal
  <2>2. ASSUME NEW c \in Calls, Begin(c) \/ CallStep(c)
        PROVE  UNCHANGED listenerVars
    BY <2>2
    DEF Begin, CallStep, Lock, SendPayload, SendNewline, SendFails, Redial, Unsent,
        ReadAnswer, LoseAnswer, TimeOut, EnsureLocal, ExecuteLocal
  <2>3. CASE UNCHANGED vars
    BY <2>3 DEF vars
  <2> QED
    BY <2>1, <2>2, <2>3 DEF Next, AppExits
<1> QED
  BY <1>2, <1>3, <1>4, <1>5

LEMMA ListenerAlways ==
  ASSUME OneReconciler
  PROVE  Spec => []ListenerInv
<1>1. Init => ListenerInv
  BY ListenerInitInv
<1>2. ListenerInv /\ [Next]_vars => ListenerInv'
  BY ListenerStep
<1> QED
  BY <1>1, <1>2, PTL DEF Spec

\* The listener the app holds serves and is the one the discovery file names, whatever
\* order preferences, starts and exits come in (bridge/server.rs, reconcile), as long as
\* one task at a time reconciles.
THEOREM Discoverable ==
  ASSUME OneReconciler
  PROVE  Spec => []RunningDiscoverable
<1>1. ListenerInv => RunningDiscoverable
  BY DEF ListenerInv, ListenerTypeOK, Accounted, RunningDiscoverable
<1> QED
  BY <1>1, ListenerAlways, PTL

\* Once the preference is off, in memory and on disk, and no reconcile is under way, no
\* listener is left (bridge/server.rs, BridgeHandle::drop).
THEOREM Stopped ==
  ASSUME OneReconciler
  PROVE  Spec => []StoppedWhenUnwanted
<1>1. ListenerInv => StoppedWhenUnwanted
  <2> SUFFICES ASSUME ListenerInv, ~saved, \A r \in Reconcilers : In(r, "idle")
               PROVE  serving = {}
    BY DEF StoppedWhenUnwanted
  <2>1. PICK r : Reconcilers = {r}
    BY DEF OneReconciler
  <2>2. OfOne(r) /\ doing[r] = "idle"
    BY <2>1, One DEF In
  <2> QED
    BY <2>2 DEF OfOne
<1> QED
  BY <1>1, ListenerAlways, PTL

(***************************************************************************)
(* The calls.                                                              *)
(***************************************************************************)

\* Where a call holds the mutex of the stream.
Holding == {"payload", "newline", "redial", "payloadAgain", "newlineAgain",
            "unsent", "await"}

\* Where a call has not begun to send the request it is at.
Before == {"idle", "lock", "payload", "payloadAgain", "ensureLocal", "execute"}

Halfway == {"newline", "newlineAgain"}

Is(frame, c, s) == frame.call = c /\ frame.step = s

\* A listener never serves again, so a stream that ended stays that way.
Ended ==
  /\ serving \subseteq used
  /\ link \in used \cup {None}
  /\ mode = "starting" => \A c \in Calls : pc[c] = "idle"
  /\ \A c \in Calls : pc[c] \in Holding => lock = c
  /\ \A c \in Calls : pc[c] \in {"redial", "unsent"} => ~Open

\* No frame of the request c is about to send is on the stream, and while it
\* is being sent its frame is incomplete and so not read.
NotSent ==
  \A c \in Calls : Open =>
    /\ pc[c] \in Before \cup Halfway => ~Is(job, c, step[c])
    /\ pc[c] \in Before =>
         \A n \in 1..Len(inbox) : ~Is(inbox[n], c, step[c])
    /\ pc[c] \in Halfway =>
         \A n \in 1..Len(inbox) : Is(inbox[n], c, step[c]) => ~inbox[n].whole

\* The first request goes before the second.
InOrder ==
  \A c \in Calls : step[c] = "ensure" =>
    /\ applied[c] = 0
    /\ Open => /\ ~Is(job, c, "write")
               /\ \A n \in 1..Len(inbox) : ~Is(inbox[n], c, "write")

\* The stream holds a write once.
HeldOnce ==
  Open => \A c \in Calls :
    /\ \A m, n \in 1..Len(inbox) :
         Is(inbox[m], c, "write") /\ Is(inbox[n], c, "write") => m = n
    /\ Is(job, c, "write") => \A n \in 1..Len(inbox) : ~Is(inbox[n], c, "write")

\* What is on the stream, or yet to be sent, has not been applied.
NotApplied ==
  \A c \in Calls :
    /\ pc[c] \notin {"await", "done"} /\ step[c] = "write" => applied[c] = 0
    /\ Open /\ (\E n \in 1..Len(inbox) : Is(inbox[n], c, "write")) => applied[c] = 0
    /\ Open /\ Is(job, c, "write") /\ job.result = "none" => applied[c] = 0

IInv ==
  /\ TypeOK
  /\ Ended
  /\ NotSent
  /\ InOrder
  /\ HeldOnce
  /\ NotApplied
  /\ NeverAppliedTwice

USE ListenerAssumption, CallsAssumption

-----------------------------------------------------------------------------
(* The stream's frames *)

LEMMA FramesOnStream ==
  ASSUME TypeOK
  PROVE  /\ Len(inbox) \in Nat
         /\ \A n \in 1..Len(inbox) : inbox[n] \in Frames
BY DEF TypeOK

LEMMA NobodysJob ==
  ASSUME NEW c \in Calls, NEW s
  PROVE  ~Is(NoJob, c, s)
BY DEF NoJob, Is

\* A frame that is read leaves the others in their order.
LEMMA TailOfStream ==
  ASSUME TypeOK, inbox # <<>>
  PROVE  /\ Tail(inbox) \in Seq(Frames)
         /\ Head(inbox) = inbox[1]
         /\ 1 \in 1..Len(inbox)
         /\ Len(Tail(inbox)) = Len(inbox) - 1
         /\ \A n \in 1..Len(Tail(inbox)) :
              n + 1 \in 1..Len(inbox) /\ Tail(inbox)[n] = inbox[n + 1]
BY HeadTailProperties, FramesOnStream, EmptySeq DEF TypeOK

\* A frame that is completed is still the frame of its request.
LEMMA CompletedFrame ==
  ASSUME TypeOK, NEW to, to = [inbox EXCEPT ![Len(inbox)].whole = TRUE]
  PROVE  /\ to \in Seq(Frames)
         /\ Len(to) = Len(inbox)
         /\ \A n \in 1..Len(inbox) : \A c, s : Is(to[n], c, s) <=> Is(inbox[n], c, s)
<1>1. /\ inbox \in [1..Len(inbox) -> Frames]
      /\ Len(inbox) \in Nat
  BY DEF TypeOK
<1>2. to \in [1..Len(inbox) -> Frames]
  BY <1>1 DEF Frames
<1>3. to \in Seq(Frames) /\ Len(to) = Len(inbox)
  BY <1>1, <1>2
<1>4. \A n \in 1..Len(inbox) : to[n].call = inbox[n].call /\ to[n].step = inbox[n].step
  BY <1>1 DEF Frames
<1> QED
  BY <1>3, <1>4 DEF Is

-----------------------------------------------------------------------------
(* The listener's steps *)

LEMMA Initially == Init => IInv
<1> SUFFICES ASSUME Init PROVE IInv
  OBVIOUS
<1> USE DEF Init, ListenerInit
<1>1. TypeOK
  <2>1. <<>> \in Seq(Frames) /\ <<>> \in Seq(Jobs)
    OBVIOUS
  <2>2. ListenerTypeOK
    BY DEF ListenerTypeOK
  <2> QED
    BY <2>1, <2>2 DEF TypeOK, Steps
<1>2. ~Open
  BY DEF Open
<1> QED
  BY <1>1, <1>2 DEF IInv, Ended, NotSent, InOrder, HeldOnce, NotApplied,
                    NeverAppliedTwice, Holding

\* A step of the app that leaves the stream alone can only end it.
LEMMA StreamEnds ==
  ASSUME IInv, UNCHANGED <<mode, link, lock, inbox, job, outbox, localPool,
                           step, pc, outcome, applied>>,
         TypeOK', serving' \subseteq used', used \subseteq used', Open' => Open
  PROVE  IInv'
<1> USE DEF IInv
<1>1. Ended'
  BY DEF Ended
<1>2. NotSent' /\ InOrder'
  BY DEF NotSent, InOrder, Is
<1>3. HeldOnce' /\ NotApplied' /\ NeverAppliedTwice'
  BY DEF HeldOnce, NotApplied, NeverAppliedTwice, Is
<1> QED
  BY <1>1, <1>2, <1>3

\* What the app's own steps do to the stream.
OnlyEnds ==
  /\ ListenerTypeOK'
  /\ serving' \subseteq used'
  /\ used \subseteq used'
  /\ Open' => Open

\* No step of the listener brings back a stream that ended.
LEMMA ListenerEnds ==
  ASSUME IInv, ListenerNext, UNCHANGED callVars
  PROVE  OnlyEnds
<1> USE DEF callVars, TypeOK, ListenerTypeOK
<1>0. TypeOK /\ Ended
  BY DEF IInv
<1>1. PICK r \in Reconcilers : \/ AppStarts(r)
                              \/ \E value \in BOOLEAN : UpdatePreferences(r, value)
                              \/ Reconcile(r)
  BY DEF ListenerNext
<1> USE DEF Ended, Run, In, Open, DropHandle, OnlyEnds
<1>2. CASE AppStarts(r)
  BY <1>0, <1>2 DEF AppStarts
<1>3. ASSUME NEW value \in BOOLEAN, UpdatePreferences(r, value)
      PROVE  OnlyEnds
  BY <1>0, <1>3 DEF UpdatePreferences
<1>4. CASE SavePreferences(r)
  BY <1>0, <1>4 DEF SavePreferences
<1>5. CASE ReadWant(r)
  BY <1>0, <1>5 DEF ReadWant
<1>6. CASE Compare(r)
  BY <1>0, <1>6 DEF Compare
<1>7. CASE TakeHandle(r)
  BY <1>0, <1>7 DEF TakeHandle
<1>8. CASE DropTaken(r)
  BY <1>0, <1>8 DEF DropTaken
<1>9. CASE StartListener(r)
  <2>1. CASE UNCHANGED <<serving, discovery, used, held>>
    BY <1>0, <1>9, <2>1 DEF StartListener
  <2>2. CASE /\ Listeners \ used # {}
             /\ serving' = serving \cup {NewListener}
             /\ discovery' = NewListener
             /\ used' = used \cup {NewListener}
             /\ held' = [held EXCEPT ![r] = NewListener]
             /\ doing' = [doing EXCEPT ![r] = "store"]
    <3>1. PICK l \in Listeners \ used : NewListener = l
      BY <2>2 DEF NewListener
    <3>2. ListenerTypeOK'
      BY <1>0, <1>9, <2>2, <3>1 DEF StartListener
    <3>3. link \in used \cup {None} /\ None # l
      BY <1>0, <3>1
    <3> QED
      BY <1>0, <1>9, <2>2, <3>1, <3>2, <3>3 DEF StartListener
  <2> QED
    BY <1>9, <2>1, <2>2 DEF StartListener
<1>10. CASE StoreHandle(r)
  BY <1>0, <1>10 DEF StoreHandle
<1> HIDE DEF TypeOK, ListenerTypeOK, Ended, Run, In, Open, DropHandle, OnlyEnds
<1> QED
  BY <1>1, <1>2, <1>3, <1>4, <1>5, <1>6, <1>7, <1>8, <1>9, <1>10 DEF Reconcile

LEMMA ListenerSteps ==
  ASSUME IInv, ListenerNext, UNCHANGED callVars
  PROVE  IInv'
<1>1. OnlyEnds
  BY ListenerEnds
<1>2. TypeOK'
  BY <1>1 DEF OnlyEnds, IInv, TypeOK, callVars
<1> QED
  BY <1>1, <1>2, StreamEnds DEF OnlyEnds, callVars

\* The app's exit ends the stream.
LEMMA AppExitsStep ==
  ASSUME IInv, AppExits
  PROVE  IInv'
<1> USE DEF AppExits, AppStops
<1>1. TypeOK /\ Ended
  BY DEF IInv
<1>2. TypeOK'
  BY <1>1 DEF TypeOK, ListenerTypeOK
<1>3. /\ serving' \subseteq used'
      /\ used \subseteq used'
      /\ Open' => Open
  BY <1>1 DEF Ended, Open
<1> QED
  BY <1>2, <1>3, StreamEnds

LEMMA PoolSteps ==
  ASSUME IInv, ClosePool \/ ReapLocal
  PROVE  IInv'
<1> USE DEF ClosePool, ReapLocal, IInv, listenerVars
<1>1. TypeOK'
  BY DEF TypeOK, ListenerTypeOK
<1>2. Ended'
  BY DEF Ended, Open
<1>3. NotSent' /\ InOrder' /\ HeldOnce' /\ NotApplied' /\ NeverAppliedTwice'
  BY DEF NotSent, InOrder, HeldOnce, NotApplied, NeverAppliedTwice, Is, Open
<1> QED
  BY <1>1, <1>2, <1>3

-----------------------------------------------------------------------------
(* The steps of a call *)

\* Nobody else holds the mutex that a call holds, takes or gives back.
LEMMA Exclusive ==
  ASSUME TypeOK, Ended, NEW c \in Calls, lock = None \/ pc[c] \in Holding
  PROVE  \A d \in Calls \ {c} : pc[d] \notin Holding
BY DEF TypeOK, Ended

\* A step that neither sends, nor reaches the database, nor goes on to the
\* next request keeps the invariant, unless it forgets that it has sent.
LEMMA CallMoves ==
  ASSUME IInv, TypeOK', NEW c \in Calls, NEW label,
         pc' = [pc EXCEPT ![c] = label],
         UNCHANGED <<listenerVars, mode, link, inbox, job, step, applied>>,
         mode # "starting",
         label \in Before => pc[c] \in Before \/ ~Open,
         label \in Halfway => ~Open,
         label \in {"redial", "unsent"} => ~Open,
         label \notin {"await", "done"} => pc[c] \notin {"await", "done"},
         label \in Holding => lock' = c,
         \A d \in Calls \ {c} : pc[d] \in Holding => lock' = d
  PROVE  IInv'
<1> USE DEF IInv, listenerVars
<1>1. pc' = [d \in Calls |-> IF d = c THEN label ELSE pc[d]] /\ (Open' <=> Open)
  BY DEF TypeOK, Open
<1>2. Ended'
  BY <1>1 DEF Ended
<1>3. NotSent' /\ InOrder'
  BY <1>1 DEF NotSent, InOrder, Is
<1>4. HeldOnce' /\ NeverAppliedTwice'
  BY <1>1 DEF HeldOnce, NeverAppliedTwice, Is
<1>5. NotApplied'
  BY <1>1 DEF NotApplied, Is
<1> QED
  BY <1>2, <1>3, <1>4, <1>5

LEMMA QuietSteps ==
  ASSUME IInv, NEW c \in Calls,
         \/ Begin(c) \/ Lock(c) \/ SendFails(c) \/ Unsent(c) \/ LoseAnswer(c) \/ TimeOut(c)
  PROVE  IInv'
<1>0. TypeOK /\ Ended
  BY DEF IInv
<1>1. TypeOK'
  <2> USE <1>0 DEF TypeOK, ListenerTypeOK, listenerVars, At, Goto, Report
  <2>1. CASE Begin(c)
    BY <2>1 DEF Begin
  <2>2. CASE Lock(c)
    BY <2>2 DEF Lock
  <2>3. CASE SendFails(c)
    <3>1. PICK label \in {"redial", "unsent"} : pc' = [pc EXCEPT ![c] = label]
      BY <2>3 DEF SendFails
    <3> QED
      BY <2>3, <3>1 DEF SendFails
  <2>4. CASE Unsent(c)
    BY <2>4 DEF Unsent
  <2>5. CASE LoseAnswer(c)
    <3>1. <<>> \in Seq(Jobs)
      OBVIOUS
    <3> QED
      BY <2>5, <3>1 DEF LoseAnswer
  <2>6. CASE TimeOut(c)
    BY <2>6 DEF TimeOut
  <2> QED
    BY <2>1, <2>2, <2>3, <2>4, <2>5, <2>6
<1>2. pc[c] # "idle" => mode # "starting"
  BY <1>0 DEF Ended
<1>3. /\ pc[c] \in {"redial", "unsent"} => ~Open
      /\ \A d \in Calls : pc[d] \in Holding => lock = d
  BY <1>0 DEF Ended
<1>4. lock = None \/ pc[c] \in Holding => \A d \in Calls \ {c} : pc[d] \notin Holding
  BY <1>0, Exclusive
<1> USE DEF At, Goto, Report, Before, Halfway, Holding
<1>5. CASE Begin(c)
  BY <1>1, <1>3, <1>5, CallMoves DEF Begin
<1>6. CASE Lock(c)
  BY <1>1, <1>2, <1>4, <1>6, CallMoves DEF Lock
<1>7. CASE SendFails(c)
  BY <1>1, <1>2, <1>3, <1>7, CallMoves DEF SendFails
<1>8. CASE Unsent(c)
  BY <1>1, <1>2, <1>3, <1>4, <1>8, CallMoves DEF Unsent
<1>9. CASE LoseAnswer(c)
  BY <1>1, <1>2, <1>4, <1>9, CallMoves DEF LoseAnswer
<1>10. CASE TimeOut(c)
  BY <1>1, <1>2, <1>4, <1>10, CallMoves DEF TimeOut
<1> QED
  BY <1>5, <1>6, <1>7, <1>8, <1>9, <1>10

LEMMA SendPayloadStep ==
  ASSUME IInv, NEW c \in Calls, SendPayload(c)
  PROVE  IInv'
<1>0. TypeOK /\ Ended /\ NotSent /\ InOrder /\ HeldOnce /\ NotApplied
  BY DEF IInv
<1> USE DEF SendPayload, Goto, At, listenerVars
<1>1. Frame(c) \in Frames
  BY <1>0 DEF TypeOK, Frame, Frames
<1>2. PICK label \in Halfway : pc' = [pc EXCEPT ![c] = label]
  BY DEF Halfway
<1>3. TypeOK'
  <2>1. inbox' \in Seq(Frames)
    BY <1>0, <1>1, AppendProperties DEF TypeOK
  <2>2. pc' \in [Calls -> {"idle", "lock", "payload", "newline", "redial",
                          "payloadAgain", "newlineAgain", "unsent", "await",
                          "ensureLocal", "execute", "done"}]
    BY <1>0, <1>2 DEF TypeOK, Halfway
  <2> QED
    BY <1>0, <2>1, <2>2 DEF TypeOK, ListenerTypeOK
<1>4. pc[c] \in Before \cap Holding /\ label \in Holding
  BY <1>2 DEF Before, Holding, Halfway
<1>5. CASE ~Open
  <2>1. lock = c /\ mode # "starting"
    BY <1>0, <1>4 DEF Ended, Before, Holding
  <2> QED
    BY <1>0, <1>2, <1>3, <1>4, <1>5, <2>1, CallMoves DEF Ended, Before, Halfway
<1>6. CASE Open
  <2>1. /\ Len(inbox) \in Nat
        /\ Len(inbox') = Len(inbox) + 1
        /\ \A n \in 1..Len(inbox) : inbox'[n] = inbox[n]
        /\ inbox'[Len(inbox) + 1] = Frame(c)
    BY <1>0, <1>1, <1>6, AppendProperties DEF TypeOK
  <2>2. \A n \in 1..Len(inbox') : n \in 1..Len(inbox) \/ n = Len(inbox) + 1
    BY <2>1
  <2>3. \A d, s : Is(Frame(c), d, s) <=> d = c /\ s = step[c]
    BY DEF Is, Frame
  <2>4. pc' = [d \in Calls |-> IF d = c THEN label ELSE pc[d]] /\ Open'
    BY <1>0, <1>2, <1>6 DEF TypeOK, Open
  <2>5. Ended'
    BY <1>0, <1>2, <1>4, <2>4 DEF Ended, Before, Holding, Halfway
  <2>6. NotSent'
    <3> SUFFICES ASSUME NEW d \in Calls
                 PROVE  /\ pc'[d] \in Before \cup Halfway => ~Is(job, d, step[d])
                        /\ pc'[d] \in Before =>
                             \A n \in 1..Len(inbox') : ~Is(inbox'[n], d, step[d])
                        /\ pc'[d] \in Halfway =>
                             \A n \in 1..Len(inbox') :
                               Is(inbox'[n], d, step[d]) => ~inbox'[n].whole
      BY DEF NotSent, Is
    <3>1. CASE d = c
      BY <1>0, <1>2, <1>4, <1>6, <2>1, <2>2, <2>4, <3>1 DEF NotSent, Frame, Before, Halfway
    <3>2. CASE d # c
      BY <1>0, <1>6, <2>1, <2>2, <2>3, <2>4, <3>2 DEF NotSent
    <3> QED
      BY <3>1, <3>2
  <2>7. InOrder'
    <3> SUFFICES ASSUME NEW d \in Calls, step[d] = "ensure"
                 PROVE  /\ applied[d] = 0
                        /\ ~Is(job, d, "write")
                        /\ \A n \in 1..Len(inbox') : ~Is(inbox'[n], d, "write")
      BY DEF InOrder, Is
    <3> QED
      BY <1>0, <1>6, <2>1, <2>2, <2>3 DEF InOrder
  <2>8. HeldOnce'
    <3> SUFFICES ASSUME NEW d \in Calls
                 PROVE  /\ \A m, n \in 1..Len(inbox') :
                             Is(inbox'[m], d, "write") /\ Is(inbox'[n], d, "write") => m = n
                        /\ Is(job, d, "write") =>
                             \A n \in 1..Len(inbox') : ~Is(inbox'[n], d, "write")
      BY DEF HeldOnce, Is
    <3>1. CASE d = c /\ step[c] = "write"
      BY <1>0, <1>4, <1>6, <2>1, <2>2, <2>3, <3>1 DEF NotSent
    <3>2. CASE d # c \/ step[c] # "write"
      BY <1>0, <1>6, <2>1, <2>2, <2>3, <3>2 DEF HeldOnce
    <3> QED
      BY <3>1, <3>2
  <2>9. NotApplied'
    <3>1. pc[c] \notin {"await", "done"}
      BY <1>4 DEF Before
    <3> SUFFICES ASSUME NEW d \in Calls
                 PROVE  /\ pc'[d] \notin {"await", "done"} /\ step[d] = "write" => applied[d] = 0
                        /\ (\E n \in 1..Len(inbox') : Is(inbox'[n], d, "write")) => applied[d] = 0
                        /\ Is(job, d, "write") /\ job.result = "none" => applied[d] = 0
      BY DEF NotApplied, Is
    <3> QED
      BY <1>0, <1>6, <2>1, <2>2, <2>3, <2>4, <3>1 DEF NotApplied
  <2> QED
    BY <1>3, <2>5, <2>6, <2>7, <2>8, <2>9 DEF IInv, NeverAppliedTwice
<1> QED
  BY <1>5, <1>6

LEMMA SendNewlineStep ==
  ASSUME IInv, NEW c \in Calls, SendNewline(c)
  PROVE  IInv'
<1>0. TypeOK /\ Ended /\ NotSent /\ InOrder /\ HeldOnce /\ NotApplied
  BY DEF IInv
<1> USE DEF SendNewline, Goto, At, listenerVars
<1>1. /\ inbox' \in Seq(Frames)
      /\ Len(inbox') = Len(inbox)
      /\ \A n \in 1..Len(inbox) : \A d, s : Is(inbox'[n], d, s) <=> Is(inbox[n], d, s)
  <2>1. CASE Open
    BY <1>0, <2>1, CompletedFrame
  <2>2. CASE ~Open
    BY <1>0, <2>2 DEF TypeOK
  <2> QED
    BY <2>1, <2>2
<1>2. TypeOK'
  BY <1>0, <1>1 DEF TypeOK, ListenerTypeOK
<1>3. /\ pc' = [d \in Calls |-> IF d = c THEN "await" ELSE pc[d]]
      /\ Open' <=> Open
  BY <1>0 DEF TypeOK, Open
<1>4. pc[c] \in Halfway /\ pc[c] \in Holding /\ Halfway \subseteq Holding
  BY DEF Halfway, Holding
<1>5. Ended'
  BY <1>0, <1>3, <1>4 DEF Ended, Halfway
<1>6. NotSent'
  <2> SUFFICES ASSUME NEW d \in Calls, Open
               PROVE  /\ pc'[d] \in Before \cup Halfway => ~Is(job, d, step[d])
                      /\ pc'[d] \in Before =>
                           \A n \in 1..Len(inbox') : ~Is(inbox'[n], d, step[d])
                      /\ pc'[d] \in Halfway =>
                           \A n \in 1..Len(inbox') :
                             Is(inbox'[n], d, step[d]) => ~inbox'[n].whole
    BY <1>3 DEF NotSent, Is
  <2>1. CASE d = c
    BY <1>3, <2>1 DEF Before, Halfway
  <2>2. CASE d # c
    <3>1. pc[d] \notin Halfway
      BY <1>0, <1>4, <2>2, Exclusive
    <3> QED
      BY <1>0, <1>1, <1>3, <2>2, <3>1 DEF NotSent
  <2> QED
    BY <2>1, <2>2
<1>7. InOrder'
  BY <1>0, <1>1, <1>3 DEF InOrder, Is
<1>8. HeldOnce'
  <2> SUFFICES ASSUME Open, NEW d \in Calls
               PROVE  /\ \A m, n \in 1..Len(inbox') :
                           Is(inbox'[m], d, "write") /\ Is(inbox'[n], d, "write") => m = n
                      /\ Is(job, d, "write") =>
                           \A n \in 1..Len(inbox') : ~Is(inbox'[n], d, "write")
    BY <1>3 DEF HeldOnce, Is
  <2> QED
    BY <1>0, <1>1 DEF HeldOnce
<1>9. NotApplied'
  <2> SUFFICES ASSUME NEW d \in Calls
               PROVE  /\ pc'[d] \notin {"await", "done"} /\ step[d] = "write" => applied[d] = 0
                      /\ Open /\ (\E n \in 1..Len(inbox') : Is(inbox'[n], d, "write"))
                           => applied[d] = 0
                      /\ Open /\ Is(job, d, "write") /\ job.result = "none" => applied[d] = 0
    BY <1>3 DEF NotApplied, Is
  <2> QED
    BY <1>0, <1>1, <1>3 DEF NotApplied
<1> QED
  BY <1>2, <1>5, <1>6, <1>7, <1>8, <1>9 DEF IInv, NeverAppliedTwice

\* A new stream is empty.
LEMMA DialStep ==
  ASSUME IInv, Dial, TypeOK', Ended',
         UNCHANGED <<listenerVars, step, applied>>,
         \A c \in Calls : pc'[c] \notin {"await", "done"} => pc[c] \notin {"await", "done"}
  PROVE  IInv'
<1> USE DEF IInv, Dial
<1>1. job' = NoJob /\ Len(inbox') = 0
  OBVIOUS
<1>2. \A c \in Calls : \A s : ~Is(job', c, s)
  BY <1>1, NobodysJob
<1>3. 1..Len(inbox') = {}
  BY <1>1
<1>4. NotSent' /\ InOrder' /\ HeldOnce'
  BY <1>2, <1>3 DEF NotSent, InOrder, HeldOnce, Is
<1>5. NotApplied' /\ NeverAppliedTwice'
  BY <1>2, <1>3 DEF NotApplied, NeverAppliedTwice, Is
<1> QED
  BY <1>4, <1>5

LEMMA Redials ==
  ASSUME IInv, NEW c \in Calls, Redial(c)
  PROVE  IInv'
<1>0. TypeOK /\ Ended
  BY DEF IInv
<1> USE DEF Redial, Goto, At, listenerVars, Holding
<1>1. lock = c /\ mode # "starting" /\ ~Open
  BY <1>0 DEF Ended
<1>2. CASE Dial /\ pc' = [pc EXCEPT ![c] = "payloadAgain"]
  <2>1. <<>> \in Seq(Frames) /\ <<>> \in Seq(Jobs)
    OBVIOUS
  <2>2. TypeOK'
    BY <1>0, <1>2, <2>1 DEF TypeOK, ListenerTypeOK, Dial
  <2>3. pc' = [d \in Calls |-> IF d = c THEN "payloadAgain" ELSE pc[d]]
    BY <1>0, <1>2 DEF TypeOK
  <2>4. \A d \in Calls \ {c} : pc[d] \notin Holding
    BY <1>0, Exclusive
  <2>5. Ended'
    BY <1>0, <1>1, <1>2, <2>3, <2>4 DEF Ended, Dial
  <2> QED
    BY <1>2, <2>2, <2>3, <2>5, DialStep
<1>3. CASE pc' = [pc EXCEPT ![c] = "unsent"] /\ UNCHANGED <<link, inbox, outbox, job>>
  <2>1. TypeOK'
    BY <1>0, <1>3 DEF TypeOK, ListenerTypeOK
  <2> QED
    BY <1>0, <1>1, <1>3, <2>1, CallMoves DEF Ended, Before, Halfway
<1> QED
  BY <1>2, <1>3

LEMMA SidecarStartsStep ==
  ASSUME IInv, SidecarStarts
  PROVE  IInv'
<1>0. TypeOK /\ Ended
  BY DEF IInv
<1> USE DEF SidecarStarts, listenerVars
<1>1. CASE Dial /\ mode' = "bridged"
  <2>1. <<>> \in Seq(Frames) /\ <<>> \in Seq(Jobs)
    OBVIOUS
  <2>2. TypeOK'
    BY <1>0, <1>1, <2>1 DEF TypeOK, ListenerTypeOK, Dial
  <2>3. Ended'
    BY <1>0, <1>1 DEF Ended, Dial, Holding
  <2> QED
    BY <1>1, <2>2, <2>3, DialStep
<1>2. CASE mode' = "local" /\ UNCHANGED <<link, inbox, outbox, job>>
  <2>1. TypeOK'
    BY <1>0, <1>2 DEF TypeOK, ListenerTypeOK
  <2>2. Ended'
    BY <1>0, <1>2 DEF Ended, Open
  <2>3. NotSent' /\ InOrder' /\ HeldOnce' /\ NotApplied' /\ NeverAppliedTwice'
    BY <1>2 DEF IInv, NotSent, InOrder, HeldOnce, NotApplied, NeverAppliedTwice, Is, Open
  <2> QED
    BY <2>1, <2>2, <2>3 DEF IInv
<1> QED
  BY <1>1, <1>2

-----------------------------------------------------------------------------
(* From the first request to the second *)

\* Call c has done its first request and none of the second is on the stream.
LEMMA NextRequest ==
  ASSUME IInv, TypeOK', NEW c \in Calls, NEW label \in {"lock", "execute"},
         pc' = [pc EXCEPT ![c] = label],
         step' = [step EXCEPT ![c] = "write"], step[c] = "ensure",
         UNCHANGED <<listenerVars, mode, link, inbox, job, applied>>,
         mode # "starting",
         \A d \in Calls \ {c} : pc[d] \in Holding => lock' = d
  PROVE  IInv'
<1> USE DEF IInv, listenerVars
<1>1. /\ pc' = [d \in Calls |-> IF d = c THEN label ELSE pc[d]]
      /\ step' = [d \in Calls |-> IF d = c THEN "write" ELSE step[d]]
      /\ Open' <=> Open
  BY DEF TypeOK, Open
<1>2. Ended'
  BY <1>1 DEF Ended, Holding
<1>3. NotSent'
  BY <1>1 DEF NotSent, InOrder, Is, Before, Halfway
<1>4. InOrder'
  BY <1>1 DEF InOrder, Is
<1>5. HeldOnce' /\ NeverAppliedTwice'
  BY <1>1 DEF HeldOnce, NeverAppliedTwice, Is
<1>6. NotApplied'
  BY <1>1 DEF NotApplied, InOrder, Is
<1> QED
  BY <1>2, <1>3, <1>4, <1>5, <1>6

LEMMA ReadAnswerStep ==
  ASSUME IInv, NEW c \in Calls, ReadAnswer(c)
  PROVE  IInv'
<1>0. TypeOK /\ Ended
  BY DEF IInv
<1> USE DEF ReadAnswer, At, Goto, Report, listenerVars
<1>1. outbox' \in Seq(Jobs)
  BY <1>0, HeadTailProperties DEF TypeOK
<1>2. /\ mode # "starting"
      /\ \A d \in Calls \ {c} : pc[d] \notin Holding
  BY <1>0, Exclusive DEF Ended, Holding
<1>3. CASE step[c] = "ensure" /\ step' = [step EXCEPT ![c] = "write"]
           /\ pc' = [pc EXCEPT ![c] = "lock"] /\ UNCHANGED outcome
  <2>1. TypeOK'
    BY <1>0, <1>1, <1>3 DEF TypeOK, ListenerTypeOK, Steps
  <2> QED
    BY <1>2, <1>3, <2>1, NextRequest
<1>4. ASSUME NEW result \in {"ok", "error"},
             pc' = [pc EXCEPT ![c] = "done"],
             outcome' = [outcome EXCEPT ![c] = result], UNCHANGED step
      PROVE  IInv'
  <2>1. TypeOK'
    BY <1>0, <1>1, <1>4 DEF TypeOK, ListenerTypeOK
  <2> QED
    BY <1>2, <1>4, <2>1, CallMoves DEF Before, Halfway, Holding
<1> QED
  BY <1>3, <1>4

LEMMA EnsureLocalStep ==
  ASSUME IInv, NEW c \in Calls, EnsureLocal(c)
  PROVE  IInv'
<1>0. TypeOK /\ Ended
  BY DEF IInv
<1> USE DEF EnsureLocal, At, Goto, Report, listenerVars
<1>1. mode # "starting" /\ \A d \in Calls : pc[d] \in Holding => lock = d
  BY <1>0 DEF Ended
<1>2. CASE step' = [step EXCEPT ![c] = "write"] /\ localPool' = TRUE
           /\ pc' = [pc EXCEPT ![c] = "execute"] /\ UNCHANGED outcome
  <2>1. TypeOK'
    BY <1>0, <1>2 DEF TypeOK, ListenerTypeOK, Steps
  <2>2. CASE step[c] = "ensure"
    BY <1>1, <1>2, <2>1, <2>2, NextRequest
  <2>3. CASE step[c] = "write"
    <3>1. UNCHANGED step
      BY <1>0, <1>2, <2>3 DEF TypeOK
    <3> QED
      BY <1>1, <1>2, <2>1, <3>1, CallMoves DEF Before, Halfway, Holding
  <2> QED
    BY <1>0, <2>2, <2>3 DEF TypeOK, Steps
<1>3. CASE pc' = [pc EXCEPT ![c] = "done"] /\ UNCHANGED <<localPool, step>>
           /\ outcome' = [outcome EXCEPT ![c] = "error"]
  <2>1. TypeOK'
    BY <1>0, <1>3 DEF TypeOK, ListenerTypeOK
  <2> QED
    BY <1>1, <1>3, <2>1, CallMoves DEF Before, Halfway, Holding
<1> QED
  BY <1>2, <1>3

-----------------------------------------------------------------------------
(* The steps that reach a database *)

\* A request that takes effect had not, and neither stays on the stream nor is
\* sent again.
LEMMA Applies ==
  ASSUME IInv, NEW c \in Calls, applied[c] = 0, step[c] = "write",
         applied' = [applied EXCEPT ![c] = @ + 1],
         UNCHANGED <<listenerVars, link, inbox, step>>,
         pc'[c] \in {"await", "done"},
         \A d \in Calls \ {c} : pc'[d] = pc[d],
         Open => /\ \A n \in 1..Len(inbox) : ~Is(inbox[n], c, "write")
                 /\ Is(job', c, "write") => job'.result # "none",
         Open => \A d \in Calls : \A s : Is(job', d, s) => Is(job, d, s),
         Open => (job'.result = "none" => job.result = "none")
  PROVE  InOrder' /\ HeldOnce' /\ NotApplied' /\ NeverAppliedTwice'
<1> USE DEF IInv, listenerVars
<1>1. applied' = [d \in Calls |-> IF d = c THEN 1 ELSE applied[d]] /\ (Open' <=> Open)
  <2>1. \A d \in Calls : applied'[d] = IF d = c THEN 1 ELSE applied[d]
    BY DEF TypeOK
  <2>2. applied' = [d \in Calls |-> applied'[d]]
    BY DEF TypeOK
  <2> QED
    BY <2>1, <2>2 DEF Open
<1>2. InOrder'
  BY <1>1 DEF InOrder, Is
<1>3. HeldOnce'
  BY <1>1 DEF HeldOnce, Is
<1>4. NotApplied'
  BY <1>1 DEF NotApplied, Is
<1>5. NeverAppliedTwice'
  BY <1>1 DEF NeverAppliedTwice
<1> QED
  BY <1>2, <1>3, <1>4, <1>5

LEMMA ExecuteLocalStep ==
  ASSUME IInv, NEW c \in Calls, ExecuteLocal(c)
  PROVE  IInv'
<1>0. TypeOK /\ Ended /\ NotSent /\ NotApplied
  BY DEF IInv
<1> USE DEF ExecuteLocal, At, Goto, Report, listenerVars
<1>1. mode # "starting" /\ \A d \in Calls : pc[d] \in Holding => lock = d
  BY <1>0 DEF Ended
<1>2. pc' = [pc EXCEPT ![c] = "done"]
  OBVIOUS
<1>3. pc' = [d \in Calls |-> IF d = c THEN "done" ELSE pc[d]]
  BY <1>0, <1>2 DEF TypeOK
<1>4. \E result \in {"ok", "error"} : outcome' = [outcome EXCEPT ![c] = result]
  OBVIOUS
<1>5. CASE UNCHANGED applied
  <2>1. TypeOK'
    BY <1>0, <1>2, <1>4, <1>5 DEF TypeOK, ListenerTypeOK
  <2> QED
    BY <1>1, <1>2, <1>5, <2>1, CallMoves DEF Before, Halfway, Holding
<1>6. CASE step[c] = "write" /\ applied' = [applied EXCEPT ![c] = @ + 1]
  <2>1. TypeOK'
    BY <1>0, <1>2, <1>4, <1>6 DEF TypeOK, ListenerTypeOK
  <2>2. Ended'
    BY <1>0, <1>3 DEF Ended, Open, Holding
  <2>3. NotSent'
    BY <1>0, <1>3 DEF NotSent, Is, Open, Before, Halfway
  <2>4. /\ applied[c] = 0
        /\ Open => /\ ~Is(job, c, "write")
                   /\ \A n \in 1..Len(inbox) : ~Is(inbox[n], c, "write")
    BY <1>0, <1>6 DEF NotSent, NotApplied, Before
  <2>5. InOrder' /\ HeldOnce' /\ NotApplied' /\ NeverAppliedTwice'
    BY <1>3, <1>6, <2>4, Applies
  <2> QED
    BY <2>1, <2>2, <2>3, <2>5 DEF IInv
<1> QED
  BY <1>5, <1>6

LEMMA DispatchStep ==
  ASSUME IInv, Dispatch
  PROVE  IInv'
<1>0. TypeOK /\ Ended /\ NotSent /\ InOrder /\ HeldOnce /\ NotApplied
  BY DEF IInv
<1> USE DEF Dispatch, listenerVars
<1>1. job \in Jobs
  BY <1>0 DEF TypeOK
<1>2. PICK result \in {"ok", "error"} : job' = [job EXCEPT !.result = result]
  OBVIOUS
<1>3. /\ job' \in Jobs
      /\ \A c, s : Is(job', c, s) <=> Is(job, c, s)
      /\ job'.result # "none"
  BY <1>1, <1>2 DEF Jobs, Results, Is
<1>4. Ended'
  BY <1>0 DEF Ended, Open
<1>5. NotSent'
  BY <1>0, <1>3 DEF NotSent, Open, Is
<1>6. CASE UNCHANGED applied
  <2>1. appPool' \in BOOLEAN
    BY <1>0 DEF TypeOK
  <2>2. TypeOK'
    <3> HIDE DEF Dispatch
    <3>1. UNCHANGED <<listenerVars, mode, link, lock, inbox, outbox, localPool,
                      step, pc, outcome>>
      BY DEF Dispatch
    <3> QED
      BY <1>0, <1>3, <1>6, <2>1, <3>1 DEF TypeOK, ListenerTypeOK
  <2>3. InOrder'
    BY <1>0, <1>3, <1>6 DEF InOrder, Open, Is
  <2>4. HeldOnce'
    <3> SUFFICES ASSUME Open, NEW c \in Calls
                 PROVE  /\ \A m, n \in 1..Len(inbox) :
                             Is(inbox[m], c, "write") /\ Is(inbox[n], c, "write") => m = n
                        /\ Is(job', c, "write") =>
                             \A n \in 1..Len(inbox) : ~Is(inbox[n], c, "write")
      BY DEF HeldOnce, Is
    <3> QED
      BY <1>0, <1>3 DEF HeldOnce
  <2>5. NotApplied' /\ NeverAppliedTwice'
    BY <1>0, <1>3, <1>6 DEF IInv, NotApplied, NeverAppliedTwice, Open, Is
  <2> QED
    BY <1>4, <1>5, <2>2, <2>3, <2>4, <2>5 DEF IInv
<1>7. CASE job.step = "write" /\ applied' = [applied EXCEPT ![job.call] = @ + 1]
           /\ UNCHANGED appPool
  <2>1. PICK c \in Calls : c = job.call
    BY <1>1 DEF Jobs
  <2>2. Is(job, c, "write")
    BY <1>7, <2>1 DEF Is
  <2>3. TypeOK'
    BY <1>0, <1>3, <1>7, <2>1 DEF TypeOK, ListenerTypeOK
  <2>4. /\ applied[c] = 0
        /\ step[c] = "write"
        /\ \A n \in 1..Len(inbox) : ~Is(inbox[n], c, "write")
    BY <1>0, <2>2 DEF TypeOK, Steps, NotApplied, InOrder, HeldOnce
  <2>5. pc[c] \in {"await", "done"}
    <3>1. pc[c] \notin Before \cup Halfway
      BY <1>0, <2>2, <2>4 DEF NotSent
    <3>2. pc[c] \notin {"redial", "unsent"}
      BY <1>0 DEF Ended
    <3> QED
      BY <1>0, <3>1, <3>2 DEF TypeOK, Before, Halfway
  <2>6. InOrder' /\ HeldOnce' /\ NotApplied' /\ NeverAppliedTwice'
    BY <1>3, <1>7, <2>1, <2>4, <2>5, Applies
  <2> QED
    BY <1>4, <1>5, <2>3, <2>6 DEF IInv
<1> QED
  BY <1>6, <1>7

LEMMA ReadRequestStep ==
  ASSUME IInv, ReadRequest
  PROVE  IInv'
<1>0. TypeOK /\ Ended /\ NotSent /\ InOrder /\ HeldOnce /\ NotApplied
  BY DEF IInv
<1> USE DEF ReadRequest, listenerVars
<1>1. /\ Tail(inbox) \in Seq(Frames)
      /\ Head(inbox) = inbox[1]
      /\ 1 \in 1..Len(inbox)
      /\ Len(inbox) \in Nat
      /\ Len(inbox') = Len(inbox) - 1
      /\ \A n \in 1..Len(inbox') :
           n + 1 \in 1..Len(inbox) /\ inbox'[n] = inbox[n + 1]
  BY <1>0, TailOfStream, FramesOnStream
<1>2. inbox[1] \in Frames /\ inbox[1].whole
  BY <1>0, <1>1, FramesOnStream
<1>3. /\ job' \in Jobs
      /\ \A c, s : Is(job', c, s) <=> Is(inbox[1], c, s)
  BY <1>1, <1>2 DEF Jobs, Frames, Results, Is
<1>4. TypeOK'
  BY <1>0, <1>1, <1>3 DEF TypeOK, ListenerTypeOK
<1>5. Ended' /\ Open'
  BY <1>0 DEF Ended, Open
<1>6. NotSent'
  <2> SUFFICES ASSUME NEW c \in Calls
               PROVE  /\ pc[c] \in Before \cup Halfway => ~Is(job', c, step[c])
                      /\ pc[c] \in Before =>
                           \A n \in 1..Len(inbox') : ~Is(inbox'[n], c, step[c])
                      /\ pc[c] \in Halfway =>
                           \A n \in 1..Len(inbox') :
                             Is(inbox'[n], c, step[c]) => ~inbox'[n].whole
    BY DEF NotSent, Is
  <2> QED
    BY <1>0, <1>1, <1>2, <1>3 DEF NotSent
<1>7. InOrder'
  <2> SUFFICES ASSUME NEW c \in Calls, step[c] = "ensure"
               PROVE  /\ applied[c] = 0
                      /\ ~Is(job', c, "write")
                      /\ \A n \in 1..Len(inbox') : ~Is(inbox'[n], c, "write")
    BY DEF InOrder, Is
  <2> QED
    BY <1>0, <1>1, <1>3 DEF InOrder
<1>8. HeldOnce'
  <2> SUFFICES ASSUME NEW c \in Calls
               PROVE  /\ \A m, n \in 1..Len(inbox') :
                           Is(inbox'[m], c, "write") /\ Is(inbox'[n], c, "write") => m = n
                      /\ Is(job', c, "write") =>
                           \A n \in 1..Len(inbox') : ~Is(inbox'[n], c, "write")
    BY DEF HeldOnce, Is
  <2>1. \A m, n \in 1..Len(inbox) :
          Is(inbox[m], c, "write") /\ Is(inbox[n], c, "write") => m = n
    BY <1>0 DEF HeldOnce
  <2>2. ASSUME NEW m \in 1..Len(inbox'), NEW n \in 1..Len(inbox'),
               Is(inbox'[m], c, "write"), Is(inbox'[n], c, "write")
        PROVE  m = n
    <3>1. m + 1 = n + 1
      BY <1>1, <2>1, <2>2
    <3> QED
      BY <1>1, <3>1
  <2>3. ASSUME Is(job', c, "write"), NEW n \in 1..Len(inbox'), Is(inbox'[n], c, "write")
        PROVE  FALSE
    <3>1. n + 1 = 1
      BY <1>1, <1>3, <2>1, <2>3
    <3> QED
      BY <1>1, <3>1
  <2> QED
    BY <2>2, <2>3
<1>9. NotApplied'
  <2> SUFFICES ASSUME NEW c \in Calls
               PROVE  /\ pc[c] \notin {"await", "done"} /\ step[c] = "write" => applied[c] = 0
                      /\ (\E n \in 1..Len(inbox') : Is(inbox'[n], c, "write")) => applied[c] = 0
                      /\ Is(job', c, "write") => applied[c] = 0
    BY DEF NotApplied, Is
  <2> QED
    BY <1>0, <1>1, <1>3 DEF NotApplied
<1> QED
  BY <1>4, <1>5, <1>6, <1>7, <1>8, <1>9 DEF IInv, NeverAppliedTwice

LEMMA ReplyStep ==
  ASSUME IInv, Reply
  PROVE  IInv'
<1>0. TypeOK /\ Ended
  BY DEF IInv
<1> USE DEF Reply, listenerVars
<1>1. job \in Jobs
  BY <1>0 DEF TypeOK, NoJob
<1>2. outbox' \in Seq(Jobs)
  BY <1>0, <1>1, AppendProperties DEF TypeOK
<1>3. TypeOK'
  BY <1>0, <1>2 DEF TypeOK, ListenerTypeOK
<1>4. Ended'
  BY <1>0 DEF Ended, Open
<1>5. \A c \in Calls : \A s : ~Is(job', c, s)
  BY NobodysJob
<1>6. NotSent' /\ InOrder' /\ HeldOnce' /\ NotApplied' /\ NeverAppliedTwice'
  BY <1>5 DEF IInv, NotSent, InOrder, HeldOnce, NotApplied, NeverAppliedTwice, Open, Is
<1> QED
  BY <1>3, <1>4, <1>6 DEF IInv

LEMMA Inductive == IInv /\ [Next]_vars => IInv'
<1> SUFFICES ASSUME IInv, [Next]_vars PROVE IInv'
  OBVIOUS
<1>1. CASE ListenerNext /\ UNCHANGED callVars
  BY <1>1, ListenerSteps
<1>2. CASE AppExits
  BY <1>2, AppExitsStep
<1>3. CASE SidecarStarts
  BY <1>3, SidecarStartsStep
<1>4. ASSUME NEW c \in Calls, Begin(c) \/ CallStep(c)
      PROVE  IInv'
  BY <1>4, QuietSteps, SendPayloadStep, SendNewlineStep, Redials, ReadAnswerStep,
     EnsureLocalStep, ExecuteLocalStep DEF CallStep
<1>5. CASE Serve
  BY <1>5, ReadRequestStep, DispatchStep, ReplyStep DEF Serve
<1>6. CASE ClosePool \/ ReapLocal
  BY <1>6, PoolSteps
<1>7. CASE UNCHANGED vars
  <2> USE <1>7 DEF vars, listenerVars, callVars
  <2>1. TypeOK' /\ UNCHANGED <<serving, used, link>>
    BY DEF IInv, TypeOK, ListenerTypeOK
  <2> QED
    BY <2>1, StreamEnds DEF IInv, Ended, Open
<1> QED
  BY <1>1, <1>2, <1>3, <1>4, <1>5, <1>6, <1>7 DEF Next

-----------------------------------------------------------------------------
(* One request at a time.  As long as no call timed out, what is on the       *)
(* stream, in either direction or at the app, is the one request of the call  *)
(* that holds the mutex or the answer to it.                                  *)

NoTimeouts == \A c \in Calls : outcome[c] # "timeout"

\* A call has reported when it is over and not before.
Reported == \A c \in Calls : outcome[c] # "none" => pc[c] = "done"

\* Somebody waits for this answer, to the request it is at; if it says that
\* the write was done, it was.
Own(answer) ==
  LET c == answer.call IN
  /\ pc[c] = "await"
  /\ answer.step = step[c]
  /\ answer.result = "ok" /\ step[c] = "write" => applied[c] = 1

OneRequest ==
  /\ Len(outbox) <= 1
  /\ \A n \in 1..Len(outbox) : Own(outbox[n])
  /\ Open => /\ Len(inbox) <= 1
             /\ \A n \in 1..Len(inbox) :
                  /\ pc[inbox[n].call] \in Halfway \cup {"await"}
                  /\ inbox[n].step = step[inbox[n].call]
             /\ job # NoJob => Own(job)
             /\ outbox # <<>> => inbox = <<>> /\ job = NoJob
             /\ inbox # <<>> => job = NoJob

OkApplied == \A c \in Calls : outcome[c] = "ok" => applied[c] = 1
Orderly == NoTimeouts => OneRequest /\ OkApplied

LEMMA Lengths ==
  ASSUME TypeOK
  PROVE  /\ Len(inbox) \in Nat /\ Len(outbox) \in Nat
         /\ inbox = <<>> <=> Len(inbox) = 0
         /\ outbox = <<>> <=> Len(outbox) = 0
         /\ \A n \in 1..Len(inbox) : inbox[n] \in Frames
         /\ \A n \in 1..Len(outbox) : outbox[n] \in Jobs
BY EmptySeq DEF TypeOK

\* Everything on the stream belongs to the call that holds the mutex.
LEMMA CallersOnly ==
  ASSUME IInv, OneRequest, NEW c \in Calls, lock = None \/ pc[c] \in Holding
  PROVE  /\ \A n \in 1..Len(outbox) : outbox[n].call = c /\ pc[c] = "await"
         /\ Open => /\ \A n \in 1..Len(inbox) :
                         inbox[n].call = c /\ pc[c] \in Halfway \cup {"await"}
                    /\ job # NoJob => job.call = c /\ pc[c] = "await"
<1>0. TypeOK /\ Ended
  BY DEF IInv
<1>1. \A d \in Calls : pc[d] \in Halfway \cup {"await"} => d = c
  BY <1>0, Exclusive DEF Halfway, Holding
<1>2. \A n \in 1..Len(outbox) : outbox[n].call \in Calls
  BY <1>0, Lengths DEF Jobs
<1>3. \A n \in 1..Len(inbox) : inbox[n].call \in Calls
  BY <1>0, Lengths DEF Frames
<1>4. job # NoJob => job.call \in Calls
  BY <1>0 DEF TypeOK, Jobs
<1> QED
  BY <1>1, <1>2, <1>3, <1>4 DEF OneRequest, Own

\* Nothing on the stream belongs to a call that is not between sending and
\* reading.
LEMMA OthersNothing ==
  ASSUME IInv, OneRequest, NEW c \in Calls, pc[c] \notin Halfway \cup {"await"}
  PROVE  /\ \A n \in 1..Len(outbox) : outbox[n].call # c
         /\ Open => /\ \A n \in 1..Len(inbox) : inbox[n].call # c
                    /\ job # NoJob => job.call # c
BY DEF OneRequest, Own

\* A step of a call of which nothing is on the stream.
LEMMA ElsewhereKeeps ==
  ASSUME IInv, OneRequest, NEW c \in Calls,
         \A d \in Calls \ {c} : /\ pc'[d] = pc[d] /\ step'[d] = step[d]
                                /\ applied'[d] = applied[d],
         UNCHANGED <<inbox, job>>, outbox' = outbox \/ outbox' = <<>>,
         Open' <=> Open,
         \A n \in 1..Len(outbox') : outbox'[n].call # c,
         Open => /\ \A n \in 1..Len(inbox) : inbox[n].call # c
                 /\ job # NoJob => job.call # c
  PROVE  OneRequest'
<1>0. TypeOK
  BY DEF IInv
<1>1. \A n \in 1..Len(outbox) : outbox[n].call \in Calls
  BY <1>0, Lengths DEF Jobs
<1>2. \A n \in 1..Len(inbox) : inbox[n].call \in Calls
  BY <1>0, Lengths DEF Frames
<1>3. job # NoJob => job.call \in Calls
  BY <1>0 DEF TypeOK, Jobs
<1>4. Len(outbox') <= 1
  BY <1>0, Lengths DEF OneRequest
<1>5. \A n \in 1..Len(outbox') : n \in 1..Len(outbox) /\ outbox' = outbox
  BY EmptySeq
<1>6. (\A n \in 1..Len(outbox) : Own(outbox[n]))'
  BY <1>1, <1>5 DEF OneRequest, Own
<1>7. Open => (\A n \in 1..Len(inbox) :
                 /\ pc[inbox[n].call] \in Halfway \cup {"await"}
                 /\ inbox[n].step = step[inbox[n].call])'
  BY <1>2 DEF OneRequest
<1>8. Open => (job # NoJob => Own(job))'
  BY <1>3 DEF OneRequest, Own, NoJob
<1>9. Open => (/\ Len(inbox) <= 1
               /\ outbox # <<>> => inbox = <<>> /\ job = NoJob
               /\ inbox # <<>> => job = NoJob)'
  BY DEF OneRequest, NoJob
<1> QED
  BY <1>4, <1>6, <1>7, <1>8, <1>9 DEF OneRequest

\* Nothing is on the stream when a call begins to send.
LEMMA SendingKeeps ==
  ASSUME IInv, OneRequest, NEW c \in Calls, SendPayload(c)
  PROVE  OneRequest'
<1>0. TypeOK
  BY DEF IInv
<1>1. pc[c] \in Holding /\ pc[c] \notin Halfway \cup {"await"}
  BY DEF SendPayload, Holding, Halfway
<1>2. /\ Len(outbox) = 0 /\ 1..Len(outbox) = {}
      /\ Open => Len(inbox) = 0 /\ job = NoJob
  BY <1>0, <1>1, CallersOnly, Lengths
<1>3. /\ \A d \in Calls : pc'[d] = IF d = c THEN pc'[c] ELSE pc[d]
      /\ pc'[c] \in Halfway
      /\ UNCHANGED <<outbox, job, step, applied>> /\ (Open' <=> Open)
  BY <1>0 DEF SendPayload, Goto, At, TypeOK, Halfway, listenerVars, Open
<1>4. CASE ~Open
  BY <1>2, <1>3, <1>4 DEF OneRequest
<1>5. CASE Open
  <2>1. inbox = <<>> /\ outbox = <<>>
    BY <1>0, <1>2, <1>5, Lengths
  <2>2. inbox' = Append(<<>>, Frame(c))
    BY <1>5, <2>1 DEF SendPayload
  <2>3. Append(<<>>, Frame(c)) = <<Frame(c)>>
    OBVIOUS
  <2>4. Len(inbox') = 1 /\ inbox'[1] = Frame(c) /\ 1..Len(inbox') = {1}
    BY <2>2, <2>3
  <2>5. Frame(c).call = c /\ Frame(c).step = step[c]
    BY DEF Frame
  <2>6. (\A n \in 1..Len(inbox) : /\ pc[inbox[n].call] \in Halfway \cup {"await"}
                                  /\ inbox[n].step = step[inbox[n].call])'
    BY <1>3, <2>4, <2>5
  <2>7. job' = NoJob /\ outbox' = <<>> /\ Len(outbox') <= 1 /\ 1..Len(outbox') = {}
    BY <1>2, <1>3, <1>5, <2>1
  <2> QED
    BY <2>4, <2>6, <2>7 DEF OneRequest
<1> QED
  BY <1>4, <1>5

\* The frame of the call that writes the newline is complete.
LEMMA CompletingKeeps ==
  ASSUME IInv, OneRequest, NEW c \in Calls, SendNewline(c)
  PROVE  OneRequest'
<1>0. TypeOK
  BY DEF IInv
<1>1. pc[c] \in Holding /\ pc[c] \in Halfway /\ pc[c] # "await"
  BY DEF SendNewline, Holding, Halfway
<1>2. /\ Len(outbox) = 0 /\ 1..Len(outbox) = {}
      /\ Open => job = NoJob /\ \A n \in 1..Len(inbox) : inbox[n].call = c
  BY <1>0, <1>1, CallersOnly, Lengths
<1>3. /\ pc'[c] = "await"
      /\ UNCHANGED <<outbox, job, step, applied>> /\ (Open' <=> Open)
  BY <1>0 DEF SendNewline, Goto, TypeOK, listenerVars, Open
<1>4. CASE ~Open
  BY <1>2, <1>3, <1>4 DEF OneRequest
<1>5. CASE Open
  <2>1. /\ Len(inbox') = Len(inbox)
        /\ \A n \in 1..Len(inbox) : \A d, s : Is(inbox'[n], d, s) <=> Is(inbox[n], d, s)
    BY <1>0, <1>5, CompletedFrame DEF SendNewline
  <2>2. \A n \in 1..Len(inbox') : Is(inbox'[n], c, step[c])
    <3>1. \A n \in 1..Len(inbox) : Is(inbox[n], c, step[c])
      BY <1>2, <1>5 DEF OneRequest, Is
    <3> QED
      BY <2>1, <3>1
  <2>3. (\A n \in 1..Len(inbox) : /\ pc[inbox[n].call] \in Halfway \cup {"await"}
                                  /\ inbox[n].step = step[inbox[n].call])'
    BY <1>3, <2>2 DEF Is
  <2>4. job' = NoJob /\ outbox' = <<>> /\ 1..Len(outbox') = {}
    BY <1>0, <1>2, <1>3, <1>5, Lengths
  <2>5. Len(inbox') <= 1 /\ Len(outbox') <= 1
    BY <1>2, <1>3, <1>5, <2>1 DEF OneRequest
  <2> QED
    BY <2>3, <2>4, <2>5 DEF OneRequest
<1> QED
  BY <1>4, <1>5

\* A new stream is empty.
LEMMA DialKeeps ==
  ASSUME Dial
  PROVE  OneRequest'
<1>1. inbox' = <<>> /\ outbox' = <<>> /\ job' = NoJob
  BY DEF Dial
<1>2. Len(inbox') = 0 /\ Len(outbox') = 0 /\ 1..Len(inbox') = {} /\ 1..Len(outbox') = {}
  BY <1>1
<1> QED
  BY <1>1, <1>2 DEF OneRequest

\* The other steps of a call; one that gives up leaves its request behind.
LEMMA CallKeeps ==
  ASSUME IInv, OneRequest, NEW c \in Calls,
         \/ Begin(c) \/ Lock(c) \/ SendFails(c) \/ Redial(c) \/ Unsent(c)
         \/ LoseAnswer(c) \/ EnsureLocal(c) \/ ExecuteLocal(c)
  PROVE  OneRequest'
<1>0. TypeOK
  BY DEF IInv
<1>1. CASE Redial(c) /\ Dial
  BY <1>1, DialKeeps
<1>2. CASE ~(Redial(c) /\ Dial)
  <2>1. /\ \A d \in Calls \ {c} : /\ pc'[d] = pc[d] /\ step'[d] = step[d]
                                  /\ applied'[d] = applied[d]
        /\ UNCHANGED <<inbox, job>>
        /\ outbox' = outbox \/ outbox' = <<>>
        /\ Open' <=> Open
    BY <1>0, <1>2
       DEF Begin, Lock, SendFails, Redial, Unsent, LoseAnswer, EnsureLocal, ExecuteLocal,
           Goto, Report, TypeOK, listenerVars, Open
  <2>2. CASE pc[c] \notin Halfway \cup {"await"}
    <3>1. \A n \in 1..Len(outbox') : n \in 1..Len(outbox) /\ outbox' = outbox
      BY <2>1, EmptySeq
    <3>2. \A n \in 1..Len(outbox') : outbox'[n].call # c
      BY <2>2, <3>1, OthersNothing
    <3>3. Open => /\ \A n \in 1..Len(inbox) : inbox[n].call # c
                  /\ job # NoJob => job.call # c
      BY <2>2, OthersNothing
    <3> QED
      BY <2>1, <3>2, <3>3, ElsewhereKeeps
  <2>3. CASE pc[c] \in Halfway \cup {"await"}
    <3>1. ~Open /\ (pc[c] = "await" => outbox' = <<>>)
      BY <1>2, <2>3
         DEF Begin, Lock, SendFails, Redial, Unsent, LoseAnswer, EnsureLocal, ExecuteLocal,
             At, Halfway
    <3>2. \A n \in 1..Len(outbox') : outbox'[n].call # c
      <4>1. CASE pc[c] = "await"
        BY <3>1, <4>1, EmptySeq
      <4>2. CASE pc[c] # "await"
        <5>1. \A n \in 1..Len(outbox') : n \in 1..Len(outbox) /\ outbox' = outbox
          BY <2>1, EmptySeq
        <5> QED
          BY <4>2, <5>1 DEF OneRequest, Own
      <4> QED
        BY <4>1, <4>2
    <3> QED
      BY <2>1, <3>1, <3>2, ElsewhereKeeps
  <2> QED
    BY <2>2, <2>3
<1> QED
  BY <1>1, <1>2

\* The answer that is read is the only one, and its request is done with.
LEMMA ReadingKeeps ==
  ASSUME IInv, OneRequest, NEW c \in Calls, ReadAnswer(c)
  PROVE  OneRequest' /\ outbox[1].call = c /\ Own(outbox[1]) /\ Head(outbox) = outbox[1]
<1>0. TypeOK
  BY DEF IInv
<1>1. pc[c] = "await" /\ pc[c] \in Holding /\ outbox # <<>>
  BY DEF ReadAnswer, At, Holding
<1>2. Len(outbox) = 1 /\ 1 \in 1..Len(outbox)
  <2>1. Len(outbox) \in Nat /\ Len(outbox) # 0 /\ Len(outbox) <= 1
    BY <1>0, <1>1, Lengths DEF OneRequest
  <2>2. \A n \in Nat : n # 0 /\ n <= 1 => n = 1 /\ 1 \in 1..n
    OBVIOUS
  <2> QED
    BY <2>1, <2>2
<1>3. outbox' = Tail(outbox) /\ outbox' \in Seq(Jobs) /\ Len(outbox') = 0
  BY <1>0, <1>1, <1>2, HeadTailProperties DEF ReadAnswer, TypeOK
<1>4. outbox' = <<>> /\ \A n \in 1..Len(outbox') : outbox'[n].call # c
  BY <1>3, EmptySeq
<1>5. outbox[1].call = c /\ Own(outbox[1]) /\ Head(outbox) = outbox[1]
  BY <1>0, <1>1, <1>2, CallersOnly, HeadTailProperties DEF OneRequest, TypeOK
<1>6. Open => /\ \A n \in 1..Len(inbox) : inbox[n].call # c
              /\ job # NoJob => job.call # c
  <2>1. Open => inbox = <<>> /\ job = NoJob
    BY <1>1 DEF OneRequest
  <2> QED
    BY <2>1, EmptySeq
<1>7. /\ \A d \in Calls \ {c} : /\ pc'[d] = pc[d] /\ step'[d] = step[d]
                                /\ applied'[d] = applied[d]
      /\ UNCHANGED <<inbox, job>>
      /\ Open' <=> Open
  BY <1>0 DEF ReadAnswer, Goto, Report, TypeOK, listenerVars, Open
<1>8. OneRequest'
  BY <1>4, <1>6, <1>7, ElsewhereKeeps
<1> QED
  BY <1>5, <1>8

\* The request passes from the stream to the app, and the answer back.
LEMMA ServingKeeps ==
  ASSUME IInv, IInv', OneRequest, Serve
  PROVE  OneRequest'
<1>0. TypeOK /\ NotSent /\ Open
  BY DEF IInv, Serve, ReadRequest, Dispatch, Reply
<1>1. CASE ReadRequest
  <2>1. /\ Len(inbox) = 1 /\ 1 \in 1..Len(inbox) /\ inbox[1] \in Frames
        /\ Head(inbox) = inbox[1] /\ Len(inbox') = 0
        /\ outbox = <<>> /\ Len(outbox) = 0
    <3>1. Len(inbox) \in Nat /\ Len(inbox) # 0 /\ Len(inbox) <= 1
      BY <1>0, <1>1, Lengths DEF OneRequest, ReadRequest
    <3>2. \A n \in Nat : n # 0 /\ n <= 1 => n = 1 /\ 1 \in 1..n
      OBVIOUS
    <3>3. Len(inbox) = 1 /\ 1 \in 1..Len(inbox)
      BY <3>1, <3>2
    <3>4. Head(inbox) = inbox[1] /\ Len(inbox') = 0
      BY <1>0, <1>1, <3>3, HeadTailProperties, Lengths DEF ReadRequest, TypeOK
    <3>5. outbox = <<>> /\ Len(outbox) = 0
      BY <1>0, <1>1, Lengths DEF OneRequest, ReadRequest
    <3> QED
      BY <1>0, <3>3, <3>4, <3>5, Lengths
  <2>2. PICK c \in Calls : c = inbox[1].call
    BY <2>1 DEF Frames
  <2>3. inbox[1].step = step[c] /\ pc[c] \in Halfway \cup {"await"} /\ inbox[1].whole
    BY <1>0, <1>1, <2>1, <2>2 DEF OneRequest, ReadRequest
  <2>4. pc[c] = "await"
    BY <1>0, <2>1, <2>2, <2>3 DEF NotSent, Is
  <2>5. /\ job'.call = c /\ job'.step = step[c] /\ job'.result = "none"
        /\ UNCHANGED <<pc, step, applied, outbox>>
    BY <1>1, <2>1, <2>2, <2>3 DEF ReadRequest
  <2>6. Own(job)'
    BY <2>4, <2>5 DEF Own
  <2>7. inbox' = <<>>
    BY <2>1, EmptySeq DEF IInv, TypeOK
  <2>8. outbox' = <<>> /\ 1..Len(outbox') = {} /\ 1..Len(inbox') = {}
    BY <2>1, <2>5
  <2>9. Len(outbox') <= 1 /\ Len(inbox') <= 1
    BY <2>1, <2>5
  <2> QED
    BY <2>6, <2>7, <2>8, <2>9 DEF OneRequest
<1>2. CASE Dispatch
  <2>1. job \in Jobs /\ job # NoJob /\ Own(job) /\ inbox = <<>> /\ outbox = <<>>
    BY <1>0, <1>2 DEF Dispatch, TypeOK, OneRequest
  <2>2. PICK c \in Calls : c = job.call
    BY <2>1 DEF Jobs
  <2>3. /\ job'.call = c /\ job'.step = step[c]
        /\ UNCHANGED <<pc, step, outbox, inbox>>
    BY <1>2, <2>1, <2>2 DEF Dispatch, Jobs, Own
  <2>4. job'.result = "ok" /\ step[c] = "write" => applied'[c] = 1
    <3>1. CASE applied' = [applied EXCEPT ![job.call] = @ + 1]
      <4>1. applied[c] \in Nat /\ applied'[c] = applied[c] + 1 /\ applied'[c] <= 1
        BY <1>0, <2>2, <3>1 DEF TypeOK, IInv, NeverAppliedTwice
      <4> QED
        BY <4>1
    <3>2. CASE job.step = "ensure" \/ job'.result = "error"
      BY <2>1, <2>2, <3>2 DEF Own
    <3>3. job' = [job EXCEPT !.result = "error"] => job'.result = "error"
      BY <2>1 DEF Jobs
    <3> QED
      BY <1>2, <3>1, <3>2, <3>3 DEF Dispatch
  <2>5. Own(job)'
    BY <2>1, <2>2, <2>3, <2>4 DEF Own
  <2>6. inbox' = <<>> /\ outbox' = <<>> /\ Len(<<>>) = 0 /\ 1..0 = {}
    BY <2>1, <2>3
  <2> QED
    BY <2>5, <2>6 DEF OneRequest
<1>3. CASE Reply
  <2>1. job # NoJob /\ Own(job) /\ inbox = <<>> /\ outbox = <<>>
    BY <1>0, <1>3 DEF Reply, NoJob, OneRequest
  <2>2. outbox' = Append(<<>>, job)
    BY <1>3, <2>1 DEF Reply
  <2>3. Append(<<>>, job) = <<job>>
    OBVIOUS
  <2>4. Len(outbox') = 1 /\ outbox'[1] = job /\ 1..Len(outbox') = {1}
    BY <2>2, <2>3
  <2>5. UNCHANGED <<pc, step, applied, inbox>> /\ job' = NoJob
    BY <1>3 DEF Reply
  <2>6. (\A n \in 1..Len(outbox) : Own(outbox[n]))'
    BY <2>1, <2>4, <2>5 DEF Own
  <2>7. inbox' = <<>> /\ Len(inbox') = 0 /\ 1..Len(inbox') = {}
    BY <2>1, <2>5
  <2> QED
    BY <2>4, <2>5, <2>6, <2>7 DEF OneRequest
<1> QED
  BY <1>1, <1>2, <1>3 DEF Serve

\* The steps of the app that end a stream, and those that leave it alone.
LEMMA EndingKeeps ==
  ASSUME OneRequest, UNCHANGED <<inbox, outbox, job, pc, step, applied>>, Open' => Open
  PROVE  OneRequest'
BY DEF OneRequest, Own, NoJob

LEMMA ReportedStep == IInv /\ Reported /\ [Next]_vars => Reported'
<1> SUFFICES ASSUME IInv, Reported, [Next]_vars PROVE Reported'
  OBVIOUS
<1>0. TypeOK
  BY DEF IInv
<1>1. CASE UNCHANGED <<pc, outcome>>
  BY <1>1 DEF Reported
<1>2. ASSUME NEW c \in Calls, Begin(c) \/ CallStep(c) PROVE Reported'
  <2>1. /\ pc[c] # "done"
        /\ outcome'[c] # outcome[c] => pc'[c] = "done"
        /\ \A d \in Calls \ {c} : pc'[d] = pc[d] /\ outcome'[d] = outcome[d]
    BY <1>0, <1>2
       DEF CallStep, Begin, Lock, SendPayload, SendNewline, SendFails, Redial, Unsent,
           ReadAnswer, LoseAnswer, TimeOut, EnsureLocal, ExecuteLocal, At, Goto, Report,
           TypeOK
  <2> QED
    BY <2>1 DEF Reported
<1> QED
  BY <1>1, <1>2
     DEF Next, callVars, AppExits, SidecarStarts, Serve, ReadRequest, Dispatch, Reply,
         ClosePool, ReapLocal, vars

LEMMA OneRequestStep ==
  ASSUME IInv, IInv', OneRequest, NoTimeouts', [Next]_vars
  PROVE  OneRequest'
<1>1. CASE ListenerNext /\ UNCHANGED callVars
  BY <1>1, ListenerEnds, EndingKeeps DEF OnlyEnds, callVars
<1>2. CASE AppExits
  BY <1>2, EndingKeeps DEF AppExits, AppStops, Open
<1>3. CASE SidecarStarts
  <2>1. CASE Dial
    BY <2>1, DialKeeps
  <2>2. CASE UNCHANGED <<link, inbox, outbox, job>>
    BY <1>3, <2>2, EndingKeeps DEF SidecarStarts, listenerVars, Open
  <2> QED
    BY <1>3, <2>1, <2>2 DEF SidecarStarts
<1>4. ASSUME NEW c \in Calls, Begin(c) \/ CallStep(c) PROVE OneRequest'
  <2>1. ~TimeOut(c)
    BY DEF TimeOut, Report, NoTimeouts, IInv, TypeOK
  <2> QED
    BY <1>4, <2>1, CallKeeps, SendingKeeps, CompletingKeeps, ReadingKeeps DEF CallStep
<1>5. CASE Serve
  BY <1>5, ServingKeeps
<1>6. CASE ClosePool \/ ReapLocal \/ UNCHANGED vars
  BY <1>6, EndingKeeps DEF ClosePool, ReapLocal, vars, callVars, listenerVars, Open
<1> QED
  BY <1>1, <1>2, <1>3, <1>4, <1>5, <1>6 DEF Next

\* Success is reported for the answer to one's own write, or for a write that
\* the sidecar made itself.
LEMMA OkAppliedStep ==
  ASSUME IInv, IInv', OneRequest, OkApplied, [Next]_vars
  PROVE  OkApplied'
<1>0. TypeOK /\ TypeOK'
  BY DEF IInv
<1>1. \A c \in Calls : applied[c] = 1 => applied'[c] = 1
  <2>1. \A c \in Calls : /\ applied[c] \in Nat /\ applied'[c] \in Nat
                         /\ applied'[c] <= 1
    BY <1>0 DEF TypeOK, IInv, NeverAppliedTwice
  <2>2. \A c \in Calls : applied'[c] = applied[c] \/ applied'[c] = applied[c] + 1
    <3>1. CASE UNCHANGED applied
      BY <3>1
    <3>2. ASSUME NEW d, applied' = [applied EXCEPT ![d] = @ + 1]
          PROVE  \A c \in Calls : applied'[c] = applied[c] \/ applied'[c] = applied[c] + 1
      BY <1>0, <3>2 DEF TypeOK
    <3> QED
      BY <3>1, <3>2
         DEF Next, callVars, AppExits, SidecarStarts, Serve, ReadRequest, Dispatch, Reply,
             ClosePool, ReapLocal, vars, CallStep, Begin, Lock, SendPayload, SendNewline,
             SendFails, Redial, Unsent, ReadAnswer, LoseAnswer, TimeOut, EnsureLocal,
             ExecuteLocal
  <2> QED
    BY <2>1, <2>2
<1>2. ASSUME NEW c \in Calls, outcome'[c] = "ok", outcome[c] # "ok"
      PROVE  applied'[c] = 1
  <2>1. ReadAnswer(c) \/ ExecuteLocal(c)
    BY <1>0, <1>2
       DEF Next, callVars, AppExits, SidecarStarts, Serve, ReadRequest, Dispatch, Reply,
           ClosePool, ReapLocal, vars, CallStep, Begin, Lock, SendPayload, SendNewline,
           SendFails, Redial, Unsent, ReadAnswer, LoseAnswer, TimeOut, EnsureLocal,
           ExecuteLocal, Report, TypeOK
  <2>2. CASE ReadAnswer(c)
    <3>1. outbox[1].result = "ok" /\ step[c] = "write" /\ UNCHANGED applied
      BY <1>0, <1>2, <2>2, ReadingKeeps DEF ReadAnswer, Report, TypeOK
    <3> QED
      BY <2>2, <3>1, ReadingKeeps DEF Own
  <2>3. CASE ExecuteLocal(c)
    <3>1. applied' = [applied EXCEPT ![c] = @ + 1] /\ step[c] = "write" /\ pc[c] = "execute"
      BY <1>0, <1>2, <2>3 DEF ExecuteLocal, Report, At, TypeOK
    <3>2. applied[c] = 0
      BY <3>1 DEF IInv, NotApplied
    <3> QED
      BY <1>0, <3>1, <3>2 DEF TypeOK
  <2> QED
    BY <2>1, <2>2, <2>3
<1> QED
  BY <1>1, <1>2 DEF OkApplied

LEMMA OrderlyStep ==
  IInv /\ IInv' /\ Reported /\ Orderly /\ [Next]_vars => Orderly'
<1> SUFFICES ASSUME IInv, IInv', Reported, Orderly, [Next]_vars, NoTimeouts'
             PROVE  OneRequest' /\ OkApplied'
  BY DEF Orderly
<1>1. NoTimeouts
  <2>1. ASSUME NEW c \in Calls, outcome[c] = "timeout" PROVE outcome'[c] = "timeout"
    <3>1. pc[c] = "done" /\ TypeOK
      BY <2>1 DEF Reported, IInv
    <3> QED
      BY <2>1, <3>1
         DEF Next, callVars, AppExits, SidecarStarts, Serve, ReadRequest, Dispatch, Reply,
             ClosePool, ReapLocal, vars, CallStep, Begin, Lock, SendPayload, SendNewline,
             SendFails, Redial, Unsent, ReadAnswer, LoseAnswer, TimeOut, EnsureLocal,
             ExecuteLocal, Report, At, TypeOK
  <2> QED
    BY <2>1 DEF NoTimeouts
<1> QED
  BY <1>1, OneRequestStep, OkAppliedStep DEF Orderly

-----------------------------------------------------------------------------
(* The theorems *)

\* The inductive invariant of the sidecar, its stream and the app's listener.
THEOREM Invariant == Spec => []IInv
BY Initially, Inductive, PTL DEF Spec

\* Every variable keeps its type: the stream holds frames of calls, the app
\* handles at most one of them, a call has counted effects.
THEOREM TypeCorrect == Spec => []TypeOK
<1>1. IInv => TypeOK
  BY DEF IInv
<1> QED
  BY <1>1, Invariant, PTL

\* BridgeClient::call never applies a write twice, however many calls share
\* the stream and however often the app comes and goes.
THEOREM AppliedOnce == Spec => []NeverAppliedTwice
<1>1. IInv => NeverAppliedTwice
  BY DEF IInv
<1> QED
  BY <1>1, Invariant, PTL

\* A request that the sidecar runs itself after BridgeError::Unreachable has
\* not been run by the app and cannot be any more.
THEOREM FallbackIsSafe == Spec => []FallbackNeverSent
<1>1. IInv => FallbackNeverSent
  <2> SUFFICES ASSUME IInv, NEW c \in Calls, At(c, "execute")
               PROVE  /\ step[c] = "write" => applied[c] = 0
                      /\ Open => /\ \A n \in 1..Len(inbox) : ~Is(inbox[n], c, step[c])
                                 /\ ~Is(job, c, step[c])
    BY DEF FallbackNeverSent, Is
  <2> QED
    BY DEF IInv, NotSent, NotApplied, Before, At
<1> QED
  BY <1>1, Invariant, PTL

\* As long as no call times out, the answer a call reads is the answer to its
\* own request: what it reports as done was done, however many calls share the
\* stream, and whether the app or the sidecar did it.
THEOREM OkIsTrue == Spec => []ReportedOkWasApplied
<1>1. Init => Reported /\ Orderly
  <2>1. ASSUME Init PROVE OneRequest /\ OkApplied /\ Reported
    <3>1. inbox = <<>> /\ outbox = <<>> /\ Len(<<>>) = 0 /\ 1..0 = {} /\ ~Open
      BY <2>1 DEF Init, ListenerInit, Open
    <3> QED
      BY <2>1, <3>1 DEF Init, OneRequest, OkApplied, Reported
  <2> QED
    BY <2>1 DEF Orderly
<1>2. Orderly => ReportedOkWasApplied
  BY DEF Orderly, OkApplied, NoTimeouts, ReportedOkWasApplied
<1> QED
  BY Initially, Inductive, <1>1, <1>2, ReportedStep, OrderlyStep, PTL DEF Spec

=============================================================================
