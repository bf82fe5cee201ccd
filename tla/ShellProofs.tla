---------------------------- MODULE ShellProofs -----------------------------
(***************************************************************************)
(* What the shell hands to its windows: a launch is acted upon once and    *)
(* lands at home, every setting is what it was last made, and one update   *)
(* at a time is installed, for any number of launches, windows and checks. *)
(***************************************************************************)
EXTENDS LaunchIntents, Preferences, Updates, QueueFacts, FiniteSetTheorems

(***************************************************************************)
(* Launches: acted upon once, at home, for any number of launches,         *)
(* connections and environments.                                           *)
(***************************************************************************)

USE LaunchIntentsAssumption DEF LaunchIntentsAssumption

-----------------------------------------------------------------------------
(* The invariant.                                                          *)

\* A launch that has not been acted upon has not been counted either.
Counted ==
  \A l \in Launches :
    applied[l] <= 1 /\ (intent[l].pc \in {"none", "sent", "asked", "stashed"} => applied[l] = 0)

\* A launch waits in one place, and only while nobody has looked at it.
InQueue ==
  /\ \A i \in DOMAIN cliEvents : Is(cliEvents[i], "sent")
  /\ \A i, j \in DOMAIN cliEvents : cliEvents[i] = cliEvents[j] => i = j

InOnePlace ==
  /\ InQueue
  /\ bridge # "on" => cliEvents = <<>>
  /\ answer # NoLaunch => bridge = "drained" /\ Is(answer, "sent")
  /\ bridge = "off" /\ pendingCli # NoLaunch => Is(pendingCli, "sent")
  /\ cliChoice # NoLaunch => Is(cliChoice, "asked")

OneLaunchAtATime == \A k, l \in Launches : Unfinished(k) /\ Unfinished(l) => k = l

\* Where a launch is or will be when its connection opens.
BelongsAt(l, e) == Homes(intent[l].target) = {} \/ e \in Homes(intent[l].target) \/ l \in told

BoundForHome(l) ==
  /\ landed[l] # NoEnv => Is(l, "over") /\ BelongsAt(l, landed[l])
  /\ intent[l].pc \in {"connect", "connecting"} => BelongsAt(l, activeEnv[intent[l].window])
  /\ Is(l, "switch") => /\ switching.by = l /\ intent[l].window = Main
                        /\ switching.to \in Homes(intent[l].target)

\* Who waits for a switch of environment is the one that asked for it.
SwitchAwaited ==
  /\ switching # NotSwitching => switching.to \in Environments
  /\ switching.by # NoLaunch => Is(switching.by, "switch")

\* While the user switches, no launch is under way.
SwitchAlone ==
  switching # NotSwitching /\ switching.by = NoLaunch => \A l \in Launches : ~Unfinished(l)

AllBoundForHome == SwitchAlone /\ \A l \in Launches : BoundForHome(l)

LaunchInv ==
  /\ LaunchIntentsTypeOK /\ Counted /\ InOnePlace /\ SwitchAwaited
  /\ "together" \notin Crossings => OneLaunchAtATime
  /\ {"boot", "together"} \cap Crossings = {} => LaunchNotLost
  /\ {"together", "switch"} \cap Crossings = {} => AllBoundForHome

-----------------------------------------------------------------------------
(* A launch that is under way goes on.                                     *)

Labels ==
  {"none", "sent", "asked", "stashed", "prompted", "refresh", "find", "switch", "connect",
   "connecting", "over"}

\* The launch with another label, in a window.
Moved(l, label, w) == [pc |-> label, target |-> intent[l].target, window |-> w]

LEMMA NumbersAndLabels ==
  /\ \A l \in Launches : l # NoLaunch /\ l \in Windows /\ l # Main
  /\ Main \in Windows /\ NotSwitching.by = NoLaunch
BY DEF Launches, NoLaunch, Windows, Main, NotSwitching

LEMMA MovedType ==
  ASSUME LaunchIntentsTypeOK, NEW l \in Launches, NEW label \in Labels, NEW w \in Windows
  PROVE  /\ Moved(l, label, w) \in Intents
         /\ Moved(l, label, w).pc = label /\ Moved(l, label, w).window = w
         /\ Moved(l, label, w).target = intent[l].target
<1>1. intent[l].target \in Connections \cup {AdHoc}
  BY DEF LaunchIntentsTypeOK, Intents
<1> QED
  BY <1>1 DEF Moved, Intents, Labels

LEMMA MovedByExcept ==
  ASSUME LaunchIntentsTypeOK, NEW l \in Launches, NEW label \in Labels, NEW w \in Windows
  PROVE  /\ [intent[l] EXCEPT !.pc = label] = Moved(l, label, intent[l].window)
         /\ [intent[l] EXCEPT !.pc = label, !.window = w] = Moved(l, label, w)
<1>1. intent[l] \in Intents
  BY DEF LaunchIntentsTypeOK
<1>2. intent[l] = [pc |-> intent[l].pc, target |-> intent[l].target, window |-> intent[l].window]
  BY <1>1 DEF Intents
<1>3. [intent[l] EXCEPT !.pc = label] = Moved(l, label, intent[l].window)
  BY <1>2 DEF Moved
<1>4. [intent[l] EXCEPT !.pc = label, !.window = w] = Moved(l, label, w)
  <2> DEFINE m == [intent[l] EXCEPT !.pc = label, !.window = w]
  <2>1. m \in Intents /\ m.pc = label /\ m.window = w /\ m.target = intent[l].target
    BY <1>1 DEF Intents, Labels
  <2> HIDE DEF m
  <2>2. m = [pc |-> m.pc, target |-> m.target, window |-> m.window]
    BY <2>1 DEF Intents
  <2>3. m = Moved(l, label, w)
    BY <2>1, <2>2 DEF Moved
  <2> QED
    BY <2>3 DEF m
<1> QED
  BY <1>3, <1>4

LEMMA GoMoves ==
  ASSUME LaunchIntentsTypeOK, NEW l \in Launches, NEW label \in Labels, Go(l, label)
  PROVE  intent' = [intent EXCEPT ![l] = Moved(l, label, intent[l].window)]
<1>1. intent' = [intent EXCEPT ![l] = [intent[l] EXCEPT !.pc = label]]
  BY DEF Go, LaunchIntentsTypeOK
<1>2. intent[l].window \in Windows
  BY DEF LaunchIntentsTypeOK, Intents
<1> QED
  BY <1>1, <1>2, MovedByExcept

LEMMA UnderWay ==
  ASSUME LaunchInv, NEW l \in Launches, NEW r \in Intents, NEW n \in Nat, Unfinished(l),
         intent' = [intent EXCEPT ![l] = r], applied' = [applied EXCEPT ![l] = n],
         r.pc \notin {"none", "sent"}, r.target = intent[l].target,
         n <= 1, r.pc \in {"asked", "stashed"} => n = 0,
         r.pc = "asked" => cliChoice' = l,
         r.pc = "prompted" /\ r.window = Main => driverPrompt' = l,
         \/ switching' = switching /\ ~Is(l, "switch")
         \/ switching'.by = NoLaunch
         \/ switching'.by = l /\ r.pc = "switch",
         switching' # NotSwitching => switching'.to \in Environments,
         LaunchIntentsTypeOK', InOnePlace',
         {"together", "switch"} \cap Crossings = {} =>
           /\ switching' # NotSwitching => switching'.by # NoLaunch
           /\ told \subseteq told' /\ \A k \in Launches \ {l} : landed'[k] = landed[k]
           /\ BoundForHome(l)'
  PROVE  LaunchInv'
<1> USE DEF LaunchInv
<1>1. /\ intent \in [Launches -> Intents] /\ applied \in [Launches -> Nat]
      /\ switching.by \in Launches \cup {NoLaunch}
  BY DEF LaunchIntentsTypeOK
<1>2. /\ intent'[l] = r /\ applied'[l] = n
      /\ \A k \in Launches \ {l} : intent'[k] = intent[k] /\ applied'[k] = applied[k]
  BY <1>1
<1>3. Counted'
  BY <1>2 DEF Counted
<1>4. SwitchAwaited'
  BY <1>1, <1>2 DEF SwitchAwaited, Is
<1>5. "together" \notin Crossings => OneLaunchAtATime'
  BY <1>2 DEF OneLaunchAtATime, Unfinished, Is
<1>6. ASSUME "together" \notin Crossings
      PROVE  \A k \in Launches \ {l} : ~Unfinished(k) /\ intent'[k].pc \in {"none", "over"}
  BY <1>2, <1>6 DEF OneLaunchAtATime, Unfinished, Is
<1>7. ASSUME {"boot", "together"} \cap Crossings = {} PROVE LaunchNotLost'
  <2>1. \A k \in Launches \ {l} : intent'[k].pc \in {"none", "over"}
    BY <1>6, <1>7
  <2> QED
    BY <1>2, <2>1 DEF LaunchNotLost, Is
<1>8. ASSUME {"together", "switch"} \cap Crossings = {} PROVE AllBoundForHome'
  <2>1. \A k \in Launches \ {l} : ~Unfinished(k) /\ intent'[k].pc \in {"none", "over"}
    BY <1>6, <1>8
  <2>2. ASSUME NEW k \in Launches \ {l} PROVE BoundForHome(k)'
    <3>1. intent'[k] = intent[k] /\ landed'[k] = landed[k] /\ told \subseteq told'
      BY <1>2, <1>8
    <3>2. landed[k] # NoEnv => Is(k, "over") /\ BelongsAt(k, landed[k])
      BY <1>8 DEF AllBoundForHome, BoundForHome
    <3>3. landed'[k] # NoEnv => Is(k, "over")' /\ BelongsAt(k, landed[k])'
      BY <3>1, <3>2 DEF Is, BelongsAt, Homes
    <3> QED
      BY <2>1, <3>1, <3>3 DEF BoundForHome, Is, BelongsAt, Homes
  <2>3. SwitchAlone'
    BY <1>8 DEF SwitchAlone
  <2> QED
    BY <1>8, <2>2, <2>3 DEF AllBoundForHome
<1> QED
  BY <1>3, <1>4, <1>5, <1>7, <1>8

\* One that has been looked at is in no queue.
LEMMA StaysInPlace ==
  ASSUME LaunchInv, NEW l \in Launches, NEW r \in Intents,
         intent' = [intent EXCEPT ![l] = r], intent[l].pc \notin {"sent", "asked"},
         UNCHANGED <<mainBridge, cliChoice>>
  PROVE  InOnePlace'
<1>1. /\ intent \in [Launches -> Intents]
      /\ {pendingCli, answer, cliChoice} \subseteq Launches \cup {NoLaunch}
      /\ cliEvents \in Seq(Launches)
  BY DEF LaunchInv, LaunchIntentsTypeOK
<1>2. \A k \in Launches : intent[k].pc \in {"sent", "asked"} => intent'[k] = intent[k]
  BY <1>1
<1>3. \A i \in DOMAIN cliEvents : cliEvents[i] \in Launches
  BY <1>1, LenProperties, ElementOfSeq
<1>4. InOnePlace
  BY DEF LaunchInv
<1> QED
  BY <1>1, <1>2, <1>3, <1>4 DEF InOnePlace, InQueue, Is, mainBridge

-----------------------------------------------------------------------------
(* Steps of the launches that have been looked at.                         *)

\* Where the launch is, its home and the switch stay what they are.
LEMMA PlainInv ==
  ASSUME LaunchInv, NEW l \in Launches, NEW label \in Labels \ {"none", "sent", "asked", "switch"},
         NEW w \in Windows, NEW n \in Nat, intent[l].pc \notin {"none", "sent", "asked", "switch"},
         ~Is(l, "over"),
         intent' = [intent EXCEPT ![l] = Moved(l, label, w)], applied' = [applied EXCEPT ![l] = n],
         n <= 1, label = "stashed" => n = 0,
         label = "prompted" /\ w = Main => driverPrompt' = l,
         label \in {"connect", "connecting"} => BelongsAt(l, activeEnv[w]),
         driverPrompt' \in Launches \cup {NoLaunch},
         UNCHANGED <<mainBridge, cliChoice, cliDefault, landed, place>>
  PROVE  LaunchInv'
<1> USE DEF LaunchInv
<1> DEFINE r == Moved(l, label, w)
<1>1. /\ r \in Intents /\ r.pc = label /\ r.window = w /\ r.target = intent[l].target
  <2> HIDE DEF LaunchInv
  <2>1. LaunchIntentsTypeOK /\ label \in Labels
    BY DEF LaunchInv
  <2> QED
    BY <2>1, MovedType
<1> HIDE DEF r
<1>2. /\ intent \in [Launches -> Intents] /\ intent' = [intent EXCEPT ![l] = r]
      /\ intent' \in [Launches -> Intents] /\ intent'[l] = r
  BY <1>1 DEF r, LaunchIntentsTypeOK
<1>3. LaunchIntentsTypeOK'
  BY <1>2 DEF LaunchIntentsTypeOK, mainBridge, place
<1>4. InOnePlace'
  BY <1>1, <1>2, StaysInPlace
<1>5. /\ Unfinished(l) /\ switching' = switching /\ ~Is(l, "switch")
      /\ switching' # NotSwitching => switching'.to \in Environments
  BY DEF Unfinished, Is, place, SwitchAwaited
<1>6. ASSUME {"together", "switch"} \cap Crossings = {}
      PROVE  /\ switching' # NotSwitching => switching'.by # NoLaunch
             /\ told \subseteq told' /\ \A k \in Launches \ {l} : landed'[k] = landed[k]
             /\ BoundForHome(l)'
  <2>1. BoundForHome(l) /\ SwitchAlone
    BY <1>6 DEF AllBoundForHome
  <2>2. landed[l] = NoEnv
    BY <2>1 DEF BoundForHome
  <2>3. BoundForHome(l)'
    BY <1>1, <1>2, <2>2 DEF BoundForHome, BelongsAt, Homes, Is, place
  <2> QED
    BY <1>5, <2>1, <2>3 DEF SwitchAlone, place
<1>7. /\ r.pc \notin {"none", "sent", "asked", "switch"}
      /\ r.pc \in {"asked", "stashed"} => n = 0
      /\ r.pc = "prompted" /\ r.window = Main => driverPrompt' = l
  BY <1>1
<1> QED
  BY <1>1, <1>2, <1>3, <1>4, <1>5, <1>6, <1>7, UnderWay

LEMMA AnswerDriverInv ==
  ASSUME LaunchInv, NEW l \in Launches, NEW picked \in BOOLEAN, AnswerDriver(l, picked)
  PROVE  LaunchInv'
<1> DEFINE label == IF picked THEN "refresh" ELSE "over"
<1>1. /\ label \in {"refresh", "over"} /\ Go(l, label) /\ intent[l].pc = "prompted"
      /\ driverPrompt' \in {NoLaunch, driverPrompt}
      /\ UNCHANGED <<mainBridge, cliChoice, cliDefault, applied, landed, place>>
  BY DEF AnswerDriver, Is
<1> HIDE DEF label
<1>2. /\ LaunchIntentsTypeOK /\ driverPrompt \in Launches \cup {NoLaunch}
      /\ applied \in [Launches -> Nat] /\ applied[l] \in Nat /\ applied[l] <= 1
  BY DEF LaunchInv, LaunchIntentsTypeOK, Counted
<1>3. label \in Labels \ {"none", "sent", "asked", "switch"}
  BY <1>1 DEF Labels
<1>4. /\ intent' = [intent EXCEPT ![l] = Moved(l, label, intent[l].window)]
      /\ intent[l].window \in Windows
  <2>1. label \in Labels /\ Go(l, label)
    BY <1>1, <1>3
  <2>2. intent[l].window \in Windows
    BY <1>2 DEF LaunchIntentsTypeOK, Intents
  <2> QED
    BY <1>2, <2>1, <2>2, GoMoves
<1>5. /\ applied' = [applied EXCEPT ![l] = applied[l]] /\ driverPrompt' \in Launches \cup {NoLaunch}
      /\ ~Is(l, "over") /\ intent[l].pc \notin {"none", "sent", "asked", "switch"}
  BY <1>1, <1>2 DEF Is
<1>6. label \notin {"prompted", "connect", "connecting", "stashed"}
  BY <1>1
<1> QED
  BY <1>1, <1>2, <1>3, <1>4, <1>5, <1>6, PlainInv

LEMMA ProfilesReadInv ==
  ASSUME LaunchInv, NEW l \in Launches, ProfilesRead(l) \/ IntentFails(l)
  PROVE  LaunchInv'
<1>1. PICK label \in {"connect", "find", "over"} :
        /\ Go(l, label) /\ intent[l].pc \in {"stashed", "refresh", "find", "connecting"}
        /\ label = "connect" => intent[l].target = AdHoc
        /\ UNCHANGED <<mainBridge, dialogs, applied, landed, place>>
  BY DEF ProfilesRead, IntentFails, Is
<1>2. /\ LaunchIntentsTypeOK /\ driverPrompt \in Launches \cup {NoLaunch}
      /\ applied \in [Launches -> Nat] /\ applied[l] \in Nat /\ applied[l] <= 1
  BY DEF LaunchInv, LaunchIntentsTypeOK, Counted
<1>3. label \in Labels \ {"none", "sent", "asked", "switch"}
  BY <1>1 DEF Labels
<1>4. /\ intent' = [intent EXCEPT ![l] = Moved(l, label, intent[l].window)]
      /\ intent[l].window \in Windows
  <2>1. label \in Labels /\ Go(l, label)
    BY <1>1, <1>3
  <2>2. intent[l].window \in Windows
    BY <1>2 DEF LaunchIntentsTypeOK, Intents
  <2> QED
    BY <1>2, <2>1, <2>2, GoMoves
<1>5. label \in {"connect", "connecting"} => BelongsAt(l, activeEnv[intent[l].window])
  BY <1>1 DEF BelongsAt, Homes
<1>6. /\ applied' = [applied EXCEPT ![l] = applied[l]] /\ driverPrompt' \in Launches \cup {NoLaunch}
      /\ ~Is(l, "over") /\ intent[l].pc \notin {"none", "sent", "asked", "switch"}
      /\ label # "stashed" /\ label # "prompted"
  BY <1>1, <1>2 DEF Is, dialogs
<1>7. UNCHANGED <<mainBridge, cliChoice, cliDefault, landed, place>>
  BY <1>1 DEF dialogs
<1> QED
  BY <1>2, <1>3, <1>4, <1>5, <1>6, <1>7, PlainInv

\* A connection opens, or is on the screen already.
LEMMA ConnectInv ==
  ASSUME LaunchInv, NEW l \in Launches, ConnectIntent(l) \/ Connected(l)
  PROVE  LaunchInv'
<1> USE DEF LaunchInv
<1> DEFINE w == intent[l].window
<1>1. PICK label \in {"over", "connecting"} :
        /\ Go(l, label) /\ intent[l].pc \in {"connect", "connecting"}
        /\ label = "over" => landed' = [landed EXCEPT ![l] = activeEnv[w]]
        /\ label = "connecting" => landed' = landed
        /\ UNCHANGED <<mainBridge, dialogs, applied, activeEnv, switching, told>>
  BY DEF ConnectIntent, Connected, Is, place
<1>2. /\ intent[l] \in Intents /\ w \in Windows
      /\ landed \in [Launches -> Environments \cup {NoEnv}]
      /\ activeEnv[w] \in Environments /\ applied \in [Launches -> Nat] /\ applied[l] <= 1
  BY DEF LaunchIntentsTypeOK, Intents, Counted
<1> DEFINE r == Moved(l, label, w)
<1>3. /\ intent' = [intent EXCEPT ![l] = r] /\ r \in Intents /\ r.pc = label
      /\ r.window = w /\ r.target = intent[l].target
  <2>1. label \in Labels
    BY <1>1 DEF Labels
  <2>2. intent' = [intent EXCEPT ![l] = Moved(l, label, intent[l].window)]
    BY <1>1, <2>1, GoMoves
  <2> QED
    BY <1>2, <2>1, <2>2, MovedType
<1> HIDE DEF r
<1>4. intent' \in [Launches -> Intents] /\ intent'[l] = r
  BY <1>3 DEF LaunchIntentsTypeOK
<1>5. LaunchIntentsTypeOK'
  <2>1. shown' \in [Windows -> SUBSET Connections]
    <3>1. CASE ConnectIntent(l)
      BY <3>1 DEF ConnectIntent, place, LaunchIntentsTypeOK
    <3>2. CASE Connected(l)
      <4>1. {intent[l].target} \ {AdHoc} \in SUBSET Connections
        BY <1>2 DEF Intents
      <4> QED
        BY <3>2, <4>1, <1>2 DEF Connected, LaunchIntentsTypeOK
    <3> QED
      BY <3>1, <3>2
  <2>2. landed' \in [Launches -> Environments \cup {NoEnv}]
    BY <1>1, <1>2
  <2> QED
    BY <1>1, <1>4, <2>1, <2>2 DEF LaunchIntentsTypeOK, mainBridge, dialogs
<1>6. InOnePlace'
  BY <1>1, <1>3, StaysInPlace DEF dialogs
<1>7. ASSUME {"together", "switch"} \cap Crossings = {}
      PROVE  /\ switching' # NotSwitching => switching'.by # NoLaunch
             /\ told \subseteq told' /\ \A k \in Launches \ {l} : landed'[k] = landed[k]
             /\ BoundForHome(l)'
  <2>1. BoundForHome(l) /\ SwitchAlone
    BY <1>7 DEF AllBoundForHome
  <2>2. landed[l] = NoEnv /\ BelongsAt(l, activeEnv[w])
    BY <1>1, <2>1 DEF BoundForHome, Is
  <2>3. activeEnv' = activeEnv /\ told' = told /\ switching' = switching
    BY <1>1
  <2>4. CASE label = "over"
    <3>1. landed'[l] = activeEnv[w]
      BY <1>1, <1>2, <2>4
    <3> QED
      BY <1>1, <1>2, <1>3, <1>4, <2>1, <2>2, <2>3, <2>4, <3>1
         DEF BoundForHome, BelongsAt, Homes, Is, SwitchAlone, Unfinished
  <2>5. CASE label = "connecting"
    BY <1>1, <1>2, <1>3, <1>4, <2>1, <2>2, <2>3, <2>5
       DEF BoundForHome, BelongsAt, Homes, Is, SwitchAlone, Unfinished
  <2> QED
    BY <1>1, <2>4, <2>5
<1>8. /\ Unfinished(l) /\ switching' = switching /\ ~Is(l, "switch")
      /\ r.pc \notin {"none", "sent", "asked", "stashed", "prompted"}
      /\ applied' = [applied EXCEPT ![l] = applied[l]] /\ applied[l] \in Nat
      /\ switching' # NotSwitching => switching'.to \in Environments
  BY <1>1, <1>2, <1>3 DEF Unfinished, Is, SwitchAwaited
<1> QED
  BY <1>2, <1>3, <1>5, <1>6, <1>7, <1>8, UnderWay

-----------------------------------------------------------------------------
(* The environments.                                                       *)

\* The environment where the connection was found is there already, or shown, or switched to.
LEMMA ProfileFoundInv ==
  ASSUME LaunchInv, NEW l \in Launches, ProfileFound(l)
  PROVE  LaunchInv'
<1> USE DEF LaunchInv
<1> DEFINE w == intent[l].window
           where == Homes(intent[l].target)
<1>1. intent[l].pc = "find" /\ UNCHANGED <<mainBridge, dialogs, applied, landed, shown, told>>
  BY DEF ProfileFound, Is
<1>2. /\ intent[l] \in Intents /\ w \in Windows
      /\ landed \in [Launches -> Environments \cup {NoEnv}]
      /\ activeEnv \in [Windows -> Environments]
      /\ applied \in [Launches -> Nat] /\ applied[l] \in Nat /\ applied[l] <= 1
      /\ switching \in [to : Environments \cup {NoEnv}, by : Launches \cup {NoLaunch}]
  BY DEF LaunchIntentsTypeOK, Intents, Counted
<1>3. where \subseteq Environments
  BY <1>2 DEF Homes, Intents
<1> HIDE DEF where
<1>4. \/ /\ where = {} \/ activeEnv[w] \in where
         /\ Go(l, "connect") /\ UNCHANGED <<activeEnv, switching>>
      \/ \E e \in where :
           /\ activeEnv[w] \notin where
           /\ \/ w = Main /\ switching = NotSwitching /\ StartSwitch(l, e)
              \/ w = Main /\ switching # NotSwitching /\ Go(l, "connect")
                          /\ UNCHANGED <<activeEnv, switching>>
              \/ w # Main /\ activeEnv' = [activeEnv EXCEPT ![w] = e]
                          /\ Go(l, "connect") /\ UNCHANGED switching
  BY DEF ProfileFound, where
<1>5. \E label \in {"switch", "connect"} : Go(l, label)
  BY <1>4 DEF StartSwitch
<1>6. PICK label \in {"switch", "connect"} : intent' = [intent EXCEPT ![l] = Moved(l, label, w)]
  <2>1. {"switch", "connect"} \subseteq Labels
    BY DEF Labels
  <2> QED
    BY <1>5, <2>1, GoMoves
<1> DEFINE r == Moved(l, label, w)
<1>7. r \in Intents /\ r.pc = label /\ r.window = w /\ r.target = intent[l].target
  <2>1. label \in Labels
    BY DEF Labels
  <2> QED
    BY <1>2, <2>1, MovedType
<1>8. intent' = [intent EXCEPT ![l] = r]
  BY <1>6
<1> HIDE DEF r, w
<1>9. intent' \in [Launches -> Intents] /\ intent'[l] = r
  BY <1>7, <1>8 DEF LaunchIntentsTypeOK
<1>10. label = "switch" <=> Is(l, "switch")'
  BY <1>7, <1>9 DEF Is
<1>11. \A x \in Labels : Go(l, x) => label = x
  <2>1. ASSUME NEW x \in Labels, Go(l, x) PROVE label = x
    <3>1. intent' = [intent EXCEPT ![l] = Moved(l, x, w)]
      BY <2>1, GoMoves DEF w
    <3>2. intent'[l] = Moved(l, x, w) /\ Moved(l, x, w).pc = x
      BY <3>1 DEF LaunchIntentsTypeOK, Moved
    <3> QED
      BY <1>7, <1>9, <3>2
  <2> QED
    BY <2>1
<1>12. \/ /\ label = "connect" /\ UNCHANGED <<activeEnv, switching>>
          /\ where = {} \/ activeEnv[w] \in where \/ switching # NotSwitching
       \/ \E e \in where : /\ label = "switch" /\ w = Main /\ switching = NotSwitching
                           /\ switching' = [to |-> e, by |-> l] /\ activeEnv' = activeEnv
       \/ \E e \in where : /\ label = "connect" /\ activeEnv' = [activeEnv EXCEPT ![w] = e]
                           /\ switching' = switching /\ activeEnv'[w] = e
  <2>1. "connect" \in Labels /\ "switch" \in Labels
    BY DEF Labels
  <2> QED
    BY <1>2, <1>4, <1>11, <2>1 DEF StartSwitch, w
<1>13. LaunchIntentsTypeOK'
  <2>1. /\ activeEnv' \in [Windows -> Environments]
        /\ switching' \in [to : Environments \cup {NoEnv}, by : Launches \cup {NoLaunch}]
    BY <1>2, <1>3, <1>12
  <2> QED
    BY <1>1, <1>9, <2>1 DEF LaunchIntentsTypeOK, mainBridge, dialogs
<1>14. InOnePlace'
  BY <1>1, <1>7, <1>8, StaysInPlace DEF dialogs
<1>15. Unfinished(l) /\ ~Is(l, "switch")
  BY <1>1 DEF Unfinished, Is
<1>16. ASSUME {"together", "switch"} \cap Crossings = {}
       PROVE  /\ switching' # NotSwitching => switching'.by # NoLaunch
              /\ told \subseteq told' /\ \A k \in Launches \ {l} : landed'[k] = landed[k]
              /\ BoundForHome(l)'
  <2>1. landed[l] = NoEnv /\ BoundForHome(l) /\ SwitchAlone
    BY <1>1, <1>16 DEF AllBoundForHome, BoundForHome, Is
  <2>2. switching = NotSwitching
    <3>1. SUFFICES ASSUME switching # NotSwitching PROVE FALSE
      OBVIOUS
    <3>2. switching.by \in Launches /\ Is(switching.by, "switch")
      BY <1>2, <1>15, <2>1, <3>1 DEF SwitchAlone, SwitchAwaited
    <3>3. switching.by = l
      BY <1>15, <1>16, <3>2 DEF OneLaunchAtATime, Unfinished, Is
    <3> QED
      BY <1>15, <3>2, <3>3
  <2>3. where = Homes(intent'[l].target) /\ intent'[l].window = w /\ told' = told
    BY <1>1, <1>7, <1>9 DEF where
  <2>4. BoundForHome(l)'
    <3>1. landed'[l] = NoEnv
      BY <1>1, <2>1
    <3>2. CASE label = "connect"
      <4>1. where = {} \/ activeEnv'[w] \in where
        BY <1>12, <2>2, <3>2
      <4> QED
        BY <1>7, <1>9, <2>3, <3>1, <3>2, <4>1 DEF BoundForHome, BelongsAt, Homes, Is
    <3>3. CASE label = "switch"
      <4>1. w = Main /\ switching'.by = l /\ switching'.to \in where
        BY <1>12, <3>3
      <4> QED
        BY <1>7, <1>9, <2>3, <3>1, <3>3, <4>1 DEF BoundForHome, Homes, Is
    <3> QED
      BY <3>2, <3>3
  <2> QED
    BY <1>1, <1>12, <2>2, <2>4, NumbersAndLabels
<1>17. /\ \/ switching' = switching /\ ~Is(l, "switch")
          \/ switching'.by = l /\ r.pc = "switch"
       /\ switching' # NotSwitching => switching'.to \in Environments
  BY <1>3, <1>7, <1>12, <1>15 DEF SwitchAwaited
<1>18. /\ r.pc \notin {"none", "sent", "asked", "stashed", "prompted"}
       /\ applied' = [applied EXCEPT ![l] = applied[l]]
  BY <1>1, <1>2, <1>7
<1> QED
  BY <1>2, <1>7, <1>8, <1>13, <1>14, <1>15, <1>16, <1>17, <1>18, UnderWay

\* While an environment is switched, no launch is about to open its connection.
LEMMA SwitchesAlone ==
  ASSUME LaunchInv, switching # NotSwitching, {"together", "switch"} \cap Crossings = {},
         NEW l \in Launches
  PROVE  /\ landed[l] # NoEnv => Is(l, "over") /\ BelongsAt(l, landed[l])
         /\ intent[l].pc \notin {"connect", "connecting"}
         /\ Is(l, "switch") => BoundForHome(l)
<1> USE DEF LaunchInv
<1>1. BoundForHome(l) /\ SwitchAlone /\ SwitchAwaited /\ OneLaunchAtATime
  BY DEF AllBoundForHome
<1>2. switching.by \in Launches \cup {NoLaunch}
  BY DEF LaunchIntentsTypeOK
<1>3. CASE switching.by = NoLaunch
  BY <1>1, <1>3 DEF SwitchAlone, BoundForHome, Unfinished, Is
<1>4. CASE switching.by \in Launches \ {NoLaunch}
  BY <1>1, <1>4 DEF SwitchAwaited, OneLaunchAtATime, BoundForHome, Unfinished, Is
<1> QED
  BY <1>2, <1>3, <1>4

LEMMA PickInv ==
  ASSUME LaunchInv, NEW e \in Environments, PickEnvironment(e)
  PROVE  LaunchInv'
<1> USE DEF LaunchInv
<1>1. /\ switching = NotSwitching /\ switching' = [to |-> e, by |-> NoLaunch]
      /\ "switch" \notin Crossings => \A l \in Launches : ~Unfinished(l)
      /\ UNCHANGED <<mainBridge, dialogs, intent, applied, landed, activeEnv, shown, told>>
  BY DEF PickEnvironment
<1>2. LaunchIntentsTypeOK'
  BY <1>1 DEF LaunchIntentsTypeOK, mainBridge, dialogs
<1>3. /\ Counted' /\ InOnePlace' /\ SwitchAwaited'
      /\ "together" \notin Crossings => OneLaunchAtATime'
      /\ {"boot", "together"} \cap Crossings = {} => LaunchNotLost'
  BY <1>1 DEF Counted, InOnePlace, InQueue, SwitchAwaited, OneLaunchAtATime, LaunchNotLost, Unfinished,
              Is, mainBridge, dialogs
<1>4. {"together", "switch"} \cap Crossings = {} => AllBoundForHome'
  BY <1>1 DEF AllBoundForHome, SwitchAlone, BoundForHome, BelongsAt, Homes, Unfinished, Is
<1> QED
  BY <1>2, <1>3, <1>4

LEMMA SwitchPointsInv == ASSUME LaunchInv, SwitchPoints PROVE LaunchInv'
<1> USE DEF LaunchInv
<1>1. /\ switching # NotSwitching /\ activeEnv' = [activeEnv EXCEPT ![Main] = switching.to]
      /\ UNCHANGED <<mainBridge, dialogs, intent, applied, landed, switching, shown, told>>
  BY DEF SwitchPoints
<1>2. LaunchIntentsTypeOK'
  <2>1. switching.to \in Environments
    BY <1>1 DEF SwitchAwaited
  <2> QED
    BY <1>1, <2>1 DEF LaunchIntentsTypeOK, mainBridge, dialogs
<1>3. /\ Counted' /\ InOnePlace' /\ SwitchAwaited'
      /\ "together" \notin Crossings => OneLaunchAtATime'
      /\ {"boot", "together"} \cap Crossings = {} => LaunchNotLost'
  BY <1>1 DEF Counted, InOnePlace, InQueue, SwitchAwaited, OneLaunchAtATime, LaunchNotLost, Unfinished,
              Is, mainBridge, dialogs
<1>4. ASSUME {"together", "switch"} \cap Crossings = {} PROVE AllBoundForHome'
  <2>1. ASSUME NEW l \in Launches PROVE BoundForHome(l)'
    BY <1>1, <1>4, SwitchesAlone DEF BoundForHome, BelongsAt, Homes, Is
  <2> QED
    BY <1>1, <1>4, <2>1 DEF AllBoundForHome, SwitchAlone, Unfinished, Is
<1> QED
  BY <1>2, <1>3, <1>4

\* A switch ends, with the environment or with a notice, and who waited for it goes on.
LEMMA SwitchEndsInv == ASSUME LaunchInv, SwitchEnds \/ SwitchFails PROVE LaunchInv'
<1> USE DEF LaunchInv
<1>1. /\ switching # NotSwitching /\ switching' = NotSwitching /\ intent' = Waiter
      /\ \/ activeEnv[Main] = switching.to /\ told' = told
         \/ told' = told \cup ({switching.by} \ {NoLaunch})
      /\ UNCHANGED <<mainBridge, dialogs, applied, landed, activeEnv>>
  BY DEF SwitchEnds, SwitchFails
<1>2. /\ switching.by \in Launches \cup {NoLaunch}
      /\ shown' \in [Windows -> SUBSET Connections]
      /\ told' \subseteq Launches /\ told \subseteq told'
      /\ switching' \in [to : Environments \cup {NoEnv}, by : Launches \cup {NoLaunch}]
  BY <1>1 DEF SwitchEnds, SwitchFails, LaunchIntentsTypeOK, NotSwitching
<1>3. CASE switching.by = NoLaunch
  <2>1. intent' = intent
    BY <1>1, <1>3 DEF Waiter
  <2>2. LaunchIntentsTypeOK'
    BY <1>1, <1>2, <2>1 DEF LaunchIntentsTypeOK, mainBridge, dialogs
  <2>3. /\ Counted' /\ InOnePlace' /\ SwitchAwaited'
        /\ "together" \notin Crossings => OneLaunchAtATime'
        /\ {"boot", "together"} \cap Crossings = {} => LaunchNotLost'
    BY <1>1, <2>1, NumbersAndLabels
       DEF Counted, InOnePlace, InQueue, SwitchAwaited, OneLaunchAtATime, LaunchNotLost, Unfinished,
           Is, mainBridge, dialogs
  <2>4. ASSUME {"together", "switch"} \cap Crossings = {} PROVE AllBoundForHome'
    <3>1. ASSUME NEW l \in Launches PROVE BoundForHome(l)'
      <4>1. ~Is(l, "switch")
        BY <1>1, <1>3, <2>4 DEF AllBoundForHome, SwitchAlone, Unfinished, Is
      <4> QED
        BY <1>1, <1>2, <2>1, <2>4, <4>1, SwitchesAlone DEF BoundForHome, BelongsAt, Homes, Is
    <3> QED
      BY <1>1, <3>1 DEF AllBoundForHome, SwitchAlone
  <2> QED
    BY <2>2, <2>3, <2>4
<1>4. CASE switching.by # NoLaunch
  <2>0. PICK l \in Launches : l = switching.by
    BY <1>2, <1>4
  <2> DEFINE w == intent[l].window
             r == Moved(l, "connect", w)
  <2>1. /\ Is(l, "switch") /\ intent[l] \in Intents /\ w \in Windows
        /\ applied \in [Launches -> Nat] /\ applied[l] \in Nat /\ applied[l] <= 1
    BY <1>4, <2>0 DEF SwitchAwaited, LaunchIntentsTypeOK, Intents, Counted
  <2>2. "connect" \in Labels
    BY DEF Labels
  <2>3. intent' = [intent EXCEPT ![l] = r]
    <3>1. intent' = [intent EXCEPT ![l] = [intent[l] EXCEPT !.pc = "connect"]]
      BY <1>1, <1>4, <2>0, <2>1 DEF Waiter, LaunchIntentsTypeOK
    <3>2. [intent[l] EXCEPT !.pc = "connect"] = r
      BY <2>1, <2>2, MovedByExcept
    <3> QED
      BY <3>1, <3>2, Zenon
  <2>4. r \in Intents /\ r.pc = "connect" /\ r.window = w /\ r.target = intent[l].target
    BY <2>1, <2>2, MovedType
  <2> HIDE DEF r
  <2>5. intent' \in [Launches -> Intents] /\ intent'[l] = r
    BY <2>1, <2>3, <2>4 DEF LaunchIntentsTypeOK
  <2>6. LaunchIntentsTypeOK'
    BY <1>1, <1>2, <2>5 DEF LaunchIntentsTypeOK, mainBridge, dialogs
  <2>7. InOnePlace'
    BY <1>1, <2>1, <2>3, <2>4, StaysInPlace DEF dialogs, Is
  <2>8. Unfinished(l) /\ switching'.by = NoLaunch
    BY <1>1, <2>1, NumbersAndLabels DEF Unfinished, Is
  <2>9. ASSUME {"together", "switch"} \cap Crossings = {}
        PROVE  /\ switching' # NotSwitching => switching'.by # NoLaunch
               /\ told \subseteq told' /\ \A k \in Launches \ {l} : landed'[k] = landed[k]
               /\ BoundForHome(l)'
    <3>1. BoundForHome(l)
      BY <2>1, <2>9 DEF AllBoundForHome
    <3>2. landed[l] = NoEnv /\ w = Main /\ switching.to \in Homes(intent[l].target)
      BY <2>1, <3>1 DEF BoundForHome, Is
    <3>3. activeEnv[Main] \in Homes(intent[l].target) \/ l \in told'
      BY <1>1, <1>4, <2>0, <3>2
    <3>4. BoundForHome(l)'
      BY <1>1, <2>4, <2>5, <3>2, <3>3 DEF BoundForHome, BelongsAt, Homes, Is
    <3> QED
      BY <1>1, <1>2, <3>4
  <2>10. /\ applied' = [applied EXCEPT ![l] = applied[l]]
         /\ r.pc \notin {"none", "sent", "asked", "stashed", "prompted"}
    BY <1>1, <2>1, <2>4
  <2> QED
    BY <1>1, <2>1, <2>3, <2>4, <2>6, <2>7, <2>8, <2>9, <2>10, UnderWay
<1> QED
  BY <1>3, <1>4

-----------------------------------------------------------------------------
(* What becomes of a launch when somebody looks at it.                     *)

\* The dialog about the launch, if there is one, is the one on the screen.
HandledAs(l, label, w, n) ==
  /\ intent' = [intent EXCEPT ![l] = Moved(l, label, w)]
  /\ applied' = [applied EXCEPT ![l] = n]
  /\ driverPrompt' = IF label = "prompted" /\ w = Main THEN l ELSE driverPrompt

LEMMA AppliesAs ==
  ASSUME LaunchInv, NEW l \in Launches, NEW w \in Windows, applied[l] = 0, ApplyIntent(l, w)
  PROVE  \E label \in {"refresh", "prompted"} : HandledAs(l, label, w, 1)
<1>1. LaunchIntentsTypeOK /\ applied' = [applied EXCEPT ![l] = 1]
  BY DEF LaunchInv, ApplyIntent
<1>2. {"refresh", "prompted"} \subseteq Labels
  BY DEF Labels
<1>3. PICK label \in {"refresh", "prompted"} :
        /\ intent' = [intent EXCEPT ![l].pc = label, ![l].window = w]
        /\ driverPrompt' = IF label = "prompted" /\ w = Main THEN l ELSE driverPrompt
  BY DEF ApplyIntent
<1>4. intent' = [intent EXCEPT ![l] = [intent[l] EXCEPT !.pc = label, !.window = w]]
  BY <1>1, <1>3 DEF LaunchIntentsTypeOK
<1>5. [intent[l] EXCEPT !.pc = label, !.window = w] = Moved(l, label, w)
  BY <1>1, <1>2, MovedByExcept
<1> QED
  BY <1>1, <1>3, <1>4, <1>5 DEF HandledAs

LEMMA RoutesAs ==
  ASSUME LaunchInv, NEW l \in Launches, NEW how, applied[l] = 0, Route(l, how)
  PROVE  \/ \E label \in {"refresh", "prompted"} : HandledAs(l, label, Main, 1)
         \/ HandledAs(l, "stashed", intent[l].window, 0)
<1>1. CASE ApplyIntent(l, Main)
  BY <1>1, AppliesAs, NumbersAndLabels
<1>2. CASE Go(l, "stashed") /\ UNCHANGED <<driverPrompt, applied>>
  <2>1. "stashed" \in Labels /\ LaunchIntentsTypeOK /\ applied' = [applied EXCEPT ![l] = 0]
    BY <1>2 DEF Labels, LaunchInv, LaunchIntentsTypeOK
  <2>2. intent' = [intent EXCEPT ![l] = Moved(l, "stashed", intent[l].window)]
    BY <1>2, <2>1, GoMoves
  <2> QED
    BY <1>2, <2>1, <2>2 DEF HandledAs
<1> QED
  BY <1>1, <1>2 DEF Route

\* The one looked at leaves the place where it was, for the dialog that asks about it, or
\* for the way to its connection.
LEMMA HandledInv ==
  ASSUME LaunchInv, NEW l \in Launches, intent[l].pc \in {"sent", "asked", "stashed"},
         NEW label \in {"asked", "stashed", "refresh", "prompted", "over"}, NEW w \in Windows,
         NEW n \in {0, 1}, HandledAs(l, label, w, n), label \in {"asked", "stashed"} => n = 0,
         label = "asked" => cliChoice' = l,
         InOnePlace', bridge' \in {"off", "drained", "subscribing", "on"},
         {pendingCli', answer', cliChoice'} \subseteq Launches \cup {NoLaunch},
         cliEvents' \in Seq(Launches), cliDefault' \in Routes \cup {"ask"},
         UNCHANGED <<landed, switching, shown, told>>,
         activeEnv' \in [Windows -> Environments]
  PROVE  LaunchInv'
<1> USE DEF LaunchInv
<1> DEFINE r == Moved(l, label, w)
<1>1. r \in Intents /\ r.pc = label /\ r.window = w /\ r.target = intent[l].target
  <2>1. label \in Labels
    BY DEF Labels
  <2> QED
    BY <2>1, MovedType
<1>2. /\ intent' = [intent EXCEPT ![l] = r] /\ applied' = [applied EXCEPT ![l] = n]
      /\ driverPrompt' = IF label = "prompted" /\ w = Main THEN l ELSE driverPrompt
  BY DEF HandledAs
<1> HIDE DEF r
<1>3. intent' \in [Launches -> Intents] /\ intent'[l] = r /\ applied' \in [Launches -> Nat]
  BY <1>1, <1>2 DEF LaunchIntentsTypeOK
<1>4. LaunchIntentsTypeOK'
  BY <1>2, <1>3 DEF LaunchIntentsTypeOK
<1>5. /\ Unfinished(l) /\ switching' = switching /\ ~Is(l, "switch") /\ ~Is(l, "over")
      /\ switching' # NotSwitching => switching'.to \in Environments
  BY DEF Unfinished, Is, SwitchAwaited
<1>6. ASSUME {"together", "switch"} \cap Crossings = {}
      PROVE  /\ switching' # NotSwitching => switching'.by # NoLaunch
             /\ told \subseteq told' /\ \A k \in Launches \ {l} : landed'[k] = landed[k]
             /\ BoundForHome(l)'
  <2>1. BoundForHome(l) /\ SwitchAlone
    BY <1>6 DEF AllBoundForHome
  <2>2. landed[l] = NoEnv
    BY <1>5, <2>1 DEF BoundForHome
  <2> QED
    BY <1>1, <1>3, <1>5, <2>1, <2>2 DEF BoundForHome, SwitchAlone, Is
<1>7. /\ r.pc \notin {"none", "sent"} /\ n \in Nat /\ n <= 1
      /\ r.pc \in {"asked", "stashed"} => n = 0
  BY <1>1
<1>8. /\ r.pc = "asked" => cliChoice' = l
      /\ r.pc = "prompted" /\ r.window = Main => driverPrompt' = l
  BY <1>1, <1>2
<1> QED
  BY <1>1, <1>2, <1>4, <1>5, <1>6, <1>7, <1>8, UnderWay

\* Only its own place is left, or taken for a dialog.
LEMMA LeavesPlace ==
  ASSUME LaunchInv, NEW l \in Launches, NEW label \in Labels, NEW w \in Windows, NEW n,
         HandledAs(l, label, w, n), cliEvents' \in Seq(Launches),
         \A i \in DOMAIN cliEvents' : cliEvents'[i] # l /\ Is(cliEvents'[i], "sent"),
         \A i, j \in DOMAIN cliEvents' : cliEvents'[i] = cliEvents'[j] => i = j,
         bridge' # "on" => cliEvents' = <<>>,
         answer' # NoLaunch => answer' # l /\ bridge' = "drained" /\ Is(answer', "sent"),
         bridge' = "off" /\ pendingCli' # NoLaunch => pendingCli' # l /\ Is(pendingCli', "sent"),
         cliChoice' # NoLaunch =>
           \/ cliChoice' = l /\ label = "asked"
           \/ cliChoice' # l /\ Is(cliChoice', "asked"),
         {pendingCli', answer', cliChoice'} \subseteq Launches \cup {NoLaunch}
  PROVE  InOnePlace'
<1>1. /\ \A k \in Launches \ {l} : intent'[k] = intent[k]
      /\ intent'[l].pc = label
  BY DEF LaunchInv, LaunchIntentsTypeOK, HandledAs, Moved
<1>2. \A i \in DOMAIN cliEvents' : cliEvents'[i] \in Launches
  BY LenProperties, ElementOfSeq
<1> QED
  BY <1>1, <1>2 DEF InOnePlace, InQueue, Is

LEMMA IncomingAs ==
  ASSUME LaunchInv, NEW l \in Launches, Is(l, "sent"), Incoming(l)
  PROVE  \E label \in {"asked", "stashed", "refresh", "prompted"}, w \in Windows, n \in {0, 1} :
           /\ HandledAs(l, label, w, n) /\ (label \in {"asked", "stashed"} => n = 0)
           /\ cliChoice' = IF label = "asked" THEN l ELSE cliChoice
<1>1. applied[l] = 0 /\ intent[l].window \in Windows /\ LaunchIntentsTypeOK
  BY DEF LaunchInv, LaunchIntentsTypeOK, Intents, Counted, Is
<1>2. CASE cliChoice' = l /\ Go(l, "asked") /\ UNCHANGED <<driverPrompt, applied>>
  <2>1. "asked" \in Labels /\ applied' = [applied EXCEPT ![l] = 0]
    BY <1>1, <1>2 DEF Labels, LaunchIntentsTypeOK
  <2>2. intent' = [intent EXCEPT ![l] = Moved(l, "asked", intent[l].window)]
    BY <1>1, <1>2, <2>1, GoMoves
  <2>3. HandledAs(l, "asked", intent[l].window, 0)
    BY <1>2, <2>1, <2>2 DEF HandledAs
  <2> QED
    BY <1>1, <1>2, <2>3
<1>3. CASE Route(l, cliDefault) /\ UNCHANGED cliChoice
  BY <1>1, <1>3, RoutesAs, NumbersAndLabels
<1> QED
  BY <1>2, <1>3 DEF Incoming

LEMMA DeliverEventInv == ASSUME LaunchInv, DeliverEvent PROVE LaunchInv'
<1> DEFINE h == Head(cliEvents)
<1>1. /\ cliEvents \in Seq(Launches) /\ cliEvents # <<>> /\ cliEvents' = Tail(cliEvents)
      /\ Incoming(h) /\ LaunchIntentsTypeOK /\ InOnePlace
      /\ UNCHANGED <<bridge, pendingCli, answer, cliDefault, landed, place>>
  BY DEF DeliverEvent, LaunchInv, LaunchIntentsTypeOK
<1>2. /\ h \in Launches /\ h = cliEvents[1] /\ 1 \in DOMAIN cliEvents
      /\ cliEvents' \in Seq(Launches)
      /\ \A i \in DOMAIN cliEvents' : /\ i + 1 \in DOMAIN cliEvents /\ i + 1 # 1 /\ i \in Nat
                                      /\ cliEvents'[i] = cliEvents[i + 1]
  <2>1. /\ Head(cliEvents) \in Launches /\ Tail(cliEvents) \in Seq(Launches)
        /\ Len(Tail(cliEvents)) = Len(cliEvents) - 1
        /\ \A i \in 1..Len(Tail(cliEvents)) : Tail(cliEvents)[i] = cliEvents[i + 1]
        /\ Head(cliEvents) = cliEvents[1]
    BY <1>1, HeadTailProperties
  <2>2. /\ DOMAIN Tail(cliEvents) = 1..Len(Tail(cliEvents)) /\ Len(cliEvents) \in Nat \ {0}
        /\ DOMAIN cliEvents = 1..Len(cliEvents)
    BY <1>1, <2>1, LenProperties, EmptySeq
  <2> QED
    BY <1>1, <2>1, <2>2
<1>3. PICK l \in Launches : l = h
  BY <1>2
<1>4. Is(l, "sent") /\ Incoming(l)
  BY <1>1, <1>2, <1>3 DEF InOnePlace, InQueue
<1>5. PICK label \in {"asked", "stashed", "refresh", "prompted"}, w \in Windows, n \in {0, 1} :
        /\ HandledAs(l, label, w, n) /\ (label \in {"asked", "stashed"} => n = 0)
        /\ cliChoice' = IF label = "asked" THEN l ELSE cliChoice
  BY <1>4, IncomingAs
<1>6. /\ \A i \in DOMAIN cliEvents' : cliEvents'[i] # l /\ Is(cliEvents'[i], "sent")
      /\ \A i, j \in DOMAIN cliEvents' : cliEvents'[i] = cliEvents'[j] => i = j
  BY <1>1, <1>2, <1>3 DEF InOnePlace, InQueue
<1>7. bridge = "on" /\ answer = NoLaunch
  BY <1>1 DEF InOnePlace
<1>8. /\ {pendingCli', answer', cliChoice'} \subseteq Launches \cup {NoLaunch}
      /\ bridge' \in {"off", "drained", "subscribing", "on"} /\ cliDefault' \in Routes \cup {"ask"}
      /\ UNCHANGED <<landed, switching, shown, told>> /\ activeEnv' \in [Windows -> Environments]
  BY <1>1, <1>5 DEF LaunchIntentsTypeOK, place
<1>9. cliChoice' # NoLaunch => \/ cliChoice' = l /\ label = "asked"
                               \/ cliChoice' # l /\ Is(cliChoice', "asked")
  BY <1>1, <1>4, <1>5 DEF InOnePlace, Is
<1>10. InOnePlace'
  <2>1. label \in Labels
    BY DEF Labels
  <2>2. bridge' = "on" /\ answer' = NoLaunch
    BY <1>1, <1>7
  <2> QED
    BY <1>2, <1>5, <1>6, <1>8, <1>9, <2>1, <2>2, LeavesPlace
<1>11. intent[l].pc \in {"sent", "asked", "stashed"} /\ (label = "asked" => cliChoice' = l)
  BY <1>4, <1>5 DEF Is
<1> QED
  BY <1>2, <1>5, <1>8, <1>10, <1>11, HandledInv

LEMMA DrainedInv == ASSUME LaunchInv, Drained PROVE LaunchInv'
<1>1. /\ bridge = "drained" /\ bridge' = "subscribing" /\ answer' = NoLaunch
      /\ LaunchIntentsTypeOK /\ InOnePlace /\ cliEvents = <<>>
      /\ UNCHANGED <<pendingCli, cliEvents, cliDefault, landed, place>>
      /\ DOMAIN cliEvents = {} /\ answer \in Launches \cup {NoLaunch}
  BY DEF Drained, LaunchInv, LaunchIntentsTypeOK, InOnePlace
<1>2. /\ {pendingCli', answer'} \subseteq Launches \cup {NoLaunch}
      /\ cliDefault' \in Routes \cup {"ask"} /\ cliEvents' \in Seq(Launches)
      /\ UNCHANGED <<landed, switching, shown, told>> /\ activeEnv' \in [Windows -> Environments]
  BY <1>1 DEF LaunchIntentsTypeOK, place
<1>3. CASE answer = NoLaunch
  <2>1. UNCHANGED <<cliChoice, driverPrompt, intent, applied>>
    BY <1>3 DEF Drained
  <2>2. LaunchIntentsTypeOK'
    BY <1>1, <1>2, <2>1 DEF LaunchIntentsTypeOK
  <2>3. InOnePlace'
    BY <1>1, <2>1 DEF InOnePlace, InQueue, Is
  <2>4. /\ Counted' /\ SwitchAwaited'
        /\ "together" \notin Crossings => OneLaunchAtATime'
        /\ {"boot", "together"} \cap Crossings = {} => LaunchNotLost'
        /\ {"together", "switch"} \cap Crossings = {} => AllBoundForHome'
    BY <1>1, <1>2, <1>3, <2>1, NumbersAndLabels
       DEF LaunchInv, Counted, SwitchAwaited, OneLaunchAtATime, LaunchNotLost, AllBoundForHome,
           SwitchAlone, BoundForHome, BelongsAt, Homes, Unfinished, Is, place
  <2> QED
    BY <2>2, <2>3, <2>4 DEF LaunchInv
<1>4. CASE answer # NoLaunch
  <2>1. PICK l \in Launches : l = answer
    BY <1>1, <1>4
  <2>2. Is(l, "sent") /\ Incoming(l)
    BY <1>1, <1>4, <2>1 DEF InOnePlace, Drained
  <2>3. PICK label \in {"asked", "stashed", "refresh", "prompted"}, w \in Windows, n \in {0, 1} :
          /\ HandledAs(l, label, w, n) /\ (label \in {"asked", "stashed"} => n = 0)
          /\ cliChoice' = IF label = "asked" THEN l ELSE cliChoice
    BY <2>2, IncomingAs
  <2>4. cliChoice' \in Launches \cup {NoLaunch}
    BY <1>1, <2>3 DEF LaunchIntentsTypeOK
  <2>5. cliChoice' # NoLaunch => \/ cliChoice' = l /\ label = "asked"
                                 \/ cliChoice' # l /\ Is(cliChoice', "asked")
    BY <1>1, <2>2, <2>3 DEF InOnePlace, Is
  <2>6. InOnePlace'
    <3>1. label \in Labels /\ DOMAIN cliEvents' = {} /\ cliEvents' = <<>>
      BY <1>1 DEF Labels
    <3> QED
      BY <1>1, <1>2, <2>3, <2>4, <2>5, <3>1, LeavesPlace
  <2>7. intent[l].pc \in {"sent", "asked", "stashed"} /\ (label = "asked" => cliChoice' = l)
    BY <2>2, <2>3 DEF Is
  <2> QED
    BY <1>1, <1>2, <2>3, <2>4, <2>6, <2>7, HandledInv
<1> QED
  BY <1>3, <1>4

\* The user answers where the launch should open, or that it should not.
LEMMA ChoiceInv ==
  ASSUME LaunchInv,
         (\E how \in Routes, again \in BOOLEAN : ChooseWindow(how, again)) \/ CancelChoice
  PROVE  LaunchInv'
<1>1. /\ LaunchIntentsTypeOK /\ InOnePlace /\ cliChoice \in Launches /\ Is(cliChoice, "asked")
      /\ cliChoice' = NoLaunch /\ cliDefault' \in Routes \cup {"ask"}
      /\ UNCHANGED <<mainBridge, landed, place>>
  BY DEF ChooseWindow, CancelChoice, LaunchInv, LaunchIntentsTypeOK, InOnePlace
<1>2. PICK l \in Launches : l = cliChoice
  BY <1>1
<1>3. applied[l] = 0 /\ intent[l].pc = "asked" /\ intent[l].window \in Windows
  BY <1>1, <1>2 DEF LaunchInv, Counted, Is, LaunchIntentsTypeOK, Intents
<1>4. PICK label \in {"stashed", "refresh", "prompted", "over"}, w \in Windows, n \in {0, 1} :
        HandledAs(l, label, w, n) /\ (label \in {"asked", "stashed"} => n = 0)
  <2>1. CASE \E how \in Routes, again \in BOOLEAN : ChooseWindow(how, again)
    <3>1. PICK how \in Routes : Route(l, how)
      BY <1>2, <2>1 DEF ChooseWindow
    <3> QED
      BY <1>3, <3>1, RoutesAs, NumbersAndLabels
  <2>2. CASE CancelChoice
    <3>1. "over" \in Labels /\ Go(l, "over") /\ UNCHANGED <<driverPrompt, applied>>
      BY <1>2, <2>2 DEF CancelChoice, Labels
    <3>2. intent' = [intent EXCEPT ![l] = Moved(l, "over", intent[l].window)]
      BY <1>1, <3>1, GoMoves
    <3>3. HandledAs(l, "over", intent[l].window, 0)
      BY <1>1, <1>3, <3>1, <3>2 DEF HandledAs, LaunchIntentsTypeOK
    <3> QED
      BY <1>3, <3>3
  <2> QED
    BY <2>1, <2>2
<1>5. /\ {pendingCli', answer', cliChoice'} \subseteq Launches \cup {NoLaunch}
      /\ bridge' \in {"off", "drained", "subscribing", "on"} /\ cliEvents' \in Seq(Launches)
      /\ UNCHANGED <<landed, switching, shown, told>> /\ activeEnv' \in [Windows -> Environments]
  BY <1>1 DEF LaunchIntentsTypeOK, mainBridge, place
<1>6. InOnePlace'
  <2>1. label \in Labels
    BY DEF Labels
  <2>2. /\ \A i \in DOMAIN cliEvents' : cliEvents'[i] # l /\ Is(cliEvents'[i], "sent")
        /\ \A i, j \in DOMAIN cliEvents' : cliEvents'[i] = cliEvents'[j] => i = j
        /\ bridge' # "on" => cliEvents' = <<>>
    BY <1>1, <1>3 DEF InOnePlace, InQueue, Is, mainBridge
  <2>3. /\ answer' # NoLaunch => answer' # l /\ bridge' = "drained" /\ Is(answer', "sent")
        /\ bridge' = "off" /\ pendingCli' # NoLaunch => pendingCli' # l /\ Is(pendingCli', "sent")
    BY <1>1, <1>3 DEF InOnePlace, Is, mainBridge
  <2> QED
    BY <1>1, <1>4, <1>5, <2>1, <2>2, <2>3, LeavesPlace
<1>7. label # "asked" /\ intent[l].pc \in {"sent", "asked", "stashed"}
  BY <1>3
<1> QED
  BY <1>1, <1>4, <1>5, <1>6, <1>7, HandledInv

\* A window of its own takes the launch over.
LEMMA WindowBootsInv ==
  ASSUME LaunchInv, NEW l \in Launches, WindowBoots(l)
  PROVE  LaunchInv'
<1>1. /\ LaunchIntentsTypeOK /\ Is(l, "stashed") /\ applied[l] = 0 /\ l \in Windows
      /\ activeEnv' = [activeEnv EXCEPT ![l] = activeEnv[Main]] /\ ApplyIntent(l, l)
      /\ UNCHANGED <<mainBridge, cliChoice, cliDefault, landed, switching, shown, told>>
  BY NumbersAndLabels DEF WindowBoots, LaunchInv, Counted, Is
<1>2. PICK label \in {"refresh", "prompted"} : HandledAs(l, label, l, 1)
  BY <1>1, AppliesAs
<1>3. label \in Labels /\ label \in {"asked", "stashed", "refresh", "prompted", "over"}
  BY DEF Labels
<1>4. InOnePlace'
  <2>1. Moved(l, label, l) \in Intents
    BY <1>1, <1>3, MovedType
  <2> QED
    BY <1>1, <1>2, <2>1, StaysInPlace DEF HandledAs, Is
<1>5. /\ {pendingCli', answer', cliChoice'} \subseteq Launches \cup {NoLaunch}
      /\ bridge' \in {"off", "drained", "subscribing", "on"} /\ cliEvents' \in Seq(Launches)
      /\ cliDefault' \in Routes \cup {"ask"} /\ activeEnv' \in [Windows -> Environments]
  BY <1>1, NumbersAndLabels DEF LaunchIntentsTypeOK, mainBridge
<1>6. intent[l].pc \in {"sent", "asked", "stashed"} /\ label \notin {"asked", "stashed"}
  BY <1>1 DEF Is
<1> QED
  BY <1>1, <1>2, <1>3, <1>4, <1>5, <1>6, HandledInv

-----------------------------------------------------------------------------
(* A launch reaches the main window.                                       *)

\* An orderly launch finds the buffer free or the main window listening, and nothing else
\* under way.
LEMMA SecondInstanceInv ==
  ASSUME LaunchInv, NEW l \in Launches, SecondInstance(l)
  PROVE  LaunchInv'
<1> USE DEF LaunchInv
<1>1. PICK c \in Connections \cup {AdHoc} :
        intent' = [intent EXCEPT ![l] = [pc |-> "sent", target |-> c, window |-> Main]]
  BY DEF SecondInstance
<1> DEFINE r == [pc |-> "sent", target |-> c, window |-> Main]
<1>2. r \in Intents /\ r.pc = "sent"
  BY NumbersAndLabels DEF Intents
<1>3. intent' = [intent EXCEPT ![l] = r]
  BY <1>1
<1> HIDE DEF r
<1>4. /\ intent' \in [Launches -> Intents] /\ intent'[l] = r
      /\ \A k \in Launches \ {l} : intent'[k] = intent[k]
  BY <1>2, <1>3 DEF LaunchIntentsTypeOK
<1>5. /\ Is(l, "none") /\ pendingCli' = l /\ cliEvents \in Seq(Launches)
      /\ cliEvents' = (IF bridge = "on" THEN Append(cliEvents, l) ELSE cliEvents)
      /\ UNCHANGED <<bridge, answer, dialogs, applied, landed, place>>
  BY DEF SecondInstance, LaunchIntentsTypeOK
<1>6. /\ "boot" \in Crossings \/ bridge \in {"on", "off"}
      /\ "together" \notin Crossings => \A k \in Launches : ~Unfinished(k)
      /\ "switch" \notin Crossings => switching = NotSwitching
  BY DEF SecondInstance, Orderly
<1> DEFINE more == Append(cliEvents, l)
<1>7. /\ more \in Seq(Launches) /\ Len(more) = Len(cliEvents) + 1
      /\ \A i \in 1..Len(cliEvents) : more[i] = cliEvents[i]
      /\ more[Len(cliEvents) + 1] = l
      /\ DOMAIN more = 1..Len(cliEvents) + 1 /\ DOMAIN cliEvents = 1..Len(cliEvents)
      /\ Len(cliEvents) \in Nat
  BY <1>5, AppendProperties, LenProperties
<1> HIDE DEF more
<1>8. cliEvents' = IF bridge = "on" THEN more ELSE cliEvents
  BY <1>5 DEF more
<1>9. LaunchIntentsTypeOK'
  BY <1>4, <1>5, <1>7, <1>8 DEF LaunchIntentsTypeOK, dialogs, place
<1>10. Counted'
  BY <1>2, <1>4, <1>5 DEF Counted, Is
<1>11. InOnePlace'
  <2>1. \A i \in DOMAIN cliEvents : /\ cliEvents[i] \in Launches /\ Is(cliEvents[i], "sent")
                                    /\ cliEvents[i] # l /\ intent'[cliEvents[i]].pc = "sent"
    <3>1. \A i \in DOMAIN cliEvents : cliEvents[i] \in Launches
      BY <1>5, <1>7, ElementOfSeq
    <3> QED
      BY <1>4, <1>5, <3>1 DEF InOnePlace, InQueue, Is
  <2>2. \A i, j \in DOMAIN cliEvents : cliEvents[i] = cliEvents[j] => i = j
    BY DEF InOnePlace, InQueue
  <2>3. \A i \in DOMAIN more : intent'[more[i]].pc = "sent"
    <3>1. intent'[l].pc = "sent"
      BY <1>2, <1>4
    <3>2. \A i \in DOMAIN more : i \in DOMAIN cliEvents \/ i = Len(cliEvents) + 1
      BY <1>7
    <3> QED
      BY <1>7, <2>1, <3>1, <3>2
  <2>4. \A i, j \in DOMAIN more : more[i] = more[j] => i = j
    BY <1>7, <2>1, <2>2
  <2>5. InQueue'
    BY <1>8, <2>1, <2>2, <2>3, <2>4 DEF InQueue, Is
  <2>6. bridge' # "on" => cliEvents' = <<>>
    BY <1>5, <1>8 DEF InOnePlace
  <2>7. answer' # NoLaunch => bridge' = "drained" /\ intent'[answer'].pc = "sent"
    BY <1>2, <1>4, <1>5 DEF InOnePlace, Is, LaunchIntentsTypeOK
  <2>8. pendingCli' # NoLaunch => intent'[pendingCli'].pc = "sent"
    BY <1>2, <1>4, <1>5 DEF Is
  <2>9. cliChoice' # NoLaunch => intent'[cliChoice'].pc = "asked"
    BY <1>4, <1>5 DEF InOnePlace, Is, LaunchIntentsTypeOK, dialogs
  <2> QED
    BY <2>5, <2>6, <2>7, <2>8, <2>9 DEF InOnePlace, Is
<1>12. SwitchAwaited'
  BY <1>4, <1>5 DEF SwitchAwaited, Is, LaunchIntentsTypeOK, place
<1>13. "together" \notin Crossings => OneLaunchAtATime'
  BY <1>4, <1>6 DEF OneLaunchAtATime, Unfinished, Is
<1>14. ASSUME {"boot", "together"} \cap Crossings = {} PROVE LaunchNotLost'
  <2>1. \A k \in Launches \ {l} : intent'[k].pc \in {"none", "over"}
    BY <1>4, <1>6, <1>14 DEF Unfinished, Is
  <2>2. ((pendingCli = l /\ bridge = "off") \/ \E i \in DOMAIN cliEvents : cliEvents[i] = l)'
    <3>1. CASE bridge = "on"
      BY <1>7, <1>8, <3>1
    <3>2. CASE bridge = "off"
      BY <1>5, <3>2
    <3> QED
      BY <1>6, <1>14, <3>1, <3>2
  <2> QED
    BY <1>2, <1>4, <2>1, <2>2 DEF LaunchNotLost, Is
<1>15. ASSUME {"together", "switch"} \cap Crossings = {} PROVE AllBoundForHome'
  <2>1. switching' = NotSwitching /\ told' = told /\ activeEnv' = activeEnv /\ landed' = landed
    BY <1>5, <1>6, <1>15 DEF place
  <2>2. ASSUME NEW k \in Launches PROVE BoundForHome(k)'
    <3>1. BoundForHome(k) /\ (k # l => intent'[k] = intent[k])
      BY <1>4, <1>15 DEF AllBoundForHome
    <3>2. k = l => landed[k] = NoEnv
      BY <1>5, <3>1 DEF BoundForHome, Is
    <3>3. ~Is(k, "switch")'
      BY <1>2, <1>4, <1>6, <1>15 DEF Unfinished, Is
    <3> QED
      BY <1>2, <1>4, <2>1, <3>1, <3>2, <3>3 DEF BoundForHome, BelongsAt, Homes, Is
  <2> QED
    BY <2>1, <2>2 DEF AllBoundForHome, SwitchAlone
<1> QED
  BY <1>9, <1>10, <1>11, <1>12, <1>13, <1>14, <1>15

\* The main window begins to listen.
LEMMA LaunchListensInv ==
  ASSUME LaunchInv, TakePending \/ Subscribed \/ UNCHANGED launchIntentsVars
  PROVE  LaunchInv'
<1> USE DEF LaunchInv
<1>1. UNCHANGED <<cliEvents, dialogs, intent, applied, landed, place>>
  BY DEF TakePending, Subscribed, launchIntentsVars, mainBridge
<1>2. \/ /\ bridge = "off" /\ bridge' = "drained" /\ answer' = pendingCli
         /\ pendingCli' = NoLaunch
      \/ /\ \/ bridge = "subscribing" /\ bridge' = "on"
            \/ bridge' = bridge
         /\ UNCHANGED <<pendingCli, answer>>
  BY DEF TakePending, Subscribed, launchIntentsVars, mainBridge
<1>3. LaunchIntentsTypeOK'
  BY <1>1, <1>2 DEF LaunchIntentsTypeOK, dialogs, place
<1>4. Counted' /\ SwitchAwaited' /\ ("together" \notin Crossings => OneLaunchAtATime')
  BY <1>1 DEF Counted, SwitchAwaited, OneLaunchAtATime, Unfinished, Is, place
<1>5. InOnePlace'
  BY <1>1, <1>2 DEF InOnePlace, InQueue, Is, dialogs
<1>6. {"boot", "together"} \cap Crossings = {} => LaunchNotLost'
  BY <1>1, <1>2, NumbersAndLabels DEF InOnePlace, LaunchNotLost, Is, dialogs
<1>7. {"together", "switch"} \cap Crossings = {} => AllBoundForHome'
  BY <1>1 DEF AllBoundForHome, SwitchAlone, BoundForHome, BelongsAt, Homes, Unfinished, Is, place
<1> QED
  BY <1>3, <1>4, <1>5, <1>6, <1>7

-----------------------------------------------------------------------------
(* The results.                                                            *)

LEMMA LaunchInitInv == LaunchIntentsInit => LaunchInv
<1> SUFFICES ASSUME LaunchIntentsInit PROVE LaunchInv
  OBVIOUS
<1>1. PICK e \in Environments : activeEnv = [w \in Windows |-> e]
  BY DEF LaunchIntentsInit
<1>2. Unborn \in Intents /\ Unborn.pc = "none"
  BY NumbersAndLabels DEF Unborn, Intents
<1>3. /\ intent = [l \in Launches |-> Unborn] /\ cliEvents = <<>> /\ bridge = "off"
      /\ applied = [l \in Launches |-> 0] /\ landed = [l \in Launches |-> NoEnv]
      /\ pendingCli = NoLaunch /\ answer = NoLaunch /\ cliChoice = NoLaunch
      /\ driverPrompt = NoLaunch /\ cliDefault \in Routes \cup {"ask"}
      /\ switching = NotSwitching /\ shown = [w \in Windows |-> {}] /\ told = {}
  BY DEF LaunchIntentsInit
<1>4. <<>> \in Seq(Launches) /\ DOMAIN <<>> = {}
  BY EmptySeq, LenProperties
<1>5. NotSwitching \in [to : Environments \cup {NoEnv}, by : Launches \cup {NoLaunch}]
  BY DEF NotSwitching
<1>6. LaunchIntentsTypeOK
  BY <1>1, <1>2, <1>3, <1>4, <1>5 DEF LaunchIntentsTypeOK
<1>7. Counted /\ InOnePlace /\ SwitchAwaited /\ OneLaunchAtATime /\ LaunchNotLost /\ AllBoundForHome
  BY <1>2, <1>3, <1>4, NumbersAndLabels
     DEF Counted, InOnePlace, InQueue, SwitchAwaited, OneLaunchAtATime, LaunchNotLost, AllBoundForHome,
         SwitchAlone, BoundForHome, Unfinished, Is
<1> QED
  BY <1>6, <1>7 DEF LaunchInv

LEMMA LaunchStepInv ==
  ASSUME LaunchInv, [LaunchIntentsNext]_launchIntentsVars
  PROVE  LaunchInv'
<1>1. CASE TakePending \/ Subscribed \/ UNCHANGED launchIntentsVars
  BY <1>1, LaunchListensInv
<1>2. CASE Drained \/ DeliverEvent
  BY <1>2, DrainedInv, DeliverEventInv
<1>3. CASE (\E how \in Routes, again \in BOOLEAN : ChooseWindow(how, again)) \/ CancelChoice
  BY <1>3, ChoiceInv
<1>4. ASSUME NEW l \in Launches, SecondInstance(l) \/ WindowBoots(l) \/ ProfilesRead(l)
                                 \/ ProfileFound(l)
      PROVE  LaunchInv'
  BY <1>4, SecondInstanceInv, WindowBootsInv, ProfilesReadInv, ProfileFoundInv
<1>5. ASSUME NEW l \in Launches, ConnectIntent(l) \/ Connected(l) \/ IntentFails(l)
      PROVE  LaunchInv'
  BY <1>5, ConnectInv, ProfilesReadInv
<1>6. ASSUME NEW l \in Launches, NEW picked \in BOOLEAN, AnswerDriver(l, picked)
      PROVE  LaunchInv'
  BY <1>6, AnswerDriverInv
<1>7. ASSUME NEW e \in Environments, PickEnvironment(e) PROVE LaunchInv'
  BY <1>7, PickInv
<1>8. CASE SwitchPoints \/ SwitchEnds \/ SwitchFails
  BY <1>8, SwitchPointsInv, SwitchEndsInv
<1> QED
  BY <1>1, <1>2, <1>3, <1>4, <1>5, <1>6, <1>7, <1>8 DEF LaunchIntentsNext

\* Launches, dialogs and windows keep their form, a launch waits in one place at most, and
\* where nothing crosses it is never lost and always bound for home (useCliIntents.ts).
THEOREM LaunchInvariant == LaunchIntentsSpec => []LaunchInv
<1>1. LaunchInv /\ [LaunchIntentsNext]_launchIntentsVars => LaunchInv'
  BY LaunchStepInv
<1> QED
  BY <1>1, LaunchInitInv, PTL DEF LaunchIntentsSpec

\* In particular their form, whatever crosses.
THEOREM LaunchIntentsTyped == LaunchIntentsSpec => []LaunchIntentsTypeOK
<1>1. LaunchInv => LaunchIntentsTypeOK
  BY DEF LaunchInv
<1> QED
  BY <1>1, LaunchInvariant, PTL

\* AppliedOnce: no launch is acted upon twice, although the buffer stays full after its event
\* was handled, however launches, dialogs, windows and switches cross.
THEOREM ActedUponOnce == LaunchIntentsSpec => []AppliedOnce
<1>1. LaunchInv => AppliedOnce
  BY DEF LaunchInv, Counted, AppliedOnce
<1> QED
  BY <1>1, LaunchInvariant, PTL

\* HandledOnce: a launch is acted upon once, and not lost before, where none comes while the
\* main window sets its listening up or while another one is handled.
THEOREM NoneLost ==
  ASSUME {"boot", "together"} \cap Crossings = {}
  PROVE  LaunchIntentsSpec => []HandledOnce
<1>1. LaunchInv => HandledOnce
  BY DEF LaunchInv, Counted, AppliedOnce, HandledOnce
<1> QED
  BY <1>1, LaunchInvariant, PTL

\* LandsAtHome: a connection opens in an environment it belongs to unless the user was told
\* otherwise (connectToProfile, useCliIntents.ts), where no launch comes while another one is
\* handled or an environment switched.
THEOREM HomeReached ==
  ASSUME {"together", "switch"} \cap Crossings = {}
  PROVE  LaunchIntentsSpec => []LandsAtHome
<1>1. LaunchInv => LandsAtHome
  BY DEF LaunchInv, AllBoundForHome, BoundForHome, BelongsAt, LandsAtHome
<1> QED
  BY <1>1, LaunchInvariant, PTL

(***************************************************************************)
(* Preferences: any number of windows and settings.                        *)
(***************************************************************************)

USE PreferencesAssumption DEF PreferencesAssumption

-----------------------------------------------------------------------------
(* The invariant.                                                          *)

\* No broadcast is on its way.
NothingHeard == \A w \in AllWindows : heard[w] = <<>>

\* A change is saved before the next one is made elsewhere: one snapshot waits, or is being
\* saved, or is being broadcast.
OneSnapshot ==
  /\ \A v, w \in AllWindows : Unsaved(v) /\ Unsaved(w) => v = w
  /\ (\E w \in AllWindows : Unsaved(w)) => calls = <<>> /\ NothingHeard
  /\ Len(calls) <= 1 /\ (calls # <<>> => NothingHeard)

Quiet == calls = <<>> /\ \A w \in AllWindows : ~Unsaved(w)

\* While a window opens nothing is saved.
OpensQuietly ==
  /\ (\E w \in AllWindows : ~Settled(w)) => Quiet /\ NothingHeard
  /\ \A w \in AllWindows :
       /\ ~windows[w].open => windows[w] = ClosedWindow
       /\ windows[w].read = "answered" => windows[w].reply \in Snapshots

\* What is on its way is what is wanted, and so is what has arrived once nothing is.
CarriesWanted ==
  /\ \A w \in AllWindows :
       /\ Unsaved(w) => waiting[w] = wanted /\ snapshots[w] = wanted
       /\ windows[w].read = "answered" => windows[w].reply = wanted
       /\ \A i \in DOMAIN heard[w] : heard[w][i] = wanted
  /\ \A i \in DOMAIN calls :
       /\ calls[i].prefs = wanted
       /\ calls[i].at \in {"stored", "written"} => inMemory = wanted
       /\ calls[i].at = "written" => onDisk = wanted
  /\ Quiet => inMemory = wanted /\ onDisk = wanted
  /\ \A w \in MainWindows :
       windows[w].open /\ windows[w].read = "done" =>
         snapshots[w] = wanted \/ heard[w] # <<>> \/ ~Quiet

PreferencesInv ==
  /\ PreferencesTypeOK /\ OneSnapshot /\ OpensQuietly
  /\ ~saveFailed => CarriesWanted

-----------------------------------------------------------------------------
(* Windows and saves.                                                      *)

LEMMA Defaulted == Defaults \in Snapshots /\ ClosedWindow \in WindowStates
BY DEF Defaults, Snapshots, ClosedWindow, WindowStates

LEMMA EmptyQueue ==
  ASSUME NEW S, NEW q \in Seq(S)
  PROVE  /\ Len(q) \in Nat /\ DOMAIN q = 1..Len(q) /\ (q = <<>> <=> Len(q) = 0)
         /\ (q = <<>> <=> DOMAIN q = {}) /\ \A i \in DOMAIN q : q[i] \in S
BY LenProperties, EmptySeq, ElementOfSeq

\* At most one save is under way, and nothing is left of the calls when it is over.
LEMMA OneCall ==
  ASSUME PreferencesInv
  PROVE  /\ calls \in Seq(SaveCalls) /\ \A i \in DOMAIN calls : calls[i] \in SaveCalls /\ i = 1
         /\ \A i \in DOMAIN calls : Over(i) = <<>> /\ calls # <<>>
<1>1. /\ calls \in Seq(SaveCalls) /\ Len(calls) <= 1
  BY DEF PreferencesInv, PreferencesTypeOK, OneSnapshot
<1>2. \A i \in DOMAIN calls : calls[i] \in SaveCalls /\ i = 1 /\ calls # <<>>
  BY <1>1, EmptyQueue
<1>3. ASSUME NEW i \in DOMAIN calls PROVE Over(i) = <<>>
  <2>1. Less(calls, i) \in Seq(SaveCalls) /\ Len(Less(calls, i)) = Len(calls) - 1
    BY <1>1, OthersRemain
  <2>2. Len(calls) \in Nat /\ Len(calls) # 0
    BY <1>1, <1>2, <1>3, EmptyQueue
  <2>3. Len(Less(calls, i)) = 0
    BY <1>1, <2>1, <2>2
  <2>4. Less(calls, i) = <<>>
    BY <2>1, <2>3, EmptyQueue
  <2> QED
    BY <2>4 DEF Over, Less
<1> QED
  BY <1>1, <1>2, <1>3

\* A window takes another form; nothing is on its way that was not.
LEMMA WindowMoves ==
  ASSUME PreferencesInv, NEW w \in AllWindows, NEW r \in WindowStates, NEW s \in Snapshots,
         windows' = [windows EXCEPT ![w] = r], snapshots' = [snapshots EXCEPT ![w] = s],
         ~r.open => r = ClosedWindow, r.read = "answered" => r.reply \in Snapshots,
         (r.open => r.read = "done" /\ (w \in MainWindows => r.listens))
           \/ (Quiet /\ NothingHeard),
         UNCHANGED <<waiting, calls, inMemory, onDisk, heard, changes, wanted, saveFailed>>,
         ~saveFailed =>
           /\ Unsaved(w) => s = wanted
           /\ r.read = "answered" => r.reply = wanted
           /\ r.open /\ r.read = "done" /\ w \in MainWindows =>
                s = wanted \/ heard[w] # <<>> \/ ~Quiet
  PROVE  PreferencesInv'
<1> USE DEF PreferencesInv
<1>1. /\ windows \in [AllWindows -> WindowStates] /\ snapshots \in [AllWindows -> Snapshots]
  BY DEF PreferencesTypeOK
<1>2. /\ windows' \in [AllWindows -> WindowStates] /\ snapshots' \in [AllWindows -> Snapshots]
      /\ windows'[w] = r /\ snapshots'[w] = s
      /\ \A v \in AllWindows \ {w} : windows'[v] = windows[v] /\ snapshots'[v] = snapshots[v]
  BY <1>1
<1>3. PreferencesTypeOK'
  BY <1>2 DEF PreferencesTypeOK
<1>4. OneSnapshot'
  BY DEF OneSnapshot, Unsaved, NothingHeard
<1>5. Quiet' = Quiet /\ NothingHeard' = NothingHeard
  BY DEF Quiet, NothingHeard, Unsaved
<1>6. OpensQuietly'
  BY <1>2, <1>5 DEF OpensQuietly, Settled
<1>7. ASSUME ~saveFailed PROVE CarriesWanted'
  <2>1. ASSUME NEW v \in AllWindows
        PROVE  /\ Unsaved(v)' => waiting'[v] = wanted' /\ snapshots'[v] = wanted'
               /\ windows'[v].read = "answered" => windows'[v].reply = wanted'
               /\ \A i \in DOMAIN heard'[v] : heard'[v][i] = wanted'
    BY <1>2, <1>7 DEF CarriesWanted, Unsaved
  <2>2. ASSUME NEW v \in MainWindows, windows'[v].open /\ windows'[v].read = "done"
        PROVE  snapshots'[v] = wanted' \/ heard'[v] # <<>> \/ ~Quiet
    BY <1>2, <1>7, <2>2 DEF CarriesWanted, AllWindows
  <2> QED
    BY <1>5, <1>7, <2>1, <2>2 DEF CarriesWanted
<1> QED
  BY <1>3, <1>4, <1>6, <1>7

-----------------------------------------------------------------------------
(* A window opens, reads the settings, listens and closes.                 *)

\* The windows' forms.
LEMMA WindowForms ==
  ASSUME PreferencesInv, NEW w \in AllWindows
  PROVE  /\ windows[w] \in WindowStates /\ snapshots[w] \in Snapshots
         /\ windows \in [AllWindows -> WindowStates] /\ snapshots \in [AllWindows -> Snapshots]
         /\ snapshots = [snapshots EXCEPT ![w] = snapshots[w]]
         /\ windows[w].read # "no" => windows[w].open
         /\ inMemory \in Snapshots
BY DEF PreferencesInv, PreferencesTypeOK, OpensQuietly, ClosedWindow

LEMMA OpenWindowInv ==
  ASSUME PreferencesInv, "boot" \notin Coincidences, NEW w \in AllWindows, OpenWindow(w)
  PROVE  PreferencesInv'
<1>1. /\ ~windows[w].open /\ \A v \in AllWindows : ~Saving(v)
      /\ windows' = [windows EXCEPT ![w].open = TRUE]
      /\ snapshots' = [snapshots EXCEPT ![w] = Defaults]
      /\ UNCHANGED <<waiting, calls, inMemory, onDisk, heard, changes, wanted, saveFailed>>
  BY DEF OpenWindow
<1> DEFINE r == [windows[w] EXCEPT !.open = TRUE]
<1>2. r \in WindowStates /\ r.open /\ r.read = windows[w].read
  BY WindowForms DEF WindowStates
<1>3. windows' = [windows EXCEPT ![w] = r]
  BY <1>1, WindowForms
<1>4. r.read = "no"
  BY <1>1, <1>2 DEF PreferencesInv, OpensQuietly, ClosedWindow
<1> HIDE DEF r
<1>5. calls = <<>>
  <2>1. \A i \in DOMAIN calls : calls[i].from \in AllWindows
    BY OneCall DEF SaveCalls
  <2>2. DOMAIN calls = {}
    BY <1>1, <2>1 DEF Saving
  <2> QED
    BY <2>2, OneCall, EmptyQueue
<1>6. Quiet /\ NothingHeard /\ ~Unsaved(w)
  BY <1>1, <1>5 DEF Quiet, NothingHeard, Saving
<1>7. /\ ~r.open => r = ClosedWindow
      /\ r.read = "answered" => r.reply \in Snapshots
      /\ (r.open => r.read = "done" /\ (w \in MainWindows => r.listens)) \/ (Quiet /\ NothingHeard)
  BY <1>2, <1>4, <1>6
<1>8. ~saveFailed =>
        /\ Unsaved(w) => Defaults = wanted
        /\ r.read = "answered" => r.reply = wanted
        /\ r.open /\ r.read = "done" /\ w \in MainWindows =>
             Defaults = wanted \/ heard[w] # <<>> \/ ~Quiet
  BY <1>4, <1>6
<1>9. /\ Defaults \in Snapshots /\ snapshots' = [snapshots EXCEPT ![w] = Defaults]
      /\ UNCHANGED <<waiting, calls, inMemory, onDisk, heard, changes, wanted, saveFailed>>
  BY <1>1, Defaulted
<1> QED
  BY <1>2, <1>3, <1>7, <1>8, <1>9, WindowMoves

LEMMA ReadAnsweredInv ==
  ASSUME PreferencesInv, NEW w \in AllWindows, ReadAnswered(w)
  PROVE  PreferencesInv'
<1>1. /\ windows[w].open /\ windows[w].read = "no"
      /\ windows' = [windows EXCEPT ![w].read = "answered", ![w].reply = inMemory]
      /\ UNCHANGED <<snapshots, waiting, calls, inMemory, onDisk, heard, changes, wanted,
                     saveFailed>>
  BY DEF ReadAnswered
<1> DEFINE r == [windows[w] EXCEPT !.read = "answered", !.reply = inMemory]
<1>2. /\ r \in WindowStates /\ r.open /\ r.read = "answered" /\ r.reply = inMemory
      /\ inMemory \in Snapshots
  BY <1>1, WindowForms DEF WindowStates
<1>3. windows' = [windows EXCEPT ![w] = r]
  BY <1>1, WindowForms
<1> HIDE DEF r
<1>4. Quiet /\ NothingHeard
  BY <1>1 DEF PreferencesInv, OpensQuietly, Settled
<1>5. ~saveFailed => r.reply = wanted
  BY <1>2, <1>4 DEF PreferencesInv, CarriesWanted
<1>6. snapshots' = [snapshots EXCEPT ![w] = snapshots[w]] /\ snapshots[w] \in Snapshots
  BY <1>1, WindowForms
<1>7. ~Unsaved(w)
  BY <1>4 DEF Quiet
<1>8. /\ ~r.open => r = ClosedWindow
      /\ r.read = "answered" => r.reply \in Snapshots
  BY <1>2
<1>9. ~saveFailed =>
        /\ Unsaved(w) => snapshots[w] = wanted
        /\ r.read = "answered" => r.reply = wanted
        /\ r.open /\ r.read = "done" /\ w \in MainWindows =>
             snapshots[w] = wanted \/ heard[w] # <<>> \/ ~Quiet
  BY <1>2, <1>5, <1>7
<1>10. /\ UNCHANGED <<waiting, calls, inMemory, onDisk, heard, changes, wanted, saveFailed>>
       /\ (r.open => r.read = "done" /\ (w \in MainWindows => r.listens)) \/ (Quiet /\ NothingHeard)
  BY <1>1, <1>4
<1> QED
  BY <1>2, <1>3, <1>6, <1>8, <1>9, <1>10, WindowMoves

LEMMA HydratedInv ==
  ASSUME PreferencesInv, NEW w \in AllWindows, Hydrated(w)
  PROVE  PreferencesInv'
<1>1. /\ windows[w].read = "answered"
      /\ windows' = [windows EXCEPT ![w].read = "done", ![w].reply = NoSave]
      /\ snapshots' = [snapshots EXCEPT ![w] = windows[w].reply]
      /\ UNCHANGED <<waiting, calls, inMemory, onDisk, heard, changes, wanted, saveFailed>>
  BY DEF Hydrated
<1> DEFINE r == [windows[w] EXCEPT !.read = "done", !.reply = NoSave]
<1>2. r \in WindowStates /\ r.open /\ r.read = "done"
  BY <1>1, WindowForms DEF WindowStates
<1>3. windows' = [windows EXCEPT ![w] = r]
  BY <1>1, WindowForms
<1> HIDE DEF r
<1>4. Quiet /\ NothingHeard /\ windows[w].reply \in Snapshots
  BY <1>1, WindowForms DEF PreferencesInv, OpensQuietly, Settled
<1>5. ~saveFailed => windows[w].reply = wanted
  BY <1>1 DEF PreferencesInv, CarriesWanted
<1> QED
  BY <1>1, <1>2, <1>3, <1>4, <1>5, WindowMoves

LEMMA ListensInv ==
  ASSUME PreferencesInv, NEW w \in AllWindows, Listens(w)
  PROVE  PreferencesInv'
<1>1. /\ windows[w].open /\ w \in MainWindows /\ ~windows[w].listens
      /\ windows' = [windows EXCEPT ![w].listens = TRUE]
      /\ UNCHANGED <<snapshots, waiting, calls, inMemory, onDisk, heard, changes, wanted,
                     saveFailed>>
  BY DEF Listens
<1> DEFINE r == [windows[w] EXCEPT !.listens = TRUE]
<1>2. /\ r \in WindowStates /\ r.open /\ r.read = windows[w].read /\ r.reply = windows[w].reply
  BY <1>1, WindowForms DEF WindowStates
<1>3. windows' = [windows EXCEPT ![w] = r]
  BY <1>1, WindowForms
<1> HIDE DEF r
<1>4. /\ Quiet /\ NothingHeard
      /\ windows[w].read = "answered" => windows[w].reply \in Snapshots
  BY <1>1 DEF PreferencesInv, OpensQuietly, Settled
<1>5. snapshots' = [snapshots EXCEPT ![w] = snapshots[w]] /\ snapshots[w] \in Snapshots
  BY <1>1, WindowForms
<1>6. ~Unsaved(w)
  BY <1>4 DEF Quiet
<1>7. ~saveFailed =>
        /\ r.read = "answered" => r.reply = wanted
        /\ r.open /\ r.read = "done" /\ w \in MainWindows =>
             snapshots[w] = wanted \/ heard[w] # <<>> \/ ~Quiet
  BY <1>1, <1>2 DEF PreferencesInv, CarriesWanted
<1> QED
  BY <1>1, <1>2, <1>3, <1>4, <1>5, <1>6, <1>7, WindowMoves

\* A window that has nothing to save closes, and what it would have heard is gone with it.
LEMMA CloseWindowInv ==
  ASSUME PreferencesInv, "closing" \notin Coincidences, NEW w \in AllWindows, CloseWindow(w)
  PROVE  PreferencesInv'
<1> USE DEF PreferencesInv
<1>1. /\ ~Unsaved(w) /\ windows' = [windows EXCEPT ![w] = ClosedWindow]
      /\ waiting' = [waiting EXCEPT ![w] = NoSave] /\ heard' = [heard EXCEPT ![w] = <<>>]
      /\ UNCHANGED <<snapshots, calls, inMemory, onDisk, changes, wanted, saveFailed>>
  BY DEF CloseWindow
<1>2. /\ waiting \in [AllWindows -> Snapshots \cup {NoSave}] /\ waiting' = waiting
      /\ windows \in [AllWindows -> WindowStates] /\ heard \in [AllWindows -> Seq(Snapshots)]
  BY <1>1 DEF PreferencesTypeOK, Unsaved
<1>3. /\ windows'[w] = ClosedWindow /\ heard'[w] = <<>>
      /\ \A v \in AllWindows \ {w} : windows'[v] = windows[v] /\ heard'[v] = heard[v]
      /\ windows' \in [AllWindows -> WindowStates] /\ heard' \in [AllWindows -> Seq(Snapshots)]
  BY <1>1, <1>2, Defaulted, EmptySeq
<1>4. PreferencesTypeOK'
  BY <1>1, <1>2, <1>3 DEF PreferencesTypeOK
<1>5. NothingHeard => NothingHeard'
  BY <1>3 DEF NothingHeard
<1>6. OneSnapshot'
  BY <1>1, <1>2, <1>5 DEF OneSnapshot, Unsaved
<1>7. Quiet' = Quiet
  BY <1>1, <1>2 DEF Quiet, Unsaved
<1>8. OpensQuietly'
  <2>1. \A v \in AllWindows : ~Settled(v)' => ~Settled(v)
    BY <1>3 DEF Settled, ClosedWindow
  <2>2. ASSUME NEW v \in AllWindows
        PROVE  /\ ~windows'[v].open => windows'[v] = ClosedWindow
               /\ windows'[v].read = "answered" => windows'[v].reply \in Snapshots
    BY <1>3 DEF OpensQuietly, ClosedWindow
  <2> QED
    BY <1>5, <1>7, <2>1, <2>2 DEF OpensQuietly
<1>9. ASSUME ~saveFailed PROVE CarriesWanted'
  <2>1. ASSUME NEW v \in AllWindows
        PROVE  /\ Unsaved(v)' => waiting'[v] = wanted' /\ snapshots'[v] = wanted'
               /\ windows'[v].read = "answered" => windows'[v].reply = wanted'
               /\ \A i \in DOMAIN heard'[v] : heard'[v][i] = wanted'
    BY <1>1, <1>2, <1>3, <1>9 DEF CarriesWanted, Unsaved, ClosedWindow
  <2>2. ASSUME NEW v \in MainWindows, windows'[v].open /\ windows'[v].read = "done"
        PROVE  snapshots'[v] = wanted' \/ heard'[v] # <<>> \/ ~Quiet
    BY <1>1, <1>3, <1>9, <2>2 DEF CarriesWanted, AllWindows, ClosedWindow
  <2> QED
    BY <1>1, <1>7, <1>9, <2>1, <2>2 DEF CarriesWanted
<1> QED
  BY <1>1, <1>4, <1>6, <1>8, <1>9

-----------------------------------------------------------------------------
(* A setting changes and is saved.                                         *)

LEMMA PatchedType ==
  ASSUME NEW prefs \in Snapshots, NEW S, NEW v \in 0..MaxChanges
  PROVE  Patched(prefs, S, v) \in Snapshots
BY DEF Patched, Snapshots

\* A setting changes where the settings are the ones wanted, and nothing else is on its way.
LEMMA ChangeSettingInv ==
  ASSUME PreferencesInv, Coincidences \subseteq {"slow"}, NEW w \in AllWindows, NEW S,
         NEW v \in {0, changes + 1}, ChangeSetting(w, S, v)
  PROVE  PreferencesInv'
<1> USE DEF PreferencesInv
<1>1. /\ windows[w].open /\ changes < MaxChanges /\ changes' = changes + 1
      /\ snapshots' = [snapshots EXCEPT ![w] = Patched(@, S, v)]
      /\ waiting' = [waiting EXCEPT ![w] = snapshots'[w]]
      /\ wanted' = Patched(wanted, S, v)
      /\ UNCHANGED <<windows, calls, inMemory, onDisk, heard, saveFailed>>
  BY DEF ChangeSetting
<1>2. /\ \A u \in AllWindows : Settled(u)
      /\ \A u \in AllWindows \ {w} : ~Saving(u)
      /\ heard[w] = <<>> /\ \A i \in DOMAIN calls : calls[i].from # w
      /\ w \in SmallWindows => snapshots[w] = inMemory
  BY DEF ChangeSetting, MayChange
<1>3. calls = <<>>
  <2>1. DOMAIN calls = {}
    BY <1>2, OneCall DEF Saving, SaveCalls
  <2> QED
    BY <2>1, OneCall, EmptyQueue
<1>4. NothingHeard /\ \A u \in AllWindows \ {w} : ~Unsaved(u)
  BY <1>2 DEF NothingHeard, Saving
<1>5. /\ changes' \in 0..MaxChanges /\ v \in 0..MaxChanges
      /\ waiting \in [AllWindows -> Snapshots \cup {NoSave}]
      /\ snapshots \in [AllWindows -> Snapshots] /\ wanted \in Snapshots
      /\ Patched(snapshots[w], S, v) \in Snapshots /\ wanted' \in Snapshots
  <2>1. /\ changes \in 0..MaxChanges /\ snapshots \in [AllWindows -> Snapshots]
        /\ wanted \in Snapshots /\ waiting \in [AllWindows -> Snapshots \cup {NoSave}]
    BY DEF PreferencesTypeOK
  <2>2. changes' \in 0..MaxChanges /\ v \in 0..MaxChanges
    BY <1>1, <2>1
  <2> QED
    BY <1>1, <2>1, <2>2, PatchedType
<1> DEFINE p == Patched(snapshots[w], S, v)
<1>6. /\ snapshots' = [snapshots EXCEPT ![w] = p] /\ waiting' = [waiting EXCEPT ![w] = p]
  BY <1>1, <1>5
<1> HIDE DEF p
<1>7. p \in Snapshots /\ p # NoSave
  BY <1>5 DEF p
<1>8. /\ snapshots'[w] = p /\ waiting'[w] = p
      /\ \A u \in AllWindows \ {w} : snapshots'[u] = snapshots[u] /\ waiting'[u] = waiting[u]
      /\ snapshots' \in [AllWindows -> Snapshots]
      /\ waiting' \in [AllWindows -> Snapshots \cup {NoSave}]
  BY <1>5, <1>6, <1>7
<1>9. PreferencesTypeOK'
  BY <1>1, <1>5, <1>8 DEF PreferencesTypeOK
<1>10. NothingHeard' /\ calls' = <<>> /\ Len(calls') <= 1
  BY <1>1, <1>3, <1>4 DEF NothingHeard, OneSnapshot
<1>11. Unsaved(w)' /\ \A u \in AllWindows \ {w} : ~Unsaved(u)'
  BY <1>4, <1>7, <1>8 DEF Unsaved
<1>12. OneSnapshot'
  BY <1>10, <1>11 DEF OneSnapshot
<1>13. OpensQuietly'
  BY <1>1, <1>2 DEF OpensQuietly, Settled
<1>14. ASSUME ~saveFailed PROVE CarriesWanted'
  <2>1. snapshots[w] = wanted
    <3>1. CASE Unsaved(w)
      BY <1>14, <3>1 DEF CarriesWanted
    <3>2. CASE ~Unsaved(w)
      <4>1. Quiet
        BY <1>3, <1>4, <3>2 DEF Quiet
      <4>2. CASE w \in MainWindows
        BY <1>1, <1>2, <1>14, <4>1, <4>2 DEF CarriesWanted, Settled
      <4>3. CASE w \in SmallWindows
        BY <1>2, <1>14, <4>1, <4>3 DEF CarriesWanted
      <4> QED
        BY <4>2, <4>3 DEF AllWindows
    <3> QED
      BY <3>1, <3>2
  <2>2. p = wanted'
    BY <1>1, <2>1 DEF p
  <2>3. ~Quiet'
    BY <1>11 DEF Quiet
  <2>4. ASSUME NEW u \in AllWindows
        PROVE  /\ Unsaved(u)' => waiting'[u] = wanted' /\ snapshots'[u] = wanted'
               /\ windows'[u].read # "answered"
               /\ \A i \in DOMAIN heard'[u] : heard'[u][i] = wanted'
    <3>1. windows'[u].read # "answered"
      BY <1>1, <1>2, WindowForms DEF Settled
    <3>2. heard'[u] = <<>> /\ DOMAIN heard'[u] = {}
      BY <1>10 DEF NothingHeard
    <3> QED
      BY <1>8, <1>11, <2>2, <3>1, <3>2
  <2>5. DOMAIN calls' = {}
    BY <1>10
  <2> QED
    BY <2>3, <2>4, <2>5 DEF CarriesWanted
<1> QED
  BY <1>1, <1>9, <1>12, <1>13, <1>14

LEMMA SavePrefsInv ==
  ASSUME PreferencesInv, NEW w \in AllWindows, SavePrefs(w)
  PROVE  PreferencesInv'
<1> USE DEF PreferencesInv
<1> DEFINE save == [from |-> w, prefs |-> waiting[w], at |-> "sent"]
<1>1. /\ Unsaved(w) /\ calls' = Append(calls, save)
      /\ waiting' = [waiting EXCEPT ![w] = NoSave]
      /\ UNCHANGED <<windows, snapshots, inMemory, onDisk, heard, changes, wanted, saveFailed>>
  BY DEF SavePrefs
<1>2. /\ waiting \in [AllWindows -> Snapshots \cup {NoSave}] /\ waiting[w] \in Snapshots
      /\ calls = <<>> /\ NothingHeard /\ \A v \in AllWindows \ {w} : ~Unsaved(v)
  BY <1>1 DEF PreferencesTypeOK, OneSnapshot, Unsaved
<1>3. save \in SaveCalls /\ save.prefs = waiting[w] /\ save.at = "sent"
  BY <1>2 DEF SaveCalls
<1> HIDE DEF save
<1>4. calls' \in Seq(SaveCalls) /\ Len(calls') = 1 /\ DOMAIN calls' = {1} /\ calls'[1] = save
  <2>1. calls' = <<save>>
    BY <1>1, <1>2
  <2> QED
    BY <1>3, <2>1
<1>5. /\ waiting' \in [AllWindows -> Snapshots \cup {NoSave}]
      /\ \A v \in AllWindows : ~Unsaved(v)'
  BY <1>1, <1>2 DEF Unsaved
<1>6. PreferencesTypeOK'
  BY <1>1, <1>4, <1>5 DEF PreferencesTypeOK
<1>7. OneSnapshot' /\ calls' # <<>> /\ NothingHeard'
  BY <1>1, <1>2, <1>4, <1>5 DEF OneSnapshot, NothingHeard
<1>8. OpensQuietly'
  BY <1>1 DEF OpensQuietly, Settled, Quiet
<1>9. ASSUME ~saveFailed PROVE CarriesWanted'
  <2>1. waiting[w] = wanted
    BY <1>1, <1>9 DEF CarriesWanted
  <2>2. ~Quiet'
    BY <1>7 DEF Quiet
  <2>3. \A i \in DOMAIN calls' : calls'[i].prefs = wanted' /\ calls'[i].at = "sent"
    BY <1>1, <1>3, <1>4, <2>1
  <2> QED
    BY <1>1, <1>5, <1>9, <2>2, <2>3 DEF CarriesWanted
<1> QED
  BY <1>1, <1>6, <1>7, <1>8, <1>9

-----------------------------------------------------------------------------
(* The app stores what it was sent, and tells the windows.                 *)

\* The call goes on, from what is wanted to what is wanted.
LEMMA CallGoesOn ==
  ASSUME PreferencesInv, NEW i \in DOMAIN calls, NEW at \in {"sent", "stored", "written"},
         calls' = [calls EXCEPT ![i].at = at], {inMemory', onDisk'} \subseteq Snapshots,
         at \in {"stored", "written"} => inMemory' = calls[i].prefs \/
                                         (inMemory' = inMemory /\ calls[i].at = "stored"),
         at = "written" => onDisk' = calls[i].prefs,
         UNCHANGED <<windows, snapshots, waiting, heard, changes, wanted, saveFailed>>
  PROVE  PreferencesInv'
<1> USE DEF PreferencesInv
<1> DEFINE c == [calls[i] EXCEPT !.at = at]
<1>1. calls \in Seq(SaveCalls) /\ calls[i] \in SaveCalls /\ calls # <<>>
  BY OneCall
<1>2. c \in SaveCalls /\ c.at = at /\ c.prefs = calls[i].prefs
  BY <1>1 DEF SaveCalls
<1>3. calls' = [calls EXCEPT ![i] = c]
  BY <1>1
<1> HIDE DEF c
<1>4. /\ calls' \in Seq(SaveCalls) /\ Len(calls') = Len(calls) /\ DOMAIN calls' = DOMAIN calls
      /\ calls'[i] = c /\ calls' # <<>>
      /\ \A j \in DOMAIN calls : j = i
  <2>1. /\ calls' \in Seq(SaveCalls) /\ Len(calls') = Len(calls)
        /\ \A j \in 1..Len(calls) : calls'[j] = IF j = i THEN c ELSE calls[j]
    <3>1. i \in 1..Len(calls)
      BY <1>1, LenProperties
    <3> HIDE LaunchIntentsAssumption, PreferencesAssumption
    <3>2. [calls EXCEPT ![i] = c] \in Seq(SaveCalls) /\ Len([calls EXCEPT ![i] = c]) = Len(calls)
      BY <1>1, <1>2, <3>1, ExceptSeq
    <3>3. \A j \in 1..Len(calls) : [calls EXCEPT ![i] = c][j] = IF j = i THEN c ELSE calls[j]
      BY <1>1, <1>2, <3>1, ExceptSeq
    <3> QED
      BY <1>3, <3>2, <3>3
  <2>2. DOMAIN calls' = DOMAIN calls /\ DOMAIN calls = 1..Len(calls)
    BY <1>1, <2>1, EmptyQueue
  <2> QED
    BY <2>1, <2>2, OneCall, EmptyQueue
<1>5. PreferencesTypeOK'
  BY <1>4 DEF PreferencesTypeOK
<1>6. NothingHeard /\ NothingHeard' /\ \A v \in AllWindows : ~Unsaved(v) /\ ~Unsaved(v)'
  BY <1>1 DEF OneSnapshot, NothingHeard, Unsaved
<1>7. OneSnapshot'
  BY <1>4, <1>6 DEF OneSnapshot
<1>8. ~Quiet /\ ~Quiet'
  BY <1>1, <1>4 DEF Quiet
<1>9. OpensQuietly'
  BY <1>8 DEF OpensQuietly, Settled
<1>10. ASSUME ~saveFailed PROVE CarriesWanted'
  <2>1. /\ calls[i].prefs = wanted /\ (calls[i].at = "stored" => inMemory = wanted)
    BY <1>10 DEF CarriesWanted
  <2>2. \A j \in DOMAIN calls' : /\ calls'[j].prefs = wanted'
                                 /\ calls'[j].at \in {"stored", "written"} => inMemory' = wanted'
                                 /\ calls'[j].at = "written" => onDisk' = wanted'
    BY <1>2, <1>4, <2>1
  <2>3. ASSUME NEW v \in AllWindows
        PROVE  /\ Unsaved(v)' => waiting'[v] = wanted' /\ snapshots'[v] = wanted'
               /\ windows'[v].read = "answered" => windows'[v].reply = wanted'
               /\ \A j \in DOMAIN heard'[v] : heard'[v][j] = wanted'
    BY <1>6, <1>10 DEF CarriesWanted
  <2> QED
    BY <1>8, <2>2, <2>3 DEF CarriesWanted
<1> QED
  BY <1>5, <1>7, <1>9, <1>10

LEMMA StoreInv ==
  ASSUME PreferencesInv, NEW i \in DOMAIN calls, Store(i)
  PROVE  PreferencesInv'
<1>1. /\ calls' = [calls EXCEPT ![i].at = "stored"] /\ inMemory' = calls[i].prefs
      /\ UNCHANGED <<windows, snapshots, waiting, onDisk, heard, changes, wanted, saveFailed>>
  BY DEF Store
<1>2. {inMemory', onDisk'} \subseteq Snapshots
  BY <1>1, OneCall DEF SaveCalls, PreferencesInv, PreferencesTypeOK
<1> QED
  BY <1>1, <1>2, CallGoesOn

\* The file is written, or the user is told that it is not.
LEMMA WritePrefsInv ==
  ASSUME PreferencesInv, NEW i \in DOMAIN calls, WritePrefs(i)
  PROVE  PreferencesInv'
<1>1. /\ calls[i].at = "stored"
      /\ UNCHANGED <<windows, snapshots, waiting, inMemory, heard, changes, wanted>>
  BY DEF WritePrefs
<1>2. CASE calls' = [calls EXCEPT ![i].at = "written"] /\ onDisk' = calls[i].prefs
           /\ UNCHANGED saveFailed
  <2>1. {inMemory', onDisk'} \subseteq Snapshots
    BY <1>1, <1>2, OneCall DEF SaveCalls, PreferencesInv, PreferencesTypeOK
  <2> QED
    BY <1>1, <1>2, <2>1, CallGoesOn
<1>3. CASE calls' = Over(i) /\ saveFailed' = TRUE /\ UNCHANGED onDisk
  <2>1. calls' = <<>> /\ Len(calls') <= 1 /\ calls' \in Seq(SaveCalls) /\ calls # <<>>
    <3>1. calls' = <<>> /\ calls # <<>>
      BY <1>3, OneCall
    <3> QED
      BY <3>1
  <2>2. PreferencesTypeOK'
    BY <1>1, <1>3, <2>1 DEF PreferencesInv, PreferencesTypeOK
  <2>3. OneSnapshot'
    BY <1>1, <2>1 DEF PreferencesInv, OneSnapshot, Unsaved, NothingHeard
  <2>4. OpensQuietly'
    BY <1>1, <2>1 DEF PreferencesInv, OpensQuietly, Settled, Quiet
  <2> QED
    BY <1>3, <2>2, <2>3, <2>4 DEF PreferencesInv
<1> QED
  BY <1>2, <1>3 DEF WritePrefs

LEMMA BroadcastInv ==
  ASSUME PreferencesInv, NEW i \in DOMAIN calls, Broadcast(i)
  PROVE  PreferencesInv'
<1> USE DEF PreferencesInv
<1> DEFINE p == calls[i].prefs
<1>1. /\ calls[i].at = "written" /\ calls' = <<>> /\ calls # <<>> /\ p \in Snapshots
      /\ UNCHANGED <<windows, snapshots, waiting, inMemory, onDisk, changes, wanted, saveFailed>>
  BY OneCall DEF Broadcast, SaveCalls
<1>2. /\ NothingHeard /\ heard \in [AllWindows -> Seq(Snapshots)]
      /\ \A v \in AllWindows : ~Unsaved(v) /\ ~Unsaved(v)'
  BY <1>1 DEF OneSnapshot, Unsaved, PreferencesTypeOK
<1> HIDE DEF p
<1>3. /\ heard' \in [AllWindows -> Seq(Snapshots)]
      /\ \A v \in AllWindows : heard'[v] = IF windows[v].listens THEN <<p>> ELSE <<>>
  <2>1. heard' = [v \in AllWindows |-> IF windows[v].listens THEN <<p>> ELSE <<>>]
    <3>0. Append(<<>>, p) = <<p>>
      OBVIOUS
    <3>1. \A v \in AllWindows : heard[v] = <<>> /\ Append(heard[v], p) = <<p>>
      BY <1>2, <3>0, Zenon DEF NothingHeard
    <3>2. heard' = [v \in AllWindows |-> IF windows[v].listens THEN Append(heard[v], p)
                                                              ELSE heard[v]]
      BY DEF Broadcast, p
    <3> QED
      BY <3>1, <3>2
  <2>2. <<p>> \in Seq(Snapshots) /\ <<>> \in Seq(Snapshots)
    BY <1>1
  <2> QED
    BY <2>1, <2>2
<1>4. PreferencesTypeOK'
  <2>1. calls' \in Seq(SaveCalls)
    BY <1>1, EmptySeq
  <2> QED
    BY <1>1, <1>3, <2>1 DEF PreferencesTypeOK
<1>5. OneSnapshot'
  <2>1. Len(calls') <= 1
    BY <1>1
  <2> QED
    BY <1>1, <1>2, <2>1 DEF OneSnapshot
<1>6. \A v \in AllWindows : Settled(v) /\ Settled(v)'
  BY <1>1 DEF OpensQuietly, Quiet, Settled
<1>7. OpensQuietly'
  BY <1>1, <1>6 DEF OpensQuietly
<1>8. ASSUME ~saveFailed PROVE CarriesWanted'
  <2>1. p = wanted /\ inMemory = wanted /\ onDisk = wanted
    BY <1>1, <1>8 DEF CarriesWanted, p
  <2>2. ASSUME NEW v \in AllWindows
        PROVE  \A j \in DOMAIN heard'[v] : heard'[v][j] = wanted
    BY <1>3, <2>1
  <2>3. ASSUME NEW v \in MainWindows, windows[v].open PROVE heard'[v] # <<>>
    <3>1. v \in AllWindows /\ windows[v].listens
      BY <1>6, <2>3 DEF Settled, AllWindows
    <3>2. heard'[v] = <<p>>
      BY <1>3, <3>1
    <3> QED
      BY <3>2
  <2>4. DOMAIN calls' = {}
    BY <1>1
  <2>5. ASSUME NEW v \in AllWindows PROVE windows[v].read = "answered" => windows[v].reply = wanted
    BY <1>8 DEF CarriesWanted
  <2> QED
    BY <1>1, <1>2, <2>1, <2>2, <2>3, <2>4, <2>5 DEF CarriesWanted
<1> QED
  BY <1>1, <1>4, <1>5, <1>7, <1>8

LEMMA ApplyExternalInv ==
  ASSUME PreferencesInv, NEW w \in AllWindows, ApplyExternal(w)
  PROVE  PreferencesInv'
<1> USE DEF PreferencesInv
<1>1. /\ heard[w] # <<>> /\ snapshots' = [snapshots EXCEPT ![w] = Head(heard[w])]
      /\ heard' = [heard EXCEPT ![w] = Tail(heard[w])]
      /\ UNCHANGED <<windows, waiting, calls, inMemory, onDisk, changes, wanted, saveFailed>>
  BY DEF ApplyExternal, PreferencesTypeOK
<1>2. /\ heard \in [AllWindows -> Seq(Snapshots)] /\ heard[w] \in Seq(Snapshots)
      /\ snapshots \in [AllWindows -> Snapshots]
  BY DEF PreferencesTypeOK
<1>3. /\ Head(heard[w]) \in Snapshots /\ Tail(heard[w]) \in Seq(Snapshots)
      /\ Head(heard[w]) = heard[w][1] /\ 1 \in DOMAIN heard[w]
      /\ \A i \in DOMAIN Tail(heard[w]) : i + 1 \in DOMAIN heard[w]
                                          /\ Tail(heard[w])[i] = heard[w][i + 1]
  <2>1. /\ Head(heard[w]) \in Snapshots /\ Tail(heard[w]) \in Seq(Snapshots)
        /\ Len(Tail(heard[w])) = Len(heard[w]) - 1
        /\ \A i \in 1..Len(Tail(heard[w])) : Tail(heard[w])[i] = heard[w][i + 1]
        /\ Head(heard[w]) = heard[w][1]
    BY <1>1, <1>2, HeadTailProperties
  <2>2. /\ DOMAIN Tail(heard[w]) = 1..Len(Tail(heard[w])) /\ DOMAIN heard[w] = 1..Len(heard[w])
        /\ Len(heard[w]) \in Nat /\ Len(heard[w]) # 0
    BY <1>1, <1>2, <2>1, EmptyQueue
  <2> QED
    BY <2>1, <2>2
<1>4. /\ snapshots' \in [AllWindows -> Snapshots] /\ heard' \in [AllWindows -> Seq(Snapshots)]
      /\ snapshots'[w] = Head(heard[w]) /\ heard'[w] = Tail(heard[w])
      /\ \A v \in AllWindows \ {w} : snapshots'[v] = snapshots[v] /\ heard'[v] = heard[v]
  BY <1>1, <1>2, <1>3
<1>5. PreferencesTypeOK'
  BY <1>1, <1>4 DEF PreferencesTypeOK
<1>6. ~NothingHeard /\ calls = <<>> /\ Quiet /\ Quiet'
  BY <1>1 DEF OneSnapshot, NothingHeard, Quiet, Unsaved
<1>7. OneSnapshot'
  BY <1>1, <1>6 DEF OneSnapshot, Quiet
<1>8. OpensQuietly'
  BY <1>1, <1>6 DEF OpensQuietly, Settled
<1>9. ASSUME ~saveFailed PROVE CarriesWanted'
  <2>1. \A i \in DOMAIN heard[w] : heard[w][i] = wanted
    BY <1>9 DEF CarriesWanted
  <2>2. snapshots'[w] = wanted /\ \A i \in DOMAIN heard'[w] : heard'[w][i] = wanted
    BY <1>3, <1>4, <2>1
  <2>3. ASSUME NEW v \in AllWindows
        PROVE  /\ Unsaved(v)' => waiting'[v] = wanted' /\ snapshots'[v] = wanted'
               /\ windows'[v].read = "answered" => windows'[v].reply = wanted'
               /\ \A i \in DOMAIN heard'[v] : heard'[v][i] = wanted'
    BY <1>1, <1>4, <1>6, <1>9, <2>2 DEF CarriesWanted, Quiet
  <2>4. ASSUME NEW v \in MainWindows, windows'[v].open /\ windows'[v].read = "done"
        PROVE  snapshots'[v] = wanted' \/ heard'[v] # <<>>
    BY <1>1, <1>4, <1>6, <1>9, <2>2, <2>4 DEF CarriesWanted, AllWindows
  <2>5. DOMAIN calls' = {}
    BY <1>1, <1>6
  <2> QED
    BY <1>1, <1>6, <1>9, <2>3, <2>4, <2>5 DEF CarriesWanted
<1> QED
  BY <1>1, <1>5, <1>7, <1>8, <1>9

-----------------------------------------------------------------------------
(* The results.                                                            *)

LEMMA PreferencesInitInv == PreferencesInit => PreferencesInv
<1> SUFFICES ASSUME PreferencesInit PROVE PreferencesInv
  OBVIOUS
<1>1. <<>> \in Seq(SaveCalls) /\ <<>> \in Seq(Snapshots) /\ Len(<<>>) = 0 /\ DOMAIN <<>> = {}
  BY EmptySeq
<1>2. PreferencesTypeOK
  <2>1. /\ windows \in [AllWindows -> WindowStates] /\ snapshots \in [AllWindows -> Snapshots]
        /\ waiting \in [AllWindows -> Snapshots \cup {NoSave}]
        /\ heard \in [AllWindows -> Seq(Snapshots)] /\ calls \in Seq(SaveCalls)
    BY <1>1, Defaulted DEF PreferencesInit
  <2>2. {inMemory, onDisk, wanted} \subseteq Snapshots /\ changes \in 0..MaxChanges
    BY Defaulted DEF PreferencesInit
  <2>3. saveFailed \in BOOLEAN
    BY Zenon DEF PreferencesInit
  <2> QED
    BY <2>1, <2>2, <2>3 DEF PreferencesTypeOK
<1>3. \A w \in AllWindows : ~Unsaved(w) /\ heard[w] = <<>> /\ windows[w] = ClosedWindow
  BY DEF PreferencesInit, Unsaved
<1>4. OneSnapshot
  BY <1>1, <1>3 DEF PreferencesInit, OneSnapshot, NothingHeard
<1>5. OpensQuietly
  <2>1. \A w \in AllWindows : ~windows[w].open /\ windows[w].read = "no"
    BY <1>3 DEF ClosedWindow
  <2> QED
    BY <1>3, <2>1 DEF OpensQuietly, Settled
<1>6. CarriesWanted
  BY <1>1, <1>3 DEF PreferencesInit, CarriesWanted, ClosedWindow, AllWindows
<1> QED
  BY <1>2, <1>4, <1>5, <1>6 DEF PreferencesInv

LEMMA PreferencesStepInv ==
  ASSUME PreferencesInv, Coincidences \subseteq {"slow"}, [PreferencesNext]_preferencesVars
  PROVE  PreferencesInv'
<1>1. "boot" \notin Coincidences /\ "closing" \notin Coincidences
  OBVIOUS
<1>2. ASSUME NEW w \in AllWindows,
             OpenWindow(w) \/ ReadAnswered(w) \/ Hydrated(w) \/ Listens(w) \/ CloseWindow(w)
      PROVE  PreferencesInv'
  BY <1>1, <1>2, OpenWindowInv, ReadAnsweredInv, HydratedInv, ListensInv, CloseWindowInv
<1>3. ASSUME NEW w \in AllWindows, NEW S \in SUBSET Settings \ {{}}, NEW v \in {0, changes + 1},
             ChangeSetting(w, S, v)
      PROVE  PreferencesInv'
  BY <1>3, ChangeSettingInv
<1>4. ASSUME NEW w \in AllWindows, SavePrefs(w) \/ ApplyExternal(w) PROVE PreferencesInv'
  BY <1>4, SavePrefsInv, ApplyExternalInv
<1>5. ASSUME NEW i \in DOMAIN calls, Store(i) \/ WritePrefs(i) \/ Broadcast(i)
      PROVE  PreferencesInv'
  BY <1>5, StoreInv, WritePrefsInv, BroadcastInv
<1>6. CASE UNCHANGED preferencesVars
  BY <1>6 DEF preferencesVars, PreferencesInv, PreferencesTypeOK, OneSnapshot, OpensQuietly,
              CarriesWanted, Quiet, NothingHeard, Unsaved, Settled
<1> QED
  BY <1>2, <1>3, <1>4, <1>5, <1>6 DEF PreferencesNext

\* Windows, snapshots and saves keep their form, and what is on its way to the app or to a
\* window is what is wanted (preferences.ts), where nothing but saves coincides.
THEOREM PreferencesInvariant ==
  ASSUME Coincidences \subseteq {"slow"}
  PROVE  PreferencesSpec => []PreferencesInv
<1>1. PreferencesInv /\ [PreferencesNext]_preferencesVars => PreferencesInv'
  BY PreferencesStepInv
<1> QED
  BY <1>1, PreferencesInitInv, PTL DEF PreferencesSpec

\* SettingsStand: once everything has settled, each setting is what the user last made it, in
\* the app, on disk and in every main window (preferences.ts, update_preferences), where
\* changes, saves and windows coincide in no way but that a save may be slow.
THEOREM SettingsKept ==
  ASSUME Coincidences \subseteq {"slow"}
  PROVE  PreferencesSpec => []SettingsStand
<1>1. ASSUME PreferencesInv PROVE SettingsStand
  <2> SUFFICES ASSUME AtRest
               PROVE  /\ inMemory = wanted /\ onDisk = wanted
                      /\ \A w \in MainWindows :
                           windows[w].open /\ Settled(w) => snapshots[w] = wanted
    BY DEF SettingsStand
  <2>1. ~saveFailed /\ \A w \in AllWindows : ~Unsaved(w) /\ heard[w] = <<>>
    BY DEF AtRest, Saving
  <2>2. calls = <<>>
    <3>1. DOMAIN calls = {}
      BY <1>1, OneCall DEF AtRest, Saving, SaveCalls
    <3> QED
      BY <1>1, <3>1, OneCall, EmptyQueue
  <2>3. Quiet /\ CarriesWanted
    BY <1>1, <2>1, <2>2 DEF Quiet, PreferencesInv
  <2> QED
    BY <2>1, <2>3 DEF CarriesWanted, Settled, AllWindows
<1> QED
  BY <1>1, PreferencesInvariant, PTL

\* A window that has been answered has an answer.
Replies == \A w \in AllWindows : windows[w].read = "answered" => windows[w].reply \in Snapshots

LEMMA ReadTypes ==
  ASSUME PreferencesTypeOK, Replies, NEW w \in AllWindows,
         OpenWindow(w) \/ ReadAnswered(w) \/ Hydrated(w) \/ Listens(w) \/ CloseWindow(w)
  PROVE  PreferencesTypeOK' /\ Replies'
<1>0. windows \in [AllWindows -> WindowStates] /\ inMemory \in Snapshots
  BY DEF PreferencesTypeOK
<1>1. PICK r : windows' = [windows EXCEPT ![w] = r]
  BY DEF OpenWindow, ReadAnswered, Hydrated, Listens, CloseWindow
<1>2. r \in WindowStates /\ (r.read = "answered" => r.reply \in Snapshots)
  <2>1. r = windows'[w] /\ windows[w] \in WindowStates
        /\ (windows[w].read = "answered" => windows[w].reply \in Snapshots)
    BY <1>0, <1>1 DEF Replies
  <2>2. CASE OpenWindow(w) \/ Listens(w)
    <3>1. r \in {[windows[w] EXCEPT !.open = TRUE], [windows[w] EXCEPT !.listens = TRUE]}
      BY <1>0, <2>1, <2>2 DEF OpenWindow, Listens
    <3> QED
      BY <2>1, <3>1 DEF WindowStates
  <2>3. CASE ReadAnswered(w)
    <3>1. r = [windows[w] EXCEPT !.read = "answered", !.reply = inMemory]
      BY <1>0, <2>1, <2>3 DEF ReadAnswered
    <3> QED
      BY <1>0, <2>1, <3>1 DEF WindowStates
  <2>4. CASE Hydrated(w)
    <3>1. r = [windows[w] EXCEPT !.read = "done", !.reply = NoSave]
      BY <1>0, <2>1, <2>4 DEF Hydrated
    <3> QED
      BY <2>1, <3>1 DEF WindowStates
  <2>5. CASE CloseWindow(w)
    <3>1. r = ClosedWindow
      BY <1>0, <2>1, <2>5 DEF CloseWindow
    <3> QED
      BY <3>1, Defaulted DEF ClosedWindow
  <2> QED
    BY <2>2, <2>3, <2>4, <2>5
<1>3. windows' \in [AllWindows -> WindowStates] /\ Replies'
  BY <1>0, <1>1, <1>2 DEF Replies
<1>4. snapshots' \in [AllWindows -> Snapshots]
  BY Defaulted
  DEF PreferencesTypeOK, Replies, OpenWindow, ReadAnswered, Hydrated, Listens, CloseWindow
<1>5. /\ waiting' \in [AllWindows -> Snapshots \cup {NoSave}]
      /\ heard' \in [AllWindows -> Seq(Snapshots)]
      /\ UNCHANGED <<calls, inMemory, onDisk, wanted, changes, saveFailed>>
  <2>1. <<>> \in Seq(Snapshots)
    BY EmptySeq
  <2>2. /\ UNCHANGED <<calls, inMemory, onDisk, wanted, changes, saveFailed>>
        /\ waiting' \in {waiting, [waiting EXCEPT ![w] = NoSave]}
        /\ heard' \in {heard, [heard EXCEPT ![w] = <<>>]}
    BY DEF OpenWindow, ReadAnswered, Hydrated, Listens, CloseWindow
  <2>3. waiting' \in [AllWindows -> Snapshots \cup {NoSave}]
    BY <2>2 DEF PreferencesTypeOK
  <2>4. heard' \in [AllWindows -> Seq(Snapshots)]
    BY <2>1, <2>2 DEF PreferencesTypeOK
  <2> QED
    BY <2>2, <2>3, <2>4
<1> QED
  BY <1>3, <1>4, <1>5 DEF PreferencesTypeOK

LEMMA SaveTypes ==
  ASSUME PreferencesTypeOK, Replies, NEW i \in DOMAIN calls,
         Store(i) \/ WritePrefs(i) \/ Broadcast(i)
  PROVE  PreferencesTypeOK' /\ Replies'
<1>0. calls \in Seq(SaveCalls) /\ calls[i] \in SaveCalls /\ calls[i].prefs \in Snapshots
  <2>1. calls \in Seq(SaveCalls)
    BY DEF PreferencesTypeOK
  <2>2. calls[i] \in SaveCalls
    BY <2>1, EmptyQueue
  <2> QED
    BY <2>1, <2>2 DEF SaveCalls
<1>1. calls' \in Seq(SaveCalls)
  <2>1. Over(i) \in Seq(SaveCalls)
    BY <1>0, OthersRemain DEF Over, Less
  <2>2. ASSUME NEW a \in {"stored", "written"}, calls' = [calls EXCEPT ![i].at = a]
        PROVE  calls' \in Seq(SaveCalls)
    <3>1. [calls[i] EXCEPT !.at = a] \in SaveCalls
      BY <1>0 DEF SaveCalls
    <3> QED
      BY <1>0, <2>2, <3>1, ExceptSeq
  <2> QED
    BY <2>1, <2>2 DEF Store, WritePrefs, Broadcast
<1>2. heard' \in [AllWindows -> Seq(Snapshots)]
  <2>1. heard \in [AllWindows -> Seq(Snapshots)]
    BY DEF PreferencesTypeOK
  <2>2. \A w \in AllWindows : Append(heard[w], calls[i].prefs) \in Seq(Snapshots)
    BY <1>0, <2>1, AppendProperties
  <2>3. CASE Broadcast(i)
    BY <2>1, <2>2, <2>3 DEF Broadcast
  <2>4. CASE ~Broadcast(i)
    BY <2>1, <2>4 DEF Store, WritePrefs
  <2> QED
    BY <2>3, <2>4
<1>3. {inMemory', onDisk'} \subseteq Snapshots /\ saveFailed' \in BOOLEAN
  BY <1>0 DEF PreferencesTypeOK, Store, WritePrefs, Broadcast
<1>4. UNCHANGED <<windows, snapshots, waiting, changes, wanted>>
  BY DEF Store, WritePrefs, Broadcast
<1> QED
  BY <1>1, <1>2, <1>3, <1>4 DEF PreferencesTypeOK, Replies

\* Windows, snapshots, saves and what is heard of them keep their form, whatever coincides.
THEOREM PreferencesTyped == PreferencesSpec => []PreferencesTypeOK
<1>1. PreferencesInit => PreferencesTypeOK /\ Replies
  BY PreferencesInitInv DEF PreferencesInv, PreferencesInit, Replies, ClosedWindow
<1>2. ASSUME PreferencesTypeOK, Replies, [PreferencesNext]_preferencesVars
      PROVE  PreferencesTypeOK' /\ Replies'
  <2>1. ASSUME NEW w \in AllWindows, NEW S \in SUBSET Settings \ {{}},
               NEW v \in {0, changes + 1}, ChangeSetting(w, S, v)
        PROVE  PreferencesTypeOK' /\ Replies'
    <3>1. changes + 1 \in 0..MaxChanges /\ v \in 0..MaxChanges
      BY <1>2, <2>1 DEF ChangeSetting, PreferencesTypeOK
    <3>2. \A prefs \in Snapshots : Patched(prefs, S, v) \in Snapshots
      BY <3>1 DEF Patched, Snapshots
    <3>3. /\ snapshots' \in [AllWindows -> Snapshots]
          /\ waiting' \in [AllWindows -> Snapshots \cup {NoSave}] /\ wanted' \in Snapshots
      BY <1>2, <2>1, <3>2 DEF ChangeSetting, PreferencesTypeOK
    <3>4. changes' \in 0..MaxChanges
          /\ UNCHANGED <<windows, calls, inMemory, onDisk, heard, saveFailed>>
      BY <2>1, <3>1 DEF ChangeSetting
    <3> QED
      BY <1>2, <3>3, <3>4 DEF PreferencesTypeOK, Replies
  <2>2. ASSUME NEW w \in AllWindows, SavePrefs(w)
        PROVE  PreferencesTypeOK' /\ Replies'
    <3>1. [from |-> w, prefs |-> waiting[w], at |-> "sent"] \in SaveCalls
      BY <1>2, <2>2 DEF SavePrefs, Unsaved, PreferencesTypeOK, SaveCalls
    <3>2. calls' \in Seq(SaveCalls)
      BY <1>2, <2>2, <3>1, AppendProperties DEF SavePrefs, PreferencesTypeOK
    <3>3. waiting' \in [AllWindows -> Snapshots \cup {NoSave}]
          /\ UNCHANGED <<windows, snapshots, inMemory, onDisk, heard, changes, wanted, saveFailed>>
      BY <1>2, <2>2 DEF SavePrefs, PreferencesTypeOK
    <3> QED
      BY <1>2, <3>2, <3>3 DEF PreferencesTypeOK, Replies
  <2>3. ASSUME NEW w \in AllWindows, ApplyExternal(w)
        PROVE  PreferencesTypeOK' /\ Replies'
    <3>1. heard[w] \in Seq(Snapshots) /\ heard[w] # <<>>
      BY <1>2, <2>3 DEF ApplyExternal, PreferencesTypeOK
    <3>2. Head(heard[w]) \in Snapshots /\ Tail(heard[w]) \in Seq(Snapshots)
      BY <3>1, HeadTailProperties
    <3>3. /\ snapshots' \in [AllWindows -> Snapshots]
          /\ heard' \in [AllWindows -> Seq(Snapshots)]
          /\ UNCHANGED <<windows, waiting, calls, inMemory, onDisk, changes, wanted, saveFailed>>
      BY <1>2, <2>3, <3>2 DEF ApplyExternal, PreferencesTypeOK
    <3> QED
      BY <1>2, <3>3 DEF PreferencesTypeOK, Replies
  <2>4. CASE UNCHANGED preferencesVars
    BY <1>2, <2>4 DEF preferencesVars, PreferencesTypeOK, Replies
  <2> QED
    BY <1>2, <2>1, <2>2, <2>3, <2>4, ReadTypes, SaveTypes DEF PreferencesNext
<1> QED
  BY <1>1, <1>2, PTL DEF PreferencesSpec

(***************************************************************************)
(* Updates: one installation at a time, of what was downloaded, for any    *)
(* number of releases, checks and clicks, as long as no check begins during *)
(* an installation and nobody clicks while the download runs.              *)
(***************************************************************************)

USE UpdatesAssumption

-----------------------------------------------------------------------------
(* The invariant.                                                          *)

Types ==
  /\ UpdatesTypeOK
  /\ update # NoUpdate => versionOf[update] <= newest

\* Whoever asks, downloads or installs has the status to itself.
Asking == \E n \in Checks : check[n].pc = "asking"

OneAtATime ==
  /\ Asking => status = "checking" /\ downloading = {} /\ Installing = {}
  /\ \A m, n \in Checks : check[m].pc = "asking" /\ check[n].pc = "asking" => m = n
  /\ downloading # {} => status = "downloading" /\ downloading = {update}
                         /\ promise = update /\ Installing = {} /\ ~Asking

\* What waits for a restart has been downloaded, also while a check hides it.
Ready ==
  /\ status = "readyToRestart" => update \in downloaded
  /\ \A n \in Checks : check[n].pc = "asking" =>
       /\ check[n].statusBefore \notin {"checking", "downloading", "installing", "ready"}
       /\ check[n].statusBefore = "readyToRestart" => update \in downloaded

Underway ==
  /\ Installing # {} <=> status \in {"installing", "ready"}
  /\ \A j, k \in Installing : j = k
  /\ \A k \in Installing :
       /\ install[k].pc \in {"sidecar", "confirm", "apply"}
       /\ install[k].update = update /\ update \in downloaded

UpdatesInv == Types /\ OneAtATime /\ Ready /\ Underway

-----------------------------------------------------------------------------
(* What the steps preserve.                                                *)

LEMMA UpdatesInitInv == UpdatesInit => UpdatesInv
<1> SUFFICES ASSUME UpdatesInit PROVE UpdatesInv
  OBVIOUS
<1> USE DEF UpdatesInit, Started
<1>1. UpdatesTypeOK
  BY DEF UpdatesTypeOK, NoCheck, NoClick, Statuses, NoUpdate
<1>2. ~Asking /\ Installing = {}
  BY DEF Asking, Installing, NoCheck, NoClick
<1> QED
  BY <1>1, <1>2 DEF UpdatesInv, Types, OneAtATime, Ready, Underway, Asking

\* Nobody installs while the status says otherwise, and one check asks at a time.
LEMMA Exclusive ==
  ASSUME UpdatesInv
  PROVE  /\ UpdatesTypeOK
         /\ \A n \in Checks : check[n].pc = "asking" =>
              /\ status = "checking" /\ downloading = {} /\ Installing = {}
              /\ \A m \in Checks : check[m].pc = "asking" => m = n
         /\ \A n \in downloading :
              /\ status = "downloading" /\ downloading = {n} /\ update = n /\ promise = n
              /\ Installing = {} /\ \A m \in Checks : check[m].pc # "asking"
         /\ \A k \in Clicks : install[k].pc \notin {"no", "over"} =>
              /\ status \in {"installing", "ready"} /\ Installing = {k}
              /\ install[k].pc \in {"sidecar", "confirm", "apply"}
              /\ install[k].update = update /\ update \in downloaded
              /\ downloading = {} /\ \A m \in Checks : check[m].pc # "asking"
<1> USE DEF UpdatesInv, Types, OneAtATime, Ready, Underway, Asking
<1>1. UpdatesTypeOK
  OBVIOUS
<1>2. ASSUME NEW n \in Checks, check[n].pc = "asking"
      PROVE  /\ status = "checking" /\ downloading = {} /\ Installing = {}
             /\ \A m \in Checks : check[m].pc = "asking" => m = n
  BY <1>2
<1>3. ASSUME NEW n \in downloading
      PROVE  /\ status = "downloading" /\ downloading = {n} /\ update = n /\ promise = n
             /\ Installing = {} /\ \A m \in Checks : check[m].pc # "asking"
  BY <1>3
<1>4. ASSUME NEW k \in Clicks, install[k].pc \notin {"no", "over"}
      PROVE  /\ status \in {"installing", "ready"} /\ Installing = {k}
             /\ install[k].pc \in {"sidecar", "confirm", "apply"}
             /\ install[k].update = update /\ update \in downloaded
             /\ downloading = {} /\ \A m \in Checks : check[m].pc # "asking"
  <2>1. k \in Installing
    BY <1>4 DEF Installing
  <2>2. Installing = {k}
    BY <2>1
  <2> QED
    BY <2>1, <2>2
<1> QED
  BY <1>1, <1>2, <1>3, <1>4

\* A release changes nothing the window knows.
LEMMA ReleaseInv ==
  ASSUME UpdatesInv, Release \/ UNCHANGED updatesVars
  PROVE  UpdatesInv'
<1>1. UNCHANGED <<offer, versionOf, downloading, downloaded, check, install>>
      /\ newest' \in 0..MaxReleases /\ newest <= newest'
  BY DEF UpdatesInv, Types, UpdatesTypeOK, Release, updatesVars
<1>2. Types'
  BY <1>1 DEF UpdatesInv, Types, UpdatesTypeOK, offer
<1>3. (OneAtATime /\ Ready /\ Underway)'
  BY <1>1 DEF UpdatesInv, OneAtATime, Ready, Underway, Asking, Installing, offer
<1> QED
  BY <1>2, <1>3 DEF UpdatesInv

LEMMA CheckBeginsInv ==
  ASSUME Meddling = {}, UpdatesInv, NEW n \in Checks, CheckBegins(n)
  PROVE  UpdatesInv'
<1>1. /\ Installing = {} /\ downloading = {} /\ status \notin {"installing", "ready"}
      /\ \A m \in Checks : check[m].pc # "asking"
  BY DEF CheckBegins, UpdatesInv, OneAtATime, Underway, Asking
<1>2. /\ UNCHANGED <<availableVersion, update, promise, newest, versionOf, downloading,
                     downloaded, install>>
      /\ status' = "checking"
      /\ check' = [check EXCEPT ![n] = [pc |-> "asking", statusBefore |-> status,
                                        versionBefore |-> availableVersion]]
      /\ status \notin {"checking", "downloading"}
  BY DEF CheckBegins
<1>3. UpdatesTypeOK'
  BY <1>2 DEF UpdatesInv, Types, UpdatesTypeOK, Statuses
<1>4. check'[n].pc = "asking" /\ check'[n].statusBefore = status
      /\ \A m \in Checks \ {n} : check'[m] = check[m]
  BY <1>2 DEF UpdatesInv, Types, UpdatesTypeOK
<1>5. Installing' = {}
  BY <1>1, <1>2 DEF Installing
<1> QED
  BY <1>1, <1>2, <1>3, <1>4, <1>5
  DEF UpdatesInv, Types, OneAtATime, Ready, Underway, Asking

LEMMA CheckEndsInv ==
  ASSUME Meddling = {}, UpdatesInv, NEW n \in Checks,
         NothingNew(n) \/ TrackedStill(n) \/ Found(n) \/ CheckFails(n)
  PROVE  UpdatesInv'
<1>1. /\ check[n].pc = "asking" /\ check' = [check EXCEPT ![n].pc = "over"]
      /\ UNCHANGED <<newest, downloaded, install>>
  BY DEF NothingNew, TrackedStill, Found, CheckFails, CheckEnds
<1>2. /\ UpdatesTypeOK
      /\ downloading = {} /\ Installing = {}
      /\ \A m \in Checks : check[m].pc = "asking" => m = n
      /\ check[n].statusBefore \notin {"checking", "downloading", "installing", "ready"}
      /\ check[n].statusBefore = "readyToRestart" => update \in downloaded
  BY <1>1, Exclusive DEF UpdatesInv, Ready
<1>3. \A m \in Checks : check'[m].pc # "asking"
  BY <1>1, <1>2 DEF UpdatesTypeOK
<1>4. Installing' = {}
  BY <1>1, <1>2 DEF Installing
<1>5. check' \in [Checks -> [pc : {"no", "asking", "over"}, statusBefore : Statuses,
                             versionBefore : 0..MaxReleases]]
  BY <1>1, <1>2 DEF UpdatesTypeOK
<1>6. CASE Found(n)
  <2>1. /\ status' = "downloading" /\ update' = n /\ promise' = n /\ downloading' = {n}
        /\ availableVersion' = newest /\ versionOf' = [versionOf EXCEPT ![n] = newest]
    BY <1>2, <1>6 DEF Found
  <2>2. Types'
    BY <1>1, <1>2, <1>5, <2>1 DEF Types, UpdatesTypeOK, Statuses
  <2> QED
    BY <1>3, <1>4, <2>1, <2>2 DEF UpdatesInv, OneAtATime, Ready, Underway, Asking
<1>7. CASE NothingNew(n) \/ TrackedStill(n) \/ CheckFails(n)
  <2>1. /\ UNCHANGED <<versionOf, downloading>>
        /\ \/ status' = "idle" /\ availableVersion' = 0 /\ update' = NoUpdate
              /\ promise' = NoUpdate
           \/ /\ status' \in {check[n].statusBefore, "error"}
              /\ UNCHANGED <<availableVersion, update, promise>>
    BY <1>7 DEF NothingNew, TrackedStill, CheckFails
  <2>2. check[n].statusBefore \in Statuses
    BY <1>2 DEF UpdatesTypeOK
  <2>3. UpdatesTypeOK'
    BY <1>1, <1>2, <1>5, <2>1, <2>2 DEF UpdatesTypeOK, Statuses, NoUpdate
  <2>4. Types'
    BY <1>1, <2>1, <2>3 DEF UpdatesInv, Types
  <2>5. status' \notin {"installing", "ready", "checking", "downloading"}
    BY <1>2, <2>1
  <2>6. status' = "readyToRestart" => update' \in downloaded'
    BY <1>1, <1>2, <2>1
  <2> QED
    BY <1>2, <1>3, <1>4, <2>1, <2>4, <2>5, <2>6
    DEF UpdatesInv, OneAtATime, Ready, Underway, Asking
<1> QED
  BY <1>6, <1>7

LEMMA DownloadEndsInv ==
  ASSUME UpdatesInv, NEW n \in Checks, Downloaded(n) \/ DownloadFails(n)
  PROVE  UpdatesInv'
<1>1. /\ UpdatesTypeOK /\ downloading = {n} /\ update = n
      /\ Installing = {} /\ \A m \in Checks : check[m].pc # "asking"
  BY Exclusive DEF Downloaded, DownloadFails
<1>2. /\ UNCHANGED <<availableVersion, update, newest, versionOf, check, install>>
      /\ downloading' = {}
      /\ promise' \in {promise, NoUpdate}
      /\ \/ status' = "readyToRestart" /\ downloaded' = downloaded \cup {n}
         \/ status' = "error" /\ downloaded' = downloaded
  BY <1>1 DEF Downloaded, DownloadFails
<1>3. Types'
  BY <1>1, <1>2 DEF UpdatesInv, Types, UpdatesTypeOK, Statuses, NoUpdate
<1>4. Installing' = {}
  BY <1>1, <1>2 DEF Installing
<1> QED
  BY <1>1, <1>2, <1>3, <1>4 DEF UpdatesInv, OneAtATime, Ready, Underway, Asking

LEMMA InstallInv ==
  ASSUME Meddling = {}, UpdatesInv, NEW k \in Clicks, Install(k)
  PROVE  UpdatesInv'
<1>1. /\ status = "readyToRestart" /\ status' = "installing" /\ update # NoUpdate
      /\ install' = [install EXCEPT ![k] =
           [pc |-> "sidecar", update |-> update, promise |-> promise]]
      /\ UNCHANGED <<availableVersion, update, promise, newest, versionOf, downloading,
                     downloaded, check>>
  BY DEF Install
<1>2. /\ UpdatesTypeOK /\ Installing = {} /\ downloading = {} /\ update \in downloaded
      /\ \A m \in Checks : check[m].pc # "asking"
  BY <1>1 DEF UpdatesInv, Types, OneAtATime, Ready, Underway, Asking
<1>3. Types'
  BY <1>1, <1>2 DEF UpdatesInv, Types, UpdatesTypeOK, Statuses
<1>4. Installing' = {k} /\ install'[k].pc = "sidecar" /\ install'[k].update = update
  BY <1>1, <1>2 DEF UpdatesTypeOK, Installing
<1> QED
  BY <1>1, <1>2, <1>3, <1>4 DEF UpdatesInv, OneAtATime, Ready, Underway, Asking

\* An installation goes on, or ends.
LEMMA GoesOnInv ==
  ASSUME UpdatesInv, NEW k \in Clicks,
         Awaited(k) \/ SidecarRuns(k) \/ Apply(k) \/ NotNow(k) \/ ApplyFails(k)
  PROVE  UpdatesInv'
<1>1. install[k].pc \notin {"no", "over"}
  BY DEF Awaited, SidecarRuns, Apply, NotNow, ApplyFails, Continue
<1>2. /\ UpdatesTypeOK
      /\ status \in {"installing", "ready"} /\ Installing = {k}
      /\ install[k].pc \in {"sidecar", "confirm", "apply"}
      /\ install[k].update = update /\ update \in downloaded
      /\ downloading = {} /\ \A m \in Checks : check[m].pc # "asking"
  BY <1>1, Exclusive
<1>3. /\ UNCHANGED <<availableVersion, update, promise, newest, versionOf, downloading,
                     downloaded, check>>
      /\ \E pc \in {"confirm", "apply", "over"} :
           /\ install' = [install EXCEPT ![k].pc = pc]
           /\ pc = "over" => status' \in {"readyToRestart", "error"}
           /\ pc # "over" => status' \in {status, "ready"}
  BY <1>2 DEF Awaited, SidecarRuns, Apply, NotNow, ApplyFails, Continue, offer
<1>4. PICK pc \in {"confirm", "apply", "over"} :
           /\ install' = [install EXCEPT ![k].pc = pc]
           /\ pc = "over" => status' \in {"readyToRestart", "error"}
           /\ pc # "over" => status' \in {status, "ready"}
  BY <1>3
<1>5. Types'
  <2>1. install' \in [Clicks -> [pc : {"no", "download", "sidecar", "confirm", "apply", "over"},
                                  update : Checks \cup {NoUpdate},
                                  promise : Checks \cup {NoUpdate}]]
    BY <1>2, <1>4 DEF UpdatesTypeOK
  <2>2. status' \in Statuses
    BY <1>2, <1>4 DEF Statuses
  <2>3. UpdatesTypeOK'
    BY <1>2, <1>3, <2>1, <2>2 DEF UpdatesTypeOK
  <2> QED
    BY <1>3, <2>3 DEF UpdatesInv, Types
<1>6. /\ install'[k].pc = pc /\ install'[k].update = update
      /\ \A j \in Clicks \ {k} : install'[j] = install[j]
  BY <1>2, <1>4 DEF UpdatesTypeOK
<1>7. Installing' = IF pc = "over" THEN {} ELSE {k}
  <2>1. \A j \in Clicks \ {k} : install[j].pc \in {"no", "over"}
    BY <1>2 DEF Installing
  <2> QED
    BY <1>6, <2>1 DEF Installing
<1> QED
  BY <1>2, <1>3, <1>4, <1>5, <1>6, <1>7
  DEF UpdatesInv, OneAtATime, Ready, Underway, Asking

LEMMA RelaunchedInv ==
  ASSUME UpdatesInv, NEW k \in Clicks, Relaunched(k)
  PROVE  UpdatesInv'
<1>1. /\ UpdatesTypeOK /\ install[k].update = update
  BY Exclusive DEF Relaunched
<1>2. /\ status' = "idle" /\ availableVersion' = 0 /\ update' = NoUpdate
      /\ promise' = NoUpdate /\ versionOf' = [n \in Checks |-> 0]
      /\ downloading' = {} /\ downloaded' = {}
      /\ check' = [n \in Checks |-> NoCheck] /\ install' = [j \in Clicks |-> NoClick]
      /\ newest' = newest - versionOf[update]
  BY <1>1 DEF Relaunched
<1>3. newest' \in 0..MaxReleases
  <2>1. update # NoUpdate
    BY <1>1 DEF Relaunched, UpdatesInv, Underway, Installing, UpdatesTypeOK, NoUpdate, Checks
  <2>2. versionOf[update] \in 0..MaxReleases /\ versionOf[update] <= newest
    BY <1>1, <2>1 DEF UpdatesInv, Types, UpdatesTypeOK
  <2> QED
    BY <1>1, <1>2, <2>2 DEF UpdatesTypeOK
<1>4. UpdatesTypeOK'
  BY <1>2, <1>3 DEF UpdatesTypeOK, NoCheck, NoClick, Statuses, NoUpdate
<1>5. Installing' = {} /\ ~Asking'
  BY <1>2 DEF Installing, Asking, NoCheck, NoClick
<1> QED
  BY <1>2, <1>4, <1>5 DEF UpdatesInv, Types, OneAtATime, Ready, Underway, Asking

LEMMA UpdatesStep ==
  ASSUME Meddling = {}, UpdatesInv, [UpdatesNext]_updatesVars
  PROVE  UpdatesInv'
<1>1. CASE Release \/ UNCHANGED updatesVars
  BY <1>1, ReleaseInv
<1>2. ASSUME NEW n \in Checks, CheckBegins(n) PROVE UpdatesInv'
  BY <1>2, CheckBeginsInv
<1>3. ASSUME NEW n \in Checks, NothingNew(n) \/ TrackedStill(n) \/ Found(n) \/ CheckFails(n)
      PROVE  UpdatesInv'
  BY <1>3, CheckEndsInv
<1>4. ASSUME NEW n \in Checks, Downloaded(n) \/ DownloadFails(n) PROVE UpdatesInv'
  BY <1>4, DownloadEndsInv
<1>5. ASSUME NEW k \in Clicks, Install(k) PROVE UpdatesInv'
  BY <1>5, InstallInv
<1>6. ASSUME NEW k \in Clicks,
             Awaited(k) \/ SidecarRuns(k) \/ Apply(k) \/ NotNow(k) \/ ApplyFails(k)
      PROVE  UpdatesInv'
  BY <1>6, GoesOnInv
<1>7. ASSUME NEW k \in Clicks, Relaunched(k) PROVE UpdatesInv'
  BY <1>7, RelaunchedInv
<1> QED
  BY <1>1, <1>2, <1>3, <1>4, <1>5, <1>6, <1>7 DEF UpdatesNext

LEMMA InvInstallsOnce == UpdatesInv => InstallOnce
<1> SUFFICES ASSUME UpdatesInv PROVE InstallOnce
  OBVIOUS
<1>1. Cardinality(Installing) <= 1
  <2>1. CASE Installing = {}
    BY <2>1, FS_EmptySet
  <2>2. CASE Installing # {}
    <3>1. PICK k \in Installing : Installing = {k}
      BY <2>2 DEF UpdatesInv, Underway
    <3> QED
      BY <3>1, FS_Singleton
  <2> QED
    BY <2>1, <2>2
<1>2. \A k \in Clicks : install[k].pc = "apply" => install[k].update \in downloaded
  BY Exclusive
<1> QED
  BY <1>1, <1>2 DEF UpdatesInv, Underway, InstallOnce

\* An update is installed once, from the object that was downloaded, and the status says
\* so for as long as it lasts (update.ts, installAndRelaunch), for a user who leaves the
\* button alone while the download runs and a timer that does not check meanwhile.
THEOREM InstalledOnce ==
  ASSUME Meddling = {}
  PROVE  UpdatesSpec => []InstallOnce
<1>1. UpdatesInv /\ [UpdatesNext]_updatesVars => UpdatesInv'
  BY UpdatesStep
<1> QED
  BY <1>1, UpdatesInitInv, InvInstallsOnce, PTL DEF UpdatesSpec

-----------------------------------------------------------------------------
(* Types, whatever meddles.                                                *)

\* No object is of a version that was not released, and who installs has an object.
Objects ==
  /\ \A n \in Checks : versionOf[n] <= newest
  /\ \A k \in Clicks : install[k].pc # "no" => install[k].update \in Checks

LEMMA CheckTypes ==
  ASSUME UpdatesTypeOK, Objects, NEW n \in Checks,
         \/ CheckBegins(n) \/ NothingNew(n) \/ TrackedStill(n) \/ Found(n)
         \/ CheckFails(n) \/ Downloaded(n) \/ DownloadFails(n)
  PROVE  UpdatesTypeOK' /\ Objects'
<1>0. check[n].statusBefore \in Statuses
  BY DEF UpdatesTypeOK
<1>1. status' \in Statuses
  BY <1>0
  DEF CheckBegins, NothingNew, TrackedStill, Found, CheckFails, Downloaded, DownloadFails,
      Statuses
<1>2. check' \in [Checks -> [pc : {"no", "asking", "over"}, statusBefore : Statuses,
                             versionBefore : 0..MaxReleases]]
  BY DEF UpdatesTypeOK, CheckEnds, CheckBegins, NothingNew, TrackedStill, Found, CheckFails,
         Downloaded, DownloadFails
<1>3. /\ availableVersion' \in 0..MaxReleases
      /\ update' \in Checks \cup {NoUpdate} /\ promise' \in Checks \cup {NoUpdate}
  BY DEF UpdatesTypeOK, CheckBegins, NothingNew, TrackedStill, Found, CheckFails, Downloaded,
         DownloadFails, NoUpdate
<1>4. /\ versionOf' \in [Checks -> 0..MaxReleases]
      /\ \A m \in Checks : versionOf'[m] <= newest
      /\ downloading' \subseteq Checks /\ downloaded' \subseteq Checks
  BY DEF UpdatesTypeOK, Objects, CheckBegins, NothingNew, TrackedStill, Found, CheckFails,
         Downloaded, DownloadFails
<1>5. UNCHANGED <<newest, install>>
  BY DEF CheckBegins, NothingNew, TrackedStill, Found, CheckFails, Downloaded, DownloadFails
<1> QED
  BY <1>1, <1>2, <1>3, <1>4, <1>5 DEF UpdatesTypeOK, Objects

LEMMA ClickTypes ==
  ASSUME UpdatesTypeOK, Objects, NEW k \in Clicks,
         \/ Install(k) \/ Awaited(k) \/ SidecarRuns(k) \/ Apply(k)
         \/ NotNow(k) \/ ApplyFails(k)
  PROVE  UpdatesTypeOK' /\ Objects'
<1> DEFINE Installations ==
      [pc : {"no", "download", "sidecar", "confirm", "apply", "over"},
       update : Checks \cup {NoUpdate}, promise : Checks \cup {NoUpdate}]
<1>0. install \in [Clicks -> Installations]
  BY DEF UpdatesTypeOK
<1>1. /\ UNCHANGED <<availableVersion, update, promise, newest, versionOf, downloading,
                     downloaded, check>>
      /\ status' \in Statuses
  BY DEF UpdatesTypeOK, Install, Awaited, SidecarRuns, Apply, NotNow, ApplyFails, offer,
         Statuses
<1>2. CASE Install(k)
  <2> DEFINE s == [pc |-> IF status = "readyToRestart" THEN "sidecar" ELSE "download",
                   update |-> update, promise |-> promise]
  <2>1. PICK r \in Installations : r.update \in Checks /\ install' = [install EXCEPT ![k] = r]
    <3>1. s \in Installations /\ s.update \in Checks
      BY <1>2 DEF Install, UpdatesTypeOK
    <3>2. install' = [install EXCEPT ![k] = s]
      BY <1>2 DEF Install
    <3> HIDE DEF s
    <3> QED
      BY <3>1, <3>2
  <2>2. install' \in [Clicks -> Installations]
    BY <1>0, <2>1
  <2>3. \A j \in Clicks : install'[j].pc # "no" => install'[j].update \in Checks
    BY <1>0, <2>1 DEF Objects
  <2> QED
    BY <1>1, <2>2, <2>3 DEF UpdatesTypeOK, Objects
<1>3. CASE ~Install(k)
  <2>1. PICK to \in {"sidecar", "confirm", "apply", "over"} :
          install[k].pc # "no" /\ install' = [install EXCEPT ![k].pc = to]
    BY <1>3 DEF Awaited, SidecarRuns, Apply, NotNow, ApplyFails, Continue
  <2>2. install' \in [Clicks -> Installations]
    BY <1>0, <2>1
  <2>3. \A j \in Clicks : install'[j].pc # "no" => install'[j].update \in Checks
    BY <1>0, <2>1 DEF Objects
  <2> QED
    BY <1>1, <2>2, <2>3 DEF UpdatesTypeOK, Objects
<1> QED
  BY <1>2, <1>3

\* The status, the objects, the checks and the installations keep their form, and the new
\* version takes over no release that was not there, whatever meddles.
THEOREM UpdatesTyped == UpdatesSpec => []UpdatesTypeOK
<1>1. UpdatesInit => UpdatesTypeOK /\ Objects
  BY UpdatesInitInv DEF UpdatesInv, Types, UpdatesInit, Started, Objects, NoClick
<1>2. ASSUME UpdatesTypeOK, Objects, [UpdatesNext]_updatesVars
      PROVE  UpdatesTypeOK' /\ Objects'
  <2>1. CASE Release \/ UNCHANGED updatesVars
    <3>1. UNCHANGED <<offer, versionOf, downloading, downloaded, check, install>>
          /\ newest' \in 0..MaxReleases /\ newest <= newest'
      BY <1>2, <2>1 DEF UpdatesTypeOK, Release, updatesVars
    <3> QED
      BY <1>2, <3>1 DEF UpdatesTypeOK, Objects, offer
  <2>2. ASSUME NEW k \in Clicks, Relaunched(k)
        PROVE  UpdatesTypeOK' /\ Objects'
    <3>1. versionOf[install[k].update] \in 0..newest
      BY <1>2, <2>2 DEF Relaunched, UpdatesTypeOK, Objects
    <3>2. newest' \in 0..MaxReleases
      BY <1>2, <2>2, <3>1 DEF Relaunched, UpdatesTypeOK
    <3>3. /\ status' = "idle" /\ availableVersion' = 0
          /\ update' = NoUpdate /\ promise' = NoUpdate
          /\ versionOf' = [n \in Checks |-> 0] /\ downloading' = {} /\ downloaded' = {}
          /\ check' = [n \in Checks |-> NoCheck] /\ install' = [j \in Clicks |-> NoClick]
      BY <2>2 DEF Relaunched
    <3>4. UpdatesTypeOK'
      BY <3>2, <3>3 DEF UpdatesTypeOK, NoCheck, NoClick, Statuses, NoUpdate
    <3> QED
      BY <3>2, <3>3, <3>4 DEF Objects, NoClick
  <2> QED
    BY <1>2, <2>1, <2>2, CheckTypes, ClickTypes DEF UpdatesNext
<1> QED
  BY <1>1, <1>2, PTL DEF UpdatesSpec

=============================================================================
