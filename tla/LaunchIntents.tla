---------------------------- MODULE LaunchIntents ----------------------------
(***************************************************************************)
(* Connections asked for on the command line (lib/cli/useCliIntents.ts).   *)
(* A second launch of the app hands its arguments to the one that runs     *)
(* (handle_second_instance, lib.rs), which keeps the last one in a buffer  *)
(* and tells the main window by an event.  The main window drains the      *)
(* buffer once, then listens, asks where each connection should open, and  *)
(* opens it there, in an environment it belongs to.                        *)
(*                                                                         *)
(* Windows: the main one, and one for each launch that asked for its own.  *)
(*                                                                         *)
(* Left out: the arguments of the first launch, the session restored when  *)
(* the app starts and what a switch of environment saves (see Sessions),   *)
(* passwords, focus, console entries, reloading a window.                  *)
(***************************************************************************)
EXTENDS Naturals, Sequences

CONSTANTS
  MaxLaunches,  \* bound: second launches of the app
  Environments, Connections,
  Home,         \* find_environments_for_connection
  AdHoc,        \* what a launch asks for that matches no saved profile
  NoEnv,
  Crossings     \* see CrossingKinds

(***************************************************************************)
(* boot      launches while the main window's bridge is being set up,      *)
(*           after the buffer is drained or while it is full               *)
(* together  a launch while another one is being handled                   *)
(* switch    an environment is being switched while a launch is handled    *)
(***************************************************************************)
CrossingKinds == {"boot", "together", "switch"}

ASSUME LaunchIntentsAssumption ==
  /\ MaxLaunches \in Nat
  /\ Environments # {} /\ NoEnv \notin Environments
  /\ AdHoc \notin Connections
  /\ Home \in [Connections -> SUBSET Environments]
  /\ Crossings \subseteq CrossingKinds

Launches == 1..MaxLaunches
NoLaunch == 0
Main == 0
Windows == {Main} \cup Launches
Routes == {"current", "new"}
Homes(c) == IF c = AdHoc THEN {} ELSE Home[c]

VARIABLES
  bridge,      \* how far the main window has got with listening
  pendingCli,  \* pending_cli_connect
  answer,      \* what take_pending_cli_connect answered
  cliEvents,   \* cli-connect events on their way to the listener
  cliChoice, driverPrompt,  \* the launches two dialogs are about
  cliDefault,  \* the preference cliConnectDefault
  intent,      \* each launch: where it is, what it asks for, in which window
  applied,     \* how often applyConnectionIntent was called for it
  landed,      \* the environment its connection was opened in
  activeEnv,   \* each window's environment
  switching,   \* switchTo in the main window: the target, and who waits for it
  shown,       \* the connections each window shows as active
  told         \* launches whose switch failed with a notice

dialogs == <<cliChoice, driverPrompt, cliDefault>>
mainBridge == <<bridge, pendingCli, answer, cliEvents>>
place == <<activeEnv, switching, shown, told>>
launchIntentsVars == <<mainBridge, dialogs, intent, applied, landed, place>>

NotSwitching == [to |-> NoEnv, by |-> NoLaunch]
Unborn == [pc |-> "none", target |-> AdHoc, window |-> Main]

Intents ==
  [pc : {"none", "sent", "asked", "stashed", "prompted", "refresh", "find", "switch", "connect",
         "connecting", "over"},
   target : Connections \cup {AdHoc}, window : Windows]

LaunchIntentsTypeOK ==
  /\ bridge \in {"off", "drained", "subscribing", "on"}
  /\ {pendingCli, answer, cliChoice, driverPrompt} \subseteq Launches \cup {NoLaunch}
  /\ cliEvents \in Seq(Launches)
  /\ cliDefault \in Routes \cup {"ask"}
  /\ intent \in [Launches -> Intents]
  /\ applied \in [Launches -> Nat]
  /\ landed \in [Launches -> Environments \cup {NoEnv}]
  /\ activeEnv \in [Windows -> Environments]
  /\ switching \in [to : Environments \cup {NoEnv}, by : Launches \cup {NoLaunch}]
  /\ shown \in [Windows -> SUBSET Connections]
  /\ told \subseteq Launches

LaunchIntentsInit ==
  /\ bridge = "off" /\ pendingCli = NoLaunch /\ answer = NoLaunch /\ cliEvents = <<>>
  /\ cliChoice = NoLaunch /\ driverPrompt = NoLaunch
  /\ cliDefault \in Routes \cup {"ask"}
  /\ intent = [l \in Launches |-> Unborn]
  /\ applied = [l \in Launches |-> 0] /\ landed = [l \in Launches |-> NoEnv]
  /\ \E e \in Environments : activeEnv = [w \in Windows |-> e]
  /\ switching = NotSwitching /\ shown = [w \in Windows |-> {}] /\ told = {}

Is(l, label) == intent[l].pc = label
Go(l, label) == intent' = [intent EXCEPT ![l].pc = label]
Unfinished(l) == ~Is(l, "none") /\ ~Is(l, "over")

-----------------------------------------------------------------------------
(* A second launch reaches the main window.                                *)

\* Orderly launches find the main window listening, or not yet begun, and at rest.
Orderly(l) ==
  /\ \/ "boot" \in Crossings
     \/ bridge = "on"
     \/ bridge = "off" /\ pendingCli = NoLaunch
  /\ \/ "together" \in Crossings
     \/ \A k \in Launches : ~Unfinished(k)
  /\ "switch" \in Crossings \/ switching = NotSwitching

\* Mutant: the launch is announced and not kept.
SecondInstanceUnbuffered(l) ==
  /\ Is(l, "none") /\ \A k \in 1..l - 1 : ~Is(k, "none")
  /\ Orderly(l)
  /\ \E c \in Connections \cup {AdHoc} :
       intent' = [intent EXCEPT ![l] = [pc |-> "sent", target |-> c, window |-> Main]]
  /\ cliEvents' = IF bridge = "on" THEN Append(cliEvents, l) ELSE cliEvents
  /\ UNCHANGED <<bridge, pendingCli, answer, dialogs, applied, landed, place>>

\* handle_second_instance: an event that nobody listens to is gone.
SecondInstance(l) ==
  /\ Is(l, "none") /\ \A k \in 1..l - 1 : ~Is(k, "none")
  /\ Orderly(l)
  /\ \E c \in Connections \cup {AdHoc} :
       intent' = [intent EXCEPT ![l] = [pc |-> "sent", target |-> c, window |-> Main]]
  /\ pendingCli' = l
  /\ cliEvents' = IF bridge = "on" THEN Append(cliEvents, l) ELSE cliEvents
  /\ UNCHANGED <<bridge, answer, dialogs, applied, landed, place>>

TakePending ==
  /\ bridge = "off" /\ bridge' = "drained"
  /\ answer' = pendingCli /\ pendingCli' = NoLaunch
  /\ UNCHANGED <<cliEvents, dialogs, intent, applied, landed, place>>

\* applyConnectionIntent in window w: an unknown driver is asked for first.
ApplyIntent(l, w) ==
  /\ applied' = [applied EXCEPT ![l] = @ + 1]
  /\ \/ /\ intent' = [intent EXCEPT ![l].pc = "refresh", ![l].window = w]
        /\ UNCHANGED driverPrompt
     \/ /\ intent' = [intent EXCEPT ![l].pc = "prompted", ![l].window = w]
        /\ driverPrompt' = IF w = Main THEN l ELSE driverPrompt

\* routeIncomingConnection
Route(l, how) ==
  \/ how = "current" /\ ApplyIntent(l, Main)
  \/ how = "new" /\ Go(l, "stashed") /\ UNCHANGED <<driverPrompt, applied>>

\* handleIncomingConnection
Incoming(l) ==
  \/ /\ cliDefault = "ask"
     /\ cliChoice' = l /\ Go(l, "asked")
     /\ UNCHANGED <<driverPrompt, applied>>
  \/ /\ cliDefault # "ask" /\ Route(l, cliDefault)
     /\ UNCHANGED cliChoice

Drained ==
  /\ bridge = "drained" /\ bridge' = "subscribing"
  /\ answer' = NoLaunch
  /\ IF answer = NoLaunch THEN UNCHANGED <<cliChoice, driverPrompt, intent, applied>>
                          ELSE Incoming(answer)
  /\ UNCHANGED <<pendingCli, cliEvents, cliDefault, landed, place>>

Subscribed ==
  /\ bridge = "subscribing" /\ bridge' = "on"
  /\ UNCHANGED <<pendingCli, answer, cliEvents, dialogs, intent, applied, landed, place>>

DeliverEvent ==
  /\ cliEvents # <<>> /\ cliEvents' = Tail(cliEvents)
  /\ Incoming(Head(cliEvents))
  /\ UNCHANGED <<bridge, pendingCli, answer, cliDefault, landed, place>>

-----------------------------------------------------------------------------
(* What the user answers, and the window a launch opens.                   *)

ChooseWindow(how, dontAskAgain) ==
  /\ cliChoice # NoLaunch /\ cliChoice' = NoLaunch
  /\ cliDefault' = IF dontAskAgain THEN how ELSE cliDefault
  /\ Route(cliChoice, how)
  /\ UNCHANGED <<mainBridge, landed, place>>

CancelChoice ==
  /\ cliChoice # NoLaunch /\ cliChoice' = NoLaunch
  /\ Go(cliChoice, "over")
  /\ UNCHANGED <<mainBridge, driverPrompt, cliDefault, applied, landed, place>>

\* A new window keeps its driver dialog to itself.
AnswerDriver(l, picked) ==
  /\ Is(l, "prompted")
  /\ intent[l].window = Main => driverPrompt = l
  /\ driverPrompt' = IF intent[l].window = Main THEN NoLaunch ELSE driverPrompt
  /\ Go(l, IF picked THEN "refresh" ELSE "over")
  /\ UNCHANGED <<mainBridge, cliChoice, cliDefault, applied, landed, place>>

\* take_window_startup_intent, in the window that open_new_window built.
WindowBoots(l) ==
  /\ Is(l, "stashed")
  /\ activeEnv' = [activeEnv EXCEPT ![l] = activeEnv[Main]]
  /\ ApplyIntent(l, l)
  /\ UNCHANGED <<mainBridge, cliChoice, cliDefault, landed, switching, shown, told>>

-----------------------------------------------------------------------------
(* connectToProfile and createAndConnectAdhoc.                             *)

\* The profiles are read again: a saved profile, or one of its own, made and not saved.
ProfilesRead(l) ==
  /\ Is(l, "refresh")
  /\ Go(l, IF intent[l].target = AdHoc THEN "connect" ELSE "find")
  /\ UNCHANGED <<mainBridge, dialogs, applied, landed, place>>

StartSwitch(l, e) ==
  /\ switching' = [to |-> e, by |-> l] /\ Go(l, "switch")
  /\ UNCHANGED activeEnv

\* Mutant: whatever is active will do.
FoundAnywhere(l) ==
  /\ Is(l, "find") /\ Go(l, "connect")
  /\ UNCHANGED <<mainBridge, dialogs, applied, landed, place>>

\* The main window switches, unless it already does; another one just shows it.
ProfileFound(l) ==
  /\ Is(l, "find")
  /\ LET w == intent[l].window
         where == Homes(intent[l].target)
     IN \/ /\ where = {} \/ activeEnv[w] \in where
           /\ Go(l, "connect") /\ UNCHANGED <<activeEnv, switching>>
        \/ /\ where # {} /\ activeEnv[w] \notin where
           /\ \E e \in where :
                \/ w = Main /\ switching = NotSwitching /\ StartSwitch(l, e)
                \/ w = Main /\ switching # NotSwitching /\ Go(l, "connect")
                            /\ UNCHANGED <<activeEnv, switching>>
                \/ w # Main /\ activeEnv' = [activeEnv EXCEPT ![w] = e]
                            /\ Go(l, "connect") /\ UNCHANGED switching
  /\ UNCHANGED <<mainBridge, dialogs, applied, landed, shown, told>>

\* The user picks an environment.
PickEnvironment(e) ==
  /\ switching = NotSwitching /\ activeEnv[Main] # e
  /\ "switch" \in Crossings \/ \A l \in Launches : ~Unfinished(l)
  /\ switching' = [to |-> e, by |-> NoLaunch]
  /\ UNCHANGED <<mainBridge, dialogs, intent, applied, landed, activeEnv, shown, told>>

SwitchPoints ==
  /\ switching # NotSwitching /\ activeEnv[Main] # switching.to
  /\ activeEnv' = [activeEnv EXCEPT ![Main] = switching.to]
  /\ UNCHANGED <<mainBridge, dialogs, intent, applied, landed, switching, shown, told>>

Waiter == IF switching.by = NoLaunch THEN intent
          ELSE [intent EXCEPT ![switching.by].pc = "connect"]

\* The connections that were open are closed, and some of the incoming ones opened.
SwitchEnds ==
  /\ switching # NotSwitching /\ activeEnv[Main] = switching.to
  /\ \E S \in SUBSET {c \in Connections : switching.to \in Home[c]} :
       shown' = [shown EXCEPT ![Main] = S]
  /\ switching' = NotSwitching /\ intent' = Waiter
  /\ UNCHANGED <<mainBridge, dialogs, applied, landed, activeEnv, told>>

\* switchTo reports its failure and returns as if nothing had happened.
SwitchFails ==
  /\ switching # NotSwitching /\ activeEnv[Main] # switching.to
  /\ told' = told \cup ({switching.by} \ {NoLaunch})
  /\ switching' = NotSwitching /\ intent' = Waiter
  /\ UNCHANGED <<mainBridge, dialogs, applied, landed, activeEnv, shown>>

ConnectIntent(l) ==
  /\ Is(l, "connect")
  /\ LET w == intent[l].window IN
       IF intent[l].target \in shown[w]
         THEN Go(l, "over") /\ landed' = [landed EXCEPT ![l] = activeEnv[w]]
         ELSE Go(l, "connecting") /\ UNCHANGED landed
  /\ UNCHANGED <<mainBridge, dialogs, applied, place>>

Connected(l) ==
  /\ Is(l, "connecting") /\ Go(l, "over")
  /\ LET w == intent[l].window IN
       /\ shown' = [shown EXCEPT ![w] = @ \cup ({intent[l].target} \ {AdHoc})]
       /\ landed' = [landed EXCEPT ![l] = activeEnv[w]]
  /\ UNCHANGED <<mainBridge, dialogs, applied, activeEnv, switching, told>>

\* No profile matches, the window cannot be built, or the server refuses: a console entry
\* is all that comes of it.
IntentFails(l) ==
  /\ intent[l].pc \in {"stashed", "refresh", "find", "connecting"}
  /\ Go(l, "over")
  /\ UNCHANGED <<mainBridge, dialogs, applied, landed, place>>

LaunchIntentsNext ==
  \/ TakePending \/ Drained \/ Subscribed \/ DeliverEvent
  \/ \E how \in Routes, again \in BOOLEAN : ChooseWindow(how, again)
  \/ CancelChoice
  \/ \E l \in Launches :
       \/ SecondInstance(l) \/ WindowBoots(l) \/ ProfilesRead(l) \/ ProfileFound(l)
       \/ ConnectIntent(l) \/ Connected(l) \/ IntentFails(l)
       \/ \E picked \in BOOLEAN : AnswerDriver(l, picked)
  \/ \E e \in Environments : PickEnvironment(e)
  \/ SwitchPoints \/ SwitchEnds \/ SwitchFails

LaunchIntentsSpec == LaunchIntentsInit /\ [][LaunchIntentsNext]_launchIntentsVars

-----------------------------------------------------------------------------
(* Properties.                                                             *)

AppliedOnce == \A l \in Launches : applied[l] <= 1

LaunchNotLost ==
  \A l \in Launches :
    /\ Is(l, "sent") => \/ pendingCli = l /\ bridge = "off"
                        \/ answer = l
                        \/ \E i \in DOMAIN cliEvents : cliEvents[i] = l
    /\ Is(l, "asked") => cliChoice = l
    /\ Is(l, "prompted") /\ intent[l].window = Main => driverPrompt = l

\* However the buffer, the event and the windows it opens overlap, a launch the app has
\* accepted is acted upon once: the buffer stays full after its event was handled, and
\* until then it is where somebody will find it, or what a dialog on screen is about.
HandledOnce == AppliedOnce /\ LaunchNotLost

\* A launch opens its connection in an environment the connection belongs to, when it
\* belongs to any, unless the user was told that the switch there failed.
LandsAtHome ==
  \A l \in Launches :
    landed[l] # NoEnv /\ Homes(intent[l].target) # {} /\ l \notin told =>
      landed[l] \in Homes(intent[l].target)
=============================================================================
