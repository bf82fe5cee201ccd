------------------------------ MODULE Sessions ------------------------------
(***************************************************************************)
(* The session of the main window: which connections are live, which tabs  *)
(* are on screen, and what is saved about both for each environment, while *)
(* the user connects, disconnects, opens tabs, switches environment and    *)
(* closes the window.  stores/session/environments.ts, connections.ts,     *)
(* tabs.ts, persistedTabs.ts, lib/connection/connectFlow.ts, App.tsx.      *)
(*                                                                         *)
(* JavaScript runs one continuation at a time, so an action is what runs   *)
(* between two awaits.  The backend's state commands (get_tab_state,       *)
(* save_tab_state, save_launch_state, set_active_environment) run on its   *)
(* main thread in the order they were sent and act on the environment that *)
(* is active there when they run, so they take effect where they are       *)
(* called; what follows their await is a later action.  Dialling and       *)
(* closing a pool take as long as the server takes.                        *)
(*                                                                         *)
(* Left out: the pane layout and the view filters (saved next to the tabs, *)
(* by the same calls), which tab and connection have the focus, the tabs   *)
(* that are never saved, the two preferences that turn restoring off, a    *)
(* state command that fails, secondary windows (they save nothing).        *)
(***************************************************************************)
EXTENDS Naturals, FiniteSets

CONSTANTS
  Envs,      \* environments
  Conns,     \* connection profiles
  Views,     \* database views of multi-database connections
  Parent,    \* the connection a view belongs to
  MaxTabs,   \* bound: tabs the user opens
  Races      \* what may happen at once, see RaceKinds

(***************************************************************************)
(* connect  a connection is opened or closed while an earlier gesture on   *)
(*          it, or a switch, is still under way                            *)
(* close    the window is closed while a switch is under way               *)
(* flush    tabs change while a disconnect waits for its last save         *)
(***************************************************************************)
RaceKinds == {"connect", "close", "flush"}

ASSUME SessionsAssumption ==
  /\ Parent \in [Views -> Conns]
  /\ Conns \cap Views = {}
  /\ MaxTabs \in Nat
  /\ Races \subseteq RaceKinds

Ids == Conns \cup Views

\* A tab; "env" is a history variable: the environment it was opened in.
Tab == [n : 1..MaxTabs, id : Ids, env : Envs]

NeverSaved == [saved |-> FALSE, tabs |-> {}]
Saved(ts) == [saved |-> TRUE, tabs |-> ts]
TabStates == {NeverSaved} \cup {Saved(ts) : ts \in SUBSET Tab}

NoSwitch == [pc |-> "idle", done |-> {}, leaving |-> {}, wanted |-> {}]

VARIABLES
  pointer,    \* the backend's active environment
  disk,       \* saved tabs of each environment and connection
  launch,     \* connections each environment reopens
  activeId,   \* the environment the window shows
  tabs,       \* useTabs: tabs on screen
  active,     \* useConnections.active
  subscribed, \* connections with a save subscription
  armed,      \* of these, those whose debounced save is pending
  orphans,    \* pending saves of subscriptions that were detached
  suspended,  \* saveSuspended
  task,       \* opening a connection or a view
  reads,      \* the saved tabs it was given
  closing,    \* disconnecting a connection
  kids,       \* the views markDisconnected still has to tear down
  sw,         \* switchTo
  target,     \* the environment being entered
  window,     \* "open", or "closing" with the connections already flushed
  flushed,
  opened,     \* history: tabs opened so far
  closedTabs  \* history: tabs the user closed

backend == <<pointer, disk, launch>>
saving == <<subscribed, armed, orphans, suspended>>
switch == <<sw, target>>
win == <<window, flushed>>
history == <<opened, closedTabs>>
sessionsVars == <<backend, activeId, tabs, active, saving, task, reads, closing, kids,
          switch, win, history>>

SessionsTypeOK ==
  /\ pointer \in Envs /\ activeId \in Envs /\ target \in Envs
  /\ disk \in [Envs -> [Ids -> TabStates]]
  /\ launch \in [Envs -> SUBSET Conns]
  /\ tabs \subseteq Tab /\ closedTabs \subseteq Tab
  /\ active \subseteq Conns
  /\ subscribed \subseteq Ids /\ armed \subseteq subscribed /\ orphans \subseteq Ids
  /\ suspended \in BOOLEAN
  /\ task \in [Ids -> {"idle", "dialing", "restoring"}]
  /\ reads \in [Ids -> TabStates]
  /\ closing \in [Conns -> [pc : {"no", "flush", "pool", "children", "child"},
                            persist : BOOLEAN, child : SUBSET Views]]
  /\ kids \in [Conns -> SUBSET Views]
  /\ sw \in [pc : {"idle", "flush", "launch", "pointer", "enter", "teardown", "reconnect"},
             done : SUBSET Ids, leaving : SUBSET Conns, wanted : SUBSET Conns]
  /\ window \in {"open", "closing"}
  /\ flushed \subseteq Ids
  /\ opened \in 0..MaxTabs

NotClosing == [pc |-> "no", persist |-> FALSE, child |-> {}]

SessionsInit ==
  /\ pointer \in Envs
  /\ disk = [e \in Envs |-> [i \in Ids |-> NeverSaved]]
  /\ launch = [e \in Envs |-> {}]
  /\ activeId = pointer /\ target = pointer
  /\ tabs = {} /\ active = {} /\ subscribed = {} /\ armed = {} /\ orphans = {}
  /\ suspended = FALSE
  /\ task = [i \in Ids |-> "idle"]
  /\ reads = [i \in Ids |-> NeverSaved]
  /\ closing = [c \in Conns |-> NotClosing]
  /\ kids = [c \in Conns |-> {}]
  /\ sw = NoSwitch
  /\ window = "open" /\ flushed = {}
  /\ opened = 0 /\ closedTabs = {}

-----------------------------------------------------------------------------
(* Saving.                                                                 *)

TabsOf(i) == {t \in tabs : t.id = i}

\* saveTabState(i, snapshotFor(i)): written where the backend points.
SaveTabs(i) == disk' = [disk EXCEPT ![pointer][i] = Saved(TabsOf(i))]

\* The shared useTabs subscription: any change arms a save for every tracked id.
Arm(ids) == IF suspended THEN armed ELSE armed \cup ids

\* Mutant: the launch state is written whenever a connection comes or goes.
PersistLaunchAlways(live) == launch' = [launch EXCEPT ![pointer] = live]

\* persistLaunchState(active): nothing while saves are suspended.
PersistLaunch(live) ==
  launch' = IF suspended THEN launch ELSE [launch EXCEPT ![pointer] = live]

\* The debounced save fires, 600 ms after the last change.
TimerFires(i) ==
  /\ i \in armed \cup orphans
  /\ SaveTabs(i)
  /\ IF i \in armed
       THEN armed' = armed \ {i} /\ UNCHANGED orphans
       ELSE orphans' = orphans \ {i} /\ UNCHANGED armed
  /\ UNCHANGED <<pointer, launch, activeId, tabs, active, subscribed, suspended, task,
                 reads, closing, kids, switch, win, history>>

\* active.delete(i): a save armed since the last one was cancelled keeps its timer.
Detach(i) ==
  /\ subscribed' = subscribed \ {i}
  /\ orphans' = orphans \cup (armed \cap {i})

FlushAwaited(cs) ==
  \E c \in cs : closing[c].pc \in {"flush", "child"}

TabsMayChange == "flush" \in Races \/ ~FlushAwaited(Conns)

\* A disconnect closes tabs, which may be while another one waits for its save.
MayCloseTabs(c) == "flush" \in Races \/ ~FlushAwaited(Conns \ {c})

-----------------------------------------------------------------------------
(* Tabs.                                                                   *)

\* A pool the user can open a tab on: a live connection, or a view of it that is open.
Usable(i) == i \in active \cup (Views \cap subscribed)

OpenTab(i) ==
  /\ window = "open" /\ TabsMayChange
  /\ Usable(i) /\ opened < MaxTabs
  /\ opened' = opened + 1
  /\ tabs' = tabs \cup {[n |-> opened + 1, id |-> i, env |-> activeId]}
  /\ armed' = Arm(subscribed)
  /\ UNCHANGED <<backend, activeId, active, subscribed, orphans, suspended, task, reads,
                 closing, kids, switch, win, closedTabs>>

CloseTab(t) ==
  /\ window = "open" /\ TabsMayChange
  /\ t \in tabs
  /\ tabs' = tabs \ {t}
  /\ closedTabs' = closedTabs \cup {t}
  /\ armed' = Arm(subscribed)
  /\ UNCHANGED <<backend, activeId, active, subscribed, orphans, suspended, task, reads,
                 closing, kids, switch, win, opened>>

-----------------------------------------------------------------------------
(* Opening a connection (connect, hydrateTabState) or a database view      *)
(* (openTrackedDatabaseView).                                              *)

\* Nothing is being done to the connection or to its views.
Unattended(c) ==
  /\ task[c] = "idle" /\ closing[c].pc = "no"
  /\ \A v \in Views : Parent[v] = c => task[v] = "idle"

\* The phases of a switch during which the user connects or disconnects.
MayConnect(c, phases) == "connect" \in Races \/ (Unattended(c) /\ sw.pc \in phases)

StartDial(ids) == [i \in Ids |-> IF i \in ids THEN "dialing" ELSE task[i]]

Connect(c) ==
  /\ window = "open"
  /\ MayConnect(c, {"idle"}) /\ c \notin active /\ task[c] = "idle"
  /\ task' = StartDial({c})
  /\ UNCHANGED <<backend, activeId, tabs, active, saving, reads, closing, kids, switch,
                 win, history>>

\* The tree expands a database of a connected server.
OpenView(v) ==
  /\ window = "open"
  /\ MayConnect(Parent[v], {"idle", "reconnect"}) /\ Parent[v] \in active /\ task[v] = "idle"
  /\ task' = StartDial({v})
  /\ UNCHANGED <<backend, activeId, tabs, active, saving, reads, closing, kids, switch,
                 win, history>>

DialFails(i) ==
  /\ task[i] = "dialing"
  /\ task' = [task EXCEPT ![i] = "idle"]
  /\ UNCHANGED <<backend, activeId, tabs, active, saving, reads, closing, kids, switch,
                 win, history>>

\* The pool is open: markConnected, persistLaunchState, and get_tab_state is called.
ConnDialed(c) ==
  /\ task[c] = "dialing"
  /\ active' = active \cup {c}
  /\ PersistLaunch(active \cup {c})
  /\ reads' = [reads EXCEPT ![c] = disk[pointer][c]]
  /\ task' = [task EXCEPT ![c] = "restoring"]
  /\ UNCHANGED <<pointer, disk, activeId, tabs, saving, closing, kids, switch, win, history>>

\* A view is restored only the first time it is opened.
ViewDialed(v) ==
  /\ task[v] = "dialing"
  /\ IF v \in subscribed
       THEN task' = [task EXCEPT ![v] = "idle"] /\ UNCHANGED reads
       ELSE /\ reads' = [reads EXCEPT ![v] = disk[pointer][v]]
            /\ task' = [task EXCEPT ![v] = "restoring"]
  /\ UNCHANGED <<backend, activeId, tabs, active, saving, closing, kids, switch, win, history>>

\* The saved tabs arrive: they replace the connection's tabs, and its saves start.
Restored(i) ==
  /\ task[i] = "restoring" /\ TabsMayChange
  /\ task' = [task EXCEPT ![i] = "idle"]
  /\ reads' = [reads EXCEPT ![i] = NeverSaved]
  /\ IF reads[i].saved
       THEN /\ tabs' = (tabs \ TabsOf(i)) \cup reads[i].tabs
            /\ armed' = Arm(subscribed)
       ELSE UNCHANGED <<tabs, armed>>
  /\ subscribed' = subscribed \cup {i}
  /\ UNCHANGED <<backend, activeId, active, orphans, suspended, closing, kids, switch, win,
                 history>>

-----------------------------------------------------------------------------
(* disconnectAndClean: flush and detach, close the pool, tear the views    *)
(* down, close the tabs.                                                   *)

\* flushTabState(c) writes only when a save is armed.
Disconnect(c) ==
  /\ window = "open" /\ c \in active /\ closing[c].pc = "no"
  /\ MayConnect(c, {"idle"})
  /\ LET next(pc) ==
           closing' = [closing EXCEPT ![c] = [NotClosing EXCEPT !.pc = pc, !.persist = TRUE]]
     IN IF c \in armed
          THEN /\ SaveTabs(c) /\ next("flush")
               /\ armed' = armed \ {c}
               /\ UNCHANGED <<subscribed, orphans>>
          ELSE /\ Detach(c) /\ next("pool")
               /\ UNCHANGED <<disk, armed>>
  /\ UNCHANGED <<pointer, launch, activeId, tabs, active, suspended, task, reads, kids,
                 switch, win, history>>

FlushDone(c) ==
  /\ closing[c].pc = "flush"
  /\ Detach(c)
  /\ armed' = armed \ {c}
  /\ closing' = [closing EXCEPT ![c].pc = "pool"]
  /\ UNCHANGED <<backend, activeId, tabs, active, suspended, task, reads, kids, switch,
                 win, history>>

\* The backend has closed the pool and its views: markDisconnected begins.
PoolClosed(c) ==
  /\ closing[c].pc = "pool"
  /\ active' = active \ {c}
  /\ kids' = [kids EXCEPT ![c] = {v \in Views \cap subscribed : Parent[v] = c}]
  /\ closing' = [closing EXCEPT ![c].pc = "children"]
  /\ UNCHANGED <<backend, activeId, tabs, saving, task, reads, switch, win, history>>

\* flushTabState of a view, as far as its save.
ChildFlush(c, v) ==
  /\ closing[c].pc = "children" /\ v \in kids[c] \cap armed
  /\ SaveTabs(v)
  /\ armed' = armed \ {v}
  /\ closing' = [closing EXCEPT ![c].pc = "child", ![c].child = {v}]
  /\ UNCHANGED <<pointer, launch, activeId, tabs, active, subscribed, orphans, suspended,
                 task, reads, kids, switch, win, history>>

\* Its subscription goes, then its tabs, which arms a save for those that remain.
ChildGone(c, v) ==
  /\ v \in kids[c] /\ MayCloseTabs(c)
  /\ \/ closing[c].pc = "child" /\ closing[c].child = {v}
     \/ closing[c].pc = "children" /\ v \notin armed
  /\ Detach(v)
  /\ tabs' = tabs \ TabsOf(v)
  /\ armed' = Arm(subscribed) \ {v}
  /\ kids' = [kids EXCEPT ![c] = @ \ {v}]
  /\ closing' = [closing EXCEPT ![c].pc = "children", ![c].child = {}]
  /\ UNCHANGED <<backend, activeId, active, suspended, task, reads, switch, win, history>>

\* persistLaunchState unless several are torn down at once, then closeForConnection.
Disconnected(c) ==
  /\ closing[c].pc = "children" /\ kids[c] = {} /\ MayCloseTabs(c)
  /\ closing' = [closing EXCEPT ![c] = NotClosing]
  /\ IF closing[c].persist THEN PersistLaunch(active) ELSE UNCHANGED launch
  /\ tabs' = tabs \ TabsOf(c)
  /\ armed' = Arm(subscribed)
  /\ UNCHANGED <<pointer, disk, activeId, active, subscribed, orphans, suspended, task,
                 reads, kids, switch, win, history>>

-----------------------------------------------------------------------------
(* switchTo.                                                               *)

\* Mutant: the backend enters the other environment before this one is flushed.
SwitchPointsFirst(e) ==
  /\ window = "open"
  /\ sw.pc = "idle" /\ e # activeId
  /\ "connect" \in Races \/ \A c \in Conns : Unattended(c)
  /\ sw' = [NoSwitch EXCEPT !.pc = "flush", !.leaving = active]
  /\ target' = e /\ pointer' = e
  /\ UNCHANGED <<disk, launch, activeId, tabs, active, saving, task, reads, closing, kids,
                 win, history>>

Switch(e) ==
  /\ window = "open"
  /\ sw.pc = "idle" /\ e # activeId
  /\ "connect" \in Races \/ \A c \in Conns : Unattended(c)
  /\ sw' = [NoSwitch EXCEPT !.pc = "flush", !.leaving = active]
  /\ target' = e
  /\ UNCHANGED <<backend, activeId, tabs, active, saving, task, reads, closing, kids, win,
                 history>>

\* flushAllTabState: each tracked connection in turn, armed or not.
SwitchFlush(i) ==
  /\ sw.pc = "flush" /\ i \in subscribed \ sw.done
  /\ SaveTabs(i)
  /\ armed' = armed \ {i}
  /\ sw' = [sw EXCEPT !.done = @ \cup {i}]
  /\ UNCHANGED <<pointer, launch, activeId, tabs, active, subscribed, orphans, suspended,
                 task, reads, closing, kids, target, win, history>>

\* Mutant: the tabs are taken off the screen before saves are suspended.
SwitchSuspendLate ==
  /\ sw.pc = "flush" /\ subscribed \subseteq sw.done
  /\ suspended' = TRUE /\ armed' = subscribed
  /\ tabs' = {}
  /\ launch' = [launch EXCEPT ![pointer] = sw.leaving]
  /\ sw' = [sw EXCEPT !.pc = "launch", !.done = {}]
  /\ UNCHANGED <<pointer, disk, activeId, active, subscribed, orphans, task, reads, closing,
                 kids, target, win, history>>

\* suspendSaves, the tabs are taken off the screen, the launch state is saved.
SwitchSuspend ==
  /\ sw.pc = "flush" /\ subscribed \subseteq sw.done
  /\ suspended' = TRUE /\ armed' = {}
  /\ tabs' = {}
  /\ launch' = [launch EXCEPT ![pointer] = sw.leaving]
  /\ sw' = [sw EXCEPT !.pc = "launch", !.done = {}]
  /\ UNCHANGED <<pointer, disk, activeId, active, subscribed, orphans, task, reads, closing,
                 kids, target, win, history>>

\* setActiveEnvironment.
SwitchPoint ==
  /\ sw.pc = "launch"
  /\ pointer' = target
  /\ sw' = [sw EXCEPT !.pc = "pointer"]
  /\ UNCHANGED <<disk, launch, activeId, tabs, active, saving, task, reads, closing, kids,
                 target, win, history>>

\* applyIncomingEnvironment: the launch state is asked for.
SwitchEnter ==
  /\ sw.pc = "pointer"
  /\ activeId' = target
  /\ sw' = [sw EXCEPT !.pc = "enter", !.wanted = launch[pointer]]
  /\ UNCHANGED <<backend, tabs, active, saving, task, reads, closing, kids, target, win,
                 history>>

\* disconnectAndClean of every outgoing connection at once; no save is armed here.
SwitchTeardown ==
  /\ sw.pc = "enter"
  /\ sw' = [sw EXCEPT !.pc = "teardown"]
  /\ closing' = [c \in Conns |->
       IF c \in sw.leaving /\ closing[c].pc = "no"
         THEN [NotClosing EXCEPT !.pc = "pool"] ELSE closing[c]]
  /\ subscribed' = subscribed \ sw.leaving
  /\ armed' = armed \ sw.leaving
  /\ UNCHANGED <<backend, activeId, tabs, active, orphans, suspended, task, reads, kids,
                 target, win, history>>

\* Once all of them have settled: reconnectIncomingEnvironment.
SwitchReconnect ==
  /\ sw.pc = "teardown"
  /\ \A c \in sw.leaving : closing[c].pc = "no"
  /\ LET wanted == sw.wanted \ active IN
       /\ task' = StartDial({c \in wanted : task[c] = "idle"})
       /\ sw' = [sw EXCEPT !.pc = "reconnect", !.wanted = wanted]
  /\ UNCHANGED <<backend, activeId, tabs, active, saving, reads, closing, kids, target, win,
                 history>>

\* resumeSaves once every connect has settled; nothing is armed for what changed since.
SwitchEnd ==
  /\ sw.pc = "reconnect"
  /\ \A c \in sw.wanted : task[c] = "idle"
  /\ suspended' = FALSE
  /\ sw' = NoSwitch
  /\ UNCHANGED <<backend, activeId, tabs, active, subscribed, armed, orphans, task, reads,
                 closing, kids, target, win, history>>

-----------------------------------------------------------------------------
(* The window.                                                             *)

CloseRequested ==
  /\ window = "open"
  /\ "close" \in Races \/ sw.pc = "idle"
  /\ window' = "closing" /\ flushed' = {}
  /\ PersistLaunch(active)
  /\ UNCHANGED <<pointer, disk, activeId, tabs, active, saving, task, reads, closing, kids,
                 switch, history>>

\* flushAllTabState again: it does not ask whether saves are suspended.
CloseFlush(i) ==
  /\ window = "closing" /\ i \in subscribed \ flushed
  /\ SaveTabs(i)
  /\ armed' = armed \ {i}
  /\ flushed' = flushed \cup {i}
  /\ UNCHANGED <<pointer, launch, activeId, tabs, active, subscribed, orphans, suspended,
                 task, reads, closing, kids, switch, window, history>>

\* The next start: App.tsx restores what the active environment had live.  Unlike a
\* switch, this reconnect does not hold switchingTo.
Relaunch ==
  /\ activeId' = pointer /\ target' = pointer
  /\ tabs' = {} /\ active' = {} /\ subscribed' = {} /\ armed' = {} /\ orphans' = {}
  /\ suspended' = FALSE
  /\ task' = [i \in Ids |-> IF i \in launch[pointer] THEN "dialing" ELSE "idle"]
  /\ reads' = [i \in Ids |-> NeverSaved]
  /\ closing' = [c \in Conns |-> NotClosing]
  /\ kids' = [c \in Conns |-> {}]
  /\ sw' = NoSwitch
  /\ window' = "open" /\ flushed' = {}
  /\ UNCHANGED <<backend, history>>

Destroyed == window = "closing" /\ subscribed \subseteq flushed /\ Relaunch

Killed == Relaunch

SessionsNext ==
  \/ \E i \in Ids : \/ TimerFires(i) \/ OpenTab(i) \/ DialFails(i) \/ Restored(i)
                    \/ SwitchFlush(i) \/ CloseFlush(i)
  \/ \E t \in Tab : CloseTab(t)
  \/ \E c \in Conns : \/ Connect(c) \/ ConnDialed(c) \/ Disconnect(c) \/ FlushDone(c)
                      \/ PoolClosed(c) \/ Disconnected(c)
  \/ \E v \in Views : OpenView(v) \/ ViewDialed(v)
  \/ \E c \in Conns, v \in Views : ChildFlush(c, v) \/ ChildGone(c, v)
  \/ \E e \in Envs : Switch(e)
  \/ SwitchSuspend \/ SwitchPoint \/ SwitchEnter \/ SwitchTeardown \/ SwitchReconnect
  \/ SwitchEnd
  \/ CloseRequested \/ Destroyed \/ Killed

SessionsSpec == SessionsInit /\ [][SessionsNext]_sessionsVars

-----------------------------------------------------------------------------
(* Properties.                                                             *)

\* A tab that reached the disk stays there until the user closes it: no snapshot of a
\* session that is being torn down or rebuilt replaces the one the user left.
SavedStays ==
  [][\A e \in Envs, i \in Ids :
       disk[e][i].tabs \ disk'[e][i].tabs \subseteq closedTabs']_sessionsVars

\* Tabs are saved for the environment they were opened in.
SavedWhereOpened ==
  \A e \in Envs, i \in Ids : \A t \in disk[e][i].tabs : t.env = e

\* What an environment reopens changes only while it is on screen, and a switch writes
\* nothing but what was live in the environment it leaves when it began: not what is
\* left of it half way through the teardown, nor what came back first in the other one.
LaunchRemembered ==
  [][\A e \in Envs : launch'[e] # launch[e] =>
       e = activeId /\ (sw.pc # "idle" => e # target /\ launch'[e] = sw.leaving)]_sessionsVars
=============================================================================
