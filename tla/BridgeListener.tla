-------------------------- MODULE BridgeListener --------------------------
(***************************************************************************)
(* The desktop app's half of the MCP bridge that decides whether there is  *)
(* a bridge: the preference, the listener that serves it and the discovery *)
(* file in which a sidecar finds the listener.                             *)
(*                                                                         *)
(* A listener stands for the port and the token of one start: neither is   *)
(* used again.  The preference, the handle and the file are each read and  *)
(* written on their own, so reconcile is a sequence of steps.              *)
(***************************************************************************)
EXTENDS Naturals

CONSTANTS
  Listeners,    \* identities for listeners; how often one can be started
  Reconcilers,  \* tasks that can run reconcile at the same time
  None          \* no listener

ASSUME ListenerAssumption == None \notin Listeners

VARIABLES
  up,         \* the app runs
  want,       \* preference connections.mcpBridge, in memory
  saved,      \* the same, on disk
  serving,    \* listeners that accept and serve connections
  handle,     \* AppState::mcp_bridge
  discovery,  \* the listener the discovery file names
  used,       \* listeners that have been started
  doing,      \* where each reconciler is
  desired,    \* the preference each reconciler read
  held        \* the handle each reconciler holds

listenerVars == <<up, want, saved, serving, handle, discovery, used,
                  doing, desired, held>>

\* Identities carry no meaning: one unused listener stands for all of them.
NewListener == CHOOSE l \in Listeners \ used : TRUE

Run(r, label) == doing' = [doing EXCEPT ![r] = label]
In(r, label) == doing[r] = label

ListenerInit ==
  /\ up = FALSE
  /\ want \in BOOLEAN
  /\ saved = want
  /\ serving = {}
  /\ handle = None
  /\ discovery = None
  /\ used = {}
  /\ doing = [r \in Reconcilers |-> "idle"]
  /\ desired = [r \in Reconcilers |-> FALSE]
  /\ held = [r \in Reconcilers |-> None]

-----------------------------------------------------------------------------
(* The process *)

\* The setup hook spawns a reconcile.
AppStarts(r) ==
  /\ ~up
  /\ up' = TRUE
  /\ want' = saved
  /\ Run(r, "readWant")
  /\ UNCHANGED <<saved, serving, handle, discovery, used, desired, held>>

\* The app quits or dies.  The file stays, unless the exit drops the handle.
AppStops ==
  /\ up
  /\ up' = FALSE
  /\ serving' = {}
  /\ handle' = None
  /\ discovery' \in {discovery, IF handle = None THEN discovery ELSE None}
  /\ doing' = [r \in Reconcilers |-> "idle"]
  /\ desired' = [r \in Reconcilers |-> FALSE]
  /\ held' = [r \in Reconcilers |-> None]
  /\ UNCHANGED <<want, saved, used>>

-----------------------------------------------------------------------------
(* update_preferences *)

UpdatePreferences(r, value) ==
  /\ up
  /\ In(r, "idle")
  /\ want' = value
  /\ desired' = [desired EXCEPT ![r] = value]
  /\ Run(r, "save")
  /\ UNCHANGED <<up, saved, serving, handle, discovery, used, held>>

\* A save that fails ends the command before it reconciles.
SavePreferences(r) ==
  /\ In(r, "save")
  /\ \/ saved' = desired[r] /\ Run(r, "readWant")
     \/ Run(r, "idle") /\ UNCHANGED saved
  /\ UNCHANGED <<up, want, serving, handle, discovery, used, desired, held>>

-----------------------------------------------------------------------------
(* reconcile *)

ReadWant(r) ==
  /\ In(r, "readWant")
  /\ desired' = [desired EXCEPT ![r] = want]
  /\ Run(r, "readRunning")
  /\ UNCHANGED <<up, want, saved, serving, handle, discovery, used, held>>

\* Mutant: a start does not look whether a listener runs.
CompareWantOnly(r) ==
  /\ In(r, "readRunning")
  /\ Run(r, IF desired[r] THEN "start"
            ELSE IF handle = None THEN "idle" ELSE "take")
  /\ UNCHANGED <<up, want, saved, serving, handle, discovery, used, desired, held>>

Compare(r) ==
  /\ In(r, "readRunning")
  /\ Run(r, IF desired[r] = (handle # None) THEN "idle"
            ELSE IF desired[r] THEN "start" ELSE "take")
  /\ UNCHANGED <<up, want, saved, serving, handle, discovery, used, desired, held>>

\* The handle leaves the state before it is dropped.
TakeHandle(r) ==
  /\ In(r, "take")
  /\ held' = [held EXCEPT ![r] = handle]
  /\ handle' = None
  /\ Run(r, IF handle = None THEN "idle" ELSE "drop")
  /\ UNCHANGED <<up, want, saved, serving, discovery, used, desired>>

\* Mutant: the accept loop and its connections go on.
DropUnpublishes(l) == serving' = serving /\ discovery' = None

\* BridgeHandle::drop cancels the accept loop and every connection it spawned,
\* and removes the discovery file, whichever listener it names.
DropHandle(l) == serving' = serving \ {l} /\ discovery' = None

DropTaken(r) ==
  /\ In(r, "drop")
  /\ DropHandle(held[r])
  /\ held' = [held EXCEPT ![r] = None]
  /\ Run(r, "idle")
  /\ UNCHANGED <<up, want, saved, handle, used, desired>>

\* start: bind, publish, spawn the accept loop; or an error that is logged.
StartListener(r) ==
  /\ In(r, "start")
  /\ \/ /\ Listeners \ used # {}
        /\ serving' = serving \cup {NewListener}
        /\ discovery' = NewListener
        /\ used' = used \cup {NewListener}
        /\ held' = [held EXCEPT ![r] = NewListener]
        /\ Run(r, "store")
     \/ Run(r, "idle") /\ UNCHANGED <<serving, discovery, used, held>>
  /\ UNCHANGED <<up, want, saved, handle, desired>>

\* The new handle replaces the one in the state, which is dropped.
StoreHandle(r) ==
  /\ In(r, "store")
  /\ handle' = held[r]
  /\ IF handle = None THEN UNCHANGED <<serving, discovery>> ELSE DropHandle(handle)
  /\ held' = [held EXCEPT ![r] = None]
  /\ Run(r, "idle")
  /\ UNCHANGED <<up, want, saved, used, desired>>

Reconcile(r) ==
  \/ SavePreferences(r) \/ ReadWant(r) \/ Compare(r) \/ TakeHandle(r)
  \/ DropTaken(r) \/ StartListener(r) \/ StoreHandle(r)

ListenerNext ==
  \E r \in Reconcilers :
    \/ AppStarts(r)
    \/ \E value \in BOOLEAN : UpdatePreferences(r, value)
    \/ Reconcile(r)

-----------------------------------------------------------------------------
(* Properties *)

ListenerTypeOK ==
  /\ up \in BOOLEAN /\ want \in BOOLEAN /\ saved \in BOOLEAN
  /\ serving \subseteq Listeners
  /\ used \subseteq Listeners
  /\ handle \in Listeners \cup {None}
  /\ discovery \in Listeners \cup {None}
  /\ doing \in [Reconcilers -> {"idle", "save", "readWant", "readRunning",
                                "take", "drop", "start", "store"}]
  /\ desired \in [Reconcilers -> BOOLEAN]
  /\ held \in [Reconcilers -> Listeners \cup {None}]

\* A listener the app holds serves, and a sidecar finds it in the file.
RunningDiscoverable ==
  handle # None => handle \in serving /\ discovery = handle

\* Once the preference is off, on disk too, and nothing is reconciling, no
\* listener fronts the user's databases any more.
StoppedWhenUnwanted ==
  ~want /\ ~saved /\ (\A r \in Reconcilers : In(r, "idle")) => serving = {}
=============================================================================
