----------------------------- MODULE Preferences -----------------------------
(***************************************************************************)
(* The settings of the app (stores/preferences/preferences.ts).  Each      *)
(* window keeps a snapshot of all of them, read once when it opens.  A     *)
(* change goes into the snapshot, and the snapshot as a whole is saved     *)
(* 400 ms after the last change (debounce, lib/schedule.ts).               *)
(* update_preferences (commands/prefs.rs) stores it, writes it to disk and *)
(* broadcasts it; the main windows adopt what they hear, over their own.   *)
(*                                                                         *)
(* Windows: main windows, which run App, and the small ones for one tab or *)
(* for one server's pulse, which read the settings but hear no broadcast.  *)
(*                                                                         *)
(* Left out: what the settings do, the values they start from, the setting *)
(* taken over from an older version, how a file is replaced (StateFile).   *)
(***************************************************************************)
EXTENDS Naturals, Sequences

CONSTANTS
  MainWindows, SmallWindows,
  Settings,
  MaxChanges,   \* bound: settings changed
  NoSave,       \* no snapshot is waiting
  Coincidences  \* see CoincidenceKinds

(***************************************************************************)
(* slow      a save starts while another one is under way                  *)
(* echo      a window changes a setting while its last save is under way   *)
(* windows   a window changes a setting while another one's is under way   *)
(* boot      a setting changes while a window opens                        *)
(* small     a small window changes a setting after others changed some    *)
(* closing   a window closes before it saved                               *)
(***************************************************************************)
CoincidenceKinds == {"slow", "echo", "windows", "boot", "small", "closing"}

AllWindows == MainWindows \cup SmallWindows

Snapshots == [Settings -> 0..MaxChanges]

ASSUME PreferencesAssumption ==
  /\ MainWindows \cap SmallWindows = {}
  /\ MaxChanges \in Nat
  /\ NoSave \notin Snapshots
  /\ Coincidences \subseteq CoincidenceKinds

Defaults == [s \in Settings |-> 0]

VARIABLES
  windows,   \* each window: open, how its first read stands, whether it listens
  snapshots, \* prefs, in each window
  waiting,   \* the snapshot each window's debounce will save
  calls,     \* update_preferences under way, and how far each one is
  inMemory,  \* the snapshot in the app's memory
  onDisk,    \* prefs.json
  heard,     \* broadcasts on their way to each window
  changes,   \* how many changes were made
  wanted,    \* the last change made to each setting
  saveFailed \* a save failed, and the user was told

preferencesVars ==
  <<windows, snapshots, waiting, calls, inMemory, onDisk, heard, changes, wanted, saveFailed>>

ClosedWindow == [open |-> FALSE, read |-> "no", reply |-> NoSave, listens |-> FALSE]

WindowStates == [open : BOOLEAN, read : {"no", "answered", "done"},
                 reply : Snapshots \cup {NoSave}, listens : BOOLEAN]
SaveCalls == [from : AllWindows, prefs : Snapshots, at : {"sent", "stored", "written"}]

PreferencesTypeOK ==
  /\ windows \in [AllWindows -> WindowStates]
  /\ snapshots \in [AllWindows -> Snapshots]
  /\ waiting \in [AllWindows -> Snapshots \cup {NoSave}]
  /\ calls \in Seq(SaveCalls)
  /\ {inMemory, onDisk, wanted} \subseteq Snapshots
  /\ heard \in [AllWindows -> Seq(Snapshots)]
  /\ changes \in 0..MaxChanges /\ saveFailed \in BOOLEAN

PreferencesInit ==
  /\ windows = [w \in AllWindows |-> ClosedWindow]
  /\ snapshots = [w \in AllWindows |-> Defaults]
  /\ waiting = [w \in AllWindows |-> NoSave]
  /\ calls = <<>> /\ inMemory = Defaults /\ onDisk = Defaults
  /\ heard = [w \in AllWindows |-> <<>>]
  /\ changes = 0 /\ wanted = Defaults /\ saveFailed = FALSE

Unsaved(w) == waiting[w] # NoSave
Saving(w) ==
  \/ Unsaved(w)
  \/ \E i \in DOMAIN calls : calls[i].from = w
  \/ heard[w] # <<>>
Settled(w) == windows[w].open => windows[w].read = "done" /\ (w \in MainWindows => windows[w].listens)

-----------------------------------------------------------------------------
(* A window opens, reads the settings and, if it is a main one, listens.   *)

OpenWindow(w) ==
  /\ ~windows[w].open
  /\ "boot" \in Coincidences \/ \A v \in AllWindows : ~Saving(v)
  /\ windows' = [windows EXCEPT ![w].open = TRUE]
  /\ snapshots' = [snapshots EXCEPT ![w] = Defaults]
  /\ UNCHANGED <<waiting, calls, inMemory, onDisk, heard, changes, wanted, saveFailed>>

\* hydrate, in two steps: get_preferences answers, and the window takes the answer.
ReadAnswered(w) ==
  /\ windows[w].open /\ windows[w].read = "no"
  /\ windows' = [windows EXCEPT ![w].read = "answered", ![w].reply = inMemory]
  /\ UNCHANGED <<snapshots, waiting, calls, inMemory, onDisk, heard, changes, wanted, saveFailed>>

Hydrated(w) ==
  /\ windows[w].read = "answered"
  /\ windows' = [windows EXCEPT ![w].read = "done", ![w].reply = NoSave]
  /\ snapshots' = [snapshots EXCEPT ![w] = windows[w].reply]
  /\ UNCHANGED <<waiting, calls, inMemory, onDisk, heard, changes, wanted, saveFailed>>

\* startPrefsSyncBridge, which only App runs.
Listens(w) ==
  /\ w \in MainWindows /\ windows[w].open /\ ~windows[w].listens
  /\ windows' = [windows EXCEPT ![w].listens = TRUE]
  /\ UNCHANGED <<snapshots, waiting, calls, inMemory, onDisk, heard, changes, wanted, saveFailed>>

CloseWindow(w) ==
  /\ windows[w].open
  /\ "closing" \in Coincidences \/ ~Unsaved(w)
  /\ windows' = [windows EXCEPT ![w] = ClosedWindow]
  /\ waiting' = [waiting EXCEPT ![w] = NoSave]
  /\ heard' = [heard EXCEPT ![w] = <<>>]
  /\ UNCHANGED <<snapshots, calls, inMemory, onDisk, changes, wanted, saveFailed>>

-----------------------------------------------------------------------------
(* A setting changes.                                                      *)

MayChange(w) ==
  /\ "boot" \in Coincidences \/ \A v \in AllWindows : Settled(v)
  /\ "windows" \in Coincidences \/ \A v \in AllWindows \ {w} : ~Saving(v)
  /\ \/ "echo" \in Coincidences
     \/ heard[w] = <<>> /\ \A i \in DOMAIN calls : calls[i].from # w
  /\ w \in SmallWindows => "small" \in Coincidences \/ snapshots[w] = inMemory

Patched(prefs, S, v) == [s \in Settings |-> IF s \in S THEN v ELSE prefs[s]]

\* Mutant: a save that waits is left as it is.
ChangeKeepingFirst(w, S, v) ==
  /\ windows[w].open /\ MayChange(w) /\ changes < MaxChanges
  /\ changes' = changes + 1
  /\ snapshots' = [snapshots EXCEPT ![w] = Patched(@, S, v)]
  /\ waiting' = [waiting EXCEPT ![w] = IF @ = NoSave THEN snapshots'[w] ELSE @]
  /\ wanted' = Patched(wanted, S, v)
  /\ UNCHANGED <<windows, calls, inMemory, onDisk, heard, saveFailed>>

\* updateEditor and its like, and resetPrefs and resetAll, which put back the default.
ChangeSetting(w, S, v) ==
  /\ windows[w].open /\ MayChange(w) /\ changes < MaxChanges
  /\ changes' = changes + 1
  /\ snapshots' = [snapshots EXCEPT ![w] = Patched(@, S, v)]
  /\ waiting' = [waiting EXCEPT ![w] = snapshots'[w]]
  /\ wanted' = Patched(wanted, S, v)
  /\ UNCHANGED <<windows, calls, inMemory, onDisk, heard, saveFailed>>

\* The debounce's 400 ms are over.
SavePrefs(w) ==
  /\ Unsaved(w)
  /\ "slow" \in Coincidences \/ calls = <<>>
  /\ calls' = Append(calls, [from |-> w, prefs |-> waiting[w], at |-> "sent"])
  /\ waiting' = [waiting EXCEPT ![w] = NoSave]
  /\ UNCHANGED <<windows, snapshots, inMemory, onDisk, heard, changes, wanted, saveFailed>>

-----------------------------------------------------------------------------
(* update_preferences, and what the windows hear of it.                    *)

Over(i) == SubSeq(calls, 1, i - 1) \o SubSeq(calls, i + 1, Len(calls))

Store(i) ==
  /\ calls[i].at = "sent"
  /\ calls' = [calls EXCEPT ![i].at = "stored"]
  /\ inMemory' = calls[i].prefs
  /\ UNCHANGED <<windows, snapshots, waiting, onDisk, heard, changes, wanted, saveFailed>>

WritePrefs(i) ==
  /\ calls[i].at = "stored"
  /\ \/ /\ calls' = [calls EXCEPT ![i].at = "written"]
        /\ onDisk' = calls[i].prefs /\ UNCHANGED saveFailed
     \/ /\ calls' = Over(i)
        /\ saveFailed' = TRUE /\ UNCHANGED onDisk
  /\ UNCHANGED <<windows, snapshots, waiting, inMemory, heard, changes, wanted>>

Broadcast(i) ==
  /\ calls[i].at = "written" /\ calls' = Over(i)
  /\ heard' = [w \in AllWindows |-> IF windows[w].listens THEN Append(heard[w], calls[i].prefs)
                                                         ELSE heard[w]]
  /\ UNCHANGED <<windows, snapshots, waiting, inMemory, onDisk, changes, wanted, saveFailed>>

\* applyExternal: a save that waits keeps the snapshot it was given.
ApplyExternal(w) ==
  /\ heard[w] # <<>>
  /\ snapshots' = [snapshots EXCEPT ![w] = Head(heard[w])]
  /\ heard' = [heard EXCEPT ![w] = Tail(@)]
  /\ UNCHANGED <<windows, waiting, calls, inMemory, onDisk, changes, wanted, saveFailed>>

PreferencesNext ==
  \/ \E w \in AllWindows :
       \/ OpenWindow(w) \/ ReadAnswered(w) \/ Hydrated(w) \/ Listens(w) \/ CloseWindow(w)
       \/ \E S \in SUBSET Settings \ {{}}, v \in {0, changes + 1} : ChangeSetting(w, S, v)
       \/ SavePrefs(w) \/ ApplyExternal(w)
  \/ \E i \in DOMAIN calls : Store(i) \/ WritePrefs(i) \/ Broadcast(i)

PreferencesSpec == PreferencesInit /\ [][PreferencesNext]_preferencesVars

-----------------------------------------------------------------------------
(* Properties.                                                             *)

AtRest == ~saveFailed /\ \A w \in AllWindows : ~Saving(w)

\* Every save replaces all the settings, and yet, once everything has settled, each of
\* them is what the user last made it, whichever window that was in: in the app, on disk,
\* and in every main window.
SettingsStand ==
  AtRest =>
    /\ inMemory = wanted /\ onDisk = wanted
    /\ \A w \in MainWindows : windows[w].open /\ Settled(w) => snapshots[w] = wanted
=============================================================================
