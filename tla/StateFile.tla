----------------------------- MODULE StateFile -----------------------------
(***************************************************************************)
(* A state file of the app (profiles.json, tab_state.json, prefs.json, ...) *)
(* and the copy of it in memory.                                           *)
(*                                                                         *)
(* Every writer changes the copy under its lock and then replaces the file *)
(* through a temporary file with a fixed name.  Some files are written     *)
(* before the lock is given back (the profiles), others after, from a      *)
(* snapshot (tab state, preferences).  Other processes, such as the        *)
(* sidecar, read the file without a lock.                                  *)
(***************************************************************************)
EXTENDS Naturals, FiniteSets

CONSTANTS
  Writers,      \* tasks of the app that save
  Inodes,       \* files, by whatever name
  MaxVersions,  \* how often the state is changed in an instance
  None          \* no file, no writer

ASSUME FileAssumption ==
  /\ None \notin Writers \cup Inodes
  /\ MaxVersions \in Nat

VARIABLES
  underLock,  \* the file is written before its lock is given back
  running,    \* the app runs
  memory,     \* the version in memory, 0 being the defaults
  latest,     \* versions there have been
  guard,      \* the writer that holds the lock while it saves
  final,      \* the file under its name
  tmp,        \* the file under its temporary name
  bytes,      \* what each file holds: of which versions, and all of it or not
  pc,         \* where each writer is
  snapshot,   \* the version each writer saves
  fd,         \* the file each writer has open
  saved,      \* the last version whose save was reported as done
  reading,    \* the file a reader of another process has open
  seen        \* what somebody found when reading the file

appVars == <<underLock, memory, latest, saved>>
vars == <<underLock, running, memory, latest, guard, final, tmp, bytes, pc,
          snapshot, fd, saved, reading, seen>>

Versions == 1..MaxVersions
Empty == [of |-> {}, whole |-> FALSE]

\* What a file parses as: a version, or nothing when it was cut short or mixed.
Parsed(i) == IF bytes[i].whole THEN CHOOSE v \in bytes[i].of : TRUE ELSE 0

\* The version on disk, 0 if there is none.
Shown == IF final = None THEN 0 ELSE Parsed(final)

\* Reading the file, at once or through an open file i.
Look(i) == IF i = None THEN "missing" ELSE IF bytes[i].whole THEN "whole" ELSE "torn"

Unused == {i \in Inodes : /\ i # final /\ i # tmp /\ i # reading
                          /\ \A w \in Writers : fd[w] # i}
NewInode == CHOOSE i \in Unused : TRUE

Goto(w, label) == pc' = [pc EXCEPT ![w] = label]
At(w, label) == pc[w] = label

\* The lock is given back when the save ends, unless it was before.
Return(w) ==
  /\ Goto(w, "idle")
  /\ guard' = IF guard = w THEN None ELSE guard

Init ==
  /\ underLock \in BOOLEAN
  /\ running = TRUE
  /\ memory = 0
  /\ latest = 0
  /\ guard = None
  /\ final = None
  /\ tmp = None
  /\ bytes = [i \in Inodes |-> Empty]
  /\ pc = [w \in Writers |-> "idle"]
  /\ snapshot = [w \in Writers |-> 0]
  /\ fd = [w \in Writers |-> None]
  /\ saved = 0
  /\ reading = None
  /\ seen = "missing"

-----------------------------------------------------------------------------
(* A writer *)

\* The state is changed under the lock and a snapshot taken.
Change(w, holds) ==
  /\ running
  /\ At(w, "idle")
  /\ guard = None
  /\ latest < MaxVersions
  /\ latest' = latest + 1
  /\ memory' = latest + 1
  /\ snapshot' = [snapshot EXCEPT ![w] = latest + 1]
  /\ guard' = IF holds THEN w ELSE None
  /\ Goto(w, "create")
  /\ UNCHANGED <<underLock, running, final, tmp, bytes, fd, saved, reading, seen>>

\* Mutant: the lock is given back before the file is written.
MutateAndRelease(w) == Change(w, FALSE)

Mutate(w) == Change(w, underLock)

\* Mutant: the file is written under its own name.
CreateInPlace(w) ==
  /\ At(w, "create")
  /\ Unused # {}
  /\ fd' = [fd EXCEPT ![w] = IF final = None THEN NewInode ELSE final]
  /\ final' = fd'[w]
  /\ bytes' = [bytes EXCEPT ![fd'[w]] = Empty]
  /\ Goto(w, "write")
  /\ UNCHANGED <<appVars, running, guard, tmp, snapshot, reading, seen>>

\* File::create truncates what is under the temporary name, or makes it.
Create(w) ==
  /\ At(w, "create")
  /\ tmp = None => Unused # {}
  /\ fd' = [fd EXCEPT ![w] = IF tmp = None THEN NewInode ELSE tmp]
  /\ tmp' = fd'[w]
  /\ bytes' = [bytes EXCEPT ![fd'[w]] = Empty]
  /\ Goto(w, "write")
  /\ UNCHANGED <<appVars, running, guard, final, snapshot, reading, seen>>

\* A part of the bytes is in the file.
Write(w) ==
  /\ At(w, "write")
  /\ bytes' = [bytes EXCEPT ![fd[w]] = [of |-> @.of \cup {snapshot[w]}, whole |-> FALSE]]
  /\ Goto(w, "sync")
  /\ UNCHANGED <<appVars, running, guard, final, tmp, snapshot, fd, reading, seen>>

\* All of them are, and synced.  Over the bytes of another version they make a
\* version only if they cover those.
Sync(w) ==
  LET own == [of |-> {snapshot[w]}, whole |-> TRUE]
      mix == [of |-> bytes[fd[w]].of \cup {snapshot[w]}, whole |-> FALSE]
  IN
  /\ At(w, "sync")
  /\ \/ bytes' = [bytes EXCEPT ![fd[w]] = own]
     \/ /\ bytes[fd[w]].of # {snapshot[w]}
        /\ bytes' = [bytes EXCEPT ![fd[w]] = mix]
  /\ fd' = [fd EXCEPT ![w] = None]
  /\ Goto(w, "remove")
  /\ UNCHANGED <<appVars, running, guard, final, tmp, snapshot, reading, seen>>

\* Mutant: a save that fails is taken for one that is done.
WriteFailsSilently(w) ==
  /\ pc[w] \in {"create", "write", "sync"}
  /\ fd' = [fd EXCEPT ![w] = None]
  /\ saved' = snapshot[w]
  /\ Return(w)
  /\ UNCHANGED <<underLock, running, memory, latest, final, tmp, bytes, snapshot,
                 reading, seen>>

\* The file cannot be created, written or synced: the temporary file stays.
WriteFails(w) ==
  /\ pc[w] \in {"create", "write", "sync"}
  /\ fd' = [fd EXCEPT ![w] = None]
  /\ Return(w)
  /\ UNCHANGED <<appVars, running, final, tmp, bytes, snapshot, reading, seen>>

\* The previous file is removed; a failure to do so is ignored.
Remove(w) ==
  /\ At(w, "remove")
  /\ final' \in {final, None}
  /\ Goto(w, "rename")
  /\ UNCHANGED <<appVars, running, guard, tmp, bytes, snapshot, fd, reading, seen>>

\* The temporary file takes the name.
Rename(w) ==
  /\ At(w, "rename")
  /\ tmp # None
  /\ final' = tmp
  /\ tmp' = None
  /\ saved' = snapshot[w]
  /\ Return(w)
  /\ UNCHANGED <<underLock, running, memory, latest, bytes, snapshot, fd, reading, seen>>

\* The system refuses, or there is no such file: it is removed.
RenameFails(w) ==
  /\ At(w, "rename")
  /\ tmp' = None
  /\ Return(w)
  /\ UNCHANGED <<appVars, running, final, bytes, snapshot, fd, reading, seen>>

Save(w) ==
  \/ Create(w) \/ Write(w) \/ Sync(w) \/ WriteFails(w)
  \/ Remove(w) \/ Rename(w) \/ RenameFails(w)

-----------------------------------------------------------------------------
(* The process, and another one that reads *)

\* The app is killed, or quits: what its writers have not done stays undone.
Stop ==
  /\ running
  /\ running' = FALSE
  /\ guard' = None
  /\ pc' = [w \in Writers |-> "idle"]
  /\ fd' = [w \in Writers |-> None]
  /\ UNCHANGED <<appVars, final, tmp, bytes, snapshot, reading, seen>>

\* AppState::new reads the file; without one it starts from the defaults.
Restart ==
  /\ ~running
  /\ running' = TRUE
  /\ memory' = Shown
  /\ seen' = Look(final)
  /\ UNCHANGED <<underLock, latest, guard, final, tmp, bytes, pc, snapshot, fd,
                 saved, reading>>

\* read_bytes and load_profiles: is there a file, open it...
OpenFile ==
  /\ reading = None
  /\ reading' = final
  /\ seen' = IF final = None THEN "missing" ELSE seen
  /\ UNCHANGED <<appVars, running, guard, final, tmp, bytes, pc, snapshot, fd>>

\* ...and read it, by whatever name it goes by now, or by none.
ReadFile ==
  /\ reading # None
  /\ seen' = Look(reading)
  /\ reading' = None
  /\ UNCHANGED <<appVars, running, guard, final, tmp, bytes, pc, snapshot, fd>>

Next ==
  \/ \E w \in Writers : Mutate(w) \/ Save(w)
  \/ Stop \/ Restart
  \/ OpenFile \/ ReadFile

Spec == Init /\ [][Next]_vars

-----------------------------------------------------------------------------
(* Properties *)

\* Whoever reads a file that is saved under its lock, at start or from another
\* process, finds a whole version or no file, wherever a save was cut short.
ReadsWhole == underLock => seen # "torn"

\* The version on disk never goes back to an earlier one.
NeverGoesBack ==
  [][underLock /\ Shown # 0 /\ Shown' # 0 => Shown' >= Shown]_vars

\* A change whose save was reported as done is what the next start finds, until
\* the next save begins.
SavedIsOnDisk ==
  underLock /\ guard = None /\ saved = memory /\ saved # 0 => Shown = saved

\* Being killed in the middle of a save does not destroy what was there.
KilledKeepsFile == underLock /\ ~running /\ saved # 0 => final # None
=============================================================================
