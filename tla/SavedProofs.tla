---------------------------- MODULE SavedProofs -----------------------------
(***************************************************************************)
(* What is saved is whole and stays: a file saved under its lock is never  *)
(* torn and never goes back, for any number of writers, changes and crashes; *)
(* and the tabs and connections an environment reopens are those the user  *)
(* left there, for any number of environments, connections and views.      *)
(***************************************************************************)
EXTENDS StateFile, Sessions, TLAPS

-----------------------------------------------------------------------------
(***************************************************************************)
(* StateFile.                                                              *)
(***************************************************************************)

USE FileAssumption

Labels == {"idle", "create", "write", "sync", "remove", "rename"}
Names == Inodes \cup {None}

TypeOK ==
  /\ underLock \in BOOLEAN /\ running \in BOOLEAN
  /\ memory \in Nat /\ latest \in Nat /\ saved \in Nat
  /\ guard \in Writers \cup {None}
  /\ final \in Names /\ tmp \in Names /\ reading \in Names
  /\ bytes \in [Inodes -> [of : SUBSET Nat, whole : BOOLEAN]]
  /\ pc \in [Writers -> Labels]
  /\ snapshot \in [Writers -> Nat]
  /\ fd \in [Writers -> Names]
  /\ \A w \in Writers : pc[w] \in {"write", "sync"} => fd[w] # None
  /\ \A i \in Inodes : bytes[i].whole => bytes[i].of # {}
  /\ ~running => \A w \in Writers : pc[w] = "idle"

\* File i holds all of version v and nothing else.
Complete(i, v) == bytes[i].whole /\ bytes[i].of = {v}

\* Only the holder of the lock saves, and what it saves is the newest version,
\* which has not been reported as saved.
OneSaver ==
  /\ \A w \in Writers : guard = w <=> pc[w] # "idle"
  /\ \A w \in Writers : pc[w] # "idle" =>
       snapshot[w] = latest /\ memory = latest /\ saved < latest
  /\ saved <= latest /\ memory <= latest

\* The file under its name is complete and is not the one being written.
Published ==
  /\ final # None => final # tmp /\ \E v \in 1..latest : Complete(final, v)
  /\ reading # None => reading # tmp /\ bytes[reading].whole

\* The temporary file is the saver's, and holds its version when it is closed.
Written ==
  \A w \in Writers :
    /\ pc[w] \in {"write", "sync"} => fd[w] = tmp
    /\ pc[w] = "sync" => bytes[tmp].of = {snapshot[w]}
    /\ pc[w] \in {"remove", "rename"} => tmp # None /\ Complete(tmp, snapshot[w])
    /\ pc[w] = "write" => bytes[tmp].of = {}

IInv ==
  /\ TypeOK
  /\ underLock => OneSaver /\ Published /\ Written
  /\ ReadsWhole
  /\ SavedIsOnDisk

LEMMA ParsedComplete ==
  ASSUME NEW i, NEW v, Complete(i, v)
  PROVE  Parsed(i) = v
BY DEF Complete, Parsed

LEMMA NewInodeUnused ==
  ASSUME Unused # {}
  PROVE  /\ NewInode \in Inodes
         /\ NewInode # final /\ NewInode # tmp /\ NewInode # reading
         /\ \A w \in Writers : fd[w] # NewInode
BY DEF NewInode, Unused

LEMMA Initially == Init => IInv
BY DEF Init, IInv, TypeOK, OneSaver, Published, Written, ReadsWhole, SavedIsOnDisk,
       Labels, Names, Empty

LEMMA MutateStep ==
  ASSUME IInv, NEW w \in Writers, Mutate(w)
  PROVE  IInv'
<1> USE DEF Mutate, Change, Goto, At
<1>0. TypeOK /\ (underLock => OneSaver /\ Published /\ Written)
  BY DEF IInv
<1>1. TypeOK'
  BY <1>0 DEF TypeOK, Labels
<1>2. ASSUME underLock PROVE OneSaver' /\ Published' /\ Written'
  <2>1. OneSaver'
    BY <1>0, <1>2 DEF OneSaver, TypeOK
  <2>2. Published'
    BY <1>0, <1>2 DEF Published, TypeOK, Complete
  <2>3. Written'
    BY <1>0, <1>2 DEF Written, OneSaver, TypeOK, Complete
  <2> QED
    BY <2>1, <2>2, <2>3
<1>3. ReadsWhole' /\ SavedIsOnDisk'
  BY <1>0 DEF IInv, ReadsWhole, SavedIsOnDisk, OneSaver, TypeOK
<1> QED
  BY <1>1, <1>2, <1>3 DEF IInv

\* A step of the saver that leaves the shown file and the lock alone.
LEMMA CreateStep ==
  ASSUME IInv, NEW w \in Writers, Create(w)
  PROVE  IInv'
<1> USE DEF Create, Goto, At, appVars
<1>0. TypeOK /\ (underLock => OneSaver /\ Published /\ Written)
  BY DEF IInv
<1>1. PICK i \in Inodes :
        /\ i # final \/ i = tmp
        /\ i # reading \/ i = tmp
        /\ fd' = [fd EXCEPT ![w] = i] /\ tmp' = i /\ bytes' = [bytes EXCEPT ![i] = Empty]
  BY <1>0, NewInodeUnused DEF TypeOK, Names
<1>2. TypeOK'
  BY <1>0, <1>1 DEF TypeOK, Labels, Names, Empty
<1>3. ASSUME underLock PROVE OneSaver' /\ Published' /\ Written'
  <2>1. OneSaver'
    BY <1>0, <1>3 DEF OneSaver, TypeOK
  <2>2. final # i /\ reading # i
    BY <1>0, <1>1, <1>3 DEF Published, TypeOK, Names
  <2>3. Published'
    BY <1>0, <1>1, <1>3, <2>2 DEF Published, TypeOK, Names, Complete
  <2>4. \A u \in Writers \ {w} : pc[u] = "idle"
    BY <1>0, <1>3 DEF OneSaver
  <2>5. Written'
    BY <1>0, <1>1, <1>3, <2>4 DEF Written, TypeOK, Complete, Empty
  <2> QED
    BY <2>1, <2>3, <2>5
<1>4. ReadsWhole' /\ SavedIsOnDisk'
  BY <1>0 DEF IInv, ReadsWhole, SavedIsOnDisk, OneSaver, TypeOK
<1> QED
  BY <1>2, <1>3, <1>4 DEF IInv

LEMMA WriteStep ==
  ASSUME IInv, NEW w \in Writers, Write(w)
  PROVE  IInv'
<1> USE DEF Write, Goto, At, appVars
<1>0. TypeOK /\ (underLock => OneSaver /\ Published /\ Written)
  BY DEF IInv
<1>1. PICK i \in Inodes : i = fd[w]
  BY <1>0 DEF TypeOK, Names
<1>2. bytes' = [bytes EXCEPT ![i] = [of |-> bytes[i].of \cup {snapshot[w]}, whole |-> FALSE]]
  BY <1>0, <1>1 DEF TypeOK
<1>3. TypeOK'
  <2> DEFINE part == [of |-> bytes[i].of \cup {snapshot[w]}, whole |-> FALSE]
  <2>1. part \in [of : SUBSET Nat, whole : BOOLEAN] /\ ~part.whole
    BY <1>0 DEF TypeOK
  <2> HIDE DEF part
  <2>2. bytes' = [bytes EXCEPT ![i] = part]
    BY <1>2 DEF part
  <2> QED
    BY <1>0, <2>1, <2>2 DEF TypeOK, Labels
<1>4. ASSUME underLock PROVE OneSaver' /\ Published' /\ Written'
  <2>1. OneSaver'
    BY <1>0, <1>4 DEF OneSaver, TypeOK
  <2>2. i = tmp /\ bytes[i].of = {}
    BY <1>0, <1>1, <1>4 DEF Written
  <2>3. Published'
    BY <1>0, <1>2, <1>4, <2>2 DEF Published, TypeOK, Names, Complete
  <2>4. \A u \in Writers \ {w} : pc[u] = "idle"
    BY <1>0, <1>4 DEF OneSaver
  <2>5. Written'
    BY <1>0, <1>1, <1>2, <1>4, <2>2, <2>4 DEF Written, TypeOK, Complete
  <2> QED
    BY <2>1, <2>3, <2>5
<1>5. ReadsWhole' /\ SavedIsOnDisk'
  BY <1>0 DEF IInv, ReadsWhole, SavedIsOnDisk, OneSaver, TypeOK
<1> QED
  BY <1>3, <1>4, <1>5 DEF IInv

LEMMA SyncStep ==
  ASSUME IInv, NEW w \in Writers, Sync(w)
  PROVE  IInv'
<1> USE DEF Sync, Goto, At, appVars
<1>0. TypeOK /\ (underLock => OneSaver /\ Published /\ Written)
  BY DEF IInv
<1>1. PICK i \in Inodes : i = fd[w]
  BY <1>0 DEF TypeOK, Names
<1>2. PICK b \in [of : SUBSET Nat, whole : BOOLEAN] :
        bytes' = [bytes EXCEPT ![i] = b] /\ b.of # {}
  <2>1. snapshot[w] \in Nat /\ bytes[i].of \in SUBSET Nat
    BY <1>0 DEF TypeOK
  <2>2. /\ [of |-> {snapshot[w]}, whole |-> TRUE] \in [of : SUBSET Nat, whole : BOOLEAN]
        /\ [of |-> bytes[i].of \cup {snapshot[w]}, whole |-> FALSE]
             \in [of : SUBSET Nat, whole : BOOLEAN]
    BY <2>1
  <2>3. \/ bytes' = [bytes EXCEPT ![i] = [of |-> {snapshot[w]}, whole |-> TRUE]]
        \/ bytes' = [bytes EXCEPT ![i] = [of |-> bytes[i].of \cup {snapshot[w]},
                                         whole |-> FALSE]]
    BY <1>1
  <2> QED
    BY <2>2, <2>3
<1>3. TypeOK'
  BY <1>0, <1>2 DEF TypeOK, Labels, Names
<1>4. ASSUME underLock PROVE OneSaver' /\ Published' /\ Written'
  <2>1. OneSaver'
    BY <1>0, <1>4 DEF OneSaver, TypeOK
  <2>2. i = tmp /\ bytes[i].of = {snapshot[w]}
    BY <1>0, <1>1, <1>4 DEF Written
  <2>3. Published'
    BY <1>0, <1>2, <1>4, <2>2 DEF Published, TypeOK, Names, Complete
  <2>4. \A u \in Writers \ {w} : pc[u] = "idle"
    BY <1>0, <1>4 DEF OneSaver
  <2>5. bytes' = [bytes EXCEPT ![i] = [of |-> {snapshot[w]}, whole |-> TRUE]]
    BY <1>1, <2>2
  <2>6. Complete(tmp, snapshot[w])' /\ tmp' # None
    BY <1>0, <2>2, <2>5 DEF Complete, TypeOK
  <2>7. pc' = [u \in Writers |-> IF u = w THEN "remove" ELSE pc[u]]
    BY <1>0 DEF TypeOK
  <2>8. Written'
    BY <2>4, <2>6, <2>7 DEF Written, Complete
  <2> QED
    BY <2>1, <2>3, <2>8
<1>5. ReadsWhole' /\ SavedIsOnDisk'
  BY <1>0 DEF IInv, ReadsWhole, SavedIsOnDisk, OneSaver, TypeOK
<1> QED
  BY <1>3, <1>4, <1>5 DEF IInv

LEMMA RemoveStep ==
  ASSUME IInv, NEW w \in Writers, Remove(w)
  PROVE  IInv'
<1> USE DEF Remove, Goto, At, appVars
<1>0. TypeOK /\ (underLock => OneSaver /\ Published /\ Written)
  BY DEF IInv
<1>1. TypeOK'
  BY <1>0 DEF TypeOK, Labels, Names
<1>2. ASSUME underLock PROVE OneSaver' /\ Published' /\ Written'
  <2>1. OneSaver'
    BY <1>0, <1>2 DEF OneSaver, TypeOK
  <2>2. Published'
    BY <1>0, <1>2 DEF Published, Complete
  <2>3. Written'
    BY <1>0, <1>2 DEF Written, TypeOK, Complete
  <2> QED
    BY <2>1, <2>2, <2>3
<1>3. ReadsWhole' /\ SavedIsOnDisk'
  BY <1>0 DEF IInv, ReadsWhole, SavedIsOnDisk, OneSaver, TypeOK
<1> QED
  BY <1>1, <1>2, <1>3 DEF IInv

LEMMA RenameStep ==
  ASSUME IInv, NEW w \in Writers, Rename(w)
  PROVE  IInv' /\ (underLock => Shown' = latest)
<1> USE DEF Rename, Return, Goto, At
<1>0. TypeOK /\ (underLock => OneSaver /\ Published /\ Written)
  BY DEF IInv
<1>1. TypeOK'
  BY <1>0 DEF TypeOK, Labels, Names
<1>2. ASSUME underLock PROVE OneSaver' /\ Published' /\ Written' /\ Shown' = latest
  <2>1. /\ Complete(tmp, latest)
        /\ snapshot[w] = latest /\ saved < latest /\ latest \in 1..latest
    BY <1>0, <1>2 DEF Written, OneSaver, TypeOK
  <2>2. guard = w /\ guard' = None /\ \A u \in Writers : pc'[u] = "idle"
    BY <1>0, <1>2 DEF OneSaver, TypeOK
  <2>3. OneSaver'
    BY <1>0, <1>2, <2>1, <2>2 DEF OneSaver, TypeOK
  <2>4. Published'
    BY <1>0, <1>2, <2>1 DEF Published, Complete
  <2>5. Written'
    BY <2>2 DEF Written
  <2>6. Shown' = latest
    BY <1>0, <2>1 DEF Complete, Shown, Parsed
  <2> QED
    BY <2>3, <2>4, <2>5, <2>6
<1>3. ReadsWhole' /\ SavedIsOnDisk'
  BY <1>0, <1>2 DEF IInv, ReadsWhole, SavedIsOnDisk, OneSaver, TypeOK
<1> QED
  BY <1>1, <1>2, <1>3 DEF IInv

\* A save that fails gives the lock back and leaves the shown file alone.
LEMMA FailureStep ==
  ASSUME IInv, NEW w \in Writers, WriteFails(w) \/ RenameFails(w)
  PROVE  IInv'
<1> USE DEF WriteFails, RenameFails, Return, Goto, At, appVars
<1>0. TypeOK /\ (underLock => OneSaver /\ Published /\ Written)
  BY DEF IInv
<1>1. TypeOK'
  BY <1>0 DEF TypeOK, Labels, Names
<1>2. ASSUME underLock PROVE OneSaver' /\ Published' /\ Written'
  <2>1. guard = w /\ guard' = None /\ \A u \in Writers : pc'[u] = "idle"
    BY <1>0, <1>2 DEF OneSaver, TypeOK
  <2>2. OneSaver'
    BY <1>0, <1>2, <2>1 DEF OneSaver
  <2>3. Published'
    BY <1>0, <1>2 DEF Published, Complete
  <2>4. Written'
    BY <2>1 DEF Written
  <2> QED
    BY <2>2, <2>3, <2>4
<1>3. ReadsWhole' /\ SavedIsOnDisk'
  BY <1>0 DEF IInv, ReadsWhole, SavedIsOnDisk, OneSaver, TypeOK
<1> QED
  BY <1>1, <1>2, <1>3 DEF IInv

LEMMA ProcessSteps ==
  ASSUME IInv, Stop \/ Restart \/ OpenFile \/ ReadFile
  PROVE  IInv'
<1> USE DEF appVars
<1>0. TypeOK /\ (underLock => OneSaver /\ Published /\ Written) /\ ReadsWhole /\ SavedIsOnDisk
  BY DEF IInv
<1>1. CASE Stop
  <2>1. TypeOK' /\ ReadsWhole'
    BY <1>0, <1>1 DEF Stop, TypeOK, Labels, Names, ReadsWhole
  <2>2. ASSUME underLock PROVE OneSaver' /\ Published' /\ Written'
    BY <1>0, <1>1, <2>2 DEF Stop, OneSaver, Published, Written, Complete
  <2>3. SavedIsOnDisk'
    BY <1>0, <1>1 DEF Stop, SavedIsOnDisk, OneSaver, TypeOK, Shown, Parsed
  <2> QED
    BY <1>1, <2>1, <2>2, <2>3 DEF IInv, Stop
<1>2. CASE Restart
  <2>1. Shown \in Nat
    BY <1>0 DEF TypeOK, Names, Shown, Parsed
  <2>2. TypeOK'
    BY <1>0, <1>2, <2>1 DEF Restart, TypeOK
  <2>3. ASSUME underLock PROVE OneSaver' /\ Published' /\ Written' /\ Look(final) # "torn"
    <3>1. final # None => \E v \in 1..latest : Complete(final, v)
      BY <1>0, <2>3 DEF Published
    <3>2. Shown <= latest /\ Look(final) # "torn"
      <4>1. CASE final = None
        BY <1>0, <4>1 DEF Shown, Look, TypeOK
      <4>2. CASE final # None
        <5>1. PICK v \in 1..latest : Complete(final, v)
          BY <3>1, <4>2
        <5>2. Shown = v /\ v <= latest
          BY <1>0, <4>2, <5>1, ParsedComplete DEF Shown, TypeOK
        <5> QED
          BY <4>2, <5>1, <5>2 DEF Look, Complete
      <4> QED
        BY <4>1, <4>2
    <3>3. OneSaver'
      BY <1>0, <1>2, <2>1, <2>3, <3>2 DEF Restart, OneSaver, TypeOK
    <3>4. Published' /\ Written'
      BY <1>0, <1>2, <2>3 DEF Restart, Published, Written, Complete
    <3> QED
      BY <3>2, <3>3, <3>4
  <2>4. ReadsWhole' /\ SavedIsOnDisk'
    BY <1>2, <2>3 DEF Restart, ReadsWhole, SavedIsOnDisk, Shown, Parsed
  <2> QED
    BY <1>2, <2>2, <2>3, <2>4 DEF IInv, Restart
<1>3. CASE OpenFile
  <2>1. TypeOK' /\ ReadsWhole'
    BY <1>0, <1>3 DEF OpenFile, TypeOK, Names, ReadsWhole
  <2>2. ASSUME underLock PROVE OneSaver' /\ Published' /\ Written'
    BY <1>0, <1>3, <2>2 DEF OpenFile, OneSaver, Published, Written, Complete
  <2>3. SavedIsOnDisk'
    BY <1>0, <1>3 DEF OpenFile, SavedIsOnDisk, Shown, Parsed
  <2> QED
    BY <1>3, <2>1, <2>2, <2>3 DEF IInv, OpenFile
<1>4. CASE ReadFile
  <2>1. TypeOK'
    BY <1>0, <1>4 DEF ReadFile, TypeOK, Names
  <2>2. ReadsWhole'
    BY <1>0, <1>4 DEF ReadFile, ReadsWhole, Published, Look
  <2>3. ASSUME underLock PROVE OneSaver' /\ Published' /\ Written'
    BY <1>0, <1>4, <2>3 DEF ReadFile, OneSaver, Published, Written, Complete
  <2>4. SavedIsOnDisk'
    BY <1>0, <1>4 DEF ReadFile, SavedIsOnDisk, Shown, Parsed
  <2> QED
    BY <1>4, <2>1, <2>2, <2>3, <2>4 DEF IInv, ReadFile
<1> QED
  BY <1>1, <1>2, <1>3, <1>4

-----------------------------------------------------------------------------
LEMMA Inductive == IInv /\ [Next]_vars => IInv'
<1> SUFFICES ASSUME IInv, [Next]_vars PROVE IInv'
  OBVIOUS
<1>1. CASE UNCHANGED vars
  BY <1>1 DEF vars, IInv, TypeOK, OneSaver, Published, Written, Complete, ReadsWhole,
              SavedIsOnDisk, Shown, Parsed
<1>2. ASSUME NEW w \in Writers, Mutate(w) \/ Save(w)
      PROVE  IInv'
  BY <1>2, MutateStep, CreateStep, WriteStep, SyncStep, RemoveStep, RenameStep,
     FailureStep DEF Save
<1>3. CASE Stop \/ Restart \/ OpenFile \/ ReadFile
  BY <1>3, ProcessSteps
<1> QED
  BY <1>1, <1>2, <1>3 DEF Next

\* The inductive invariant of a file and its writers.
THEOREM Invariant == Spec => []IInv
BY Initially, Inductive, PTL DEF Spec

\* Nobody reads a torn profiles.json: write_atomic, run under the lock, shows
\* whole versions only, whatever fails or is killed.
THEOREM NeverTorn == Spec => []ReadsWhole
<1>1. IInv => ReadsWhole
  BY DEF IInv
<1> QED
  BY <1>1, Invariant, PTL

\* A save reported as done is what is on disk until the next one begins.
THEOREM Durable == Spec => []SavedIsOnDisk
<1>1. IInv => SavedIsOnDisk
  BY DEF IInv
<1> QED
  BY <1>1, Invariant, PTL

\* Only Rename makes another version the one on disk.
LEMMA LeftAlone ==
  ASSUME IInv, underLock, Next, \A w \in Writers : ~Rename(w)
  PROVE  final' \in {final, None} /\ (final # None => bytes'[final] = bytes[final])
<1> USE DEF Goto, At, Return, appVars
<1>0. TypeOK /\ OneSaver /\ Published /\ Written
  BY DEF IInv
<1>1. CASE Stop \/ Restart \/ OpenFile \/ ReadFile
  BY <1>1 DEF Stop, Restart, OpenFile, ReadFile
<1>2. ASSUME NEW w \in Writers, Mutate(w) \/ WriteFails(w) \/ Remove(w) \/ RenameFails(w)
      PROVE  final' \in {final, None} /\ bytes' = bytes
  BY <1>2 DEF Mutate, Change, WriteFails, Remove, RenameFails
<1>3. ASSUME NEW w \in Writers, Write(w) \/ Sync(w)
      PROVE  final' = final /\ (final # None => bytes'[final] = bytes[final])
  <2>1. final # None => fd[w] # final
    BY <1>0, <1>3 DEF Write, Sync, Published, Written
  <2>2. \E b : bytes' = [bytes EXCEPT ![fd[w]] = b]
    BY <1>3 DEF Write, Sync
  <2> QED
    BY <1>0, <1>3, <2>1, <2>2 DEF Write, Sync, TypeOK, Names
<1>4. ASSUME NEW w \in Writers, Create(w)
      PROVE  final' = final /\ (final # None => bytes'[final] = bytes[final])
  <2>1. PICK i \in Inodes :
          (i # final \/ i = tmp) /\ bytes' = [bytes EXCEPT ![i] = Empty]
    BY <1>0, <1>4, NewInodeUnused DEF Create, TypeOK, Names
  <2>2. final # None => final # i
    BY <1>0, <2>1 DEF Published
  <2> QED
    BY <1>0, <1>4, <2>1, <2>2 DEF Create, TypeOK, Names
<1> QED
  BY <1>1, <1>2, <1>3, <1>4 DEF Next, Save

\* Saves reach the disk in the order of the changes.
THEOREM InOrder == Spec => NeverGoesBack
<1> DEFINE Forward == underLock /\ Shown # 0 /\ Shown' # 0 => Shown' >= Shown
<1>1. IInv /\ [Next]_vars => [Forward]_vars
  <2> SUFFICES ASSUME IInv, Next, underLock, Shown # 0, Shown' # 0
               PROVE  Shown' >= Shown
    OBVIOUS
  <2>1. PICK v \in 1..latest : final # None /\ Complete(final, v)
    BY DEF IInv, Published, Shown
  <2>2. Shown = v /\ latest \in Nat /\ v \in Nat
    BY <2>1, ParsedComplete DEF IInv, TypeOK, Shown
  <2>3. CASE \E w \in Writers : Rename(w)
    BY <2>2, <2>3, RenameStep
  <2>4. CASE \A w \in Writers : ~Rename(w)
    <3>1. final' = final /\ bytes'[final] = bytes[final]
      BY <2>1, <2>4, LeftAlone DEF Shown
    <3>2. Shown' = v
      BY <2>1, <3>1 DEF Shown, Parsed, Complete
    <3> QED
      BY <2>2, <3>2
  <2> QED
    BY <2>3, <2>4
<1> QED
  BY <1>1, Invariant, PTL DEF Spec, NeverGoesBack

\* What the gap between removing a file and renaming its successor takes to hurt:
\* the app is killed in it, or the rename at its end is refused.
Gapless ==
  /\ Stop => \A w \in Writers : ~At(w, "rename")
  /\ \A w \in Writers : ~RenameFails(w)

\* Outside the gap the version on disk is the last one reported as saved, or newer.
Kept == underLock /\ (\A w \in Writers : ~At(w, "rename")) => Shown >= saved

\* Only the two ends of the gap change which version is on disk.
LEMMA ShownStays ==
  ASSUME IInv, underLock, Next, \A w \in Writers : ~Rename(w) /\ ~Remove(w)
  PROVE  Shown' = Shown
<1>1. final' = final
  BY DEF Next, Save, Mutate, Change, Create, Write, Sync, WriteFails, RenameFails, Stop,
         Restart, OpenFile, ReadFile
<1>2. final # None => bytes'[final] = bytes[final]
  BY LeftAlone
<1>3. CASE final = None
  BY <1>1, <1>3 DEF Shown
<1>4. CASE final # None
  <2>1. PICK v : Complete(final, v)
    BY <1>4 DEF IInv, Published
  <2>2. Shown = v
    BY <1>4, <2>1 DEF Shown, Parsed, Complete
  <2>3. Shown' = v
    BY <1>1, <1>2, <1>4, <2>1 DEF Shown, Parsed, Complete
  <2> QED
    BY <2>2, <2>3
<1> QED
  BY <1>3, <1>4

\* A writer in the gap is in it until it renames, and reports nothing till then.
LEMMA StaysInGap ==
  ASSUME IInv, Next, Gapless, \A w \in Writers : ~Rename(w)
  PROVE  /\ saved' = saved /\ underLock' = underLock
         /\ \A w \in Writers : At(w, "rename") => At(w, "rename")'
<1> USE DEF At, Goto, Return, appVars
<1>0. pc \in [Writers -> Labels]
  BY DEF IInv, TypeOK
<1>1. CASE Stop
  BY <1>1 DEF Stop, Gapless
<1>2. CASE Restart \/ OpenFile \/ ReadFile
  BY <1>2 DEF Restart, OpenFile, ReadFile
<1>3. ASSUME NEW w \in Writers, Mutate(w) \/ Save(w)
      PROVE  /\ saved' = saved /\ underLock' = underLock
             /\ \A u \in Writers : At(u, "rename") => At(u, "rename")'
  <2>1. ~Rename(w) /\ ~RenameFails(w)
    BY DEF Gapless
  <2>2. saved' = saved /\ underLock' = underLock
    BY <1>3, <2>1 DEF Mutate, Change, Save, Create, Write, Sync, WriteFails, Remove
  <2>3. pc[w] # "rename" /\ \E l : pc' = [pc EXCEPT ![w] = l]
    BY <1>3, <2>1 DEF Mutate, Change, Save, Create, Write, Sync, WriteFails, Remove
  <2> QED
    BY <1>0, <2>2, <2>3
<1> QED
  BY <1>1, <1>2, <1>3 DEF Next

LEMMA KeptStep == IInv /\ Kept /\ [Next]_vars /\ [Gapless]_vars => Kept'
<1> SUFFICES ASSUME IInv, Kept, [Next]_vars, [Gapless]_vars PROVE Kept'
  OBVIOUS
<1>1. CASE UNCHANGED vars
  BY <1>1 DEF vars, Kept, Shown, Parsed, At
<1>2. ASSUME NEW w \in Writers, Rename(w) PROVE Kept'
  <2>1. underLock' = underLock /\ (underLock => Shown' = latest) /\ latest' = latest
    BY <1>2, RenameStep DEF Rename
  <2>2. underLock' => saved' <= latest'
    BY <1>2, RenameStep DEF IInv, OneSaver
  <2>3. latest' \in Nat /\ saved' \in Nat
    BY <1>2, RenameStep DEF IInv, TypeOK
  <2> QED
    BY <2>1, <2>2, <2>3 DEF Kept
<1>3. ASSUME Next, Gapless, \A w \in Writers : ~Rename(w), underLock',
             \A w \in Writers : ~At(w, "rename")'
      PROVE  Shown' >= saved'
  <2>1. /\ saved' = saved /\ underLock
        /\ \A w \in Writers : ~At(w, "rename")
    BY <1>3, StaysInGap
  <2>2. ASSUME NEW w \in Writers, Remove(w) PROVE FALSE
    <3>1. pc'[w] = "rename"
      BY <2>2 DEF Remove, Goto, IInv, TypeOK
    <3> QED
      BY <1>3, <3>1 DEF At
  <2>3. Shown' = Shown
    BY <1>3, <2>1, <2>2, ShownStays
  <2> QED
    BY <2>1, <2>3 DEF Kept
<1> QED
  BY <1>1, <1>2, <1>3 DEF Kept, vars

\* Unless the app is killed between the two, or the rename is refused, removing
\* the file before its successor takes its name loses nothing: whenever the app is
\* not running, the last version it reported as saved, or a newer one, is on disk.
THEOREM KeptOutsideTheGap ==
  Spec /\ [][Gapless]_vars => [](underLock /\ ~running => Shown >= saved)
<1>1. Init => Kept
  BY DEF Init, Kept, Shown, At
<1>2. IInv /\ Kept => (underLock /\ ~running => Shown >= saved)
  BY DEF IInv, TypeOK, Kept, At
<1> QED
  BY <1>1, <1>2, KeptStep, Invariant, PTL DEF Spec

\* In particular there is a file then.
THEOREM KilledOutsideTheGap == Spec /\ [][Gapless]_vars => []KilledKeepsFile
<1>1. IInv /\ (underLock /\ ~running => Shown >= saved) => KilledKeepsFile
  BY DEF IInv, TypeOK, KilledKeepsFile, Shown
<1> QED
  BY <1>1, KeptOutsideTheGap, Invariant, PTL

HIDE FileAssumption

-----------------------------------------------------------------------------
(***************************************************************************)
(* Sessions.                                                               *)
(***************************************************************************)

USE SessionsAssumption

\* The connection a pool belongs to.
Family(i) == IF i \in Views THEN Parent[i] ELSE i

\* The window and the backend agree on the environment except between two steps of a switch,
\* during most of which nothing is opened or closed; saves are suspended from the last flush
\* until the incoming connections have settled.
PhaseFits ==
  /\ sw.pc # "pointer" => activeId = pointer
  /\ sw.pc \in {"flush", "launch"} => target # activeId
  /\ sw.pc = "pointer" => pointer = target
  /\ sw.pc \notin {"idle", "reconnect"} => \A i \in Ids : task[i] = "idle"
  /\ sw.pc \notin {"idle", "teardown"} => \A c \in Conns : closing[c].pc = "no"
  /\ sw.pc \in {"flush", "launch", "pointer", "enter"} => active = sw.leaving
  /\ sw.pc = "teardown" =>
       /\ \A c \in Conns \ sw.leaving : closing[c].pc = "no"
       /\ \A c \in active : c \in sw.leaving /\ closing[c].pc = "pool"
  /\ suspended <=> sw.pc \notin {"idle", "flush"}
  /\ suspended => armed = {}
  /\ orphans = {}
  /\ window = "closing" => sw.pc = "idle"

TearsViews(c) == closing[c].pc \in {"children", "child"}

\* A connection's tabs are saved only while it is live, and not while it is being closed; and
\* nothing is opened on what is being closed.
ConnFits(c) ==
  /\ c \in subscribed => c \in active /\ closing[c].pc \in {"no", "flush"}
  /\ closing[c].pc \in {"flush", "pool"} => c \in active
  /\ closing[c].pc = "flush" => c \notin armed
  /\ closing[c].pc = "child" => closing[c].child \cap armed = {}
  /\ ~TearsViews(c) => kids[c] = {}
  /\ task[c] = "dialing" => c \notin active
  /\ task[c] = "restoring" => c \in active
  /\ task[c] # "idle" => closing[c].pc = "no"

\* A view's tabs are saved while its connection is live, or until the view is torn down.
ViewFits(v) ==
  /\ v \in subscribed => IF TearsViews(Parent[v]) THEN v \in kids[Parent[v]]
                         ELSE Parent[v] \in active
  /\ task[v] # "idle" => Parent[v] \in active /\ closing[Parent[v]].pc = "no"

\* What is about to be restored is still what is saved.
ReadFits(i) ==
  IF task[i] = "restoring" THEN i \notin subscribed /\ reads[i] = disk[pointer][i]
  ELSE reads[i] = NeverSaved

\* A tab that goes with a connection the switch leaves.
LeavesWith(t) ==
  LET c == Family(t.id) IN
  /\ c \in sw.leaving
  /\ sw.pc = "teardown" => closing[c].pc # "no"
  /\ t.id \in Views => IF TearsViews(c) THEN t.id \in kids[c] ELSE t.id \in subscribed

\* The tabs on screen are of the environment the backend points to, but for those opened
\* after the last flush of a switch, which go with their connections.
TabFits(t) ==
  /\ t.env = pointer \/ (sw.pc \in {"pointer", "enter", "teardown"} /\ LeavesWith(t))
  /\ sw.pc = "launch" => LeavesWith(t)

\* What is saved for a connection is on screen, or was closed by the user.
OnScreen(i) == disk[pointer][i].tabs \subseteq TabsOf(i) \cup closedTabs

\* Before and after a switch that is true of all whose tabs are being saved.
AllOnScreen == sw.pc \in {"idle", "flush", "reconnect"} => \A i \in subscribed : OnScreen(i)

DiskFits ==
  \A e \in Envs, i \in Ids : \A t \in disk[e][i].tabs : t.id = i /\ t.env = e

SavedInv ==
  /\ SessionsTypeOK
  /\ PhaseFits
  /\ \A c \in Conns : ConnFits(c)
  /\ \A v \in Views : ViewFits(v)
  /\ \A i \in Ids : ReadFits(i)
  /\ \A t \in tabs : TabFits(t)
  /\ AllOnScreen /\ DiskFits

-----------------------------------------------------------------------------
(* Types.                                                                  *)

Closings ==
  [pc : {"no", "flush", "pool", "children", "child"}, persist : BOOLEAN, child : SUBSET Views]
Switches ==
  [pc : {"idle", "flush", "launch", "pointer", "enter", "teardown", "reconnect"},
   done : SUBSET Ids, leaving : SUBSET Conns, wanted : SUBSET Conns]

\* What is used all the time of saved tabs, teardowns and switches.
LEMMA SessionTypes ==
  /\ \A ts \in SUBSET Tab : Saved(ts) \in TabStates /\ Saved(ts).saved /\ Saved(ts).tabs = ts
  /\ NeverSaved \in TabStates /\ ~NeverSaved.saved /\ NeverSaved.tabs = {}
  /\ \A r \in TabStates : r.tabs \subseteq Tab /\ (~r.saved => r.tabs = {})
  /\ NotClosing \in Closings /\ NotClosing.pc = "no" /\ NoSwitch \in Switches
  /\ NoSwitch.pc = "idle"
<1>1. \A ts \in SUBSET Tab : Saved(ts) \in TabStates /\ Saved(ts).saved /\ Saved(ts).tabs = ts
  BY DEF Saved, TabStates
<1>2. NeverSaved \in TabStates /\ ~NeverSaved.saved /\ NeverSaved.tabs = {}
  BY DEF NeverSaved, TabStates
<1>3. \A r \in TabStates : r.tabs \subseteq Tab /\ (~r.saved => r.tabs = {})
  BY <1>1, <1>2 DEF TabStates
<1>4. NotClosing \in Closings /\ NotClosing.pc = "no"
  BY DEF NotClosing, Closings
<1>5. NoSwitch \in Switches /\ NoSwitch.pc = "idle"
  BY DEF NoSwitch, Switches
<1> QED
  BY <1>1, <1>2, <1>3, <1>4, <1>5

\* Saved tabs are saved for one pool, in the environment the backend points to.
LEMMA SaveTypes ==
  ASSUME SessionsTypeOK, NEW i \in Ids, SaveTabs(i)
  PROVE  /\ disk' \in [Envs -> [Ids -> TabStates]]
         /\ disk'[pointer][i].tabs = TabsOf(i)
         /\ \A e \in Envs, j \in Ids : e # pointer \/ j # i => disk'[e][j] = disk[e][j]
<1>1. TabsOf(i) \subseteq Tab
  BY DEF SessionsTypeOK, TabsOf
<1>2. Saved(TabsOf(i)) \in TabStates /\ Saved(TabsOf(i)).tabs = TabsOf(i)
  BY <1>1, SessionTypes
<1>3. disk \in [Envs -> [Ids -> TabStates]] /\ pointer \in Envs
  BY DEF SessionsTypeOK
<1> QED
  BY <1>2, <1>3 DEF SaveTabs

LEMMA ArmTypes ==
  ASSUME SessionsTypeOK
  PROVE  Arm(subscribed) \subseteq subscribed
  BY DEF SessionsTypeOK, Arm

LEMMA TabTypes ==
  ASSUME SessionsTypeOK,
         \/ \E i \in Ids : OpenTab(i) \/ TimerFires(i) \/ CloseFlush(i) \/ SwitchFlush(i)
         \/ \E t \in Tab : CloseTab(t)
         \/ CloseRequested
  PROVE  SessionsTypeOK'
<1>1. ASSUME NEW i \in Ids, OpenTab(i) PROVE SessionsTypeOK'
  <2>1. [n |-> opened + 1, id |-> i, env |-> activeId] \in Tab /\ opened' \in 0..MaxTabs
    BY <1>1 DEF SessionsTypeOK, OpenTab, Tab
  <2> QED
    BY <1>1, <2>1, ArmTypes DEF SessionsTypeOK, OpenTab, backend, switch, win
<1>2. ASSUME NEW i \in Ids, TimerFires(i) PROVE SessionsTypeOK'
  <2>1. disk' \in [Envs -> [Ids -> TabStates]]
    BY <1>2, SaveTypes DEF TimerFires
  <2> QED
    BY <1>2, <2>1 DEF SessionsTypeOK, TimerFires, switch, win, history
<1>3. ASSUME NEW i \in Ids, CloseFlush(i) PROVE SessionsTypeOK'
  <2>1. disk' \in [Envs -> [Ids -> TabStates]]
    BY <1>3, SaveTypes DEF CloseFlush
  <2> QED
    BY <1>3, <2>1 DEF SessionsTypeOK, CloseFlush, switch, history
<1>4. ASSUME NEW i \in Ids, SwitchFlush(i) PROVE SessionsTypeOK'
  <2>1. disk' \in [Envs -> [Ids -> TabStates]]
    BY <1>4, SaveTypes DEF SwitchFlush
  <2>2. sw' \in Switches
    BY <1>4 DEF SessionsTypeOK, SwitchFlush, Switches
  <2> QED
    BY <1>4, <2>1, <2>2 DEF SessionsTypeOK, SwitchFlush, win, history, Switches
<1>5. ASSUME NEW t \in Tab, CloseTab(t) PROVE SessionsTypeOK'
  BY <1>5, ArmTypes DEF SessionsTypeOK, CloseTab, backend, switch, win
<1>6. CASE CloseRequested
  BY <1>6 DEF SessionsTypeOK, CloseRequested, PersistLaunch, saving, switch, history
<1> QED
  BY <1>1, <1>2, <1>3, <1>4, <1>5, <1>6

LEMMA OpenTypes ==
  ASSUME SessionsTypeOK,
         \/ \E i \in Ids : DialFails(i) \/ Restored(i)
         \/ \E c \in Conns : Connect(c) \/ ConnDialed(c)
         \/ \E v \in Views : OpenView(v) \/ ViewDialed(v)
  PROVE  SessionsTypeOK'
<1>1. ASSUME NEW i \in Ids, DialFails(i) PROVE SessionsTypeOK'
  BY <1>1 DEF SessionsTypeOK, DialFails, backend, saving, switch, win, history
<1>2. ASSUME NEW i \in Ids, Restored(i) PROVE SessionsTypeOK'
  <2>1. reads' \in [Ids -> TabStates]
    BY <1>2, SessionTypes DEF SessionsTypeOK, Restored
  <2>2. tabs' \subseteq Tab /\ armed' \subseteq subscribed'
    BY <1>2, SessionTypes, ArmTypes DEF SessionsTypeOK, Restored
  <2> QED
    BY <1>2, <2>1, <2>2 DEF SessionsTypeOK, Restored, backend, switch, win, history
<1>3. ASSUME NEW c \in Conns, Connect(c) PROVE SessionsTypeOK'
  BY <1>3 DEF SessionsTypeOK, Connect, StartDial, backend, saving, switch, win, history
<1>4. ASSUME NEW c \in Conns, ConnDialed(c) PROVE SessionsTypeOK'
  <2>1. c \in Ids
    BY DEF Ids
  <2>2. reads' \in [Ids -> TabStates] /\ launch' \in [Envs -> SUBSET Conns]
    BY <1>4, <2>1 DEF SessionsTypeOK, ConnDialed, PersistLaunch
  <2> QED
    BY <1>4, <2>1, <2>2 DEF SessionsTypeOK, ConnDialed, saving, switch, win, history
<1>5. ASSUME NEW v \in Views, OpenView(v) PROVE SessionsTypeOK'
  BY <1>5 DEF SessionsTypeOK, OpenView, StartDial, backend, saving, switch, win, history
<1>6. ASSUME NEW v \in Views, ViewDialed(v) PROVE SessionsTypeOK'
  <2>1. v \in Ids
    BY DEF Ids
  <2>2. reads' \in [Ids -> TabStates]
    BY <1>6, <2>1 DEF SessionsTypeOK, ViewDialed
  <2> QED
    BY <1>6, <2>1, <2>2 DEF SessionsTypeOK, ViewDialed, backend, saving, switch, win, history
<1> QED
  BY <1>1, <1>2, <1>3, <1>4, <1>5, <1>6

LEMMA CloseTypes ==
  ASSUME SessionsTypeOK, NEW c \in Conns,
         \/ Disconnect(c) \/ FlushDone(c) \/ PoolClosed(c) \/ Disconnected(c)
         \/ \E v \in Views : ChildFlush(c, v) \/ ChildGone(c, v)
  PROVE  SessionsTypeOK'
<1>1. closing \in [Conns -> Closings] /\ c \in Ids
  BY DEF SessionsTypeOK, Closings, Ids
<1>2. closing' \in [Conns -> Closings]
  <2>1. \A at \in {"flush", "pool"} :
          [NotClosing EXCEPT !.pc = at, !.persist = TRUE] \in Closings
    BY DEF NotClosing, Closings
  <2>2. CASE Disconnect(c)
    BY <1>1, <2>1, <2>2 DEF Disconnect
  <2>3. CASE FlushDone(c) \/ PoolClosed(c)
    BY <1>1, <2>3 DEF FlushDone, PoolClosed, Closings
  <2>4. CASE Disconnected(c)
    BY <1>1, <2>4, SessionTypes DEF Disconnected
  <2>5. CASE \E v \in Views : ChildFlush(c, v) \/ ChildGone(c, v)
    BY <1>1, <2>5 DEF ChildFlush, ChildGone, Closings
  <2> QED
    BY <2>2, <2>3, <2>4, <2>5
<1>3. CASE Disconnect(c)
  <2>1. disk' \in [Envs -> [Ids -> TabStates]]
    BY <1>1, <1>3, SaveTypes DEF Disconnect, SessionsTypeOK
  <2>2. armed' \subseteq subscribed' /\ subscribed' \subseteq Ids /\ orphans' \subseteq Ids
    BY <1>3 DEF Disconnect, Detach, SessionsTypeOK
  <2> QED
    BY <1>2, <1>3, <2>1, <2>2 DEF SessionsTypeOK, Disconnect, Closings, switch, win, history
<1>4. CASE FlushDone(c)
  BY <1>2, <1>4 DEF SessionsTypeOK, FlushDone, Detach, Closings, backend, switch, win, history
<1>5. CASE PoolClosed(c)
  BY <1>2, <1>5 DEF SessionsTypeOK, PoolClosed, Closings, backend, saving, switch, win, history
<1>6. CASE Disconnected(c)
  <2>1. launch' \in [Envs -> SUBSET Conns]
    BY <1>6 DEF SessionsTypeOK, Disconnected, PersistLaunch
  <2> QED
    BY <1>2, <1>6, <2>1, ArmTypes
    DEF SessionsTypeOK, Disconnected, Closings, switch, win, history
<1>7. ASSUME NEW v \in Views, ChildFlush(c, v) PROVE SessionsTypeOK'
  <2>1. disk' \in [Envs -> [Ids -> TabStates]]
    BY <1>7, SaveTypes DEF ChildFlush, Ids
  <2> QED
    BY <1>2, <1>7, <2>1 DEF SessionsTypeOK, ChildFlush, Closings, switch, win, history
<1>8. ASSUME NEW v \in Views, ChildGone(c, v) PROVE SessionsTypeOK'
  <2>1. kids' \in [Conns -> SUBSET Views]
    BY <1>8 DEF SessionsTypeOK, ChildGone
  <2> QED
    BY <1>2, <1>8, <2>1, ArmTypes
    DEF SessionsTypeOK, ChildGone, Detach, Closings, backend, switch, win, history
<1> QED
  BY <1>3, <1>4, <1>5, <1>6, <1>7, <1>8

LEMMA SwitchTypes ==
  ASSUME SessionsTypeOK,
         \/ \E e \in Envs : Switch(e)
         \/ SwitchSuspend \/ SwitchPoint \/ SwitchEnter \/ SwitchTeardown \/ SwitchReconnect
         \/ SwitchEnd \/ Relaunch
  PROVE  SessionsTypeOK'
<1>1. sw \in Switches /\ closing \in [Conns -> Closings] /\ active \subseteq Conns
      /\ launch[pointer] \subseteq Conns
  BY DEF SessionsTypeOK, Switches, Closings
<1>2. ASSUME NEW e \in Envs, Switch(e) PROVE SessionsTypeOK'
  <2>1. sw' \in Switches
    BY <1>1, <1>2 DEF Switch, NoSwitch, Switches
  <2> QED
    BY <1>2, <2>1 DEF SessionsTypeOK, Switch, Switches, backend, saving, win, history
<1>3. CASE SwitchSuspend
  <2>1. sw' \in Switches
    BY <1>1, <1>3 DEF SwitchSuspend, Switches
  <2>2. launch' \in [Envs -> SUBSET Conns]
    BY <1>1, <1>3 DEF SessionsTypeOK, SwitchSuspend, Switches
  <2> QED
    BY <1>3, <2>1, <2>2 DEF SessionsTypeOK, SwitchSuspend, Switches, win, history
<1>4. CASE SwitchPoint
  <2>1. sw' \in Switches
    BY <1>1, <1>4 DEF SwitchPoint, Switches
  <2> QED
    BY <1>4, <2>1 DEF SessionsTypeOK, SwitchPoint, Switches, saving, win, history
<1>5. CASE SwitchEnter
  <2>1. sw' \in Switches
    BY <1>1, <1>5 DEF SwitchEnter, Switches
  <2> QED
    BY <1>5, <2>1 DEF SessionsTypeOK, SwitchEnter, Switches, backend, saving, win, history
<1>6. CASE SwitchTeardown
  <2>1. sw' \in Switches
    BY <1>1, <1>6 DEF SwitchTeardown, Switches
  <2>2. [NotClosing EXCEPT !.pc = "pool"] \in Closings
    BY DEF NotClosing, Closings
  <2>3. closing' \in [Conns -> Closings]
    BY <1>1, <1>6, <2>2 DEF SwitchTeardown
  <2> QED
    BY <1>6, <2>1, <2>3
    DEF SessionsTypeOK, SwitchTeardown, Switches, Closings, backend, win, history
<1>7. CASE SwitchReconnect
  <2>1. sw' \in Switches
    BY <1>1, <1>7 DEF SwitchReconnect, Switches
  <2>2. task' \in [Ids -> {"idle", "dialing", "restoring"}]
    BY <1>7 DEF SessionsTypeOK, SwitchReconnect, StartDial
  <2> QED
    BY <1>7, <2>1, <2>2
    DEF SessionsTypeOK, SwitchReconnect, Switches, backend, saving, win, history
<1>8. CASE SwitchEnd
  <2>1. sw' \in Switches
    BY <1>8, SessionTypes DEF SwitchEnd
  <2> QED
    BY <1>8, <2>1 DEF SessionsTypeOK, SwitchEnd, Switches, backend, win, history
<1>9. CASE Relaunch
  <2>1. sw' \in Switches /\ closing' \in [Conns -> Closings] /\ reads' \in [Ids -> TabStates]
    BY <1>9, SessionTypes DEF Relaunch
  <2>2. task' \in [Ids -> {"idle", "dialing", "restoring"}]
    BY <1>9 DEF Relaunch
  <2> QED
    BY <1>9, <2>1, <2>2 DEF SessionsTypeOK, Relaunch, Switches, Closings, backend, history
<1> QED
  BY <1>2, <1>3, <1>4, <1>5, <1>6, <1>7, <1>8, <1>9

LEMMA SessionTypesStep ==
  ASSUME SessionsTypeOK, [SessionsNext]_sessionsVars
  PROVE  SessionsTypeOK'
<1>1. CASE UNCHANGED sessionsVars
  BY <1>1 DEF sessionsVars, backend, saving, switch, win, history, SessionsTypeOK
<1>2. CASE SessionsNext
  BY <1>2, TabTypes, OpenTypes, CloseTypes, SwitchTypes DEF SessionsNext, Destroyed, Killed
<1> QED
  BY <1>1, <1>2

-----------------------------------------------------------------------------
(* What the steps leave alone.                                             *)

LEMMA PhaseKept ==
  ASSUME PhaseFits, suspended => armed' = {},
         UNCHANGED <<sw, pointer, activeId, target, task, closing, active, suspended, orphans,
                     window>>
  PROVE  PhaseFits'
  BY DEF PhaseFits

LEMMA ConnsKept ==
  ASSUME \A c \in Conns : ConnFits(c), UNCHANGED <<subscribed, active, closing, kids, task>>,
         \/ armed' \subseteq armed
         \/ \A c \in Conns : closing[c].pc \notin {"flush", "child"}
  PROVE  \A c \in Conns : ConnFits(c)'
  BY DEF ConnFits, TearsViews

LEMMA ViewsKept ==
  ASSUME \A v \in Views : ViewFits(v), UNCHANGED <<subscribed, active, closing, kids, task>>
  PROVE  \A v \in Views : ViewFits(v)'
  BY DEF ViewFits, TearsViews

LEMMA ReadsKept ==
  ASSUME \A i \in Ids : ReadFits(i), UNCHANGED <<task, reads, subscribed, disk, pointer>>
  PROVE  \A i \in Ids : ReadFits(i)'
  BY DEF ReadFits

LEMMA TabsKept ==
  ASSUME \A t \in tabs : TabFits(t), tabs' \subseteq tabs,
         UNCHANGED <<pointer, closing, kids, subscribed>>,
         sw'.pc = sw.pc, sw'.leaving = sw.leaving
  PROVE  \A t \in tabs' : TabFits(t)'
  BY DEF TabFits, LeavesWith, TearsViews

LEMMA OnScreenKept ==
  ASSUME AllOnScreen, tabs \subseteq tabs' \cup closedTabs', closedTabs \subseteq closedTabs',
         UNCHANGED <<subscribed, disk, pointer>>, sw'.pc = sw.pc
  PROVE  AllOnScreen'
  BY DEF AllOnScreen, OnScreen, TabsOf

\* A save writes what is on screen, in the environment it is of.
LEMMA SaveKeeps ==
  ASSUME SavedInv, NEW i \in subscribed, SaveTabs(i), sw.pc \in {"idle", "flush"},
         UNCHANGED <<pointer, tabs, closedTabs>>
  PROVE  /\ DiskFits'
         /\ \A j \in subscribed : OnScreen(j)'
         /\ UNCHANGED <<task, reads>> /\ subscribed' \subseteq subscribed
              => \A j \in Ids : ReadFits(j)'
<1>1. SessionsTypeOK /\ i \in Ids /\ subscribed \subseteq Ids /\ pointer \in Envs
  BY DEF SavedInv, SessionsTypeOK
<1>2. /\ disk'[pointer][i].tabs = TabsOf(i)
      /\ \A e \in Envs, j \in Ids : e # pointer \/ j # i => disk'[e][j] = disk[e][j]
  BY <1>1, SaveTypes
<1>3. \A t \in TabsOf(i) : t.id = i /\ t.env = pointer
  BY DEF SavedInv, TabFits, TabsOf
<1>4. DiskFits'
  BY <1>2, <1>3 DEF SavedInv, DiskFits
<1>5. \A j \in subscribed : OnScreen(j)'
  BY <1>1, <1>2 DEF SavedInv, AllOnScreen, OnScreen, TabsOf
<1>6. ASSUME UNCHANGED <<task, reads>>, subscribed' \subseteq subscribed, NEW j \in Ids
      PROVE  ReadFits(j)'
  <2>1. task[j] = "restoring" => disk'[pointer][j] = disk[pointer][j]
    BY <1>1, <1>2 DEF SavedInv, ReadFits
  <2> QED
    BY <1>6, <2>1 DEF SavedInv, ReadFits
<1> QED
  BY <1>4, <1>5, <1>6

-----------------------------------------------------------------------------
(* Tabs.                                                                   *)

\* Nothing waits for a save when tabs change.
LEMMA Unawaited ==
  ASSUME Races = {}, TabsMayChange
  PROVE  \A c \in Conns : closing[c].pc \notin {"flush", "child"}
  BY DEF TabsMayChange, FlushAwaited

\* Suspended saves stay unarmed.
LEMMA ArmKept ==
  ASSUME PhaseFits
  PROVE  suspended => Arm(subscribed) = {}
  BY DEF PhaseFits, Arm

LEMMA OpenTabSaved ==
  ASSUME Races = {}, SavedInv, SessionsTypeOK', NEW i \in Ids, OpenTab(i)
  PROVE  SavedInv'
<1> PICK t \in Tab : t = [n |-> opened + 1, id |-> i, env |-> activeId]
  BY DEF SavedInv, SessionsTypeOK, OpenTab, Tab
<1>1. UNCHANGED <<pointer, disk, launch, activeId, active, subscribed, orphans, suspended,
                  task, reads, closing, kids, sw, target, window, closedTabs>>
      /\ tabs' = tabs \cup {t} /\ armed' = Arm(subscribed)
  BY DEF OpenTab, backend, switch, win
<1>2. PhaseFits'
  BY <1>1, ArmKept, PhaseKept DEF SavedInv
<1>3. \A c \in Conns : ConnFits(c)'
  BY <1>1, Unawaited, ConnsKept DEF SavedInv, OpenTab
<1>4. (\A v \in Views : ViewFits(v)') /\ (\A j \in Ids : ReadFits(j)')
  BY <1>1, ViewsKept, ReadsKept DEF SavedInv
<1>5. AllOnScreen' /\ DiskFits'
  BY <1>1, OnScreenKept DEF SavedInv, DiskFits
<1>6. \A u \in tabs : TabFits(u)'
  BY <1>1 DEF SavedInv, TabFits, LeavesWith, TearsViews
<1>7. TabFits(t)'
  <2>1. t.id = i /\ t.env = activeId
    OBVIOUS
  <2>2. CASE sw.pc \in {"launch", "pointer"}
    <3>1. active = sw.leaving /\ \A c \in Conns : closing[c].pc = "no"
      BY <2>2 DEF SavedInv, PhaseFits
    <3>2. i \in active \/ (i \in Views /\ i \in subscribed)
      BY DEF OpenTab, Usable
    <3>3. Family(i) \in sw.leaving
      <4>1. CASE i \in Views
        <5>1. i \in subscribed /\ Parent[i] \in Conns
          BY <3>2, <4>1, SessionsAssumption DEF SavedInv, SessionsTypeOK
        <5>2. Parent[i] \in active
          BY <3>1, <4>1, <5>1 DEF SavedInv, ViewFits, TearsViews
        <5> QED
          BY <3>1, <4>1, <5>2 DEF Family
      <4>2. CASE i \notin Views
        BY <3>1, <3>2, <4>2 DEF Family
      <4> QED
        BY <4>1, <4>2
    <3>4. LeavesWith(t)
      <4>1. i \in Views => i \in subscribed
        BY <3>2, SessionsAssumption DEF SavedInv, SessionsTypeOK
      <4>2. Family(i) \in Conns
        BY <3>3 DEF SavedInv, SessionsTypeOK
      <4> QED
        BY <2>1, <2>2, <3>1, <3>3, <4>1, <4>2 DEF LeavesWith, TearsViews
    <3>5. sw.pc = "launch" => activeId = pointer
      BY DEF SavedInv, PhaseFits
    <3>6. LeavesWith(t)' /\ t.env = activeId
      BY <1>1, <2>1, <3>4 DEF LeavesWith, TearsViews
    <3> QED
      BY <1>1, <2>2, <3>5, <3>6 DEF TabFits
  <2>3. CASE sw.pc \notin {"launch", "pointer"}
    BY <1>1, <2>1, <2>3 DEF SavedInv, PhaseFits, TabFits
  <2> QED
    BY <2>2, <2>3
<1>8. \A u \in tabs' : TabFits(u)'
  BY <1>1, <1>6, <1>7
<1> QED
  BY <1>2, <1>3, <1>4, <1>5, <1>8 DEF SavedInv

LEMMA CloseTabSaved ==
  ASSUME Races = {}, SavedInv, SessionsTypeOK', NEW t \in Tab, CloseTab(t)
  PROVE  SavedInv'
<1>1. UNCHANGED <<pointer, disk, launch, activeId, active, subscribed, orphans, suspended,
                  task, reads, closing, kids, sw, target, window>>
      /\ tabs' = tabs \ {t} /\ closedTabs' = closedTabs \cup {t} /\ armed' = Arm(subscribed)
  BY DEF CloseTab, backend, switch, win
<1>2. PhaseFits'
  BY <1>1, ArmKept, PhaseKept DEF SavedInv
<1>3. \A c \in Conns : ConnFits(c)'
  BY <1>1, Unawaited, ConnsKept DEF SavedInv, CloseTab
<1>4. (\A v \in Views : ViewFits(v)') /\ (\A j \in Ids : ReadFits(j)')
  BY <1>1, ViewsKept, ReadsKept DEF SavedInv
<1>5. AllOnScreen' /\ DiskFits'
  BY <1>1, OnScreenKept DEF SavedInv, DiskFits
<1>6. \A u \in tabs' : TabFits(u)'
  BY <1>1, TabsKept DEF SavedInv
<1> QED
  BY <1>2, <1>3, <1>4, <1>5, <1>6 DEF SavedInv

\* The debounced save, and what a switch and the closing of the window flush.
LEMMA FlushSaved ==
  ASSUME SavedInv, SessionsTypeOK', NEW i \in Ids,
         TimerFires(i) \/ SwitchFlush(i) \/ CloseFlush(i)
  PROVE  SavedInv'
<1>1. /\ UNCHANGED <<pointer, launch, activeId, active, subscribed, suspended, tabs,
                     task, reads, closing, kids, target, window, closedTabs>>
      /\ SaveTabs(i) /\ armed' \subseteq armed
  BY DEF TimerFires, SwitchFlush, CloseFlush, backend, switch, win, history
<1>2. i \in subscribed /\ sw.pc \in {"idle", "flush"} /\ orphans' = orphans
  BY DEF SavedInv, SessionsTypeOK, PhaseFits, TimerFires, SwitchFlush, CloseFlush
<1>3. sw'.pc = sw.pc /\ sw'.leaving = sw.leaving
  BY DEF SavedInv, SessionsTypeOK, TimerFires, SwitchFlush, CloseFlush, switch
<1>4. PhaseFits'
  BY <1>1, <1>2, <1>3 DEF SavedInv, PhaseFits
<1>5. \A c \in Conns : ConnFits(c)'
  BY <1>1, ConnsKept DEF SavedInv
<1>6. \A v \in Views : ViewFits(v)'
  BY <1>1, ViewsKept DEF SavedInv
<1>7. DiskFits' /\ (\A j \in Ids : ReadFits(j)') /\ (\A j \in subscribed : OnScreen(j)')
  BY <1>1, <1>2, SaveKeeps
<1>8. AllOnScreen'
  BY <1>1, <1>7 DEF AllOnScreen
<1>9. \A u \in tabs' : TabFits(u)'
  BY <1>1, <1>3, TabsKept DEF SavedInv
<1> QED
  BY <1>4, <1>5, <1>6, <1>7, <1>8, <1>9 DEF SavedInv

-----------------------------------------------------------------------------
(* Opening.                                                                *)

LEMMA ConnectSaved ==
  ASSUME Races = {}, SavedInv, SessionsTypeOK', NEW c \in Conns, Connect(c)
  PROVE  SavedInv'
<1>1. UNCHANGED <<pointer, disk, launch, activeId, active, subscribed, armed, orphans,
                  suspended, tabs, reads, closing, kids, sw, target, window, closedTabs>>
      /\ task' = StartDial({c})
  BY DEF Connect, backend, saving, switch, win, history
<1>2. sw.pc = "idle" /\ c \notin active /\ closing[c].pc = "no" /\ c \in Ids /\ c \notin Views
      /\ task[c] = "idle"
  BY SessionsAssumption DEF Connect, MayConnect, Unattended, Ids
<1>3. task'[c] = "dialing" /\ \A j \in Ids \ {c} : task'[j] = task[j]
  BY <1>1, <1>2 DEF StartDial
<1>4. PhaseFits'
  BY <1>1, <1>2 DEF SavedInv, PhaseFits
<1>5. \A d \in Conns : ConnFits(d)'
  BY <1>1, <1>2, <1>3 DEF SavedInv, ConnFits, TearsViews, Ids
<1>6. \A v \in Views : ViewFits(v)'
  BY <1>1, <1>2, <1>3 DEF SavedInv, ViewFits, TearsViews, Ids
<1>7. \A j \in Ids : ReadFits(j)'
  BY <1>1, <1>2, <1>3 DEF SavedInv, ReadFits
<1>8. AllOnScreen' /\ DiskFits'
  BY <1>1, OnScreenKept DEF SavedInv, DiskFits
<1>9. \A u \in tabs' : TabFits(u)'
  BY <1>1, TabsKept DEF SavedInv
<1> QED
  BY <1>4, <1>5, <1>6, <1>7, <1>8, <1>9 DEF SavedInv

LEMMA OpenViewSaved ==
  ASSUME Races = {}, SavedInv, SessionsTypeOK', NEW v \in Views, OpenView(v)
  PROVE  SavedInv'
<1>1. UNCHANGED <<pointer, disk, launch, activeId, active, subscribed, armed, orphans,
                  suspended, tabs, reads, closing, kids, sw, target, window, closedTabs>>
      /\ task' = StartDial({v})
  BY DEF OpenView, backend, saving, switch, win, history
<1>2. sw.pc \in {"idle", "reconnect"} /\ Parent[v] \in active /\ closing[Parent[v]].pc = "no"
      /\ v \in Ids /\ v \notin Conns /\ task[v] = "idle"
  BY SessionsAssumption DEF OpenView, MayConnect, Unattended, Ids
<1>3. task'[v] = "dialing" /\ \A j \in Ids \ {v} : task'[j] = task[j]
  BY <1>1, <1>2 DEF StartDial
<1>4. PhaseFits'
  BY <1>1, <1>2 DEF SavedInv, PhaseFits
<1>5. \A d \in Conns : ConnFits(d)'
  BY <1>1, <1>2, <1>3 DEF SavedInv, ConnFits, TearsViews, Ids
<1>6. \A u \in Views : ViewFits(u)'
  BY <1>1, <1>2, <1>3 DEF SavedInv, ViewFits, TearsViews, Ids
<1>7. \A j \in Ids : ReadFits(j)'
  BY <1>1, <1>2, <1>3 DEF SavedInv, ReadFits
<1>8. AllOnScreen' /\ DiskFits'
  BY <1>1, OnScreenKept DEF SavedInv, DiskFits
<1>9. \A u \in tabs' : TabFits(u)'
  BY <1>1, TabsKept DEF SavedInv
<1> QED
  BY <1>4, <1>5, <1>6, <1>7, <1>8, <1>9 DEF SavedInv

\* While something is being opened there is no switch, or its outgoing connections are gone.
LEMMA OpeningPhase ==
  ASSUME SavedInv, NEW i \in Ids, task[i] # "idle"
  PROVE  sw.pc \in {"idle", "reconnect"} /\ activeId = pointer
  BY DEF SavedInv, PhaseFits

LEMMA DialFailsSaved ==
  ASSUME SavedInv, SessionsTypeOK', NEW i \in Ids, DialFails(i)
  PROVE  SavedInv'
<1>1. UNCHANGED <<pointer, disk, launch, activeId, active, subscribed, armed, orphans,
                  suspended, tabs, reads, closing, kids, sw, target, window, closedTabs>>
      /\ task[i] = "dialing" /\ task' = [task EXCEPT ![i] = "idle"]
  BY DEF DialFails, backend, saving, switch, win, history
<1>2. task'[i] = "idle" /\ \A j \in Ids \ {i} : task'[j] = task[j]
  BY <1>1 DEF SavedInv, SessionsTypeOK
<1>3. PhaseFits'
  BY <1>1, <1>2 DEF SavedInv, PhaseFits
<1>4. \A d \in Conns : ConnFits(d)'
  BY <1>1, <1>2 DEF SavedInv, ConnFits, TearsViews, Ids
<1>5. \A v \in Views : ViewFits(v)'
  BY <1>1, <1>2 DEF SavedInv, ViewFits, TearsViews, Ids
<1>6. \A j \in Ids : ReadFits(j)'
  BY <1>1, <1>2 DEF SavedInv, ReadFits
<1>7. AllOnScreen' /\ DiskFits'
  BY <1>1, OnScreenKept DEF SavedInv, DiskFits
<1>8. \A u \in tabs' : TabFits(u)'
  BY <1>1, TabsKept DEF SavedInv
<1> QED
  BY <1>3, <1>4, <1>5, <1>6, <1>7, <1>8 DEF SavedInv

LEMMA ConnDialedSaved ==
  ASSUME SavedInv, SessionsTypeOK', NEW c \in Conns, ConnDialed(c)
  PROVE  SavedInv'
<1>1. UNCHANGED <<pointer, disk, activeId, subscribed, armed, orphans,
                  suspended, tabs, closing, kids, sw, target, window, closedTabs>>
      /\ active' = active \cup {c} /\ task[c] = "dialing"
      /\ reads' = [reads EXCEPT ![c] = disk[pointer][c]]
      /\ task' = [task EXCEPT ![c] = "restoring"]
  BY DEF ConnDialed, saving, switch, win, history
<1>2. c \in Ids /\ c \notin Views
  BY SessionsAssumption DEF Ids
<1>3. task'[c] = "restoring" /\ \A j \in Ids \ {c} : task'[j] = task[j]
  BY <1>1, <1>2 DEF SavedInv, SessionsTypeOK
<1>4. reads'[c] = disk[pointer][c] /\ \A j \in Ids \ {c} : reads'[j] = reads[j]
  BY <1>1, <1>2 DEF SavedInv, SessionsTypeOK
<1>5. sw.pc \in {"idle", "reconnect"} /\ closing[c].pc = "no" /\ c \notin subscribed
  BY <1>1, <1>2, OpeningPhase DEF SavedInv, ConnFits
<1>6. PhaseFits'
  BY <1>1, <1>5 DEF SavedInv, PhaseFits
<1>7. \A d \in Conns : ConnFits(d)'
  BY <1>1, <1>3, <1>5 DEF SavedInv, ConnFits, TearsViews, Ids
<1>8. \A v \in Views : ViewFits(v)'
  BY <1>1, <1>2, <1>3 DEF SavedInv, ViewFits, TearsViews, Ids
<1>9. \A j \in Ids : ReadFits(j)'
  BY <1>1, <1>3, <1>4, <1>5 DEF SavedInv, ReadFits
<1>10. AllOnScreen' /\ DiskFits'
  BY <1>1, OnScreenKept DEF SavedInv, DiskFits
<1>11. \A u \in tabs' : TabFits(u)'
  BY <1>1, TabsKept DEF SavedInv
<1> QED
  BY <1>6, <1>7, <1>8, <1>9, <1>10, <1>11 DEF SavedInv

LEMMA ViewDialedSaved ==
  ASSUME SavedInv, SessionsTypeOK', NEW v \in Views, ViewDialed(v)
  PROVE  SavedInv'
<1>1. UNCHANGED <<pointer, disk, launch, activeId, active, subscribed, armed, orphans,
                  suspended, tabs, closing, kids, sw, target, window, closedTabs>>
      /\ task[v] = "dialing"
  BY DEF ViewDialed, backend, saving, switch, win, history
<1>2. v \in Ids /\ v \notin Conns
  BY SessionsAssumption DEF Ids
<1>3. /\ \/ task'[v] = "idle" /\ reads'[v] = reads[v]
         \/ task'[v] = "restoring" /\ v \notin subscribed /\ reads'[v] = disk[pointer][v]
      /\ \A j \in Ids \ {v} : task'[j] = task[j] /\ reads'[j] = reads[j]
  BY <1>2 DEF SavedInv, SessionsTypeOK, ViewDialed
<1>4. sw.pc \in {"idle", "reconnect"}
  BY <1>1, <1>2, OpeningPhase
<1>5. PhaseFits'
  BY <1>1, <1>4 DEF SavedInv, PhaseFits
<1>6. \A d \in Conns : ConnFits(d)'
  BY <1>1, <1>2, <1>3 DEF SavedInv, ConnFits, TearsViews, Ids
<1>7. \A u \in Views : ViewFits(u)'
  BY <1>1, <1>3 DEF SavedInv, ViewFits, TearsViews, Ids
<1>8. \A j \in Ids : ReadFits(j)'
  BY <1>1, <1>3 DEF SavedInv, ReadFits
<1>9. AllOnScreen' /\ DiskFits'
  BY <1>1, OnScreenKept DEF SavedInv, DiskFits
<1>10. \A u \in tabs' : TabFits(u)'
  BY <1>1, TabsKept DEF SavedInv
<1> QED
  BY <1>5, <1>6, <1>7, <1>8, <1>9, <1>10 DEF SavedInv

\* What is restored is what is saved, so it is on screen when its saves start.
LEMMA RestoredSaved ==
  ASSUME Races = {}, SavedInv, SessionsTypeOK', NEW i \in Ids, Restored(i)
  PROVE  SavedInv'
<1>1. UNCHANGED <<pointer, disk, launch, activeId, active, orphans,
                  suspended, closing, kids, sw, target, window, closedTabs>>
      /\ subscribed' = subscribed \cup {i} /\ task[i] = "restoring"
  BY DEF Restored, backend, switch, win, history
<1>2. task'[i] = "idle" /\ reads'[i] = NeverSaved
      /\ \A j \in Ids \ {i} : task'[j] = task[j] /\ reads'[j] = reads[j]
  BY DEF SavedInv, SessionsTypeOK, Restored
<1>3. reads[i] = disk[pointer][i] /\ reads[i] \in TabStates /\ pointer \in Envs
  BY <1>1 DEF SavedInv, SessionsTypeOK, ReadFits
<1>4. \A t \in reads[i].tabs : t.id = i /\ t.env = pointer
  BY <1>3 DEF SavedInv, DiskFits
<1>5. /\ tabs' \subseteq tabs \cup reads[i].tabs /\ reads[i].tabs \subseteq tabs'
      /\ \A t \in tabs : t.id # i => t \in tabs'
  BY <1>3, SessionTypes DEF Restored, TabsOf
<1>6. \A c \in Conns : closing[c].pc \notin {"flush", "child"}
  BY Unawaited DEF Restored
<1>7. sw.pc \in {"idle", "reconnect"}
  BY <1>1, OpeningPhase
<1>8. PhaseFits'
  <2>1. suspended => armed' = {}
    BY ArmKept DEF SavedInv, PhaseFits, Restored
  <2> QED
    BY <1>1, <1>7, <2>1 DEF SavedInv, PhaseFits
<1>9. \A d \in Conns : ConnFits(d)'
  <2> SUFFICES ASSUME NEW d \in Conns PROVE ConnFits(d)'
    OBVIOUS
  <2>1. ConnFits(d) /\ d \in Ids
    BY DEF SavedInv, Ids
  <2>2. CASE d = i
    <3>1. closing[d].pc = "no" /\ d \in active
      BY <1>1, <1>7, <2>1, <2>2 DEF SavedInv, ConnFits
    <3> QED
      BY <1>1, <1>2, <2>1, <2>2, <3>1 DEF ConnFits, TearsViews
  <2>3. CASE d # i
    BY <1>1, <1>2, <1>6, <2>1, <2>3 DEF ConnFits, TearsViews
  <2> QED
    BY <2>2, <2>3
<1>10. \A v \in Views : ViewFits(v)'
  BY <1>1, <1>2 DEF SavedInv, ViewFits, TearsViews, Ids
<1>11. \A j \in Ids : ReadFits(j)'
  BY <1>1, <1>2 DEF SavedInv, ReadFits
<1>12. AllOnScreen'
  <2> SUFFICES ASSUME NEW j \in subscribed' PROVE OnScreen(j)'
    BY DEF AllOnScreen
  <2>1. CASE j = i
    BY <1>1, <1>3, <1>4, <1>5, <2>1 DEF OnScreen, TabsOf
  <2>2. CASE j # i
    BY <1>1, <1>5, <1>7, <2>2 DEF SavedInv, AllOnScreen, OnScreen, TabsOf
  <2> QED
    BY <2>1, <2>2
<1>13. DiskFits'
  BY <1>1 DEF SavedInv, DiskFits
<1>14. \A u \in tabs' : TabFits(u)'
  BY <1>1, <1>4, <1>5, <1>7 DEF SavedInv, TabFits
<1> QED
  BY <1>8, <1>9, <1>10, <1>11, <1>12, <1>13, <1>14 DEF SavedInv

-----------------------------------------------------------------------------
(* Closing.                                                                *)

\* While something is being closed there is no switch, or it waits for that.
LEMMA ClosingPhase ==
  ASSUME SavedInv, NEW c \in Conns, closing[c].pc # "no"
  PROVE  /\ sw.pc \in {"idle", "teardown"} /\ task[c] = "idle"
         /\ \A v \in Views : Parent[v] = c => task[v] = "idle"
         /\ sw.pc = "teardown" => c \in sw.leaving
         /\ sw.pc = "teardown" /\ c \in active => closing[c].pc = "pool"
  BY DEF SavedInv, PhaseFits, ConnFits, ViewFits

LEMMA DisconnectSaved ==
  ASSUME Races = {}, SavedInv, SessionsTypeOK', NEW c \in Conns, Disconnect(c)
  PROVE  SavedInv'
<1>1. /\ UNCHANGED <<pointer, launch, activeId, active, suspended, tabs, task, reads, kids,
                     sw, target, window, closedTabs>>
      /\ c \in active /\ closing[c].pc = "no" /\ sw.pc = "idle" /\ task[c] = "idle"
      /\ \A v \in Views : Parent[v] = c => task[v] = "idle"
  BY DEF Disconnect, MayConnect, Unattended, switch, win, history
<1>2. c \in Ids /\ c \notin Views
  BY SessionsAssumption DEF Ids
<1>3. ~suspended
  BY <1>1 DEF SavedInv, PhaseFits
<1>4. /\ closing'[c].pc = IF c \in armed THEN "flush" ELSE "pool"
      /\ \A d \in Conns \ {c} : closing'[d] = closing[d]
  <2>1. \A at : [NotClosing EXCEPT !.pc = at, !.persist = TRUE].pc = at
    BY DEF NotClosing
  <2>2. closing \in [Conns -> Closings]
    BY DEF SavedInv, SessionsTypeOK, Closings
  <2>3. closing' = [closing EXCEPT ![c] =
          [NotClosing EXCEPT !.pc = IF c \in armed THEN "flush" ELSE "pool", !.persist = TRUE]]
    BY DEF Disconnect
  <2> QED
    BY <2>1, <2>2, <2>3
<1>5. \/ /\ closing'[c].pc = "flush" /\ SaveTabs(c) /\ c \in armed
         /\ armed' = armed \ {c} /\ UNCHANGED <<subscribed, orphans>>
      \/ /\ closing'[c].pc = "pool" /\ UNCHANGED <<disk, armed, orphans>>
         /\ subscribed' = subscribed \ {c}
  <2>1. CASE c \in armed
    BY <1>4, <2>1 DEF Disconnect
  <2>2. CASE c \notin armed
    <3>1. orphans \cup (armed \cap {c}) = orphans
      BY <2>2
    <3> QED
      BY <1>4, <2>2, <3>1 DEF Disconnect, Detach
  <2> QED
    BY <2>1, <2>2
<1>6. subscribed' \subseteq subscribed /\ armed' \subseteq armed /\ orphans' = orphans
  BY <1>5
<1>7. PhaseFits'
  BY <1>1, <1>3, <1>6 DEF SavedInv, PhaseFits
<1>8. \A d \in Conns : ConnFits(d)'
  <2> SUFFICES ASSUME NEW d \in Conns PROVE ConnFits(d)'
    OBVIOUS
  <2>1. CASE d = c
    BY <1>1, <1>4, <1>5, <2>1 DEF SavedInv, ConnFits, TearsViews
  <2>2. CASE d # c
    BY <1>1, <1>4, <1>6, <2>2 DEF SavedInv, ConnFits, TearsViews
  <2> QED
    BY <2>1, <2>2
<1>9. \A v \in Views : ViewFits(v)'
  <2> SUFFICES ASSUME NEW v \in Views PROVE ViewFits(v)'
    OBVIOUS
  <2>1. Parent[v] \in Conns /\ TearsViews(Parent[v])' = TearsViews(Parent[v])
    BY <1>1, <1>4, SessionsAssumption DEF TearsViews
  <2> QED
    BY <1>1, <1>4, <1>6, <2>1 DEF SavedInv, ViewFits
<1>10. (\A j \in Ids : ReadFits(j)') /\ DiskFits' /\ AllOnScreen'
  <2>1. CASE SaveTabs(c) /\ c \in armed
    <3>1. c \in subscribed
      BY <2>1 DEF SavedInv, SessionsTypeOK
    <3> QED
      BY <1>1, <1>6, <2>1, <3>1, SaveKeeps DEF AllOnScreen
  <2>2. CASE UNCHANGED disk
    BY <1>1, <1>6, <2>2 DEF SavedInv, ReadFits, DiskFits, AllOnScreen, OnScreen, TabsOf
  <2> QED
    BY <1>5, <2>1, <2>2
<1>11. \A u \in tabs' : TabFits(u)'
  BY <1>1 DEF SavedInv, TabFits
<1> QED
  BY <1>7, <1>8, <1>9, <1>10, <1>11 DEF SavedInv

LEMMA FlushDoneSaved ==
  ASSUME SavedInv, SessionsTypeOK', NEW c \in Conns, FlushDone(c)
  PROVE  SavedInv'
<1>1. /\ UNCHANGED <<pointer, disk, launch, activeId, active, suspended, tabs, task, reads,
                     kids, sw, target, window, closedTabs>>
      /\ closing[c].pc = "flush"
  BY DEF FlushDone, backend, switch, win, history
<1>2. c \in Ids /\ c \notin Views
  BY SessionsAssumption DEF Ids
<1>3. c \in active /\ sw.pc = "idle" /\ c \notin armed /\ task[c] = "idle"
  BY <1>1, ClosingPhase DEF SavedInv, ConnFits
<1>4. closing'[c].pc = "pool" /\ \A d \in Conns \ {c} : closing'[d] = closing[d]
  BY <1>1 DEF FlushDone, SavedInv, SessionsTypeOK
<1>5. subscribed' = subscribed \ {c} /\ armed' \subseteq armed /\ orphans' = orphans
  BY <1>3 DEF FlushDone, Detach
<1>6. PhaseFits'
  BY <1>1, <1>3, <1>5 DEF SavedInv, PhaseFits
<1>7. \A d \in Conns : ConnFits(d)'
  <2> SUFFICES ASSUME NEW d \in Conns PROVE ConnFits(d)'
    OBVIOUS
  <2>1. CASE d = c
    BY <1>1, <1>3, <1>4, <1>5, <2>1 DEF SavedInv, ConnFits, TearsViews
  <2>2. CASE d # c
    BY <1>1, <1>4, <1>5, <2>2 DEF SavedInv, ConnFits, TearsViews
  <2> QED
    BY <2>1, <2>2
<1>8. \A v \in Views : ViewFits(v)'
  <2> SUFFICES ASSUME NEW v \in Views PROVE ViewFits(v)'
    OBVIOUS
  <2>1. /\ Parent[v] \in Conns /\ TearsViews(Parent[v])' = TearsViews(Parent[v])
        /\ closing[Parent[v]].pc = "no" => closing'[Parent[v]].pc = "no"
    BY <1>1, <1>4, SessionsAssumption DEF TearsViews
  <2> QED
    BY <1>1, <1>5, <2>1 DEF SavedInv, ViewFits
<1>9. (\A j \in Ids : ReadFits(j)') /\ DiskFits' /\ AllOnScreen'
  BY <1>1, <1>5 DEF SavedInv, ReadFits, DiskFits, AllOnScreen, OnScreen, TabsOf
<1>10. \A u \in tabs' : TabFits(u)'
  BY <1>1, <1>3 DEF SavedInv, TabFits
<1> QED
  BY <1>6, <1>7, <1>8, <1>9, <1>10 DEF SavedInv

LEMMA PoolClosedSaved ==
  ASSUME SavedInv, SessionsTypeOK', NEW c \in Conns, PoolClosed(c)
  PROVE  SavedInv'
<1>1. /\ UNCHANGED <<pointer, disk, launch, activeId, subscribed, armed, orphans, suspended,
                     tabs, task, reads, sw, target, window, closedTabs>>
      /\ closing[c].pc = "pool" /\ active' = active \ {c}
  BY DEF PoolClosed, backend, saving, switch, win, history
<1>2. sw.pc \in {"idle", "teardown"} /\ c \notin subscribed /\ task[c] = "idle"
      /\ (sw.pc = "teardown" => c \in sw.leaving)
  BY <1>1, ClosingPhase DEF SavedInv, ConnFits
<1>3. closing'[c].pc = "children" /\ \A d \in Conns \ {c} : closing'[d] = closing[d]
  BY <1>1 DEF PoolClosed, SavedInv, SessionsTypeOK
<1>4. /\ kids'[c] = {v \in Views \cap subscribed : Parent[v] = c}
      /\ \A d \in Conns \ {c} : kids'[d] = kids[d]
  BY DEF PoolClosed, SavedInv, SessionsTypeOK
<1>5. PhaseFits'
  <2>1. suspended => armed' = {}
    BY <1>1, ArmKept DEF SavedInv, PhaseFits
  <2>2. sw.pc = "teardown" =>
          /\ \A d \in Conns \ sw.leaving : closing'[d].pc = "no"
          /\ \A d \in active' : d \in sw.leaving /\ closing'[d].pc = "pool"
    <3> SUFFICES ASSUME sw.pc = "teardown"
        PROVE  /\ \A d \in Conns \ sw.leaving : closing'[d].pc = "no"
               /\ \A d \in active' : d \in sw.leaving /\ closing'[d].pc = "pool"
      OBVIOUS
    <3>1. /\ \A d \in Conns \ sw.leaving : closing[d].pc = "no"
          /\ \A d \in active : d \in Conns /\ d \in sw.leaving /\ closing[d].pc = "pool"
      BY DEF SavedInv, SessionsTypeOK, PhaseFits
    <3>2. c \in sw.leaving /\ c \notin active'
      BY <1>1, <1>2, <3>1, ClosingPhase DEF TearsViews
    <3> QED
      BY <1>1, <1>2, <1>3, <3>1, <3>2
  <2> QED
    BY <1>1, <1>2, <1>3, <2>1, <2>2 DEF SavedInv, PhaseFits
<1>6. \A d \in Conns : ConnFits(d)'
  <2> SUFFICES ASSUME NEW d \in Conns PROVE ConnFits(d)'
    OBVIOUS
  <2>1. CASE d = c
    BY <1>1, <1>2, <1>3, <2>1 DEF SavedInv, ConnFits, TearsViews
  <2>2. CASE d # c
    BY <1>1, <1>3, <1>4, <2>2 DEF SavedInv, ConnFits, TearsViews
  <2> QED
    BY <2>1, <2>2
<1>7. \A v \in Views : ViewFits(v)'
  <2> SUFFICES ASSUME NEW v \in Views PROVE ViewFits(v)'
    OBVIOUS
  <2>1. Parent[v] \in Conns
    BY SessionsAssumption
  <2>2. CASE Parent[v] = c
    BY <1>1, <1>3, <1>4, <2>2 DEF SavedInv, ViewFits, TearsViews
  <2>3. CASE Parent[v] # c
    BY <1>1, <1>3, <1>4, <2>1, <2>3 DEF SavedInv, ViewFits, TearsViews
  <2> QED
    BY <2>2, <2>3
<1>8. (\A j \in Ids : ReadFits(j)') /\ DiskFits' /\ AllOnScreen'
  BY <1>1 DEF SavedInv, ReadFits, DiskFits, AllOnScreen, OnScreen, TabsOf
<1>9. \A u \in tabs' : TabFits(u)'
  <2> SUFFICES ASSUME NEW u \in tabs PROVE TabFits(u)'
    BY <1>1
  <2>1. LeavesWith(u) /\ sw.pc = "teardown" => LeavesWith(u)'
    <3> SUFFICES ASSUME LeavesWith(u), sw.pc = "teardown" PROVE LeavesWith(u)'
      OBVIOUS
    <3>1. Family(u.id) \in Conns
      BY DEF LeavesWith, SavedInv, SessionsTypeOK
    <3>2. CASE Family(u.id) = c
      BY <1>1, <1>3, <1>4, <3>2 DEF LeavesWith, TearsViews, Family
    <3>3. CASE Family(u.id) # c
      BY <1>1, <1>3, <1>4, <3>1, <3>3 DEF LeavesWith, TearsViews
    <3> QED
      BY <3>2, <3>3
  <2> QED
    BY <1>1, <1>2, <2>1 DEF SavedInv, TabFits
<1> QED
  BY <1>5, <1>6, <1>7, <1>8, <1>9 DEF SavedInv

LEMMA ChildFlushSaved ==
  ASSUME SavedInv, SessionsTypeOK', NEW c \in Conns, NEW v \in Views, ChildFlush(c, v)
  PROVE  SavedInv'
<1>1. /\ UNCHANGED <<pointer, launch, activeId, active, subscribed, orphans, suspended, tabs,
                     task, reads, kids, sw, target, window, closedTabs>>
      /\ closing[c].pc = "children" /\ v \in kids[c] /\ v \in armed /\ SaveTabs(v)
      /\ armed' = armed \ {v}
  BY DEF ChildFlush, switch, win, history
<1>2. v \in subscribed /\ sw.pc = "idle" /\ task[c] = "idle"
  BY <1>1, ClosingPhase DEF SavedInv, SessionsTypeOK, PhaseFits
<1>3. /\ closing'[c].pc = "child" /\ closing'[c].child = {v}
      /\ \A d \in Conns \ {c} : closing'[d] = closing[d]
  BY <1>1 DEF ChildFlush, SavedInv, SessionsTypeOK
<1>4. PhaseFits'
  BY <1>1, <1>2 DEF SavedInv, PhaseFits
<1>5. \A d \in Conns : ConnFits(d)'
  <2> SUFFICES ASSUME NEW d \in Conns PROVE ConnFits(d)'
    OBVIOUS
  <2>1. CASE d = c
    BY <1>1, <1>2, <1>3, <2>1 DEF SavedInv, ConnFits, TearsViews
  <2>2. CASE d # c
    BY <1>1, <1>3, <2>2 DEF SavedInv, ConnFits, TearsViews
  <2> QED
    BY <2>1, <2>2
<1>6. \A u \in Views : ViewFits(u)'
  <2> SUFFICES ASSUME NEW u \in Views PROVE ViewFits(u)'
    OBVIOUS
  <2>1. /\ Parent[u] \in Conns /\ TearsViews(Parent[u])' = TearsViews(Parent[u])
        /\ closing[Parent[u]].pc = "no" => closing'[Parent[u]].pc = "no"
    BY <1>1, <1>3, SessionsAssumption DEF TearsViews
  <2> QED
    BY <1>1, <2>1 DEF SavedInv, ViewFits
<1>7. (\A j \in Ids : ReadFits(j)') /\ DiskFits' /\ AllOnScreen'
  BY <1>1, <1>2, SaveKeeps DEF AllOnScreen
<1>8. \A u \in tabs' : TabFits(u)'
  BY <1>1, <1>2 DEF SavedInv, TabFits
<1> QED
  BY <1>4, <1>5, <1>6, <1>7, <1>8 DEF SavedInv

LEMMA ChildGoneSaved ==
  ASSUME Races = {}, SavedInv, SessionsTypeOK', NEW c \in Conns, NEW v \in Views,
         ChildGone(c, v)
  PROVE  SavedInv'
<1>1. /\ UNCHANGED <<pointer, disk, launch, activeId, active, suspended, task, reads, sw,
                     target, window, closedTabs>>
      /\ TearsViews(c) /\ v \in kids[c] /\ tabs' = tabs \ TabsOf(v)
      /\ subscribed' = subscribed \ {v} /\ armed' = Arm(subscribed) \ {v}
      /\ \A d \in Conns \ {c} : closing[d].pc \notin {"flush", "child"}
  BY DEF ChildGone, Detach, TearsViews, MayCloseTabs, FlushAwaited, backend, switch, win,
         history
<1>2. sw.pc \in {"idle", "teardown"} /\ task[c] = "idle"
      /\ (sw.pc = "teardown" => c \notin active)
  BY <1>1, ClosingPhase DEF TearsViews
<1>3. v \notin armed /\ orphans' = orphans
  BY DEF ChildGone, Detach, SavedInv, ConnFits
<1>4. /\ closing'[c].pc = "children" /\ \A d \in Conns \ {c} : closing'[d] = closing[d]
      /\ kids'[c] = kids[c] \ {v} /\ \A d \in Conns \ {c} : kids'[d] = kids[d]
  BY DEF ChildGone, SavedInv, SessionsTypeOK
<1>5. PhaseFits'
  <2>1. suspended => armed' = {}
    BY <1>1, ArmKept DEF SavedInv, PhaseFits
  <2>2. sw.pc = "teardown" =>
          /\ \A d \in Conns \ sw.leaving : closing'[d].pc = "no"
          /\ \A d \in active' : d \in sw.leaving /\ closing'[d].pc = "pool"
    <3> SUFFICES ASSUME sw.pc = "teardown"
        PROVE  /\ \A d \in Conns \ sw.leaving : closing'[d].pc = "no"
               /\ \A d \in active' : d \in sw.leaving /\ closing'[d].pc = "pool"
      OBVIOUS
    <3>1. /\ \A d \in Conns \ sw.leaving : closing[d].pc = "no"
          /\ \A d \in active : d \in Conns /\ d \in sw.leaving /\ closing[d].pc = "pool"
      BY DEF SavedInv, SessionsTypeOK, PhaseFits
    <3>2. c \in sw.leaving /\ c \notin active'
      BY <1>1, <1>2, <3>1, ClosingPhase DEF TearsViews
    <3> QED
      BY <1>1, <1>2, <1>3, <1>4, <3>1, <3>2
  <2> QED
    BY <1>1, <1>2, <1>3, <1>4, <2>1, <2>2 DEF SavedInv, PhaseFits
<1>6. \A d \in Conns : ConnFits(d)'
  <2> SUFFICES ASSUME NEW d \in Conns PROVE ConnFits(d)'
    OBVIOUS
  <2>1. CASE d = c
    BY <1>1, <1>2, <1>4, <2>1 DEF SavedInv, ConnFits, TearsViews
  <2>2. CASE d # c
    BY <1>1, <1>4, <2>2 DEF SavedInv, ConnFits, TearsViews
  <2> QED
    BY <2>1, <2>2
<1>7. \A u \in Views : ViewFits(u)'
  <2> SUFFICES ASSUME NEW u \in Views PROVE ViewFits(u)'
    OBVIOUS
  <2>1. Parent[u] \in Conns
    BY SessionsAssumption
  <2>2. CASE Parent[u] = c
    BY <1>1, <1>4, <2>2 DEF SavedInv, ViewFits, TearsViews
  <2>3. CASE Parent[u] # c
    BY <1>1, <1>4, <2>1, <2>3 DEF SavedInv, ViewFits, TearsViews
  <2> QED
    BY <2>2, <2>3
<1>8. (\A j \in Ids : ReadFits(j)') /\ DiskFits'
  BY <1>1 DEF SavedInv, ReadFits, DiskFits
<1>9. AllOnScreen'
  <2> SUFFICES ASSUME NEW j \in subscribed', sw.pc = "idle" PROVE OnScreen(j)'
    BY <1>1, <1>2 DEF AllOnScreen
  <2>1. j \in subscribed /\ j # v
    BY <1>1
  <2>2. OnScreen(j)
    BY <2>1 DEF SavedInv, AllOnScreen
  <2> QED
    BY <1>1, <2>1, <2>2 DEF OnScreen, TabsOf
<1>10. \A u \in tabs' : TabFits(u)'
  <2> SUFFICES ASSUME NEW u \in tabs, u.id # v PROVE TabFits(u)'
    BY <1>1 DEF TabsOf
  <2>1. LeavesWith(u) /\ sw.pc = "teardown" => LeavesWith(u)'
    <3> SUFFICES ASSUME LeavesWith(u), sw.pc = "teardown" PROVE LeavesWith(u)'
      OBVIOUS
    <3>1. Family(u.id) \in Conns
      BY DEF LeavesWith, SavedInv, SessionsTypeOK
    <3>2. CASE Family(u.id) = c
      BY <1>1, <1>4, <3>2 DEF LeavesWith, TearsViews
    <3>3. CASE Family(u.id) # c
      BY <1>1, <1>4, <3>1, <3>3 DEF LeavesWith, TearsViews
    <3> QED
      BY <3>2, <3>3
  <2> QED
    BY <1>1, <1>2, <2>1 DEF SavedInv, TabFits
<1> QED
  BY <1>5, <1>6, <1>7, <1>8, <1>9, <1>10 DEF SavedInv

LEMMA DisconnectedSaved ==
  ASSUME Races = {}, SavedInv, SessionsTypeOK', NEW c \in Conns, Disconnected(c)
  PROVE  SavedInv'
<1>1. /\ UNCHANGED <<pointer, disk, activeId, active, subscribed, orphans, suspended, task,
                     reads, kids, sw, target, window, closedTabs>>
      /\ closing[c].pc = "children" /\ kids[c] = {} /\ tabs' = tabs \ TabsOf(c)
      /\ armed' = Arm(subscribed)
      /\ \A d \in Conns \ {c} : closing[d].pc \notin {"flush", "child"}
  BY DEF Disconnected, MayCloseTabs, FlushAwaited, switch, win, history
<1>2. sw.pc \in {"idle", "teardown"} /\ c \notin subscribed
      /\ (sw.pc = "teardown" => c \notin active)
  BY <1>1, ClosingPhase DEF SavedInv, ConnFits
<1>3. closing'[c].pc = "no" /\ \A d \in Conns \ {c} : closing'[d] = closing[d]
  BY SessionTypes DEF Disconnected, SavedInv, SessionsTypeOK
<1>4. PhaseFits'
  <2>1. suspended => armed' = {}
    BY <1>1, ArmKept DEF SavedInv, PhaseFits
  <2>2. sw.pc = "teardown" =>
          /\ \A d \in Conns \ sw.leaving : closing'[d].pc = "no"
          /\ \A d \in active' : d \in sw.leaving /\ closing'[d].pc = "pool"
    <3> SUFFICES ASSUME sw.pc = "teardown"
        PROVE  /\ \A d \in Conns \ sw.leaving : closing'[d].pc = "no"
               /\ \A d \in active' : d \in sw.leaving /\ closing'[d].pc = "pool"
      OBVIOUS
    <3>1. /\ \A d \in Conns \ sw.leaving : closing[d].pc = "no"
          /\ \A d \in active : d \in Conns /\ d \in sw.leaving /\ closing[d].pc = "pool"
      BY DEF SavedInv, SessionsTypeOK, PhaseFits
    <3>2. c \in sw.leaving /\ c \notin active'
      BY <1>1, <1>2, <3>1, ClosingPhase DEF TearsViews
    <3> QED
      BY <1>1, <1>2, <1>3, <3>1, <3>2
  <2> QED
    BY <1>1, <1>2, <1>3, <2>1, <2>2 DEF SavedInv, PhaseFits
<1>5. \A d \in Conns : ConnFits(d)'
  <2> SUFFICES ASSUME NEW d \in Conns PROVE ConnFits(d)'
    OBVIOUS
  <2>1. CASE d = c
    BY <1>1, <1>2, <1>3, <2>1 DEF SavedInv, ConnFits, TearsViews
  <2>2. CASE d # c
    BY <1>1, <1>3, <2>2 DEF SavedInv, ConnFits, TearsViews
  <2> QED
    BY <2>1, <2>2
<1>6. \A u \in Views : ViewFits(u)'
  <2> SUFFICES ASSUME NEW u \in Views PROVE ViewFits(u)'
    OBVIOUS
  <2>1. Parent[u] \in Conns
    BY SessionsAssumption
  <2>2. CASE Parent[u] = c
    BY <1>1, <1>3, <2>2 DEF SavedInv, ViewFits, TearsViews
  <2>3. CASE Parent[u] # c
    BY <1>1, <1>3, <2>1, <2>3 DEF SavedInv, ViewFits, TearsViews
  <2> QED
    BY <2>2, <2>3
<1>7. (\A j \in Ids : ReadFits(j)') /\ DiskFits'
  BY <1>1 DEF SavedInv, ReadFits, DiskFits
<1>8. AllOnScreen'
  <2> SUFFICES ASSUME NEW j \in subscribed, sw.pc = "idle" PROVE OnScreen(j)'
    BY <1>1, <1>2 DEF AllOnScreen
  <2>1. OnScreen(j) /\ j # c
    BY <1>2 DEF SavedInv, AllOnScreen
  <2> QED
    BY <1>1, <2>1 DEF OnScreen, TabsOf
<1>9. \A u \in tabs' : TabFits(u)'
  <2> SUFFICES ASSUME NEW u \in tabs, u.id # c PROVE TabFits(u)'
    BY <1>1 DEF TabsOf
  <2>1. LeavesWith(u) /\ sw.pc = "teardown" => LeavesWith(u)'
    <3> SUFFICES ASSUME LeavesWith(u), sw.pc = "teardown" PROVE LeavesWith(u)'
      OBVIOUS
    <3>1. Family(u.id) \in Conns /\ Family(u.id) # c
      BY <1>1 DEF LeavesWith, TearsViews, Family, SavedInv, SessionsTypeOK
    <3> QED
      BY <1>1, <1>3, <3>1 DEF LeavesWith, TearsViews
  <2> QED
    BY <1>1, <1>2, <2>1 DEF SavedInv, TabFits
<1> QED
  BY <1>4, <1>5, <1>6, <1>7, <1>8, <1>9 DEF SavedInv

-----------------------------------------------------------------------------
(* Switching.                                                              *)

\* A switch begins with nothing under way.
LEMMA SwitchSaved ==
  ASSUME Races = {}, SavedInv, SessionsTypeOK', NEW e \in Envs, Switch(e)
  PROVE  SavedInv'
<1>1. /\ UNCHANGED <<pointer, disk, launch, activeId, tabs, active, subscribed, armed, orphans,
                     suspended, task, reads, closing, kids, window, closedTabs>>
      /\ sw.pc = "idle" /\ window = "open" /\ target' = e /\ e # activeId
      /\ \A c \in Conns : Unattended(c)
  BY DEF Switch, backend, saving, win, history
<1>2. sw'.pc = "flush" /\ sw'.leaving = active
  BY DEF Switch, NoSwitch
<1>3. /\ \A c \in Conns : closing[c].pc = "no"
      /\ \A i \in Ids : task[i] = "idle"
  BY <1>1, SessionsAssumption DEF Unattended, Ids
<1>4. PhaseFits'
  BY <1>1, <1>2, <1>3 DEF SavedInv, PhaseFits
<1>5. (\A c \in Conns : ConnFits(c)') /\ (\A v \in Views : ViewFits(v)')
      /\ (\A i \in Ids : ReadFits(i)')
  BY <1>1, ConnsKept, ViewsKept, ReadsKept DEF SavedInv
<1>6. AllOnScreen' /\ DiskFits'
  BY <1>1 DEF SavedInv, AllOnScreen, OnScreen, TabsOf, DiskFits
<1>7. \A t \in tabs' : TabFits(t)'
  BY <1>1, <1>2 DEF SavedInv, TabFits
<1> QED
  BY <1>4, <1>5, <1>6, <1>7 DEF SavedInv

\* No tab is on screen when the backend is pointed elsewhere, but for those opened on the
\* connections that are left.
LEMMA SwitchSuspendSaved ==
  ASSUME SavedInv, SessionsTypeOK', SwitchSuspend
  PROVE  SavedInv'
<1>1. /\ UNCHANGED <<pointer, disk, activeId, active, subscribed, orphans, task, reads, closing,
                     kids, target, window, closedTabs>>
      /\ sw.pc = "flush" /\ suspended' = TRUE /\ armed' = {} /\ tabs' = {}
  BY DEF SwitchSuspend, win, history
<1>2. sw'.pc = "launch" /\ sw'.leaving = sw.leaving
  BY DEF SwitchSuspend, SavedInv, SessionsTypeOK
<1>3. PhaseFits'
  BY <1>1, <1>2 DEF SavedInv, PhaseFits
<1>4. (\A c \in Conns : ConnFits(c)') /\ (\A v \in Views : ViewFits(v)')
      /\ (\A i \in Ids : ReadFits(i)')
  BY <1>1, ConnsKept, ViewsKept, ReadsKept DEF SavedInv
<1>5. AllOnScreen' /\ DiskFits'
  BY <1>1, <1>2 DEF SavedInv, AllOnScreen, DiskFits
<1>6. \A t \in tabs' : TabFits(t)'
  BY <1>1
<1> QED
  BY <1>3, <1>4, <1>5, <1>6 DEF SavedInv

LEMMA SwitchPointSaved ==
  ASSUME SavedInv, SessionsTypeOK', SwitchPoint
  PROVE  SavedInv'
<1>1. /\ UNCHANGED <<disk, launch, activeId, tabs, active, subscribed, armed, orphans,
                     suspended, task, reads, closing, kids, target, window, closedTabs>>
      /\ sw.pc = "launch" /\ pointer' = target
  BY DEF SwitchPoint, saving, win, history
<1>2. sw'.pc = "pointer" /\ sw'.leaving = sw.leaving
  BY DEF SwitchPoint, SavedInv, SessionsTypeOK
<1>3. PhaseFits'
  BY <1>1, <1>2 DEF SavedInv, PhaseFits
<1>4. (\A c \in Conns : ConnFits(c)') /\ (\A v \in Views : ViewFits(v)')
  BY <1>1, ConnsKept, ViewsKept DEF SavedInv
<1>5. \A i \in Ids : ReadFits(i)'
  BY <1>1 DEF SavedInv, PhaseFits, ReadFits
<1>6. AllOnScreen' /\ DiskFits'
  BY <1>1, <1>2 DEF SavedInv, AllOnScreen, DiskFits
<1>7. \A t \in tabs' : TabFits(t)'
  BY <1>1, <1>2 DEF SavedInv, TabFits, LeavesWith, TearsViews
<1> QED
  BY <1>3, <1>4, <1>5, <1>6, <1>7 DEF SavedInv

LEMMA SwitchEnterSaved ==
  ASSUME SavedInv, SessionsTypeOK', SwitchEnter
  PROVE  SavedInv'
<1>1. /\ UNCHANGED <<pointer, disk, launch, tabs, active, subscribed, armed, orphans,
                     suspended, task, reads, closing, kids, target, window, closedTabs>>
      /\ sw.pc = "pointer" /\ activeId' = target
  BY DEF SwitchEnter, backend, saving, win, history
<1>2. sw'.pc = "enter" /\ sw'.leaving = sw.leaving
  BY DEF SwitchEnter, SavedInv, SessionsTypeOK
<1>3. PhaseFits'
  BY <1>1, <1>2 DEF SavedInv, PhaseFits
<1>4. (\A c \in Conns : ConnFits(c)') /\ (\A v \in Views : ViewFits(v)')
      /\ (\A i \in Ids : ReadFits(i)')
  BY <1>1, ConnsKept, ViewsKept, ReadsKept DEF SavedInv
<1>5. AllOnScreen' /\ DiskFits'
  BY <1>1, <1>2 DEF SavedInv, AllOnScreen, DiskFits
<1>6. \A t \in tabs' : TabFits(t)'
  BY <1>1, <1>2 DEF SavedInv, TabFits, LeavesWith, TearsViews
<1> QED
  BY <1>3, <1>4, <1>5, <1>6 DEF SavedInv

LEMMA SwitchTeardownSaved ==
  ASSUME SavedInv, SessionsTypeOK', SwitchTeardown
  PROVE  SavedInv'
<1>1. /\ UNCHANGED <<pointer, disk, launch, activeId, tabs, active, orphans, suspended, task,
                     reads, kids, target, window, closedTabs>>
      /\ sw.pc = "enter" /\ subscribed' = subscribed \ sw.leaving
      /\ armed' = armed \ sw.leaving
  BY DEF SwitchTeardown, backend, win, history
<1>2. sw'.pc = "teardown" /\ sw'.leaving = sw.leaving
  BY DEF SwitchTeardown, SavedInv, SessionsTypeOK
<1>3. /\ active = sw.leaving /\ suspended /\ armed = {} /\ window # "closing"
      /\ \A c \in Conns : closing[c].pc = "no" /\ c \in Ids /\ task[c] = "idle"
      /\ \A v \in Views : v \in Ids /\ task[v] = "idle"
  BY <1>1 DEF SavedInv, PhaseFits, Ids
<1>4. \A c \in Conns : closing'[c].pc = IF c \in sw.leaving THEN "pool" ELSE "no"
  BY <1>3 DEF SwitchTeardown, NotClosing
<1>5. PhaseFits'
  <2>1. sw.leaving \subseteq Conns
    BY DEF SavedInv, SessionsTypeOK
  <2> QED
    BY <1>1, <1>2, <1>3, <1>4, <2>1 DEF SavedInv, PhaseFits
<1>6. \A c \in Conns : ConnFits(c)'
  BY <1>1, <1>3, <1>4 DEF SavedInv, ConnFits, TearsViews
<1>7. \A v \in Views : ViewFits(v)'
  BY <1>1, <1>3, <1>4, SessionsAssumption DEF SavedInv, ViewFits, TearsViews
<1>8. \A i \in Ids : ReadFits(i)'
  BY <1>1 DEF SavedInv, ReadFits
<1>9. AllOnScreen' /\ DiskFits'
  BY <1>1, <1>2 DEF SavedInv, AllOnScreen, DiskFits
<1>10. \A t \in tabs' : TabFits(t)'
  <2> SUFFICES ASSUME NEW t \in tabs PROVE TabFits(t)'
    BY <1>1
  <2>1. LeavesWith(t) => LeavesWith(t)'
    <3> SUFFICES ASSUME LeavesWith(t) PROVE LeavesWith(t)'
      OBVIOUS
    <3>1. Family(t.id) \in sw.leaving /\ Family(t.id) \in Conns
      BY DEF LeavesWith, SavedInv, SessionsTypeOK
    <3>2. t.id \in Views => t.id \in subscribed /\ t.id \notin sw.leaving
      BY <1>3, <3>1, SessionsAssumption DEF LeavesWith, TearsViews, SavedInv, SessionsTypeOK
    <3> QED
      BY <1>1, <1>2, <1>4, <3>1, <3>2 DEF LeavesWith, TearsViews
  <2> QED
    BY <1>1, <1>2, <2>1 DEF SavedInv, TabFits
<1> QED
  BY <1>5, <1>6, <1>7, <1>8, <1>9, <1>10 DEF SavedInv

\* Once every outgoing connection is gone so are its tabs and those of its views, and no
\* tab is being saved.
LEMMA SwitchReconnectSaved ==
  ASSUME SavedInv, SessionsTypeOK', SwitchReconnect
  PROVE  SavedInv'
<1>1. /\ UNCHANGED <<pointer, disk, launch, activeId, tabs, active, subscribed, armed, orphans,
                     suspended, reads, closing, kids, target, window, closedTabs>>
      /\ sw.pc = "teardown" /\ \A c \in sw.leaving : closing[c].pc = "no"
  BY DEF SwitchReconnect, backend, saving, win, history
<1>2. sw'.pc = "reconnect"
  BY DEF SwitchReconnect, SavedInv, SessionsTypeOK
<1>3. /\ \A c \in Conns : closing[c].pc = "no"
      /\ active = {} /\ activeId = pointer
      /\ \A i \in Ids : task[i] = "idle"
  BY <1>1 DEF SavedInv, PhaseFits
<1>4. subscribed = {}
  <2>1. \A c \in Conns : c \notin subscribed
    BY <1>3 DEF SavedInv, ConnFits
  <2>2. \A v \in Views : v \notin subscribed
    BY <1>3, SessionsAssumption DEF SavedInv, ViewFits, TearsViews
  <2>3. subscribed \subseteq Conns \cup Views
    BY DEF SavedInv, SessionsTypeOK, Ids
  <2> QED
    BY <2>1, <2>2, <2>3
<1>5. /\ \A c \in Conns : task'[c] \in {"idle", "dialing"}
      /\ \A v \in Views : task'[v] = "idle"
  <2>1. sw.wanted \subseteq Conns
    BY DEF SavedInv, SessionsTypeOK
  <2> QED
    BY <1>3, <2>1, SessionsAssumption DEF SwitchReconnect, StartDial, Ids
<1>6. PhaseFits'
  BY <1>1, <1>2, <1>3 DEF SavedInv, PhaseFits
<1>7. \A c \in Conns : ConnFits(c)'
  BY <1>1, <1>3, <1>4, <1>5 DEF SavedInv, ConnFits, TearsViews
<1>8. \A v \in Views : ViewFits(v)'
  BY <1>1, <1>4, <1>5 DEF ViewFits
<1>9. \A i \in Ids : ReadFits(i)'
  BY <1>1, <1>3, <1>5 DEF SavedInv, ReadFits, Ids
<1>10. AllOnScreen' /\ DiskFits'
  BY <1>1, <1>4 DEF SavedInv, AllOnScreen, DiskFits
<1>11. \A t \in tabs' : TabFits(t)'
  BY <1>1, <1>2 DEF SavedInv, TabFits, LeavesWith
<1> QED
  BY <1>6, <1>7, <1>8, <1>9, <1>10, <1>11 DEF SavedInv

LEMMA SwitchEndSaved ==
  ASSUME SavedInv, SessionsTypeOK', SwitchEnd
  PROVE  SavedInv'
<1>1. /\ UNCHANGED <<pointer, disk, launch, activeId, tabs, active, subscribed, armed, orphans,
                     task, reads, closing, kids, target, window, closedTabs>>
      /\ sw.pc = "reconnect" /\ suspended' = FALSE
  BY DEF SwitchEnd, backend, win, history
<1>2. sw'.pc = "idle"
  BY SessionTypes DEF SwitchEnd
<1>3. PhaseFits'
  BY <1>1, <1>2 DEF SavedInv, PhaseFits
<1>4. (\A c \in Conns : ConnFits(c)') /\ (\A v \in Views : ViewFits(v)')
      /\ (\A i \in Ids : ReadFits(i)')
  BY <1>1, ConnsKept, ViewsKept, ReadsKept DEF SavedInv
<1>5. AllOnScreen' /\ DiskFits'
  BY <1>1 DEF SavedInv, AllOnScreen, OnScreen, TabsOf, DiskFits
<1>6. \A t \in tabs' : TabFits(t)'
  BY <1>1, <1>2 DEF SavedInv, TabFits
<1> QED
  BY <1>3, <1>4, <1>5, <1>6 DEF SavedInv

-----------------------------------------------------------------------------
(* The window.                                                             *)

LEMMA CloseRequestedSaved ==
  ASSUME Races = {}, SavedInv, SessionsTypeOK', CloseRequested
  PROVE  SavedInv'
<1>1. /\ UNCHANGED <<pointer, disk, activeId, tabs, active, subscribed, armed, orphans,
                     suspended, task, reads, closing, kids, sw, target, closedTabs>>
      /\ sw.pc = "idle"
  BY DEF CloseRequested, saving, switch, history
<1>2. PhaseFits'
  BY <1>1 DEF SavedInv, PhaseFits
<1>3. (\A c \in Conns : ConnFits(c)') /\ (\A v \in Views : ViewFits(v)')
      /\ (\A i \in Ids : ReadFits(i)')
  BY <1>1, ConnsKept, ViewsKept, ReadsKept DEF SavedInv
<1>4. AllOnScreen' /\ DiskFits'
  BY <1>1 DEF SavedInv, AllOnScreen, OnScreen, TabsOf, DiskFits
<1>5. \A t \in tabs' : TabFits(t)'
  BY <1>1, TabsKept DEF SavedInv
<1> QED
  BY <1>2, <1>3, <1>4, <1>5 DEF SavedInv

LEMMA RelaunchSaved ==
  ASSUME SavedInv, SessionsTypeOK', Relaunch
  PROVE  SavedInv'
<1>1. /\ UNCHANGED <<pointer, disk>> /\ activeId' = pointer
      /\ tabs' = {} /\ active' = {} /\ subscribed' = {} /\ armed' = {} /\ orphans' = {}
      /\ suspended' = FALSE /\ window' = "open"
  BY DEF Relaunch, backend
<1>2. /\ sw'.pc = "idle"
      /\ \A c \in Conns : closing'[c].pc = "no" /\ kids'[c] = {}
  BY SessionTypes DEF Relaunch
<1>3. \A i \in Ids : task'[i] \in {"idle", "dialing"} /\ (i \in Views => task'[i] = "idle")
                     /\ reads'[i] = NeverSaved
  <2>1. launch[pointer] \subseteq Conns
    BY DEF SavedInv, SessionsTypeOK
  <2> QED
    BY <2>1, SessionsAssumption DEF Relaunch
<1>4. PhaseFits'
  BY <1>1, <1>2 DEF PhaseFits
<1>5. \A c \in Conns : ConnFits(c)'
  BY <1>1, <1>2, <1>3 DEF ConnFits, Ids
<1>6. \A v \in Views : ViewFits(v)'
  BY <1>1, <1>3 DEF ViewFits, Ids
<1>7. \A i \in Ids : ReadFits(i)'
  BY <1>3 DEF ReadFits
<1>8. AllOnScreen' /\ DiskFits' /\ \A t \in tabs' : TabFits(t)'
  BY <1>1 DEF SavedInv, AllOnScreen, DiskFits
<1> QED
  BY <1>4, <1>5, <1>6, <1>7, <1>8 DEF SavedInv

-----------------------------------------------------------------------------
(* The invariant, and what it gives.                                       *)

LEMMA SavedInit ==
  ASSUME SessionsInit
  PROVE  SavedInv
<1>1. SessionsTypeOK
  <2>1. /\ sw \in Switches /\ closing \in [Conns -> Closings] /\ kids \in [Conns -> SUBSET Views]
        /\ disk \in [Envs -> [Ids -> TabStates]] /\ reads \in [Ids -> TabStates]
        /\ launch \in [Envs -> SUBSET Conns]
    BY SessionTypes DEF SessionsInit
  <2>2. /\ tabs \subseteq Tab /\ closedTabs \subseteq Tab /\ opened \in 0..MaxTabs
        /\ task \in [Ids -> {"idle", "dialing", "restoring"}]
    BY SessionsAssumption DEF SessionsInit
  <2> QED
    BY <2>1, <2>2 DEF SessionsInit, SessionsTypeOK, Closings, Switches
<1>2. /\ sw.pc = "idle" /\ \A c \in Conns : closing[c].pc = "no"
      /\ \A i \in Ids, e \in Envs : disk[e][i].tabs = {}
  BY SessionTypes DEF SessionsInit
<1>3. PhaseFits
  BY <1>2 DEF SessionsInit, PhaseFits
<1>4. \A c \in Conns : ConnFits(c)
  BY <1>2 DEF SessionsInit, ConnFits, Ids
<1>5. (\A v \in Views : ViewFits(v)) /\ (\A i \in Ids : ReadFits(i))
  BY DEF SessionsInit, ViewFits, ReadFits, Ids
<1>6. AllOnScreen /\ DiskFits /\ \A t \in tabs : TabFits(t)
  BY <1>2 DEF SessionsInit, AllOnScreen, DiskFits
<1> QED
  BY <1>1, <1>3, <1>4, <1>5, <1>6 DEF SavedInv

LEMMA SavedStep ==
  ASSUME Races = {}, SavedInv, [SessionsNext]_sessionsVars
  PROVE  SavedInv'
<1>1. SessionsTypeOK'
  BY SessionTypesStep DEF SavedInv
<1>2. CASE UNCHANGED sessionsVars
  <2>1. UNCHANGED <<pointer, disk, launch, activeId, tabs, active, subscribed, armed, orphans,
                    suspended, task, reads, closing, kids, sw, target, window, closedTabs>>
    BY <1>2 DEF sessionsVars, backend, saving, switch, win, history
  <2> QED
    BY <1>1, <2>1, PhaseKept, ConnsKept, ViewsKept, ReadsKept, TabsKept, OnScreenKept
    DEF SavedInv, PhaseFits, DiskFits
<1>3. CASE SessionsNext
  <2>1. CASE \E i \in Ids : OpenTab(i) \/ TimerFires(i) \/ SwitchFlush(i) \/ CloseFlush(i)
    BY <1>1, <2>1, OpenTabSaved, FlushSaved
  <2>2. CASE \E i \in Ids : DialFails(i) \/ Restored(i)
    BY <1>1, <2>2, DialFailsSaved, RestoredSaved
  <2>3. CASE \E t \in Tab : CloseTab(t)
    BY <1>1, <2>3, CloseTabSaved
  <2>4. CASE \E c \in Conns : Connect(c) \/ ConnDialed(c)
    BY <1>1, <2>4, ConnectSaved, ConnDialedSaved
  <2>5. CASE \E c \in Conns : Disconnect(c) \/ FlushDone(c) \/ PoolClosed(c) \/ Disconnected(c)
    BY <1>1, <2>5, DisconnectSaved, FlushDoneSaved, PoolClosedSaved, DisconnectedSaved
  <2>6. CASE \E v \in Views : OpenView(v) \/ ViewDialed(v)
    BY <1>1, <2>6, OpenViewSaved, ViewDialedSaved
  <2>7. CASE \E c \in Conns, v \in Views : ChildFlush(c, v) \/ ChildGone(c, v)
    BY <1>1, <2>7, ChildFlushSaved, ChildGoneSaved
  <2>8. CASE (\E e \in Envs : Switch(e)) \/ SwitchSuspend \/ SwitchPoint \/ SwitchEnter
    BY <1>1, <2>8, SwitchSaved, SwitchSuspendSaved, SwitchPointSaved, SwitchEnterSaved
  <2>9. CASE SwitchTeardown \/ SwitchReconnect \/ SwitchEnd
    BY <1>1, <2>9, SwitchTeardownSaved, SwitchReconnectSaved, SwitchEndSaved
  <2>10. CASE CloseRequested \/ Destroyed \/ Killed
    BY <1>1, <2>10, CloseRequestedSaved, RelaunchSaved DEF Destroyed, Killed
  <2> QED
    BY <1>3, <2>1, <2>2, <2>3, <2>4, <2>5, <2>6, <2>7, <2>8, <2>9, <2>10 DEF SessionsNext
<1> QED
  BY <1>2, <1>3

\* The environments, their sessions, gestures and files keep their form, whatever crosses.
THEOREM SessionsTyped == SessionsSpec => []SessionsTypeOK
<1>1. SessionsInit => SessionsTypeOK
  BY SavedInit DEF SavedInv
<1>2. SessionsTypeOK /\ [SessionsNext]_sessionsVars => SessionsTypeOK'
  BY SessionTypesStep
<1> QED
  BY <1>1, <1>2, PTL DEF SessionsSpec

LEMMA SavedInvariant ==
  ASSUME Races = {}
  PROVE  SessionsSpec => []SavedInv
<1>1. SessionsInit => SavedInv
  BY SavedInit
<1>2. SavedInv /\ [SessionsNext]_sessionsVars => SavedInv'
  BY SavedStep
<1> QED
  BY <1>1, <1>2, PTL DEF SessionsSpec

\* With one gesture at a time, tabs are saved for the environment they were opened in,
\* through every switch, disconnect, failed connect, close and crash.
THEOREM TabsSavedWhereOpened == ASSUME Races = {} PROVE SessionsSpec => []SavedWhereOpened
<1>1. SavedInv => SavedWhereOpened
  BY DEF SavedInv, DiskFits, SavedWhereOpened
<1> QED
  BY <1>1, SavedInvariant, PTL

\* The disk changes only by a save of tabs that are being saved, before a switch has taken
\* anything off the screen.
LEMMA DiskChanges ==
  ASSUME SavedInv, SessionsNext
  PROVE  \/ UNCHANGED disk
         \/ \E i \in subscribed : SaveTabs(i) /\ sw.pc \in {"idle", "flush"}
                                  /\ closedTabs' = closedTabs
<1>1. ASSUME NEW i \in Ids, TimerFires(i) \/ SwitchFlush(i) \/ CloseFlush(i)
      PROVE  \E j \in subscribed : SaveTabs(j) /\ sw.pc \in {"idle", "flush"}
                                   /\ closedTabs' = closedTabs
  BY <1>1 DEF TimerFires, SwitchFlush, CloseFlush, SavedInv, SessionsTypeOK, PhaseFits, history
<1>2. ASSUME NEW c \in Conns, Disconnect(c), disk' # disk
      PROVE  \E j \in subscribed : SaveTabs(j) /\ sw.pc \in {"idle", "flush"}
                                   /\ closedTabs' = closedTabs
  <2>1. c \in armed /\ SaveTabs(c)
    BY <1>2 DEF Disconnect
  <2>2. c \in subscribed /\ sw.pc \in {"idle", "flush"} /\ closedTabs' = closedTabs
    BY <1>2, <2>1 DEF Disconnect, SavedInv, SessionsTypeOK, PhaseFits, history
  <2> QED
    BY <2>1, <2>2
<1>3. ASSUME NEW c \in Conns, NEW v \in Views, ChildFlush(c, v)
      PROVE  \E j \in subscribed : SaveTabs(j) /\ sw.pc \in {"idle", "flush"}
                                   /\ closedTabs' = closedTabs
  BY <1>3 DEF ChildFlush, SavedInv, SessionsTypeOK, PhaseFits, history
<1>4. ASSUME \/ \E i \in Ids : OpenTab(i) \/ DialFails(i) \/ Restored(i)
             \/ \E t \in Tab : CloseTab(t)
             \/ \E c \in Conns : Connect(c) \/ ConnDialed(c) \/ FlushDone(c) \/ PoolClosed(c)
                                 \/ Disconnected(c)
             \/ \E v \in Views : OpenView(v) \/ ViewDialed(v)
             \/ \E c \in Conns, v \in Views : ChildGone(c, v)
      PROVE  UNCHANGED disk
  BY <1>4 DEF OpenTab, DialFails, Restored, CloseTab, Connect, ConnDialed, FlushDone, PoolClosed,
              Disconnected, OpenView, ViewDialed, ChildGone, backend
<1>5. ASSUME \/ \E e \in Envs : Switch(e)
             \/ SwitchSuspend \/ SwitchPoint \/ SwitchEnter \/ SwitchTeardown
             \/ SwitchReconnect \/ SwitchEnd \/ CloseRequested \/ Destroyed \/ Killed
      PROVE  UNCHANGED disk
  BY <1>5 DEF Switch, SwitchSuspend, SwitchPoint, SwitchEnter, SwitchTeardown, SwitchReconnect,
              SwitchEnd, CloseRequested, Destroyed, Killed, Relaunch, backend
<1> QED
  BY <1>1, <1>2, <1>3, <1>4, <1>5 DEF SessionsNext

\* With one gesture at a time, a tab that reached the disk stays there until the user closes
\* it: every save writes a session that is whole.
THEOREM SavedTabsStay == ASSUME Races = {} PROVE SessionsSpec => SavedStays
<1>1. ASSUME SavedInv, [SessionsNext]_sessionsVars
      PROVE  [\A e \in Envs, i \in Ids :
                disk[e][i].tabs \ disk'[e][i].tabs \subseteq closedTabs']_sessionsVars
  <2>1. CASE UNCHANGED sessionsVars
    BY <2>1
  <2>2. CASE SessionsNext
    <3>1. CASE UNCHANGED disk
      BY <3>1
    <3>2. ASSUME NEW i \in subscribed, SaveTabs(i), sw.pc \in {"idle", "flush"},
                 closedTabs' = closedTabs
          PROVE  \A e \in Envs, j \in Ids :
                   disk[e][j].tabs \ disk'[e][j].tabs \subseteq closedTabs'
      <4>1. SessionsTypeOK /\ i \in Ids /\ OnScreen(i)
        BY <1>1, <3>2 DEF SavedInv, SessionsTypeOK, AllOnScreen
      <4>2. /\ disk'[pointer][i].tabs = TabsOf(i)
            /\ \A e \in Envs, j \in Ids : e # pointer \/ j # i => disk'[e][j] = disk[e][j]
        BY <3>2, <4>1, SaveTypes
      <4> QED
        BY <3>2, <4>1, <4>2 DEF OnScreen
    <3> QED
      BY <1>1, <2>2, <3>1, <3>2, DiskChanges
  <2> QED
    BY <1>1, <2>1, <2>2
<1> QED
  BY <1>1, SavedInvariant, PTL DEF SessionsSpec, SavedStays

-----------------------------------------------------------------------------
(* What an environment reopens.  Only an overlap of connecting with a      *)
(* switch endangers it: tabs that change during a disconnect, and a window *)
(* closed in the middle of a switch, do not.                               *)

\* While a switch flushes, the session stands still: what is live is what it is leaving.
LaunchFits ==
  /\ sw.pc # "pointer" => activeId = pointer
  /\ sw.pc = "pointer" => target = pointer
  /\ sw.pc \notin {"idle", "flush"} => suspended
  /\ sw.pc = "flush" => /\ target # activeId /\ active = sw.leaving
                        /\ \A c \in Conns : Unattended(c)

LaunchInv == SessionsTypeOK /\ LaunchFits

\* Steps that touch neither the switch nor what is live nor a gesture that is under way.
LEMMA LaunchFitsKept ==
  ASSUME LaunchFits, UNCHANGED <<pointer, activeId, active, sw, target, suspended>>,
         sw.pc = "flush" => UNCHANGED <<task, closing>>
  PROVE  LaunchFits'
  BY DEF LaunchFits, Unattended

LEMMA LaunchFitsStep ==
  ASSUME "connect" \notin Races, LaunchInv, SessionsNext
  PROVE  LaunchFits'
<1>1. ASSUME NEW c \in Conns, sw.pc = "flush"
      PROVE  /\ task[c] = "idle" /\ closing[c].pc = "no"
             /\ \A v \in Views : Parent[v] = c => task[v] = "idle"
  BY <1>1 DEF LaunchInv, LaunchFits, Unattended
<1>2. \A v \in Views : Parent[v] \in Conns
  BY SessionsAssumption
<1>3. ASSUME NEW i \in Ids
      PROVE  sw.pc = "flush" => task[i] = "idle"
  BY <1>1, <1>2 DEF Ids
<1>4. CASE \E i \in Ids : \/ TimerFires(i) \/ OpenTab(i) \/ DialFails(i) \/ Restored(i)
                          \/ CloseFlush(i)
  <2>1. PICK i \in Ids : TimerFires(i) \/ OpenTab(i) \/ DialFails(i) \/ Restored(i)
                         \/ CloseFlush(i)
    BY <1>4
  <2>2. UNCHANGED <<pointer, activeId, active, sw, target, suspended>>
    BY <2>1 DEF TimerFires, OpenTab, DialFails, Restored, CloseFlush, backend,
                saving, switch
  <2>3. sw.pc = "flush" => UNCHANGED <<task, closing>>
    BY <1>3, <2>1 DEF TimerFires, OpenTab, DialFails, Restored, CloseFlush
  <2> QED
    BY <2>2, <2>3, LaunchFitsKept DEF LaunchInv
<1>5. CASE \E i \in Ids : SwitchFlush(i)
  BY <1>5 DEF SwitchFlush, LaunchInv, LaunchFits, SessionsTypeOK, Unattended
<1>6. CASE \E t \in Tab : CloseTab(t)
  BY <1>6, LaunchFitsKept DEF CloseTab, LaunchInv, backend, switch
<1>7. CASE \E c \in Conns : \/ Connect(c) \/ Disconnect(c) \/ FlushDone(c) \/ Disconnected(c)
                            \/ \E v \in Views : ChildFlush(c, v) \/ ChildGone(c, v)
  <2>1. PICK c \in Conns : \/ Connect(c) \/ Disconnect(c) \/ FlushDone(c) \/ Disconnected(c)
                           \/ \E v \in Views : ChildFlush(c, v) \/ ChildGone(c, v)
    BY <1>7
  <2>2. sw.pc # "flush"
    <3>1. Connect(c) \/ Disconnect(c) => sw.pc # "flush"
      BY DEF Connect, Disconnect, MayConnect
    <3>2. FlushDone(c) \/ Disconnected(c) \/ (\E v \in Views : ChildFlush(c, v) \/ ChildGone(c, v))
            => closing[c].pc # "no"
      BY DEF FlushDone, Disconnected, ChildFlush, ChildGone
    <3> QED
      BY <1>1, <2>1, <3>1, <3>2
  <2>3. UNCHANGED <<pointer, activeId, active, sw, target, suspended>>
    <3>1. Connect(c) \/ Disconnect(c) \/ FlushDone(c) \/ Disconnected(c)
            => UNCHANGED <<pointer, activeId, active, sw, target, suspended>>
      BY DEF Connect, Disconnect, FlushDone, Disconnected, backend, saving, switch
    <3>2. \A v \in Views : ChildFlush(c, v) \/ ChildGone(c, v)
            => UNCHANGED <<pointer, activeId, active, sw, target, suspended>>
      BY DEF ChildFlush, ChildGone, backend, switch
    <3> QED
      BY <2>1, <3>1, <3>2
  <2> QED
    BY <2>2, <2>3, LaunchFitsKept DEF LaunchInv
<1>8. CASE \E c \in Conns : ConnDialed(c) \/ PoolClosed(c)
  <2>1. PICK c \in Conns : ConnDialed(c) \/ PoolClosed(c)
    BY <1>8
  <2>2. sw.pc # "flush"
    BY <1>1, <2>1 DEF ConnDialed, PoolClosed
  <2> QED
    BY <2>1, <2>2 DEF ConnDialed, PoolClosed, LaunchInv, LaunchFits, backend, saving, switch
<1>9. CASE \E v \in Views : OpenView(v) \/ ViewDialed(v)
  <2>1. PICK v \in Views : OpenView(v) \/ ViewDialed(v)
    BY <1>9
  <2>2. v \in Ids /\ sw.pc # "flush"
    BY <1>3, <2>1 DEF OpenView, ViewDialed, MayConnect, Ids
  <2>3. UNCHANGED <<pointer, activeId, active, sw, target, suspended>>
    BY <2>1 DEF OpenView, ViewDialed, backend, saving, switch
  <2> QED
    BY <2>2, <2>3, LaunchFitsKept DEF LaunchInv
<1>10. CASE \E e \in Envs : Switch(e)
  BY <1>10 DEF Switch, NoSwitch, LaunchInv, LaunchFits, Unattended, backend, saving
<1>11. CASE SwitchSuspend \/ SwitchPoint \/ SwitchEnter
  BY <1>11 DEF SwitchSuspend, SwitchPoint, SwitchEnter, LaunchInv, LaunchFits, SessionsTypeOK,
               backend, saving
<1>12. CASE SwitchTeardown \/ SwitchReconnect \/ SwitchEnd
  <2>1. sw'.pc \in {"idle", "teardown", "reconnect"} /\ sw.pc \notin {"idle", "flush", "pointer"}
    BY <1>12, SessionTypes
    DEF SwitchTeardown, SwitchReconnect, SwitchEnd, LaunchInv, SessionsTypeOK
  <2>2. UNCHANGED <<pointer, activeId>> /\ (sw'.pc # "idle" => UNCHANGED suspended)
    BY <1>12, SessionTypes
    DEF SwitchTeardown, SwitchReconnect, SwitchEnd, backend, saving
  <2> QED
    BY <2>1, <2>2 DEF LaunchInv, LaunchFits
<1>13. CASE CloseRequested
  BY <1>13, LaunchFitsKept DEF CloseRequested, LaunchInv, saving, switch
<1>14. CASE Destroyed \/ Killed
  BY <1>14 DEF Destroyed, Killed, Relaunch, NoSwitch, LaunchFits, backend
<1> QED
  BY <1>4, <1>5, <1>6, <1>7, <1>8, <1>9, <1>10, <1>11, <1>12, <1>13, <1>14 DEF SessionsNext

LEMMA LaunchInvariant ==
  ASSUME "connect" \notin Races
  PROVE  SessionsSpec => []LaunchInv
<1>1. SessionsInit => LaunchInv
  <2>1. ASSUME SessionsInit PROVE LaunchInv
    <3>1. SessionsTypeOK
      BY <2>1, SavedInit DEF SavedInv
    <3>2. sw.pc = "idle" /\ activeId = pointer
      BY <2>1, SessionTypes DEF SessionsInit
    <3> QED
      BY <3>1, <3>2 DEF LaunchInv, LaunchFits
  <2> QED
    BY <2>1
<1>2. LaunchInv /\ [SessionsNext]_sessionsVars => LaunchInv'
  <2>1. ASSUME LaunchInv, UNCHANGED sessionsVars
        PROVE  LaunchFits'
    BY <2>1, LaunchFitsKept DEF LaunchInv, sessionsVars, backend, saving, switch
  <2> QED
    BY <2>1, SessionTypesStep, LaunchFitsStep DEF LaunchInv
<1> QED
  BY <1>1, <1>2, PTL DEF SessionsSpec

\* What an environment reopens is written while it is on screen: before a switch begins, or
\* during its flush with what the switch leaves.
LEMMA LaunchChanges ==
  ASSUME LaunchInv, SessionsNext
  PROVE  \/ UNCHANGED launch
         \/ /\ \/ sw.pc = "idle"
               \/ sw.pc = "flush" /\ launch'[pointer] = sw.leaving
            /\ \A e \in Envs \ {pointer} : launch'[e] = launch[e]
<1>1. launch \in [Envs -> SUBSET Conns] /\ pointer \in Envs
  BY DEF LaunchInv, SessionsTypeOK
<1>2. ASSUME NEW live, PersistLaunch(live), sw.pc = "flush" => live = sw.leaving
      PROVE  \/ UNCHANGED launch
             \/ /\ \/ sw.pc = "idle"
                   \/ sw.pc = "flush" /\ launch'[pointer] = sw.leaving
                /\ \A e \in Envs \ {pointer} : launch'[e] = launch[e]
  BY <1>1, <1>2 DEF PersistLaunch, LaunchInv, LaunchFits
<1>3. ASSUME NEW c \in Conns, ConnDialed(c) \/ Disconnected(c)
      PROVE  \/ UNCHANGED launch
             \/ sw.pc # "flush" /\ \E live : PersistLaunch(live)
  BY <1>3 DEF ConnDialed, Disconnected, LaunchInv, LaunchFits, Unattended
<1>4. CASE CloseRequested
  BY <1>2, <1>4 DEF CloseRequested, LaunchInv, LaunchFits
<1>5. CASE SwitchSuspend
  BY <1>1, <1>5 DEF SwitchSuspend
<1>6. ASSUME \/ \E i \in Ids : \/ TimerFires(i) \/ OpenTab(i) \/ DialFails(i) \/ Restored(i)
                               \/ SwitchFlush(i) \/ CloseFlush(i)
             \/ \E t \in Tab : CloseTab(t)
             \/ \E c \in Conns : Connect(c) \/ Disconnect(c) \/ FlushDone(c) \/ PoolClosed(c)
             \/ \E v \in Views : OpenView(v) \/ ViewDialed(v)
             \/ \E c \in Conns, v \in Views : ChildFlush(c, v) \/ ChildGone(c, v)
      PROVE  UNCHANGED launch
  BY <1>6 DEF TimerFires, OpenTab, DialFails, Restored, SwitchFlush, CloseFlush, CloseTab,
              Connect, Disconnect, FlushDone, PoolClosed, OpenView, ViewDialed, ChildFlush,
              ChildGone, backend
<1>7. ASSUME \/ \E e \in Envs : Switch(e)
             \/ SwitchPoint \/ SwitchEnter \/ SwitchTeardown \/ SwitchReconnect \/ SwitchEnd
             \/ Destroyed \/ Killed
      PROVE  UNCHANGED launch
  BY <1>7 DEF Switch, SwitchPoint, SwitchEnter, SwitchTeardown, SwitchReconnect, SwitchEnd,
              Destroyed, Killed, Relaunch, backend
<1> QED
  BY <1>2, <1>3, <1>4, <1>5, <1>6, <1>7 DEF SessionsNext

\* As long as nothing is connected or disconnected in the middle of another gesture, what an
\* environment reopens changes only while it is on screen, and a switch writes what was live
\* when it began, whether or not the window is closed half way through it.
THEOREM LaunchIsRemembered ==
  ASSUME "connect" \notin Races
  PROVE  SessionsSpec => LaunchRemembered
<1>1. ASSUME LaunchInv, [SessionsNext]_sessionsVars
      PROVE  [\A e \in Envs : launch'[e] # launch[e] =>
                e = activeId
                /\ (sw.pc # "idle" => e # target /\ launch'[e] = sw.leaving)]_sessionsVars
  <2>1. CASE UNCHANGED sessionsVars
    BY <2>1
  <2>2. CASE SessionsNext
    <3>1. /\ sw.pc # "pointer" => activeId = pointer
          /\ sw.pc = "flush" => target # activeId
      BY <1>1 DEF LaunchInv, LaunchFits
    <3> QED
      BY <1>1, <2>2, <3>1, LaunchChanges
  <2> QED
    BY <1>1, <2>1, <2>2
<1> QED
  BY <1>1, LaunchInvariant, PTL DEF SessionsSpec, LaunchRemembered

HIDE SessionsAssumption
=============================================================================
