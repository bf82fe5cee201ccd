---------------------------- MODULE WindowProofs ----------------------------
(***************************************************************************)
(* What the window shows is what there is, for any number of tabs, cells,  *)
(* connections, profiles and origins: the docked editor follows the tab in *)
(* front and loses no text, the schema tree shows nothing older than its   *)
(* last refresh and fills what is open, a sweep of the shared origins      *)
(* leaves the list as the origins have it, a table tab at rest shows the   *)
(* rows and the total that were asked for, and the assistant's answers are *)
(* whole.                                                                  *)
(***************************************************************************)
EXTENDS SideEditor, SchemaCache, OriginSync, TableTab, AiTurns, QueueFacts,
        FiniteSetTheorems

-----------------------------------------------------------------------------
(***************************************************************************)
(* SideEditor.                                                             *)
(***************************************************************************)

USE SideEditorAssumption

(* Types, and whose cell is on screen.                                     *)

\* The question is asked about a cell that is on screen.
FollowsInv ==
  /\ SideEditorTypeOK
  /\ EditorFollowsTab
  /\ pending # NoText => screen # NoText

\* Types and ownership hold when the window opens.
LEMMA FollowsInit == SideEditorInit => FollowsInv
<1> SUFFICES ASSUME SideEditorInit PROVE FollowsInv
  OBVIOUS
<1>1. stored \in [Targets -> Texts]
  BY DEF SideEditorInit
<1>2. SideEditorTypeOK
  <2>1. parked \in [EditTabs -> Buffers \cup {NoText}]
    BY DEF SideEditorInit
  <2>2. work \in [EditTabs -> Drafts \cup {NoText}]
    BY DEF SideEditorInit
  <2>3. typed \in 0..MaxTyped
    BY DEF SideEditorInit
  <2>4. disabled \in BOOLEAN
    BY DEF SideEditorInit
  <2> QED
    BY <1>1, <2>1, <2>2, <2>3, <2>4 DEF SideEditorInit, SideEditorTypeOK
<1>3. EditorFollowsTab
  BY DEF SideEditorInit, EditorFollowsTab
<1> QED
  BY <1>2, <1>3 DEF SideEditorInit, FollowsInv

\* A cell that is opened starts from what is stored in it.
LEMMA FreshBuffer ==
  ASSUME SideEditorTypeOK, NEW t \in EditTabs, NEW c \in Cells
  PROVE  /\ Fresh(t, c) \in Buffers /\ Fresh(t, c) # NoText
         /\ Fresh(t, c).target = [tab |-> t, cell |-> c]
         /\ Fresh(t, c).original = stored[Fresh(t, c).target]
         /\ Fresh(t, c).text = Fresh(t, c).original
<1> [tab |-> t, cell |-> c] \in Targets
  BY DEF Targets
<1> QED
  BY DEF SideEditorTypeOK, Fresh, Buffers

-----------------------------------------------------------------------------
(* What each step does to types and ownership.                             *)

LEMMA OpenCellFollows ==
  ASSUME FollowsInv, NEW c \in Cells, OpenCell(c)
  PROVE  FollowsInv'
<1>1. front \in EditTabs
  BY DEF FollowsInv, SideEditorTypeOK, OpenCell
<1>2. Fresh(front, c) \in Buffers /\ Fresh(front, c) # NoText
      /\ Fresh(front, c).target.tab = front
  <2>1. SideEditorTypeOK
    BY DEF FollowsInv
  <2>2. Fresh(front, c) \in Buffers /\ Fresh(front, c) # NoText
        /\ Fresh(front, c).target = [tab |-> front, cell |-> c]
    BY <1>1, <2>1, FreshBuffer, Zenon
  <2> QED
    BY <2>2
<1>3. CASE Dirty
  BY <1>3 DEF FollowsInv, SideEditorTypeOK, EditorFollowsTab, OpenCell, Dirty, savingVars
<1>4. CASE ~Dirty
  <2>1. screen' = Fresh(front, c) /\ UNCHANGED <<editTabs, front, parked, pending>>
    BY <1>4 DEF OpenCell
  <2>2. EditorFollowsTab'
    BY <1>1, <1>2, <2>1 DEF OpenCell, FollowsInv, SideEditorTypeOK, EditorFollowsTab
  <2>3. SideEditorTypeOK'
    BY <1>2, <2>1 DEF OpenCell, FollowsInv, SideEditorTypeOK, savingVars
  <2> QED
    BY <1>2, <2>1, <2>2, <2>3 DEF FollowsInv
<1> QED
  BY <1>3, <1>4

LEMMA DiscardAndOpenFollows ==
  ASSUME FollowsInv, DiscardAndOpen
  PROVE  FollowsInv'
<1>1. front \in EditTabs /\ pending \in Cells
  BY DEF FollowsInv, SideEditorTypeOK, EditorFollowsTab, DiscardAndOpen
<1>2. Fresh(front, pending) \in Buffers /\ Fresh(front, pending) # NoText
      /\ Fresh(front, pending).target.tab = front
  <2>1. SideEditorTypeOK
    BY DEF FollowsInv
  <2>2. Fresh(front, pending) \in Buffers /\ Fresh(front, pending) # NoText
        /\ Fresh(front, pending).target = [tab |-> front, cell |-> pending]
    BY <1>1, <2>1, FreshBuffer, Zenon
  <2> QED
    BY <2>2
<1> QED
  BY <1>1, <1>2
  DEF FollowsInv, SideEditorTypeOK, EditorFollowsTab, DiscardAndOpen, savingVars

LEMMA TypeFollows ==
  ASSUME FollowsInv, NEW x \in Texts, Type(x)
  PROVE  FollowsInv'
<1>1. screen \in Buffers /\ front \in EditTabs
  BY DEF FollowsInv, SideEditorTypeOK, EditorFollowsTab, Type
<1>2. screen' \in Buffers /\ screen' # NoText /\ screen'.target = screen.target
  BY <1>1 DEF Type, Buffers
<1>3. work' \in [EditTabs -> Drafts \cup {NoText}]
  BY <1>1 DEF FollowsInv, SideEditorTypeOK, Type, Buffers, Targets, Drafts
<1> QED
  BY <1>1, <1>2, <1>3
  DEF FollowsInv, SideEditorTypeOK, EditorFollowsTab, Type, savingVars

LEMMA StoredTypes ==
  ASSUME SideEditorTypeOK, NEW s \in Saves, Stored(s)
  PROVE  stored' \in [Targets -> Texts] /\ work' \in [EditTabs -> Drafts \cup {NoText}]
  BY DEF SideEditorTypeOK, Stored, Saves, Targets, Drafts

LEMMA SavingFollows ==
  ASSUME FollowsInv,
         PressSave \/ ClickSave \/ KeySaveDone \/ KeySaveFails
           \/ ButtonSaveDone \/ ButtonSaveFails
  PROVE  FollowsInv'
<1>1. CASE PressSave
  <2>1. [target |-> screen.target, text |-> screen.text] \in Saves
    BY <1>1 DEF FollowsInv, SideEditorTypeOK, PressSave, Buffers, Saves
  <2> QED
    BY <1>1, <2>1 DEF FollowsInv, SideEditorTypeOK, EditorFollowsTab, PressSave
<1>2. CASE ClickSave
  <2>1. [target |-> screen.target, text |-> screen.text] \in Saves
    BY <1>2 DEF FollowsInv, SideEditorTypeOK, ClickSave, Buffers, Saves
  <2> QED
    BY <1>2, <2>1 DEF FollowsInv, SideEditorTypeOK, EditorFollowsTab, ClickSave
<1>3. CASE KeySaveDone
  <2>1. keySave \in Saves
    BY <1>3 DEF FollowsInv, SideEditorTypeOK, KeySaveDone
  <2>2. stored' \in [Targets -> Texts] /\ work' \in [EditTabs -> Drafts \cup {NoText}]
    BY <1>3, <2>1, StoredTypes DEF FollowsInv, KeySaveDone
  <2>3. screen # NoText => screen' \in Buffers /\ screen' # NoText
                           /\ screen'.target = screen.target
    BY <1>3, <2>1 DEF FollowsInv, SideEditorTypeOK, KeySaveDone, Buffers, Saves
  <2>4. screen = NoText => screen' = NoText
    BY <1>3 DEF KeySaveDone
  <2> QED
    BY <1>3, <2>1, <2>2, <2>3, <2>4
    DEF FollowsInv, SideEditorTypeOK, EditorFollowsTab, KeySaveDone
<1>4. CASE KeySaveFails
  BY <1>4 DEF FollowsInv, SideEditorTypeOK, EditorFollowsTab, KeySaveFails
<1>5. CASE ButtonSaveDone
  <2>1. buttonSave \in Saves
    BY <1>5 DEF FollowsInv, SideEditorTypeOK, ButtonSaveDone
  <2>2. stored' \in [Targets -> Texts] /\ work' \in [EditTabs -> Drafts \cup {NoText}]
    BY <1>5, <2>1, StoredTypes DEF FollowsInv, ButtonSaveDone
  <2> QED
    BY <1>5, <2>1, <2>2
    DEF FollowsInv, SideEditorTypeOK, EditorFollowsTab, ButtonSaveDone, Forget
<1>6. CASE ButtonSaveFails
  BY <1>6 DEF FollowsInv, SideEditorTypeOK, EditorFollowsTab, ButtonSaveFails
<1> QED
  BY <1>1, <1>2, <1>3, <1>4, <1>5, <1>6

\* The effects of another tab coming to the front.
LEMMA SwapFollows ==
  ASSUME FollowsInv, NEW keep \in SUBSET EditTabs, NEW t \in keep \cup {NoText},
         t # front, front \in editTabs, keep \subseteq editTabs, Swap(t, keep)
  PROVE  /\ front' = t /\ pending' = NoText
         /\ screen' = IF t = NoText THEN NoText ELSE parked[t]
         /\ parked' \in [EditTabs -> Buffers \cup {NoText}]
         /\ screen' \in Buffers \cup {NoText}
         /\ screen' # NoText => screen'.target.tab = t
         /\ \A u \in EditTabs : parked'[u] # NoText => u \in keep /\ parked'[u].target.tab = u
  BY DEF FollowsInv, SideEditorTypeOK, EditorFollowsTab, Swap

LEMMA TabsFollow ==
  ASSUME FollowsInv, NEW t \in EditTabs, ShowTab(t) \/ CloseEditTab(t)
  PROVE  FollowsInv'
<1>1. CASE ShowTab(t)
  <2>1. CASE front = NoText
    BY <1>1, <2>1 DEF FollowsInv, SideEditorTypeOK, EditorFollowsTab, ShowTab, Swap, savingVars
  <2>2. CASE front # NoText
    <3>1. front \in editTabs /\ t \in editTabs /\ t # front /\ Swap(t, editTabs)
      BY <1>1, <2>2 DEF FollowsInv, SideEditorTypeOK, ShowTab
    <3>2. /\ front' = t /\ pending' = NoText
          /\ parked' \in [EditTabs -> Buffers \cup {NoText}]
          /\ screen' \in Buffers \cup {NoText}
          /\ screen' # NoText => screen'.target.tab = t
          /\ \A u \in EditTabs : parked'[u] # NoText => u \in editTabs /\ parked'[u].target.tab = u
      <4>1. editTabs \in SUBSET EditTabs /\ t \in editTabs \cup {NoText}
        BY <3>1 DEF FollowsInv, SideEditorTypeOK
      <4> QED
        BY <3>1, <4>1, SwapFollows, Zenon
    <3>3. UNCHANGED <<editTabs, keySave, buttonSave, disabled, stored, work, typed>>
      BY <1>1 DEF ShowTab, savingVars
    <3>4. SideEditorTypeOK'
      BY <3>1, <3>2, <3>3 DEF FollowsInv, SideEditorTypeOK
    <3>5. EditorFollowsTab'
      BY <3>1, <3>2, <3>3 DEF EditorFollowsTab
    <3> QED
      BY <3>2, <3>4, <3>5 DEF FollowsInv
  <2> QED
    BY <2>1, <2>2
<1>2. CASE CloseEditTab(t)
  <2>1. work' \in [EditTabs -> Drafts \cup {NoText}]
    BY <1>2 DEF FollowsInv, SideEditorTypeOK, CloseEditTab
  <2>2. CASE t = front
    <3>1. PICK u \in IF editTabs' = {} THEN {NoText} ELSE editTabs' : Swap(u, editTabs')
      BY <1>2, <2>2 DEF CloseEditTab
    <3>2. /\ editTabs' \in SUBSET EditTabs /\ editTabs' \subseteq editTabs
          /\ u \in editTabs' \cup {NoText} /\ u # front /\ front \in editTabs
      BY <1>2, <2>2, <3>1 DEF FollowsInv, SideEditorTypeOK, CloseEditTab
    <3>3. /\ front' = u /\ pending' = NoText
          /\ screen' = IF u = NoText THEN NoText ELSE parked[u]
          /\ parked' \in [EditTabs -> Buffers \cup {NoText}]
          /\ screen' \in Buffers \cup {NoText}
          /\ screen' # NoText => screen'.target.tab = u
          /\ \A w \in EditTabs : parked'[w] # NoText => w \in editTabs' /\ parked'[w].target.tab = w
      BY <3>1, <3>2, SwapFollows, Zenon
    <3>4. UNCHANGED <<keySave, buttonSave, disabled, stored, typed>>
      BY <1>2 DEF CloseEditTab, savingVars
    <3>5. SideEditorTypeOK'
      BY <2>1, <3>2, <3>3, <3>4 DEF FollowsInv, SideEditorTypeOK
    <3>6. EditorFollowsTab'
      BY <3>2, <3>3 DEF EditorFollowsTab
    <3> QED
      BY <3>3, <3>5, <3>6 DEF FollowsInv
  <2>3. CASE t # front
    BY <1>2, <2>1, <2>3
    DEF FollowsInv, SideEditorTypeOK, EditorFollowsTab, CloseEditTab, savingVars
  <2> QED
    BY <2>2, <2>3
<1> QED
  BY <1>1, <1>2

LEMMA FollowsStep == FollowsInv /\ [SideEditorNext]_sideEditorVars => FollowsInv'
<1> SUFFICES ASSUME FollowsInv, [SideEditorNext]_sideEditorVars PROVE FollowsInv'
  OBVIOUS
<1>1. ASSUME NEW c \in Cells, OpenCell(c) PROVE FollowsInv'
  BY <1>1, OpenCellFollows
<1>2. CASE KeepEditing
  BY <1>2 DEF FollowsInv, SideEditorTypeOK, EditorFollowsTab, KeepEditing, savingVars
<1>3. CASE DiscardAndOpen
  BY <1>3, DiscardAndOpenFollows
<1>4. ASSUME NEW x \in Texts, Type(x) PROVE FollowsInv'
  BY <1>4, TypeFollows
<1>5. CASE PressSave \/ ClickSave \/ KeySaveDone \/ KeySaveFails
             \/ ButtonSaveDone \/ ButtonSaveFails
  BY <1>5, SavingFollows
<1>6. CASE Discard
  BY <1>6 DEF FollowsInv, SideEditorTypeOK, EditorFollowsTab, Discard, Forget, savingVars
<1>7. ASSUME NEW t \in EditTabs, ShowTab(t) \/ CloseEditTab(t) PROVE FollowsInv'
  BY <1>7, TabsFollow
<1>8. CASE UNCHANGED sideEditorVars
  BY <1>8 DEF FollowsInv, SideEditorTypeOK, EditorFollowsTab, sideEditorVars, savingVars
<1> QED
  BY <1>1, <1>2, <1>3, <1>4, <1>5, <1>6, <1>7, <1>8 DEF SideEditorNext

\* The cell on screen belongs to the tab in front, and nothing is parked for a closed tab,
\* even while saves run behind the user's back (SideEditorPanel.tsx, the two effects).
THEOREM Follows == SideEditorSpec => []EditorFollowsTab
<1>1. FollowsInv => EditorFollowsTab
  BY DEF FollowsInv
<1> QED
  BY <1>1, FollowsInit, FollowsStep, PTL DEF SideEditorSpec

\* The tabs, the cell on screen, the parked texts and the saves keep their form.
THEOREM SideEditorTyped == SideEditorSpec => []SideEditorTypeOK
<1>1. FollowsInv => SideEditorTypeOK
  BY DEF FollowsInv
<1> QED
  BY <1>1, FollowsInit, FollowsStep, PTL DEF SideEditorSpec

-----------------------------------------------------------------------------
(* What the user typed, when saves are waited for.                         *)

\* Baselines are what is stored, a text that counts as typed differs from them, and the
\* save under way is of the cell on screen.
Baselines ==
  \A t \in EditTabs : LeftIn(t) # NoText => LeftIn(t).original = stored[LeftIn(t).target]

Unsaved ==
  \A t \in editTabs : work[t] # NoText => LeftIn(t).text # LeftIn(t).original

NothingBehind == front # NoText /\ screen = NoText => parked[front] = NoText

SavesOnScreen ==
  /\ keySave # NoText =>
       /\ buttonSave = NoText /\ disabled
       /\ screen # NoText /\ keySave.target = screen.target
  /\ buttonSave # NoText =>
       /\ screen # NoText
       /\ buttonSave.target = screen.target /\ buttonSave.text = screen.text

KeptInv ==
  /\ FollowsInv /\ TypedTextKept
  /\ Baselines /\ Unsaved /\ NothingBehind /\ SavesOnScreen

Texted == TypedTextKept /\ Baselines /\ Unsaved

\* When the window opens nothing is typed.
LEMMA KeptInit == SideEditorInit => KeptInv
<1> SUFFICES ASSUME SideEditorInit PROVE KeptInv
  OBVIOUS
<1>1. FollowsInv
  BY FollowsInit
<1>2. \A t \in EditTabs : LeftIn(t) = NoText /\ work[t] = NoText
  BY DEF SideEditorInit, LeftIn
<1>3. editTabs = EditTabs /\ screen = NoText /\ keySave = NoText /\ buttonSave = NoText
      /\ front \in EditTabs /\ parked[front] = NoText
  BY DEF SideEditorInit
<1> QED
  BY <1>1, <1>2, <1>3
  DEF KeptInv, TypedTextKept, Baselines, Unsaved, NothingBehind, SavesOnScreen

\* A buffer, on screen or parked, is of the tab that left it.
LEMMA LeftTypes ==
  ASSUME FollowsInv, NEW t \in EditTabs, LeftIn(t) # NoText
  PROVE  /\ LeftIn(t) \in Buffers /\ LeftIn(t).target \in Targets
         /\ LeftIn(t).target.tab = t
<1>1. LeftIn(t) \in Buffers
  BY DEF FollowsInv, SideEditorTypeOK, LeftIn
<1>2. LeftIn(t).target.tab = t
  BY DEF FollowsInv, EditorFollowsTab, LeftIn
<1> QED
  BY <1>1, <1>2 DEF Buffers

\* A step that leaves the buffers of the tabs that stay open as they are.
LEMMA BuffersUntouched ==
  ASSUME KeptInv, FollowsInv', editTabs' \subseteq editTabs, stored' = stored,
         \A t \in editTabs' : work'[t] = work[t] /\ LeftIn(t)' = LeftIn(t)
  PROVE  Texted'
<1>1. TypedTextKept'
  BY DEF KeptInv, TypedTextKept
<1>2. Unsaved'
  BY DEF KeptInv, Unsaved
<1>3. Baselines'
  <2> SUFFICES ASSUME NEW t \in EditTabs, LeftIn(t)' # NoText
               PROVE  LeftIn(t)'.original = stored'[LeftIn(t)'.target]
    BY DEF Baselines
  <2>1. t \in editTabs'
    BY DEF FollowsInv, EditorFollowsTab, LeftIn
  <2> QED
    BY <2>1 DEF KeptInv, Baselines
<1> QED
  BY <1>1, <1>2, <1>3 DEF Texted

\* A step that changes no buffer but the one on screen, and no cell of another tab.
LEMMA OnScreenOnly ==
  ASSUME KeptInv, FollowsInv', front \in editTabs, UNCHANGED <<editTabs, front>>,
         \A t \in EditTabs \ {front} : work'[t] = work[t] /\ parked'[t] = parked[t],
         \A c \in Targets : c.tab # front => stored'[c] = stored[c],
         screen' # NoText => screen'.original = stored'[screen'.target],
         work'[front] # NoText =>
           /\ screen' # NoText
           /\ screen'.target = [tab |-> front, cell |-> work'[front].cell]
           /\ screen'.text = work'[front].text /\ screen'.text # screen'.original
  PROVE  Texted'
<1>1. \A t \in EditTabs \ {front} : LeftIn(t)' = LeftIn(t)
  BY DEF LeftIn
<1>2. LeftIn(front)' = screen'
  BY DEF LeftIn
<1>3. editTabs \subseteq EditTabs
  BY DEF KeptInv, FollowsInv, SideEditorTypeOK
<1>4. TypedTextKept'
  BY <1>1, <1>2, <1>3 DEF KeptInv, TypedTextKept
<1>5. Unsaved'
  BY <1>1, <1>2, <1>3 DEF KeptInv, Unsaved
<1>6. Baselines'
  <2> SUFFICES ASSUME NEW t \in EditTabs, LeftIn(t)' # NoText
               PROVE  LeftIn(t)'.original = stored'[LeftIn(t)'.target]
    BY DEF Baselines
  <2>1. CASE t = front
    BY <1>2, <2>1
  <2>2. CASE t # front
    <3>1. LeftIn(t) # NoText /\ LeftIn(t)' = LeftIn(t)
      BY <1>1, <2>2
    <3>2. LeftIn(t).target \in Targets /\ LeftIn(t).target.tab = t
      BY <3>1, LeftTypes DEF KeptInv
    <3> QED
      BY <2>2, <3>1, <3>2 DEF KeptInv, Baselines
  <2> QED
    BY <2>1, <2>2
<1> QED
  BY <1>4, <1>5, <1>6 DEF Texted

\* Opening a cell, and the question that may come first.
LEMMA OpeningKeeps ==
  ASSUME Hurried = FALSE, KeptInv, FollowsInv',
         NEW c \in Cells, OpenCell(c) \/ KeepEditing \/ DiscardAndOpen
  PROVE  KeptInv'
<1>1. SideEditorTypeOK /\ FollowsInv
  BY DEF KeptInv, FollowsInv
<1>2. UNCHANGED <<editTabs, front, parked, stored, keySave, buttonSave, disabled>>
  BY DEF OpenCell, KeepEditing, DiscardAndOpen, savingVars
<1>3. CASE KeepEditing \/ (OpenCell(c) /\ Dirty)
  <2>1. screen' = screen /\ work' = work
    BY <1>3 DEF KeepEditing, OpenCell
  <2>2. Texted'
    BY <1>2, <2>1, BuffersUntouched DEF LeftIn
  <2> QED
    BY <1>2, <2>1, <2>2 DEF KeptInv, Texted, NothingBehind, SavesOnScreen
<1>4. CASE DiscardAndOpen \/ (OpenCell(c) /\ ~Dirty)
  <2>1. keySave = NoText /\ buttonSave = NoText
    BY <1>4 DEF DiscardAndOpen, OpenCell, MayMove, Resting
  <2>2. front \in EditTabs /\ front \in editTabs
    <3>1. front # NoText
      BY <1>1, <1>4 DEF OpenCell, DiscardAndOpen, FollowsInv, SideEditorTypeOK, EditorFollowsTab
    <3> QED
      BY <1>1, <3>1 DEF SideEditorTypeOK
  <2>3. PICK d \in Cells : screen' = Fresh(front, d)
    BY <1>1, <1>4 DEF DiscardAndOpen, OpenCell, SideEditorTypeOK
  <2>4. /\ Fresh(front, d) # NoText
        /\ Fresh(front, d).original = stored[Fresh(front, d).target]
    BY <1>1, <2>2, FreshBuffer, Zenon
  <2>5. work'[front] = NoText
    <3>1. CASE DiscardAndOpen
      BY <1>1, <2>2, <3>1 DEF DiscardAndOpen, SideEditorTypeOK
    <3>2. CASE OpenCell(c) /\ ~Dirty
      BY <2>2, <3>2 DEF OpenCell, Dirty, KeptInv, TypedTextKept, Unsaved, LeftIn
    <3> QED
      BY <1>4, <3>1, <3>2
  <2>6. \A t \in EditTabs \ {front} : work'[t] = work[t]
    BY <1>1, <1>4 DEF DiscardAndOpen, OpenCell, SideEditorTypeOK
  <2>7. Texted'
    BY <1>2, <2>2, <2>3, <2>4, <2>5, <2>6, OnScreenOnly
  <2> QED
    BY <1>2, <2>1, <2>3, <2>4, <2>7 DEF KeptInv, Texted, NothingBehind, SavesOnScreen
<1> QED
  BY <1>3, <1>4

LEMMA TypeKeeps ==
  ASSUME Hurried = FALSE, KeptInv, FollowsInv', NEW x \in Texts, Type(x)
  PROVE  KeptInv'
<1>1. /\ FollowsInv /\ screen \in Buffers /\ front \in EditTabs /\ front \in editTabs
      /\ screen.target \in Targets /\ screen.target.tab = front
  BY DEF KeptInv, FollowsInv, SideEditorTypeOK, EditorFollowsTab, Type, Buffers
<1>2. UNCHANGED <<editTabs, front, parked, stored, keySave, buttonSave, disabled>>
  BY DEF Type, savingVars
<1>3. /\ screen' # NoText /\ screen'.target = screen.target
      /\ screen'.original = screen.original /\ screen'.text = x
  BY <1>1 DEF Type, Buffers, FollowsInv
<1>4. screen.original = stored[screen.target]
  BY <1>1 DEF KeptInv, Baselines, LeftIn, Type
<1>5. /\ \A t \in EditTabs \ {front} : work'[t] = work[t]
      /\ work'[front] = IF x = stored[screen.target] THEN NoText
                        ELSE [cell |-> screen.target.cell, text |-> x]
  BY <1>1 DEF Type, FollowsInv, SideEditorTypeOK
<1>6. screen.target = [tab |-> front, cell |-> screen.target.cell]
  BY <1>1 DEF Targets
<1>7. Texted'
  BY <1>1, <1>2, <1>3, <1>4, <1>5, <1>6, OnScreenOnly
<1>8. buttonSave = NoText
  BY DEF Type
<1> QED
  BY <1>2, <1>3, <1>7, <1>8 DEF KeptInv, Texted, NothingBehind, SavesOnScreen

\* A save that begins or fails touches no text.
LEMMA SaveOnlyKeeps ==
  ASSUME Hurried = FALSE, KeptInv, FollowsInv',
         PressSave \/ ClickSave \/ KeySaveFails \/ ButtonSaveFails
  PROVE  KeptInv'
<1>1. UNCHANGED <<editTabs, front, screen, parked, stored, work>>
  BY DEF PressSave, ClickSave, KeySaveFails, ButtonSaveFails
<1>2. Texted'
  BY <1>1, BuffersUntouched DEF LeftIn
<1>3. SavesOnScreen'
  BY <1>1 DEF KeptInv, SavesOnScreen, PressSave, ClickSave, KeySaveFails, ButtonSaveFails
<1> QED
  BY <1>1, <1>2, <1>3 DEF KeptInv, Texted, NothingBehind

\* Cells of other tabs, and what is typed in them, stay as they are.
LEMMA StoredElsewhere ==
  ASSUME SideEditorTypeOK, NEW s \in Saves, Stored(s), NEW t, s.target.tab = t, t \in EditTabs
  PROVE  /\ \A c \in Targets : c.tab # t => stored'[c] = stored[c]
         /\ stored'[s.target] = s.text
         /\ \A u \in EditTabs \ {t} : work'[u] = work[u]
         /\ work'[t] = IF work[t] = [cell |-> s.target.cell, text |-> s.text]
                         THEN NoText ELSE work[t]
  BY DEF SideEditorTypeOK, Stored, Saves

LEMMA SaveDoneKeeps ==
  ASSUME Hurried = FALSE, KeptInv, FollowsInv', KeySaveDone \/ ButtonSaveDone
  PROVE  KeptInv'
<1>1. SideEditorTypeOK /\ FollowsInv
  BY DEF KeptInv, FollowsInv
<1>2. screen # NoText /\ screen \in Buffers /\ front \in EditTabs /\ front \in editTabs
      /\ screen.target.tab = front
  BY <1>1 DEF KeptInv, SavesOnScreen, FollowsInv, SideEditorTypeOK, EditorFollowsTab,
              KeySaveDone, ButtonSaveDone
<1>3. work[front] # NoText =>
        /\ screen.target = [tab |-> front, cell |-> work[front].cell]
        /\ screen.text = work[front].text /\ work[front] \in Drafts
  BY <1>1, <1>2 DEF KeptInv, TypedTextKept, LeftIn, SideEditorTypeOK
<1>4. CASE KeySaveDone
  <2>1. keySave \in Saves /\ keySave.target = screen.target /\ buttonSave = NoText
    BY <1>1, <1>4 DEF KeySaveDone, SideEditorTypeOK, KeptInv, SavesOnScreen
  <2>2. UNCHANGED <<editTabs, front, parked, buttonSave>> /\ keySave' = NoText
    BY <1>4 DEF KeySaveDone
  <2>3. /\ screen' # NoText /\ screen'.target = screen.target
        /\ screen'.text = screen.text /\ screen'.original = keySave.text
    BY <1>2, <1>4, <2>1 DEF KeySaveDone, Buffers, Saves
  <2>4. /\ \A c \in Targets : c.tab # front => stored'[c] = stored[c]
        /\ stored'[screen.target] = keySave.text
        /\ \A u \in EditTabs \ {front} : work'[u] = work[u]
        /\ work'[front] =
             IF work[front] = [cell |-> screen.target.cell, text |-> keySave.text]
               THEN NoText ELSE work[front]
    <3>1. Stored(keySave) /\ keySave.target.tab = front
      BY <1>2, <1>4, <2>1 DEF KeySaveDone
    <3> QED
      BY <1>1, <1>2, <2>1, <3>1, StoredElsewhere
  <2>5. work'[front] # NoText =>
          /\ screen'.target = [tab |-> front, cell |-> work'[front].cell]
          /\ screen'.text = work'[front].text /\ screen'.text # screen'.original
    <3> SUFFICES ASSUME work'[front] # NoText
                 PROVE  /\ screen'.target = [tab |-> front, cell |-> work'[front].cell]
                        /\ screen'.text = work'[front].text
                        /\ screen'.text # screen'.original
      OBVIOUS
    <3>1. work'[front] = work[front]
          /\ work[front] # [cell |-> screen.target.cell, text |-> keySave.text]
      BY <2>4
    <3>2. screen.target.cell = work[front].cell /\ screen.text = work[front].text
          /\ screen.target = [tab |-> front, cell |-> work[front].cell]
          /\ work[front] = [cell |-> work[front].cell, text |-> work[front].text]
      BY <1>3, <3>1 DEF Drafts
    <3> QED
      BY <2>3, <3>1, <3>2
  <2>6. Texted'
    BY <1>2, <2>2, <2>3, <2>4, <2>5, OnScreenOnly
  <2> QED
    BY <2>1, <2>2, <2>3, <2>6 DEF KeptInv, Texted, NothingBehind, SavesOnScreen
<1>5. CASE ButtonSaveDone
  <2>1. /\ buttonSave \in Saves /\ keySave = NoText
        /\ buttonSave.target = screen.target /\ buttonSave.text = screen.text
    BY <1>1, <1>5 DEF ButtonSaveDone, SideEditorTypeOK, KeptInv, SavesOnScreen
  <2>2. UNCHANGED <<editTabs, front, keySave>> /\ buttonSave' = NoText /\ screen' = NoText
        /\ parked' = [parked EXCEPT ![front] = NoText]
    BY <1>2, <1>5, <2>1 DEF ButtonSaveDone, Forget
  <2>3. parked'[front] = NoText /\ \A u \in EditTabs \ {front} : parked'[u] = parked[u]
    BY <1>1, <1>2, <2>2 DEF SideEditorTypeOK
  <2>4. /\ \A c \in Targets : c.tab # front => stored'[c] = stored[c]
        /\ \A u \in EditTabs \ {front} : work'[u] = work[u]
        /\ work'[front] =
             IF work[front] = [cell |-> screen.target.cell, text |-> screen.text]
               THEN NoText ELSE work[front]
    <3>1. Stored(buttonSave) /\ buttonSave.target.tab = front
      BY <1>2, <1>5, <2>1 DEF ButtonSaveDone
    <3> QED
      BY <1>1, <1>2, <2>1, <3>1, StoredElsewhere
  <2>5. work'[front] = NoText
    BY <1>3, <2>4 DEF Drafts
  <2>6. Texted'
    BY <1>2, <2>2, <2>3, <2>4, <2>5, OnScreenOnly
  <2> QED
    BY <2>1, <2>2, <2>3, <2>6 DEF KeptInv, Texted, NothingBehind, SavesOnScreen
<1> QED
  BY <1>4, <1>5

LEMMA DiscardKeeps ==
  ASSUME Hurried = FALSE, KeptInv, FollowsInv', Discard
  PROVE  KeptInv'
<1>1. /\ SideEditorTypeOK /\ front \in EditTabs /\ front \in editTabs
      /\ keySave = NoText /\ buttonSave = NoText
  BY DEF KeptInv, FollowsInv, SideEditorTypeOK, EditorFollowsTab, Discard, MayMove, Resting
<1>2. /\ UNCHANGED <<editTabs, front, stored, keySave, buttonSave>> /\ screen' = NoText
      /\ parked' = [parked EXCEPT ![front] = NoText]
      /\ work' = [work EXCEPT ![front] = NoText]
  BY DEF Discard, Forget, savingVars
<1>3. /\ parked'[front] = NoText /\ work'[front] = NoText
      /\ \A u \in EditTabs \ {front} : parked'[u] = parked[u] /\ work'[u] = work[u]
  BY <1>1, <1>2 DEF SideEditorTypeOK
<1>4. Texted'
  BY <1>1, <1>2, <1>3, OnScreenOnly
<1> QED
  BY <1>1, <1>2, <1>3, <1>4 DEF KeptInv, Texted, NothingBehind, SavesOnScreen

\* Another tab in front: what each open tab left is where it was.
LEMMA SwapKeeps ==
  ASSUME KeptInv, NEW keep \in SUBSET editTabs, NEW t \in keep \cup {NoText}, t # front,
         front \in editTabs, Swap(t, keep)
  PROVE  /\ \A u \in keep : LeftIn(u)' = LeftIn(u)
         /\ NothingBehind'
<1>1. /\ SideEditorTypeOK /\ editTabs \subseteq EditTabs /\ front # NoText
      /\ front \in EditTabs /\ t \in EditTabs \cup {NoText}
  BY DEF KeptInv, FollowsInv, SideEditorTypeOK
<1>2. /\ front' = t
      /\ parked' = [u \in EditTabs |->
           IF u \notin keep THEN NoText
           ELSE IF u = front /\ screen # NoText THEN screen ELSE parked[u]]
      /\ screen' = IF t = NoText THEN NoText ELSE parked[t]
  BY DEF Swap
<1>3. NothingBehind'
  BY <1>1, <1>2 DEF NothingBehind
<1>4. ASSUME NEW u \in keep PROVE LeftIn(u)' = LeftIn(u)
  <2>1. u \in EditTabs /\ u # NoText
    BY <1>1
  <2>2. CASE u = t
    BY <1>2, <2>1, <2>2 DEF LeftIn
  <2>3. CASE u = front
    BY <1>1, <1>2, <2>1, <2>3 DEF LeftIn, KeptInv, NothingBehind
  <2>4. CASE u # t /\ u # front
    BY <1>2, <2>1, <2>4 DEF LeftIn
  <2> QED
    BY <2>2, <2>3, <2>4
<1> QED
  BY <1>3, <1>4

LEMMA TabsKeep ==
  ASSUME Hurried = FALSE, KeptInv, FollowsInv', NEW t \in EditTabs,
         ShowTab(t) \/ CloseEditTab(t)
  PROVE  KeptInv'
<1>1. /\ SideEditorTypeOK /\ FollowsInv /\ editTabs \subseteq EditTabs
      /\ front \in editTabs \cup {NoText}
  BY DEF KeptInv, FollowsInv, SideEditorTypeOK
<1>2. /\ keySave = NoText /\ buttonSave = NoText
      /\ UNCHANGED <<keySave, buttonSave, stored>>
  BY DEF ShowTab, CloseEditTab, MayMove, Resting, savingVars
<1>3. CASE ShowTab(t)
  <2>1. t \in editTabs /\ t # front /\ Swap(t, editTabs) /\ UNCHANGED <<editTabs, work>>
    BY <1>3 DEF ShowTab
  <2>2. (\A u \in editTabs : LeftIn(u)' = LeftIn(u)) /\ NothingBehind'
    <3>1. CASE front \in editTabs
      BY <2>1, <3>1, SwapKeeps
    <3>2. CASE front = NoText
      <4>1. screen = NoText
        BY <1>1, <3>2 DEF FollowsInv, EditorFollowsTab
      <4>2. front' = t /\ t # NoText
            /\ parked' = [u \in EditTabs |-> IF u \notin editTabs THEN NoText ELSE parked[u]]
            /\ screen' = parked[t]
        BY <1>1, <2>1, <4>1 DEF Swap
      <4> QED
        BY <1>1, <2>1, <3>2, <4>2 DEF LeftIn, NothingBehind
    <3> QED
      BY <1>1, <3>1, <3>2
  <2>3. Texted'
    BY <1>2, <2>1, <2>2, BuffersUntouched
  <2> QED
    BY <1>2, <2>2, <2>3 DEF KeptInv, Texted, SavesOnScreen
<1>4. CASE CloseEditTab(t)
  <2>1. /\ t \in editTabs /\ editTabs' = editTabs \ {t}
        /\ \A u \in EditTabs \ {t} : work'[u] = work[u]
    BY <1>1, <1>4 DEF CloseEditTab, SideEditorTypeOK
  <2>2. (\A u \in editTabs' : LeftIn(u)' = LeftIn(u)) /\ NothingBehind'
    <3>1. CASE t = front
      <4>1. PICK u \in IF editTabs' = {} THEN {NoText} ELSE editTabs' : Swap(u, editTabs')
        BY <1>4, <3>1 DEF CloseEditTab
      <4>2. /\ editTabs' \in SUBSET editTabs /\ front \in editTabs
            /\ u \in editTabs' \cup {NoText} /\ u # front
        BY <1>1, <2>1, <3>1, <4>1
      <4> QED
        BY <4>1, <4>2, SwapKeeps
    <3>2. CASE t # front
      <4>1. parked' = [parked EXCEPT ![t] = NoText] /\ UNCHANGED <<front, screen>>
        BY <1>4, <3>2 DEF CloseEditTab
      <4>2. \A u \in EditTabs \ {t} : parked'[u] = parked[u]
        BY <1>1, <4>1 DEF SideEditorTypeOK
      <4> QED
        BY <1>1, <2>1, <3>2, <4>1, <4>2 DEF LeftIn, KeptInv, NothingBehind
    <3> QED
      BY <3>1, <3>2
  <2>3. Texted'
    BY <1>1, <1>2, <2>1, <2>2, BuffersUntouched
  <2> QED
    BY <1>2, <2>2, <2>3 DEF KeptInv, Texted, SavesOnScreen
<1> QED
  BY <1>3, <1>4

LEMMA KeptStep ==
  ASSUME Hurried = FALSE, KeptInv, [SideEditorNext]_sideEditorVars
  PROVE  KeptInv'
<1>1. FollowsInv'
  BY FollowsStep DEF KeptInv
<1>2. ASSUME NEW c \in Cells, OpenCell(c) PROVE KeptInv'
  BY <1>1, <1>2, OpeningKeeps
<1>3. CASE KeepEditing \/ DiscardAndOpen
  <2>1. pending \in Cells
    BY <1>3 DEF KeepEditing, DiscardAndOpen, KeptInv, FollowsInv, SideEditorTypeOK
  <2> QED
    BY <1>1, <1>3, <2>1, OpeningKeeps
<1>4. ASSUME NEW x \in Texts, Type(x) PROVE KeptInv'
  BY <1>1, <1>4, TypeKeeps
<1>5. CASE PressSave \/ ClickSave \/ KeySaveFails \/ ButtonSaveFails
  BY <1>1, <1>5, SaveOnlyKeeps
<1>6. CASE KeySaveDone \/ ButtonSaveDone
  BY <1>1, <1>6, SaveDoneKeeps
<1>7. CASE Discard
  BY <1>1, <1>7, DiscardKeeps
<1>8. ASSUME NEW t \in EditTabs, ShowTab(t) \/ CloseEditTab(t) PROVE KeptInv'
  BY <1>1, <1>8, TabsKeep
<1>9. CASE UNCHANGED sideEditorVars
  <2>1. Texted'
    BY <1>1, <1>9, BuffersUntouched DEF sideEditorVars, LeftIn
  <2> QED
    BY <1>1, <1>9, <2>1 DEF KeptInv, Texted, NothingBehind, SavesOnScreen, sideEditorVars
<1> QED
  BY <1>2, <1>3, <1>4, <1>5, <1>6, <1>7, <1>8, <1>9 DEF SideEditorNext

\* A user who waits for a save to end before going on loses no text: it is in the editor
\* of its cell until it is stored, discarded or its tab closed (SideEditorPanel.tsx,
\* parkedRef and the dirty question).
THEOREM Kept ==
  ASSUME Hurried = FALSE
  PROVE  SideEditorSpec => []TypedTextKept
<1>1. KeptInv /\ [SideEditorNext]_sideEditorVars => KeptInv'
  BY KeptStep
<1>2. KeptInv => TypedTextKept
  BY DEF KeptInv
<1> QED
  BY <1>1, <1>2, KeptInit, PTL DEF SideEditorSpec

HIDE SideEditorAssumption

-----------------------------------------------------------------------------
(***************************************************************************)
(* SchemaCache.                                                            *)
(***************************************************************************)

USE SchemaCacheAssumption

EmptyUnlessThere(i) == ~SliceOf(i).there => SliceOf(i) = NoSlice

\* A slice is there for as long as its connection is, and starts out empty.
SliceLives(i) ==
  /\ opening[i] # "no" => i \in live /\ teardown[i] = "no"
  /\ teardown[i] = "closing" => i \in live
  /\ teardown[i] = "cleaning" => i \notin live
  /\ i \in live => opens[i] > 0
  /\ SliceOf(i).there => i \in live
  /\ EmptyUnlessThere(i)
  /\ SliceOf(i).error \in {0, opens[i]}

\* A request was made of the pool that is open, and columns were read after the last refresh
\* began.
RequestFits(r) ==
  /\ r.era = opens[r.pool]
  /\ r.answer = "read" => r.read > 0
  /\ r.of \in Tables /\ r.answer = "read" => r.read >= refreshedAt[r.pool]

\* What is on screen is as new as the last refresh, or a refresh is under way or has failed.
ColumnsFresh(i) ==
  /\ refreshedAt[i] <= edition
  /\ \/ \E r \in UnderWay(i) : r.of = "tables"
     \/ SliceOf(i).error # 0
     \/ \A t \in Tables : SliceOf(i).columns[t] # 0 => SliceOf(i).columns[t] >= refreshedAt[i]

CurrentInv ==
  /\ SchemaCacheTypeOK
  /\ \A i \in Pools : SliceLives(i) /\ ColumnsFresh(i)
  /\ \A r \in requests : RequestFits(r)

\* An open node shows something or waits for it, loading or not.
NodesFill(i) ==
  IF SliceOf(i).listed
    THEN \A t \in SliceOf(i).expanded :
           \/ SliceOf(i).columns[t] # 0 \/ t \in SliceOf(i).columnErrors
           \/ \E r \in UnderWay(i) : r.of = t
    ELSE SliceOf(i).expanded = {}

FillInv ==
  /\ SchemaCacheTypeOK
  /\ \A i \in Pools : NodesFill(i) /\ EmptyUnlessThere(i)
  /\ \A r \in requests : r.answer = "read" => r.read > 0

-----------------------------------------------------------------------------
(* Types.                                                                  *)

Slice ==
  [there : BOOLEAN, initialized : BOOLEAN, loading : BOOLEAN, error : 0..MaxOpens,
   listed : BOOLEAN, expanded : SUBSET Tables, columns : [Tables -> {0} \cup Editions],
   columnErrors : SUBSET Tables]

\* Empty slices, and what the steps make of a slice, are slices.
LEMMA SliceTypes ==
  /\ NoSlice \in Slice /\ emptyState \in Slice
  /\ \A cs \in Slice :
       /\ Wiped(cs) \in Slice /\ Reload(cs) \subseteq Tables
       /\ [cs EXCEPT !.loading = TRUE, !.error = 0] \in Slice
       /\ \A e \in 0..MaxOpens :
            [cs EXCEPT !.loading = FALSE, !.initialized = TRUE, !.error = e] \in Slice
       /\ \A ts \in SUBSET Tables : [cs EXCEPT !.expanded = ts] \in Slice
       /\ \A t \in Tables :
            /\ [cs EXCEPT !.expanded = IF t \in @ THEN @ \ {t} ELSE @ \cup {t}] \in Slice
            /\ [cs EXCEPT !.columnErrors = @ \cup {t}] \in Slice
            /\ \A n \in {0} \cup Editions :
                 [cs EXCEPT !.columns[t] = n, !.columnErrors = @ \ {t}] \in Slice
<1>1. NoSlice \in Slice
  BY DEF NoSlice, NoColumns, Slice
<1>2. emptyState \in Slice
  BY <1>1 DEF emptyState, Slice
<1>3. ASSUME NEW cs \in Slice
      PROVE  /\ Wiped(cs) \in Slice /\ Reload(cs) \subseteq Tables
             /\ [cs EXCEPT !.loading = TRUE, !.error = 0] \in Slice
             /\ \A e \in 0..MaxOpens :
                  [cs EXCEPT !.loading = FALSE, !.initialized = TRUE, !.error = e] \in Slice
             /\ \A ts \in SUBSET Tables : [cs EXCEPT !.expanded = ts] \in Slice
  <2>1. Wiped(cs) \in Slice
    BY DEF Slice, Wiped, NoColumns
  <2>2. Reload(cs) \subseteq Tables
    BY DEF Slice, Reload
  <2>3. [cs EXCEPT !.loading = TRUE, !.error = 0] \in Slice
    <3>1. 0 \in 0..MaxOpens
      OBVIOUS
    <3> QED
      BY <3>1 DEF Slice
  <2>4. \A e \in 0..MaxOpens :
          [cs EXCEPT !.loading = FALSE, !.initialized = TRUE, !.error = e] \in Slice
    BY DEF Slice
  <2>5. \A ts \in SUBSET Tables : [cs EXCEPT !.expanded = ts] \in Slice
    BY DEF Slice
  <2> QED
    BY <2>1, <2>2, <2>3, <2>4, <2>5
<1>4. ASSUME NEW cs \in Slice, NEW t \in Tables
      PROVE  /\ [cs EXCEPT !.expanded = IF t \in @ THEN @ \ {t} ELSE @ \cup {t}] \in Slice
             /\ [cs EXCEPT !.columnErrors = @ \cup {t}] \in Slice
             /\ \A n \in {0} \cup Editions :
                  [cs EXCEPT !.columns[t] = n, !.columnErrors = @ \ {t}] \in Slice
  BY DEF Slice
<1> QED
  BY <1>1, <1>2, <1>3, <1>4

\* What the type invariant says of a pool.
LEMMA PoolTypes ==
  ASSUME SchemaCacheTypeOK, NEW i \in Pools
  PROVE  /\ byConnection \in [Pools -> Slice] /\ SliceOf(i) \in Slice
         /\ OrEmpty(i) \in Slice /\ OrEmpty(i).there
         /\ opens[i] \in 0..MaxOpens /\ opens[i] \in Nat
         /\ refreshedAt[i] \in Nat /\ edition \in Nat /\ edition > 0
         /\ \A what \in Tables \cup {"tables"} : Asked(i, what) \in Request
<1>1. byConnection \in [Pools -> Slice]
  BY DEF SchemaCacheTypeOK, Slice
<1>2. SliceOf(i) \in Slice
  BY <1>1 DEF SliceOf
<1>3. emptyState \in Slice
  BY SliceTypes
<1>4. emptyState.there
  BY DEF emptyState, NoSlice
<1>5. OrEmpty(i) \in Slice /\ OrEmpty(i).there
  BY <1>2, <1>3, <1>4 DEF OrEmpty
<1>6. opens[i] \in 0..MaxOpens
  BY DEF SchemaCacheTypeOK
<1>7. refreshedAt[i] \in Nat /\ edition \in Nat /\ edition > 0
  BY DEF SchemaCacheTypeOK, Editions
<1>8. \A what \in Tables \cup {"tables"} : Asked(i, what) \in Request
  BY <1>6 DEF Asked, Request
<1> QED
  BY <1>1, <1>2, <1>5, <1>6, <1>7, <1>8

\* A slice that is put is put for its own pool only.
LEMMA PutTypes ==
  ASSUME SchemaCacheTypeOK, NEW i \in Pools, NEW cs \in Slice, PutSlice(i, cs)
  PROVE  /\ byConnection' \in [Pools -> Slice] /\ SliceOf(i)' = cs
         /\ \A j \in Pools \ {i} : SliceOf(j)' = SliceOf(j)
<1>1. byConnection \in [Pools -> Slice]
  BY PoolTypes
<1> QED
  BY <1>1 DEF PutSlice, SliceOf

LEMMA ConnectionTypes ==
  ASSUME SchemaCacheTypeOK, NEW i \in Pools,
         \/ OpenPool(i) \/ Hydrate(i) \/ ClosePool(i) \/ MarkDisconnected(i) \/ DropAgain(i)
  PROVE  SchemaCacheTypeOK'
<1>1. byConnection \in [Pools -> Slice] /\ SliceOf(i) \in Slice
  BY PoolTypes
<1>2. savedNodes \in [Pools -> SUBSET Tables]
  BY DEF SchemaCacheTypeOK
<1>3. CASE OpenPool(i)
  BY <1>3 DEF SchemaCacheTypeOK, OpenPool
<1>4. CASE Hydrate(i)
  <2>1. byConnection' \in [Pools -> Slice]
    <3>1. CASE RestoreTabs /\ opens[i] > 1
      <4>1. PutSlice(i, [OrEmpty(i) EXCEPT !.expanded = savedNodes[i]])
        BY <1>4, <3>1 DEF Hydrate
      <4>2. savedNodes[i] \in SUBSET Tables /\ OrEmpty(i) \in Slice
        BY <1>2, PoolTypes
      <4>3. [OrEmpty(i) EXCEPT !.expanded = savedNodes[i]] \in Slice
        BY <4>2, SliceTypes
      <4> QED
        BY <4>1, <4>3, PutTypes
    <3> QED
      BY <1>1, <1>4, <3>1 DEF Hydrate
  <2> QED
    BY <1>4, <2>1 DEF SchemaCacheTypeOK, Hydrate, Slice
<1>5. CASE ClosePool(i)
  <2>1. SliceOf(i).expanded \subseteq Tables
    BY <1>1 DEF Slice
  <2> QED
    BY <1>5, <2>1 DEF SchemaCacheTypeOK, ClosePool
<1>6. CASE MarkDisconnected(i)
  <2>1. byConnection' \in [Pools -> Slice]
    BY <1>6, SliceTypes, PutTypes DEF MarkDisconnected
  <2> QED
    BY <1>6, <2>1 DEF SchemaCacheTypeOK, MarkDisconnected, Slice
<1>7. CASE DropAgain(i)
  <2>1. byConnection' \in [Pools -> Slice]
    BY <1>7, SliceTypes, PutTypes DEF DropAgain
  <2> QED
    BY <1>7, <2>1 DEF SchemaCacheTypeOK, DropAgain, Slice
<1> QED
  BY <1>3, <1>4, <1>5, <1>6, <1>7

LEMMA RefreshTypes ==
  ASSUME SchemaCacheTypeOK, NEW i \in Pools,
         RefreshNow(i) \/ EnsureLoaded(i) \/ Warm(i)
  PROVE  SchemaCacheTypeOK'
<1>1. RefreshBegins(i) /\ UNCHANGED <<opens, pooled, live, teardown, savedNodes>>
  BY DEF RefreshNow, EnsureLoaded, Warm, connection
<1>2. opening' \in [Pools -> {"no", "hydrate", "warm"}]
  BY DEF RefreshNow, EnsureLoaded, Warm, connection, SchemaCacheTypeOK
<1>3. byConnection' \in [Pools -> Slice]
  <2>1. OrEmpty(i) \in Slice
    BY PoolTypes
  <2>2. [OrEmpty(i) EXCEPT !.loading = TRUE, !.error = 0] \in Slice
    BY <2>1, SliceTypes
  <2> QED
    BY <1>1, <2>2, PutTypes DEF RefreshBegins
<1>4. requests' \subseteq Request
  <2>1. Asked(i, "tables") \in Request
    BY PoolTypes
  <2> QED
    BY <1>1, <2>1 DEF RefreshBegins, SchemaCacheTypeOK
<1> QED
  BY <1>1, <1>2, <1>3, <1>4 DEF RefreshBegins, SchemaCacheTypeOK, Slice

LEMMA NodeTypes ==
  ASSUME SchemaCacheTypeOK, NEW i \in Pools, NEW t \in Tables,
         ToggleNode(i, t) \/ Retry(i, t)
  PROVE  SchemaCacheTypeOK'
<1>1. requests' \subseteq Request
  <2>1. Asked(i, t) \in Request
    BY PoolTypes
  <2> QED
    BY <2>1 DEF ToggleNode, Retry, LoadColumns, SchemaCacheTypeOK
<1>2. byConnection' \in [Pools -> Slice]
  <2>1. CASE ToggleNode(i, t)
    <3>1. PutSlice(i, [SliceOf(i) EXCEPT !.expanded = IF t \in @ THEN @ \ {t} ELSE @ \cup {t}])
      BY <2>1 DEF ToggleNode
    <3>2. SliceOf(i) \in Slice
      BY PoolTypes
    <3>3. [SliceOf(i) EXCEPT !.expanded = IF t \in @ THEN @ \ {t} ELSE @ \cup {t}] \in Slice
      BY <3>2, SliceTypes
    <3> QED
      BY <3>1, <3>3, PutTypes
  <2>2. CASE Retry(i, t)
    BY <2>2, PoolTypes DEF Retry
  <2> QED
    BY <2>1, <2>2
<1>3. UNCHANGED <<connection, edition, refreshedAt>>
  BY DEF ToggleNode, Retry
<1> QED
  BY <1>1, <1>2, <1>3 DEF SchemaCacheTypeOK, Slice, connection

LEMMA AnswerTypes ==
  ASSUME SchemaCacheTypeOK, NEW r \in requests,
         ServerAnswers(r) \/ ListArrives(r) \/ ListFails(r) \/ ColumnsArrive(r)
  PROVE  SchemaCacheTypeOK'
<1> DEFINE cs == SliceOf(r.pool)
<1>1. r \in Request /\ r.pool \in Pools /\ r.era \in 0..MaxOpens /\ r.read \in {0} \cup Editions
  BY DEF SchemaCacheTypeOK, Request
<1>2. cs \in Slice /\ byConnection \in [Pools -> Slice]
  BY <1>1, PoolTypes
<1>3. UNCHANGED <<connection, edition, refreshedAt>>
  BY DEF ServerAnswers, ListArrives, ListFails, ColumnsArrive
<1>4. requests' \subseteq Request
  <2>1. CASE ServerAnswers(r)
    <3>1. [r EXCEPT !.answer = "failed"] \in Request
      BY <1>1 DEF Request
    <3>2. [r EXCEPT !.answer = "read", !.read = edition] \in Request
      BY <1>1 DEF Request, SchemaCacheTypeOK
    <3> QED
      BY <2>1, <3>1, <3>2 DEF ServerAnswers, SchemaCacheTypeOK
  <2>2. CASE ListArrives(r)
    <3>1. Reload(cs) \subseteq Tables
      BY <1>2, SliceTypes
    <3>2. \A t \in Tables : Asked(r.pool, t) \in Request
      BY <1>1, PoolTypes
    <3> QED
      BY <2>2, <3>1, <3>2 DEF ListArrives, SchemaCacheTypeOK
  <2>3. CASE ListFails(r) \/ ColumnsArrive(r)
    BY <2>3 DEF ListFails, ColumnsArrive, SchemaCacheTypeOK
  <2> QED
    BY <2>1, <2>2, <2>3
<1>5. byConnection' \in [Pools -> Slice]
  <2>1. CASE ServerAnswers(r)
    BY <1>2, <2>1 DEF ServerAnswers
  <2>2. CASE ListArrives(r)
    <3>1. Wiped(cs) \in Slice
      BY <1>2, SliceTypes
    <3> QED
      BY <1>1, <1>2, <2>2, <3>1, PutTypes DEF ListArrives
  <2>3. CASE ListFails(r)
    <3>1. [cs EXCEPT !.loading = FALSE, !.initialized = TRUE, !.error = r.era] \in Slice
      BY <1>1, <1>2, SliceTypes
    <3> QED
      BY <1>1, <1>2, <2>3, <3>1, PutTypes DEF ListFails
  <2>4. CASE ColumnsArrive(r)
    <3>1. [cs EXCEPT !.columnErrors = @ \cup {r.of}] \in Slice
      BY <1>2, <2>4, SliceTypes DEF ColumnsArrive
    <3>2. [cs EXCEPT !.columns[r.of] = r.read, !.columnErrors = @ \ {r.of}] \in Slice
      BY <1>1, <1>2, <2>4, SliceTypes DEF ColumnsArrive
    <3> QED
      BY <1>1, <1>2, <2>4, <3>1, <3>2, PutTypes DEF ColumnsArrive
  <2> QED
    BY <2>1, <2>2, <2>3, <2>4
<1> QED
  BY <1>3, <1>4, <1>5 DEF SchemaCacheTypeOK, Slice, connection

\* Types are kept by every step.
LEMMA TypesStep ==
  ASSUME SchemaCacheTypeOK, [SchemaCacheNext]_schemaCacheVars
  PROVE  SchemaCacheTypeOK'
<1>1. CASE UNCHANGED schemaCacheVars
  BY <1>1 DEF schemaCacheVars, connection, SchemaCacheTypeOK
<1>2. CASE Alter
  BY <1>2 DEF Alter, connection, SchemaCacheTypeOK, Editions
<1>3. CASE SchemaCacheNext /\ ~Alter
  BY <1>3, ConnectionTypes, RefreshTypes, NodeTypes, AnswerTypes DEF SchemaCacheNext
<1> QED
  BY <1>1, <1>2, <1>3

-----------------------------------------------------------------------------
(* The slices, the requests and the refreshes.                             *)

\* What a step that is about other pools leaves of this one.
Untouched(j) ==
  /\ SliceOf(j)' = SliceOf(j)
  /\ opening'[j] = opening[j] /\ teardown'[j] = teardown[j] /\ opens'[j] = opens[j]
  /\ refreshedAt'[j] = refreshedAt[j] /\ edition' >= edition
  /\ j \in live' <=> j \in live
  /\ (\E r \in UnderWay(j) : r.of = "tables") => (\E r \in UnderWay(j)' : r.of = "tables")

LEMMA UntouchedCurrent ==
  ASSUME SchemaCacheTypeOK, SchemaCacheTypeOK', NEW j \in Pools,
         SliceLives(j), ColumnsFresh(j), Untouched(j)
  PROVE  SliceLives(j)' /\ ColumnsFresh(j)'
<1>1. SliceLives(j)'
  BY DEF SliceLives, EmptyUnlessThere, Untouched
<1>2. refreshedAt'[j] <= edition'
  <2>1. refreshedAt[j] \in Nat /\ edition \in Nat /\ edition' \in Nat
    BY PoolTypes DEF SchemaCacheTypeOK, Editions
  <2> QED
    BY <2>1 DEF ColumnsFresh, Untouched
<1>3. ColumnsFresh(j)'
  BY <1>2 DEF ColumnsFresh, Untouched
<1> QED
  BY <1>1, <1>3

\* A slice that is not there yet says what an empty one says.
LEMMA OrEmptySays ==
  ASSUME SchemaCacheTypeOK, NEW i \in Pools, EmptyUnlessThere(i)
  PROVE  /\ OrEmpty(i) \in Slice /\ OrEmpty(i).there
         /\ OrEmpty(i).error = SliceOf(i).error
         /\ OrEmpty(i).columns = SliceOf(i).columns
         /\ OrEmpty(i).columnErrors = SliceOf(i).columnErrors
         /\ OrEmpty(i).listed = SliceOf(i).listed
         /\ OrEmpty(i).expanded = SliceOf(i).expanded
<1>1. OrEmpty(i) \in Slice /\ OrEmpty(i).there
  BY PoolTypes
<1>2. CASE ~SliceOf(i).there
  BY <1>1, <1>2 DEF OrEmpty, emptyState, NoSlice, EmptyUnlessThere
<1> QED
  BY <1>1, <1>2 DEF OrEmpty

\* A request that is still there fits as long as its pool is not opened again and, if it is
\* about columns, no refresh of it begins.
LEMMA RequestStillFits ==
  ASSUME NEW r, RequestFits(r), opens'[r.pool] = opens[r.pool],
         r.of \in Tables => refreshedAt'[r.pool] = refreshedAt[r.pool]
  PROVE  RequestFits(r)'
  BY DEF RequestFits

LEMMA OpenPoolCurrent ==
  ASSUME CurrentInv, SchemaCacheTypeOK', "reopen" \notin Overtakings,
         NEW i \in Pools, OpenPool(i)
  PROVE  CurrentInv'
<1>1. SchemaCacheTypeOK /\ (\A j \in Pools : SliceLives(j) /\ ColumnsFresh(j))
      /\ (\A r \in requests : RequestFits(r))
  BY DEF CurrentInv
<1>2. i \notin live /\ teardown[i] = "no" /\ UnderWay(i) = {}
  BY DEF OpenPool
<1>3. opens'[i] > 0 /\ live' = live \cup {i} /\ opening'[i] = "hydrate" /\ teardown' = teardown
      /\ SliceOf(i)' = SliceOf(i) /\ refreshedAt' = refreshedAt /\ edition' = edition
      /\ requests' = requests
  BY <1>1, PoolTypes DEF OpenPool, SchemaCacheTypeOK, SliceOf
<1>4. SliceOf(i) = NoSlice
  BY <1>1, <1>2 DEF SliceLives, EmptyUnlessThere
<1>5. SliceLives(i)'
  BY <1>2, <1>3, <1>4 DEF SliceLives, EmptyUnlessThere, NoSlice
<1>6. ColumnsFresh(i)'
  BY <1>1, <1>3, <1>4 DEF ColumnsFresh, NoSlice, NoColumns
<1>7. \A j \in Pools \ {i} : Untouched(j)
  <2> SUFFICES ASSUME NEW j \in Pools \ {i} PROVE Untouched(j)
    OBVIOUS
  <2>1. opens'[j] = opens[j] /\ opening'[j] = opening[j]
    BY <1>1 DEF OpenPool, SchemaCacheTypeOK
  <2>2. edition \in Nat
    BY <1>1, PoolTypes
  <2> QED
    BY <1>3, <2>1, <2>2 DEF OpenPool, Untouched, SliceOf, UnderWay
<1>8. \A r \in requests' : RequestFits(r)'
  <2> SUFFICES ASSUME NEW r \in requests PROVE RequestFits(r)'
    BY <1>3
  <2>1. r.pool \in Pools /\ r.pool # i
    BY <1>1, <1>2 DEF SchemaCacheTypeOK, Request, UnderWay
  <2> QED
    BY <1>1, <1>3, <1>7, <2>1, RequestStillFits DEF Untouched
<1> QED
  BY <1>1, <1>5, <1>6, <1>7, <1>8, UntouchedCurrent DEF CurrentInv

\* The rest of what happens to a connection neither asks nor refreshes.
LEMMA ConnectionCurrent ==
  ASSUME CurrentInv, SchemaCacheTypeOK', NEW i \in Pools,
         Hydrate(i) \/ ClosePool(i) \/ MarkDisconnected(i) \/ DropAgain(i)
  PROVE  CurrentInv'
<1>1. SchemaCacheTypeOK /\ (\A j \in Pools : SliceLives(j) /\ ColumnsFresh(j))
      /\ (\A r \in requests : RequestFits(r))
  BY DEF CurrentInv
<1>2. requests' = requests /\ opens' = opens /\ refreshedAt' = refreshedAt /\ edition' = edition
  BY DEF Hydrate, ClosePool, MarkDisconnected, DropAgain
<1>3. edition \in Nat /\ refreshedAt[i] \in Nat /\ refreshedAt[i] <= edition /\ SliceOf(i) \in Slice
      /\ byConnection \in [Pools -> Slice]
  BY <1>1, PoolTypes DEF ColumnsFresh
<1>4. \A j \in Pools \ {i} : Untouched(j)
  <2> SUFFICES ASSUME NEW j \in Pools \ {i} PROVE Untouched(j)
    OBVIOUS
  <2>1. opening'[j] = opening[j] /\ teardown'[j] = teardown[j] /\ (j \in live' <=> j \in live)
    BY <1>1 DEF Hydrate, ClosePool, MarkDisconnected, DropAgain, SchemaCacheTypeOK
  <2>2. SliceOf(j)' = SliceOf(j)
    BY <1>3 DEF Hydrate, ClosePool, MarkDisconnected, DropAgain, PutSlice, SliceOf
  <2> QED
    BY <1>2, <1>3, <2>1, <2>2 DEF Untouched, UnderWay
<1>5. SliceLives(i)' /\ ColumnsFresh(i)'
  <2>1. CASE Hydrate(i)
    <3>1. i \in live /\ teardown[i] = "no"
      BY <1>1, <2>1 DEF Hydrate, SliceLives
    <3>2. opening'[i] = "warm" /\ live' = live /\ teardown' = teardown
      BY <1>1, <2>1 DEF Hydrate, SchemaCacheTypeOK
    <3>3. CASE RestoreTabs /\ opens[i] > 1
      <4> DEFINE cs == [OrEmpty(i) EXCEPT !.expanded = savedNodes[i]]
      <4>1. PutSlice(i, cs)
        BY <2>1, <3>3 DEF Hydrate
      <4>2. OrEmpty(i) \in Slice /\ savedNodes[i] \in SUBSET Tables /\ EmptyUnlessThere(i)
        BY <1>1, PoolTypes DEF SchemaCacheTypeOK, SliceLives
      <4>3. cs \in Slice
        BY <4>2, SliceTypes
      <4>4. SliceOf(i)' = cs
        BY <1>1, <4>1, <4>3, PutTypes
      <4>5. cs.there /\ cs.error = SliceOf(i).error /\ cs.columns = SliceOf(i).columns
        BY <1>1, <4>2, OrEmptySays DEF Slice
      <4> HIDE DEF cs
      <4>6. SliceLives(i)'
        BY <1>1, <1>2, <3>1, <3>2, <4>4, <4>5 DEF SliceLives, EmptyUnlessThere
      <4>7. ColumnsFresh(i)'
        BY <1>1, <1>2, <4>4, <4>5 DEF ColumnsFresh, UnderWay
      <4> QED
        BY <4>6, <4>7
    <3>4. CASE ~(RestoreTabs /\ opens[i] > 1)
      <4>1. SliceOf(i)' = SliceOf(i)
        BY <2>1, <3>4 DEF Hydrate, SliceOf
      <4>2. SliceLives(i)'
        BY <1>1, <1>2, <3>1, <3>2, <4>1 DEF SliceLives, EmptyUnlessThere
      <4>3. ColumnsFresh(i)'
        BY <1>1, <1>2, <4>1 DEF ColumnsFresh, UnderWay
      <4> QED
        BY <4>2, <4>3
    <3> QED
      BY <3>3, <3>4
  <2>2. CASE ClosePool(i)
    <3>1. SliceOf(i)' = SliceOf(i) /\ teardown'[i] = "closing" /\ opening' = opening
          /\ opening[i] = "no" /\ live' = live /\ i \in live
      BY <1>1, <2>2 DEF ClosePool, SliceOf, SchemaCacheTypeOK
    <3>2. SliceLives(i)'
      BY <1>1, <1>2, <3>1 DEF SliceLives, EmptyUnlessThere
    <3>3. ColumnsFresh(i)'
      BY <1>1, <1>2, <3>1 DEF ColumnsFresh, UnderWay
    <3> QED
      BY <3>2, <3>3
  <2>3. CASE MarkDisconnected(i) \/ DropAgain(i)
    <3>1. SliceOf(i)' = NoSlice
      BY <1>1, <2>3, SliceTypes, PutTypes DEF MarkDisconnected, DropAgain
    <3>2. opening' = opening /\ i \notin live' /\ teardown'[i] \in {"no", "cleaning"}
      BY <1>1, <2>3 DEF MarkDisconnected, DropAgain, SchemaCacheTypeOK, SliceLives
    <3>3. opening[i] = "no"
      BY <1>1, <2>3 DEF MarkDisconnected, DropAgain, SliceLives
    <3>4. SliceLives(i)'
      BY <3>1, <3>2, <3>3 DEF SliceLives, EmptyUnlessThere, NoSlice
    <3>5. ColumnsFresh(i)'
      BY <1>2, <1>3, <3>1 DEF ColumnsFresh, NoSlice, NoColumns
    <3> QED
      BY <3>4, <3>5
  <2> QED
    BY <2>1, <2>2, <2>3
<1>6. \A r \in requests' : RequestFits(r)'
  BY <1>1, <1>2, RequestStillFits
<1> QED
  BY <1>1, <1>4, <1>5, <1>6, UntouchedCurrent DEF CurrentInv

\* A refresh does not begin before the columns asked for earlier have arrived.
LEMMA RefreshCurrent ==
  ASSUME CurrentInv, SchemaCacheTypeOK', "refresh" \notin Overtakings,
         NEW i \in Pools, RefreshNow(i) \/ EnsureLoaded(i) \/ Warm(i)
  PROVE  CurrentInv'
<1>1. SchemaCacheTypeOK /\ (\A j \in Pools : SliceLives(j) /\ ColumnsFresh(j))
      /\ (\A r \in requests : RequestFits(r))
  BY DEF CurrentInv
<1>2. RefreshBegins(i) /\ i \in live /\ opens' = opens /\ live' = live /\ teardown' = teardown
  BY <1>1 DEF RefreshNow, EnsureLoaded, Warm, connection, SliceLives
<1>3. edition' = edition /\ refreshedAt'[i] = edition
      /\ requests' = requests \cup {Asked(i, "tables")}
      /\ (\A r \in UnderWay(i) : r.of = "tables")
  BY <1>1, <1>2 DEF RefreshBegins, SchemaCacheTypeOK
<1>4. opening'[i] # "no" => opening[i] # "no"
  BY <1>1 DEF RefreshNow, EnsureLoaded, Warm, connection, SchemaCacheTypeOK
<1> DEFINE cs == [OrEmpty(i) EXCEPT !.loading = TRUE, !.error = 0]
<1>5. OrEmpty(i) \in Slice /\ EmptyUnlessThere(i)
  BY <1>1, PoolTypes DEF SliceLives
<1>6. cs \in Slice
  BY <1>5, SliceTypes
<1>7. SliceOf(i)' = cs /\ \A j \in Pools \ {i} : SliceOf(j)' = SliceOf(j)
  BY <1>1, <1>2, <1>6, PutTypes DEF RefreshBegins
<1>8. cs.there /\ cs.error = 0
  BY <1>1, <1>5, OrEmptySays DEF Slice
<1>9. edition \in Nat
  BY <1>1, PoolTypes
<1> HIDE DEF cs
<1>10. SliceLives(i)'
  BY <1>1, <1>2, <1>4, <1>7, <1>8 DEF SliceLives, EmptyUnlessThere
<1>11. ColumnsFresh(i)'
  <2>1. Asked(i, "tables") \in UnderWay(i)' /\ Asked(i, "tables").of = "tables"
    BY <1>2, <1>3 DEF UnderWay, Asked
  <2> QED
    BY <1>3, <1>9, <2>1 DEF ColumnsFresh
<1>12. \A j \in Pools \ {i} : Untouched(j)
  <2> SUFFICES ASSUME NEW j \in Pools \ {i} PROVE Untouched(j)
    OBVIOUS
  <2>1. opening'[j] = opening[j] /\ refreshedAt'[j] = refreshedAt[j]
    BY <1>1, <1>2
    DEF RefreshNow, EnsureLoaded, Warm, RefreshBegins, connection, SchemaCacheTypeOK
  <2> QED
    BY <1>2, <1>3, <1>7, <1>9, <2>1 DEF Untouched, UnderWay
<1>13. \A r \in requests' : RequestFits(r)'
  <2>1. ASSUME NEW r, r = Asked(i, "tables") PROVE RequestFits(r)'
    BY <1>2, <2>1 DEF RequestFits, Asked
  <2>2. ASSUME NEW r \in requests PROVE RequestFits(r)'
    <3>1. r.pool \in Pools
      BY <1>1 DEF SchemaCacheTypeOK, Request
    <3>2. r.pool = i => r.of \notin Tables
      BY <1>3, SchemaCacheAssumption DEF UnderWay
    <3>3. r.pool # i => refreshedAt'[r.pool] = refreshedAt[r.pool]
      BY <1>12, <3>1 DEF Untouched
    <3> QED
      BY <1>1, <1>2, <3>1, <3>2, <3>3, RequestStillFits
  <2> QED
    BY <1>3, <2>1, <2>2
<1> QED
  BY <1>1, <1>10, <1>11, <1>12, <1>13, UntouchedCurrent DEF CurrentInv

\* An answer is about the pool it was asked of, and what is read is as new as the refresh
\* before it.
LEMMA ServerCurrent ==
  ASSUME CurrentInv, SchemaCacheTypeOK', NEW r \in requests, ServerAnswers(r)
  PROVE  CurrentInv'
<1>1. SchemaCacheTypeOK /\ (\A j \in Pools : SliceLives(j) /\ ColumnsFresh(j))
      /\ (\A q \in requests : RequestFits(q))
  BY DEF CurrentInv
<1>2. UNCHANGED <<byConnection, opens, live, opening, teardown, edition, refreshedAt>>
  BY DEF ServerAnswers, connection
<1>3. PICK q : /\ requests' = (requests \ {r}) \cup {q}
               /\ q.of = r.of /\ q.pool = r.pool /\ q.era = r.era
               /\ \/ q.answer = "failed"
                  \/ q.answer = "read" /\ q.read = edition
  <2>1. r \in Request
    BY <1>1 DEF SchemaCacheTypeOK
  <2>2. CASE requests' = (requests \ {r}) \cup {[r EXCEPT !.answer = "failed"]}
    <3> DEFINE v == [r EXCEPT !.answer = "failed"]
    <3>1. v.of = r.of /\ v.pool = r.pool /\ v.era = r.era /\ v.answer = "failed"
      BY <2>1 DEF Request
    <3> HIDE DEF v
    <3>2. requests' = (requests \ {r}) \cup {v}
      BY <2>2 DEF v
    <3> QED
      BY <3>1, <3>2
  <2>3. CASE requests' = (requests \ {r}) \cup {[r EXCEPT !.answer = "read", !.read = edition]}
    <3> DEFINE v == [r EXCEPT !.answer = "read", !.read = edition]
    <3>1. v.of = r.of /\ v.pool = r.pool /\ v.era = r.era
      BY <2>1 DEF Request
    <3>2. v.answer = "read" /\ v.read = edition
      BY <2>1 DEF Request
    <3> HIDE DEF v
    <3>3. requests' = (requests \ {r}) \cup {v}
      BY <2>3 DEF v
    <3> QED
      BY <3>1, <3>2, <3>3
  <2> QED
    BY <2>2, <2>3 DEF ServerAnswers
<1>4. r.pool \in Pools
  BY <1>1 DEF SchemaCacheTypeOK, Request
<1>5. \A j \in Pools : Untouched(j)
  <2> SUFFICES ASSUME NEW j \in Pools PROVE Untouched(j)
    OBVIOUS
  <2>1. ASSUME NEW u \in UnderWay(j), u.of = "tables"
        PROVE  \E v \in UnderWay(j)' : v.of = "tables"
    <3>1. CASE u = r
      BY <1>3, <2>1, <3>1 DEF UnderWay
    <3>2. CASE u # r
      BY <1>3, <2>1, <3>2 DEF UnderWay
    <3> QED
      BY <3>1, <3>2
  <2>2. edition \in Nat
    BY <1>1, PoolTypes
  <2> QED
    BY <1>2, <2>1, <2>2 DEF Untouched, SliceOf
<1>6. \A u \in requests' : RequestFits(u)'
  <2>1. RequestFits(q)'
    <3>1. refreshedAt[r.pool] <= edition /\ edition > 0
      BY <1>1, <1>4, PoolTypes DEF ColumnsFresh
    <3> QED
      BY <1>1, <1>2, <1>3, <3>1 DEF RequestFits
  <2>2. \A u \in requests : RequestFits(u)'
    BY <1>1, <1>2, RequestStillFits
  <2> QED
    BY <1>3, <2>1, <2>2
<1> QED
  BY <1>1, <1>5, <1>6, UntouchedCurrent DEF CurrentInv

LEMMA ListArrivesCurrent ==
  ASSUME CurrentInv, SchemaCacheTypeOK', NEW r \in requests, ListArrives(r)
  PROVE  CurrentInv'
<1>1. SchemaCacheTypeOK /\ (\A j \in Pools : SliceLives(j) /\ ColumnsFresh(j))
      /\ (\A q \in requests : RequestFits(q))
  BY DEF CurrentInv
<1> DEFINE i == r.pool
<1>2. i \in Pools
  BY <1>1 DEF SchemaCacheTypeOK, Request
<1>3. UNCHANGED <<opens, live, opening, teardown, edition, refreshedAt>>
  BY DEF ListArrives, connection
<1>4. edition \in Nat /\ SliceOf(i) \in Slice /\ refreshedAt[i] <= edition
  BY <1>1, <1>2, PoolTypes DEF ColumnsFresh
<1>5. CASE SliceOf(i).there
  <2>1. PutSlice(i, Wiped(SliceOf(i)))
        /\ requests' = (requests \ {r}) \cup {Asked(i, t) : t \in Reload(SliceOf(i))}
    BY <1>5 DEF ListArrives
  <2>2. Wiped(SliceOf(i)) \in Slice
    BY <1>4, SliceTypes
  <2>3. SliceOf(i)' = Wiped(SliceOf(i)) /\ \A j \in Pools \ {i} : SliceOf(j)' = SliceOf(j)
    BY <1>1, <1>2, <2>1, <2>2, PutTypes
  <2>4. Wiped(SliceOf(i)).there /\ Wiped(SliceOf(i)).error = SliceOf(i).error
        /\ Wiped(SliceOf(i)).columns = NoColumns
    BY <1>4, <1>5 DEF Wiped, Slice
  <2>5. SliceLives(i)'
    BY <1>1, <1>2, <1>3, <1>5, <2>3, <2>4 DEF SliceLives, EmptyUnlessThere
  <2>6. ColumnsFresh(i)'
    BY <1>3, <1>4, <2>3, <2>4 DEF ColumnsFresh, NoColumns
  <2>7. \A j \in Pools \ {i} : Untouched(j)
    BY <1>3, <1>4, <2>1, <2>3 DEF Untouched, UnderWay
  <2>8. \A q \in requests' : RequestFits(q)'
    <3>1. ASSUME NEW t, NEW q, q = Asked(i, t) PROVE RequestFits(q)'
      BY <1>3, <3>1 DEF RequestFits, Asked
    <3>2. \A q \in requests : RequestFits(q)'
      BY <1>1, <1>3, RequestStillFits
    <3> QED
      BY <2>1, <3>1, <3>2
  <2> QED
    BY <1>1, <2>5, <2>6, <2>7, <2>8, UntouchedCurrent DEF CurrentInv
<1>6. CASE ~SliceOf(i).there
  <2>1. requests' = requests \ {r} /\ byConnection' = byConnection
    BY <1>6 DEF ListArrives
  <2>2. SliceOf(i) = NoSlice
    BY <1>1, <1>2, <1>6 DEF SliceLives, EmptyUnlessThere
  <2>3. ColumnsFresh(i)'
    BY <1>3, <1>4, <2>1, <2>2 DEF ColumnsFresh, SliceOf, NoSlice, NoColumns
  <2>4. SliceLives(i)'
    BY <1>1, <1>2, <1>3, <2>1 DEF SliceLives, EmptyUnlessThere, SliceOf
  <2>5. \A j \in Pools \ {i} : Untouched(j)
    BY <1>3, <1>4, <2>1 DEF Untouched, UnderWay, SliceOf
  <2>6. \A q \in requests' : RequestFits(q)'
    BY <1>1, <1>3, <2>1, RequestStillFits
  <2> QED
    BY <1>1, <2>3, <2>4, <2>5, <2>6, UntouchedCurrent DEF CurrentInv
<1> QED
  BY <1>5, <1>6

LEMMA ListFailsCurrent ==
  ASSUME CurrentInv, SchemaCacheTypeOK', NEW r \in requests, ListFails(r)
  PROVE  CurrentInv'
<1>1. SchemaCacheTypeOK /\ (\A j \in Pools : SliceLives(j) /\ ColumnsFresh(j))
      /\ (\A q \in requests : RequestFits(q))
  BY DEF CurrentInv
<1> DEFINE i == r.pool
<1>2. i \in Pools /\ r.era = opens[i] /\ r.era \in 0..MaxOpens
  BY <1>1 DEF SchemaCacheTypeOK, Request, RequestFits
<1>3. UNCHANGED <<opens, live, opening, teardown, edition, refreshedAt>>
      /\ requests' = requests \ {r}
  BY DEF ListFails, connection
<1>4. edition \in Nat /\ SliceOf(i) \in Slice /\ refreshedAt[i] <= edition
  BY <1>1, <1>2, PoolTypes DEF ColumnsFresh
<1>5. SliceLives(i)' /\ ColumnsFresh(i)' /\ \A j \in Pools \ {i} : SliceOf(j)' = SliceOf(j)
  <2>1. CASE SliceOf(i).there
    <3> DEFINE cs == [SliceOf(i) EXCEPT !.loading = FALSE, !.initialized = TRUE,
                                        !.error = r.era]
    <3>1. PutSlice(i, cs)
      BY <2>1 DEF ListFails
    <3>2. cs \in Slice
      BY <1>2, <1>4, SliceTypes
    <3>3. SliceOf(i)' = cs /\ \A j \in Pools \ {i} : SliceOf(j)' = SliceOf(j)
      BY <1>1, <1>2, <3>1, <3>2, PutTypes
    <3>4. cs.there /\ cs.error = opens[i]
      BY <1>2, <1>4, <2>1 DEF Slice
    <3>5. i \in live /\ opens[i] > 0
      BY <1>1, <1>2, <2>1 DEF SliceLives
    <3> HIDE DEF cs
    <3>6. SliceLives(i)'
      BY <1>1, <1>2, <1>3, <3>3, <3>4, <3>5 DEF SliceLives, EmptyUnlessThere
    <3>7. ColumnsFresh(i)'
      BY <1>3, <1>4, <3>3, <3>4, <3>5 DEF ColumnsFresh
    <3> QED
      BY <3>3, <3>6, <3>7
  <2>2. CASE ~SliceOf(i).there
    <3>1. byConnection' = byConnection
      BY <2>2 DEF ListFails
    <3>2. SliceOf(i) = NoSlice
      BY <1>1, <1>2, <2>2 DEF SliceLives, EmptyUnlessThere
    <3>3. ColumnsFresh(i)'
      BY <1>3, <1>4, <3>1, <3>2 DEF ColumnsFresh, SliceOf, NoSlice, NoColumns
    <3>4. SliceLives(i)'
      BY <1>1, <1>2, <1>3, <3>1 DEF SliceLives, EmptyUnlessThere, SliceOf
    <3> QED
      BY <3>1, <3>3, <3>4 DEF SliceOf
  <2> QED
    BY <2>1, <2>2
<1>6. \A j \in Pools \ {i} : Untouched(j)
  BY <1>3, <1>4, <1>5 DEF Untouched, UnderWay
<1>7. \A q \in requests' : RequestFits(q)'
  BY <1>1, <1>3, RequestStillFits
<1> QED
  BY <1>1, <1>5, <1>6, <1>7, UntouchedCurrent DEF CurrentInv

LEMMA ColumnsArriveCurrent ==
  ASSUME CurrentInv, SchemaCacheTypeOK', NEW r \in requests, ColumnsArrive(r)
  PROVE  CurrentInv'
<1>1. SchemaCacheTypeOK /\ (\A j \in Pools : SliceLives(j) /\ ColumnsFresh(j))
      /\ (\A q \in requests : RequestFits(q))
  BY DEF CurrentInv
<1> DEFINE i == r.pool
           t == r.of
<1>2. i \in Pools /\ t \in Tables /\ r.read \in {0} \cup Editions
      /\ r.answer \in {"failed", "read"}
  BY <1>1 DEF SchemaCacheTypeOK, Request, ColumnsArrive
<1>3. UNCHANGED <<opens, live, opening, teardown, edition, refreshedAt>>
      /\ requests' = requests \ {r}
  BY DEF ColumnsArrive, connection
<1>4. edition \in Nat /\ SliceOf(i) \in Slice /\ refreshedAt[i] <= edition
  BY <1>1, <1>2, PoolTypes DEF ColumnsFresh
<1>5. \A u \in UnderWay(i) : u.of = "tables" => u \in UnderWay(i)'
  BY <1>2, <1>3, SchemaCacheAssumption DEF UnderWay
<1>6. PICK cs \in Slice : /\ SliceOf(i)' = cs
                          /\ \A j \in Pools \ {i} : SliceOf(j)' = SliceOf(j)
                          /\ cs.there = SliceOf(i).there /\ cs.error = SliceOf(i).error
                          /\ ~SliceOf(i).there => cs = SliceOf(i)
                          /\ \A s \in Tables :
                               \/ cs.columns[s] = SliceOf(i).columns[s]
                               \/ cs.columns[s] >= refreshedAt[i]
  <2>1. CASE ~SliceOf(i).there
    <3>1. byConnection' = byConnection
      BY <2>1 DEF ColumnsArrive
    <3> QED
      BY <1>4, <3>1 DEF SliceOf
  <2>2. CASE SliceOf(i).there /\ r.answer = "failed"
    <3> DEFINE cs == [SliceOf(i) EXCEPT !.columnErrors = @ \cup {t}]
    <3>1. PutSlice(i, cs)
      BY <2>2 DEF ColumnsArrive
    <3>2. cs \in Slice
      BY <1>2, <1>4, SliceTypes
    <3>3. SliceOf(i)' = cs /\ \A j \in Pools \ {i} : SliceOf(j)' = SliceOf(j)
      BY <1>1, <1>2, <3>1, <3>2, PutTypes
    <3>4. cs.there = SliceOf(i).there /\ cs.error = SliceOf(i).error
          /\ cs.columns = SliceOf(i).columns
      BY <1>4 DEF Slice
    <3> QED
      BY <2>2, <3>2, <3>3, <3>4
  <2>3. CASE SliceOf(i).there /\ r.answer = "read"
    <3> DEFINE cs == [SliceOf(i) EXCEPT !.columns[t] = r.read, !.columnErrors = @ \ {t}]
    <3>1. PutSlice(i, cs)
      BY <2>3 DEF ColumnsArrive
    <3>2. cs \in Slice
      BY <1>2, <1>4, SliceTypes
    <3>3. SliceOf(i)' = cs /\ \A j \in Pools \ {i} : SliceOf(j)' = SliceOf(j)
      BY <1>1, <1>2, <3>1, <3>2, PutTypes
    <3>4. cs.there = SliceOf(i).there /\ cs.error = SliceOf(i).error
          /\ cs.columns = [SliceOf(i).columns EXCEPT ![t] = r.read]
      BY <1>4 DEF Slice
    <3>5. r.read >= refreshedAt[i]
      BY <1>1, <1>2, <2>3 DEF RequestFits
    <3>6. SliceOf(i).columns \in [Tables -> {0} \cup Editions]
      BY <1>4 DEF Slice
    <3>7. \A s \in Tables : \/ cs.columns[s] = SliceOf(i).columns[s]
                            \/ cs.columns[s] >= refreshedAt[i]
      BY <3>4, <3>5, <3>6
    <3> QED
      BY <2>3, <3>2, <3>3, <3>4, <3>7
  <2> QED
    BY <1>2, <2>1, <2>2, <2>3
<1>7. SliceLives(i)'
  BY <1>1, <1>2, <1>3, <1>6 DEF SliceLives, EmptyUnlessThere
<1>8. ColumnsFresh(i)'
  BY <1>1, <1>2, <1>3, <1>4, <1>5, <1>6 DEF ColumnsFresh
<1>9. \A j \in Pools \ {i} : Untouched(j)
  BY <1>3, <1>4, <1>6 DEF Untouched, UnderWay
<1>10. \A q \in requests' : RequestFits(q)'
  BY <1>1, <1>3, RequestStillFits
<1> QED
  BY <1>1, <1>7, <1>8, <1>9, <1>10, UntouchedCurrent DEF CurrentInv

LEMMA NodeCurrent ==
  ASSUME CurrentInv, SchemaCacheTypeOK', NEW i \in Pools, NEW t \in Tables,
         ToggleNode(i, t) \/ Retry(i, t)
  PROVE  CurrentInv'
<1>1. SchemaCacheTypeOK /\ (\A j \in Pools : SliceLives(j) /\ ColumnsFresh(j))
      /\ (\A q \in requests : RequestFits(q))
  BY DEF CurrentInv
<1>2. UNCHANGED <<opens, live, opening, teardown, edition, refreshedAt>>
      /\ requests' \in {requests, requests \cup {Asked(i, t)}}
  BY DEF ToggleNode, Retry, LoadColumns, connection
<1>3. edition \in Nat /\ SliceOf(i) \in Slice
  BY <1>1, PoolTypes
<1>4. /\ SliceOf(i)'.there = SliceOf(i).there /\ SliceOf(i)'.error = SliceOf(i).error
      /\ SliceOf(i)'.columns = SliceOf(i).columns /\ i \in live
      /\ \A j \in Pools \ {i} : SliceOf(j)' = SliceOf(j)
  <2>1. CASE ToggleNode(i, t)
    <3> DEFINE cs == [SliceOf(i) EXCEPT !.expanded = IF t \in @ THEN @ \ {t} ELSE @ \cup {t}]
    <3>1. PutSlice(i, cs) /\ i \in live
      BY <2>1 DEF ToggleNode
    <3>2. cs \in Slice
      BY <1>3, SliceTypes
    <3>3. SliceOf(i)' = cs /\ \A j \in Pools \ {i} : SliceOf(j)' = SliceOf(j)
      BY <1>1, <3>1, <3>2, PutTypes
    <3>4. cs.there = SliceOf(i).there /\ cs.error = SliceOf(i).error
          /\ cs.columns = SliceOf(i).columns
      BY <1>3 DEF Slice
    <3> QED
      BY <3>1, <3>3, <3>4
  <2>2. CASE Retry(i, t)
    BY <2>2 DEF Retry, SliceOf
  <2> QED
    BY <2>1, <2>2
<1>5. SliceLives(i)'
  <2>1. SliceOf(i).there
    BY <1>1 DEF ToggleNode, Retry, SliceLives, EmptyUnlessThere, NoSlice
  <2> QED
    BY <1>1, <1>2, <1>4, <2>1 DEF SliceLives, EmptyUnlessThere
<1>6. \A u \in requests : u \in requests'
  BY <1>2
<1>7. ColumnsFresh(i)'
  BY <1>1, <1>2, <1>4, <1>6 DEF ColumnsFresh, UnderWay
<1>8. \A j \in Pools \ {i} : Untouched(j)
  BY <1>2, <1>3, <1>4, <1>6 DEF Untouched, UnderWay
<1>9. \A q \in requests' : RequestFits(q)'
  <2>1. ASSUME NEW q, q = Asked(i, t) PROVE RequestFits(q)'
    BY <1>2, <2>1 DEF RequestFits, Asked
  <2>2. \A q \in requests : RequestFits(q)'
    BY <1>1, <1>2, RequestStillFits
  <2> QED
    BY <1>2, <2>1, <2>2
<1> QED
  BY <1>1, <1>5, <1>7, <1>8, <1>9, UntouchedCurrent DEF CurrentInv

LEMMA AlterCurrent ==
  ASSUME CurrentInv, SchemaCacheTypeOK', Alter
  PROVE  CurrentInv'
<1>1. SchemaCacheTypeOK /\ (\A j \in Pools : SliceLives(j) /\ ColumnsFresh(j))
      /\ (\A q \in requests : RequestFits(q))
  BY DEF CurrentInv
<1>2. UNCHANGED <<byConnection, requests, opens, live, opening, teardown, refreshedAt>>
      /\ edition' = edition + 1
  BY DEF Alter, connection
<1>3. edition \in Nat
  BY <1>1 DEF SchemaCacheTypeOK, Editions
<1>4. \A j \in Pools : Untouched(j)
  BY <1>2, <1>3 DEF Untouched, UnderWay, SliceOf
<1>5. \A q \in requests' : RequestFits(q)'
  BY <1>1, <1>2, RequestStillFits
<1> QED
  BY <1>1, <1>4, <1>5, UntouchedCurrent DEF CurrentInv

LEMMA CurrentInit == SchemaCacheInit => CurrentInv
<1> SUFFICES ASSUME SchemaCacheInit PROVE CurrentInv
  OBVIOUS
<1>1. SchemaCacheTypeOK
  <2>1. NoSlice \in Slice
    BY SliceTypes
  <2>2. byConnection \in [Pools -> Slice]
    BY <2>1 DEF SchemaCacheInit
  <2> QED
    BY <2>2, SchemaCacheAssumption DEF SchemaCacheInit, SchemaCacheTypeOK, Slice, Editions
<1>2. \A i \in Pools : SliceLives(i) /\ ColumnsFresh(i)
  BY DEF SchemaCacheInit, SliceLives, EmptyUnlessThere, ColumnsFresh, SliceOf, NoSlice, NoColumns
<1>3. \A r \in requests : RequestFits(r)
  BY DEF SchemaCacheInit
<1> QED
  BY <1>1, <1>2, <1>3 DEF CurrentInv

LEMMA CurrentStep ==
  ASSUME Overtakings = {}, CurrentInv, [SchemaCacheNext]_schemaCacheVars
  PROVE  CurrentInv'
<1>1. SchemaCacheTypeOK'
  BY TypesStep DEF CurrentInv
<1>2. CASE UNCHANGED schemaCacheVars
  <2>1. UNCHANGED <<byConnection, requests, opens, live, opening, teardown, edition,
                    refreshedAt>>
    BY <1>2 DEF schemaCacheVars, connection
  <2> QED
    BY <1>1, <2>1
    DEF CurrentInv, SliceLives, EmptyUnlessThere, ColumnsFresh, RequestFits, SliceOf, UnderWay
<1>3. CASE SchemaCacheNext
  BY <1>1, <1>3, OpenPoolCurrent, ConnectionCurrent, RefreshCurrent, NodeCurrent, ServerCurrent,
     ListArrivesCurrent, ListFailsCurrent, ColumnsArriveCurrent, AlterCurrent
  DEF SchemaCacheNext
<1> QED
  BY <1>2, <1>3

\* When no connection is opened again before what was asked of its last pool has been
\* answered, and no refresh begins before the columns asked for earlier have arrived, no
\* columns on screen are older than the last refresh that succeeded, and what a slice says
\* is about the pool that is open.
THEOREM SlicesStayCurrent ==
  ASSUME Overtakings = {}
  PROVE  SchemaCacheSpec => []SliceCurrent
<1>1. CurrentInv => SliceCurrent
  <2> SUFFICES ASSUME CurrentInv PROVE SliceCurrent
    OBVIOUS
  <2>1. RefreshedIsCurrent
    BY DEF CurrentInv, ColumnsFresh, RefreshedIsCurrent
  <2>2. SliceOfThisPool
    BY DEF CurrentInv, SliceLives, EmptyUnlessThere, SliceOfThisPool, NoSlice
  <2> QED
    BY <2>1, <2>2 DEF SliceCurrent
<1> QED
  BY <1>1, CurrentInit, CurrentStep, PTL DEF SchemaCacheSpec

-----------------------------------------------------------------------------
(* The open nodes.                                                         *)

\* A slice that lists, shows and waits for as much as before still fills its open nodes.
LEMMA NodesStillFill ==
  ASSUME SchemaCacheTypeOK, NEW j \in Pools, NodesFill(j),
         SliceOf(j)'.listed = SliceOf(j).listed,
         SliceOf(j)'.expanded = SliceOf(j).expanded,
         SliceOf(j)'.columns = SliceOf(j).columns,
         SliceOf(j)'.columnErrors = SliceOf(j).columnErrors,
         \A r \in UnderWay(j) : r.of \in Tables => \E q \in UnderWay(j)' : q.of = r.of
  PROVE  NodesFill(j)'
<1>1. SliceOf(j).expanded \subseteq Tables
  BY PoolTypes DEF Slice
<1>2. CASE SliceOf(j).listed
  <2> SUFFICES ASSUME NEW t \in SliceOf(j).expanded,
                      SliceOf(j).columns[t] = 0, t \notin SliceOf(j).columnErrors
               PROVE  \E q \in UnderWay(j)' : q.of = t
    BY <1>2 DEF NodesFill
  <2>1. PICK r \in UnderWay(j) : r.of = t
    BY <1>2 DEF NodesFill
  <2> QED
    BY <1>1, <2>1
<1>3. CASE ~SliceOf(j).listed
  BY <1>3 DEF NodesFill
<1> QED
  BY <1>2, <1>3

\* Steps that leave the requests alone, and either empty a slice or leave what it shows.
LEMMA ConnectionFill ==
  ASSUME FillInv, SchemaCacheTypeOK', ~RestoreTabs, NEW i \in Pools,
         \/ OpenPool(i) \/ Hydrate(i) \/ ClosePool(i) \/ MarkDisconnected(i) \/ DropAgain(i)
  PROVE  FillInv'
<1>1. requests' = requests
  BY DEF OpenPool, Hydrate, ClosePool, MarkDisconnected, DropAgain
<1>2. SchemaCacheTypeOK /\ byConnection \in [Pools -> Slice]
  BY PoolTypes DEF FillInv
<1>3. ASSUME NEW j \in Pools
      PROVE  SliceOf(j)' = SliceOf(j) \/ SliceOf(j)' = NoSlice
  BY <1>2 DEF OpenPool, Hydrate, ClosePool, MarkDisconnected, DropAgain, PutSlice, SliceOf
<1>4. ASSUME NEW j \in Pools PROVE NodesFill(j)' /\ EmptyUnlessThere(j)'
  <2>1. NodesFill(j) /\ EmptyUnlessThere(j)
    BY DEF FillInv
  <2>2. CASE SliceOf(j)' = NoSlice
    BY <2>2 DEF NodesFill, EmptyUnlessThere, NoSlice
  <2>3. CASE SliceOf(j)' = SliceOf(j)
    BY <1>1, <1>2, <2>1, <2>3, NodesStillFill DEF EmptyUnlessThere, UnderWay
  <2> QED
    BY <1>3, <2>2, <2>3
<1> QED
  BY <1>1, <1>4 DEF FillInv

LEMMA RefreshFill ==
  ASSUME FillInv, SchemaCacheTypeOK', NEW i \in Pools,
         RefreshNow(i) \/ EnsureLoaded(i) \/ Warm(i)
  PROVE  FillInv'
<1>1. SchemaCacheTypeOK /\ EmptyUnlessThere(i)
  BY DEF FillInv
<1>2. RefreshBegins(i) /\ opens' = opens
  BY DEF RefreshNow, EnsureLoaded, Warm, connection
<1> DEFINE cs == [OrEmpty(i) EXCEPT !.loading = TRUE, !.error = 0]
<1>3. OrEmpty(i) \in Slice
  BY <1>1, PoolTypes
<1>4. cs \in Slice
  BY <1>3, SliceTypes
<1>5. SliceOf(i)' = cs /\ \A j \in Pools \ {i} : SliceOf(j)' = SliceOf(j)
  BY <1>1, <1>2, <1>4, PutTypes DEF RefreshBegins
<1>6. /\ cs.there /\ cs.listed = SliceOf(i).listed /\ cs.expanded = SliceOf(i).expanded
      /\ cs.columns = SliceOf(i).columns /\ cs.columnErrors = SliceOf(i).columnErrors
  BY <1>1, <1>3, OrEmptySays DEF Slice
<1> HIDE DEF cs
<1>7. requests' = requests \cup {Asked(i, "tables")}
  BY <1>2 DEF RefreshBegins
<1>8. ASSUME NEW j \in Pools PROVE NodesFill(j)' /\ EmptyUnlessThere(j)'
  <2>1. NodesFill(j) /\ EmptyUnlessThere(j)
    BY DEF FillInv
  <2>2. \A r \in UnderWay(j) : r \in UnderWay(j)'
    BY <1>7 DEF UnderWay
  <2>3. NodesFill(j)'
    <3>1. CASE j = i
      BY <1>1, <1>5, <1>6, <2>1, <2>2, <3>1, NodesStillFill
    <3>2. CASE j # i
      BY <1>1, <1>5, <2>1, <2>2, <3>2, NodesStillFill
    <3> QED
      BY <3>1, <3>2
  <2> QED
    BY <1>5, <1>6, <2>1, <2>3 DEF EmptyUnlessThere
<1>9. \A r \in requests' : r.answer = "read" => r.read > 0
  BY <1>7 DEF FillInv, Asked
<1> QED
  BY <1>8, <1>9 DEF FillInv

LEMMA ServerFill ==
  ASSUME FillInv, SchemaCacheTypeOK', NEW r \in requests, ServerAnswers(r)
  PROVE  FillInv'
<1>1. SchemaCacheTypeOK /\ byConnection' = byConnection
  BY DEF FillInv, ServerAnswers
<1>2. PICK q : /\ requests' = (requests \ {r}) \cup {q} /\ q.of = r.of /\ q.pool = r.pool
               /\ q.answer = "read" => q.read > 0
  <2>1. r \in Request /\ edition > 0
    BY <1>1 DEF SchemaCacheTypeOK, Editions
  <2>2. CASE requests' = (requests \ {r}) \cup {[r EXCEPT !.answer = "failed"]}
    <3> DEFINE v == [r EXCEPT !.answer = "failed"]
    <3>1. v.of = r.of /\ v.pool = r.pool /\ v.answer = "failed"
      BY <2>1 DEF Request
    <3> HIDE DEF v
    <3>2. requests' = (requests \ {r}) \cup {v}
      BY <2>2 DEF v
    <3> QED
      BY <3>1, <3>2
  <2>3. CASE requests' = (requests \ {r}) \cup {[r EXCEPT !.answer = "read", !.read = edition]}
    <3> DEFINE v == [r EXCEPT !.answer = "read", !.read = edition]
    <3>1. v.of = r.of /\ v.pool = r.pool
      BY <2>1 DEF Request
    <3>2. v.read = edition
      BY <2>1 DEF Request
    <3> HIDE DEF v
    <3>3. requests' = (requests \ {r}) \cup {v}
      BY <2>3 DEF v
    <3> QED
      BY <2>1, <3>1, <3>2, <3>3
  <2> QED
    BY <2>2, <2>3 DEF ServerAnswers
<1>3. ASSUME NEW j \in Pools PROVE NodesFill(j)' /\ EmptyUnlessThere(j)'
  <2>1. NodesFill(j) /\ EmptyUnlessThere(j)
    BY DEF FillInv
  <2>2. ASSUME NEW u \in UnderWay(j) PROVE \E v \in UnderWay(j)' : v.of = u.of
    <3>1. CASE u = r
      BY <1>2, <2>2, <3>1 DEF UnderWay
    <3>2. CASE u # r
      BY <1>2, <2>2, <3>2 DEF UnderWay
    <3> QED
      BY <3>1, <3>2
  <2>3. SliceOf(j)' = SliceOf(j)
    BY <1>1 DEF SliceOf
  <2> QED
    BY <1>1, <2>1, <2>2, <2>3, NodesStillFill DEF EmptyUnlessThere
<1> QED
  BY <1>2, <1>3 DEF FillInv

LEMMA ListArrivesFill ==
  ASSUME FillInv, SchemaCacheTypeOK', NEW r \in requests, ListArrives(r)
  PROVE  FillInv'
<1> DEFINE i == r.pool
<1>1. SchemaCacheTypeOK /\ i \in Pools
  BY DEF FillInv, SchemaCacheTypeOK, Request
<1>2. r.of \notin Tables
  BY SchemaCacheAssumption DEF ListArrives
<1>3. ASSUME NEW j \in Pools, UNCHANGED SliceOf(j),
             \A u \in UnderWay(j) : u # r => u \in UnderWay(j)'
      PROVE  NodesFill(j)' /\ EmptyUnlessThere(j)'
  <2>1. NodesFill(j) /\ EmptyUnlessThere(j)
    BY DEF FillInv
  <2> QED
    BY <1>1, <1>2, <1>3, <2>1, NodesStillFill DEF EmptyUnlessThere
<1>4. CASE SliceOf(i).there
  <2>1. SliceOf(i) \in Slice
    BY <1>1, PoolTypes
  <2>2. PutSlice(i, Wiped(SliceOf(i)))
        /\ requests' = (requests \ {r}) \cup {Asked(i, t) : t \in Reload(SliceOf(i))}
    BY <1>4 DEF ListArrives
  <2>3. Wiped(SliceOf(i)) \in Slice
    BY <2>1, SliceTypes
  <2>4. SliceOf(i)' = Wiped(SliceOf(i)) /\ \A j \in Pools \ {i} : SliceOf(j)' = SliceOf(j)
    BY <1>1, <2>2, <2>3, PutTypes
  <2>5. Wiped(SliceOf(i)).there /\ Wiped(SliceOf(i)).listed
        /\ Wiped(SliceOf(i)).expanded = SliceOf(i).expanded
    BY <1>4, <2>1 DEF Wiped, Slice
  <2>6. NodesFill(i)'
    <3> SUFFICES ASSUME NEW t \in SliceOf(i).expanded PROVE \E q \in UnderWay(i)' : q.of = t
      BY <2>4, <2>5 DEF NodesFill
    <3>1. CASE t \in Reload(SliceOf(i))
      <4>1. PICK q : q = Asked(i, t)
        OBVIOUS
      <4>2. q \in requests' /\ q.pool = i /\ q.of = t
        BY <2>2, <3>1, <4>1 DEF Asked
      <4> QED
        BY <4>2 DEF UnderWay
    <3>2. CASE t \notin Reload(SliceOf(i))
      <4>1. PICK q \in UnderWay(i) : q.of = t
        BY <1>1, <3>2 DEF FillInv, NodesFill, Reload
      <4>2. q # r
        BY <1>2, <2>1, <4>1 DEF Slice
      <4> QED
        BY <2>2, <4>1, <4>2 DEF UnderWay
    <3> QED
      BY <3>1, <3>2
  <2>7. \A j \in Pools \ {i} : NodesFill(j)' /\ EmptyUnlessThere(j)'
    BY <1>3, <2>2, <2>4 DEF UnderWay
  <2>8. EmptyUnlessThere(i)'
    BY <2>4, <2>5 DEF EmptyUnlessThere
  <2>9. \A q \in requests' : q.answer = "read" => q.read > 0
    BY <2>2 DEF FillInv, Asked
  <2> QED
    BY <2>6, <2>7, <2>8, <2>9 DEF FillInv
<1>5. CASE ~SliceOf(i).there
  <2>1. byConnection' = byConnection /\ requests' = requests \ {r}
    BY <1>5 DEF ListArrives
  <2>2. \A j \in Pools : NodesFill(j)' /\ EmptyUnlessThere(j)'
    BY <1>3, <2>1 DEF UnderWay, SliceOf
  <2> QED
    BY <2>1, <2>2 DEF FillInv
<1> QED
  BY <1>4, <1>5

LEMMA ListFailsFill ==
  ASSUME FillInv, SchemaCacheTypeOK', NEW r \in requests, ListFails(r)
  PROVE  FillInv'
<1> DEFINE i == r.pool
           cs == [SliceOf(i) EXCEPT !.loading = FALSE, !.initialized = TRUE, !.error = r.era]
<1>1. SchemaCacheTypeOK /\ i \in Pools /\ r.era \in 0..MaxOpens
  BY DEF FillInv, SchemaCacheTypeOK, Request
<1>2. r.of \notin Tables /\ requests' = requests \ {r}
  BY SchemaCacheAssumption DEF ListFails
<1>3. SliceOf(i) \in Slice
  BY <1>1, PoolTypes
<1>4. cs \in Slice
  BY <1>1, <1>3, SliceTypes
<1>5. /\ cs.there = SliceOf(i).there /\ cs.listed = SliceOf(i).listed
      /\ cs.expanded = SliceOf(i).expanded /\ cs.columns = SliceOf(i).columns
      /\ cs.columnErrors = SliceOf(i).columnErrors
  BY <1>3 DEF Slice
<1>6. \/ byConnection' = byConnection
      \/ PutSlice(i, cs) /\ SliceOf(i).there
  BY DEF ListFails
<1> HIDE DEF cs
<1>7. \/ \A j \in Pools : SliceOf(j)' = SliceOf(j)
      \/ /\ SliceOf(i)' = cs /\ SliceOf(i).there
         /\ \A j \in Pools \ {i} : SliceOf(j)' = SliceOf(j)
  BY <1>1, <1>4, <1>6, PutTypes DEF SliceOf
<1>8. ASSUME NEW j \in Pools PROVE NodesFill(j)' /\ EmptyUnlessThere(j)'
  <2>1. NodesFill(j) /\ EmptyUnlessThere(j)
    BY DEF FillInv
  <2>2. \A u \in UnderWay(j) : u.of \in Tables => u \in UnderWay(j)'
    BY <1>2 DEF UnderWay
  <2>3. CASE SliceOf(j)' = SliceOf(j)
    BY <1>1, <2>1, <2>2, <2>3, NodesStillFill DEF EmptyUnlessThere
  <2>4. CASE j = i /\ SliceOf(i)' = cs /\ SliceOf(i).there
    BY <1>1, <1>5, <2>1, <2>2, <2>4, NodesStillFill DEF EmptyUnlessThere
  <2> QED
    BY <1>7, <2>3, <2>4
<1> QED
  BY <1>2, <1>8 DEF FillInv

LEMMA ColumnsArriveFill ==
  ASSUME FillInv, SchemaCacheTypeOK', NEW r \in requests, ColumnsArrive(r)
  PROVE  FillInv'
<1> DEFINE i == r.pool
           t == r.of
<1>1. /\ SchemaCacheTypeOK /\ i \in Pools /\ t \in Tables
      /\ r.read \in {0} \cup Editions /\ r.answer \in {"failed", "read"}
  BY DEF FillInv, SchemaCacheTypeOK, Request, ColumnsArrive
<1>2. requests' = requests \ {r}
  BY DEF ColumnsArrive
<1>3. SliceOf(i) \in Slice
  BY <1>1, PoolTypes
<1>4. NodesFill(i) /\ EmptyUnlessThere(i)
  BY <1>1 DEF FillInv
<1>5. ASSUME NEW j \in Pools \ {i}, SliceOf(j)' = SliceOf(j)
      PROVE  NodesFill(j)' /\ EmptyUnlessThere(j)'
  <2>1. NodesFill(j) /\ EmptyUnlessThere(j)
    BY DEF FillInv
  <2>2. \A u \in UnderWay(j) : u \in UnderWay(j)'
    BY <1>2 DEF UnderWay
  <2> QED
    BY <1>1, <1>5, <2>1, <2>2, NodesStillFill DEF EmptyUnlessThere
<1>6. CASE ~SliceOf(i).there
  <2>1. byConnection' = byConnection
    BY <1>6 DEF ColumnsArrive
  <2>2. SliceOf(i)' = NoSlice
    BY <1>4, <1>6, <2>1 DEF EmptyUnlessThere, SliceOf
  <2>3. NodesFill(i)' /\ EmptyUnlessThere(i)'
    BY <2>2 DEF NodesFill, EmptyUnlessThere, NoSlice
  <2> QED
    BY <1>2, <1>5, <2>1, <2>3 DEF FillInv, SliceOf
<1>7. CASE SliceOf(i).there
  <2>1. PICK cs \in Slice :
          /\ PutSlice(i, cs)
          /\ cs.there /\ cs.listed = SliceOf(i).listed /\ cs.expanded = SliceOf(i).expanded
          /\ cs.columns[t] # 0 \/ t \in cs.columnErrors
          /\ \A s \in Tables \ {t} :
               /\ cs.columns[s] = SliceOf(i).columns[s]
               /\ s \in SliceOf(i).columnErrors => s \in cs.columnErrors
    <3>1. CASE r.answer = "failed"
      <4> DEFINE cs == [SliceOf(i) EXCEPT !.columnErrors = @ \cup {t}]
      <4>1. PutSlice(i, cs)
        BY <1>7, <3>1 DEF ColumnsArrive
      <4>2. cs \in Slice
        BY <1>1, <1>3, SliceTypes
      <4>3. /\ cs.there /\ cs.listed = SliceOf(i).listed
            /\ cs.expanded = SliceOf(i).expanded /\ cs.columns = SliceOf(i).columns
            /\ cs.columnErrors = SliceOf(i).columnErrors \cup {t}
        BY <1>3, <1>7 DEF Slice
      <4> HIDE DEF cs
      <4> QED
        BY <4>1, <4>2, <4>3
    <3>2. CASE r.answer = "read"
      <4> DEFINE cs == [SliceOf(i) EXCEPT !.columns[t] = r.read, !.columnErrors = @ \ {t}]
      <4>1. PutSlice(i, cs)
        BY <1>7, <3>2 DEF ColumnsArrive
      <4>2. cs \in Slice
        BY <1>1, <1>3, SliceTypes
      <4>3. /\ cs.there /\ cs.listed = SliceOf(i).listed
            /\ cs.expanded = SliceOf(i).expanded
            /\ cs.columns = [SliceOf(i).columns EXCEPT ![t] = r.read]
            /\ cs.columnErrors = SliceOf(i).columnErrors \ {t}
        BY <1>3, <1>7 DEF Slice
      <4>4. SliceOf(i).columns \in [Tables -> {0} \cup Editions]
        BY <1>3 DEF Slice
      <4>5. r.read # 0
        BY <3>2 DEF FillInv
      <4> HIDE DEF cs
      <4>6. cs.columns[t] # 0 /\ \A s \in Tables \ {t} : cs.columns[s] = SliceOf(i).columns[s]
        BY <1>1, <4>3, <4>4, <4>5
      <4> QED
        BY <4>1, <4>2, <4>3, <4>6
    <3> QED
      BY <1>1, <3>1, <3>2
  <2>2. SliceOf(i)' = cs /\ \A j \in Pools \ {i} : SliceOf(j)' = SliceOf(j)
    BY <1>1, <2>1, PutTypes
  <2>3. \A u \in UnderWay(i) : u.of # t => u \in UnderWay(i)'
    BY <1>2 DEF UnderWay
  <2>4. NodesFill(i)'
    <3>1. SliceOf(i).expanded \subseteq Tables
      BY <1>3 DEF Slice
    <3>2. CASE SliceOf(i).listed
      <4> SUFFICES ASSUME NEW s \in SliceOf(i).expanded
                   PROVE  \/ cs.columns[s] # 0 \/ s \in cs.columnErrors
                          \/ \E q \in UnderWay(i)' : q.of = s
        BY <2>1, <2>2, <3>2 DEF NodesFill
      <4>1. CASE s = t
        BY <2>1, <4>1
      <4>2. CASE s # t
        BY <1>4, <2>1, <2>3, <3>1, <3>2, <4>2 DEF NodesFill
      <4> QED
        BY <4>1, <4>2
    <3>3. CASE ~SliceOf(i).listed
      BY <1>4, <2>1, <2>2, <3>3 DEF NodesFill
    <3> QED
      BY <3>2, <3>3
  <2>5. EmptyUnlessThere(i)'
    BY <2>1, <2>2 DEF EmptyUnlessThere
  <2>6. \A j \in Pools : NodesFill(j)' /\ EmptyUnlessThere(j)'
    BY <1>5, <2>2, <2>4, <2>5
  <2> QED
    BY <1>2, <2>6 DEF FillInv
<1> QED
  BY <1>6, <1>7

LEMMA NodeFill ==
  ASSUME FillInv, SchemaCacheTypeOK', NEW i \in Pools, NEW t \in Tables,
         ToggleNode(i, t) \/ Retry(i, t)
  PROVE  FillInv'
<1>1. SchemaCacheTypeOK /\ NodesFill(i) /\ EmptyUnlessThere(i)
  BY DEF FillInv
<1>2. SliceOf(i).listed /\ requests' \in {requests, requests \cup {Asked(i, t)}}
  BY DEF ToggleNode, Retry, LoadColumns
<1>3. SliceOf(i).there
  BY <1>1, <1>2 DEF EmptyUnlessThere, NoSlice
<1>4. \A u \in requests : u \in requests'
  BY <1>2
<1>5. \A u \in requests' : u.answer = "read" => u.read > 0
  BY <1>2 DEF FillInv, Asked
<1>6. ASSUME NEW j \in Pools, SliceOf(j)' = SliceOf(j)
      PROVE  NodesFill(j)' /\ EmptyUnlessThere(j)'
  <2>1. NodesFill(j) /\ EmptyUnlessThere(j)
    BY DEF FillInv
  <2> QED
    BY <1>1, <1>4, <1>6, <2>1, NodesStillFill DEF EmptyUnlessThere, UnderWay
<1>7. CASE ToggleNode(i, t)
  <2> DEFINE cs == [SliceOf(i) EXCEPT !.expanded = IF t \in @ THEN @ \ {t} ELSE @ \cup {t}]
  <2>1. PutSlice(i, cs)
    BY <1>7 DEF ToggleNode
  <2>2. SliceOf(i) \in Slice
    BY <1>1, PoolTypes
  <2>3. cs \in Slice
    BY <2>2, SliceTypes
  <2>4. SliceOf(i)' = cs /\ \A j \in Pools \ {i} : SliceOf(j)' = SliceOf(j)
    BY <1>1, <2>1, <2>3, PutTypes
  <2>5. /\ cs.there = SliceOf(i).there /\ cs.listed = SliceOf(i).listed
        /\ cs.expanded \subseteq SliceOf(i).expanded \cup {t}
        /\ cs.columns = SliceOf(i).columns /\ cs.columnErrors = SliceOf(i).columnErrors
    BY <2>2 DEF Slice
  <2> HIDE DEF cs
  <2>6. NodesFill(i)'
    <3> SUFFICES ASSUME NEW s \in cs.expanded,
                        SliceOf(i).columns[s] = 0, s \notin SliceOf(i).columnErrors
                 PROVE  \E q \in UnderWay(i)' : q.of = s
      BY <1>2, <2>4, <2>5 DEF NodesFill
    <3>1. CASE s = t
      <4>1. requests' = requests \cup {Asked(i, t)}
        BY <1>7, <3>1 DEF ToggleNode, LoadColumns
      <4>2. PICK q : q = Asked(i, t)
        OBVIOUS
      <4>3. q \in requests' /\ q.pool = i /\ q.of = s
        BY <3>1, <4>1, <4>2 DEF Asked
      <4> QED
        BY <4>3 DEF UnderWay
    <3>2. CASE s # t
      <4>1. PICK q \in UnderWay(i) : q.of = s
        BY <1>1, <1>2, <2>5, <3>2 DEF NodesFill
      <4> QED
        BY <1>4, <4>1 DEF UnderWay
    <3> QED
      BY <3>1, <3>2
  <2>7. EmptyUnlessThere(i)'
    BY <1>3, <2>4, <2>5 DEF EmptyUnlessThere
  <2> QED
    BY <1>5, <1>6, <2>4, <2>6, <2>7 DEF FillInv
<1>8. CASE Retry(i, t)
  <2>1. \A j \in Pools : SliceOf(j)' = SliceOf(j)
    BY <1>8 DEF Retry, SliceOf
  <2> QED
    BY <1>5, <1>6, <2>1 DEF FillInv
<1> QED
  BY <1>7, <1>8

LEMMA FillInit == SchemaCacheInit => FillInv
<1> SUFFICES ASSUME SchemaCacheInit PROVE FillInv
  OBVIOUS
<1>1. SchemaCacheTypeOK
  BY CurrentInit DEF CurrentInv
<1> QED
  BY <1>1 DEF SchemaCacheInit, FillInv, NodesFill, EmptyUnlessThere, SliceOf, NoSlice

LEMMA FillStep ==
  ASSUME ~RestoreTabs, FillInv, [SchemaCacheNext]_schemaCacheVars
  PROVE  FillInv'
<1>1. SchemaCacheTypeOK'
  BY TypesStep DEF FillInv
<1>2. CASE UNCHANGED schemaCacheVars \/ Alter
  <2>1. UNCHANGED <<byConnection, requests>>
    BY <1>2 DEF schemaCacheVars, Alter
  <2> QED
    BY <1>1, <2>1 DEF FillInv, NodesFill, EmptyUnlessThere, SliceOf, UnderWay
<1>3. CASE SchemaCacheNext /\ ~Alter
  BY <1>1, <1>3, ConnectionFill, RefreshFill, NodeFill, ServerFill, ListArrivesFill,
     ListFailsFill, ColumnsArriveFill
  DEF SchemaCacheNext
<1> QED
  BY <1>2, <1>3

\* As long as no tree is restored from the last session, an open node of a loaded tree shows
\* its columns or its error, or an answer is on its way: in whatever order answers arrive,
\* refreshes begin and connections are closed and opened again.
THEOREM OpenNodesFill ==
  ASSUME ~RestoreTabs
  PROVE  SchemaCacheSpec => []OpenNodeFills
<1>1. FillInv => OpenNodeFills
  <2> SUFFICES ASSUME FillInv PROVE OpenNodeFills
    OBVIOUS
  <2>1. live \subseteq Pools
    BY DEF FillInv, SchemaCacheTypeOK
  <2> QED
    BY <2>1 DEF FillInv, NodesFill, OpenNodeFills
<1> QED
  BY <1>1, FillInit, FillStep, PTL DEF SchemaCacheSpec

\* Slices, requests and pools keep their form, however answers and connections cross and
\* whatever is restored from the last session.
THEOREM SchemaCacheTyped == SchemaCacheSpec => []SchemaCacheTypeOK
<1>1. SchemaCacheInit => SchemaCacheTypeOK
  BY FillInit DEF FillInv
<1>2. SchemaCacheTypeOK /\ [SchemaCacheNext]_schemaCacheVars => SchemaCacheTypeOK'
  BY TypesStep
<1> QED
  BY <1>1, <1>2, PTL DEF SchemaCacheSpec

HIDE SchemaCacheAssumption

-----------------------------------------------------------------------------
(***************************************************************************)
(* OriginSync.                                                             *)
(***************************************************************************)

USE OriginSyncAssumption

\* A profile the user is deciding about, or has decided about, belongs to no origin; and
\* what the window knows of a profile is true unless the list has not been read since.
ProfileFits(p) ==
  /\ owner[p] = "gone" => p \in retired
  /\ p \in decided \/ choice[p] # "none" => owner[p] \notin Origins
  /\ choice[p] \in {"adopt", "retire"} \/ known[p] = owner[p]

\* No registered origin lists what was retired here.
RetiredUnlisted == \A o \in registry : published[o] \cap retired = {}

SweepRests == sweep.pc \in {"idle", "list", "refresh"}

\* The origins a sweep has heard from and filed.
Heard(o) == o \in sweep.listed \ (sweep.todo \cup {sweep.now})

\* What a sweep has found is true, and is all that the origins it has heard from lack.
SweepFits ==
  IF SweepRests THEN sweep = [NoSweep EXCEPT !.pc = sweep.pc] ELSE
    /\ sweep.held \subseteq pools
    /\ sweep.listed = registry /\ sweep.todo \subseteq registry
    /\ sweep.pc = "next" => sweep.now = Nobody
    /\ sweep.pc \in {"call", "answer"} => sweep.now \in registry \ sweep.todo
    /\ sweep.pc = "answer" =>
         /\ sweep.report = missing[sweep.now]
         /\ \A p \in sweep.report : owner[p] = sweep.now
    /\ \A p \in Profiles :
         /\ sweep.found[p] # Nobody =>
              owner[p] = sweep.found[p] /\ sweep.found[p] \in registry
         /\ Heard(owner[p]) /\ p \in missing[owner[p]] => sweep.found[p] = owner[p]

\* A profile that may have to be noticed.
Due(p) ==
  /\ choice[p] = "none" /\ owner[p] \in Origins
  /\ owner[p] \in registry => p \in missing[owner[p]]

\* A notice names the origin its profile belongs to, and between sweeps every profile that
\* is due has one.
NoticesFit ==
  /\ \A p \in Profiles : notices[p] # Nobody /\ choice[p] = "none" => owner[p] = notices[p]
  /\ sweep.pc = "refresh" => swept
  /\ sweep.pc \in {"idle", "refresh"} =>
       /\ deferred \subseteq pools
       /\ swept => \A p \in Profiles : Due(p) => notices[p] = owner[p]

SettledInv ==
  /\ OriginSyncTypeOK
  /\ \A p \in Profiles : ProfileFits(p)
  /\ RetiredUnlisted /\ SweepFits /\ NoticesFit

-----------------------------------------------------------------------------
(* Types.                                                                  *)

SweepRecords ==
  [pc : {"idle", "list", "next", "call", "answer", "refresh"},
   listed : SUBSET Origins, todo : SUBSET Origins,
   now : Origins \cup {Nobody}, report : SUBSET Profiles, failed : BOOLEAN,
   held : SUBSET Profiles, found : [Profiles -> Origins \cup {Nobody}],
   touched : BOOLEAN]

LEMMA NothingTypes ==
  /\ Nothing \in [Profiles -> Origins \cup {Nobody}]
  /\ NoSweep \in SweepRecords /\ NoSweep.pc = "idle"
  /\ NoSweep = [NoSweep EXCEPT !.pc = "idle"]
  /\ \A pc \in {"idle", "list", "refresh"} :
       /\ [NoSweep EXCEPT !.pc = pc] \in SweepRecords
       /\ [NoSweep EXCEPT !.pc = pc].pc = pc
<1>1. Nothing \in [Profiles -> Origins \cup {Nobody}]
  BY DEF Nothing
<1>2. NoSweep \in SweepRecords
  BY <1>1 DEF NoSweep, SweepRecords
<1>3. ASSUME NEW pc \in {"idle", "list", "refresh"}
      PROVE  [NoSweep EXCEPT !.pc = pc] \in SweepRecords /\ [NoSweep EXCEPT !.pc = pc].pc = pc
  BY <1>2 DEF SweepRecords
<1>4. NoSweep.pc = "idle"
  BY DEF NoSweep
<1>5. \A s \in SweepRecords : s = [s EXCEPT !.pc = s.pc]
  BY DEF SweepRecords
<1> QED
  BY <1>1, <1>2, <1>3, <1>4, <1>5

LEMMA RaiseTypes ==
  ASSUME OriginSyncTypeOK, NEW o \in Origins \cup {Nobody}, NEW ps \in SUBSET Profiles
  PROVE  Raise(o, ps) \in [Profiles -> Origins \cup {Nobody}]
  BY DEF OriginSyncTypeOK, Raise

\* What the steps of a sweep make of it.
LEMMA SweepTypes ==
  ASSUME OriginSyncTypeOK,
         \/ ListOrigins \/ Pull \/ Answer \/ SweepEnds \/ Refreshed
         \/ \E o \in Origins : AskOrigin(o)
  PROVE  sweep' \in SweepRecords
<1>1. sweep \in SweepRecords
  BY DEF OriginSyncTypeOK, SweepRecords
<1>2. CASE ListOrigins
  BY <1>1, <1>2 DEF ListOrigins, SweepRecords, OriginSyncTypeOK
<1>3. ASSUME NEW o \in Origins, AskOrigin(o) PROVE sweep' \in SweepRecords
  BY <1>1, <1>3 DEF AskOrigin, SweepRecords
<1>4. CASE Pull
  <2>1. CASE PullFails
    BY <1>1, <2>1 DEF PullFails, SweepRecords
  <2>2. ASSUME NEW o, Pulled(o) PROVE sweep' \in SweepRecords
    BY <1>1, <2>2 DEF Pulled, SweepRecords
  <2> QED
    BY <1>4, <2>1, <2>2 DEF Pull
<1>5. CASE Answer
  <2>1. Raise(sweep.now, sweep.report) \in [Profiles -> Origins \cup {Nobody}]
    BY <1>1, RaiseTypes DEF SweepRecords
  <2> QED
    BY <1>1, <1>5, <2>1 DEF Answer, SweepRecords
<1>6. CASE SweepEnds \/ Refreshed
  BY <1>6, NothingTypes DEF SweepEnds, Refreshed
<1> QED
  BY <1>2, <1>3, <1>4, <1>5, <1>6

LEMMA SyncTypesStep ==
  ASSUME OriginSyncTypeOK, [OriginSyncNext]_originSyncVars
  PROVE  OriginSyncTypeOK'
<1> USE DEF OriginSyncTypeOK
<1>1. CASE UNCHANGED originSyncVars
  BY <1>1 DEF originSyncVars, files, store, past
<1>2. ASSUME NEW o \in Origins, NEW ps \in SUBSET Profiles, Publish(o, ps)
      PROVE  OriginSyncTypeOK'
  BY <1>2 DEF Publish, store, past
<1>3. ASSUME NEW p \in Profiles, Open(p) PROVE OriginSyncTypeOK'
  BY <1>3 DEF Open, files, store, past
<1>4. ASSUME BeginSweep PROVE sweep' \in SweepRecords /\ sweeps' \in 0..MaxSweeps
  BY <1>4, NothingTypes DEF BeginSweep
<1>5. ASSUME NEW p \in Profiles, Close(p) PROVE OriginSyncTypeOK'
  <2>1. sweep' \in SweepRecords /\ sweeps' \in 0..MaxSweeps
    BY <1>4, <1>5 DEF Close, SweepRecords
  <2> QED
    BY <1>5, <2>1 DEF Close, files, store, SweepRecords
<1>6. CASE Sweep
  BY <1>4, <1>6 DEF Sweep, files, store, SweepRecords
<1>7. CASE ListOrigins
  BY <1>7, SweepTypes DEF ListOrigins, files, store, past, SweepRecords
<1>8. ASSUME NEW o \in Origins, AskOrigin(o) PROVE OriginSyncTypeOK'
  <2>1. sweep' \in SweepRecords
    BY <1>8, SweepTypes
  <2> QED
    BY <1>8, <2>1 DEF AskOrigin, files, store, past, SweepRecords
<1>9. ASSUME NEW o \in Origins, RemoveOrigin(o) PROVE OriginSyncTypeOK'
  BY <1>9 DEF RemoveOrigin, files, past, Owners
<1>10. CASE Pull
  <2>1. sweep' \in SweepRecords
    BY <1>10, SweepTypes
  <2>2. owner' \in [Profiles -> Owners] /\ behind' \subseteq Profiles
        /\ missing' \in [Origins -> SUBSET Profiles]
    <3>1. CASE PullFails
      BY <3>1 DEF PullFails
    <3>2. CASE sweep.now \in registry /\ Pulled(sweep.now)
      BY <3>2 DEF Pulled, Owners
    <3> QED
      BY <1>10, <3>1, <3>2 DEF Pull
  <2> QED
    BY <1>10, <2>1, <2>2 DEF Pull, store, SweepRecords
<1>11. CASE Answer
  BY <1>11, SweepTypes DEF Answer, files, store, past, SweepRecords
<1>12. CASE SweepEnds
  <2>1. sweep' \in SweepRecords
    BY <1>12, SweepTypes
  <2>2. notices' \in [Profiles -> Origins \cup {Nobody}]
    BY <1>12 DEF SweepEnds, Orphans
  <2> QED
    BY <1>12, <2>1, <2>2 DEF SweepEnds, files, SweepRecords
<1>13. CASE Refreshed
  BY <1>13, SweepTypes DEF Refreshed, files, store, past, SweepRecords
<1>14. ASSUME NEW p \in Profiles, Adopt(p) \/ Retire(p) PROVE OriginSyncTypeOK'
  BY <1>14 DEF Adopt, Retire, files, store, past, Owners
<1>15. ASSUME NEW p \in Profiles, Reread(p) \/ Decided(p) PROVE OriginSyncTypeOK'
  BY <1>15 DEF Reread, Decided, files, store, past
<1>16. CASE RestartApp
  BY <1>16, NothingTypes DEF RestartApp, files, SweepRecords
<1>17. CASE OriginSyncNext
  BY <1>2, <1>3, <1>5, <1>6, <1>7, <1>8, <1>9, <1>10, <1>11, <1>12, <1>13, <1>14, <1>15, <1>16,
     <1>17
  DEF OriginSyncNext
<1> QED
  BY <1>1, <1>17

-----------------------------------------------------------------------------
(* What a sweep finds, and what becomes of it.                             *)

\* What the steps leave alone.
ProfilesKept == UNCHANGED <<owner, known, decided, choice, retired>>
NoticesKept == UNCHANGED <<notices, deferred, pools, swept, registry, missing>>

LEMMA ProfilesStillFit ==
  ASSUME \A p \in Profiles : ProfileFits(p), ProfilesKept
  PROVE  \A p \in Profiles : ProfileFits(p)'
  BY DEF ProfileFits, ProfilesKept

LEMMA NoticesStillFit ==
  ASSUME NoticesFit, NoticesKept, UNCHANGED <<owner, choice>>,
         sweep'.pc = sweep.pc \/ sweep'.pc \notin {"idle", "refresh"}
  PROVE  NoticesFit'
  BY DEF NoticesFit, NoticesKept, Due

\* A sweep that has not begun, or is over, has found nothing.
LEMMA RestingFits ==
  ASSUME NEW pc \in {"idle", "list", "refresh"}, sweep' = [NoSweep EXCEPT !.pc = pc]
  PROVE  SweepFits' /\ sweep'.pc = pc
<1>1. sweep'.pc = pc
  BY NothingTypes
<1> QED
  BY <1>1 DEF SweepFits, SweepRests

LEMMA RestingStillFits ==
  ASSUME SweepFits, SweepRests, sweep' = sweep
  PROVE  SweepFits'
  BY DEF SweepFits, SweepRests

LEMMA SweepStillFits ==
  ASSUME SweepFits, UNCHANGED <<sweep, registry, pools, missing, owner>>
  PROVE  SweepFits'
  BY DEF SweepFits, SweepRests, Heard

\* Between sweeps: somebody else, or the user, changes the files, the pools, the profiles.
LEMMA OutsideSettled ==
  ASSUME SettledInv, OriginSyncTypeOK', Meanwhile = {},
         \/ \E o \in Origins, ps \in SUBSET Profiles : Publish(o, ps)
         \/ \E p \in Profiles : Open(p)
  PROVE  SettledInv'
<1>1. sweep' = sweep /\ Idle
  BY DEF Publish, Open, MayDo
<1>2. \A p \in Profiles : ProfileFits(p)'
  BY ProfilesStillFit DEF SettledInv, Publish, Open, store, past, files, ProfilesKept
<1>3. SweepFits'
  BY <1>1, RestingStillFits DEF SettledInv, SweepRests, Idle
<1>4. CASE \E o \in Origins, ps \in SUBSET Profiles : Publish(o, ps)
  <2>1. RetiredUnlisted'
    BY <1>4 DEF SettledInv, RetiredUnlisted, Publish, OriginSyncTypeOK, past
  <2>2. NoticesFit'
    BY <1>1, <1>4, NoticesStillFit DEF SettledInv, Publish, store, past, NoticesKept
  <2> QED
    BY <1>2, <1>3, <2>1, <2>2 DEF SettledInv
<1>5. CASE \E p \in Profiles : Open(p)
  <2>1. RetiredUnlisted'
    BY <1>5 DEF SettledInv, RetiredUnlisted, Open, files, past
  <2>2. pools \subseteq pools'
    BY <1>5 DEF Open
  <2>3. NoticesFit'
    BY <1>1, <1>5, <2>2 DEF SettledInv, NoticesFit, Due, Open, store, past
  <2> QED
    BY <1>2, <1>3, <2>1, <2>3 DEF SettledInv
<1> QED
  BY <1>4, <1>5

\* A sweep begins, of its own or because the pool that held an update back has closed.
LEMMA BeginSettled ==
  ASSUME SettledInv, OriginSyncTypeOK', Meanwhile = {},
         Sweep \/ \E p \in Profiles : Close(p)
  PROVE  SettledInv'
<1>1. UNCHANGED <<owner, known, decided, choice, retired, registry, published, notices,
                  deferred, swept, missing>>
  BY DEF Sweep, Close, files, store
<1>2. \A p \in Profiles : ProfileFits(p)'
  BY <1>1, ProfilesStillFit DEF SettledInv, ProfilesKept
<1>3. RetiredUnlisted'
  BY <1>1 DEF SettledInv, RetiredUnlisted
<1>4. CASE BeginSweep
  <2>1. SweepFits' /\ sweep'.pc = "list"
    BY <1>4, RestingFits DEF BeginSweep
  <2>2. NoticesFit'
    BY <1>1, <2>1 DEF SettledInv, NoticesFit
  <2> QED
    BY <1>2, <1>3, <2>1, <2>2 DEF SettledInv
<1>5. CASE ~BeginSweep
  <2>1. PICK p \in Profiles : Close(p)
    BY <1>5 DEF Sweep
  <2>2. sweep' = sweep /\ Idle /\ deferred \subseteq pools'
    BY <1>5, <2>1 DEF Close, MayDo, Idle
  <2>3. SweepFits'
    BY <2>2, RestingStillFits DEF SettledInv, SweepRests, Idle
  <2>4. NoticesFit'
    BY <1>1, <2>2 DEF SettledInv, NoticesFit, Due
  <2> QED
    BY <1>2, <1>3, <2>3, <2>4 DEF SettledInv
<1> QED
  BY <1>4, <1>5

\* A pull changes no profile's owner: what a file lists was not retired here.
LEMMA PullKeepsOwners ==
  ASSUME SettledInv, NEW o \in registry, Pulled(o)
  PROVE  owner' = owner
<1>1. published[o] \cap retired = {} /\ published[o] \subseteq Profiles
      /\ owner \in [Profiles -> Owners]
  BY DEF SettledInv, RetiredUnlisted, OriginSyncTypeOK
<1>2. {p \in published[o] : owner[p] = "gone"} = {}
  BY <1>1 DEF SettledInv, ProfileFits
<1>3. owner' = [p \in Profiles |-> owner[p]]
  BY <1>2 DEF Pulled
<1> QED
  BY <1>1, <1>3

LEMMA AskSettled ==
  ASSUME SettledInv, OriginSyncTypeOK', ListOrigins \/ \E o \in Origins : AskOrigin(o)
  PROVE  SettledInv'
<1>1. UNCHANGED <<owner, known, decided, choice, retired, registry, published, notices,
                  deferred, swept, missing, pools>>
  BY DEF ListOrigins, AskOrigin, files, store, past
<1>2. \A p \in Profiles : ProfileFits(p)'
  BY <1>1, ProfilesStillFit DEF SettledInv, ProfilesKept
<1>3. RetiredUnlisted'
  BY <1>1 DEF SettledInv, RetiredUnlisted
<1>4. sweep \in SweepRecords /\ sweep' \in SweepRecords /\ registry \subseteq Origins
  BY DEF SettledInv, OriginSyncTypeOK, SweepRecords
<1>5. CASE ListOrigins
  <2>1. sweep.pc = "list" /\ sweep = [NoSweep EXCEPT !.pc = "list"]
    BY <1>5 DEF SettledInv, SweepFits, SweepRests, ListOrigins
  <2>2. sweep.held = {} /\ sweep.found = Nothing /\ sweep.now = Nobody
    BY <2>1, NothingTypes DEF NoSweep, SweepRecords
  <2>3. /\ sweep'.pc = "next" /\ sweep'.listed = registry /\ sweep'.todo = registry
        /\ sweep'.held = {} /\ sweep'.found = Nothing /\ sweep'.now = Nobody
    BY <1>4, <1>5, <2>2 DEF ListOrigins, SweepRecords
  <2>4. SweepFits'
    BY <1>1, <2>3 DEF SweepFits, SweepRests, Heard, Nothing
  <2>5. NoticesFit'
    BY <1>1, <2>3, NoticesStillFit DEF SettledInv, NoticesKept
  <2> QED
    BY <1>2, <1>3, <2>4, <2>5 DEF SettledInv
<1>6. ASSUME NEW o \in Origins, AskOrigin(o) PROVE SettledInv'
  <2>1. /\ sweep.pc = "next" /\ o \in sweep.todo
        /\ sweep'.pc = "call" /\ sweep'.now = o /\ sweep'.todo = sweep.todo \ {o}
        /\ sweep'.listed = sweep.listed /\ sweep'.held = sweep.held
        /\ sweep'.found = sweep.found
    BY <1>4, <1>6 DEF AskOrigin, SweepRecords
  <2>2. SweepFits'
    BY <1>1, <2>1 DEF SettledInv, SweepFits, SweepRests, Heard
  <2>3. NoticesFit'
    BY <1>1, <2>1, NoticesStillFit DEF SettledInv, NoticesKept
  <2> QED
    BY <1>2, <1>3, <2>2, <2>3 DEF SettledInv
<1> QED
  BY <1>5, <1>6

\* What the origin said is on record until it is filed.
LEMMA PullSettled ==
  ASSUME SettledInv, OriginSyncTypeOK', Pull
  PROVE  SettledInv'
<1> DEFINE o == sweep.now
<1>1. UNCHANGED <<known, decided, choice, retired, registry, published, notices,
                  deferred, swept, pools>>
  BY DEF Pull, store
<1>2. sweep \in SweepRecords /\ sweep' \in SweepRecords /\ registry \subseteq Origins
      /\ missing \in [Origins -> SUBSET Profiles] /\ sweep.pc = "call"
  BY DEF SettledInv, OriginSyncTypeOK, SweepRecords, Pull
<1>3. o \in registry \ sweep.todo
  BY <1>2 DEF SettledInv, SweepFits, SweepRests
<1>4. /\ owner' = owner
      /\ sweep'.pc = "answer" /\ sweep'.now = o /\ sweep'.todo = sweep.todo
      /\ sweep'.listed = sweep.listed /\ sweep'.found = sweep.found
      /\ sweep.held \subseteq pools => sweep'.held \subseteq pools
      /\ \A p \in sweep'.report : owner[p] = o
      /\ missing' = [missing EXCEPT ![o] = sweep'.report]
  <2>1. CASE PullFails
    <3>1. sweep'.report = {} /\ sweep'.held = sweep.held
      BY <1>2, <2>1 DEF PullFails, SweepRecords
    <3> QED
      BY <1>2, <2>1, <3>1 DEF PullFails, SweepRecords
  <2>2. CASE Pulled(o)
    <3> DEFINE owned == {p \in Profiles : owner[p] = o}
               gone == owned \ published[o]
    <3>1. owner' = owner
      BY <1>3, <2>2, PullKeepsOwners
    <3>2. /\ sweep'.pc = "answer" /\ sweep'.now = o /\ sweep'.todo = sweep.todo
          /\ sweep'.listed = sweep.listed /\ sweep'.found = sweep.found
          /\ sweep'.held = sweep.held \cup (owned \cap published[o] \cap pools)
      BY <1>2, <2>2 DEF Pulled, SweepRecords
    <3>3. sweep'.report =
            IF Trustworthy(Cardinality(owned), Cardinality(gone)) THEN gone ELSE {}
      BY <1>2, <2>2 DEF Pulled, SweepRecords
    <3>4. missing' = [missing EXCEPT ![o] = sweep'.report]
      BY <2>2, <3>3 DEF Pulled
    <3>5. sweep'.report \subseteq owned
      BY <3>3
    <3> QED
      BY <3>1, <3>2, <3>4, <3>5
  <2> QED
    BY <2>1, <2>2 DEF Pull
<1>5. \A p \in Profiles : ProfileFits(p)'
  BY <1>1, <1>4, ProfilesStillFit DEF SettledInv, ProfilesKept
<1>6. RetiredUnlisted'
  BY <1>1 DEF SettledInv, RetiredUnlisted
<1>7. SweepFits'
  <2>1. missing'[o] = sweep'.report /\ \A q \in registry \ {o} : missing'[q] = missing[q]
    BY <1>2, <1>3, <1>4
  <2>2. ~SweepRests /\ ~SweepRests'
    BY <1>2, <1>4 DEF SweepRests
  <2>3. \A q : Heard(q)' <=> Heard(q) /\ q # o
    BY <1>4 DEF Heard
  <2> QED
    BY <1>1, <1>2, <1>3, <1>4, <2>1, <2>2, <2>3 DEF SettledInv, SweepFits, Heard
<1>8. NoticesFit'
  BY <1>1, <1>4 DEF SettledInv, NoticesFit
<1> QED
  BY <1>5, <1>6, <1>7, <1>8 DEF SettledInv

\* What is missing belongs to an origin, so the user has not decided about it: it is raised.
LEMMA AnswerSettled ==
  ASSUME SettledInv, OriginSyncTypeOK', Answer
  PROVE  SettledInv'
<1> DEFINE o == sweep.now
<1>1. UNCHANGED <<owner, known, decided, choice, retired, registry, published, notices,
                  deferred, swept, missing, pools>>
  BY DEF Answer, files, store, past
<1>2. sweep \in SweepRecords /\ registry \subseteq Origins /\ sweep.pc = "answer"
  BY DEF SettledInv, OriginSyncTypeOK, SweepRecords, Answer
<1>3. /\ sweep.held \subseteq pools /\ sweep.listed = registry /\ sweep.todo \subseteq registry
      /\ o \in registry \ sweep.todo /\ sweep.report = missing[o]
      /\ \A p \in sweep.report : owner[p] = o
  BY <1>2 DEF SettledInv, SweepFits, SweepRests
<1>4. ASSUME NEW p \in Profiles
      PROVE  /\ sweep.found[p] # Nobody =>
                  owner[p] = sweep.found[p] /\ sweep.found[p] \in registry
             /\ Heard(owner[p]) /\ p \in missing[owner[p]] => sweep.found[p] = owner[p]
  BY <1>2 DEF SettledInv, SweepFits, SweepRests
<1>5. sweep.report \cap decided = {} /\ sweep.report \subseteq Profiles
  BY <1>2, <1>3 DEF SettledInv, ProfileFits, SweepRecords
<1>6. /\ sweep'.pc = "next" /\ sweep'.now = Nobody /\ sweep'.todo = sweep.todo
      /\ sweep'.listed = registry /\ sweep'.held = sweep.held
      /\ sweep'.found = Raise(o, sweep.report)
  BY <1>2, <1>3 DEF Answer, SweepRecords
<1>7. ASSUME NEW p \in Profiles
      PROVE  /\ sweep'.found[p] # Nobody =>
                  owner[p] = sweep'.found[p] /\ sweep'.found[p] \in registry
             /\ Heard(owner[p])' /\ p \in missing[owner[p]] => sweep'.found[p] = owner[p]
  <2>1. CASE p \in sweep.report
    <3>1. sweep'.found[p] = o
      BY <1>5, <1>6, <2>1 DEF Raise
    <3> QED
      BY <1>3, <2>1, <3>1
  <2>2. CASE p \notin sweep.report
    <3>1. sweep'.found[p] = sweep.found[p]
      BY <1>6, <2>2 DEF Raise
    <3>2. owner[p] # o \/ p \notin missing[owner[p]]
      BY <1>3, <2>2
    <3>3. Heard(owner[p])' => Heard(owner[p]) \/ owner[p] = o
      BY <1>1, <1>3, <1>6 DEF Heard
    <3> QED
      BY <1>4, <3>1, <3>2, <3>3
  <2> QED
    BY <2>1, <2>2
<1>8. SweepFits'
  BY <1>1, <1>3, <1>6, <1>7 DEF SweepFits, SweepRests
<1>9. \A p \in Profiles : ProfileFits(p)'
  BY <1>1, ProfilesStillFit DEF SettledInv, ProfilesKept
<1>10. RetiredUnlisted'
  BY <1>1 DEF SettledInv, RetiredUnlisted
<1>11. NoticesFit'
  BY <1>1, <1>6 DEF SettledInv, NoticesFit
<1> QED
  BY <1>8, <1>9, <1>10, <1>11 DEF SettledInv

\* When every origin has been heard from, what was found and the orphans are all that is due.
LEMMA SweepEndsSettled ==
  ASSUME SettledInv, OriginSyncTypeOK', SweepEnds
  PROVE  SettledInv'
<1>1. UNCHANGED <<owner, known, decided, choice, retired, registry, published, missing, pools>>
      /\ deferred' = sweep.held /\ swept'
      /\ notices' = [p \in Profiles |-> IF p \in Orphans THEN known[p] ELSE sweep.found[p]]
  BY DEF SweepEnds, files
<1>2. /\ sweep.held \subseteq pools /\ sweep.listed = registry
      /\ \A o \in registry : Heard(o)
      /\ \A p \in Profiles :
           /\ sweep.found[p] # Nobody =>
                owner[p] = sweep.found[p] /\ sweep.found[p] \in registry
           /\ Heard(owner[p]) /\ p \in missing[owner[p]] => sweep.found[p] = owner[p]
  <2>1. ~SweepRests /\ sweep.pc = "next" /\ sweep.todo = {}
    BY DEF SweepEnds, SweepRests
  <2>2. registry \subseteq Origins
    BY DEF SettledInv, OriginSyncTypeOK
  <2> QED
    BY <2>1, <2>2, OriginSyncAssumption DEF SettledInv, SweepFits, Heard
<1>3. registry \subseteq Origins
  BY DEF SettledInv, OriginSyncTypeOK
<1>4. SweepFits' /\ sweep'.pc \in {"idle", "refresh"}
  <2>1. NoSweep = [NoSweep EXCEPT !.pc = "idle"]
    BY NothingTypes
  <2> QED
    BY <2>1, RestingFits DEF SweepEnds
<1>5. \A p \in Profiles : ProfileFits(p)'
  <2>1. retired' = retired
    BY DEF SweepEnds
  <2> QED
    BY <1>1, <2>1, ProfilesStillFit DEF SettledInv, ProfilesKept
<1>6. RetiredUnlisted'
  BY <1>1 DEF SettledInv, RetiredUnlisted
<1>7. ASSUME NEW p \in Profiles, notices'[p] # Nobody, choice[p] = "none"
      PROVE  owner[p] = notices'[p]
  <2>1. known[p] = owner[p]
    BY <1>7 DEF SettledInv, ProfileFits
  <2> QED
    BY <1>1, <1>2, <1>7, <2>1
<1>8. ASSUME NEW p \in Profiles, Due(p) PROVE notices'[p] = owner[p]
  <2>1. known[p] = owner[p] /\ p \notin decided
    BY <1>8 DEF SettledInv, ProfileFits, Due
  <2>2. CASE owner[p] \in registry
    <3>1. sweep.found[p] = owner[p]
      BY <1>2, <1>8, <2>2 DEF Due
    <3>2. p \notin Orphans
      BY <1>3, <2>2, <3>1, OriginSyncAssumption DEF Orphans
    <3> QED
      BY <1>1, <3>1, <3>2
  <2>3. CASE owner[p] \notin registry
    <3>1. sweep.found[p] = Nobody
      BY <1>2, <2>3
    <3>2. p \in Orphans
      BY <1>2, <1>8, <2>1, <2>3, <3>1 DEF Orphans, Due
    <3> QED
      BY <1>1, <2>1, <3>2
  <2> QED
    BY <2>2, <2>3
<1>9. NoticesFit'
  BY <1>1, <1>2, <1>4, <1>7, <1>8 DEF NoticesFit, Due
<1> QED
  BY <1>4, <1>5, <1>6, <1>9 DEF SettledInv

LEMMA RefreshedSettled ==
  ASSUME SettledInv, OriginSyncTypeOK', Refreshed
  PROVE  SettledInv'
<1>1. UNCHANGED <<owner, decided, choice, retired, registry, published, missing, pools,
                  notices, deferred, swept>>
      /\ known' = owner /\ sweep' = NoSweep /\ sweep.pc = "refresh"
  BY DEF Refreshed, files, store, past
<1>2. \A p \in Profiles : ProfileFits(p)'
  BY <1>1 DEF SettledInv, ProfileFits
<1>3. RetiredUnlisted'
  BY <1>1 DEF SettledInv, RetiredUnlisted
<1>4. SweepFits' /\ sweep'.pc = "idle"
  <2>1. NoSweep = [NoSweep EXCEPT !.pc = "idle"]
    BY NothingTypes
  <2> QED
    BY <1>1, <2>1, RestingFits
<1>5. NoticesFit'
  BY <1>1, <1>4 DEF SettledInv, NoticesFit, Due
<1> QED
  BY <1>2, <1>3, <1>4, <1>5 DEF SettledInv

\* The user decides between sweeps; the profile belongs to no origin any more.
LEMMA DecideSettled ==
  ASSUME SettledInv, OriginSyncTypeOK', Meanwhile = {},
         NEW p \in Profiles, Adopt(p) \/ Retire(p)
  PROVE  SettledInv'
<1>1. UNCHANGED <<registry, published, known, decided, notices, deferred, pools, swept,
                  missing, sweep>>
      /\ Idle /\ retired \subseteq retired'
  BY DEF Adopt, Retire, files, store, past, MayDo
<1>2. /\ \A q \in Profiles \ {p} : owner'[q] = owner[q] /\ choice'[q] = choice[q]
      /\ choice'[p] \in {"adopt", "retire"} /\ owner'[p] \in {Nobody, "gone"}
      /\ owner'[p] = "gone" => p \in retired'
  BY OriginSyncAssumption DEF SettledInv, OriginSyncTypeOK, Adopt, Retire
<1>3. \A q \in Profiles : ProfileFits(q)'
  BY <1>1, <1>2, OriginSyncAssumption DEF SettledInv, ProfileFits
<1>4. RetiredUnlisted'
  BY OriginSyncAssumption
  DEF SettledInv, RetiredUnlisted, Adopt, Retire, files, past
<1>5. SweepFits'
  BY <1>1, RestingStillFits DEF SettledInv, SweepRests, Idle
<1>6. NoticesFit'
  BY <1>1, <1>2 DEF SettledInv, NoticesFit, Due
<1> QED
  BY <1>3, <1>4, <1>5, <1>6 DEF SettledInv

\* The list is read again, and then the notice goes.
LEMMA FollowUpSettled ==
  ASSUME SettledInv, OriginSyncTypeOK', NEW p \in Profiles, Reread(p) \/ Decided(p)
  PROVE  SettledInv'
<1>1. UNCHANGED <<registry, published, owner, deferred, pools, swept, missing, sweep, retired>>
  BY DEF Reread, Decided, files, store, past
<1>2. \A q \in Profiles \ {p} : choice'[q] = choice[q] /\ notices'[q] = notices[q]
  BY DEF SettledInv, OriginSyncTypeOK, Reread, Decided, store
<1>3. owner[p] \notin Origins
  BY DEF SettledInv, ProfileFits, Reread, Decided
<1>4. choice'[p] # "none" \/ notices'[p] = Nobody
  BY DEF SettledInv, OriginSyncTypeOK, Reread, Decided
<1>5. \A q \in Profiles : ProfileFits(q)'
  <2>1. CASE Reread(p)
    BY <1>1, <1>2, <1>3, <2>1 DEF SettledInv, ProfileFits, Reread, store
  <2>2. CASE Decided(p)
    <3>1. known' = known /\ decided' = decided \cup {p} /\ known[p] = owner[p]
      BY <2>2 DEF SettledInv, ProfileFits, Decided
    <3> QED
      BY <1>1, <1>2, <1>3, <3>1 DEF SettledInv, ProfileFits
  <2> QED
    BY <2>1, <2>2
<1>6. RetiredUnlisted'
  BY <1>1 DEF SettledInv, RetiredUnlisted
<1>7. SweepFits'
  BY <1>1, SweepStillFits DEF SettledInv
<1>8. NoticesFit'
  BY <1>1, <1>2, <1>3, <1>4 DEF SettledInv, NoticesFit, Due
<1> QED
  BY <1>5, <1>6, <1>7, <1>8 DEF SettledInv

\* What a removed origin had imported is noticed at once.
LEMMA RemoveSettled ==
  ASSUME SettledInv, OriginSyncTypeOK', Meanwhile = {}, NEW o \in Origins, RemoveOrigin(o)
  PROVE  SettledInv'
<1>1. UNCHANGED <<owner, known, decided, choice, retired, published, deferred, pools, swept,
                  missing, sweep>>
      /\ registry' = registry \ {o} /\ Idle
      /\ notices' = [p \in Profiles |->
                       IF known[p] = o /\ p \notin decided THEN o ELSE notices[p]]
  BY DEF RemoveOrigin, files, past, MayDo
<1>2. \A p \in Profiles : ProfileFits(p)'
  BY <1>1, ProfilesStillFit DEF SettledInv, ProfilesKept
<1>3. RetiredUnlisted'
  BY <1>1 DEF SettledInv, RetiredUnlisted
<1>4. SweepFits'
  BY <1>1, RestingStillFits DEF SettledInv, SweepRests, Idle
<1>5. ASSUME NEW p \in Profiles, choice[p] = "none"
      PROVE  /\ notices'[p] # Nobody => owner[p] = notices'[p]
             /\ swept /\ Due(p)' => notices'[p] = owner[p]
  <2>1. known[p] = owner[p] /\ (owner[p] \in Origins => p \notin decided)
    BY <1>5 DEF SettledInv, ProfileFits
  <2>2. CASE owner[p] = o
    BY <1>1, <1>5, <2>1, <2>2
  <2>3. CASE owner[p] # o
    <3>1. notices'[p] = notices[p]
      BY <1>1, <2>1, <2>3
    <3>2. Due(p)' => Due(p)
      BY <1>1, <2>3 DEF Due
    <3> QED
      BY <1>1, <1>5, <3>1, <3>2 DEF SettledInv, NoticesFit, Idle
  <2> QED
    BY <2>2, <2>3
<1>6. NoticesFit'
  BY <1>1, <1>5 DEF SettledInv, NoticesFit, Due, Idle
<1> QED
  BY <1>2, <1>3, <1>4, <1>6 DEF SettledInv

LEMMA RestartSettled ==
  ASSUME SettledInv, OriginSyncTypeOK', RestartApp
  PROVE  SettledInv'
<1>1. UNCHANGED <<owner, registry, published, missing, retired>>
      /\ known' = owner /\ notices' = Nothing /\ decided' = {} /\ deferred' = {}
      /\ choice' = [p \in Profiles |-> "none"] /\ sweep' = NoSweep /\ ~swept'
  BY DEF RestartApp, files
<1>2. \A p \in Profiles : ProfileFits(p)'
  BY <1>1 DEF SettledInv, ProfileFits
<1>3. RetiredUnlisted'
  BY <1>1 DEF SettledInv, RetiredUnlisted
<1>4. SweepFits' /\ sweep'.pc = "idle"
  <2>1. NoSweep = [NoSweep EXCEPT !.pc = "idle"]
    BY NothingTypes
  <2> QED
    BY <1>1, <2>1, RestingFits
<1>5. NoticesFit'
  BY <1>1, <1>4 DEF NoticesFit, Nothing
<1> QED
  BY <1>2, <1>3, <1>4, <1>5 DEF SettledInv

LEMMA SettledInit == OriginSyncInit => SettledInv
<1> SUFFICES ASSUME OriginSyncInit PROVE SettledInv
  OBVIOUS
<1>1. sweep \in SweepRecords /\ sweep.pc = "idle" /\ sweep = [NoSweep EXCEPT !.pc = "idle"]
  BY NothingTypes DEF OriginSyncInit
<1>2. OriginSyncTypeOK
  <2>1. owner \in [Profiles -> Owners] /\ known \in [Profiles -> Owners]
    BY DEF OriginSyncInit, Opening, Owners
  <2>2. published \in [Origins -> SUBSET Profiles] /\ missing \in [Origins -> SUBSET Profiles]
    BY DEF OriginSyncInit
  <2>3. notices \in [Profiles -> Origins \cup {Nobody}] /\ swept \in BOOLEAN
        /\ choice \in [Profiles -> {"none", "adopt", "retire", "adopted", "retired"}]
    BY NothingTypes DEF OriginSyncInit, Opening
  <2>4. editions \in 0..MaxPublished /\ sweeps \in 0..MaxSweeps
    BY OriginSyncAssumption DEF OriginSyncInit
  <2> QED
    BY <1>1, <2>1, <2>2, <2>3, <2>4
    DEF OriginSyncInit, Opening, OriginSyncTypeOK, SweepRecords
<1>3. \A p \in Profiles : ProfileFits(p)
  BY OriginSyncAssumption DEF OriginSyncInit, Opening, ProfileFits
<1>4. RetiredUnlisted
  BY DEF OriginSyncInit, RetiredUnlisted
<1>5. SweepFits
  BY <1>1 DEF SweepFits, SweepRests
<1>6. NoticesFit
  BY <1>1 DEF OriginSyncInit, Opening, NoticesFit, Nothing
<1> QED
  BY <1>2, <1>3, <1>4, <1>5, <1>6 DEF SettledInv

LEMMA SettledStep ==
  ASSUME Meanwhile = {}, SettledInv, [OriginSyncNext]_originSyncVars
  PROVE  SettledInv'
<1>1. OriginSyncTypeOK'
  BY SyncTypesStep DEF SettledInv
<1>2. CASE UNCHANGED originSyncVars
  <2>1. UNCHANGED <<owner, known, decided, choice, retired, registry, published, notices,
                    deferred, pools, swept, missing, sweep>>
    BY <1>2 DEF originSyncVars, files, store, past
  <2>2. \A p \in Profiles : ProfileFits(p)'
    BY <2>1, ProfilesStillFit DEF SettledInv, ProfilesKept
  <2>3. SweepFits' /\ NoticesFit'
    BY <2>1, SweepStillFits, NoticesStillFit DEF SettledInv, NoticesKept
  <2>4. RetiredUnlisted'
    BY <2>1 DEF SettledInv, RetiredUnlisted
  <2> QED
    BY <1>1, <2>2, <2>3, <2>4 DEF SettledInv
<1>3. CASE OriginSyncNext
  BY <1>1, <1>3, OutsideSettled, BeginSettled, AskSettled, PullSettled, AnswerSettled,
     SweepEndsSettled, RefreshedSettled, DecideSettled, FollowUpSettled, RemoveSettled,
     RestartSettled
  DEF OriginSyncNext
<1> QED
  BY <1>2, <1>3

\* When the user decides, removes origins and opens and closes pools between sweeps, and no
\* file lists again what was retired here: between sweeps every connection its origin no
\* longer lists, or whose origin is gone, has its notice; every notice is about a connection
\* that still belongs to the origin it names and has not been decided about; and updates are
\* held back for open connections only.
THEOREM SweepsSettle ==
  ASSUME Meanwhile = {}
  PROVE  OriginSyncSpec => []SweepSettles
<1>1. SettledInv => SweepSettles
  <2> SUFFICES ASSUME SettledInv PROVE SweepSettles
    OBVIOUS
  <2>1. Idle => sweep.pc \in {"idle", "refresh"}
    BY DEF Idle
  <2>2. MissingNoticed
    BY <2>1 DEF SettledInv, NoticesFit, MissingNoticed, Due
  <2>3. NoticesDue
    <3> SUFFICES ASSUME NEW p \in Profiles, notices[p] # Nobody, choice[p] = "none"
                 PROVE  p \notin decided /\ owner[p] = notices[p]
      BY DEF NoticesDue
    <3>1. owner[p] = notices[p] /\ notices[p] \in Origins
      BY DEF SettledInv, NoticesFit, OriginSyncTypeOK
    <3> QED
      BY <3>1 DEF SettledInv, ProfileFits
  <2>4. HeldWhileOpen
    BY <2>1 DEF SettledInv, NoticesFit, HeldWhileOpen
  <2> QED
    BY <2>2, <2>3, <2>4 DEF SweepSettles
<1> QED
  BY <1>1, SettledInit, SettledStep, PTL DEF OriginSyncSpec

\* Owners, lists, notices and the sweep keep their form, whatever happens meanwhile.
THEOREM OriginSyncTyped == OriginSyncSpec => []OriginSyncTypeOK
<1>1. OriginSyncInit => OriginSyncTypeOK
  BY SettledInit DEF SettledInv
<1>2. OriginSyncTypeOK /\ [OriginSyncNext]_originSyncVars => OriginSyncTypeOK'
  BY SyncTypesStep
<1> QED
  BY <1>1, <1>2, PTL DEF OriginSyncSpec

HIDE OriginSyncAssumption

-----------------------------------------------------------------------------
(***************************************************************************)
(* TableTab.                                                               *)
(***************************************************************************)

USE TableTabAssumption

PageRequests == [q : Queries, at : 0..Unread]
CountRequests == [pred : Preds, after : Nat, at : 0..Unread]
WriteCalls == [kind : Kinds, q : Queries]

TabTypes ==
  /\ asked \in Queries
  /\ wire \in Seq(PageRequests) /\ inflight \in Queries \cup {NoQuery}
  /\ fetchPromise \in 0..Len(wire)
  /\ loading \in BOOLEAN /\ failed \in BOOLEAN
  /\ result = NoQuery \/ result \in [q : Queries, at : 0..MaxWrites]
  /\ countWire \in Seq(CountRequests) /\ countInflight \in Preds \cup {NoPred}
  /\ \A i \in DOMAIN countWire : countWire[i].after <= Len(wire)
  /\ total = NoTotal \/ total \in [pred : Preds, at : 0..MaxWrites]
  /\ tableVersion \in Nat /\ rowVersion \in 0..tableVersion
  /\ writes \in Seq(WriteCalls) /\ Len(writes) + tableVersion <= MaxWrites
  /\ editor \in Queries \cup {NoQuery}
  /\ draft \in {"none", "open", "saving", "refused"}
  /\ asks \in 0..MaxAsks

\* The page that was asked for last is the one on the toolbar, and so is the claimed one;
\* nothing is written while a page is asked for; and where nothing is asked for, the last
\* answer is on screen.
PageFits ==
  /\ wire # <<>> => wire[Len(wire)].q = asked
  /\ inflight # NoQuery => wire # <<>> /\ inflight = asked
  /\ \A i \in DOMAIN wire : wire[i].at \in {Unread, tableVersion}
  /\ wire = <<>> /\ ~failed => result = [q |-> asked, at |-> tableVersion]

\* The same of the total.
CountFits ==
  /\ countWire # <<>> => countWire[Len(countWire)].pred = asked.pred
  /\ countInflight # NoPred => countWire # <<>> /\ countInflight = asked.pred
  /\ \A i \in DOMAIN countWire : countWire[i].at \in {Unread, rowVersion}
  /\ countWire = <<>> /\ total # NoTotal => total = [pred |-> asked.pred, at |-> rowVersion]

\* The query does not change while a write, or an editor that will write, keeps it.
WritesFit ==
  /\ \A i \in DOMAIN writes : writes[i].q = asked
  /\ editor # NoQuery => editor = asked

TabInv == TabTypes /\ PageFits /\ CountFits /\ WritesFit

-----------------------------------------------------------------------------
(* Requests.                                                               *)

LEMMA Sentinels == NoQuery \notin Queries /\ NoPred \notin Preds
BY DEF NoQuery, Queries, NoPred

\* A page that is asked for is the last on the wire.
LEMMA Fetches ==
  ASSUME TabTypes, PageFits, NEW q \in Queries, Fetch(q), asked' = q, result' = result,
         tableVersion' = tableVersion \/ wire = <<>>
  PROVE  /\ wire' \in Seq(PageRequests) /\ Len(wire') \in Nat /\ Len(wire) <= Len(wire')
         /\ inflight' \in Queries \cup {NoQuery}
         /\ loading' \in BOOLEAN /\ failed' \in BOOLEAN
         /\ (IF inflight = q THEN 0 ELSE Len(wire) + 1) \in 0..Len(wire')
         /\ PageFits'
<1>0. Len(wire) \in Nat /\ DOMAIN wire = 1..Len(wire)
  BY LenProperties DEF TabTypes
<1>1. CASE inflight = q
  <2>1. UNCHANGED <<wire, inflight, loading, failed>>
    BY <1>1 DEF Fetch
  <2>2. wire # <<>> /\ q = asked
    BY <1>1, Sentinels DEF PageFits
  <2> QED
    BY <1>0, <1>1, <2>1, <2>2 DEF TabTypes, PageFits
<1>2. CASE inflight # q
  <2> DEFINE r == [q |-> q, at |-> Unread]
  <2>1. wire' = Append(wire, r) /\ inflight' = q /\ loading' = TRUE /\ failed' = FALSE
    BY <1>2 DEF Fetch
  <2>2. r \in PageRequests /\ wire \in Seq(PageRequests)
    BY DEF PageRequests, Unread, TabTypes
  <2>3. /\ wire' \in Seq(PageRequests) /\ Len(wire') = Len(wire) + 1
        /\ wire'[Len(wire')] = r
        /\ \A i \in 1..Len(wire) : wire'[i] = wire[i]
        /\ DOMAIN wire' = 1..Len(wire) + 1 /\ wire' # <<>>
    BY <2>1, <2>2, Appended
  <2>4. \A i \in DOMAIN wire' : wire'[i].at \in {Unread, tableVersion'}
    <3> SUFFICES ASSUME NEW i \in DOMAIN wire' PROVE wire'[i].at \in {Unread, tableVersion'}
      OBVIOUS
    <3>1. CASE i = Len(wire) + 1
      BY <2>3, <3>1
    <3>2. CASE i \in 1..Len(wire)
      <4>1. wire # <<>>
        BY <3>2, EmptySeq
      <4> QED
        BY <1>0, <2>3, <3>2, <4>1 DEF PageFits
    <3> QED
      BY <1>0, <2>3, <3>1, <3>2
  <2>5. PageFits'
    BY <1>2, <2>1, <2>3, <2>4 DEF PageFits
  <2>6. /\ Len(wire') \in Nat /\ Len(wire) <= Len(wire')
        /\ (IF inflight = q THEN 0 ELSE Len(wire) + 1) \in 0..Len(wire')
    BY <1>0, <1>2, <2>3
  <2> QED
    BY <2>1, <2>3, <2>5, <2>6
<1> QED
  BY <1>1, <1>2

\* So is a total.
LEMMA Counts ==
  ASSUME TabTypes, CountFits, NEW p \in Preds, Count(p), asked'.pred = p,
         fetchPromise' \in Nat, fetchPromise' <= Len(wire'), Len(wire') \in Nat,
         Len(wire) <= Len(wire'),
         rowVersion' = rowVersion \/ countWire = <<>>
  PROVE  /\ countWire' \in Seq(CountRequests)
         /\ countInflight' \in Preds \cup {NoPred}
         /\ \A i \in DOMAIN countWire' : countWire'[i].after <= Len(wire')
         /\ total' = NoTotal \/ total' \in [pred : Preds, at : 0..MaxWrites]
         /\ CountFits'
<1>0. /\ Len(countWire) \in Nat /\ DOMAIN countWire = 1..Len(countWire)
      /\ \A i \in DOMAIN countWire : countWire[i].after \in Nat
      /\ Len(wire) \in Nat
  <2>1. countWire \in Seq(CountRequests) /\ wire \in Seq(PageRequests)
    BY DEF TabTypes
  <2>2. \A i \in DOMAIN countWire : countWire[i] \in CountRequests
    BY <2>1, LenProperties, ElementOfSeq
  <2> QED
    BY <2>1, <2>2, LenProperties DEF CountRequests
<1>1. CASE countInflight = p
  <2>1. UNCHANGED <<countWire, countInflight, total>>
    BY <1>1 DEF Count
  <2>2. countWire # <<>> /\ p = asked.pred
    BY <1>1, Sentinels DEF CountFits
  <2>3. \A i \in DOMAIN countWire : countWire[i].after <= Len(wire')
    BY <1>0 DEF TabTypes
  <2> QED
    BY <1>0, <1>1, <2>1, <2>2, <2>3 DEF TabTypes, CountFits
<1>2. CASE countInflight # p
  <2> DEFINE r == [pred |-> p, after |-> fetchPromise', at |-> Unread]
  <2>1. countWire' = Append(countWire, r) /\ countInflight' = p /\ total' = NoTotal
    BY <1>2 DEF Count
  <2>2. r \in CountRequests
    BY DEF CountRequests, Unread
  <2>7. countWire \in Seq(CountRequests)
    BY DEF TabTypes
  <2>3. /\ countWire' \in Seq(CountRequests) /\ Len(countWire') = Len(countWire) + 1
        /\ countWire'[Len(countWire')] = r
        /\ \A i \in 1..Len(countWire) : countWire'[i] = countWire[i]
        /\ DOMAIN countWire' = 1..Len(countWire) + 1 /\ countWire' # <<>>
    BY <2>1, <2>2, <2>7, Appended
  <2>4. ASSUME NEW i \in DOMAIN countWire'
        PROVE  countWire'[i].at \in {Unread, rowVersion'} /\ countWire'[i].after <= Len(wire')
    <3>1. CASE i = Len(countWire) + 1
      BY <2>3, <3>1
    <3>2. CASE i \in 1..Len(countWire)
      <4>1. countWire # <<>>
        BY <3>2, EmptySeq
      <4>2. countWire[i].after <= Len(wire)
        BY <1>0, <3>2 DEF TabTypes
      <4> QED
        BY <1>0, <2>3, <3>2, <4>1, <4>2 DEF CountFits
    <3> QED
      BY <1>0, <2>3, <2>4, <3>1, <3>2
  <2>5. r.pred = p
    OBVIOUS
  <2>6. CountFits'
    BY <1>2, <2>1, <2>3, <2>4, <2>5 DEF CountFits
  <2> QED
    BY <2>1, <2>3, <2>4, <2>6
<1> QED
  BY <1>1, <1>2

-----------------------------------------------------------------------------
(* Answers, when they come in order.                                       *)

\* A request that ends makes those behind it move up, on the wire and where totals wait for
\* them.
LEMMA MovesUp ==
  ASSUME TabTypes, CountFits, 1 \in DOMAIN wire, FetchSettles(1)
  PROVE  /\ wire' = Less(wire, 1)
         /\ wire' \in Seq(PageRequests) /\ fetchPromise' \in 0..Len(wire')
         /\ countWire' \in Seq(CountRequests)
         /\ \A j \in DOMAIN countWire' : countWire'[j].after <= Len(wire')
         /\ CountFits'
<1>1. wire' = Less(wire, 1)
  BY DEF FetchSettles, Queues!RemoveAt, Less
<1>2. /\ wire' \in Seq(PageRequests) /\ Len(wire') = Len(wire) - 1 /\ Len(wire) \in Nat \ {0}
  <2>1. wire \in Seq(PageRequests)
    BY DEF TabTypes
  <2> QED
    BY <1>1, <2>1, FirstLeaves
<1>3. \A k \in Nat : k <= Len(wire) => StillAt(k, 1) \in 0..Len(wire')
  BY <1>2 DEF StillAt
<1>4. fetchPromise' \in 0..Len(wire')
  <2>1. fetchPromise' = StillAt(fetchPromise, 1)
    BY DEF FetchSettles
  <2>2. fetchPromise \in Nat /\ fetchPromise <= Len(wire)
    BY <1>2 DEF TabTypes
  <2> QED
    BY <1>3, <2>1, <2>2
<1>5. /\ countWire \in Seq(CountRequests) /\ Len(countWire) \in Nat
      /\ DOMAIN countWire = 1..Len(countWire)
      /\ \A j \in 1..Len(countWire) :
           countWire[j] \in CountRequests /\ countWire[j].after \in Nat
  <2>1. countWire \in Seq(CountRequests)
    BY DEF TabTypes
  <2>2. \A j \in 1..Len(countWire) : countWire[j] \in CountRequests
    BY <2>1, ElementOfSeq
  <2> QED
    BY <2>1, <2>2, LenProperties DEF CountRequests
<1>6. ASSUME NEW j \in 1..Len(countWire)
      PROVE  /\ countWire'[j] = [countWire[j] EXCEPT !.after = StillAt(@, 1)]
             /\ countWire'[j] \in CountRequests /\ countWire'[j].after <= Len(wire')
             /\ countWire'[j].pred = countWire[j].pred /\ countWire'[j].at = countWire[j].at
  <2>1. countWire'[j] = [countWire[j] EXCEPT !.after = StillAt(@, 1)]
    BY DEF FetchSettles
  <2>2. countWire[j].after <= Len(wire)
    BY <1>5 DEF TabTypes
  <2>3. StillAt(countWire[j].after, 1) \in 0..Len(wire')
    BY <1>3, <1>5, <2>2
  <2>4. countWire[j] \in CountRequests
    BY <1>5
  <2> QED
    BY <1>2, <2>1, <2>3, <2>4 DEF CountRequests
<1>7. countWire' \in [1..Len(countWire) -> CountRequests]
  <2>1. countWire' = [j \in 1..Len(countWire) |-> countWire'[j]]
    BY DEF FetchSettles
  <2> QED
    BY <1>6, <2>1
<1>8. /\ countWire' \in Seq(CountRequests) /\ Len(countWire') = Len(countWire)
      /\ DOMAIN countWire' = 1..Len(countWire) /\ (countWire' = <<>> <=> countWire = <<>>)
  BY <1>5, <1>7, Replaced
<1>9. CountFits'
  <2>1. UNCHANGED <<asked, countInflight, total, rowVersion>>
    BY DEF FetchSettles, table
  <2>2. countWire # <<>> => Len(countWire) \in 1..Len(countWire)
    BY <1>5, EmptySeq
  <2> QED
    BY <1>5, <1>6, <1>8, <2>1, <2>2 DEF CountFits
<1> QED
  BY <1>1, <1>2, <1>4, <1>6, <1>8, <1>9

\* The last request that ends is the one whose answer stays on screen.
LEMMA PageArrives ==
  ASSUME TabInv, 1 \in DOMAIN wire, FetchAnswered(1) \/ FetchFails(1)
  PROVE  TabInv'
<1>0. TabTypes /\ PageFits /\ CountFits /\ WritesFit /\ FetchSettles(1)
  BY DEF TabInv, FetchAnswered, FetchFails
<1>1. /\ wire' = Less(wire, 1)
      /\ wire' \in Seq(PageRequests) /\ fetchPromise' \in 0..Len(wire')
      /\ countWire' \in Seq(CountRequests)
      /\ \A j \in DOMAIN countWire' : countWire'[j].after <= Len(wire')
      /\ CountFits'
  BY <1>0, MovesUp
<1>2. /\ UNCHANGED <<asked, countInflight, total, tableVersion, rowVersion, writes, editor, draft,
                     asks>>
      /\ loading' = FALSE
      /\ inflight' = IF inflight = wire[1].q THEN NoQuery ELSE inflight
  BY <1>0 DEF FetchSettles, table
<1>3. /\ Len(wire) \in Nat \ {0} /\ DOMAIN wire = 1..Len(wire)
      /\ DOMAIN wire' = 1..Len(wire) - 1
      /\ \A j \in DOMAIN wire' : j + 1 \in DOMAIN wire /\ wire'[j] = wire[j + 1]
      /\ wire' = <<>> => Len(wire) = 1
      /\ wire' # <<>> => wire'[Len(wire')] = wire[Len(wire)]
      /\ wire # <<>> /\ wire[1] \in PageRequests
  <2>1. wire \in Seq(PageRequests)
    BY <1>0 DEF TabTypes
  <2>2. wire # <<>> /\ wire[1] \in PageRequests
    BY <2>1, LenProperties, ElementOfSeq, EmptySeq
  <2> QED
    BY <1>1, <2>1, <2>2, FirstLeaves
<1>4. /\ wire[1].q \in Queries
      /\ wire[1].at # Unread => wire[1] = [q |-> wire[1].q, at |-> tableVersion]
  BY <1>0, <1>3 DEF PageRequests, PageFits
<1>5. PageFits'
  <2>1. wire' # <<>> => wire'[Len(wire')].q = asked'
    BY <1>0, <1>2, <1>3 DEF PageFits
  <2>2. inflight' # NoQuery => wire' # <<>> /\ inflight' = asked'
    <3> SUFFICES ASSUME inflight' # NoQuery PROVE wire' # <<>> /\ inflight' = asked'
      OBVIOUS
    <3>1. inflight' = inflight /\ inflight # wire[1].q
      BY <1>2
    <3>2. inflight = asked /\ wire[Len(wire)].q = asked
      BY <1>0, <1>3, <3>1 DEF PageFits
    <3>3. Len(wire) # 1
      BY <3>1, <3>2
    <3> QED
      BY <1>2, <1>3, <3>1, <3>2, <3>3
  <2>3. \A j \in DOMAIN wire' : wire'[j].at \in {Unread, tableVersion'}
    BY <1>0, <1>2, <1>3 DEF PageFits
  <2>4. wire' = <<>> /\ ~failed' => result' = [q |-> asked', at |-> tableVersion']
    <3> SUFFICES ASSUME wire' = <<>>, ~failed'
                 PROVE  result' = [q |-> asked', at |-> tableVersion']
      OBVIOUS
    <3>1. wire[1].q = asked
      BY <1>0, <1>3 DEF PageFits
    <3>2. result' = wire[1] /\ wire[1].at # Unread
      BY <1>0 DEF TabInv, FetchAnswered, FetchFails
    <3> QED
      BY <1>2, <1>4, <3>1, <3>2
  <2> QED
    BY <2>1, <2>2, <2>3, <2>4 DEF PageFits
<1>6. /\ result' = NoQuery \/ result' \in [q : Queries, at : 0..MaxWrites]
      /\ inflight' \in Queries \cup {NoQuery} /\ failed' \in BOOLEAN
  <2>1. CASE FetchAnswered(1)
    <3>1. result' = wire[1] /\ wire[1].at # Unread /\ failed' = failed
      BY <2>1 DEF FetchAnswered
    <3>2. wire[1].at \in 0..MaxWrites
      BY <1>3, <3>1 DEF PageRequests, Unread
    <3>3. wire[1] \in [q : Queries, at : 0..MaxWrites]
      BY <1>3, <3>2 DEF PageRequests
    <3> QED
      BY <1>0, <1>2, <3>1, <3>3 DEF TabTypes
  <2>2. CASE FetchFails(1)
    <3>1. result' = result /\ failed' = TRUE
      BY <2>2 DEF FetchFails
    <3> QED
      BY <1>0, <1>2, <3>1 DEF TabTypes
  <2> QED
    BY <2>1, <2>2
<1>7. TabTypes'
  BY <1>0, <1>1, <1>2, <1>6 DEF TabTypes
<1>8. WritesFit'
  BY <1>0, <1>2 DEF WritesFit
<1> QED
  BY <1>1, <1>5, <1>7, <1>8 DEF TabInv

\* The same of a total; one that fails leaves none on screen.
LEMMA TotalArrives ==
  ASSUME Overlaps = {}, TabInv, 1 \in DOMAIN countWire, CountAnswered(1) \/ CountFails(1)
  PROVE  TabInv'
<1>0. TabTypes /\ PageFits /\ CountFits /\ WritesFit /\ CountSettles(1)
  BY DEF TabInv, CountAnswered, CountFails
<1>1. countWire' = Less(countWire, 1)
  BY <1>0 DEF CountSettles, Queues!RemoveAt, Less
<1>2. /\ UNCHANGED <<asked, wire, inflight, fetchPromise, loading, failed, result, tableVersion,
                     rowVersion, writes, editor, draft, asks>>
      /\ countInflight' = IF countInflight = countWire[1].pred THEN NoPred ELSE countInflight
  BY <1>0 DEF CountSettles, table, paging
<1>3. /\ countWire' \in Seq(CountRequests)
      /\ Len(countWire) \in Nat \ {0} /\ DOMAIN countWire = 1..Len(countWire)
      /\ DOMAIN countWire' = 1..Len(countWire) - 1
      /\ \A j \in DOMAIN countWire' :
           j + 1 \in DOMAIN countWire /\ countWire'[j] = countWire[j + 1]
      /\ countWire' = <<>> => Len(countWire) = 1
      /\ countWire' # <<>> => countWire'[Len(countWire')] = countWire[Len(countWire)]
      /\ countWire # <<>> /\ countWire[1] \in CountRequests
  <2>1. countWire \in Seq(CountRequests)
    BY <1>0 DEF TabTypes
  <2>2. countWire # <<>> /\ countWire[1] \in CountRequests
    BY <2>1, LenProperties, ElementOfSeq, EmptySeq
  <2> QED
    BY <1>1, <2>1, <2>2, FirstLeaves
<1>4. CountFits'
  <2>1. countWire' # <<>> => countWire'[Len(countWire')].pred = asked'.pred
    BY <1>0, <1>2, <1>3 DEF CountFits
  <2>2. countInflight' # NoPred => countWire' # <<>> /\ countInflight' = asked'.pred
    <3> SUFFICES ASSUME countInflight' # NoPred
                 PROVE  countWire' # <<>> /\ countInflight' = asked'.pred
      OBVIOUS
    <3>1. countInflight' = countInflight /\ countInflight # countWire[1].pred
      BY <1>2
    <3>2. countInflight = asked.pred /\ countWire[Len(countWire)].pred = asked.pred
      BY <1>0, <1>3, <3>1 DEF CountFits
    <3>3. Len(countWire) # 1
      BY <3>1, <3>2
    <3> QED
      BY <1>2, <1>3, <3>1, <3>2, <3>3
  <2>3. \A j \in DOMAIN countWire' : countWire'[j].at \in {Unread, rowVersion'}
    BY <1>0, <1>2, <1>3 DEF CountFits
  <2>4. countWire' = <<>> /\ total' # NoTotal =>
          total' = [pred |-> asked'.pred, at |-> rowVersion']
    <3> SUFFICES ASSUME countWire' = <<>>, total' # NoTotal
                 PROVE  total' = [pred |-> asked'.pred, at |-> rowVersion']
      OBVIOUS
    <3>1. CountAnswered(1)
      BY DEF CountFails
    <3>2. countWire[1].pred = asked.pred
      BY <1>0, <1>3 DEF CountFits
    <3>3. countWire[1].at = rowVersion
      BY <1>0, <1>3, <3>1 DEF CountFits, CountAnswered
    <3> QED
      BY <1>2, <3>1, <3>2, <3>3 DEF CountAnswered
  <2> QED
    BY <2>1, <2>2, <2>3, <2>4 DEF CountFits
<1>5. total' = NoTotal \/ total' \in [pred : Preds, at : 0..MaxWrites]
  <2>1. CASE CountAnswered(1)
    BY <1>3, <2>1 DEF CountAnswered, CountRequests, Unread
  <2>2. CASE CountFails(1)
    BY <1>0, <2>2 DEF CountFails, TabTypes
  <2> QED
    BY <2>1, <2>2
<1>6. \A j \in DOMAIN countWire' : countWire'[j].after <= Len(wire')
  BY <1>0, <1>2, <1>3 DEF TabTypes
<1>7. TabTypes'
  BY <1>0, <1>2, <1>3, <1>5, <1>6 DEF TabTypes
<1>8. PageFits' /\ WritesFit'
  BY <1>0, <1>2 DEF PageFits, WritesFit
<1> QED
  BY <1>4, <1>7, <1>8 DEF TabInv

-----------------------------------------------------------------------------
(* What the server reads.                                                  *)

LEMMA PageIsRead ==
  ASSUME TabInv, NEW i \in DOMAIN wire, FetchRead(i)
  PROVE  TabInv'
<1>0. TabTypes /\ PageFits /\ CountFits /\ WritesFit
  BY DEF TabInv
<1>1. /\ wire' = [wire EXCEPT ![i].at = tableVersion]
      /\ UNCHANGED <<asked, inflight, fetchPromise, loading, failed, result, countWire,
                     countInflight, total, tableVersion, rowVersion, writes, editor, draft, asks>>
  BY DEF FetchRead, counting, table
<1>2. /\ wire \in Seq(PageRequests) /\ Len(wire) \in Nat /\ DOMAIN wire = 1..Len(wire)
      /\ \A j \in DOMAIN wire : wire[j] \in PageRequests
  <2>1. wire \in Seq(PageRequests)
    BY <1>0 DEF TabTypes
  <2> QED
    BY <2>1, LenProperties, ElementOfSeq
<1>3. tableVersion \in 0..Unread
  <2>1. Len(writes) \in Nat
    BY <1>0, LenProperties DEF TabTypes
  <2> QED
    BY <1>0, <2>1 DEF TabTypes, Unread
<1>4. \A j \in DOMAIN wire :
        /\ wire'[j] \in PageRequests /\ wire'[j].q = wire[j].q
        /\ wire'[j].at \in {wire[j].at, tableVersion}
  BY <1>1, <1>2, <1>3 DEF PageRequests
<1>5. wire' \in [1..Len(wire) -> PageRequests]
  BY <1>1, <1>2, <1>4
<1>6. /\ wire' \in Seq(PageRequests) /\ Len(wire') = Len(wire)
      /\ DOMAIN wire' = 1..Len(wire) /\ (wire' = <<>> <=> wire = <<>>)
  BY <1>2, <1>5, Replaced
<1>7. TabTypes'
  BY <1>0, <1>1, <1>6 DEF TabTypes
<1>8. PageFits'
  <2>1. wire # <<>> => Len(wire) \in DOMAIN wire
    BY <1>2, EmptySeq
  <2> QED
    BY <1>0, <1>1, <1>2, <1>4, <1>6, <2>1 DEF PageFits
<1>9. CountFits' /\ WritesFit'
  BY <1>0, <1>1 DEF CountFits, WritesFit
<1> QED
  BY <1>7, <1>8, <1>9 DEF TabInv

LEMMA TotalIsRead ==
  ASSUME TabInv, NEW i \in DOMAIN countWire, CountRead(i)
  PROVE  TabInv'
<1>0. TabTypes /\ PageFits /\ CountFits /\ WritesFit
  BY DEF TabInv
<1>1. /\ countWire' = [countWire EXCEPT ![i].at = rowVersion]
      /\ UNCHANGED <<asked, wire, inflight, fetchPromise, loading, failed, result,
                     countInflight, total, tableVersion, rowVersion, writes, editor, draft, asks>>
  BY DEF CountRead, paging, table
<1>2. /\ countWire \in Seq(CountRequests) /\ Len(countWire) \in Nat
      /\ DOMAIN countWire = 1..Len(countWire)
      /\ \A j \in DOMAIN countWire : countWire[j] \in CountRequests
  <2>1. countWire \in Seq(CountRequests)
    BY <1>0 DEF TabTypes
  <2> QED
    BY <2>1, LenProperties, ElementOfSeq
<1>3. rowVersion \in 0..Unread
  <2>1. Len(writes) \in Nat
    BY <1>0, LenProperties DEF TabTypes
  <2> QED
    BY <1>0, <2>1 DEF TabTypes, Unread
<1>4. \A j \in DOMAIN countWire :
        /\ countWire'[j] \in CountRequests /\ countWire'[j].pred = countWire[j].pred
        /\ countWire'[j].after = countWire[j].after
        /\ countWire'[j].at \in {countWire[j].at, rowVersion}
  BY <1>1, <1>2, <1>3 DEF CountRequests
<1>5. countWire' \in [1..Len(countWire) -> CountRequests]
  BY <1>1, <1>2, <1>4
<1>6. /\ countWire' \in Seq(CountRequests) /\ Len(countWire') = Len(countWire)
      /\ DOMAIN countWire' = 1..Len(countWire) /\ (countWire' = <<>> <=> countWire = <<>>)
  BY <1>2, <1>5, Replaced
<1>7. TabTypes'
  <2>1. \A j \in DOMAIN countWire' : countWire'[j].after <= Len(wire')
    BY <1>0, <1>1, <1>2, <1>4, <1>6 DEF TabTypes
  <2> QED
    BY <1>0, <1>1, <1>6, <2>1 DEF TabTypes
<1>8. CountFits'
  <2>1. countWire # <<>> => Len(countWire) \in DOMAIN countWire
    BY <1>2, EmptySeq
  <2> QED
    BY <1>0, <1>1, <1>2, <1>4, <1>6, <2>1 DEF CountFits
<1>9. PageFits' /\ WritesFit'
  BY <1>0, <1>1 DEF PageFits, WritesFit
<1> QED
  BY <1>7, <1>8, <1>9 DEF TabInv

-----------------------------------------------------------------------------
(* The query.                                                              *)

\* The page and the total are asked for together, or the total is not concerned.
LEMMA Asks ==
  ASSUME TabTypes, PageFits, CountFits, NEW q \in Queries, asked' = q, result' = result,
         Fetch(q), Stash(q),
         tableVersion' = tableVersion \/ wire = <<>>, rowVersion' = rowVersion \/ countWire = <<>>,
         \/ Count(q.pred)
         \/ q.pred = asked.pred /\ UNCHANGED <<countWire, countInflight, total, rowVersion>>
  PROVE  /\ wire' \in Seq(PageRequests) /\ inflight' \in Queries \cup {NoQuery}
         /\ fetchPromise' \in 0..Len(wire')
         /\ loading' \in BOOLEAN /\ failed' \in BOOLEAN
         /\ countWire' \in Seq(CountRequests) /\ countInflight' \in Preds \cup {NoPred}
         /\ \A i \in DOMAIN countWire' : countWire'[i].after <= Len(wire')
         /\ total' = NoTotal \/ total' \in [pred : Preds, at : 0..MaxWrites]
         /\ PageFits' /\ CountFits'
<1>1. /\ wire' \in Seq(PageRequests) /\ Len(wire') \in Nat /\ Len(wire) <= Len(wire')
      /\ inflight' \in Queries \cup {NoQuery}
      /\ loading' \in BOOLEAN /\ failed' \in BOOLEAN
      /\ (IF inflight = q THEN 0 ELSE Len(wire) + 1) \in 0..Len(wire')
      /\ PageFits'
  BY Fetches
<1>2. fetchPromise' \in Nat /\ fetchPromise' <= Len(wire')
  BY <1>1 DEF Stash
<1>3. CASE Count(q.pred)
  <2>1. q.pred \in Preds
    BY DEF Queries
  <2> HIDE DEF Count
  <2>2. /\ countWire' \in Seq(CountRequests)
        /\ countInflight' \in Preds \cup {NoPred}
        /\ \A i \in DOMAIN countWire' : countWire'[i].after <= Len(wire')
        /\ total' = NoTotal \/ total' \in [pred : Preds, at : 0..MaxWrites]
        /\ CountFits'
    BY <1>1, <1>2, <1>3, <2>1, Counts
  <2> QED
    BY <1>1, <1>2, <2>2
<1>4. CASE /\ q.pred = asked.pred
           /\ UNCHANGED <<countWire, countInflight, total, rowVersion>>
  <2>1. \A i \in DOMAIN countWire : countWire[i].after \in Nat
    <3>1. countWire \in Seq(CountRequests)
      BY DEF TabTypes
    <3>2. \A i \in DOMAIN countWire : countWire[i] \in CountRequests
      BY <3>1, LenProperties, ElementOfSeq
    <3> QED
      BY <3>2 DEF CountRequests
  <2>2. Len(wire) \in Nat
    BY LenProperties DEF TabTypes
  <2>3. \A i \in DOMAIN countWire' : countWire'[i].after <= Len(wire')
    BY <1>1, <1>4, <2>1, <2>2 DEF TabTypes
  <2>4. CountFits'
    BY <1>4 DEF CountFits
  <2> QED
    BY <1>1, <1>2, <1>4, <2>3, <2>4 DEF TabTypes
<1> QED
  BY <1>3, <1>4

LEMMA QueryChanges ==
  ASSUME Overlaps = {}, TabInv, NEW q \in Queries, AskFor(q)
  PROVE  TabInv'
<1>0. TabTypes /\ PageFits /\ CountFits /\ WritesFit
  BY DEF TabInv
<1>1. /\ writes = <<>> /\ editor = NoQuery /\ asks' \in 0..MaxAsks /\ asked' = q
      /\ UNCHANGED <<result, tableVersion, rowVersion, writes, editor, draft>>
  BY <1>0 DEF AskFor, MayAsk, table, TabTypes
<1>2. Fetch(q) /\ Stash(q)
  BY DEF AskFor, Effects
<1>3. \/ Count(q.pred)
      \/ q.pred = asked.pred /\ UNCHANGED <<countWire, countInflight, total, rowVersion>>
  BY <1>1 DEF AskFor, Effects, counting
<1>4. /\ wire' \in Seq(PageRequests) /\ inflight' \in Queries \cup {NoQuery}
      /\ fetchPromise' \in 0..Len(wire')
      /\ loading' \in BOOLEAN /\ failed' \in BOOLEAN
      /\ countWire' \in Seq(CountRequests) /\ countInflight' \in Preds \cup {NoPred}
      /\ \A i \in DOMAIN countWire' : countWire'[i].after <= Len(wire')
      /\ total' = NoTotal \/ total' \in [pred : Preds, at : 0..MaxWrites]
      /\ PageFits' /\ CountFits'
  BY <1>0, <1>1, <1>2, <1>3, Asks
<1>5. TabTypes'
  BY <1>0, <1>1, <1>4 DEF TabTypes
<1>6. WritesFit'
  BY <1>1 DEF WritesFit
<1> QED
  BY <1>4, <1>5, <1>6 DEF TabInv

LEMMA Refreshes ==
  ASSUME TabInv, Refresh
  PROVE  TabInv'
<1>0. TabTypes /\ PageFits /\ CountFits /\ WritesFit
  BY DEF TabInv
<1>1. /\ UNCHANGED <<asked, result, tableVersion, rowVersion, writes, editor, draft, asks>>
      /\ Fetch(asked) /\ Stash(asked) /\ Count(asked.pred) /\ asked \in Queries
  BY <1>0 DEF Refresh, ReloadAll, table, TabTypes
<1>2. /\ wire' \in Seq(PageRequests) /\ inflight' \in Queries \cup {NoQuery}
      /\ fetchPromise' \in 0..Len(wire')
      /\ loading' \in BOOLEAN /\ failed' \in BOOLEAN
      /\ countWire' \in Seq(CountRequests) /\ countInflight' \in Preds \cup {NoPred}
      /\ \A i \in DOMAIN countWire' : countWire'[i].after <= Len(wire')
      /\ total' = NoTotal \/ total' \in [pred : Preds, at : 0..MaxWrites]
      /\ PageFits' /\ CountFits'
  BY <1>0, <1>1, Asks
<1>3. TabTypes'
  BY <1>0, <1>1, <1>2 DEF TabTypes
<1>4. WritesFit'
  BY <1>0, <1>1 DEF WritesFit
<1> QED
  BY <1>2, <1>3, <1>4 DEF TabInv

-----------------------------------------------------------------------------
(* Writes.                                                                 *)

\* What neither asks nor answers leaves pages and totals as they are.
LEMMA ScreenKept ==
  ASSUME TabInv, writes' \in Seq(WriteCalls), Len(writes') + tableVersion <= MaxWrites,
         UNCHANGED <<asked, paging, result, counting, total, table, asks>>,
         editor' \in Queries \cup {NoQuery}, draft' \in {"none", "open", "saving", "refused"},
         WritesFit'
  PROVE  TabInv'
<1>0. TabTypes /\ PageFits /\ CountFits
  BY DEF TabInv
<1>1. UNCHANGED <<asked, wire, inflight, fetchPromise, loading, failed, result, countWire,
                  countInflight, total, tableVersion, rowVersion, asks>>
  BY DEF paging, counting, table
<1>2. TabTypes'
  BY <1>0, <1>1 DEF TabTypes
<1>3. PageFits' /\ CountFits'
  BY <1>0, <1>1 DEF PageFits, CountFits
<1> QED
  BY <1>2, <1>3 DEF TabInv

LEMMA WriteStarts ==
  ASSUME TabInv, NEW kind \in Kinds, MayWrite, StartWrite(kind, asked), UNCHANGED <<asked, editor>>
  PROVE  /\ writes' \in Seq(WriteCalls) /\ Len(writes') + tableVersion <= MaxWrites /\ WritesFit'
<1> DEFINE w == [kind |-> kind, q |-> asked]
<1>0. TabTypes /\ WritesFit
  BY DEF TabInv
<1>1. w \in WriteCalls /\ w.q = asked
  BY <1>0 DEF WriteCalls, TabTypes
<1>2. writes' = Append(writes, w)
  BY DEF StartWrite
<1>3. writes \in Seq(WriteCalls) /\ Len(writes) \in Nat /\ DOMAIN writes = 1..Len(writes)
  BY <1>0, LenProperties DEF TabTypes
<1> HIDE DEF w
<1>4. /\ writes' \in Seq(WriteCalls) /\ Len(writes') = Len(writes) + 1
      /\ writes'[Len(writes')] = w
      /\ \A j \in 1..Len(writes) : writes'[j] = writes[j]
      /\ DOMAIN writes' = 1..Len(writes) + 1
  BY <1>1, <1>2, <1>3, Appended
<1>5. Len(writes') + tableVersion <= MaxWrites
  BY <1>0, <1>3, <1>4 DEF MayWrite, TabTypes
<1>6. \A j \in DOMAIN writes' : writes'[j].q = asked
  <2>1. \A j \in DOMAIN writes' : j \in 1..Len(writes) \/ j = Len(writes')
    BY <1>3, <1>4
  <2> QED
    BY <1>0, <1>1, <1>3, <1>4, <2>1 DEF WritesFit
<1>7. WritesFit'
  BY <1>0, <1>6 DEF WritesFit
<1> QED
  BY <1>4, <1>5, <1>7

LEMMA WriteEnds ==
  ASSUME TabInv, NEW i \in DOMAIN writes, writes' = Queues!RemoveAt(writes, i),
         UNCHANGED <<asked, editor>>
  PROVE  /\ writes' \in Seq(WriteCalls) /\ Len(writes') = Len(writes) - 1 /\ Len(writes) \in Nat
         /\ WritesFit' /\ writes[i] \in WriteCalls /\ writes[i].q = asked
<1>1. writes' = Less(writes, i)
  BY DEF Queues!RemoveAt, Less
<1>2. writes \in Seq(WriteCalls) /\ WritesFit
  BY DEF TabInv, TabTypes
<1>3. /\ writes' \in Seq(WriteCalls) /\ Len(writes') = Len(writes) - 1 /\ Len(writes) \in Nat \ {0}
      /\ \A j \in DOMAIN writes' : \E k \in DOMAIN writes : k # i /\ writes'[j] = writes[k]
  BY <1>1, <1>2, SameOthers
<1>4. writes[i] \in WriteCalls
  BY <1>2, LenProperties, ElementOfSeq
<1>5. WritesFit'
  BY <1>2, <1>3 DEF WritesFit
<1> QED
  BY <1>2, <1>3, <1>4, <1>5 DEF WritesFit

LEMMA WriteApplied ==
  ASSUME Overlaps = {}, TabInv, NEW i \in DOMAIN writes, WriteDone(i)
  PROVE  TabInv'
<1> DEFINE w == writes[i]
<1>0. TabTypes /\ PageFits /\ CountFits /\ WritesFit
  BY DEF TabInv
<1>1. /\ wire = <<>> /\ countWire = <<>> /\ tableVersion' = tableVersion + 1
      /\ writes' = Queues!RemoveAt(writes, i)
      /\ draft' \in {"none", draft} /\ UNCHANGED <<asked, result, editor, asks>>
  BY DEF WriteDone
<1>2. /\ writes' \in Seq(WriteCalls) /\ Len(writes') = Len(writes) - 1 /\ Len(writes) \in Nat
      /\ WritesFit' /\ w \in WriteCalls /\ w.q = asked
  BY <1>1, WriteEnds
<1>3. asked \in Queries /\ tableVersion \in Nat /\ rowVersion \in 0..tableVersion
  BY <1>0 DEF TabTypes
<1>4. /\ wire' \in Seq(PageRequests) /\ inflight' \in Queries \cup {NoQuery}
      /\ fetchPromise' \in 0..Len(wire')
      /\ loading' \in BOOLEAN /\ failed' \in BOOLEAN
      /\ countWire' \in Seq(CountRequests) /\ countInflight' \in Preds \cup {NoPred}
      /\ \A j \in DOMAIN countWire' : countWire'[j].after <= Len(wire')
      /\ total' = NoTotal \/ total' \in [pred : Preds, at : 0..MaxWrites]
      /\ PageFits' /\ CountFits' /\ rowVersion' \in 0..tableVersion'
  <2>1. CASE w.kind = "value"
    <3>1. Fetch(asked) /\ UNCHANGED <<rowVersion, fetchPromise, countWire, countInflight, total>>
      BY <1>2, <2>1 DEF WriteDone, counting
    <3>2. /\ wire' \in Seq(PageRequests) /\ Len(wire') \in Nat /\ Len(wire) <= Len(wire')
          /\ inflight' \in Queries \cup {NoQuery}
          /\ loading' \in BOOLEAN /\ failed' \in BOOLEAN
          /\ PageFits'
      BY <1>0, <1>1, <1>3, <3>1, Fetches
    <3>3. fetchPromise' \in 0..Len(wire')
      BY <1>0, <1>1, <3>1, <3>2, EmptySeq DEF TabTypes
    <3>4. \A j \in DOMAIN countWire' : countWire'[j].after <= Len(wire')
      <4>1. DOMAIN countWire' = {}
        BY <1>1, <3>1, LenProperties, EmptySeq
      <4> QED
        BY <4>1
    <3>5. CountFits'
      BY <1>0, <1>1, <3>1 DEF CountFits
    <3> QED
      BY <1>0, <1>1, <1>3, <3>1, <3>2, <3>3, <3>4, <3>5 DEF TabTypes
  <2>2. CASE w.kind # "value"
    <3>1. Fetch(asked) /\ Stash(asked) /\ Count(asked.pred) /\ rowVersion' = tableVersion + 1
      BY <1>2, <2>2 DEF WriteDone, ReloadAll
    <3>2. /\ wire' \in Seq(PageRequests) /\ inflight' \in Queries \cup {NoQuery}
          /\ fetchPromise' \in 0..Len(wire')
          /\ loading' \in BOOLEAN /\ failed' \in BOOLEAN
          /\ countWire' \in Seq(CountRequests) /\ countInflight' \in Preds \cup {NoPred}
          /\ \A j \in DOMAIN countWire' : countWire'[j].after <= Len(wire')
          /\ total' = NoTotal \/ total' \in [pred : Preds, at : 0..MaxWrites]
          /\ PageFits' /\ CountFits'
      BY <1>0, <1>1, <1>3, <3>1, Asks
    <3>3. rowVersion' \in 0..tableVersion'
      BY <1>1, <1>3, <3>1
    <3> QED
      BY <3>2, <3>3
  <2> QED
    BY <2>1, <2>2
<1>5. TabTypes'
  <2>1. tableVersion' \in Nat /\ Len(writes') + tableVersion' <= MaxWrites
    BY <1>0, <1>1, <1>2, <1>3 DEF TabTypes
  <2> QED
    BY <1>0, <1>1, <1>2, <1>4, <2>1 DEF TabTypes
<1> QED
  BY <1>2, <1>4, <1>5 DEF TabInv

LEMMA WriteNotApplied ==
  ASSUME TabInv, NEW i \in DOMAIN writes, WriteRefused(i)
  PROVE  TabInv'
<1>0. TabTypes
  BY DEF TabInv
<1>1. /\ writes' = Queues!RemoveAt(writes, i) /\ draft' \in {"refused", draft}
      /\ UNCHANGED <<asked, paging, result, counting, total, table, editor, asks>>
  BY DEF WriteRefused
<1>2. /\ writes' \in Seq(WriteCalls) /\ Len(writes') = Len(writes) - 1 /\ Len(writes) \in Nat
      /\ WritesFit'
  BY <1>1, WriteEnds
<1>3. Len(writes') + tableVersion <= MaxWrites
  BY <1>0, <1>2 DEF TabTypes
<1>4. editor' \in Queries \cup {NoQuery} /\ draft' \in {"none", "open", "saving", "refused"}
  BY <1>0, <1>1 DEF TabTypes
<1> QED
  BY <1>1, <1>2, <1>3, <1>4, ScreenKept

\* The user writes, or opens what will.
LEMMA Writes ==
  ASSUME TabInv,
         \/ SaveField \/ ChangeRows \/ OpenEditor \/ SaveEditor \/ CloseEditor
         \/ OpenDraft \/ DropDraft \/ CommitDraft
  PROVE  TabInv'
<1>0. TabTypes /\ WritesFit
  BY DEF TabInv
<1>1. /\ asked \in Queries /\ editor \in Queries \cup {NoQuery}
      /\ draft \in {"none", "open", "saving", "refused"}
      /\ writes \in Seq(WriteCalls) /\ Len(writes) + tableVersion <= MaxWrites
  BY <1>0 DEF TabTypes
<1>2. UNCHANGED <<asked, paging, result, counting, total, table, asks>>
  BY DEF SaveField, ChangeRows, OpenEditor, SaveEditor, CloseEditor, OpenDraft, DropDraft,
         CommitDraft
<1>3. ASSUME NEW kind \in Kinds, MayWrite, StartWrite(kind, asked), UNCHANGED editor,
             draft' \in {"none", "open", "saving", "refused"}
      PROVE  TabInv'
  <2>1. /\ writes' \in Seq(WriteCalls) /\ Len(writes') + tableVersion <= MaxWrites /\ WritesFit'
    BY <1>2, <1>3, WriteStarts
  <2>2. editor' \in Queries \cup {NoQuery}
    BY <1>1, <1>3
  <2> QED
    BY <1>2, <1>3, <2>1, <2>2, ScreenKept
<1>4. ASSUME UNCHANGED writes, editor' \in {NoQuery, asked, editor},
             draft' \in {"none", "open", "saving", "refused"}
      PROVE  TabInv'
  <2>1. WritesFit'
    BY <1>0, <1>2, <1>4 DEF WritesFit
  <2>2. editor' \in Queries \cup {NoQuery}
    BY <1>1, <1>4
  <2> QED
    BY <1>1, <1>2, <1>4, <2>1, <2>2, ScreenKept
<1>5. CASE SaveField
  BY <1>1, <1>3, <1>5 DEF SaveField, Kinds
<1>6. CASE ChangeRows
  BY <1>1, <1>3, <1>6 DEF ChangeRows, Kinds
<1>7. CASE SaveEditor
  BY <1>0, <1>1, <1>3, <1>7 DEF SaveEditor, Kinds, WritesFit
<1>8. CASE CommitDraft
  BY <1>1, <1>3, <1>8 DEF CommitDraft, Kinds
<1>9. CASE OpenEditor \/ CloseEditor \/ OpenDraft \/ DropDraft
  BY <1>1, <1>4, <1>9 DEF OpenEditor, CloseEditor, OpenDraft, DropDraft
<1> QED
  BY <1>5, <1>6, <1>7, <1>8, <1>9

-----------------------------------------------------------------------------
(* The invariant, and what it gives.                                       *)

LEMMA TabStarts == TableTabInit => TabInv
<1> SUFFICES ASSUME TableTabInit PROVE TabInv
  OBVIOUS
<1> DEFINE r == [q |-> asked, at |-> Unread]
           c == [pred |-> asked.pred, after |-> 1, at |-> Unread]
<1>1. asked \in Queries /\ asked.pred \in Preds
  BY DEF TableTabInit, Queries
<1>2. r \in PageRequests /\ c \in CountRequests
  BY <1>1 DEF PageRequests, CountRequests, Unread
<1>3. wire = <<r>> /\ countWire = <<c>>
  BY DEF TableTabInit
<1>4. /\ wire \in Seq(PageRequests) /\ Len(wire) = 1 /\ wire[1] = r /\ DOMAIN wire = {1}
      /\ wire # <<>>
  BY <1>2, <1>3
<1>5. /\ countWire \in Seq(CountRequests) /\ Len(countWire) = 1 /\ countWire[1] = c
      /\ DOMAIN countWire = {1} /\ countWire # <<>>
  BY <1>2, <1>3
<1>6. writes \in Seq(WriteCalls) /\ Len(writes) = 0 /\ DOMAIN writes = {}
  BY DEF TableTabInit
<1>7. TabTypes
  <2>1. MaxWrites \in Nat /\ MaxAsks \in Nat
    OBVIOUS
  <2>2. wire \in Seq(PageRequests) /\ fetchPromise \in 0..Len(wire)
    BY <1>4 DEF TableTabInit
  <2>3. /\ countWire \in Seq(CountRequests)
        /\ \A i \in DOMAIN countWire : countWire[i].after <= Len(wire)
    BY <1>4, <1>5
  <2>4. writes \in Seq(WriteCalls) /\ tableVersion \in Nat /\ Len(writes) + tableVersion <= MaxWrites
    BY <1>6, <2>1 DEF TableTabInit
  <2>5. /\ inflight = asked /\ countInflight = asked.pred
        /\ loading \in BOOLEAN /\ failed \in BOOLEAN
        /\ result = NoQuery /\ total = NoTotal /\ rowVersion \in 0..tableVersion
        /\ editor = NoQuery /\ draft \in {"none", "open", "saving", "refused"}
        /\ asks \in 0..MaxAsks
    <3>1. /\ inflight = asked /\ countInflight = asked.pred /\ loading = TRUE /\ failed = FALSE
          /\ result = NoQuery /\ total = NoTotal /\ tableVersion = 0 /\ rowVersion = 0
          /\ editor = NoQuery /\ draft = "none" /\ asks = 0
      BY Zenon DEF TableTabInit
    <3>2. rowVersion \in 0..tableVersion /\ asks \in 0..MaxAsks
      BY <2>1, <3>1
    <3>3. loading \in BOOLEAN /\ failed \in BOOLEAN
      BY <3>1, Zenon
    <3> QED
      BY <3>1, <3>2, <3>3
  <2> HIDE DEF r, c
  <2> QED
    BY <1>1, <2>2, <2>3, <2>4, <2>5 DEF TabTypes
<1>8. PageFits /\ CountFits
  BY <1>4, <1>5 DEF TableTabInit, PageFits, CountFits
<1>9. WritesFit
  BY <1>6 DEF TableTabInit, WritesFit
<1> QED
  BY <1>7, <1>8, <1>9 DEF TabInv

LEMMA TabStep ==
  ASSUME Overlaps = {}, TabInv, [TableTabNext]_tableTabVars
  PROVE  TabInv'
<1>0. /\ DOMAIN wire = 1..Len(wire) /\ DOMAIN countWire = 1..Len(countWire)
      /\ DOMAIN writes = 1..Len(writes) /\ asked \in Queries /\ FirstPage \in Pages
  BY LenProperties DEF TabInv, TabTypes
<1>1. ASSUME NEW i \in 1..Len(wire), FetchRead(i) \/ FetchAnswered(i) \/ FetchFails(i)
      PROVE  TabInv'
  <2>1. CASE FetchRead(i)
    BY <1>0, <2>1, PageIsRead
  <2>2. CASE FetchAnswered(i) \/ FetchFails(i)
    <3>1. i = 1
      BY <2>2 DEF FetchAnswered, FetchFails, Answerable
    <3> QED
      BY <1>0, <2>2, <3>1, PageArrives
  <2> QED
    BY <1>1, <2>1, <2>2
<1>2. ASSUME NEW i \in 1..Len(countWire), CountRead(i) \/ CountAnswered(i) \/ CountFails(i)
      PROVE  TabInv'
  <2>1. CASE CountRead(i)
    BY <1>0, <2>1, TotalIsRead
  <2>2. CASE CountAnswered(i) \/ CountFails(i)
    <3>1. i = 1
      BY <2>2 DEF CountAnswered, CountFails, Answerable
    <3> QED
      BY <1>0, <2>2, <3>1, TotalArrives
  <2> QED
    BY <1>2, <2>1, <2>2
<1>3. ASSUME NEW p \in Preds, AskPred(p) PROVE TabInv'
  <2>1. [asked EXCEPT !.pred = p, !.page = FirstPage] \in Queries
    BY <1>0 DEF Queries
  <2> QED
    BY <1>3, <2>1, QueryChanges DEF AskPred
<1>4. ASSUME NEW o \in Orders, AskOrder(o) PROVE TabInv'
  <2>1. [asked EXCEPT !.order = o, !.page = FirstPage] \in Queries
    BY <1>0 DEF Queries
  <2> QED
    BY <1>4, <2>1, QueryChanges DEF AskOrder
<1>5. ASSUME NEW g \in Pages, AskPage(g) PROVE TabInv'
  <2>1. [asked EXCEPT !.page = g] \in Queries
    BY <1>0 DEF Queries
  <2> QED
    BY <1>5, <2>1, QueryChanges DEF AskPage
<1>6. CASE Refresh
  BY <1>6, Refreshes
<1>7. CASE \/ SaveField \/ ChangeRows \/ OpenEditor \/ SaveEditor \/ CloseEditor
           \/ OpenDraft \/ DropDraft \/ CommitDraft
  BY <1>7, Writes
<1>8. ASSUME NEW i \in 1..Len(writes), WriteDone(i) \/ WriteRefused(i) PROVE TabInv'
  BY <1>0, <1>8, WriteApplied, WriteNotApplied
<1>9. CASE UNCHANGED tableTabVars
  <2>1. /\ UNCHANGED <<asked, paging, result, counting, total, table, asks>>
        /\ UNCHANGED <<writes, editor, draft>>
    BY <1>9 DEF tableTabVars
  <2>2. /\ writes' \in Seq(WriteCalls) /\ Len(writes') + tableVersion <= MaxWrites
        /\ editor' \in Queries \cup {NoQuery}
        /\ draft' \in {"none", "open", "saving", "refused"} /\ WritesFit'
    BY <2>1 DEF TabInv, TabTypes, WritesFit
  <2> QED
    BY <2>1, <2>2, ScreenKept
<1> QED
  BY <1>1, <1>2, <1>3, <1>4, <1>5, <1>6, <1>7, <1>8, <1>9 DEF TableTabNext

LEMMA InvariantShowsTab == TabInv => TabCurrent
<1> SUFFICES ASSUME TabInv PROVE TabCurrent
  OBVIOUS
<1>0. TabTypes /\ PageFits /\ CountFits
  BY DEF TabInv
<1>1. RowsCurrent
  <2>1. \A q \in Queries, n \in Nat : [q |-> q, at |-> n] # NoQuery
    BY DEF NoQuery
  <2> QED
    BY <1>0, <2>1 DEF RowsCurrent, Quiet, PageFits, TabTypes
<1>2. TotalCurrent
  BY <1>0 DEF TotalCurrent, CountFits
<1>3. KeysReleased
  <2>1. wire # <<>> => Len(wire) \in 1..Len(wire)
    BY <1>0, LenProperties, EmptySeq DEF TabTypes
  <2>2. countWire # <<>> => Len(countWire) \in 1..Len(countWire)
    BY <1>0, LenProperties, EmptySeq DEF TabTypes
  <2> QED
    BY <1>0, <2>1, <2>2 DEF KeysReleased, PageFits, CountFits
<1> QED
  BY <1>1, <1>2, <1>3 DEF TabCurrent

\* In order (Overlaps = {}): a table tab at rest shows the rows and the total of the query on
\* its toolbar, with every write it made, and no claimed key outlives its request, for any
\* query, number of requests under way and writes.
THEOREM TabIsCurrent == ASSUME Overlaps = {} PROVE TableTabSpec => []TabCurrent
<1>1. TableTabInit => TabInv
  BY TabStarts
<1>2. TabInv /\ [TableTabNext]_tableTabVars => TabInv'
  BY TabStep
<1>3. TabInv => TabCurrent
  BY InvariantShowsTab
<1> QED
  BY <1>1, <1>2, <1>3, PTL DEF TableTabSpec

-----------------------------------------------------------------------------
(* Form and keys, whatever overlaps.                                       *)

\* The two halves of KeysReleased.
PageKey == inflight # NoQuery => \E i \in 1..Len(wire) : wire[i].q = inflight
TotalKey ==
  countInflight # NoPred => \E i \in 1..Len(countWire) : countWire[i].pred = countInflight

TabForm == TabTypes /\ PageKey /\ TotalKey

\* What the requests under way are.
LEMMA RequestsTyped ==
  ASSUME TabTypes
  PROVE  /\ wire \in Seq(PageRequests) /\ Len(wire) \in Nat /\ DOMAIN wire = 1..Len(wire)
         /\ \A i \in 1..Len(wire) : wire[i] \in PageRequests
         /\ countWire \in Seq(CountRequests) /\ Len(countWire) \in Nat
         /\ DOMAIN countWire = 1..Len(countWire)
         /\ \A i \in 1..Len(countWire) :
              /\ countWire[i] \in CountRequests
              /\ countWire[i].after \in Nat /\ countWire[i].after <= Len(wire)
         /\ tableVersion \in 0..Unread /\ rowVersion \in 0..Unread
<1>1. /\ wire \in Seq(PageRequests) /\ countWire \in Seq(CountRequests)
      /\ writes \in Seq(WriteCalls)
  BY DEF TabTypes
<1>2. /\ Len(wire) \in Nat /\ DOMAIN wire = 1..Len(wire)
      /\ \A i \in 1..Len(wire) : wire[i] \in PageRequests
  BY <1>1, LenProperties, ElementOfSeq
<1>3. /\ Len(countWire) \in Nat /\ DOMAIN countWire = 1..Len(countWire)
      /\ \A i \in 1..Len(countWire) : countWire[i] \in CountRequests
  BY <1>1, LenProperties, ElementOfSeq
<1>4. \A i \in 1..Len(countWire) : countWire[i].after \in Nat /\ countWire[i].after <= Len(wire)
  BY <1>3 DEF TabTypes, CountRequests
<1>5. Len(writes) \in Nat
  BY <1>1, LenProperties
<1>6. tableVersion \in 0..Unread /\ rowVersion \in 0..Unread
  BY <1>5 DEF TabTypes, Unread
<1> QED
  BY <1>1, <1>2, <1>3, <1>4, <1>6

\* A page that is asked for, or that already was.
LEMMA SendsForm ==
  ASSUME TabForm, NEW q \in Queries, Fetch(q)
  PROVE  /\ wire' \in Seq(PageRequests) /\ Len(wire') \in Nat /\ Len(wire) <= Len(wire')
         /\ inflight' \in Queries \cup {NoQuery}
         /\ loading' \in BOOLEAN /\ failed' \in BOOLEAN
         /\ (IF inflight = q THEN 0 ELSE Len(wire) + 1) \in 0..Len(wire')
         /\ PageKey'
<1>0. TabTypes /\ PageKey /\ wire \in Seq(PageRequests) /\ Len(wire) \in Nat
  BY RequestsTyped DEF TabForm
<1>1. CASE inflight = q
  <2>1. UNCHANGED <<wire, inflight, loading, failed>>
    BY <1>1 DEF Fetch
  <2>2. PageKey'
    BY <1>0, <2>1 DEF PageKey
  <2> QED
    BY <1>0, <1>1, <2>1, <2>2 DEF TabTypes
<1>2. CASE inflight # q
  <2> DEFINE r == [q |-> q, at |-> Unread]
  <2>1. wire' = Append(wire, r) /\ inflight' = q /\ loading' = TRUE /\ failed' = FALSE
    BY <1>2 DEF Fetch
  <2>2. r \in PageRequests /\ r.q = q
    BY DEF PageRequests, Unread
  <2> HIDE DEF r
  <2>3. /\ wire' \in Seq(PageRequests) /\ Len(wire') = Len(wire) + 1
        /\ wire'[Len(wire')] = r
    BY <1>0, <2>1, <2>2, Appended
  <2>4. Len(wire') \in 1..Len(wire')
    BY <1>0, <2>3
  <2>5. PageKey'
    BY <2>1, <2>2, <2>3, <2>4 DEF PageKey
  <2>6. /\ Len(wire') \in Nat /\ Len(wire) <= Len(wire')
        /\ (IF inflight = q THEN 0 ELSE Len(wire) + 1) \in 0..Len(wire')
    BY <1>0, <1>2, <2>3
  <2> QED
    BY <2>1, <2>3, <2>5, <2>6
<1> QED
  BY <1>1, <1>2

\* The same of a total.
LEMMA CountsForm ==
  ASSUME TabForm, NEW p \in Preds, Count(p),
         fetchPromise' \in Nat, fetchPromise' <= Len(wire'), Len(wire') \in Nat,
         Len(wire) <= Len(wire')
  PROVE  /\ countWire' \in Seq(CountRequests)
         /\ countInflight' \in Preds \cup {NoPred}
         /\ \A i \in DOMAIN countWire' : countWire'[i].after <= Len(wire')
         /\ total' = NoTotal \/ total' \in [pred : Preds, at : 0..MaxWrites]
         /\ TotalKey'
<1>0. TabTypes /\ TotalKey
  BY DEF TabForm
<1>1. /\ Len(countWire) \in Nat /\ DOMAIN countWire = 1..Len(countWire) /\ Len(wire) \in Nat
      /\ countWire \in Seq(CountRequests)
      /\ \A i \in 1..Len(countWire) : countWire[i].after \in Nat /\ countWire[i].after <= Len(wire')
  BY <1>0, RequestsTyped
<1>2. CASE countInflight = p
  <2>1. UNCHANGED <<countWire, countInflight, total>>
    BY <1>2 DEF Count
  <2>2. TotalKey'
    BY <1>0, <2>1 DEF TotalKey
  <2> QED
    BY <1>0, <1>1, <2>1, <2>2 DEF TabTypes
<1>3. CASE countInflight # p
  <2> DEFINE r == [pred |-> p, after |-> fetchPromise', at |-> Unread]
  <2>1. countWire' = Append(countWire, r) /\ countInflight' = p /\ total' = NoTotal
    BY <1>3 DEF Count
  <2>2. r \in CountRequests /\ r.pred = p /\ r.after = fetchPromise'
    BY DEF CountRequests, Unread
  <2> HIDE DEF r
  <2>3. /\ countWire' \in Seq(CountRequests) /\ Len(countWire') = Len(countWire) + 1
        /\ countWire'[Len(countWire')] = r
        /\ \A i \in 1..Len(countWire) : countWire'[i] = countWire[i]
        /\ DOMAIN countWire' = 1..Len(countWire) + 1
    BY <1>1, <2>1, <2>2, Appended
  <2>4. \A i \in DOMAIN countWire' : countWire'[i].after <= Len(wire')
    <3>1. \A i \in DOMAIN countWire' : i \in 1..Len(countWire) \/ i = Len(countWire')
      BY <1>1, <2>3
    <3> QED
      BY <1>1, <2>2, <2>3, <3>1
  <2>5. Len(countWire') \in 1..Len(countWire')
    BY <1>1, <2>3
  <2>6. TotalKey'
    BY <2>1, <2>2, <2>3, <2>5 DEF TotalKey
  <2> QED
    BY <2>1, <2>3, <2>4, <2>6
<1> QED
  BY <1>2, <1>3

\* Both, or the total is not concerned.
LEMMA AsksForm ==
  ASSUME TabForm, NEW q \in Queries, Fetch(q),
         Stash(q) \/ UNCHANGED fetchPromise,
         Count(q.pred) \/ UNCHANGED <<countWire, countInflight, total>>
  PROVE  /\ wire' \in Seq(PageRequests) /\ inflight' \in Queries \cup {NoQuery}
         /\ fetchPromise' \in 0..Len(wire')
         /\ loading' \in BOOLEAN /\ failed' \in BOOLEAN
         /\ countWire' \in Seq(CountRequests) /\ countInflight' \in Preds \cup {NoPred}
         /\ \A i \in DOMAIN countWire' : countWire'[i].after <= Len(wire')
         /\ total' = NoTotal \/ total' \in [pred : Preds, at : 0..MaxWrites]
         /\ PageKey' /\ TotalKey'
<1>0. TabTypes /\ TotalKey
  BY DEF TabForm
<1>1. /\ wire' \in Seq(PageRequests) /\ Len(wire') \in Nat /\ Len(wire) <= Len(wire')
      /\ inflight' \in Queries \cup {NoQuery}
      /\ loading' \in BOOLEAN /\ failed' \in BOOLEAN
      /\ (IF inflight = q THEN 0 ELSE Len(wire) + 1) \in 0..Len(wire')
      /\ PageKey'
  BY SendsForm
<1>2. fetchPromise' \in 0..Len(wire')
  <2>1. fetchPromise \in 0..Len(wire')
    BY <1>0, <1>1, RequestsTyped DEF TabTypes
  <2> QED
    BY <1>1, <2>1 DEF Stash
<1>3. CASE Count(q.pred)
  <2>1. q.pred \in Preds /\ fetchPromise' \in Nat /\ fetchPromise' <= Len(wire')
    BY <1>1, <1>2 DEF Queries
  <2> HIDE DEF Count
  <2>2. /\ countWire' \in Seq(CountRequests)
        /\ countInflight' \in Preds \cup {NoPred}
        /\ \A i \in DOMAIN countWire' : countWire'[i].after <= Len(wire')
        /\ total' = NoTotal \/ total' \in [pred : Preds, at : 0..MaxWrites]
        /\ TotalKey'
    BY <1>1, <1>3, <2>1, CountsForm
  <2> QED
    BY <1>1, <1>2, <2>2
<1>4. CASE UNCHANGED <<countWire, countInflight, total>>
  <2>1. \A i \in DOMAIN countWire' : countWire'[i].after <= Len(wire')
    BY <1>0, <1>1, <1>4, RequestsTyped
  <2>2. TotalKey'
    BY <1>0, <1>4 DEF TotalKey
  <2> QED
    BY <1>0, <1>1, <1>2, <1>4, <2>1, <2>2 DEF TabTypes
<1> QED
  BY <1>3, <1>4

\* The user asks.
LEMMA QueryForm ==
  ASSUME TabForm, NEW q \in Queries, AskFor(q)
  PROVE  TabForm'
<1>0. TabTypes
  BY DEF TabForm
<1>1. /\ asks' \in 0..MaxAsks /\ asked' = q
      /\ UNCHANGED <<result, tableVersion, rowVersion, writes, editor, draft>>
  BY <1>0 DEF AskFor, table, TabTypes
<1>2. /\ Fetch(q) /\ Stash(q)
      /\ Count(q.pred) \/ UNCHANGED <<countWire, countInflight, total>>
  BY DEF AskFor, Effects, counting
<1>3. /\ wire' \in Seq(PageRequests) /\ inflight' \in Queries \cup {NoQuery}
      /\ fetchPromise' \in 0..Len(wire')
      /\ loading' \in BOOLEAN /\ failed' \in BOOLEAN
      /\ countWire' \in Seq(CountRequests) /\ countInflight' \in Preds \cup {NoPred}
      /\ \A i \in DOMAIN countWire' : countWire'[i].after <= Len(wire')
      /\ total' = NoTotal \/ total' \in [pred : Preds, at : 0..MaxWrites]
      /\ PageKey' /\ TotalKey'
  BY <1>2, AsksForm
<1>4. TabTypes'
  BY <1>0, <1>1, <1>3 DEF TabTypes
<1> QED
  BY <1>3, <1>4 DEF TabForm

LEMMA RefreshForm ==
  ASSUME TabForm, Refresh
  PROVE  TabForm'
<1>0. TabTypes
  BY DEF TabForm
<1>1. /\ UNCHANGED <<asked, result, tableVersion, rowVersion, writes, editor, draft, asks>>
      /\ Fetch(asked) /\ Stash(asked) /\ Count(asked.pred) /\ asked \in Queries
  BY <1>0 DEF Refresh, ReloadAll, table, TabTypes
<1>2. /\ wire' \in Seq(PageRequests) /\ inflight' \in Queries \cup {NoQuery}
      /\ fetchPromise' \in 0..Len(wire')
      /\ loading' \in BOOLEAN /\ failed' \in BOOLEAN
      /\ countWire' \in Seq(CountRequests) /\ countInflight' \in Preds \cup {NoPred}
      /\ \A i \in DOMAIN countWire' : countWire'[i].after <= Len(wire')
      /\ total' = NoTotal \/ total' \in [pred : Preds, at : 0..MaxWrites]
      /\ PageKey' /\ TotalKey'
  BY <1>1, AsksForm
<1>3. TabTypes'
  BY <1>0, <1>1, <1>2 DEF TabTypes
<1> QED
  BY <1>2, <1>3 DEF TabForm

\* The server reads.
LEMMA ReadForm ==
  ASSUME TabForm, NEW i \in 1..Len(wire), FetchRead(i)
  PROVE  TabForm'
<1>0. TabTypes /\ PageKey /\ TotalKey
  BY DEF TabForm
<1>1. /\ wire' = [wire EXCEPT ![i].at = tableVersion]
      /\ UNCHANGED <<asked, inflight, fetchPromise, loading, failed, result, countWire,
                     countInflight, total, tableVersion, rowVersion, writes, editor, draft, asks>>
  BY DEF FetchRead, counting, table
<1>2. /\ Len(wire) \in Nat /\ DOMAIN wire = 1..Len(wire) /\ tableVersion \in 0..Unread
      /\ \A j \in 1..Len(wire) : wire[j] \in PageRequests
  BY <1>0, RequestsTyped
<1>3. \A j \in 1..Len(wire) : wire'[j] \in PageRequests /\ wire'[j].q = wire[j].q
  BY <1>1, <1>2 DEF PageRequests
<1>4. wire' \in [1..Len(wire) -> PageRequests]
  BY <1>1, <1>2, <1>3
<1>5. wire' \in Seq(PageRequests) /\ Len(wire') = Len(wire)
  BY <1>2, <1>4, Replaced
<1>6. TabTypes'
  BY <1>0, <1>1, <1>5 DEF TabTypes
<1>7. PageKey' /\ TotalKey'
  BY <1>0, <1>1, <1>3, <1>5 DEF PageKey, TotalKey
<1> QED
  BY <1>6, <1>7 DEF TabForm

LEMMA CountReadForm ==
  ASSUME TabForm, NEW i \in 1..Len(countWire), CountRead(i)
  PROVE  TabForm'
<1>0. TabTypes /\ PageKey /\ TotalKey
  BY DEF TabForm
<1>1. /\ countWire' = [countWire EXCEPT ![i].at = rowVersion]
      /\ UNCHANGED <<asked, wire, inflight, fetchPromise, loading, failed, result,
                     countInflight, total, tableVersion, rowVersion, writes, editor, draft, asks>>
  BY DEF CountRead, paging, table
<1>2. /\ Len(countWire) \in Nat /\ DOMAIN countWire = 1..Len(countWire)
      /\ rowVersion \in 0..Unread
      /\ \A j \in 1..Len(countWire) : countWire[j] \in CountRequests
      /\ \A j \in 1..Len(countWire) : countWire[j].after <= Len(wire)
  BY <1>0, RequestsTyped
<1>3. \A j \in 1..Len(countWire) :
        /\ countWire'[j] \in CountRequests /\ countWire'[j].pred = countWire[j].pred
        /\ countWire'[j].after = countWire[j].after
  BY <1>1, <1>2 DEF CountRequests
<1>4. countWire' \in [1..Len(countWire) -> CountRequests]
  BY <1>1, <1>2, <1>3
<1>5. /\ countWire' \in Seq(CountRequests) /\ Len(countWire') = Len(countWire)
      /\ DOMAIN countWire' = 1..Len(countWire)
  BY <1>2, <1>4, Replaced
<1>6. TabTypes'
  <2>1. \A j \in DOMAIN countWire' : countWire'[j].after <= Len(wire')
    BY <1>1, <1>2, <1>3, <1>5
  <2> QED
    BY <1>0, <1>1, <1>5, <2>1 DEF TabTypes
<1>7. PageKey' /\ TotalKey'
  BY <1>0, <1>1, <1>3, <1>5 DEF PageKey, TotalKey
<1> QED
  BY <1>6, <1>7 DEF TabForm

\* The answers, in any order.
LEMMA SettlesForm ==
  ASSUME TabForm, NEW i \in 1..Len(wire), FetchSettles(i)
  PROVE  /\ wire' \in Seq(PageRequests) /\ fetchPromise' \in 0..Len(wire')
         /\ inflight' \in Queries \cup {NoQuery}
         /\ countWire' \in Seq(CountRequests)
         /\ \A j \in DOMAIN countWire' : countWire'[j].after <= Len(wire')
         /\ PageKey' /\ TotalKey'
<1>0. /\ TabTypes /\ PageKey /\ TotalKey
      /\ wire \in Seq(PageRequests) /\ Len(wire) \in Nat /\ DOMAIN wire = 1..Len(wire)
  BY RequestsTyped DEF TabForm
<1>1. /\ wire' = Less(wire, i) /\ inflight' = IF inflight = wire[i].q THEN NoQuery ELSE inflight
      /\ fetchPromise' = StillAt(fetchPromise, i)
      /\ UNCHANGED countInflight
  BY <1>0 DEF FetchSettles, Queues!RemoveAt, Less
<1>2. /\ wire' \in Seq(PageRequests) /\ Len(wire') = Len(wire) - 1
      /\ DOMAIN wire' = 1..Len(wire) - 1
      /\ \A k \in DOMAIN wire : k # i => \E j \in DOMAIN wire' : wire'[j] = wire[k]
  <2>1. i \in DOMAIN wire /\ wire \in Seq(PageRequests)
    BY <1>0
  <2> DEFINE rest == Less(wire, i)
  <2>2. /\ rest \in Seq(PageRequests) /\ Len(rest) = Len(wire) - 1
        /\ DOMAIN rest = 1..Len(wire) - 1
        /\ \A j \in DOMAIN rest : \E k \in DOMAIN wire : k # i /\ rest[j] = wire[k]
        /\ \A k \in DOMAIN wire : k # i => \E j \in DOMAIN rest : rest[j] = wire[k]
    BY <2>1, SameOthers
  <2>3. wire' = rest
    BY <1>1
  <2> HIDE DEF rest
  <2> QED
    BY <2>2, <2>3
<1>3. \A k \in Nat : k <= Len(wire) => StillAt(k, i) \in 0..Len(wire')
  BY <1>0, <1>2 DEF StillAt
<1>4. fetchPromise' \in 0..Len(wire')
  <2>1. fetchPromise \in Nat /\ fetchPromise <= Len(wire)
    BY <1>0 DEF TabTypes
  <2> QED
    BY <1>1, <1>3, <2>1
<1>5. PageKey'
  <2> SUFFICES ASSUME inflight' # NoQuery
               PROVE  \E j \in 1..Len(wire') : wire'[j].q = inflight'
    BY DEF PageKey
  <2>1. inflight' = inflight /\ inflight # wire[i].q
    BY <1>1
  <2>2. PICK k \in 1..Len(wire) : wire[k].q = inflight
    BY <1>0, <2>1 DEF PageKey
  <2>3. PICK j \in DOMAIN wire' : wire'[j] = wire[k]
    BY <1>0, <1>2, <2>1, <2>2
  <2> QED
    BY <1>2, <2>1, <2>2, <2>3
<1>6. /\ Len(countWire) \in Nat
      /\ \A j \in 1..Len(countWire) :
           /\ countWire[j] \in CountRequests
           /\ countWire[j].after \in Nat /\ countWire[j].after <= Len(wire)
  BY <1>0, RequestsTyped
<1>7. ASSUME NEW j \in 1..Len(countWire)
      PROVE  /\ countWire'[j] \in CountRequests /\ countWire'[j].after <= Len(wire')
             /\ countWire'[j].pred = countWire[j].pred
  <2>1. countWire'[j] = [countWire[j] EXCEPT !.after = StillAt(@, i)]
    BY DEF FetchSettles
  <2>2. StillAt(countWire[j].after, i) \in 0..Len(wire') /\ countWire[j] \in CountRequests
    BY <1>3, <1>6
  <2> QED
    BY <1>0, <1>2, <2>1, <2>2 DEF CountRequests
<1>8. countWire' \in [1..Len(countWire) -> CountRequests]
  <2>1. countWire' = [j \in 1..Len(countWire) |-> countWire'[j]]
    BY DEF FetchSettles
  <2> QED
    BY <1>7, <2>1
<1>9. /\ countWire' \in Seq(CountRequests) /\ Len(countWire') = Len(countWire)
      /\ DOMAIN countWire' = 1..Len(countWire)
  BY <1>6, <1>8, Replaced
<1>10. TotalKey'
  BY <1>0, <1>1, <1>7, <1>9 DEF TotalKey
<1>11. inflight' \in Queries \cup {NoQuery}
  BY <1>0, <1>1 DEF TabTypes
<1> QED
  BY <1>2, <1>4, <1>5, <1>7, <1>9, <1>10, <1>11

LEMMA PageForm ==
  ASSUME TabForm, NEW i \in 1..Len(wire), FetchAnswered(i) \/ FetchFails(i)
  PROVE  TabForm'
<1>0. TabTypes /\ FetchSettles(i) /\ wire[i] \in PageRequests
  BY RequestsTyped DEF TabForm, FetchAnswered, FetchFails
<1>1. /\ wire' \in Seq(PageRequests) /\ fetchPromise' \in 0..Len(wire')
      /\ inflight' \in Queries \cup {NoQuery}
      /\ countWire' \in Seq(CountRequests)
      /\ \A j \in DOMAIN countWire' : countWire'[j].after <= Len(wire')
      /\ PageKey' /\ TotalKey'
  BY <1>0, SettlesForm
<1>2. /\ UNCHANGED <<asked, countInflight, total, tableVersion, rowVersion, writes, editor, draft,
                     asks>>
      /\ loading' = FALSE
  BY <1>0 DEF FetchSettles, table
<1>3. /\ result' = NoQuery \/ result' \in [q : Queries, at : 0..MaxWrites]
      /\ failed' \in BOOLEAN
  <2>1. CASE FetchAnswered(i)
    <3>1. result' = wire[i] /\ wire[i].at # Unread /\ failed' = failed
      BY <2>1 DEF FetchAnswered
    <3>2. wire[i] \in [q : Queries, at : 0..MaxWrites]
      BY <1>0, <3>1 DEF PageRequests, Unread
    <3> QED
      BY <1>0, <3>1, <3>2 DEF TabTypes
  <2>2. CASE FetchFails(i)
    BY <1>0, <2>2 DEF FetchFails, TabTypes
  <2> QED
    BY <2>1, <2>2
<1>4. TabTypes'
  BY <1>0, <1>1, <1>2, <1>3 DEF TabTypes
<1> QED
  BY <1>1, <1>4 DEF TabForm

LEMMA TotalForm ==
  ASSUME TabForm, NEW i \in 1..Len(countWire), CountAnswered(i) \/ CountFails(i)
  PROVE  TabForm'
<1>0. /\ TabTypes /\ PageKey /\ TotalKey /\ CountSettles(i)
      /\ countWire \in Seq(CountRequests) /\ Len(countWire) \in Nat
      /\ DOMAIN countWire = 1..Len(countWire) /\ countWire[i] \in CountRequests
      /\ \A j \in 1..Len(countWire) : countWire[j].after <= Len(wire)
  BY RequestsTyped DEF TabForm, CountAnswered, CountFails
<1>1. /\ countWire' = Less(countWire, i)
      /\ countInflight' = IF countInflight = countWire[i].pred THEN NoPred ELSE countInflight
      /\ UNCHANGED <<asked, wire, inflight, fetchPromise, loading, failed, result, tableVersion,
                     rowVersion, writes, editor, draft, asks>>
  BY <1>0 DEF CountSettles, Queues!RemoveAt, Less, paging, table
<1>2. /\ countWire' \in Seq(CountRequests) /\ DOMAIN countWire' = 1..Len(countWire) - 1
      /\ Len(countWire') = Len(countWire) - 1
      /\ \A j \in DOMAIN countWire' : \E k \in DOMAIN countWire : countWire'[j] = countWire[k]
      /\ \A k \in DOMAIN countWire : k # i => \E j \in DOMAIN countWire' :
           countWire'[j] = countWire[k]
  <2>1. i \in DOMAIN countWire /\ countWire \in Seq(CountRequests)
    BY <1>0
  <2> DEFINE rest == Less(countWire, i)
  <2>2. /\ rest \in Seq(CountRequests) /\ Len(rest) = Len(countWire) - 1
        /\ DOMAIN rest = 1..Len(countWire) - 1
        /\ \A j \in DOMAIN rest : \E k \in DOMAIN countWire : k # i /\ rest[j] = countWire[k]
        /\ \A k \in DOMAIN countWire : k # i => \E j \in DOMAIN rest : rest[j] = countWire[k]
    BY <2>1, SameOthers
  <2>3. countWire' = rest
    BY <1>1
  <2> HIDE DEF rest
  <2> QED
    BY <2>2, <2>3
<1>3. TotalKey'
  <2> SUFFICES ASSUME countInflight' # NoPred
               PROVE  \E j \in 1..Len(countWire') : countWire'[j].pred = countInflight'
    BY DEF TotalKey
  <2>1. countInflight' = countInflight /\ countInflight # countWire[i].pred
    BY <1>1
  <2>2. PICK k \in 1..Len(countWire) : countWire[k].pred = countInflight
    BY <1>0, <2>1 DEF TotalKey
  <2>3. PICK j \in DOMAIN countWire' : countWire'[j] = countWire[k]
    BY <1>0, <1>2, <2>1, <2>2
  <2> QED
    BY <1>2, <2>1, <2>2, <2>3
<1>4. PageKey'
  BY <1>0, <1>1 DEF PageKey
<1>5. total' = NoTotal \/ total' \in [pred : Preds, at : 0..MaxWrites]
  <2>1. CASE CountAnswered(i)
    BY <1>0, <2>1 DEF CountAnswered, CountRequests, Unread
  <2>2. CASE CountFails(i)
    BY <1>0, <2>2 DEF CountFails, TabTypes
  <2> QED
    BY <2>1, <2>2
<1>6. \A j \in DOMAIN countWire' : countWire'[j].after <= Len(wire')
  BY <1>0, <1>1, <1>2
<1>7. countInflight' \in Preds \cup {NoPred}
  BY <1>0, <1>1 DEF TabTypes
<1>8. TabTypes'
  BY <1>0, <1>1, <1>2, <1>5, <1>6, <1>7 DEF TabTypes
<1> QED
  BY <1>3, <1>4, <1>8 DEF TabForm

\* The writes.
LEMMA StartForm ==
  ASSUME TabForm, NEW kind \in Kinds, NEW q \in Queries, MayWrite, StartWrite(kind, q)
  PROVE  writes' \in Seq(WriteCalls) /\ Len(writes') + tableVersion <= MaxWrites
<1> DEFINE w == [kind |-> kind, q |-> q]
<1>1. w \in WriteCalls
  BY DEF WriteCalls
<1>2. writes' = Append(writes, w)
  BY DEF StartWrite
<1>3. writes \in Seq(WriteCalls) /\ Len(writes) \in Nat /\ tableVersion \in Nat
  BY LenProperties DEF TabForm, TabTypes
<1> HIDE DEF w
<1>4. writes' \in Seq(WriteCalls) /\ Len(writes') = Len(writes) + 1
  BY <1>1, <1>2, <1>3, Appended
<1> QED
  BY <1>3, <1>4 DEF MayWrite

LEMMA EndForm ==
  ASSUME TabForm, NEW i \in 1..Len(writes), writes' = Queues!RemoveAt(writes, i)
  PROVE  /\ writes' \in Seq(WriteCalls) /\ Len(writes') = Len(writes) - 1 /\ Len(writes) \in Nat
         /\ writes[i] \in WriteCalls
<1>1. writes' = Less(writes, i)
  BY DEF Queues!RemoveAt, Less
<1>2. writes \in Seq(WriteCalls) /\ i \in DOMAIN writes
  BY LenProperties DEF TabForm, TabTypes
<1>3. writes' \in Seq(WriteCalls) /\ Len(writes') = Len(writes) - 1 /\ Len(writes) \in Nat
  BY <1>1, <1>2, SameOthers
<1>4. writes[i] \in WriteCalls
  BY <1>2, ElementOfSeq
<1> QED
  BY <1>3, <1>4

\* Pages and totals stay as they are.
LEMMA ScreenForm ==
  ASSUME TabForm, writes' \in Seq(WriteCalls), Len(writes') + tableVersion <= MaxWrites,
         UNCHANGED <<asked, paging, result, counting, total, table, asks>>,
         editor' \in Queries \cup {NoQuery}, draft' \in {"none", "open", "saving", "refused"}
  PROVE  TabForm'
<1>0. TabTypes /\ PageKey /\ TotalKey
  BY DEF TabForm
<1>1. UNCHANGED <<asked, wire, inflight, fetchPromise, loading, failed, result, countWire,
                  countInflight, total, tableVersion, rowVersion, asks>>
  BY DEF paging, counting, table
<1>2. TabTypes'
  BY <1>0, <1>1 DEF TabTypes
<1>3. PageKey' /\ TotalKey'
  BY <1>0, <1>1 DEF PageKey, TotalKey
<1> QED
  BY <1>2, <1>3 DEF TabForm

LEMMA WritesForm ==
  ASSUME TabForm,
         \/ SaveField \/ ChangeRows \/ OpenEditor \/ SaveEditor \/ CloseEditor
         \/ OpenDraft \/ DropDraft \/ CommitDraft
  PROVE  TabForm'
<1>1. /\ asked \in Queries /\ editor \in Queries \cup {NoQuery}
      /\ draft \in {"none", "open", "saving", "refused"}
      /\ writes \in Seq(WriteCalls) /\ Len(writes) + tableVersion <= MaxWrites
  BY DEF TabForm, TabTypes
<1>2. UNCHANGED <<asked, paging, result, counting, total, table, asks>>
  BY DEF SaveField, ChangeRows, OpenEditor, SaveEditor, CloseEditor, OpenDraft, DropDraft,
         CommitDraft
<1>3. ASSUME NEW kind \in Kinds, NEW q \in Queries, MayWrite, StartWrite(kind, q),
             UNCHANGED editor, draft' \in {"none", "open", "saving", "refused"}
      PROVE  TabForm'
  <2>1. writes' \in Seq(WriteCalls) /\ Len(writes') + tableVersion <= MaxWrites
    BY <1>3, StartForm
  <2>2. editor' \in Queries \cup {NoQuery}
    BY <1>1, <1>3
  <2> QED
    BY <1>2, <1>3, <2>1, <2>2, ScreenForm
<1>4. ASSUME UNCHANGED writes, editor' \in {NoQuery, asked, editor},
             draft' \in {"none", "open", "saving", "refused"}
      PROVE  TabForm'
  <2>1. editor' \in Queries \cup {NoQuery}
    BY <1>1, <1>4
  <2> QED
    BY <1>1, <1>2, <1>4, <2>1, ScreenForm
<1>5. CASE SaveField
  BY <1>1, <1>3, <1>5 DEF SaveField, Kinds
<1>6. CASE ChangeRows
  BY <1>1, <1>3, <1>6 DEF ChangeRows, Kinds
<1>7. CASE SaveEditor
  BY <1>1, <1>3, <1>7 DEF SaveEditor, Kinds
<1>8. CASE CommitDraft
  BY <1>1, <1>3, <1>8 DEF CommitDraft, Kinds
<1>9. CASE OpenEditor \/ CloseEditor \/ OpenDraft \/ DropDraft
  BY <1>1, <1>4, <1>9 DEF OpenEditor, CloseEditor, OpenDraft, DropDraft
<1> QED
  BY <1>5, <1>6, <1>7, <1>8, <1>9

LEMMA WriteEndsForm ==
  ASSUME TabForm, NEW i \in 1..Len(writes), WriteDone(i) \/ WriteRefused(i)
  PROVE  TabForm'
<1> DEFINE w == writes[i]
<1>0. TabTypes /\ tableVersion \in Nat /\ rowVersion \in 0..tableVersion
  BY DEF TabForm, TabTypes
<1>1. /\ writes' \in Seq(WriteCalls) /\ Len(writes') = Len(writes) - 1 /\ Len(writes) \in Nat
      /\ w \in WriteCalls
  BY EndForm DEF WriteDone, WriteRefused
<1>2. w.q \in Queries
  BY <1>1 DEF WriteCalls
<1>3. draft' \in {"none", "open", "saving", "refused"} /\ editor' \in Queries \cup {NoQuery}
  BY <1>0 DEF WriteDone, WriteRefused, TabTypes
<1> HIDE DEF w
<1>4. CASE WriteDone(i)
  <2>1. /\ tableVersion' = tableVersion + 1 /\ UNCHANGED <<asked, result, editor, asks>>
    BY <1>4 DEF WriteDone
  <2>2. Fetch(w.q)
    BY <1>4 DEF WriteDone, ReloadAll, w
  <2>3. /\ Stash(w.q) \/ UNCHANGED fetchPromise
        /\ Count(w.q.pred) \/ UNCHANGED <<countWire, countInflight, total>>
        /\ rowVersion' \in {rowVersion, tableVersion + 1}
    BY <1>4 DEF WriteDone, ReloadAll, counting, w
  <2>4. /\ wire' \in Seq(PageRequests) /\ inflight' \in Queries \cup {NoQuery}
        /\ fetchPromise' \in 0..Len(wire')
        /\ loading' \in BOOLEAN /\ failed' \in BOOLEAN
        /\ countWire' \in Seq(CountRequests) /\ countInflight' \in Preds \cup {NoPred}
        /\ \A j \in DOMAIN countWire' : countWire'[j].after <= Len(wire')
        /\ total' = NoTotal \/ total' \in [pred : Preds, at : 0..MaxWrites]
        /\ PageKey' /\ TotalKey'
    BY <1>2, <2>2, <2>3, AsksForm
  <2>5. /\ tableVersion' \in Nat /\ Len(writes') + tableVersion' <= MaxWrites
        /\ rowVersion' \in 0..tableVersion'
    <3>1. Len(writes) + tableVersion <= MaxWrites
      BY <1>0 DEF TabTypes
    <3>2. rowVersion' \in 0..tableVersion + 1
      BY <1>0, <2>3
    <3> QED
      BY <1>0, <1>1, <2>1, <3>1, <3>2
  <2>6. TabTypes'
    BY <1>0, <1>1, <1>3, <2>1, <2>4, <2>5 DEF TabTypes
  <2> QED
    BY <2>4, <2>6 DEF TabForm
<1>5. CASE WriteRefused(i)
  <2>1. UNCHANGED <<asked, paging, result, counting, total, table, asks>>
    BY <1>5 DEF WriteRefused
  <2>2. Len(writes') + tableVersion <= MaxWrites
    BY <1>0, <1>1 DEF TabTypes
  <2> QED
    BY <1>1, <1>3, <2>1, <2>2, ScreenForm
<1> QED
  BY <1>4, <1>5

LEMMA FormStep ==
  ASSUME TabForm, [TableTabNext]_tableTabVars
  PROVE  TabForm'
<1>0. asked \in Queries /\ FirstPage \in Pages
  BY DEF TabForm, TabTypes
<1>1. ASSUME NEW i \in 1..Len(wire), FetchRead(i) \/ FetchAnswered(i) \/ FetchFails(i)
      PROVE  TabForm'
  BY <1>1, ReadForm, PageForm
<1>2. ASSUME NEW i \in 1..Len(countWire), CountRead(i) \/ CountAnswered(i) \/ CountFails(i)
      PROVE  TabForm'
  BY <1>2, CountReadForm, TotalForm
<1>3. ASSUME NEW p \in Preds, AskPred(p) PROVE TabForm'
  <2>1. [asked EXCEPT !.pred = p, !.page = FirstPage] \in Queries
    BY <1>0 DEF Queries
  <2> QED
    BY <1>3, <2>1, QueryForm DEF AskPred
<1>4. ASSUME NEW o \in Orders, AskOrder(o) PROVE TabForm'
  <2>1. [asked EXCEPT !.order = o, !.page = FirstPage] \in Queries
    BY <1>0 DEF Queries
  <2> QED
    BY <1>4, <2>1, QueryForm DEF AskOrder
<1>5. ASSUME NEW g \in Pages, AskPage(g) PROVE TabForm'
  <2>1. [asked EXCEPT !.page = g] \in Queries
    BY <1>0 DEF Queries
  <2> QED
    BY <1>5, <2>1, QueryForm DEF AskPage
<1>6. CASE Refresh
  BY <1>6, RefreshForm
<1>7. CASE \/ SaveField \/ ChangeRows \/ OpenEditor \/ SaveEditor \/ CloseEditor
           \/ OpenDraft \/ DropDraft \/ CommitDraft
  BY <1>7, WritesForm
<1>8. ASSUME NEW i \in 1..Len(writes), WriteDone(i) \/ WriteRefused(i) PROVE TabForm'
  BY <1>8, WriteEndsForm
<1>9. CASE UNCHANGED tableTabVars
  <2>1. UNCHANGED <<asked, paging, result, counting, total, table, asks, writes, editor, draft>>
    BY <1>9 DEF tableTabVars
  <2>2. /\ writes' \in Seq(WriteCalls) /\ Len(writes') + tableVersion <= MaxWrites
        /\ editor' \in Queries \cup {NoQuery} /\ draft' \in {"none", "open", "saving", "refused"}
    BY <2>1 DEF TabForm, TabTypes
  <2> QED
    BY <2>1, <2>2, ScreenForm
<1> QED
  BY <1>1, <1>2, <1>3, <1>4, <1>5, <1>6, <1>7, <1>8, <1>9 DEF TableTabNext

\* Every request, row and write of a table tab keeps its form (TableDataTab.tsx), whatever
\* overlaps: no answer is for a row version that was never written, no request waits for a
\* page request that is not there, and no write is made beyond those that were started.
THEOREM TableTabTyped == TableTabSpec => []TableTabTypeOK
<1>1. TableTabInit => TabForm
  <2> SUFFICES ASSUME TableTabInit PROVE TabForm
    OBVIOUS
  <2>1. TabTypes /\ KeysReleased
    BY TabStarts, InvariantShowsTab DEF TabInv, TabCurrent
  <2> QED
    BY <2>1 DEF TabForm, KeysReleased, PageKey, TotalKey
<1>2. TabForm /\ [TableTabNext]_tableTabVars => TabForm'
  BY FormStep
<1>3. ASSUME TabForm PROVE TableTabTypeOK
  <2>1. TabTypes
    BY <1>3 DEF TabForm
  <2>2. /\ Len(wire) \in Nat
        /\ \A i \in 1..Len(wire) : wire[i] \in PageRequests
        /\ \A i \in 1..Len(countWire) :
             /\ countWire[i] \in CountRequests
             /\ countWire[i].after \in Nat /\ countWire[i].after <= Len(wire)
    BY <2>1, RequestsTyped
  <2>3. \A i \in 1..Len(countWire) :
          countWire[i] \in [pred : Preds, after : 0..Len(wire), at : 0..Unread]
    BY <2>2 DEF CountRequests
  <2>4. /\ writes \in Seq(WriteCalls) /\ Len(writes) \in Nat
        /\ \A i \in 1..Len(writes) : writes[i] \in WriteCalls
    BY <2>1, LenProperties, ElementOfSeq DEF TabTypes
  <2>5. tableVersion \in 0..MaxWrites
    BY <2>1, <2>4 DEF TabTypes
  <2> QED
    BY <2>1, <2>2, <2>3, <2>4, <2>5 DEF TabTypes, TableTabTypeOK, PageRequests, WriteCalls
<1> QED
  BY <1>1, <1>2, <1>3, PTL DEF TableTabSpec

\* KeysReleased holds whatever overlaps: however answers are reordered, queries change, writes
\* end and requests fail, the key that keeps a request from being sent twice belongs to a
\* request that is under way (inflightKeyRef, countInflightKeyRef), so no refresh is lost for
\* good.
THEOREM KeysAlwaysReleased == TableTabSpec => []KeysReleased
<1>1. TableTabInit => TabForm
  <2> SUFFICES ASSUME TableTabInit PROVE TabForm
    OBVIOUS
  <2>1. TabTypes /\ KeysReleased
    BY TabStarts, InvariantShowsTab DEF TabInv, TabCurrent
  <2> QED
    BY <2>1 DEF TabForm, KeysReleased, PageKey, TotalKey
<1>2. TabForm /\ [TableTabNext]_tableTabVars => TabForm'
  BY FormStep
<1>3. TabForm => KeysReleased
  BY DEF TabForm, KeysReleased, PageKey, TotalKey
<1> QED
  BY <1>1, <1>2, <1>3, PTL DEF TableTabSpec

HIDE TableTabAssumption

-----------------------------------------------------------------------------
(***************************************************************************)
(* AiTurns.                                                                *)
(***************************************************************************)

(* What the filter of a list keeps.                                        *)

\* How many of a kind there are up to each place of a list: one more wherever there is one.
LEMMA Ranks ==
  ASSUME NEW list, NEW those, NEW i \in Nat
  PROVE  /\ Rank(list, those, i) \in Nat
         /\ list[i + 1] \in those => Rank(list, those, i + 1) = Rank(list, those, i) + 1
         /\ list[i + 1] \notin those => Rank(list, those, i + 1) = Rank(list, those, i)
<1> DEFINE upTo(n) == {j \in 1..n : list[j] \in those}
<1>1. IsFiniteSet(upTo(i))
  <2>1. IsFiniteSet(1..i) /\ upTo(i) \in SUBSET (1..i)
    BY FS_Interval
  <2> QED
    BY ONLY <2>1, FS_Subset
<1>2. upTo(i + 1) = IF list[i + 1] \in those THEN upTo(i) \cup {i + 1} ELSE upTo(i)
  OBVIOUS
<1>3. i + 1 \notin upTo(i)
  OBVIOUS
<1> HIDE DEF upTo
<1>4. /\ Cardinality(upTo(i)) \in Nat
      /\ Cardinality(upTo(i) \cup {i + 1}) = Cardinality(upTo(i)) + 1
  BY <1>1, <1>3, FS_CardinalityType, FS_AddElement
<1>5. /\ Rank(list, those, i) = Cardinality(upTo(i))
      /\ Rank(list, those, i + 1) = Cardinality(upTo(i + 1))
  BY DEF Rank, upTo
<1> QED
  BY <1>2, <1>4, <1>5

LEMMA NoRankYet == ASSUME NEW list, NEW those PROVE Rank(list, those, 0) = 0
<1>1. {j \in 1..0 : list[j] \in those} = {}
  OBVIOUS
<1> QED
  BY <1>1, FS_EmptySet DEF Rank

\* A set of numbers has a least one.
LEMMA Least ==
  ASSUME NEW T \in SUBSET Nat, T # {}
  PROVE  \E x \in T : \A y \in T : x <= y
<1>1. \E x \in T : \A y \in T : <<y, x>> \notin OpToRel(<, Nat)
  BY NatLessThanWellFounded, WFMin
<1>2. ASSUME NEW x \in Nat, NEW y \in Nat, y < x PROVE <<y, x>> \in OpToRel(<, Nat)
  <2>1. <<y, x>> \in Nat \X Nat /\ <<y, x>>[1] < <<y, x>>[2]
    BY <1>2
  <2> QED
    BY <2>1, Zenon DEF OpToRel
<1>3. PICK x \in T : \A y \in T : ~(y < x)
  BY <1>1, <1>2
<1>4. \A y \in T : x <= y
  BY <1>3
<1> QED
  BY <1>4

\* A filter keeps members of the kind only, as many as there are, in the places of a list.
LEMMA Filters ==
  ASSUME NEW S, NEW s \in Seq(S), NEW kind
  PROVE  OfKind(s, kind) \in Seq(kind)
<1> DEFINE n == Len(s)
           rank(i) == Rank(s, kind, i)
<1>1. n \in Nat
  BY LenProperties
<1>2. /\ rank(0) = 0
      /\ \A i \in Nat : rank(i) \in Nat
      /\ \A i \in Nat : s[i + 1] \in kind => rank(i + 1) = rank(i) + 1
      /\ \A i \in Nat : s[i + 1] \notin kind => rank(i + 1) = rank(i)
  BY Ranks, NoRankYet
<1> HIDE DEF rank, n
<1>3. ASSUME NEW k \in 1..rank(n)
      PROVE  \E i \in 1..n : s[i] \in kind /\ rank(i) = k
  <2> DEFINE T == {i \in Nat : rank(i) >= k}
  <2>1. T \in SUBSET Nat /\ n \in T
    BY <1>1, <1>2, <1>3
  <2>2. PICK i \in T : \A j \in T : i <= j
    BY <2>1, Least
  <2>3. i \in Nat /\ rank(i) >= k /\ i <= n
    BY <2>1, <2>2
  <2>4. k \in Nat \ {0} /\ rank(n) \in Nat
    BY <1>1, <1>2, <1>3
  <2>5. i # 0
    BY <1>2, <2>3, <2>4
  <2>6. i - 1 \in Nat /\ i - 1 \notin T /\ (i - 1) + 1 = i
    BY <2>2, <2>3, <2>5
  <2>7. rank(i - 1) < k /\ rank(i - 1) \in Nat
    BY <1>2, <2>4, <2>6
  <2>8. (rank(i) = rank(i - 1) + 1 /\ s[i] \in kind) \/ rank(i) = rank(i - 1)
    BY <1>2, <2>6
  <2>9. s[i] \in kind /\ rank(i) = k
    BY <2>3, <2>4, <2>7, <2>8
  <2> QED
    BY <1>1, <2>3, <2>5, <2>9
<1>4. rank(n) \in Nat
  BY <1>1, <1>2
<1> DEFINE at(k) == CHOOSE i \in 1..n : s[i] \in kind /\ rank(i) = k
<1>5. OfKind(s, kind) = [k \in 1..rank(n) |-> s[at(k)]]
  BY DEF OfKind, rank, n
<1>6. ASSUME NEW k \in 1..rank(n) PROVE s[at(k)] \in kind
  BY <1>3
<1> HIDE DEF at
<1>7. OfKind(s, kind) \in [1..rank(n) -> kind]
  BY <1>5, <1>6
<1> QED
  BY <1>4, <1>7

\* Of a list without a kind, followed by one of that kind, the filter keeps the latter.
LEMMA KeepsWhatFollows ==
  ASSUME NEW S, NEW r \in Seq(S), NEW kind \in SUBSET S, NEW c \in Seq(kind),
         \A i \in 1..Len(r) : r[i] \notin kind
  PROVE  OfKind(r \o c, kind) = c
<1> DEFINE q == r \o c
           m == Len(r)
           l == Len(c)
<1>1. /\ m \in Nat /\ l \in Nat /\ c \in Seq(S) /\ c \in [1..l -> kind]
  BY LenProperties, SeqMonotonic
<1>2. /\ Len(q) = m + l
      /\ \A i \in 1..m + l : q[i] = IF i <= m THEN r[i] ELSE c[i - m]
  BY <1>1, ConcatProperties
<1> HIDE DEF q, m, l
<1>3. ASSUME NEW i \in 1..m + l PROVE q[i] \in kind <=> i > m
  <2>1. CASE i <= m
    BY <1>1, <1>2, <2>1 DEF m
  <2>2. CASE i > m
    <3>1. i - m \in 1..l
      BY <1>1, <2>2
    <3> QED
      BY <1>1, <1>2, <2>2, <3>1
  <2> QED
    BY <1>1, <2>1, <2>2
<1>4. ASSUME NEW i \in 1..m + l PROVE Rank(q, kind, i) = IF i <= m THEN 0 ELSE i - m
  <2>1. {j \in 1..i : q[j] \in kind} = (m + 1)..i
    BY <1>1, <1>3
  <2>2. Cardinality((m + 1)..i) = IF m + 1 > i THEN 0 ELSE i - (m + 1) + 1
    BY <1>1, FS_Interval
  <2>3. Rank(q, kind, i) = Cardinality((m + 1)..i)
    BY <2>1, Zenon DEF Rank
  <2> QED
    BY <1>1, <2>2, <2>3
<1>5. Rank(q, kind, Len(q)) = l
  <2>1. CASE m + l = 0
    <3>1. Len(q) = 0 /\ l = 0
      BY <1>1, <1>2, <2>1
    <3> QED
      BY <3>1, NoRankYet
  <2>2. CASE m + l # 0
    BY <1>1, <1>2, <1>4, <2>2
  <2> QED
    BY <2>1, <2>2
<1> DEFINE at(k) == CHOOSE i \in 1..Len(q) : q[i] \in kind /\ Rank(q, kind, i) = k
<1>6. OfKind(q, kind) = [k \in 1..l |-> q[at(k)]]
  BY <1>5 DEF OfKind
<1>7. ASSUME NEW k \in 1..l PROVE q[at(k)] = c[k]
  <2>1. m + k \in 1..Len(q) /\ q[m + k] \in kind /\ Rank(q, kind, m + k) = k
    BY <1>1, <1>2, <1>3, <1>4
  <2>2. \A i \in 1..Len(q) : q[i] \in kind /\ Rank(q, kind, i) = k => i = m + k
    BY <1>1, <1>2, <1>3, <1>4
  <2>3. at(k) = m + k
    BY <2>1, <2>2
  <2> HIDE DEF at
  <2> QED
    BY <1>1, <1>2, <2>1, <2>3
<1> HIDE DEF at
<1>8. OfKind(q, kind) = [k \in 1..l |-> c[k]]
  BY <1>6, <1>7
<1> QED
  BY <1>1, <1>8 DEF q

-----------------------------------------------------------------------------
(* Turns.                                                                  *)

USE AiTurnsAssumption

Steps == {"none", "preparing", "running", "notified", "answered", "failed", "over", "lost"}
Awaited == Steps \ {"none", "over", "lost"}
Sides ==
  [pc : Steps, step : 1..MaxSteps, chunks : 0..MaxChunks, nudged : BOOLEAN,
   content : Seq(TextPart)]

Types ==
  /\ messages \in [Talks -> Seq(TurnIds)] /\ turnId \in [Talks -> 0..MaxTurns]
  /\ failure \in [Talks -> BOOLEAN] /\ parts \in [TurnIds -> Seq(Part)]
  /\ turnOwners \in [TurnIds -> SUBSET Talks] /\ turn \in [TurnIds -> Sides]
  /\ events \in Seq([turn : TurnIds, part : Part]) /\ questions \in 0..MaxTurns

Shows(c, t) == t \in Seqs!Range(messages[c])

\* A turn is in a transcript once it was asked for.
AskedFor ==
  \A t \in TurnIds :
    /\ t > questions => turn[t].pc = "none"
    /\ turn[t].pc = "none" => \A c \in Talks : ~Shows(c, t)

\* A conversation waits for the turn it asked for last, and is filed as its owner.
Waits ==
  \A c \in Talks : turnId[c] # 0 =>
    /\ messages[c] # <<>> /\ LastTurn(c) = turnId[c]
    /\ turn[turnId[c]].pc \in Awaited /\ c \in turnOwners[turnId[c]]

\* It waits for every turn in its transcript that is not over.
NoneForgotten ==
  \A c \in Talks : \A t \in TurnIds : Shows(c, t) /\ turn[t].pc \in Awaited => turnId[c] = t

TurnsInv == Types /\ AskedFor /\ Waits /\ NoneForgotten /\ TurnLands

LEMMA PartTypes ==
  /\ \A i \in 1..MaxSteps : ToolCall(i) \in Part /\ ToolResult(i) \in Part
  /\ \A i \in 1..MaxSteps, n \in 0..MaxChunks : Text(i, n) \in TextPart
  /\ Note \in TextPart /\ TextPart \subseteq Part /\ ToolPart \subseteq Part
BY DEF ToolCall, ToolResult, Text, Note, Part, TextPart, ToolPart

\* Reconciled with an answer, a message has the answer for its text.
LEMMA Reconciles ==
  ASSUME NEW shown \in Seq(Part), NEW content \in Seq(TextPart)
  PROVE  /\ Reconciled(shown, content) \in Seq(Part)
         /\ OfKind(Reconciled(shown, content), TextPart) = content
<1>1. CASE OfKind(shown, TextPart) = content
  BY <1>1 DEF Reconciled
<1>2. CASE OfKind(shown, TextPart) # content
  <2> DEFINE tools == OfKind(shown, ToolPart)
  <2>1. tools \in Seq(ToolPart)
    BY Filters
  <2> HIDE DEF tools
  <2>2. tools \in Seq(Part) /\ content \in Seq(Part)
    BY <2>1, PartTypes, SeqMonotonic
  <2>3. \A i \in 1..Len(tools) : tools[i] \notin TextPart
    BY <2>1, ElementOfSeq DEF ToolPart
  <2>4. tools \o content \in Seq(Part) /\ OfKind(tools \o content, TextPart) = content
    BY <2>2, <2>3, PartTypes, ConcatProperties, KeepsWhatFollows
  <2>5. Reconciled(shown, content) = tools \o content
    BY <1>2 DEF Reconciled, tools
  <2> QED
    BY <2>4, <2>5
<1> QED
  BY <1>1, <1>2

\* What a transcript shows, by its places.
LEMMA ShownAt ==
  ASSUME Types, NEW c \in Talks
  PROVE  /\ messages[c] \in Seq(TurnIds) /\ Len(messages[c]) \in Nat
         /\ \A t : Shows(c, t) <=> \E i \in 1..Len(messages[c]) : messages[c][i] = t
         /\ \A t : Shows(c, t) => t \in TurnIds
         /\ messages[c] # <<>> => Shows(c, LastTurn(c)) /\ LastTurn(c) \in TurnIds
<1>1. /\ messages[c] \in Seq(TurnIds) /\ Len(messages[c]) \in Nat
      /\ DOMAIN messages[c] = 1..Len(messages[c])
  BY LenProperties DEF Types
<1>2. \A t : Shows(c, t) <=> \E i \in 1..Len(messages[c]) : messages[c][i] = t
  BY <1>1 DEF Shows, Seqs!Range
<1>3. ASSUME messages[c] # <<>> PROVE Shows(c, LastTurn(c)) /\ LastTurn(c) \in TurnIds
  <2>1. Len(messages[c]) \in 1..Len(messages[c])
    BY <1>1, <1>3, EmptySeq
  <2> QED
    BY <1>1, <1>2, <2>1, ElementOfSeq DEF LastTurn, Seqs!Last
<1>4. \A t : Shows(c, t) => t \in TurnIds
  BY <1>1, <1>2, ElementOfSeq
<1> QED
  BY <1>1, <1>2, <1>3, <1>4

LEMMA TurnsStart == AiTurnsInit => TurnsInv
<1> SUFFICES ASSUME AiTurnsInit PROVE TurnsInv
  OBVIOUS
<1>1. Types
  <2>1. NoTurn \in Sides
    BY EmptySeq DEF NoTurn, Sides, Steps
  <2>2. messages \in [Talks -> Seq(TurnIds)] /\ parts \in [TurnIds -> Seq(Part)]
    BY EmptySeq DEF AiTurnsInit
  <2>3. events \in Seq([turn : TurnIds, part : Part])
    BY EmptySeq DEF AiTurnsInit
  <2>4. turnId \in [Talks -> 0..MaxTurns] /\ questions \in 0..MaxTurns
    BY DEF AiTurnsInit
  <2> QED
    BY <2>1, <2>2, <2>3, <2>4 DEF AiTurnsInit, Types
<1>2. \A c \in Talks : \A t : ~Shows(c, t)
  <2> SUFFICES ASSUME NEW c \in Talks, NEW t PROVE ~Shows(c, t)
    OBVIOUS
  <2>1. Len(messages[c]) = 0
    BY EmptySeq DEF AiTurnsInit
  <2> QED
    BY <1>1, <2>1, ShownAt
<1> QED
  BY <1>1, <1>2 DEF TurnsInv, AskedFor, Waits, NoneForgotten, TurnLands, Shows, AiTurnsInit,
                   NoTurn

(* What a step leaves alone of a turn that is over, and of the transcripts.  *)

\* Of the backend's side of a turn, steps before its answer concern nothing on screen.
LEMMA SideMoves ==
  ASSUME TurnsInv, NEW t \in TurnIds, turn[t].pc \in Awaited, UNCHANGED <<talk, questions>>,
         NEW side \in Sides, side.pc \in Awaited, turn' = [turn EXCEPT ![t] = side],
         events' \in Seq([turn : TurnIds, part : Part])
  PROVE  TurnsInv'
<1>1. Types /\ talk' = talk
  BY DEF TurnsInv
<1>2. Types'
  BY <1>1 DEF Types, talk
<1>3. /\ turn'[t].pc \in Awaited
      /\ \A u \in TurnIds : u # t => turn'[u] = turn[u]
  BY <1>1 DEF Types
<1>4. /\ \A c \in Talks : \A u : Shows(c, u)' <=> Shows(c, u)
      /\ \A c \in Talks : LastTurn(c)' = LastTurn(c)
  BY DEF Shows, LastTurn, talk
<1>5. AskedFor'
  BY <1>3, <1>4 DEF TurnsInv, AskedFor, Awaited
<1>6. Waits'
  BY <1>1, <1>3, <1>4 DEF TurnsInv, Waits, Types, talk
<1>7. NoneForgotten'
  BY <1>1, <1>3, <1>4 DEF TurnsInv, NoneForgotten, talk
<1>8. TurnLands'
  <2>1. TurnLands
    BY DEF TurnsInv
  <2> SUFFICES ASSUME NEW c \in Talks, NEW u \in Seqs!Range(messages[c])
               PROVE  /\ turn'[u].pc = "over" => OfKind(parts[u], TextPart) = turn'[u].content
                      /\ turn'[u].pc = "lost" /\ u = LastTurn(c) => failure[c]
    BY DEF TurnLands, LastTurn, talk
  <2>2. u \in TurnIds
    BY <1>1, ShownAt DEF Shows
  <2>3. CASE u = t
    BY <1>3, <2>3 DEF Awaited
  <2>4. CASE u # t
    BY <1>3, <2>1, <2>2, <2>4 DEF TurnLands
  <2> QED
    BY <2>3, <2>4
<1> QED
  BY <1>2, <1>5, <1>6, <1>7, <1>8 DEF TurnsInv

\* What the backend does, on its side of a turn that is not over.
LEMMA BackendMoves ==
  ASSUME Types, NEW t \in TurnIds,
         \/ Registered(t) \/ Stream(t) \/ UseTool(t) \/ Nudge(t)
         \/ Answered(t, TRUE) \/ Answered(t, FALSE) \/ Broken(t)
  PROVE  /\ turn[t].pc \in Awaited /\ UNCHANGED <<talk, questions>>
         /\ events' \in Seq([turn : TurnIds, part : Part])
         /\ \E side \in Sides : side.pc \in Awaited /\ turn' = [turn EXCEPT ![t] = side]
<1> DEFINE S == [turn : TurnIds, part : Part]
           Moved == /\ turn[t].pc \in Awaited /\ UNCHANGED <<talk, questions>>
                    /\ events' \in Seq(S)
                    /\ \E side \in Sides : side.pc \in Awaited /\ turn' = [turn EXCEPT ![t] = side]
<1>1. /\ turn \in [TurnIds -> Sides] /\ turn[t] \in Sides /\ events \in Seq(S)
      /\ MaxSteps \in Nat /\ MaxChunks \in Nat
  BY AiTurnsAssumption DEF Types
<1>2. ASSUME NEW ps \in Seq(Part), Emit(t, ps) PROVE events' \in Seq(S)
  <2>1. [i \in 1..Len(ps) |-> [turn |-> t, part |-> ps[i]]] \in Seq(S)
    <3>1. Len(ps) \in Nat /\ \A i \in 1..Len(ps) : ps[i] \in Part
      BY LenProperties, ElementOfSeq
    <3> QED
      BY <3>1
  <2> QED
    BY <1>1, <1>2, <2>1, ConcatProperties DEF Emit
<1>3. ASSUME NEW cut \in BOOLEAN, turn[t].pc \in {"running", "notified"}
      PROVE  \E side \in Sides : side.pc \in Awaited /\ Ended(t, cut) = [turn EXCEPT ![t] = side]
  <2> DEFINE said == [n \in 1..turn[t].chunks |-> Text(turn[t].step, n)]
             note == IF cut THEN <<Note>> ELSE <<>>
             side == [turn[t] EXCEPT !.pc = "answered", !.content = said \o note]
  <2>1. said \in Seq(TextPart)
    <3>1. turn[t].chunks \in 0..MaxChunks /\ turn[t].step \in 1..MaxSteps
      BY <1>1 DEF Sides
    <3>2. \A n \in 1..turn[t].chunks : Text(turn[t].step, n) \in TextPart
      BY <1>1, <3>1, PartTypes
    <3> QED
      BY <1>1, <3>1, <3>2
  <2>2. note \in Seq(TextPart)
    BY PartTypes, EmptySeq
  <2>3. said \o note \in Seq(TextPart)
    BY <2>1, <2>2, ConcatProperties
  <2>4. Ended(t, cut) = [turn EXCEPT ![t] = side]
    BY DEF Ended
  <2> HIDE DEF said, note
  <2>5. side \in Sides /\ side.pc \in Awaited
    BY <1>1, <2>3 DEF Sides, Steps, Awaited
  <2> QED
    BY <2>4, <2>5
<1>4. ASSUME turn[t].step < MaxSteps, turn[t].pc \in Awaited
      PROVE  \E side \in Sides : side.pc \in Awaited /\ NextStep(t) = [turn EXCEPT ![t] = side]
  <2> DEFINE side == [turn[t] EXCEPT !.step = @ + 1, !.chunks = 0]
  <2>0. turn[t].step + 1 \in 1..MaxSteps /\ 0 \in 0..MaxChunks
    BY <1>1, <1>4 DEF Sides
  <2>1. side \in Sides /\ side.pc \in Awaited
    BY <1>1, <1>4, <2>0 DEF Sides
  <2>2. NextStep(t) = [turn EXCEPT ![t] = side]
    BY DEF NextStep
  <2> QED
    BY <2>1, <2>2
<1>5. CASE Registered(t)
  <2> DEFINE side == [turn[t] EXCEPT !.pc = "running"]
  <2>1. side \in Sides /\ side.pc \in Awaited /\ turn' = [turn EXCEPT ![t] = side]
    BY <1>1, <1>5 DEF Registered, Sides, Steps, Awaited
  <2>2. UNCHANGED <<talk, questions, events>> /\ turn[t].pc \in Awaited
    BY <1>5 DEF Registered, Awaited, Steps
  <2> QED
    BY <1>1, <2>1, <2>2
<1>6. CASE Stream(t)
  <2> DEFINE side == [turn[t] EXCEPT !.chunks = @ + 1]
  <2>1. /\ turn[t].step \in 1..MaxSteps /\ turn[t].chunks + 1 \in 0..MaxChunks
        /\ turn[t].pc \in Awaited
    BY <1>1, <1>6 DEF Stream, Sides, Awaited, Steps
  <2>2. side \in Sides /\ side.pc \in Awaited /\ turn' = [turn EXCEPT ![t] = side]
    BY <1>1, <1>6, <2>1 DEF Stream, Sides
  <2>3. <<Text(turn[t].step, turn[t].chunks + 1)>> \in Seq(Part)
    BY <2>1, PartTypes
  <2>4. events' \in Seq(S) /\ UNCHANGED <<talk, questions>>
    BY <1>2, <1>6, <2>3 DEF Stream
  <2> QED
    BY <2>1, <2>2, <2>4
<1>7. CASE UseTool(t)
  <2>1. turn[t].pc = "running" /\ turn[t].step \in 1..MaxSteps
    BY <1>1, <1>7 DEF UseTool, Sides
  <2>2. <<ToolCall(turn[t].step), ToolResult(turn[t].step)>> \in Seq(Part)
    BY <2>1, PartTypes
  <2>3. events' \in Seq(S) /\ UNCHANGED <<talk, questions>>
    BY <1>2, <1>7, <2>2 DEF UseTool
  <2>4. turn[t].pc \in Awaited
    BY <2>1 DEF Awaited, Steps
  <2>5. \E side \in Sides : side.pc \in Awaited /\ turn' = [turn EXCEPT ![t] = side]
    BY <1>3, <1>4, <1>7, <2>1, <2>4 DEF UseTool
  <2> QED
    BY <2>3, <2>4, <2>5
<1>8. CASE Nudge(t)
  <2>1. turn[t].pc \in Awaited /\ UNCHANGED <<talk, questions, events>>
    BY <1>8 DEF Nudge, Awaited, Steps
  <2>2. PICK side \in Sides : side.pc \in Awaited /\ NextStep(t) = [turn EXCEPT ![t] = side]
    BY <1>4, <1>8, <2>1 DEF Nudge
  <2> DEFINE nudged == [side EXCEPT !.nudged = TRUE]
  <2>3. turn' = [turn EXCEPT ![t] = nudged]
    BY <1>1, <1>8, <2>2 DEF Nudge
  <2>4. nudged \in Sides /\ nudged.pc \in Awaited
    BY <2>2 DEF Sides
  <2> QED
    BY <1>1, <2>1, <2>3, <2>4
<1>9. ASSUME NEW cut \in BOOLEAN, Answered(t, cut) PROVE Moved
  <2>1. turn[t].pc \in {"running", "notified"} /\ UNCHANGED <<talk, questions, events>>
    BY <1>9 DEF Answered
  <2>2. turn[t].pc \in Awaited
    BY <2>1 DEF Awaited, Steps
  <2>3. \E side \in Sides : side.pc \in Awaited /\ turn' = [turn EXCEPT ![t] = side]
    BY <1>3, <1>9, <2>1 DEF Answered
  <2> QED
    BY <1>1, <2>1, <2>2, <2>3
<1>10. CASE Broken(t)
  <2> DEFINE side == [turn[t] EXCEPT !.pc = "failed"]
  <2>1. side \in Sides /\ side.pc \in Awaited /\ turn' = [turn EXCEPT ![t] = side]
    BY <1>1, <1>10 DEF Broken, Sides, Steps, Awaited
  <2>2. UNCHANGED <<talk, questions, events>> /\ turn[t].pc \in Awaited
    BY <1>10 DEF Broken, Awaited, Steps
  <2> QED
    BY <1>1, <2>1, <2>2
<1> QED
  BY <1>5, <1>6, <1>7, <1>8, <1>9, <1>10

LEMMA BackendSteps ==
  ASSUME TurnsInv, NEW t \in TurnIds,
         \/ Registered(t) \/ Stream(t) \/ UseTool(t) \/ Nudge(t)
         \/ Answered(t, TRUE) \/ Answered(t, FALSE) \/ Broken(t)
  PROVE  TurnsInv'
<1>1. Types
  BY DEF TurnsInv
<1> QED
  BY <1>1, BackendMoves, SideMoves

(* What the window does.                                                   *)

\* A question.
LEMMA QuestionAsked ==
  ASSUME Impatient = FALSE, TurnsInv, NEW c \in Talks, StartTurn(c)
  PROVE  TurnsInv'
<1> DEFINE t == questions + 1
<1>1. /\ Types /\ MaxTurns \in Nat /\ t \in TurnIds /\ t \in 0..MaxTurns /\ questions' = t
      /\ questions \in Nat /\ turnId[c] = 0
  BY AiTurnsAssumption DEF TurnsInv, Types, StartTurn, TurnIds
<1>2. turn[t].pc = "none" /\ \A d \in Talks : ~Shows(d, t)
  BY <1>1 DEF TurnsInv, AskedFor
<1> HIDE DEF t
<1>3. /\ messages' = [messages EXCEPT ![c] = Append(@, t)]
      /\ turnId' = [turnId EXCEPT ![c] = t]
      /\ failure' = [failure EXCEPT ![c] = FALSE]
      /\ turnOwners' = [turnOwners EXCEPT ![t] = {c}]
      /\ turn' = [turn EXCEPT ![t].pc = "preparing"]
      /\ UNCHANGED <<parts, events>>
  BY <1>1 DEF StartTurn
<1>4. messages[c] \in Seq(TurnIds)
  BY <1>1 DEF Types
<1>5. Types'
  <2>1. Append(messages[c], t) \in Seq(TurnIds)
    BY <1>1, <1>4, AppendProperties
  <2>2. [turn[t] EXCEPT !.pc = "preparing"] \in Sides
    BY <1>1 DEF Types, Sides, Steps
  <2> QED
    BY <1>1, <1>3, <2>1, <2>2 DEF Types
<1>6. /\ LastTurn(c)' = t /\ messages'[c] # <<>> /\ \A u : Shows(c, u)' <=> Shows(c, u) \/ u = t
  <2>1. /\ Append(messages[c], t) # <<>>
        /\ Len(Append(messages[c], t)) = Len(messages[c]) + 1
        /\ DOMAIN Append(messages[c], t) = 1..Len(messages[c]) + 1
        /\ Append(messages[c], t)[Len(messages[c]) + 1] = t
        /\ \A j \in 1..Len(messages[c]) : Append(messages[c], t)[j] = messages[c][j]
    BY <1>1, <1>4, Appended
  <2>2. messages'[c] = Append(messages[c], t)
    BY <1>1, <1>3 DEF Types
  <2>3. Len(messages[c]) \in Nat /\ DOMAIN messages[c] = 1..Len(messages[c])
    BY <1>4, LenProperties
  <2>4. 1..Len(messages[c]) + 1 = 1..Len(messages[c]) \cup {Len(messages[c]) + 1}
    BY <2>3
  <2> QED
    BY <2>1, <2>2, <2>3, <2>4 DEF LastTurn, Seqs!Last, Shows, Seqs!Range
<1>7. ASSUME NEW d \in Talks, d # c
      PROVE  /\ LastTurn(d)' = LastTurn(d) /\ messages'[d] = messages[d]
             /\ turnId'[d] = turnId[d] /\ failure'[d] = failure[d]
             /\ \A u : Shows(d, u)' <=> Shows(d, u)
  BY <1>1, <1>3, <1>7 DEF Types, LastTurn, Shows
<1>8. /\ turn'[t].pc = "preparing" /\ turnOwners'[t] = {c} /\ turnId'[c] = t
      /\ \A u \in TurnIds : u # t => turn'[u] = turn[u] /\ turnOwners'[u] = turnOwners[u]
  BY <1>1, <1>3 DEF Types, Sides
<1>9. AskedFor'
  <2>1. \A u \in TurnIds : u > t => u > questions /\ u # t
    BY <1>1 DEF TurnIds, t
  <2>2. \A u \in TurnIds, d \in Talks : Shows(d, u)' => u = t \/ Shows(d, u)
    BY <1>6, <1>7
  <2> QED
    BY <1>1, <1>8, <2>1, <2>2 DEF TurnsInv, AskedFor
<1>10. Waits'
  <2> SUFFICES ASSUME NEW d \in Talks, turnId'[d] # 0
               PROVE  /\ messages'[d] # <<>> /\ LastTurn(d)' = turnId'[d]
                      /\ turn'[turnId'[d]].pc \in Awaited /\ d \in turnOwners'[turnId'[d]]
    BY DEF Waits
  <2>1. CASE d = c
    BY <1>6, <1>8, <2>1 DEF Awaited, Steps
  <2>2. CASE d # c
    <3>1. /\ messages[d] # <<>> /\ LastTurn(d) = turnId[d] /\ turn[turnId[d]].pc \in Awaited
          /\ d \in turnOwners[turnId[d]] /\ turnId[d] \in TurnIds
      BY <1>1, <1>7, <2>2, ShownAt DEF TurnsInv, Waits
    <3>2. turnId[d] # t
      BY <1>2, <3>1 DEF Awaited
    <3> QED
      BY <1>7, <1>8, <2>2, <3>1, <3>2
  <2> QED
    BY <2>1, <2>2
<1>11. NoneForgotten'
  <2> SUFFICES ASSUME NEW d \in Talks, NEW u \in TurnIds, Shows(d, u)', turn'[u].pc \in Awaited
               PROVE  turnId'[d] = u
    BY DEF NoneForgotten
  <2>1. CASE u = t
    <3>1. d = c
      BY <1>2, <1>7, <2>1
    <3> QED
      BY <1>8, <2>1, <3>1
  <2>2. CASE u # t
    <3>1. Shows(d, u) /\ turn[u].pc \in Awaited
      BY <1>6, <1>7, <1>8, <2>2
    <3>2. turnId[d] = u /\ u # 0
      BY <1>1, <3>1 DEF TurnsInv, NoneForgotten, TurnIds
    <3>3. d # c
      BY <1>1, <3>2
    <3> QED
      BY <1>7, <3>2, <3>3
  <2> QED
    BY <2>1, <2>2
<1>12. TurnLands'
  <2>0. \A d \in Talks : \A u : Shows(d, u)' => u \in TurnIds
    BY <1>1, <1>6, <1>7, ShownAt
  <2> SUFFICES ASSUME NEW d \in Talks, NEW u \in TurnIds, Shows(d, u)'
               PROVE  /\ turn'[u].pc = "over" => OfKind(parts'[u], TextPart) = turn'[u].content
                      /\ turn'[u].pc = "lost" /\ u = LastTurn(d)' => failure'[d]
    BY <2>0 DEF TurnLands, Shows
  <2>1. CASE u = t
    BY <1>8, <2>1
  <2>2. CASE u # t
    <3>1. Shows(d, u)
      BY <1>6, <1>7, <2>2
    <3> QED
      BY <1>3, <1>6, <1>7, <1>8, <2>2, <3>1 DEF TurnsInv, TurnLands, Shows
  <2> QED
    BY <2>1, <2>2
<1> QED
  BY <1>5, <1>9, <1>10, <1>11, <1>12 DEF TurnsInv

\* Something written arrives, and is put under the question it answers.
LEMMA Delivered ==
  ASSUME TurnsInv, Deliver
  PROVE  TurnsInv'
<1> DEFINE e == Head(events)
<1>1. /\ Types /\ events # <<>> /\ events' = Tail(events)
      /\ UNCHANGED <<messages, turnId, failure, turnOwners, turn, questions>>
  BY DEF TurnsInv, Deliver
<1>2. /\ e \in [turn : TurnIds, part : Part]
      /\ Tail(events) \in Seq([turn : TurnIds, part : Part])
  BY <1>1, HeadTailProperties DEF Types
<1> HIDE DEF e
<1>3. /\ parts' \in [TurnIds -> Seq(Part)]
      /\ \A t \in TurnIds : turn[t].pc \notin Awaited => parts'[t] = parts[t]
  <2>1. parts' = [t \in TurnIds |->
                   IF \E c \in {d \in InTurn(e.turn) : messages[d] # <<>>} : t = LastTurn(c)
                     THEN Append(parts[t], e.part) ELSE parts[t]]
    BY DEF Deliver, e
  <2>2. \A t \in TurnIds : parts[t] \in Seq(Part) /\ Append(parts[t], e.part) \in Seq(Part)
    BY <1>1, <1>2, AppendProperties DEF Types
  <2>3. ASSUME NEW c \in InTurn(e.turn) PROVE turn[LastTurn(c)].pc \in Awaited
    <3>1. c \in Talks /\ turnId[c] = e.turn /\ e.turn \in TurnIds
      BY <1>1, <1>2 DEF InTurn, Types
    <3>2. turnId[c] # 0
      BY <3>1 DEF TurnIds
    <3> QED
      BY <3>1, <3>2 DEF TurnsInv, Waits
  <2> QED
    BY <2>1, <2>2, <2>3
<1>4. /\ \A c \in Talks : \A u : Shows(c, u)' <=> Shows(c, u)
      /\ \A c \in Talks : LastTurn(c)' = LastTurn(c)
  BY <1>1 DEF Shows, LastTurn
<1>5. Types' /\ AskedFor' /\ Waits' /\ NoneForgotten'
  BY <1>1, <1>2, <1>3, <1>4 DEF TurnsInv, Types, AskedFor, Waits, NoneForgotten
<1>6. TurnLands'
  <2>1. \A c \in Talks : \A t : Shows(c, t) => t \in TurnIds
    BY <1>1, ShownAt
  <2> QED
    BY <1>1, <1>3, <1>4, <2>1 DEF TurnsInv, TurnLands, Awaited, Shows
<1> QED
  BY <1>5, <1>6 DEF TurnsInv

\* An answer, or the failure of one.
LEMMA AnswerComes ==
  ASSUME TurnsInv, NEW t \in TurnIds, Finish(t) \/ Fail(t)
  PROVE  TurnsInv'
<1> DEFINE after == IF Finish(t) THEN "over" ELSE "lost"
<1>1. /\ Types /\ turn[t].pc \in Awaited /\ t # 0
      /\ turn' = [turn EXCEPT ![t].pc = after]
      /\ turnId' = [c \in Talks |-> IF c \in InTurn(t) THEN 0 ELSE turnId[c]]
      /\ turnOwners' = [turnOwners EXCEPT ![t] = {}]
      /\ UNCHANGED <<messages, events, questions>>
  BY DEF TurnsInv, Finish, Fail, Awaited, Steps, TurnIds
<1>2. /\ turn[t] \in Sides /\ turn'[t] = [turn[t] EXCEPT !.pc = after] /\ turn'[t].pc = after
      /\ turn'[t].content = turn[t].content
      /\ \A u \in TurnIds : u # t => turn'[u] = turn[u] /\ turnOwners'[u] = turnOwners[u]
  BY <1>1 DEF Types, Sides
<1>3. /\ parts' \in [TurnIds -> Seq(Part)] /\ failure' \in [Talks -> BOOLEAN]
      /\ \A u \in TurnIds : u # t => parts'[u] = parts[u]
      /\ \A c \in Talks : failure[c] => failure'[c]
      /\ \A c \in InTurn(t) : after = "lost" => failure'[c]
      /\ after = "over" /\ InTurn(t) # {} => OfKind(parts'[t], TextPart) = turn[t].content
  <2>1. parts[t] \in Seq(Part) /\ turn[t].content \in Seq(TextPart)
    BY <1>1, <1>2 DEF Types, Sides
  <2>2. /\ Reconciled(parts[t], turn[t].content) \in Seq(Part)
        /\ OfKind(Reconciled(parts[t], turn[t].content), TextPart) = turn[t].content
    BY <2>1, Reconciles
  <2>3. InTurn(t) \subseteq Talks
    BY <1>1 DEF InTurn, Types
  <2>4. CASE Finish(t)
    BY <1>1, <2>2, <2>4 DEF Finish, Types
  <2>5. CASE ~Finish(t)
    <3>1. /\ failure' = [c \in Talks |-> failure[c] \/ c \in InTurn(t)]
          /\ parts' = parts /\ after = "lost"
      BY <2>5 DEF Fail
    <3> QED
      BY <1>1, <2>3, <3>1 DEF Types
  <2> QED
    BY <2>4, <2>5
<1>4. /\ \A c \in Talks : \A u : Shows(c, u)' <=> Shows(c, u)
      /\ \A c \in Talks : LastTurn(c)' = LastTurn(c)
  BY <1>1 DEF Shows, LastTurn
<1>5. after \in {"over", "lost"}
  OBVIOUS
<1> HIDE DEF after
<1>6. \A c \in Talks : turnId[c] = t <=> c \in InTurn(t)
  BY <1>1 DEF TurnsInv, Waits, InTurn, Types
<1>7. Types'
  <2>1. turn'[t] \in Sides
    BY <1>2, <1>5 DEF Sides, Steps
  <2>2. turn' \in [TurnIds -> Sides]
    BY <1>1, <1>2, <2>1 DEF Types
  <2>3. turnId' \in [Talks -> 0..MaxTurns]
    BY <1>1, AiTurnsAssumption DEF Types
  <2>4. turnOwners' \in [TurnIds -> SUBSET Talks]
    BY <1>1 DEF Types
  <2> QED
    BY <1>1, <1>3, <2>2, <2>3, <2>4 DEF Types
<1>8. AskedFor'
  BY <1>1, <1>2, <1>4, <1>5 DEF TurnsInv, AskedFor, Awaited
<1>9. Waits'
  <2> SUFFICES ASSUME NEW c \in Talks, turnId'[c] # 0
               PROVE  /\ messages'[c] # <<>> /\ LastTurn(c)' = turnId'[c]
                      /\ turn'[turnId'[c]].pc \in Awaited /\ c \in turnOwners'[turnId'[c]]
    BY DEF Waits
  <2>1. turnId'[c] = turnId[c] /\ turnId[c] # t
    BY <1>1, <1>6
  <2>2. turnId[c] \in TurnIds
    BY <1>1, <2>1, ShownAt DEF TurnsInv, Waits
  <2> QED
    BY <1>1, <1>2, <1>4, <2>1, <2>2 DEF TurnsInv, Waits
<1>10. NoneForgotten'
  BY <1>1, <1>2, <1>4, <1>5, <1>6 DEF TurnsInv, NoneForgotten, Awaited
<1>11. TurnLands'
  <2>0. \A c \in Talks : \A u : Shows(c, u) => u \in TurnIds
    BY <1>1, ShownAt
  <2> SUFFICES ASSUME NEW c \in Talks, NEW u \in TurnIds, Shows(c, u)
               PROVE  /\ turn'[u].pc = "over" => OfKind(parts'[u], TextPart) = turn'[u].content
                      /\ turn'[u].pc = "lost" /\ u = LastTurn(c) => failure'[c]
    BY <1>4, <2>0 DEF TurnLands, Shows
  <2>1. CASE u = t
    <3>1. c \in InTurn(t)
      BY <1>1, <1>6, <2>1 DEF TurnsInv, NoneForgotten
    <3> QED
      BY <1>2, <1>3, <1>5, <2>1, <3>1
  <2>2. CASE u # t
    BY <1>2, <1>3, <2>2 DEF TurnsInv, TurnLands, Shows
  <2> QED
    BY <2>1, <2>2
<1> QED
  BY <1>7, <1>8, <1>9, <1>10, <1>11 DEF TurnsInv

\* The transcript is emptied, or the turn being answered is told to stop.
LEMMA ClearedOrStopped ==
  ASSUME TurnsInv, NEW c \in Talks, Clear(c) \/ Cancel(c)
  PROVE  TurnsInv'
<1>1. CASE Clear(c)
  <2>1. /\ Types /\ turnId[c] = 0
        /\ messages' = [messages EXCEPT ![c] = <<>>]
        /\ failure' = [failure EXCEPT ![c] = FALSE]
        /\ UNCHANGED <<turnId, parts, turnOwners, turn, events, questions>>
    BY <1>1 DEF TurnsInv, Clear
  <2>2. messages'[c] = <<>> /\ \A u : ~Shows(c, u)'
    <3>1. messages'[c] = <<>>
      BY <2>1 DEF Types
    <3>2. DOMAIN <<>> = {}
      OBVIOUS
    <3> QED
      BY <3>1, <3>2 DEF Shows, Seqs!Range
  <2>3. ASSUME NEW d \in Talks, d # c
        PROVE  /\ messages'[d] = messages[d] /\ failure'[d] = failure[d]
               /\ LastTurn(d)' = LastTurn(d) /\ \A u : Shows(d, u)' <=> Shows(d, u)
    BY <2>1, <2>3 DEF Types, LastTurn, Shows
  <2>4. Types'
    BY <2>1, EmptySeq DEF Types
  <2>5. AskedFor' /\ NoneForgotten'
    BY <2>1, <2>2, <2>3 DEF TurnsInv, AskedFor, NoneForgotten
  <2>6. Waits'
    BY <2>1, <2>3 DEF TurnsInv, Waits
  <2>7. TurnLands'
    BY <2>1, <2>2, <2>3 DEF TurnsInv, TurnLands, Shows
  <2> QED
    BY <2>4, <2>5, <2>6, <2>7 DEF TurnsInv
<1>2. CASE Cancel(c)
  <2> DEFINE t == turnId[c]
             side == [turn[t] EXCEPT !.pc = "notified"]
  <2>1. /\ Types /\ t # 0 /\ UNCHANGED <<talk, events, questions>>
        /\ turn' = IF turn[t].pc = "running" THEN [turn EXCEPT ![t] = side] ELSE turn
    BY <1>2 DEF TurnsInv, Cancel
  <2>2. t \in TurnIds /\ turn[t].pc \in Awaited
    BY <2>1, ShownAt DEF TurnsInv, Waits
  <2>3. events' \in Seq([turn : TurnIds, part : Part])
    BY <2>1 DEF Types
  <2>4. turn[t] \in Sides /\ side \in Sides /\ side.pc \in Awaited
    BY <2>1, <2>2 DEF Types, Sides, Steps, Awaited
  <2>5. CASE turn[t].pc = "running"
    BY <2>1, <2>2, <2>3, <2>4, <2>5, SideMoves
  <2>6. CASE turn[t].pc # "running"
    <3>1. turn' = [turn EXCEPT ![t] = turn[t]]
      BY <2>1, <2>6 DEF Types
    <3> QED
      BY <2>1, <2>2, <2>3, <2>4, <3>1, SideMoves
  <2> QED
    BY <2>5, <2>6
<1> QED
  BY <1>1, <1>2

LEMMA TurnsStep == Impatient = FALSE /\ TurnsInv /\ [AiTurnsNext]_aiTurnsVars => TurnsInv'
<1> SUFFICES ASSUME Impatient = FALSE, TurnsInv, [AiTurnsNext]_aiTurnsVars PROVE TurnsInv'
  OBVIOUS
<1>1. ASSUME UNCHANGED <<talk, turn, questions>>, events' \in Seq([turn : TurnIds, part : Part])
      PROVE  TurnsInv'
  BY <1>1 DEF TurnsInv, Types, AskedFor, Waits, NoneForgotten, TurnLands, LastTurn, Shows, talk
<1>2. CASE Lose
  <2>1. events' \in Seq([turn : TurnIds, part : Part])
    BY <1>2, HeadTailProperties DEF Lose, TurnsInv, Types
  <2> QED
    BY <1>1, <1>2, <2>1 DEF Lose
<1>3. CASE UNCHANGED aiTurnsVars
  BY <1>1, <1>3 DEF aiTurnsVars, TurnsInv, Types
<1>4. CASE AiTurnsNext
  BY <1>2, <1>4, QuestionAsked, Delivered, AnswerComes, ClearedOrStopped, BackendSteps
     DEF AiTurnsNext
<1> QED
  BY <1>3, <1>4

\* Every question whose turn is over has its whole answer under it, and nothing else for its
\* text, or its failure is shown if nothing was asked since; whatever events are lost or late,
\* for any number of conversations, questions, steps and deltas, as long as no task is started
\* while its conversation is being answered.
THEOREM AnswersLand == ASSUME Impatient = FALSE PROVE AiTurnsSpec => []TurnLands
<1>1. AiTurnsInit => TurnsInv
  BY TurnsStart
<1>2. TurnsInv /\ [AiTurnsNext]_aiTurnsVars => TurnsInv'
  BY TurnsStep
<1>3. TurnsInv => TurnLands
  BY DEF TurnsInv
<1> QED
  BY <1>1, <1>2, <1>3, PTL DEF AiTurnsSpec
-----------------------------------------------------------------------------
(* The last question, whatever was asked before its turn was over.         *)

\* Of the last question of a transcript, its answer lands whatever was asked before it.
LastAwaited ==
  \A c \in Talks :
    messages[c] # <<>> /\ turn[LastTurn(c)].pc \in Awaited => turnId[c] = LastTurn(c)

LastLands ==
  \A c \in Talks : messages[c] # <<>> =>
    /\ turn[LastTurn(c)].pc = "over" =>
         OfKind(parts[LastTurn(c)], TextPart) = turn[LastTurn(c)].content
    /\ turn[LastTurn(c)].pc = "lost" => failure[c]

LastInv == Types /\ AskedFor /\ Waits /\ LastAwaited /\ LastLands

\* A conversation waits for a turn, and its last one is a turn.
LEMMA LastTypes ==
  ASSUME LastInv, NEW c \in Talks
  PROVE  /\ messages[c] # <<>> => LastTurn(c) \in TurnIds /\ Shows(c, LastTurn(c))
         /\ turnId[c] # 0 => turnId[c] \in TurnIds /\ messages[c] # <<>> /\ LastTurn(c) = turnId[c]
<1>1. messages[c] # <<>> => LastTurn(c) \in TurnIds /\ Shows(c, LastTurn(c))
  BY ShownAt DEF LastInv
<1> QED
  BY <1>1 DEF LastInv, Waits

LEMMA LastStarts == AiTurnsInit => LastInv
<1> SUFFICES ASSUME AiTurnsInit PROVE LastInv
  OBVIOUS
<1>1. Types /\ AskedFor /\ Waits
  BY TurnsStart DEF TurnsInv
<1>2. \A c \in Talks : messages[c] = <<>>
  BY DEF AiTurnsInit
<1> QED
  BY <1>1, <1>2 DEF LastInv, LastAwaited, LastLands

LEMMA LastBackend ==
  ASSUME LastInv, NEW t \in TurnIds,
         \/ Registered(t) \/ Stream(t) \/ UseTool(t) \/ Nudge(t)
         \/ Answered(t, TRUE) \/ Answered(t, FALSE) \/ Broken(t)
  PROVE  LastInv'
<1>0. /\ Types /\ turn[t].pc \in Awaited /\ UNCHANGED <<talk, questions>>
      /\ events' \in Seq([turn : TurnIds, part : Part])
      /\ \E side \in Sides : side.pc \in Awaited /\ turn' = [turn EXCEPT ![t] = side]
  BY BackendMoves DEF LastInv
<1>1. PICK side \in Sides : side.pc \in Awaited /\ turn' = [turn EXCEPT ![t] = side]
  BY <1>0
<1>2. /\ turn'[t].pc \in Awaited
      /\ \A u \in TurnIds : u # t => turn'[u] = turn[u]
  BY <1>0, <1>1 DEF Types
<1>3. UNCHANGED <<messages, turnId, failure, parts, turnOwners, questions>>
  BY <1>0 DEF talk
<1>4. /\ \A c \in Talks : \A u : Shows(c, u)' <=> Shows(c, u)
      /\ \A c \in Talks : LastTurn(c)' = LastTurn(c)
  BY <1>3 DEF Shows, LastTurn
<1>5. Types'
  BY <1>0, <1>1, <1>3 DEF Types
<1>6. AskedFor'
  BY <1>0, <1>2, <1>3, <1>4 DEF LastInv, AskedFor, Awaited
<1>7. Waits'
  <2> SUFFICES ASSUME NEW c \in Talks, turnId[c] # 0
               PROVE  /\ messages[c] # <<>> /\ LastTurn(c) = turnId[c]
                      /\ turn'[turnId[c]].pc \in Awaited /\ c \in turnOwners[turnId[c]]
    BY <1>3, <1>4 DEF Waits
  <2>1. turnId[c] \in TurnIds
    BY LastTypes
  <2> QED
    BY <1>2, <2>1 DEF LastInv, Waits
<1>8. LastAwaited'
  <2> SUFFICES ASSUME NEW c \in Talks, messages[c] # <<>>, turn'[LastTurn(c)].pc \in Awaited
               PROVE  turnId[c] = LastTurn(c)
    BY <1>3, <1>4 DEF LastAwaited
  <2>1. LastTurn(c) \in TurnIds
    BY LastTypes
  <2> QED
    BY <1>0, <1>2, <2>1 DEF LastInv, LastAwaited
<1>9. LastLands'
  <2> SUFFICES ASSUME NEW c \in Talks, messages[c] # <<>>
               PROVE  /\ turn'[LastTurn(c)].pc = "over" =>
                           OfKind(parts[LastTurn(c)], TextPart) = turn'[LastTurn(c)].content
                      /\ turn'[LastTurn(c)].pc = "lost" => failure[c]
    BY <1>3, <1>4 DEF LastLands
  <2>1. LastTurn(c) \in TurnIds
    BY LastTypes
  <2>2. CASE LastTurn(c) = t
    BY <1>2, <2>2 DEF Awaited
  <2>3. CASE LastTurn(c) # t
    BY <1>2, <2>1, <2>3 DEF LastInv, LastLands
  <2> QED
    BY <2>2, <2>3
<1> QED
  BY <1>5, <1>6, <1>7, <1>8, <1>9 DEF LastInv

\* A question, also while an earlier one is being answered.
LEMMA LastAsked ==
  ASSUME LastInv, NEW c \in Talks, StartTurn(c)
  PROVE  LastInv'
<1> DEFINE t == questions + 1
<1>1. /\ Types /\ MaxTurns \in Nat /\ t \in TurnIds /\ t \in 0..MaxTurns /\ questions' = t
      /\ questions \in Nat
  BY AiTurnsAssumption DEF LastInv, Types, StartTurn, TurnIds
<1>2. turn[t].pc = "none" /\ \A d \in Talks : ~Shows(d, t)
  BY <1>1 DEF LastInv, AskedFor
<1> HIDE DEF t
<1>3. /\ messages' = [messages EXCEPT ![c] = Append(@, t)]
      /\ turnId' = [turnId EXCEPT ![c] = t]
      /\ failure' = [failure EXCEPT ![c] = FALSE]
      /\ turnOwners' = [turnOwners EXCEPT ![t] = {c}]
      /\ turn' = [turn EXCEPT ![t].pc = "preparing"]
      /\ UNCHANGED <<parts, events>>
  BY <1>1 DEF StartTurn
<1>4. messages[c] \in Seq(TurnIds)
  BY <1>1 DEF Types
<1>5. Types'
  <2>1. Append(messages[c], t) \in Seq(TurnIds)
    BY <1>1, <1>4, AppendProperties
  <2>0. turn[t] \in Sides
    BY <1>1 DEF Types
  <2>2. [turn[t] EXCEPT !.pc = "preparing"] \in Sides
    BY <2>0 DEF Sides, Steps
  <2> QED
    BY <1>1, <1>3, <2>1, <2>2 DEF Types
<1>6. /\ LastTurn(c)' = t /\ messages'[c] # <<>> /\ \A u : Shows(c, u)' => Shows(c, u) \/ u = t
  <2>1. /\ Append(messages[c], t) # <<>>
        /\ Len(Append(messages[c], t)) = Len(messages[c]) + 1
        /\ DOMAIN Append(messages[c], t) = 1..Len(messages[c]) + 1
        /\ Append(messages[c], t)[Len(messages[c]) + 1] = t
        /\ \A j \in 1..Len(messages[c]) : Append(messages[c], t)[j] = messages[c][j]
    BY <1>1, <1>4, Appended
  <2>2. messages'[c] = Append(messages[c], t)
    BY <1>1, <1>3 DEF Types
  <2>3. Len(messages[c]) \in Nat /\ DOMAIN messages[c] = 1..Len(messages[c])
    BY <1>4, LenProperties
  <2>4. 1..Len(messages[c]) + 1 = 1..Len(messages[c]) \cup {Len(messages[c]) + 1}
    BY <2>3
  <2> QED
    BY <2>1, <2>2, <2>3, <2>4 DEF LastTurn, Seqs!Last, Shows, Seqs!Range
<1>7. ASSUME NEW d \in Talks, d # c
      PROVE  /\ LastTurn(d)' = LastTurn(d) /\ messages'[d] = messages[d]
             /\ turnId'[d] = turnId[d] /\ failure'[d] = failure[d]
             /\ \A u : Shows(d, u)' <=> Shows(d, u)
             /\ messages[d] # <<>> => LastTurn(d) \in TurnIds /\ LastTurn(d) # t
  <2>1. /\ LastTurn(d)' = LastTurn(d) /\ messages'[d] = messages[d]
        /\ turnId'[d] = turnId[d] /\ failure'[d] = failure[d]
        /\ \A u : Shows(d, u)' <=> Shows(d, u)
    BY <1>1, <1>3, <1>7 DEF Types, LastTurn, Shows
  <2>2. messages[d] # <<>> => LastTurn(d) \in TurnIds /\ Shows(d, LastTurn(d))
    BY LastTypes
  <2> QED
    BY <1>2, <2>1, <2>2
<1>8. /\ turn'[t].pc = "preparing" /\ turnOwners'[t] = {c} /\ turnId'[c] = t
      /\ \A u \in TurnIds : u # t => turn'[u] = turn[u] /\ turnOwners'[u] = turnOwners[u]
  BY <1>1, <1>3 DEF Types, Sides
<1>9. AskedFor'
  <2>1. \A u \in TurnIds : u > t => u > questions /\ u # t
    BY <1>1 DEF TurnIds, t
  <2>2. \A u \in TurnIds, d \in Talks : Shows(d, u)' => u = t \/ Shows(d, u)
    BY <1>6, <1>7
  <2> QED
    BY <1>1, <1>8, <2>1, <2>2 DEF LastInv, AskedFor
<1>10. Waits'
  <2> SUFFICES ASSUME NEW d \in Talks, turnId'[d] # 0
               PROVE  /\ messages'[d] # <<>> /\ LastTurn(d)' = turnId'[d]
                      /\ turn'[turnId'[d]].pc \in Awaited /\ d \in turnOwners'[turnId'[d]]
    BY DEF Waits
  <2>1. CASE d = c
    BY <1>6, <1>8, <2>1 DEF Awaited, Steps
  <2>2. CASE d # c
    <3>1. /\ messages[d] # <<>> /\ LastTurn(d) = turnId[d] /\ turn[turnId[d]].pc \in Awaited
          /\ d \in turnOwners[turnId[d]]
      BY <1>7, <2>2 DEF LastInv, Waits
    <3>2. turnId[d] \in TurnIds /\ turnId[d] # t
      BY <1>7, <2>2, <3>1
    <3> QED
      BY <1>7, <1>8, <2>2, <3>1, <3>2
  <2> QED
    BY <2>1, <2>2
<1>11. LastAwaited'
  <2> SUFFICES ASSUME NEW d \in Talks, messages'[d] # <<>>, turn'[LastTurn(d)'].pc \in Awaited
               PROVE  turnId'[d] = LastTurn(d)'
    BY DEF LastAwaited
  <2>1. CASE d = c
    BY <1>6, <1>8, <2>1
  <2>2. CASE d # c
    BY <1>7, <1>8, <2>2 DEF LastInv, LastAwaited
  <2> QED
    BY <2>1, <2>2
<1>12. LastLands'
  <2> SUFFICES ASSUME NEW d \in Talks, messages'[d] # <<>>
               PROVE  /\ turn'[LastTurn(d)'].pc = "over" =>
                           OfKind(parts'[LastTurn(d)'], TextPart) = turn'[LastTurn(d)'].content
                      /\ turn'[LastTurn(d)'].pc = "lost" => failure'[d]
    BY DEF LastLands
  <2>1. CASE d = c
    BY <1>6, <1>8, <2>1
  <2>2. CASE d # c
    BY <1>3, <1>7, <1>8, <2>2 DEF LastInv, LastLands
  <2> QED
    BY <2>1, <2>2
<1> QED
  BY <1>5, <1>9, <1>10, <1>11, <1>12 DEF LastInv

LEMMA LastDelivered ==
  ASSUME LastInv, Deliver
  PROVE  LastInv'
<1> DEFINE e == Head(events)
<1>1. /\ Types /\ events # <<>> /\ events' = Tail(events)
      /\ UNCHANGED <<messages, turnId, failure, turnOwners, turn, questions>>
  BY DEF LastInv, Deliver
<1>2. /\ e \in [turn : TurnIds, part : Part]
      /\ Tail(events) \in Seq([turn : TurnIds, part : Part])
  BY <1>1, HeadTailProperties DEF Types
<1> HIDE DEF e
<1>3. /\ parts' \in [TurnIds -> Seq(Part)]
      /\ \A t \in TurnIds : turn[t].pc \notin Awaited => parts'[t] = parts[t]
  <2>1. parts' = [t \in TurnIds |->
                   IF \E c \in {d \in InTurn(e.turn) : messages[d] # <<>>} : t = LastTurn(c)
                     THEN Append(parts[t], e.part) ELSE parts[t]]
    BY DEF Deliver, e
  <2>2. \A t \in TurnIds : parts[t] \in Seq(Part) /\ Append(parts[t], e.part) \in Seq(Part)
    BY <1>1, <1>2, AppendProperties DEF Types
  <2>3. ASSUME NEW c \in InTurn(e.turn) PROVE turn[LastTurn(c)].pc \in Awaited
    <3>1. c \in Talks /\ turnId[c] = e.turn /\ e.turn \in TurnIds
      BY <1>1, <1>2 DEF InTurn, Types
    <3>2. turnId[c] # 0
      BY <3>1 DEF TurnIds
    <3> QED
      BY <3>1, <3>2 DEF LastInv, Waits
  <2> QED
    BY <2>1, <2>2, <2>3
<1>4. /\ \A c \in Talks : \A u : Shows(c, u)' <=> Shows(c, u)
      /\ \A c \in Talks : LastTurn(c)' = LastTurn(c)
  BY <1>1 DEF Shows, LastTurn
<1>5. Types' /\ AskedFor' /\ Waits' /\ LastAwaited'
  BY <1>1, <1>2, <1>3, <1>4 DEF LastInv, Types, AskedFor, Waits, LastAwaited
<1>6. LastLands'
  <2> SUFFICES ASSUME NEW c \in Talks, messages[c] # <<>>
               PROVE  /\ turn[LastTurn(c)].pc = "over" =>
                           OfKind(parts'[LastTurn(c)], TextPart) = turn[LastTurn(c)].content
                      /\ turn[LastTurn(c)].pc = "lost" => failure[c]
    BY <1>1, <1>4 DEF LastLands
  <2>1. LastTurn(c) \in TurnIds
    BY LastTypes
  <2> QED
    BY <1>3, <2>1 DEF LastInv, LastLands, Awaited
<1> QED
  BY <1>5, <1>6 DEF LastInv

\* An answer, or the failure of one.
LEMMA LastAnswered ==
  ASSUME LastInv, NEW t \in TurnIds, Finish(t) \/ Fail(t)
  PROVE  LastInv'
<1> DEFINE after == IF Finish(t) THEN "over" ELSE "lost"
<1>1. /\ Types /\ turn[t].pc \in Awaited /\ t # 0
      /\ turn' = [turn EXCEPT ![t].pc = after]
      /\ turnId' = [c \in Talks |-> IF c \in InTurn(t) THEN 0 ELSE turnId[c]]
      /\ turnOwners' = [turnOwners EXCEPT ![t] = {}]
      /\ UNCHANGED <<messages, events, questions>>
  BY DEF LastInv, Finish, Fail, Awaited, Steps, TurnIds
<1>2. /\ turn[t] \in Sides /\ turn'[t] = [turn[t] EXCEPT !.pc = after] /\ turn'[t].pc = after
      /\ turn'[t].content = turn[t].content
      /\ \A u \in TurnIds : u # t => turn'[u] = turn[u] /\ turnOwners'[u] = turnOwners[u]
  BY <1>1 DEF Types, Sides
<1>3. /\ parts' \in [TurnIds -> Seq(Part)] /\ failure' \in [Talks -> BOOLEAN]
      /\ \A u \in TurnIds : u # t => parts'[u] = parts[u]
      /\ \A c \in Talks : failure[c] => failure'[c]
      /\ \A c \in InTurn(t) : after = "lost" => failure'[c]
      /\ after = "over" /\ InTurn(t) # {} => OfKind(parts'[t], TextPart) = turn[t].content
  <2>1. parts[t] \in Seq(Part) /\ turn[t].content \in Seq(TextPart)
    BY <1>1, <1>2 DEF Types, Sides
  <2>2. /\ Reconciled(parts[t], turn[t].content) \in Seq(Part)
        /\ OfKind(Reconciled(parts[t], turn[t].content), TextPart) = turn[t].content
    BY <2>1, Reconciles
  <2>3. InTurn(t) \subseteq Talks
    BY <1>1 DEF InTurn, Types
  <2>4. CASE Finish(t)
    BY <1>1, <2>2, <2>4 DEF Finish, Types
  <2>5. CASE ~Finish(t)
    <3>1. /\ failure' = [c \in Talks |-> failure[c] \/ c \in InTurn(t)]
          /\ parts' = parts /\ after = "lost"
      BY <2>5 DEF Fail
    <3> QED
      BY <1>1, <2>3, <3>1 DEF Types
  <2> QED
    BY <2>4, <2>5
<1>4. /\ \A c \in Talks : \A u : Shows(c, u)' <=> Shows(c, u)
      /\ \A c \in Talks : LastTurn(c)' = LastTurn(c)
  BY <1>1 DEF Shows, LastTurn
<1>5. after \in {"over", "lost"}
  OBVIOUS
<1> HIDE DEF after
<1>6. \A c \in Talks : turnId[c] = t <=> c \in InTurn(t)
  BY <1>1 DEF LastInv, Waits, InTurn, Types
<1>7. Types'
  <2>1. turn'[t] \in Sides
    BY <1>2, <1>5 DEF Sides, Steps
  <2>2. turn' \in [TurnIds -> Sides]
    BY <1>1, <1>2, <2>1 DEF Types
  <2>3. turnId' \in [Talks -> 0..MaxTurns]
    BY <1>1, AiTurnsAssumption DEF Types
  <2>4. turnOwners' \in [TurnIds -> SUBSET Talks]
    BY <1>1 DEF Types
  <2> QED
    BY <1>1, <1>3, <2>2, <2>3, <2>4 DEF Types
<1>8. AskedFor'
  BY <1>1, <1>2, <1>4, <1>5 DEF LastInv, AskedFor, Awaited
<1>9. Waits'
  <2> SUFFICES ASSUME NEW c \in Talks, turnId'[c] # 0
               PROVE  /\ messages'[c] # <<>> /\ LastTurn(c)' = turnId'[c]
                      /\ turn'[turnId'[c]].pc \in Awaited /\ c \in turnOwners'[turnId'[c]]
    BY DEF Waits
  <2>1. turnId'[c] = turnId[c] /\ turnId[c] # t
    BY <1>1, <1>6
  <2>2. turnId[c] \in TurnIds
    BY <2>1, LastTypes
  <2> QED
    BY <1>1, <1>2, <1>4, <2>1, <2>2 DEF LastInv, Waits
<1>10. LastAwaited'
  <2> SUFFICES ASSUME NEW c \in Talks, messages[c] # <<>>, turn'[LastTurn(c)].pc \in Awaited
               PROVE  turnId'[c] = LastTurn(c)
    BY <1>1, <1>4 DEF LastAwaited
  <2>1. LastTurn(c) \in TurnIds /\ LastTurn(c) # t
    BY <1>2, <1>5, LastTypes DEF Awaited
  <2>2. turnId[c] = LastTurn(c)
    BY <1>2, <2>1 DEF LastInv, LastAwaited
  <2> QED
    BY <1>1, <1>6, <2>1, <2>2
<1>11. LastLands'
  <2> SUFFICES ASSUME NEW c \in Talks, messages[c] # <<>>
               PROVE  /\ turn'[LastTurn(c)].pc = "over" =>
                           OfKind(parts'[LastTurn(c)], TextPart) = turn'[LastTurn(c)].content
                      /\ turn'[LastTurn(c)].pc = "lost" => failure'[c]
    BY <1>1, <1>4 DEF LastLands
  <2>0. LastTurn(c) \in TurnIds
    BY LastTypes
  <2>1. CASE LastTurn(c) = t
    <3>1. c \in InTurn(t)
      BY <1>1, <1>6, <2>1 DEF LastInv, LastAwaited
    <3> QED
      BY <1>2, <1>3, <1>5, <2>1, <3>1
  <2>2. CASE LastTurn(c) # t
    BY <1>2, <1>3, <2>0, <2>2 DEF LastInv, LastLands
  <2> QED
    BY <2>1, <2>2
<1> QED
  BY <1>7, <1>8, <1>9, <1>10, <1>11 DEF LastInv

LEMMA LastCleared ==
  ASSUME LastInv, NEW c \in Talks, Clear(c)
  PROVE  LastInv'
<1>1. /\ Types /\ turnId[c] = 0
      /\ messages' = [messages EXCEPT ![c] = <<>>]
      /\ failure' = [failure EXCEPT ![c] = FALSE]
      /\ UNCHANGED <<turnId, parts, turnOwners, turn, events, questions>>
  BY DEF LastInv, Clear
<1>2. messages'[c] = <<>> /\ \A u : ~Shows(c, u)'
  <2>1. messages'[c] = <<>>
    BY <1>1 DEF Types
  <2>2. DOMAIN <<>> = {}
    OBVIOUS
  <2> QED
    BY <2>1, <2>2 DEF Shows, Seqs!Range
<1>3. ASSUME NEW d \in Talks, d # c
      PROVE  /\ messages'[d] = messages[d] /\ failure'[d] = failure[d]
             /\ LastTurn(d)' = LastTurn(d) /\ \A u : Shows(d, u)' <=> Shows(d, u)
  BY <1>1, <1>3 DEF Types, LastTurn, Shows
<1>4. Types'
  BY <1>1, EmptySeq DEF Types
<1>5. AskedFor'
  BY <1>1, <1>2, <1>3 DEF LastInv, AskedFor
<1>6. Waits'
  BY <1>1, <1>3 DEF LastInv, Waits
<1>7. LastAwaited' /\ LastLands'
  BY <1>1, <1>2, <1>3 DEF LastInv, LastAwaited, LastLands
<1> QED
  BY <1>4, <1>5, <1>6, <1>7 DEF LastInv

LEMMA LastStopped ==
  ASSUME LastInv, NEW c \in Talks, Cancel(c)
  PROVE  LastInv'
<1> DEFINE t == turnId[c]
           side == [turn[t] EXCEPT !.pc = "notified"]
<1>1. /\ Types /\ t # 0 /\ UNCHANGED <<messages, turnId, failure, parts, turnOwners>>
      /\ UNCHANGED <<events, questions>>
      /\ turn' = IF turn[t].pc = "running" THEN [turn EXCEPT ![t] = side] ELSE turn
  BY DEF LastInv, Cancel, talk
<1>2. t \in TurnIds /\ turn[t].pc \in Awaited
  BY <1>1, LastTypes DEF LastInv, Waits
<1>3. turn[t] \in Sides /\ side \in Sides /\ side.pc \in Awaited
  BY <1>1, <1>2 DEF Types, Sides, Steps, Awaited
<1> HIDE DEF t, side
<1>4. /\ turn' \in [TurnIds -> Sides] /\ turn'[t].pc \in Awaited
      /\ \A u \in TurnIds : u # t => turn'[u] = turn[u]
  BY <1>1, <1>2, <1>3 DEF Types
<1>5. /\ \A d \in Talks : \A u : Shows(d, u)' <=> Shows(d, u)
      /\ \A d \in Talks : LastTurn(d)' = LastTurn(d)
  BY <1>1 DEF Shows, LastTurn
<1>6. Types'
  BY <1>1, <1>4 DEF Types
<1>7. AskedFor'
  BY <1>1, <1>2, <1>4, <1>5 DEF LastInv, AskedFor, Awaited
<1>8. \A u \in TurnIds : turn'[u].pc \in Awaited <=> turn[u].pc \in Awaited
  BY <1>2, <1>4
<1>9. \A d \in Talks : /\ turnId[d] # 0 => turnId[d] \in TurnIds
                       /\ messages[d] # <<>> => LastTurn(d) \in TurnIds
  BY LastTypes
<1>10. Waits'
  BY <1>1, <1>5, <1>8, <1>9 DEF LastInv, Waits
<1>11. LastAwaited'
  BY <1>1, <1>5, <1>8, <1>9 DEF LastInv, LastAwaited
<1>12. LastLands'
  <2> SUFFICES ASSUME NEW d \in Talks, messages[d] # <<>>
               PROVE  /\ turn'[LastTurn(d)].pc = "over" =>
                           OfKind(parts[LastTurn(d)], TextPart) = turn'[LastTurn(d)].content
                      /\ turn'[LastTurn(d)].pc = "lost" => failure[d]
    BY <1>1, <1>5 DEF LastLands
  <2>1. CASE LastTurn(d) = t
    BY <1>4, <2>1 DEF Awaited
  <2>2. CASE LastTurn(d) # t
    BY <1>4, <1>9, <2>2 DEF LastInv, LastLands
  <2> QED
    BY <2>1, <2>2
<1> QED
  BY <1>6, <1>7, <1>10, <1>11, <1>12 DEF LastInv

LEMMA LastStep == LastInv /\ [AiTurnsNext]_aiTurnsVars => LastInv'
<1> SUFFICES ASSUME LastInv, [AiTurnsNext]_aiTurnsVars PROVE LastInv'
  OBVIOUS
<1>1. ASSUME UNCHANGED <<talk, turn, questions>>, events' \in Seq([turn : TurnIds, part : Part])
      PROVE  LastInv'
  BY <1>1 DEF LastInv, Types, AskedFor, Waits, LastAwaited, LastLands, LastTurn, Shows, talk
<1>2. CASE Lose
  <2>1. events' \in Seq([turn : TurnIds, part : Part])
    BY <1>2, HeadTailProperties DEF Lose, LastInv, Types
  <2> QED
    BY <1>1, <1>2, <2>1 DEF Lose
<1>3. CASE UNCHANGED aiTurnsVars
  BY <1>1, <1>3 DEF aiTurnsVars, LastInv, Types
<1>4. CASE AiTurnsNext
  BY <1>2, <1>4, LastAsked, LastDelivered, LastAnswered, LastCleared, LastStopped, LastBackend
     DEF AiTurnsNext
<1> QED
  BY <1>3, <1>4

\* The last question of every transcript has its whole answer under it once its turn is over,
\* and nothing else for its text, or its failure is shown; also where a task was started while
\* the conversation was being answered (lib/ai/runTask.ts), which AnswersLand excludes: what is
\* overtaken is the earlier question, never the later.
THEOREM LastAnswerLands == AiTurnsSpec => []LastLands
<1>1. LastInv => LastLands
  BY DEF LastInv
<1> QED
  BY <1>1, LastStarts, LastStep, PTL DEF AiTurnsSpec

\* Every message, event and turn keeps its form (stores/session/ai.ts, ai/agent.rs), also
\* where a task is started while its conversation is being answered.
THEOREM AiTurnsTyped == AiTurnsSpec => []AiTurnsTypeOK
<1>1. ASSUME LastInv PROVE AiTurnsTypeOK
  <2>1. Types
    BY <1>1 DEF LastInv
  <2>2. \A c \in Talks : Seqs!Range(messages[c]) \subseteq TurnIds
    BY <2>1, ShownAt DEF Shows
  <2>3. ASSUME NEW S, NEW q \in Seq(S) PROVE Seqs!Range(q) \subseteq S
    BY LenProperties, ElementOfSeq DEF Seqs!Range
  <2>4. \A t \in TurnIds : Seqs!Range(parts[t]) \subseteq Part
    BY <2>1, <2>3 DEF Types
  <2>5. ASSUME NEW t \in TurnIds
        PROVE  /\ turn[t].pc \in Steps
               /\ turn[t].step \in 1..MaxSteps /\ turn[t].chunks \in 0..MaxChunks
               /\ turn[t].nudged \in BOOLEAN
               /\ Seqs!Range(turn[t].content) \subseteq Part
    <3>1. turn[t] \in Sides
      BY <2>1 DEF Types
    <3>2. turn[t].content \in Seq(TextPart)
      BY <3>1 DEF Sides
    <3>3. Seqs!Range(turn[t].content) \subseteq TextPart
      BY <2>3, <3>2
    <3> QED
      BY <3>1, <3>3, PartTypes DEF Sides
  <2>6. Seqs!Range(events) \subseteq [turn : TurnIds, part : Part]
    BY <2>1, <2>3 DEF Types
  <2> QED
    BY <2>1, <2>2, <2>4, <2>5, <2>6 DEF AiTurnsTypeOK, Types, Steps
<1> QED
  BY <1>1, LastStarts, LastStep, PTL DEF AiTurnsSpec

=============================================================================
