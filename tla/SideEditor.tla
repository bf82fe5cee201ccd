----------------------------- MODULE SideEditor -----------------------------
(***************************************************************************)
(* The docked cell editor (components/grid/SideEditorPanel.tsx and          *)
(* stores/grid/cellEditor.ts): one buffer on screen, for a cell of the tab *)
(* in front, and one parked buffer for every other tab that left one.      *)
(*                                                                         *)
(* A text is what a cell holds up to the whitespace that opening it may    *)
(* reformat: the formatted text is the baseline.  The effects that follow  *)
(* a change of the tab in front run with that change.                      *)
(*                                                                         *)
(* Left out: the language of the buffer, its undo stack, the full screen,  *)
(* read-only cells, cells of no tab, the error line.                       *)
(***************************************************************************)
EXTENDS Naturals, FiniteSets

CONSTANTS
  EditTabs,  \* tabs that show a grid
  Cells,     \* cells of a tab
  Texts,     \* what the user may type, and what cells hold
  NoText,    \* no buffer, no tab
  MaxTyped,  \* bound: edits
  Hurried    \* the user goes on to something else while a save is under way

Targets == [tab : EditTabs, cell : Cells]
Buffers == [target : Targets, text : Texts, original : Texts]
Saves == [target : Targets, text : Texts]
Drafts == [cell : Cells, text : Texts]

ASSUME SideEditorAssumption ==
  /\ NoText \notin EditTabs \cup Cells \cup Texts \cup Buffers \cup Saves \cup Drafts
  /\ MaxTyped \in Nat /\ Hurried \in BOOLEAN

VARIABLES
  editTabs,   \* open tabs
  front,      \* the tab in front, or NoText
  screen,     \* the session on screen: target, buffer and baseline, or NoText
  parked,     \* parkedRef: the session each tab left, or NoText
  pending,    \* the cell waiting for "discard the changes?", or NoText
  keySave,    \* savingRef: the save Ctrl+S began, or NoText
  buttonSave, \* the save the button began, or NoText
  disabled,   \* saving: the button is disabled
  stored,     \* the cells of the database
  work,       \* history: the text typed in each tab that is nowhere else yet
  typed       \* history: edits

sideEditorVars == <<editTabs, front, screen, parked, pending, keySave, buttonSave,
                    disabled, stored, work, typed>>
savingVars == <<keySave, buttonSave, disabled>>

SideEditorTypeOK ==
  /\ editTabs \subseteq EditTabs /\ front \in editTabs \cup {NoText}
  /\ screen \in Buffers \cup {NoText}
  /\ parked \in [EditTabs -> Buffers \cup {NoText}]
  /\ pending \in Cells \cup {NoText}
  /\ keySave \in Saves \cup {NoText}
  /\ buttonSave \in Saves \cup {NoText}
  /\ disabled \in BOOLEAN
  /\ stored \in [Targets -> Texts]
  /\ work \in [EditTabs -> Drafts \cup {NoText}]
  /\ typed \in 0..MaxTyped

SideEditorInit ==
  /\ editTabs = EditTabs /\ front \in EditTabs
  /\ screen = NoText /\ parked = [t \in EditTabs |-> NoText]
  /\ pending = NoText /\ keySave = NoText /\ buttonSave = NoText /\ disabled = FALSE
  /\ \E x \in Texts : stored = [c \in Targets |-> x]
  /\ work = [t \in EditTabs |-> NoText] /\ typed = 0

Resting == keySave = NoText /\ buttonSave = NoText
MayMove == Hurried \/ Resting

-----------------------------------------------------------------------------
(* Opening a cell.                                                         *)

\* loadFresh: the buffer starts from the cell, which is not an edit.
Fresh(t, c) ==
  LET cell == [tab |-> t, cell |-> c]
  IN [target |-> cell, text |-> stored[cell], original |-> stored[cell]]

Dirty == screen # NoText /\ screen.text # screen.original

\* The grid's expand button, or the modal editor's "move to side".
OpenCell(c) ==
  /\ MayMove /\ front # NoText /\ pending = NoText
  /\ IF Dirty
       THEN pending' = c /\ UNCHANGED screen
       ELSE screen' = Fresh(front, c) /\ UNCHANGED pending
  /\ UNCHANGED <<editTabs, front, parked, savingVars, stored, work, typed>>

KeepEditing ==
  /\ pending # NoText
  /\ pending' = NoText
  /\ UNCHANGED <<editTabs, front, screen, parked, savingVars, stored, work, typed>>

DiscardAndOpen ==
  /\ MayMove /\ pending # NoText /\ screen # NoText
  /\ screen' = Fresh(front, pending)
  /\ pending' = NoText
  /\ work' = [work EXCEPT ![front] = NoText]
  /\ UNCHANGED <<editTabs, front, parked, savingVars, stored, typed>>

\* Typing goes on while Ctrl+S saves.
Type(x) ==
  /\ Hurried \/ buttonSave = NoText
  /\ screen # NoText /\ pending = NoText /\ typed < MaxTyped
  /\ screen' = [screen EXCEPT !.text = x]
  /\ work' = [work EXCEPT ![front] =
       IF x = stored[screen.target] THEN NoText
       ELSE [cell |-> screen.target.cell, text |-> x]]
  /\ typed' = typed + 1
  /\ UNCHANGED <<editTabs, front, parked, pending, savingVars, stored>>

-----------------------------------------------------------------------------
(* Saving.                                                                 *)

\* Ctrl+S, wherever the focus is: the cell stays open.
PressSave ==
  /\ screen # NoText /\ keySave = NoText
  /\ Hurried \/ buttonSave = NoText
  /\ keySave' = [target |-> screen.target, text |-> screen.text]
  /\ disabled' = TRUE
  /\ UNCHANGED <<editTabs, front, screen, parked, pending, buttonSave, stored, work, typed>>

\* The save button closes the cell when it is done.
ClickSave ==
  /\ screen # NoText /\ pending = NoText /\ ~disabled /\ buttonSave = NoText
  /\ buttonSave' = [target |-> screen.target, text |-> screen.text]
  /\ disabled' = TRUE
  /\ UNCHANGED <<editTabs, front, screen, parked, pending, keySave, stored, work, typed>>

\* What the database holds is no longer only in the editor.
Stored(s) ==
  /\ stored' = [stored EXCEPT ![s.target] = s.text]
  /\ work' = [work EXCEPT ![s.target.tab] =
       IF @ = [cell |-> s.target.cell, text |-> s.text] THEN NoText ELSE @]

\* The baseline of whatever is on screen by now becomes the text that was saved.
KeySaveDone ==
  /\ keySave # NoText
  /\ Stored(keySave)
  /\ screen' = IF screen = NoText THEN NoText ELSE [screen EXCEPT !.original = keySave.text]
  /\ keySave' = NoText /\ disabled' = FALSE
  /\ UNCHANGED <<editTabs, front, parked, pending, buttonSave, typed>>

KeySaveFails ==
  /\ keySave # NoText
  /\ keySave' = NoText /\ disabled' = FALSE
  /\ UNCHANGED <<editTabs, front, screen, parked, pending, buttonSave, stored, work, typed>>

\* forgetSession: the parked buffer of the tab, the screen and the question are dropped.
Forget(t) ==
  /\ parked' = [parked EXCEPT ![t] = NoText]
  /\ screen' = NoText /\ pending' = NoText

ButtonSaveDone ==
  /\ buttonSave # NoText
  /\ Stored(buttonSave)
  /\ Forget(buttonSave.target.tab)
  /\ buttonSave' = NoText /\ disabled' = FALSE
  /\ UNCHANGED <<editTabs, front, keySave, typed>>

ButtonSaveFails ==
  /\ buttonSave # NoText
  /\ buttonSave' = NoText /\ disabled' = FALSE
  /\ UNCHANGED <<editTabs, front, screen, parked, pending, keySave, stored, work, typed>>

\* The discard button.
Discard ==
  /\ MayMove /\ screen # NoText /\ pending = NoText
  /\ Forget(front)
  /\ work' = [work EXCEPT ![front] = NoText]
  /\ UNCHANGED <<editTabs, front, savingVars, stored, typed>>

-----------------------------------------------------------------------------
(* Tabs.                                                                   *)

\* Mutant: what is on screen is parked only when it differs from the baseline.
SwapIfDirty(t, keep) ==
  /\ front' = t
  /\ parked' = [u \in EditTabs |->
       IF u \notin keep THEN NoText
       ELSE IF u = front /\ Dirty THEN screen ELSE parked[u]]
  /\ screen' = IF t = NoText THEN NoText ELSE parked[t]
  /\ pending' = NoText

\* Mutant: the buffer of the tab that is left is parked even if that tab was closed.
SwapUnswept(t, keep) ==
  /\ front' = t
  /\ parked' = [u \in EditTabs |->
       IF u = front /\ screen # NoText THEN screen
       ELSE IF u \notin keep THEN NoText ELSE parked[u]]
  /\ screen' = IF t = NoText THEN NoText ELSE parked[t]
  /\ pending' = NoText

\* The tab in front changes: what is on screen is parked, dirty or not, what the other
\* tab left comes back, and buffers of tabs outside keep are swept.
Swap(t, keep) ==
  /\ front' = t
  /\ parked' = [u \in EditTabs |->
       IF u \notin keep THEN NoText
       ELSE IF u = front /\ screen # NoText THEN screen ELSE parked[u]]
  /\ screen' = IF t = NoText THEN NoText ELSE parked[t]
  /\ pending' = NoText

ShowTab(t) ==
  /\ MayMove /\ t \in editTabs /\ t # front
  /\ Swap(t, editTabs)
  /\ UNCHANGED <<editTabs, savingVars, stored, work, typed>>

CloseEditTab(t) ==
  /\ MayMove /\ t \in editTabs
  /\ editTabs' = editTabs \ {t}
  /\ work' = [work EXCEPT ![t] = NoText]
  /\ IF t = front
       THEN \E u \in IF editTabs' = {} THEN {NoText} ELSE editTabs' : Swap(u, editTabs')
       ELSE parked' = [parked EXCEPT ![t] = NoText] /\ UNCHANGED <<front, screen, pending>>
  /\ UNCHANGED <<savingVars, stored, typed>>

SideEditorNext ==
  \/ \E c \in Cells : OpenCell(c)
  \/ KeepEditing \/ DiscardAndOpen
  \/ \E x \in Texts : Type(x)
  \/ PressSave \/ ClickSave
  \/ KeySaveDone \/ KeySaveFails \/ ButtonSaveDone \/ ButtonSaveFails
  \/ Discard
  \/ \E t \in EditTabs : ShowTab(t) \/ CloseEditTab(t)

SideEditorSpec == SideEditorInit /\ [][SideEditorNext]_sideEditorVars

-----------------------------------------------------------------------------
(* Properties.                                                             *)

LeftIn(t) == IF t = front THEN screen ELSE parked[t]

\* Text the user typed is in the editor of its cell, on screen or parked with its tab,
\* until it is saved, discarded by the user, or its tab closed.
TypedTextKept ==
  \A t \in editTabs : work[t] # NoText =>
    /\ LeftIn(t) # NoText
    /\ LeftIn(t).target = [tab |-> t, cell |-> work[t].cell]
    /\ LeftIn(t).text = work[t].text

\* The cell on screen belongs to the tab in front, and nothing is parked for a tab that
\* is gone: its callback would write to a table nobody has open.
EditorFollowsTab ==
  /\ screen # NoText => front \in editTabs /\ screen.target.tab = front
  /\ \A t \in EditTabs : parked[t] # NoText => t \in editTabs /\ parked[t].target.tab = t
=============================================================================
