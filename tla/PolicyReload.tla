---------------------------- MODULE PolicyReload ----------------------------
(***************************************************************************)
(* The managed policy in force, and what each window shows of it           *)
(* (policy/mod.rs, commands/policy.rs, stores/session/policyAccess.ts).    *)
(*                                                                         *)
(* A thread reads the policy every five minutes, and the policy editor     *)
(* right after it saved.  Either tells the windows, which forget what they *)
(* were answered and ask again.                                            *)
(***************************************************************************)
EXTENDS Naturals, Sequences
Lists == INSTANCE SequencesExt

CONSTANTS
  Documents,     \* policies that parse
  Panes,         \* windows that show locked controls
  NoDocument,    \* what is not a policy, or not there
  Retries,       \* reads repeated before a policy in force is declared broken
  MaxPolicies,   \* bound: changes of what the anchor leads to
  MaxWakes,      \* bound: times the thread wakes
  MaxEnquiries,  \* bound: enquiries of one window under way
  Coinciding     \* what may coincide: "reload" (two reads), "boot" (an answer comes before
                 \* the window listens)

ASSUME PolicyReloadAssumption ==
  /\ {Retries, MaxPolicies, MaxWakes, MaxEnquiries} \subseteq Nat
  /\ Coinciding \subseteq {"reload", "boot"}

VARIABLES
  anchor,     \* what the machine's anchor leads to
  inForce,    \* PolicyState
  reload,     \* where the thread, and the editor's command, stand in a read
  command,    \* the editor's command: what it does, from which text
  panes,      \* each window: the state and the locks it shows, its generation, its listener
  enquiries,  \* each window: policy_access calls under way
  announced,  \* each window: policy-changed events on their way
  policies,   \* changes of the anchor so far
  wakes       \* times the thread woke so far

policyReloadVars ==
  <<anchor, inForce, reload, command, panes, enquiries, announced, policies, wakes>>

\* No anchor; the policy itself; a file it names, which may be missing, not a policy, or
\* not readable for a moment.
Anchors ==
  [kind : {"none"}, doc : {NoDocument}, missing : {FALSE}] \cup
  [kind : {"inline", "file"}, doc : Documents \cup {NoDocument}, missing : {FALSE}] \cup
  [kind : {"file"}, doc : {NoDocument}, missing : {TRUE}]

State(label, kind, doc) == [label |-> label, kind |-> kind, doc |-> doc]
UnmanagedState == State("unmanaged", "none", NoDocument)
CannotRead == State("broken: cannot read", "file", NoDocument)
Unknown == State("unknown", "none", NoDocument)

\* evaluate, when the anchor's text is read.
Evaluated(a) ==
  CASE a.kind = "none" -> UnmanagedState
    [] a.missing -> CannotRead
    [] a.kind # "none" /\ a.doc # NoDocument -> State("active", a.kind, a.doc)
    [] OTHER -> State("broken", a.kind, NoDocument)

Readers == {"thread", "command"}
Asleep == [pc |-> "asleep", prev |-> UnmanagedState, next |-> UnmanagedState, tries |-> 0]
NoCommand == [pc |-> "none", base |-> NoDocument, creates |-> FALSE]

\* install: a policy in the anchor is in force at once, one in a file is read by the thread.
PolicyReloadInit ==
  /\ anchor \in Anchors
  /\ inForce = IF anchor.kind = "file" THEN State("pending", "file", NoDocument)
               ELSE Evaluated(anchor)
  /\ reload = [r \in Readers |-> IF r = "thread"
                 THEN [Asleep EXCEPT !.pc = "load", !.prev = inForce] ELSE Asleep]
  /\ command = NoCommand
  /\ panes = [w \in Panes |->
                [listens |-> FALSE, state |-> Unknown, locks |-> Unknown, gen |-> 0]]
  /\ enquiries = [w \in Panes |-> <<>>]
  /\ announced = [w \in Panes |-> 0]
  /\ policies = 0 /\ wakes = 0

Tell ==
  announced' = [w \in Panes |-> IF panes[w].listens THEN announced[w] + 1 ELSE announced[w]]

(* The policy changes elsewhere: Group Policy, or another machine's editor. *)
Administrator ==
  /\ policies < MaxPolicies /\ policies' = policies + 1
  /\ anchor' \in Anchors \ {anchor}
  /\ UNCHANGED <<inForce, reload, command, panes, enquiries, announced, wakes>>

(* Reading it, in the thread or in a command. *)
Alone(r) == "reload" \in Coinciding \/ \A other \in Readers \ {r} : reload[other].pc = "asleep"

Begin(r) == reload' = [reload EXCEPT ![r] = [Asleep EXCEPT !.pc = "load", !.prev = inForce]]

ThreadWakes ==
  /\ reload["thread"].pc = "asleep" /\ Alone("thread") /\ Begin("thread")
  /\ wakes < MaxWakes /\ wakes' = wakes + 1
  /\ UNCHANGED <<anchor, inForce, command, panes, enquiries, announced, policies>>

\* load: a moment may come when an anchor's text cannot be read.
Loaded == {Evaluated(anchor)} \cup (IF anchor.kind = "none" THEN {} ELSE {CannotRead})

\* settle: a policy in force that cannot be read is read again a few times.
Load(r) ==
  /\ reload[r].pc = "load"
  /\ \E found \in Loaded :
       LET again == /\ reload[r].prev.label = "active" /\ found = CannotRead
                    /\ reload[r].tries < Retries
       IN reload' = [reload EXCEPT ![r].pc = IF again THEN "load" ELSE "compare",
                                   ![r].next = found,
                                   ![r].tries = IF again THEN @ + 1 ELSE @]
  /\ UNCHANGED <<anchor, inForce, command, panes, enquiries, announced, policies, wakes>>

\* The thread compares with what is in force now, reload_now with what was when it began.
Compare(r) ==
  /\ reload[r].pc = "compare"
  /\ LET before == IF r = "thread" THEN inForce ELSE reload[r].prev
     IN reload' = [reload EXCEPT ![r] =
          [Asleep EXCEPT !.pc = IF reload[r].next # before THEN "change" ELSE "keep",
                         !.next = reload[r].next]]
  /\ UNCHANGED <<anchor, inForce, command, panes, enquiries, announced, policies, wakes>>

\* The state is replaced; policy_save tells the windows in any case, the others if it changed.
PutInForce(r) ==
  /\ reload[r].pc \in {"change", "keep"}
  /\ inForce' = reload[r].next
  /\ LET tells == reload[r].pc = "change" \/ (r = "command" /\ ~command.creates)
     IN /\ reload' = [reload EXCEPT ![r] = [Asleep EXCEPT !.pc = IF tells THEN "tell" ELSE @]]
        /\ command' = IF r = "command" /\ ~tells THEN NoCommand ELSE command
  /\ UNCHANGED <<anchor, panes, enquiries, announced, policies, wakes>>

Notify(r) ==
  /\ reload[r].pc = "tell" /\ Tell
  /\ reload' = [reload EXCEPT ![r] = Asleep]
  /\ command' = IF r = "command" THEN NoCommand ELSE command
  /\ UNCHANGED <<anchor, inForce, panes, enquiries, policies, wakes>>

(* The policy editor. *)
\* Only a file can be edited, and one that is missing created.
OpensEditor ==
  /\ command = NoCommand /\ anchor.kind = "file"
  /\ command' = [pc |-> "open", base |-> anchor.doc, creates |-> anchor.missing]
  /\ UNCHANGED <<anchor, inForce, reload, panes, enquiries, announced, policies, wakes>>

\* A file that somebody else changed is a conflict, and nothing is saved.
SaveChecks ==
  /\ command.pc = "open"
  /\ command' = IF /\ anchor.kind = "file" /\ anchor.missing = command.creates
                   /\ anchor.doc = command.base
                THEN [command EXCEPT !.pc = "replace", !.base = NoDocument] ELSE NoCommand
  /\ UNCHANGED <<anchor, inForce, reload, panes, enquiries, announced, policies, wakes>>

\* write_replace, and the policy is read at once.
SaveReplaces ==
  /\ command.pc = "replace" /\ Alone("command")
  /\ policies < MaxPolicies /\ policies' = policies + 1
  /\ \E d \in Documents :
       anchor' = IF anchor.kind = "file" THEN [anchor EXCEPT !.doc = d, !.missing = FALSE]
                 ELSE anchor
  /\ command' = [command EXCEPT !.pc = "reload"]
  /\ Begin("command")
  /\ UNCHANGED <<inForce, panes, enquiries, announced, wakes>>

SaveFails ==
  /\ command.pc = "replace" /\ command' = NoCommand
  /\ UNCHANGED <<anchor, inForce, reload, panes, enquiries, announced, policies, wakes>>

(* A window. *)
Enquiry(w, gen, about) ==
  Append(enquiries[w], [gen |-> gen, about |-> about, answer |-> Unknown])

MayEnquire(w) ==
  /\ Len(enquiries[w]) < MaxEnquiries
  /\ "boot" \in Coinciding \/ panes[w].listens

\* The ribbon asks for the state of the policy alone.
ShowsRibbon(w) ==
  /\ MayEnquire(w) /\ panes[w].state = Unknown /\ enquiries[w] = <<>>
  /\ enquiries' = [enquiries EXCEPT ![w] = Enquiry(w, panes[w].gen, {})]
  /\ UNCHANGED <<anchor, inForce, reload, command, panes, announced, policies, wakes>>

\* request, when a control of the connection is mounted: what is neither known nor asked.
ShowsControl(w) ==
  /\ MayEnquire(w) /\ panes[w].locks = Unknown
  /\ ~\E i \in 1..Len(enquiries[w]) :
       enquiries[w][i].gen = panes[w].gen /\ enquiries[w][i].about # {}
  /\ enquiries' = [enquiries EXCEPT ![w] = Enquiry(w, panes[w].gen, {"connection"})]
  /\ UNCHANGED <<anchor, inForce, reload, command, panes, announced, policies, wakes>>

StartsPolicyBridge(w) ==
  /\ ~panes[w].listens
  /\ panes' = [panes EXCEPT ![w].listens = TRUE]
  /\ UNCHANGED <<anchor, inForce, reload, command, enquiries, announced, policies, wakes>>

\* policy_access reads the policy in force, whenever its call gets to it.
Answers(w, i) ==
  /\ enquiries[w][i].answer = Unknown
  /\ enquiries' = [enquiries EXCEPT ![w][i].answer = inForce]
  /\ UNCHANGED <<anchor, inForce, reload, command, panes, announced, policies, wakes>>

\* What an answer tells the window.
Learns(w, e) ==
  panes' = [panes EXCEPT ![w].state = e.answer,
                         ![w].locks = IF e.about = {} THEN @ ELSE e.answer]

\* The answer to what was asked before the last invalidate is dropped.
AnswerArrives(w, i) ==
  /\ enquiries[w][i].answer # Unknown
  /\ enquiries' = [enquiries EXCEPT ![w] = Lists!RemoveAt(@, i)]
  /\ IF enquiries[w][i].gen = panes[w].gen THEN Learns(w, enquiries[w][i])
                                            ELSE UNCHANGED panes
  /\ UNCHANGED <<anchor, inForce, reload, command, announced, policies, wakes>>

\* Mutant: the state is asked for only where there are connections to ask about.
InvalidateAskingConnections(w) ==
  /\ announced[w] > 0 /\ Len(enquiries[w]) < MaxEnquiries
  /\ announced' = [announced EXCEPT ![w] = @ - 1]
  /\ panes' = [panes EXCEPT ![w].locks = Unknown, ![w].gen = @ + 1]
  /\ enquiries' = IF panes[w].locks = Unknown THEN enquiries
                  ELSE [enquiries EXCEPT ![w] = Enquiry(w, panes[w].gen + 1, {"connection"})]
  /\ UNCHANGED <<anchor, inForce, reload, command, policies, wakes>>

\* invalidate, by policy-changed: forget the locks, and ask for the state and for the
\* connections that had been answered; one whose answer is still to come is not among them.
Invalidate(w) ==
  /\ announced[w] > 0 /\ Len(enquiries[w]) < MaxEnquiries
  /\ announced' = [announced EXCEPT ![w] = @ - 1]
  /\ panes' = [panes EXCEPT ![w].locks = Unknown, ![w].gen = @ + 1]
  /\ enquiries' = [enquiries EXCEPT ![w] =
       Enquiry(w, panes[w].gen + 1, IF panes[w].locks = Unknown THEN {} ELSE {"connection"})]
  /\ UNCHANGED <<anchor, inForce, reload, command, policies, wakes>>

PolicyReloadNext ==
  \/ Administrator \/ ThreadWakes
  \/ \E r \in Readers : Load(r) \/ Compare(r) \/ PutInForce(r) \/ Notify(r)
  \/ OpensEditor \/ SaveChecks \/ SaveReplaces \/ SaveFails
  \/ \E w \in Panes :
       \/ ShowsRibbon(w) \/ ShowsControl(w) \/ StartsPolicyBridge(w) \/ Invalidate(w)
       \/ \E i \in 1..Len(enquiries[w]) : Answers(w, i) \/ AnswerArrives(w, i)

PolicyReloadSpec == PolicyReloadInit /\ [][PolicyReloadNext]_policyReloadVars

-----------------------------------------------------------------------------
(* Properties. *)

States ==
  [label : {"unmanaged", "pending", "active", "broken", "broken: cannot read", "unknown"},
   kind : {"none", "inline", "file"}, doc : Documents \cup {NoDocument}]
Readings == [pc : {"asleep", "load", "compare", "change", "keep", "tell"},
             prev : States, next : States, tries : 0..Retries]
Commands == [pc : {"none", "open", "replace", "reload"},
             base : Documents \cup {NoDocument}, creates : BOOLEAN]
PaneStates == [listens : BOOLEAN, state : States, locks : States, gen : Nat]
Enquiries == [gen : Nat, about : SUBSET {"connection"}, answer : States]

PolicyReloadTypeOK ==
  /\ anchor \in Anchors /\ inForce \in States
  /\ reload \in [Readers -> Readings] /\ command \in Commands
  /\ panes \in [Panes -> PaneStates]
  /\ enquiries \in [Panes -> Seq(Enquiries)] /\ announced \in [Panes -> Nat]
  /\ policies \in 0..MaxPolicies /\ wakes \in 0..MaxWakes

\* Nothing is on its way to the window.
NothingDue(w) ==
  /\ enquiries[w] = <<>> /\ announced[w] = 0
  /\ \A r \in Readers : reload[r].pc # "tell"

\* A window at rest shows the policy in force and its locks, however questions, answers and
\* changes crossed; or it shows no lock where a question was overtaken (see Invalidate),
\* until the next control asks it again.
LocksInForce ==
  \A w \in Panes : panes[w].listens /\ NothingDue(w) =>
    {panes[w].state, panes[w].locks} \subseteq {inForce, Unknown}
=============================================================================
