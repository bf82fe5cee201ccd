----------------------------- MODULE OriginSync -----------------------------
(***************************************************************************)
(* Shared origins: a sweep pulls every registered file into the profiles   *)
(* (stores/sync/originSync.ts, commands/origins.rs) and raises a notice    *)
(* for each connection a file no longer lists, which the user adopts or    *)
(* retires.  A profile with a live pool is not rewritten: its update is    *)
(* deferred until the pool closes.                                         *)
(*                                                                         *)
(* Left out: environments mirrored from an origin (the same rules, one     *)
(* level up), secrets, JSON schemas, the scope of an origin, the edition   *)
(* of an origin.                                                           *)
(***************************************************************************)
EXTENDS Naturals, FiniteSets

CONSTANTS
  Origins,         \* files that may be registered
  Profiles,        \* connections
  Nobody,          \* no owner, no origin
  SuspicionFloor,  \* SUSPICION_FLOOR
  MaxPublished,    \* bound: editions of the files
  MaxSweeps,       \* bound: sweeps
  Meanwhile        \* see MeanwhileKinds

(***************************************************************************)
(* What may happen besides an undisturbed sweep:                           *)
(* decide   the user adopts or retires a connection during a sweep         *)
(* remove   an origin is unregistered during a sweep                       *)
(* restore  a file lists a connection that was retired here                *)
(* close    a pool is closed during a sweep                                *)
(***************************************************************************)
MeanwhileKinds == {"decide", "remove", "restore", "close"}

ASSUME OriginSyncAssumption ==
  /\ Nobody \notin Origins \cup Profiles /\ "gone" \notin Origins \cup {Nobody}
  /\ SuspicionFloor \in Nat /\ MaxPublished \in Nat /\ MaxSweeps \in Nat
  /\ Meanwhile \subseteq MeanwhileKinds

Owners == Origins \cup {Nobody, "gone"}
Nothing == [p \in Profiles |-> Nobody]
NoSweep == [pc |-> "idle", listed |-> {}, todo |-> {}, now |-> Nobody, report |-> {},
            failed |-> FALSE, held |-> {}, found |-> Nothing, touched |-> FALSE]

VARIABLES
  registry,   \* registered origins
  owner,      \* profiles.json: the origin of each profile, Nobody if it is the user's own
  published,  \* what each file lists
  behind,     \* profiles whose file has a newer entry
  pools,      \* live connections
  known,      \* useConnections.profiles
  notices,    \* vanished: the origin each notice names
  decided, deferred,
  sweep,      \* syncAll
  choice,     \* adopt or retire, under way
  swept,      \* history: a sweep has ended since the app started
  missing,    \* history: what the last sweep was told each file lacks
  retired,    \* history: connections the user retired
  editions, sweeps  \* history

files == <<published, behind, editions>>
store == <<notices, decided, deferred>>
past == <<swept, missing, retired, sweeps>>
originSyncVars == <<registry, owner, files, pools, known, store, sweep, choice, past>>

OriginSyncTypeOK ==
  /\ registry \subseteq Origins
  /\ owner \in [Profiles -> Owners] /\ known \in [Profiles -> Owners]
  /\ published \in [Origins -> SUBSET Profiles]
  /\ behind \subseteq Profiles /\ pools \subseteq Profiles
  /\ notices \in [Profiles -> Origins \cup {Nobody}]
  /\ decided \subseteq Profiles /\ deferred \subseteq Profiles
  /\ sweep \in [pc : {"idle", "list", "next", "call", "answer", "refresh"},
                listed : SUBSET Origins, todo : SUBSET Origins,
                now : Origins \cup {Nobody}, report : SUBSET Profiles, failed : BOOLEAN,
                held : SUBSET Profiles, found : [Profiles -> Origins \cup {Nobody}],
                touched : BOOLEAN]
  /\ choice \in [Profiles -> {"none", "adopt", "retire", "adopted", "retired"}]
  /\ swept \in BOOLEAN /\ missing \in [Origins -> SUBSET Profiles]
  /\ retired \subseteq Profiles
  /\ editions \in 0..MaxPublished /\ sweeps \in 0..MaxSweeps

Idle == sweep.pc = "idle"
MayDo(kind) == kind \in Meanwhile \/ Idle

\* The window opens: the profiles are loaded and startPeriodicOriginSync begins.
Opening(own) ==
  /\ known = own
  /\ notices = Nothing /\ decided = {} /\ deferred = {}
  /\ choice = [p \in Profiles |-> "none"]
  /\ swept = FALSE

OriginSyncInit ==
  /\ registry = Origins
  /\ owner \in [Profiles -> Origins]
  /\ published = [o \in Origins |-> {p \in Profiles : owner[p] = o}]
  /\ behind = {} /\ pools = {}
  /\ Opening(owner) /\ sweep = NoSweep
  /\ missing = [o \in Origins |-> {}] /\ retired = {}
  /\ editions = 0 /\ sweeps = 0

-----------------------------------------------------------------------------
(* The files, and the pools.                                               *)

\* Somebody saves the file without p, with p, or with another p.
Publish(o, ps) ==
  /\ Idle /\ editions < MaxPublished
  /\ ps # published[o] \/ ps # {}
  /\ "restore" \in Meanwhile \/ ps \cap retired = {}
  /\ \A q \in Origins \ {o} : ps \cap published[q] = {}
  /\ published' = [published EXCEPT ![o] = ps]
  /\ behind' = behind \cup {p \in ps : owner[p] = o}
  /\ editions' = editions + 1
  /\ UNCHANGED <<registry, owner, pools, known, store, sweep, choice, past>>

Open(p) ==
  /\ p \notin pools /\ known[p] # "gone" /\ choice[p] = "none"
  /\ MayDo("close")
  /\ pools' = pools \cup {p}
  /\ UNCHANGED <<registry, owner, files, known, store, sweep, choice, past>>

\* get().syncing: a sweep on top of another does not start.
BeginSweep ==
  /\ sweeps < MaxSweeps
  /\ sweep' = [NoSweep EXCEPT !.pc = "list"]
  /\ sweeps' = sweeps + 1

\* watchDeferred: the pool that held an update back closes, which sweeps again.
Close(p) ==
  /\ p \in pools /\ MayDo("close")
  /\ pools' = pools \ {p}
  /\ IF ~(deferred \subseteq pools') /\ sweep.pc \in {"idle", "refresh"}
       THEN Idle /\ BeginSweep ELSE UNCHANGED <<sweep, sweeps>>
  /\ UNCHANGED <<registry, owner, files, known, store, choice, swept, missing, retired>>

-----------------------------------------------------------------------------
(* syncAll.                                                                *)

\* Launch, the timer, "Sync now".
Sweep ==
  /\ Idle /\ BeginSweep
  /\ "decide" \in Meanwhile \/ \A p \in Profiles : choice[p] = "none"
  /\ UNCHANGED <<registry, owner, files, pools, known, store, choice, swept, missing, retired>>

ListOrigins ==
  /\ sweep.pc = "list"
  /\ sweep' = [sweep EXCEPT !.pc = "next", !.listed = registry, !.todo = registry]
  /\ UNCHANGED <<registry, owner, files, pools, known, store, choice, past>>

AskOrigin(o) ==
  /\ sweep.pc = "next" /\ o \in sweep.todo
  /\ sweep' = [sweep EXCEPT !.pc = "call", !.now = o, !.todo = @ \ {o}]
  /\ UNCHANGED <<registry, owner, files, pools, known, store, choice, past>>

\* disappearance_is_trustworthy: half of a large origin gone is not believed.
Trustworthy(owned, gone) ==
  gone = 0 \/ owned < SuspicionFloor \/ 2 * gone < owned

\* sync_origin: its own profiles are refreshed unless they are live, new ones are added,
\* those the file lacks are reported, and a profile of another owner is left alone.
Pulled(o) ==
  LET owned == {p \in Profiles : owner[p] = o}
      gone == owned \ published[o]
      report == IF Trustworthy(Cardinality(owned), Cardinality(gone)) THEN gone ELSE {}
      added == {p \in published[o] : owner[p] = "gone"}
      listed == owned \cap published[o]
  IN /\ owner' = [p \in Profiles |-> IF p \in added THEN o ELSE owner[p]]
     /\ behind' = behind \ (added \cup (listed \ pools))
     /\ sweep' = [sweep EXCEPT !.pc = "answer", !.report = report,
                    !.failed = FALSE,
                    !.held = @ \cup (listed \cap pools),
                    !.touched = @ \/ added # {} \/ listed \ pools # {}]
     /\ missing' = [missing EXCEPT ![o] = report]

\* The file cannot be read, or the origin is gone.
PullFails ==
  /\ sweep' = [sweep EXCEPT !.pc = "answer", !.report = {}, !.failed = TRUE]
  /\ missing' = [missing EXCEPT ![sweep.now] = {}]
  /\ UNCHANGED <<owner, behind>>

Pull ==
  /\ sweep.pc = "call"
  /\ \/ sweep.now \in registry /\ Pulled(sweep.now)
     \/ PullFails
  /\ UNCHANGED <<registry, published, editions, pools, known, store, choice, swept, retired,
                 sweeps>>

\* Mutant: a connection that is missing is filed as if it had been retired.
RaiseUnknown(o, ps) == [p \in Profiles |-> IF p \in ps \ decided THEN "gone" ELSE sweep.found[p]]

\* What the user has decided about is not raised again.
Raise(o, ps) == [p \in Profiles |-> IF p \in ps \ decided THEN o ELSE sweep.found[p]]

Answer ==
  /\ sweep.pc = "answer"
  /\ sweep' = [sweep EXCEPT !.pc = "next", !.now = Nobody, !.report = {}, !.failed = FALSE,
                 !.found = Raise(sweep.now, sweep.report)]
  /\ UNCHANGED <<registry, owner, files, pools, known, store, choice, past>>

\* Mutant: profiles of an origin that is no longer registered are not looked for.
OrphansOfListed == {}

\* reconcileOrphans: profiles whose origin was not on the list.
Orphans ==
  {p \in Profiles : /\ known[p] \in Origins \ sweep.listed
                    /\ sweep.found[p] = Nobody /\ p \notin decided}

\* The notices and the held-back list are replaced by what this sweep found.
SweepEnds ==
  /\ sweep.pc = "next" /\ sweep.todo = {}
  /\ notices' = [p \in Profiles |-> IF p \in Orphans THEN known[p] ELSE sweep.found[p]]
  /\ deferred' = sweep.held
  /\ swept' = TRUE
  /\ sweep' = IF sweep.touched THEN [NoSweep EXCEPT !.pc = "refresh"] ELSE NoSweep
  /\ UNCHANGED <<registry, owner, files, pools, known, decided, choice, missing, retired,
                 sweeps>>

\* refreshProfiles, after the sweep has let go of "syncing".
Refreshed ==
  /\ sweep.pc = "refresh"
  /\ known' = owner
  /\ sweep' = NoSweep
  /\ UNCHANGED <<registry, owner, files, pools, store, choice, past>>

-----------------------------------------------------------------------------
(* The user.                                                               *)

\* adopt and retire, offered by a notice: the profile is saved or deleted.
Adopt(p) ==
  /\ notices[p] # Nobody /\ choice[p] = "none" /\ known[p] # "gone"
  /\ MayDo("decide")
  /\ choice' = [choice EXCEPT ![p] = "adopt"]
  /\ owner' = [owner EXCEPT ![p] = Nobody]
  /\ UNCHANGED <<registry, files, pools, known, store, sweep, past>>

Retire(p) ==
  /\ notices[p] # Nobody /\ choice[p] = "none" /\ p \notin pools
  /\ MayDo("decide")
  /\ "restore" \in Meanwhile \/ \A o \in registry : p \notin published[o]
  /\ choice' = [choice EXCEPT ![p] = "retire"]
  /\ owner' = [owner EXCEPT ![p] = "gone"]
  /\ retired' = retired \cup {p}
  /\ UNCHANGED <<registry, files, pools, known, store, sweep, swept, missing, sweeps>>

\* refresh: the list is read again.
Reread(p) ==
  /\ choice[p] \in {"adopt", "retire"}
  /\ known' = owner
  /\ choice' = [choice EXCEPT ![p] = IF @ = "adopt" THEN "adopted" ELSE "retired"]
  /\ UNCHANGED <<registry, owner, files, pools, store, sweep, past>>

Decided(p) ==
  /\ choice[p] \in {"adopted", "retired"}
  /\ choice' = [choice EXCEPT ![p] = "none"]
  /\ decided' = decided \cup {p}
  /\ notices' = [notices EXCEPT ![p] = Nobody]
  /\ UNCHANGED <<registry, owner, files, pools, known, deferred, sweep, past>>

\* noticeOriginRemoved, then remove_origin: what it imported stays.
RemoveOrigin(o) ==
  /\ o \in registry /\ MayDo("remove")
  /\ registry' = registry \ {o}
  /\ notices' = [p \in Profiles |->
       IF known[p] = o /\ p \notin decided THEN o ELSE notices[p]]
  /\ UNCHANGED <<owner, files, pools, known, decided, deferred, sweep, choice, past>>

\* The app is closed, or dies, and starts again.
RestartApp ==
  /\ swept
  /\ known' = owner /\ notices' = Nothing /\ decided' = {} /\ deferred' = {}
  /\ choice' = [p \in Profiles |-> "none"]
  /\ sweep' = NoSweep /\ swept' = FALSE /\ pools' = {}
  /\ UNCHANGED <<registry, owner, files, missing, retired, sweeps>>

OriginSyncNext ==
  \/ \E o \in Origins : \E ps \in SUBSET Profiles : Publish(o, ps)
  \/ \E p \in Profiles : Open(p) \/ Close(p)
  \/ Sweep \/ ListOrigins
  \/ \E o \in Origins : AskOrigin(o) \/ RemoveOrigin(o)
  \/ Pull \/ Answer \/ SweepEnds \/ Refreshed
  \/ \E p \in Profiles : Adopt(p) \/ Retire(p) \/ Reread(p) \/ Decided(p)
  \/ RestartApp

OriginSyncSpec == OriginSyncInit /\ [][OriginSyncNext]_originSyncVars

-----------------------------------------------------------------------------
(* Properties.                                                             *)

MissingNoticed ==
  Idle /\ swept => \A p \in Profiles :
    /\ choice[p] = "none"
    /\ owner[p] \in Origins
    /\ owner[p] \in registry => p \in missing[owner[p]]
    => notices[p] = owner[p]

NoticesDue ==
  Idle => \A p \in Profiles : notices[p] # Nobody /\ choice[p] = "none" =>
    p \notin decided /\ owner[p] = notices[p]

HeldWhileOpen == Idle => deferred \subseteq pools

\* Between sweeps, every connection its origin, when it could be read, no longer lists, or
\* whose origin is gone, can be adopted or retired, for without a notice it can be neither
\* edited nor deleted; a notice is about a connection that still belongs to the origin it
\* names and that the user has not decided about; and an update is held back only for a
\* connection that is open.
SweepSettles == MissingNoticed /\ NoticesDue /\ HeldWhileOpen
=============================================================================
