------------------------------- MODULE Updates -------------------------------
(***************************************************************************)
(* The in-app updater (stores/update.ts): checks, the download in the      *)
(* background, and the installation the user asks for.  Each waits for the *)
(* network, the user or the operating system, and all share one status.    *)
(*                                                                         *)
(* Left out: progress, release notes, the dismissed version (it only hides  *)
(* the notice), development builds.                                        *)
(***************************************************************************)
EXTENDS Naturals, FiniteSets

CONSTANTS
  MaxReleases,  \* bound: releases published while the app runs
  MaxChecks,    \* bound: checks
  MaxClicks,    \* bound: clicks on the install button
  Meddling      \* see MeddlingKinds

(***************************************************************************)
(* recheck    a check begins while an update is being installed            *)
(* impatient  the install button is clicked while the download runs        *)
(***************************************************************************)
MeddlingKinds == {"recheck", "impatient"}

ASSUME UpdatesAssumption ==
  /\ MaxReleases \in Nat /\ MaxChecks \in Nat /\ MaxClicks \in Nat
  /\ Meddling \subseteq MeddlingKinds

\* An Update object is known by the check that made it.
Checks == 1..MaxChecks
Clicks == 1..MaxClicks
NoUpdate == 0
Statuses == {"idle", "checking", "available", "downloading", "readyToRestart", "installing",
             "ready", "error"}
NoCheck == [pc |-> "no", statusBefore |-> "idle", versionBefore |-> 0]
NoClick == [pc |-> "no", update |-> NoUpdate, promise |-> NoUpdate]

VARIABLES
  status,
  availableVersion,
  update,     \* _update
  promise,    \* _downloadPromise: what it downloads
  newest,     \* the newest release, 0 while it is the one that runs
  versionOf,  \* the version of each object
  downloading, \* downloads under way
  downloaded, \* objects whose download has completed
  check,      \* runCheck
  install     \* installAndRelaunch

offer == <<status, availableVersion, update, promise>>
updatesVars == <<offer, newest, versionOf, downloading, downloaded, check, install>>

UpdatesTypeOK ==
  /\ status \in Statuses
  /\ availableVersion \in 0..MaxReleases /\ newest \in 0..MaxReleases
  /\ update \in Checks \cup {NoUpdate} /\ promise \in Checks \cup {NoUpdate}
  /\ versionOf \in [Checks -> 0..MaxReleases]
  /\ downloading \subseteq Checks /\ downloaded \subseteq Checks
  /\ check \in [Checks -> [pc : {"no", "asking", "over"}, statusBefore : Statuses,
                           versionBefore : 0..MaxReleases]]
  /\ install \in [Clicks -> [pc : {"no", "download", "sidecar", "confirm", "apply", "over"},
                             update : Checks \cup {NoUpdate}, promise : Checks \cup {NoUpdate}]]

\* A start of the app: nothing has been found yet.
Started(v) ==
  /\ status = "idle" /\ availableVersion = 0 /\ update = NoUpdate /\ promise = NoUpdate
  /\ newest = 0 /\ versionOf = v
  /\ downloading = {} /\ downloaded = {}
  /\ check = [n \in Checks |-> NoCheck] /\ install = [k \in Clicks |-> NoClick]

UpdatesInit == Started([n \in Checks |-> 0])

Installing == {k \in Clicks : install[k].pc \notin {"no", "over"}}

Release ==
  /\ newest < MaxReleases
  /\ newest' = newest + 1
  /\ UNCHANGED <<offer, versionOf, downloading, downloaded, check, install>>

-----------------------------------------------------------------------------
(* runCheck, at launch, by the timer, by the user.                         *)

CheckBegins(n) ==
  /\ check[n].pc = "no" /\ \A m \in 1..n - 1 : check[m].pc # "no"
  /\ "recheck" \in Meddling \/ Installing = {}
  /\ status \notin {"checking", "downloading"}
  /\ check' = [check EXCEPT ![n] = [pc |-> "asking", statusBefore |-> status,
                                    versionBefore |-> availableVersion]]
  /\ status' = "checking"
  /\ UNCHANGED <<availableVersion, update, promise, newest, versionOf, downloading, downloaded,
                 install>>

CheckEnds(n) == check[n].pc = "asking" /\ check' = [check EXCEPT ![n].pc = "over"]

NothingNew(n) ==
  /\ CheckEnds(n) /\ newest = 0
  /\ status' = "idle" /\ availableVersion' = 0 /\ update' = NoUpdate /\ promise' = NoUpdate
  /\ UNCHANGED <<newest, versionOf, downloading, downloaded, install>>

\* The version it already knew: what was going on goes on.
AlreadyTracked(n) ==
  /\ check[n].versionBefore = newest
  /\ check[n].statusBefore \in {"available", "readyToRestart", "installing", "ready"}

TrackedStill(n) ==
  /\ CheckEnds(n) /\ newest # 0 /\ AlreadyTracked(n)
  /\ status' = check[n].statusBefore
  /\ UNCHANGED <<availableVersion, update, promise, newest, versionOf, downloading, downloaded,
                 install>>

\* Mutant: the download of the last version stands for the one of the new one.
FoundKeepsPromise(n) ==
  /\ CheckEnds(n) /\ newest # 0 /\ ~AlreadyTracked(n)
  /\ availableVersion' = newest /\ versionOf' = [versionOf EXCEPT ![n] = newest]
  /\ update' = n
  /\ IF promise = NoUpdate
       THEN promise' = n /\ downloading' = downloading \cup {n} /\ status' = "downloading"
       ELSE status' = "readyToRestart" /\ UNCHANGED <<promise, downloading>>
  /\ UNCHANGED <<newest, downloaded, install>>

\* Another version: its download starts at once, startBackgroundDownload.
Found(n) ==
  /\ CheckEnds(n) /\ newest # 0 /\ ~AlreadyTracked(n)
  /\ availableVersion' = newest /\ versionOf' = [versionOf EXCEPT ![n] = newest]
  /\ update' = n /\ promise' = n
  /\ downloading' = downloading \cup {n}
  /\ status' = "downloading"
  /\ UNCHANGED <<newest, downloaded, install>>

CheckFails(n) ==
  /\ CheckEnds(n)
  /\ status' = "error"
  /\ UNCHANGED <<availableVersion, update, promise, newest, versionOf, downloading, downloaded,
                 install>>

-----------------------------------------------------------------------------
(* The download settles.                                                   *)

Downloaded(n) ==
  /\ n \in downloading
  /\ downloading' = downloading \ {n} /\ downloaded' = downloaded \cup {n}
  /\ status' = "readyToRestart"
  /\ UNCHANGED <<availableVersion, update, promise, newest, versionOf, check, install>>

DownloadFails(n) ==
  /\ n \in downloading
  /\ downloading' = downloading \ {n}
  /\ status' = "error" /\ promise' = NoUpdate
  /\ UNCHANGED <<availableVersion, update, newest, versionOf, downloaded, check, install>>

-----------------------------------------------------------------------------
(* installAndRelaunch.                                                     *)

\* The banner's button is there while the update downloads, the card's only after.
Install(k) ==
  /\ install[k].pc = "no" /\ \A j \in 1..k - 1 : install[j].pc # "no"
  /\ update # NoUpdate
  /\ \/ status = "readyToRestart"
     \/ status \in {"available", "downloading"} /\ "impatient" \in Meddling
  /\ status' = "installing"
  /\ install' = [install EXCEPT ![k] =
       [pc |-> IF status = "readyToRestart" THEN "sidecar" ELSE "download",
        update |-> update, promise |-> promise]]
  /\ UNCHANGED <<availableVersion, update, promise, newest, versionOf, downloading, downloaded,
                 check>>

Continue(k, from, to) ==
  install[k].pc = from /\ install' = [install EXCEPT ![k].pc = to]

\* The click waited for the download.
Awaited(k) ==
  /\ install[k].promise \notin downloading
  /\ Continue(k, "download", IF status = "error" THEN "over" ELSE "sidecar")
  /\ UNCHANGED <<offer, newest, versionOf, downloading, downloaded, check>>

SidecarRuns(k) ==
  /\ Continue(k, "sidecar", "confirm")
  /\ UNCHANGED <<offer, newest, versionOf, downloading, downloaded, check>>

Apply(k) ==
  /\ Continue(k, "sidecar", "apply") \/ Continue(k, "confirm", "apply")
  /\ status' = "ready"
  /\ UNCHANGED <<availableVersion, update, promise, newest, versionOf, downloading, downloaded,
                 check>>

NotNow(k) ==
  /\ Continue(k, "confirm", "over")
  /\ status' = "readyToRestart"
  /\ UNCHANGED <<availableVersion, update, promise, newest, versionOf, downloading, downloaded,
                 check>>

ApplyFails(k) ==
  /\ Continue(k, "apply", "over")
  /\ status' = "error"
  /\ UNCHANGED <<availableVersion, update, promise, newest, versionOf, downloading, downloaded,
                 check>>

\* relaunchApp, into the new version.
Relaunched(k) ==
  /\ install[k].pc = "apply"
  /\ status' = "idle" /\ availableVersion' = 0 /\ update' = NoUpdate /\ promise' = NoUpdate
  /\ newest' = newest - versionOf[install[k].update]
  /\ versionOf' = [n \in Checks |-> 0]
  /\ downloading' = {} /\ downloaded' = {}
  /\ check' = [n \in Checks |-> NoCheck] /\ install' = [j \in Clicks |-> NoClick]

UpdatesNext ==
  \/ Release
  \/ \E n \in Checks : \/ CheckBegins(n) \/ NothingNew(n) \/ TrackedStill(n) \/ Found(n)
                       \/ CheckFails(n) \/ Downloaded(n) \/ DownloadFails(n)
  \/ \E k \in Clicks : \/ Install(k) \/ Awaited(k) \/ SidecarRuns(k) \/ Apply(k)
                       \/ NotNow(k) \/ ApplyFails(k) \/ Relaunched(k)

UpdatesSpec == UpdatesInit /\ [][UpdatesNext]_updatesVars

-----------------------------------------------------------------------------
(* Properties.                                                             *)

\* One installation at a time, of an object whose own download has completed; and the
\* buttons show that one is under way for exactly as long as one is, so that a click that
\* came to nothing can be repeated and one that did not cannot.
InstallOnce ==
  /\ Cardinality(Installing) <= 1
  /\ \A k \in Clicks : install[k].pc = "apply" => install[k].update \in downloaded
  /\ Installing # {} <=> status \in {"installing", "ready"}
=============================================================================
