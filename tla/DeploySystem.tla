--------------------------- MODULE DeploySystem ---------------------------
(***************************************************************************)
(* All processes of a user session together, and what they promise.        *)
(***************************************************************************)
EXTENDS DeployWorker, DeployMain

Init ==
    /\ lock = NoOne
    /\ journal = NoJournal
    /\ registry = {} /\ env = {} /\ build = {} /\ orphans = {}
    /\ settled = {} /\ overlaid = {} /\ mislaid = {}
    /\ unit = [s \in Services |-> "absent"]
    /\ tree = [t \in Trees |-> "absent"]
    /\ role = [p \in Procs |-> "none"]
    /\ wpc = [p \in Procs |-> Idle]
    /\ mpc = [p \in Procs |-> "off"]
    /\ wsvc = [p \in Procs |-> NoService]
    /\ msvc = wsvc
    /\ repaired = [p \in Procs |-> FALSE]
    /\ flag = repaired /\ exiting = repaired /\ hadEntry = repaired
    /\ basis = [p \in Procs |-> "startup"]
    /\ todo = [p \in Procs |-> NoJournal]
    /\ rows = [h \in Holders |-> {}]

Next ==
    \/ \E p \in Sessions : UserNext(p) \/ WorkerNext(p) \/ DeleteNext(p)
    \/ \E p \in Procs : ReconcileNext(p) \/ ExitNext(p)
    \/ SweepStart \/ SweepGhosts
    \/ \E s \in Services : GhostEnds(s)
    \/ \E p \in Procs : Crash(p)
    \/ Reboot

Spec == Init /\ [][Next]_vars

\* Where a deploy fetches: the ref it resolves, the source, the toolchains and
\* modules.  Fetches are retried without end, exit or no exit.
Fetching == {"attempt", "fill", "prepare"}

\* Threads are scheduled, ghost units end by RuntimeMaxSec, and the timer,
\* which fires again and again, does not find the lock held each time.  The
\* user owes nothing: sessions need not be started, nor exited.  The network
\* owes nothing either: a worker may fetch for ever, but the time that a
\* quiesce has runs out.
Fairness ==
    /\ \A p \in Sessions :
          /\ WF_vars(wpc[p] \notin Fetching /\ WorkerNext(p))
          /\ WF_vars(DeleteNext(p))
    /\ \A p \in Procs : WF_vars(ReconcileNext(p)) /\ WF_vars(ExitNext(p))
    /\ WF_vars(SweepGhosts) /\ SF_vars(SweepStart)
    /\ \A p \in Sessions : SF_vars(QuiesceDone(p))
    /\ \A s \in Services : WF_vars(GhostEnds(s))

FairSpec == Spec /\ Fairness

\* A reboot that finds one process, with nothing left but to exit, is its exit,
\* and one that finds an orphaned build is its end.
Mishap ==
    /\ (\E p \in Procs : Crash(p)) \/ Reboot
    /\ ~\E p \in Procs : ProcEnd(p)
    /\ ~\E s \in Services : GhostEnds(s)

\* No other service is cloned into the directory of s: the owner of a repository
\* is no part of that directory's name.
Alone(s) == \A t \in Services \ {s} : TreeOf[t] # TreeOf[s]

(***************************************************************************)
(* Safety.                                                                 *)
(***************************************************************************)

\* lock.rs: whoever stands between taking deploy.lock and dropping it holds
\* it, in whichever thread, and nobody else holds it; a dead holder does not.
LockContract ==
    \A p \in Procs :
        /\ wpc[p] \in Locked <=> lock = <<p, "worker">>
        /\ mpc[p] \in RcHeld <=> lock = <<p, "main">>

\* lock.rs, "journal entry present + lock free can only mean an interrupted
\* deploy", and its converse: a live deploy has its entry in the journal from
\* begin to clear, whatever reconciliations, sweeps and deletes run beside
\* it, so that its death at any point leaves a trace to clean up from.
JournalTracksDeploys ==
    \A p \in Sessions : wpc[p] \in Journaled => journal[wsvc[p]] # "none"

\* sweep_stale: under a lock it could take, every ghost unit is an orphan.
\* A build that a live deploy waits for implies a deploy lock that is held.
LiveBuildsAreLocked ==
    \A s \in build : \E p \in Sessions :
        /\ lock = <<p, "worker">>
        /\ wpc[p] = "building" /\ wsvc[p] = s

\* Somebody will take care of s: a journal entry for the next reconciliation,
\* or a delete in progress.
InProgress(s) ==
    \/ journal[s] # "none"
    \/ \E q \in Procs : mpc[q] \in Deleting /\ msvc[q] = s

\* A unit (which systemd keeps running and starts at boot) or a file of
\* secrets belongs to a service the panel lists, or to work that somebody
\* still answers for.
Accounted(s) ==
    (unit[s] # "absent" \/ s \in env) => (s \in registry \/ InProgress(s))

\* rollback_failed and reconcile_stale_inner: nothing is left to run unlisted,
\* wherever deploys fail or die, unless an attempt was started over the
\* remains of an unfinished one (a retry after a repair always is) and then
\* gave up without a rollback, or unless a store of another's row lost its own.
UnitsAreAccounted == \A s \in Services \ (overlaid \cup mislaid) : Accounted(s)

\* stale_action: a deploy that got as far as its registration stays up,
\* through crashes, sweeps and exits, until it is stopped by the user,
\* redeployed or deleted, or until an unlocked store of another service's row
\* loses its own.  Its tree is its own to keep where no other service is cloned
\* into the same directory.
FinishedDeploysSurvive ==
    \A s \in settled :
        /\ s \in registry /\ unit[s] = "running"
        /\ Alone(s) => tree[TreeOf[s]] = "whole"

(***************************************************************************)
(* Action properties.                                                      *)
(***************************************************************************)

\* reconcile_stale_locked: what a live deploy is working on is left alone by
\* every other thread.  While its worker stands still, nothing of its service
\* changes on disk (a reboot, which ends the worker too, apart), but for what
\* two things in the code let through: a delete of another service, which takes
\* no lock, can store an older state.json over its row, and a service cloned
\* into the same directory can be deleted with the tree.
DeployUndisturbed ==
    [][\A p \in Sessions :
          (wpc[p] \in Journaled /\ wpc'[p] = wpc[p]) =>
              LET s == wsvc[p] IN
              /\ journal'[s] = journal[s]
              /\ unit'[s] = unit[s]
              /\ s \in mislaid' \/ ((s \in registry') <=> (s \in registry))
              /\ (s \in env') <=> (s \in env)
              /\ Alone(s) => tree'[TreeOf[s]] = tree[TreeOf[s]]]_vars

\* A reconciliation that ran to its end under the lock leaves no entry in the
\* journal, not even of a deploy that was interrupted, or tried to start,
\* while it was at work.
ReconcileSettlesAll ==
    [][\A p \in Procs :
          (mpc[p] = "rcNext" /\ mpc'[p] \in {"ready", "out"}) =>
              journal' = NoJournal]_vars

\* cancel.rs and exit_with_reconcile: a graceful exit settles its own
\* interrupted deploy now, not at the next launch.  If the final
\* reconciliation finds the lock held, it is by another process.
NoSelfDeferral ==
    [][\A p \in Sessions :
          (mpc[p] = "rcLock" /\ mpc'[p] = "out" /\ journal # NoJournal) =>
              lock # <<p, "worker">>]_vars

(***************************************************************************)
(* Liveness.                                                               *)
(***************************************************************************)

\* p's worker does not stay for ever in one fetch.
FetchesEnd(p) == []<>(wpc[p] \notin Fetching)

\* cleanup timer: once crashes stop, every journal entry goes away, with no
\* session ever started again, unless a live deploy keeps the lock and waits
\* for the network for ever.
InterruptedIsCleaned ==
    (<>[][~Mishap]_vars /\ \A p \in Sessions : FetchesEnd(p)) =>
        \A s \in Services : journal[s] # "none" ~> journal[s] = "none"

\* The repair retry does not loop, and nothing but the network is waited for
\* for ever.
DeployEnds ==
    \A p \in Sessions : FetchesEnd(p) => (wpc[p] = "spawned" ~> wpc[p] = Idle)

\* A process asked to exit does, even while its worker waits for a network that
\* never comes back: quiesce and join are bounded, and end with the process.
ExitEnds == \A p \in Sessions : mpc[p] = "quiesce" ~> mpc[p] = "off"

(***************************************************************************)
(* Claims of comments in the code that the code does not keep.             *)
(***************************************************************************)

\* stop_existing: an interrupted redeploy leaves the old service intact; and
\* stale_action: reconciliation must never tear down a live service.
CleanupSparesLiveServices ==
    \A p \in Procs : mpc[p] = "rcUnit" =>
        (msvc[p] \in registry => unit[msvc[p]] = "absent")

\* GHOST_UNIT_PREFIXES: ghost units are only stopped by a sweep that holds
\* the deploy lock, which proves no deploy is live: so nobody stops the build
\* of a deploy that another process is waiting for.
ForeignBuildsSurvive ==
    [][\A p \in Sessions :
          (/\ wpc[p] = "building" /\ wsvc[p] \in build
           /\ wpc'[p] = wpc[p] /\ mpc'[p] = mpc[p]) => wsvc[p] \in build']_vars

\* README: a failed deploy is rolled back and wiped immediately, an
\* interrupted one is cleaned up later: never is a unit left unlisted.
NoUnlistedUnits == \A s \in Services : Accounted(s)

(***************************************************************************)
(* The abstract view of a service.                                         *)
(***************************************************************************)
HasTree(s) == tree[TreeOf[s]] = "whole" \/ ~Alone(s)
HasHusk(s) == tree[TreeOf[s]] # "absent" /\ Alone(s)

Phase(s) ==
    IF s \in mislaid THEN "mislaid"
    ELSE IF \E q \in Procs : mpc[q] \in Deleting /\ msvc[q] = s
    THEN IF s \in overlaid THEN "purging" ELSE "deleting"
    ELSE IF journal[s] # "none"
         THEN IF s \in settled THEN "committed"
              ELSE IF s \in overlaid THEN "overlaying" ELSE "deploying"
    ELSE IF s \in registry
         THEN IF unit[s] # "absent" /\ HasTree(s) THEN "up" ELSE "row"
    ELSE IF unit[s] # "absent" \/ s \in env THEN "leaked"
    ELSE IF HasHusk(s) THEN "husk" ELSE "gone"

Removal == INSTANCE CleanRemoval WITH phase <- [s \in Services |-> Phase(s)]

\* Whatever the interleaving, each service follows CleanRemoval.
RefinesCleanRemoval == Removal!Spec
=============================================================================
