---------------------------- MODULE DeployMain ----------------------------
(***************************************************************************)
(* The other thread of each process: startup, reconciliation of leftover   *)
(* journal entries, graceful exit, deletion of a service, the timer's      *)
(* sweep; and what happens to processes from outside: crash and reboot.    *)
(***************************************************************************)
EXTENDS DeployState

MGoto(p, pc) == mpc' = [mpc EXCEPT ![p] = pc]

\* A step of p's main thread that leaves the rest of the process alone.
MStep(p, from, to) ==
    /\ mpc[p] = from
    /\ MGoto(p, to)
    /\ UNCHANGED <<wvars, role, exiting, basis, rows>>

\* unregister: the registry is loaded, and stored without the row at hand.
LoadRow(p, from, to) ==
    /\ mpc[p] = from
    /\ MGoto(p, to)
    /\ LoadRegistry(<<p, "main">>, msvc[p])
    /\ UNCHANGED <<lock, disk, ghost, wvars, role, exiting, msvc, basis,
                   hadEntry, todo, hist>>

DropRow(p, from, to) ==
    /\ mpc[p] = from
    /\ MGoto(p, to)
    /\ StoreRegistry(<<p, "main">>, msvc[p], {})
    /\ settled' = settled \ Overtaken(<<p, "main">>, msvc[p])
    /\ UNCHANGED <<lock, journal, unit, env, tree, ghost, wvars, role, exiting,
                   msvc, basis, hadEntry, todo, overlaid>>

\* Where a reconciliation returns to.
AfterReconcile(p) == IF basis[p] = "startup" THEN "ready" ELSE "out"

(***************************************************************************)
(* Startup.  Both entries reconcile first.                                 *)
(***************************************************************************)
Launch(p) ==
    /\ mpc[p] = "off"
    /\ \E r \in Roles : role' = [role EXCEPT ![p] = r]
    /\ MGoto(p, "rcLock")
    /\ basis' = [basis EXCEPT ![p] = "startup"]
    /\ UNCHANGED <<lock, disk, ghost, wvars, exiting, msvc, hadEntry, todo,
                   rows, hist>>

\* The panel's user starts a deploy; a __deploy goes on to its manifest.
\* While a deploy is on screen the panel takes no other command.
Spawn(p) ==
    /\ role[p] \in {"panel", "cli"}
    /\ mpc[p] = "ready"
    /\ wpc[p] = Idle
    /\ \E s \in Services :
          /\ MayDeploy(s)
          /\ wsvc' = [wsvc EXCEPT ![p] = s]
    /\ wpc' = [wpc EXCEPT ![p] = "spawned"]
    /\ UNCHANGED <<lock, disk, ghost, repaired, flag, mvars, rows, hist>>

\* The stop, start and restart keys of the services screen, which lists
\* state.json (a restart of a running service changes nothing here).
StopService(p) ==
    /\ MStep(p, "ready", "ready")
    /\ role[p] = "panel" /\ wpc[p] = Idle
    /\ \E s \in registry :
          /\ MayHandle(s)
          /\ unit[s] = "running"
          /\ unit' = [unit EXCEPT ![s] = "stopped"]
          /\ settled' = settled \ {s}
    /\ UNCHANGED <<lock, journal, registry, env, tree, ghost, msvc, hadEntry,
                   todo, overlaid, mislaid>>

StartService(p) ==
    /\ MStep(p, "ready", "ready")
    /\ role[p] = "panel" /\ wpc[p] = Idle
    /\ \E s \in registry :
          /\ MayHandle(s)
          /\ unit[s] = "stopped"
          /\ unit' = [unit EXCEPT ![s] = "running"]
    /\ UNCHANGED <<lock, journal, registry, env, tree, ghost, msvc, hadEntry,
                   todo, hist>>

(***************************************************************************)
(* reconcile_stale_locked and reconcile_stale_inner.                       *)
(***************************************************************************)
NothingStale(p) ==
    /\ MStep(p, "rcLock", AfterReconcile(p))
    /\ journal = NoJournal
    /\ UNCHANGED <<lock, disk, ghost, msvc, hadEntry, todo, hist>>

Deferred(p) ==
    /\ MStep(p, "rcLock", AfterReconcile(p))
    /\ journal # NoJournal
    /\ lock # NoOne
    /\ UNCHANGED <<lock, disk, ghost, msvc, hadEntry, todo, hist>>

\* Mutation: the guard is bound to `_` and dropped at once.
ReconcileLockLeaky(p) ==
    /\ MStep(p, "rcLock", "rcNext")
    /\ journal # NoJournal
    /\ lock = NoOne
    /\ todo' = [todo EXCEPT ![p] = journal]
    /\ UNCHANGED <<lock, disk, ghost, msvc, hadEntry, hist>>

\* The entries are read again once the lock is held.
ReconcileLock(p) ==
    /\ MStep(p, "rcLock", "rcNext")
    /\ journal # NoJournal
    /\ TryLock(p, "main")
    /\ todo' = [todo EXCEPT ![p] = journal]
    /\ UNCHANGED <<disk, ghost, msvc, hadEntry, hist>>

\* Mutation: state.json is not asked about a registering entry.
StaleActionBlind(state, registered) == state # "registered"

\* Does an entry call for a clean removal, or only to be forgotten?
StaleAction(state, registered) ==
    CASE state = "registered"  -> FALSE
      [] state = "registering" -> ~registered
      [] OTHER                 -> TRUE

Pending(p) == {s \in Services : todo[p][s] # "none"}

ForgetEntry(p) ==
    /\ MStep(p, "rcNext", "rcNext")
    /\ \E s \in Pending(p) :
          /\ ~StaleAction(todo[p][s], s \in registry)
          /\ JournalClear(s)
          /\ todo' = [todo EXCEPT ![p][s] = "none"]
    /\ UNCHANGED <<lock, registry, unit, env, tree, ghost, msvc, hadEntry,
                   hist>>

\* supervisor::stop, then the artifacts one by one.
CleanEntry(p) ==
    /\ MStep(p, "rcNext", "rcUnit")
    /\ \E s \in Pending(p) :
          /\ StaleAction(todo[p][s], s \in registry)
          /\ msvc' = [msvc EXCEPT ![p] = s]
          /\ todo' = [todo EXCEPT ![p][s] = "none"]
    /\ UNCHANGED <<lock, disk, ghost, hadEntry, hist>>

CleanUnit(p) ==
    /\ MStep(p, "rcUnit", "rcEnv")
    /\ RemoveUnit(msvc[p])
    /\ UNCHANGED <<lock, journal, registry, env, tree, ghost, msvc, hadEntry,
                   todo, hist>>

CleanEnv(p) ==
    /\ MStep(p, "rcEnv", "rcTree")
    /\ RemoveEnv(msvc[p])
    /\ overlaid' = overlaid \ {msvc[p]}
    /\ UNCHANGED <<lock, journal, registry, unit, tree, ghost, msvc, hadEntry,
                   todo, settled, mislaid>>

\* The clone directory is derived from the URL, registry or no registry.
CleanTree(p) ==
    /\ MStep(p, "rcTree", "rcUnreg")
    /\ WipeTree(TreeOf[msvc[p]])
    /\ UNCHANGED <<lock, journal, registry, unit, env, ghost, msvc, hadEntry,
                   todo, hist>>

CleanRegistry(p) == LoadRow(p, "rcUnreg", "rcStore")
CleanRow(p)      == DropRow(p, "rcStore", "rcClear")

\* The entry is settled whether or not the tree could be removed.
CleanJournal(p) ==
    /\ MStep(p, "rcClear", "rcNext")
    /\ JournalClear(msvc[p])
    /\ msvc' = [msvc EXCEPT ![p] = NoService]
    /\ UNCHANGED <<lock, registry, unit, env, tree, ghost, hadEntry, todo,
                   hist>>

ReconcileDone(p) ==
    /\ MStep(p, "rcNext", AfterReconcile(p))
    /\ Pending(p) = {}
    /\ Unlock
    /\ UNCHANGED <<disk, ghost, msvc, hadEntry, todo, hist>>

(***************************************************************************)
(* The timer: sweep_stale, entirely under the lock.  A firing that finds   *)
(* the lock held does nothing.                                             *)
(***************************************************************************)
\* Mutation: the sweep does not take the lock.
SweepStartUnlocked ==
    /\ role[Timer] = "none"
    /\ role' = [role EXCEPT ![Timer] = "timer"]
    /\ basis' = [basis EXCEPT ![Timer] = "sweep"]
    /\ MGoto(Timer, "sweep")
    /\ UNCHANGED <<lock, disk, ghost, wvars, exiting, msvc, hadEntry, todo,
                   rows, hist>>

SweepStart ==
    /\ role[Timer] = "none"
    /\ TryLock(Timer, "main")
    /\ role' = [role EXCEPT ![Timer] = "timer"]
    /\ basis' = [basis EXCEPT ![Timer] = "sweep"]
    /\ MGoto(Timer, "sweep")
    /\ UNCHANGED <<disk, ghost, wvars, exiting, msvc, hadEntry, todo, rows,
                   hist>>

\* Mutation: the sweep stops ghosts and leaves the journal alone.
SweepGhostsOnly ==
    /\ MStep(Timer, "sweep", "rcNext")
    /\ build' = {} /\ orphans' = {}
    /\ UNCHANGED <<lock, disk, msvc, hadEntry, todo, hist>>

\* Every ghost unit listed is taken for an orphan and stopped.
SweepGhosts ==
    /\ MStep(Timer, "sweep", "rcNext")
    /\ build' = {} /\ orphans' = {}
    /\ todo' = [todo EXCEPT ![Timer] = journal]
    /\ UNCHANGED <<lock, disk, msvc, hadEntry, hist>>

(***************************************************************************)
(* Graceful exit: quit keys and signals in a panel, the signal watchdog of *)
(* a __deploy.                                                             *)
(***************************************************************************)
\* A panel with no deploy to stop reconciles at once.
ExitIdle(p) ==
    /\ mpc[p] = "ready"
    /\ role[p] = "panel"
    /\ wpc[p] = Idle
    /\ MGoto(p, "rcLock")
    /\ basis' = [basis EXCEPT ![p] = "exit"]
    /\ UNCHANGED <<lock, disk, ghost, wvars, role, exiting, msvc, hadEntry,
                   todo, rows, hist>>

RequestExit(p) ==
    /\ mpc[p] = "ready"
    /\ wpc[p] # Idle
    /\ MGoto(p, "quiesce")
    /\ basis' = [basis EXCEPT ![p] = "exit"]
    /\ exiting' = [exiting EXCEPT ![p] = TRUE]
    /\ UNCHANGED <<lock, disk, ghost, wvars, role, msvc, hadEntry, todo, rows,
                   hist>>

\* quiesce, one turn: stop all ghost units of the user manager ...
QuiesceGhosts(p) ==
    /\ MStep(p, "quiesce", "qkill")
    /\ flag[p]
    /\ build' = {} /\ orphans' = {}
    /\ UNCHANGED <<lock, disk, msvc, hadEntry, todo, hist>>

\* ... then kill this process's descendants.  The client of a build started
\* in between dies; the unit it waited for does not.
QuiesceKill(p) ==
    /\ mpc[p] = "qkill"
    /\ MGoto(p, "quiesce")
    /\ IF wpc[p] = "building"
       THEN /\ wpc' = [wpc EXCEPT ![p] = "rbUnit"]
            /\ orphans' = orphans \cup (build \cap {wsvc[p]})
            /\ build' = build \ {wsvc[p]}
       ELSE UNCHANGED <<wpc, build, orphans>>
    /\ UNCHANGED <<lock, disk, wsvc, repaired, flag, role, exiting, msvc,
                   basis, hadEntry, todo, rows, hist>>

\* The flag is down, or the time is up.  Only a panel joins its worker.
QuiesceDone(p) ==
    /\ MStep(p, "quiesce", IF role[p] = "panel" THEN "join" ELSE "rcLock")
    /\ PatientExit => ~flag[p]
    /\ UNCHANGED <<lock, disk, ghost, msvc, hadEntry, todo, hist>>

\* Mutation: the join has no deadline.
JoinUnbounded(p) ==
    /\ MStep(p, "join", "rcLock")
    /\ wpc[p] = Idle
    /\ UNCHANGED <<lock, disk, ghost, msvc, hadEntry, todo, hist>>

\* Mutation: the exit does not wait for the worker thread.
JoinSkipped(p) ==
    /\ MStep(p, "join", "rcLock")
    /\ UNCHANGED <<lock, disk, ghost, msvc, hadEntry, todo, hist>>

Join(p) ==
    /\ MStep(p, "join", "rcLock")
    /\ PatientExit => wpc[p] = Idle
    /\ UNCHANGED <<lock, disk, ghost, msvc, hadEntry, todo, hist>>

(***************************************************************************)
(* remove_unit_and_state, on the panel's UI thread and without the lock.   *)
(***************************************************************************)
StartDelete(p) ==
    /\ MStep(p, "ready", "delUnit")
    /\ role[p] = "panel"
    /\ wpc[p] = Idle
    /\ \E s \in Services :
          /\ MayDelete(s)
          /\ msvc' = [msvc EXCEPT ![p] = s]
          /\ hadEntry' = [hadEntry EXCEPT ![p] = s \in registry]
          /\ settled' = settled \ {s}
    /\ UNCHANGED <<lock, disk, ghost, todo, overlaid, mislaid>>

DeleteUnit(p) ==
    /\ MStep(p, "delUnit", "delEnv")
    /\ RemoveUnit(msvc[p])
    /\ UNCHANGED <<lock, journal, registry, env, tree, ghost, msvc, hadEntry,
                   todo, hist>>

DeleteEnv(p) ==
    /\ MStep(p, "delEnv", "delTree")
    /\ RemoveEnv(msvc[p])
    /\ overlaid' = overlaid \ {msvc[p]}
    /\ UNCHANGED <<lock, journal, registry, unit, tree, ghost, msvc, hadEntry,
                   todo, settled, mislaid>>

\* The project directory comes from the registry entry, if there was one.
DeleteTree(p) ==
    /\ MStep(p, "delTree", "delUnreg")
    /\ IF hadEntry[p] THEN WipeTree(TreeOf[msvc[p]]) ELSE UNCHANGED tree
    /\ UNCHANGED <<lock, journal, registry, unit, env, ghost, msvc, hadEntry,
                   todo, hist>>

DeleteRegistry(p) == LoadRow(p, "delUnreg", "delStore")
DeleteRow(p)      == DropRow(p, "delStore", "delClear")

DeleteJournal(p) ==
    /\ MStep(p, "delClear", "ready")
    /\ JournalClear(msvc[p])
    /\ msvc' = [msvc EXCEPT ![p] = NoService]
    /\ hadEntry' = [hadEntry EXCEPT ![p] = FALSE]
    /\ UNCHANGED <<lock, registry, unit, env, tree, ghost, todo, hist>>

(***************************************************************************)
(* Ends of processes.  A ghost build outlives the process that waited for  *)
(* it, until it finishes or its RuntimeMaxSec is over.                     *)
(***************************************************************************)
\* The processes in dead are gone, with their threads, locks and memory.
Die(dead) ==
    /\ lock' = LockAfterDeath(dead)
    /\ role' = [p \in Procs |-> IF p \in dead THEN "none" ELSE role[p]]
    /\ wpc'  = [p \in Procs |-> IF p \in dead THEN Idle ELSE wpc[p]]
    /\ mpc'  = [p \in Procs |-> IF p \in dead THEN "off" ELSE mpc[p]]
    /\ repaired' = [p \in Procs |-> p \notin dead /\ repaired[p]]
    /\ flag'     = [p \in Procs |-> p \notin dead /\ flag[p]]
    /\ exiting'  = [p \in Procs |-> p \notin dead /\ exiting[p]]
    /\ hadEntry' = [p \in Procs |-> p \notin dead /\ hadEntry[p]]
    /\ basis' = [p \in Procs |-> IF p \in dead THEN "startup" ELSE basis[p]]
    /\ todo'  = [p \in Procs |-> IF p \in dead THEN NoJournal ELSE todo[p]]
    /\ rows'  = [h \in Holders |-> IF h[1] \in dead THEN {} ELSE rows[h]]
    /\ wsvc' = [p \in Procs |-> IF p \in dead THEN NoService ELSE wsvc[p]]
    /\ msvc' = [p \in Procs |-> IF p \in dead THEN NoService ELSE msvc[p]]
    /\ UNCHANGED hist

Abandoned(dead) ==
    {s \in build : \E p \in dead : wpc[p] = "building" /\ wsvc[p] = s}

DieLeavingGhosts(p) ==
    /\ Die({p})
    /\ orphans' = orphans \cup Abandoned({p})
    /\ build' = build \ Abandoned({p})
    /\ UNCHANGED disk

\* The main thread has reconciled and exits, or a __deploy's main returns.
ProcEnd(p) ==
    /\ mpc[p] = "out" \/ wpc[p] = "ended"
    /\ DieLeavingGhosts(p)

\* SIGKILL, or a panic, at any point (one at the very end is the end).
Crash(p) ==
    /\ role[p] # "none"
    /\ mpc[p] # "out" /\ wpc[p] # "ended"
    /\ DieLeavingGhosts(p)

\* Everything dies; enabled units come back with the machine.
Reboot ==
    /\ Die(Procs)
    /\ build' = {} /\ orphans' = {}
    /\ unit' = [s \in Services |->
                   IF unit[s] = "stopped" THEN "running" ELSE unit[s]]
    /\ UNCHANGED <<journal, registry, env, tree>>

GhostEnds(s) ==
    /\ s \in orphans
    /\ orphans' = orphans \ {s}
    /\ UNCHANGED <<lock, disk, build, wvars, mvars, rows, hist>>

ReconcileNext(p) ==
    \/ NothingStale(p) \/ Deferred(p) \/ ReconcileLock(p)
    \/ ForgetEntry(p) \/ CleanEntry(p) \/ CleanUnit(p) \/ CleanEnv(p)
    \/ CleanTree(p) \/ CleanRegistry(p) \/ CleanRow(p) \/ CleanJournal(p)
    \/ ReconcileDone(p)

DeleteNext(p) ==
    \/ DeleteUnit(p) \/ DeleteEnv(p) \/ DeleteTree(p)
    \/ DeleteRegistry(p) \/ DeleteRow(p) \/ DeleteJournal(p)

ExitNext(p) ==
    \/ QuiesceGhosts(p) \/ QuiesceKill(p) \/ QuiesceDone(p) \/ Join(p)
    \/ ProcEnd(p)

UserNext(p) ==
    \/ Launch(p) \/ Spawn(p) \/ ExitIdle(p) \/ RequestExit(p)
    \/ StartDelete(p) \/ StopService(p) \/ StartService(p)
=============================================================================
