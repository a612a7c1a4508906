--------------------------- MODULE DeployWorker ---------------------------
(***************************************************************************)
(* The deploying thread: run_manifest_deployment and the deploy_service    *)
(* pipeline it drives, with the rollback of a failed attempt and the one   *)
(* auto-repair retry.  One action per stretch of code between two effects  *)
(* another process or a crash can observe.                                 *)
(***************************************************************************)
EXTENDS DeployState

Goto(p, pc) == wpc' = [wpc EXCEPT ![p] = pc]

\* A step of p's worker from one point to another, leaving the rest of the
\* thread's own state alone.
Step(p, from, to) ==
    /\ wpc[p] = from
    /\ Goto(p, to)
    /\ UNCHANGED <<wsvc, repaired, mvars, rows>>

\* An attempt starts over, or is about to leave behind, the unit or env file
\* of an unfinished one.
Overlay(s) ==
    IF s \notin registry /\ (unit[s] # "absent" \/ s \in env)
    THEN overlaid \cup {s} ELSE overlaid

(***************************************************************************)
(* Before the lock.                                                        *)
(***************************************************************************)
\* The manifest is loaded and passes the gates; the in-flight flag goes up.
PassGates(p) ==
    /\ Step(p, "spawned", "locking")
    /\ flag' = [flag EXCEPT ![p] = TRUE]
    /\ UNCHANGED <<lock, disk, ghost, hist>>

\* A bad manifest, a missing sandbox or a failed pre-flight check.
RejectAtGate(p) ==
    /\ Step(p, "spawned", "returning")
    /\ UNCHANGED <<lock, disk, ghost, flag, hist>>

\* Mutation: the guard is bound to `_` and dropped at once.
LockDeployLeaky(p) ==
    /\ Step(p, "locking", "begin")
    /\ lock = NoOne
    /\ UNCHANGED <<lock, disk, ghost, flag, hist>>

LockDeploy(p) ==
    /\ Step(p, "locking", "begin")
    /\ TryLock(p, "worker")
    /\ UNCHANGED <<disk, ghost, flag, hist>>

\* Another deployment or cleanup holds the lock: refuse to start.
LockBusy(p) ==
    /\ Step(p, "locking", "returning")
    /\ lock # NoOne
    /\ flag' = [flag EXCEPT ![p] = FALSE]
    /\ UNCHANGED <<lock, disk, ghost, hist>>

Begin(p) ==
    /\ Step(p, "begin", "exitcheck")
    /\ JournalBegin(wsvc[p])
    /\ settled' = settled \ {wsvc[p]}
    /\ overlaid' = IF journal[wsvc[p]] # "none" THEN Overlay(wsvc[p])
                                               ELSE overlaid
    /\ UNCHANGED <<lock, registry, unit, env, tree, ghost, flag, mislaid>>

\* An exit asked for in the meantime: forget the deploy that never started.
ExitCheck(p) ==
    /\ wpc[p] = "exitcheck"
    /\ IF exiting[p]
       THEN JournalClear(wsvc[p]) /\ Goto(p, "flag")
       ELSE UNCHANGED journal /\ Goto(p, "attempt")
    /\ UNCHANGED <<lock, registry, unit, env, tree, ghost, wsvc, repaired,
                   flag, mvars, rows, hist>>

(***************************************************************************)
(* deploy_service: source.                                                 *)
(***************************************************************************)
\* An exit seen before the first phase, or a ref that does not resolve,
\* ends the attempt with nothing rolled back.
GiveUpAttempt(p) ==
    /\ Step(p, "attempt", "settle")
    /\ UNCHANGED <<lock, disk, ghost, flag, hist>>

ResolvePin(p) ==
    /\ Step(p, "attempt", "clone")
    /\ ~exiting[p]
    /\ UNCHANGED <<lock, disk, ghost, flag, hist>>

\* An intact checkout of the very same commit is kept.
ReuseClone(p) ==
    /\ Step(p, "clone", "prepare")
    /\ tree[TreeOf[wsvc[p]]] = "whole"
    /\ UNCHANGED <<lock, disk, ghost, flag, hist>>

\* Anything else is wiped and materialised anew, file by file.
FreshClone(p) ==
    /\ Step(p, "clone", "fill")
    /\ tree' = [tree EXCEPT ![TreeOf[wsvc[p]]] = "partial"]
    /\ UNCHANGED <<lock, journal, registry, unit, env, ghost, flag, hist>>

FillClone(p) ==
    /\ Step(p, "fill", "prepare")
    /\ tree' = [tree EXCEPT ![TreeOf[wsvc[p]]] = "whole"]
    /\ UNCHANGED <<lock, journal, registry, unit, env, ghost, flag, hist>>

\* A clone that fails is wiped where it stands; there is no rollback.
FillFails(p) ==
    /\ Step(p, "fill", "settle")
    /\ WipeTree(TreeOf[wsvc[p]])
    /\ UNCHANGED <<lock, journal, registry, unit, env, ghost, flag, hist>>

(***************************************************************************)
(* deploy_service: build.                                                  *)
(***************************************************************************)
\* Pin marker, tool doctor, toolbox, prefetch, seeds: host-side phases, any
\* of which may fail or see the exit.
Prepare(p) ==
    /\ Step(p, "prepare", "build")
    /\ UNCHANGED <<lock, disk, ghost, flag, hist>>

\* The sandboxed build step runs as a unit of the user manager, not as a
\* child of this process.
StartBuild(p) ==
    /\ Step(p, "build", "building")
    /\ ~exiting[p]
    /\ build' = build \cup {wsvc[p]}
    /\ UNCHANGED <<lock, disk, orphans, flag, hist>>

\* A manifest may declare no build step; several are taken as one.
SkipBuild(p) ==
    /\ Step(p, "build", "install")
    /\ UNCHANGED <<lock, disk, ghost, flag, hist>>

BuildDone(p) ==
    /\ Step(p, "building", "install")
    /\ wsvc[p] \in build
    /\ build' = build \ {wsvc[p]}
    /\ UNCHANGED <<lock, disk, orphans, flag, hist>>

\* The step failed, timed out, or its unit was stopped under it.
BuildFails(p) ==
    /\ Step(p, "building", "rbUnit")
    /\ build' = build \ {wsvc[p]}
    /\ UNCHANGED <<lock, disk, orphans, flag, hist>>

(***************************************************************************)
(* deploy_service: install, start, verify.                                 *)
(***************************************************************************)
\* Last look at the exit flag, then the old instance is stopped, not
\* removed, so that its port is free.
Install(p) ==
    /\ Step(p, "install", "env")
    /\ ~exiting[p]
    /\ unit' = [unit EXCEPT ![wsvc[p]] = IF @ = "running" THEN "stopped" ELSE @]
    /\ UNCHANGED <<lock, journal, registry, env, tree, ghost, flag, hist>>

\* An empty run.env writes no file, and leaves an older one where it is.
WriteEnv(p) ==
    /\ Step(p, "env", "unit")
    /\ env' \in {env, env \cup {wsvc[p]}}
    /\ UNCHANGED <<lock, journal, registry, unit, tree, ghost, flag, hist>>

CreateUnit(p) ==
    /\ Step(p, "unit", "start")
    /\ unit' = [unit EXCEPT ![wsvc[p]] = "stopped"]
    /\ UNCHANGED <<lock, journal, registry, env, tree, ghost, flag, hist>>

StartUnit(p) ==
    /\ Step(p, "start", "health")
    /\ unit' = [unit EXCEPT ![wsvc[p]] = "running"]
    /\ UNCHANGED <<lock, journal, registry, env, tree, ghost, flag, hist>>

HealthOk(p) ==
    /\ Step(p, "health", "mark")
    /\ UNCHANGED <<lock, disk, ghost, flag, hist>>

\* The page served is the placeholder, and the tree declares frontend steps
\* the manifest lacks: ask the caller for a repair, everything left running.
AskRepair(p) ==
    /\ Step(p, "health", "repair")
    /\ wsvc[p] \in Embedded
    /\ overlaid' = Overlay(wsvc[p])
    /\ UNCHANGED <<lock, disk, ghost, flag, settled, mislaid>>

\* Mutation: the repair budget is not looked at.
RetryUnbounded(p) ==
    /\ Step(p, "repair", "attempt")
    /\ UNCHANGED <<lock, disk, ghost, flag, hist>>

\* The manifest is patched and the whole pipeline runs once more.
RetryRepaired(p) ==
    /\ wpc[p] = "repair"
    /\ ~repaired[p]
    /\ repaired' = [repaired EXCEPT ![p] = TRUE]
    /\ Goto(p, "attempt")
    /\ UNCHANGED <<lock, disk, ghost, wsvc, flag, mvars, rows, hist>>

\* The patch does not persist, or the budget is spent.
RepairRefused(p) ==
    /\ Step(p, "repair", "settle")
    /\ UNCHANGED <<lock, disk, ghost, flag, hist>>

(***************************************************************************)
(* deploy_service: registration.                                           *)
(***************************************************************************)
MarkRegistering(p) ==
    /\ Step(p, "mark", "register")
    /\ JournalMark(wsvc[p], "registering")
    /\ UNCHANGED <<lock, registry, unit, env, tree, ghost, flag, hist>>

\* The registry is loaded, and stored with the row of this service.  The lock
\* keeps other deploys and clean-ups away, a delete it does not.
Register(p) ==
    /\ wpc[p] = "register"
    /\ Goto(p, "store")
    /\ LoadRegistry(<<p, "worker">>, wsvc[p])
    /\ UNCHANGED <<lock, disk, ghost, wsvc, repaired, flag, mvars, hist>>

StoreRow(p) ==
    /\ wpc[p] = "store"
    /\ Goto(p, "mark2")
    /\ StoreRegistry(<<p, "worker">>, wsvc[p], {wsvc[p]})
    /\ settled' = (settled \cup {wsvc[p]})
                    \ Overtaken(<<p, "worker">>, wsvc[p])
    /\ overlaid' = overlaid \ {wsvc[p]}
    /\ UNCHANGED <<lock, journal, unit, env, tree, ghost, wsvc, repaired, flag,
                   mvars>>

MarkRegistered(p) ==
    /\ Step(p, "mark2", "settle")
    /\ JournalMark(wsvc[p], "registered")
    /\ UNCHANGED <<lock, registry, unit, env, tree, ghost, flag, hist>>

(***************************************************************************)
(* rollback_failed.  The registry entry of an earlier deploy is not its    *)
(* business.                                                               *)
(***************************************************************************)
\* Mutation: the failure returns without rollback_failed.
FailBare(p) ==
    /\ \E from \in {"prepare", "build", "install", "env", "unit",
                    "start", "health"} : Step(p, from, "settle")
    /\ UNCHANGED <<lock, disk, ghost, flag, hist>>

\* A phase that fails, or that meets the exit flag where it is polled.
Fail(p) ==
    /\ \E from \in {"prepare", "build", "install", "env", "unit",
                    "start", "health"} : Step(p, from, "rbUnit")
    /\ UNCHANGED <<lock, disk, ghost, flag, hist>>

RollbackUnit(p) ==
    /\ Step(p, "rbUnit", "rbEnv")
    /\ RemoveUnit(wsvc[p])
    /\ UNCHANGED <<lock, journal, registry, env, tree, ghost, flag, hist>>

\* Mutation: the rollback forgets the env file.
RollbackEnvKept(p) ==
    /\ Step(p, "rbEnv", "rbTree")
    /\ overlaid' = overlaid \ {wsvc[p]}
    /\ UNCHANGED <<lock, disk, ghost, flag, settled, mislaid>>

RollbackEnv(p) ==
    /\ Step(p, "rbEnv", "rbTree")
    /\ RemoveEnv(wsvc[p])
    /\ overlaid' = overlaid \ {wsvc[p]}
    /\ UNCHANGED <<lock, journal, registry, unit, tree, ghost, flag, settled,
                   mislaid>>

RollbackTree(p) ==
    /\ Step(p, "rbTree", "settle")
    /\ WipeTree(TreeOf[wsvc[p]])
    /\ UNCHANGED <<lock, journal, registry, unit, env, ghost, flag, hist>>

(***************************************************************************)
(* The tail of run_manifest_deployment.                                    *)
(***************************************************************************)
\* During an exit the journal entry is left for the exit path to settle.
Settle(p) ==
    /\ wpc[p] = "settle"
    /\ IF exiting[p]
       THEN Goto(p, "unlock") /\ flag' = [flag EXCEPT ![p] = FALSE]
       ELSE Goto(p, "clear") /\ UNCHANGED flag
    /\ UNCHANGED <<lock, disk, ghost, wsvc, repaired, mvars, rows, hist>>

ClearEntry(p) ==
    /\ Step(p, "clear", "flag")
    /\ JournalClear(wsvc[p])
    /\ UNCHANGED <<lock, registry, unit, env, tree, ghost, flag, hist>>

LowerFlag(p) ==
    /\ Step(p, "flag", "unlock")
    /\ flag' = [flag EXCEPT ![p] = FALSE]
    /\ UNCHANGED <<lock, disk, ghost, hist>>

\* The guard is dropped as the function returns.
DropLock(p) ==
    /\ Step(p, "unlock", "returning")
    /\ Unlock
    /\ UNCHANGED <<disk, ghost, flag, hist>>

\* Mutation: a __deploy forgets its service before main returns.
ReturnForgetful(p) ==
    /\ wpc[p] = "returning"
    /\ Goto(p, IF role[p] = "cli" THEN "ended" ELSE Idle)
    /\ repaired' = [repaired EXCEPT ![p] = FALSE]
    /\ wsvc' = [wsvc EXCEPT ![p] = NoService]
    /\ UNCHANGED <<lock, disk, ghost, flag, mvars, rows, hist>>

\* A panel's worker thread is over; a __deploy returns from main.
Return(p) ==
    /\ wpc[p] = "returning"
    /\ Goto(p, IF role[p] = "cli" THEN "ended" ELSE Idle)
    /\ repaired' = [repaired EXCEPT ![p] = FALSE]
    /\ wsvc' = [wsvc EXCEPT ![p] = IF role[p] = "cli" THEN @ ELSE NoService]
    /\ UNCHANGED <<lock, disk, ghost, flag, mvars, rows, hist>>

WorkerNext(p) ==
    \/ PassGates(p) \/ RejectAtGate(p) \/ LockDeploy(p) \/ LockBusy(p)
    \/ Begin(p) \/ ExitCheck(p)
    \/ GiveUpAttempt(p) \/ ResolvePin(p)
    \/ ReuseClone(p) \/ FreshClone(p) \/ FillClone(p) \/ FillFails(p)
    \/ Prepare(p) \/ SkipBuild(p) \/ StartBuild(p) \/ BuildDone(p)
    \/ BuildFails(p)
    \/ Install(p) \/ WriteEnv(p) \/ CreateUnit(p) \/ StartUnit(p)
    \/ HealthOk(p) \/ AskRepair(p) \/ RetryRepaired(p) \/ RepairRefused(p)
    \/ MarkRegistering(p) \/ Register(p) \/ StoreRow(p) \/ MarkRegistered(p)
    \/ Fail(p) \/ RollbackUnit(p) \/ RollbackEnv(p) \/ RollbackTree(p)
    \/ Settle(p) \/ ClearEntry(p) \/ LowerFlag(p) \/ DropLock(p) \/ Return(p)
=============================================================================
