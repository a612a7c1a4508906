---------------------------- MODULE DeployState ----------------------------
(***************************************************************************)
(* What the processes of one user session share, and where each of them    *)
(* stands, while services are deployed, deleted and cleaned up.            *)
(*                                                                         *)
(* Three kinds of process run the same binary: the interactive panel, the  *)
(* scripted `__deploy --manifest` command, and the one-shot `__cleanup`    *)
(* process of the systemd user timer.  A panel deploys on a worker thread  *)
(* beside its UI thread; a `__deploy` deploys on its main thread beside a  *)
(* signal-watchdog thread.  Here "worker" is the thread that deploys and   *)
(* "main" the other one, whatever the kind.                                *)
(*                                                                         *)
(* They meet only on disk (deploy.lock, deploy-journal.json, state.json,   *)
(* unit files, env files, project trees) and in the systemd user manager   *)
(* (units, transient ghost-build units).  Those are the shared variables.  *)
(***************************************************************************)
EXTENDS Naturals, FiniteSets

CONSTANTS
    Sessions,       \* slots in which a panel or a __deploy process may run
    Timer,          \* the __cleanup process of the systemd timer
    Services,       \* service ids
    Trees,          \* project directories under services/
    TreeOf,         \* [Services -> Trees], the clone directory of each service
    Embedded,       \* services whose health probe can ask for an auto-repair
    Roles,          \* kinds of process a session may be: "panel", "cli"
    CarefulUser,    \* the user never deploys and deletes a service at once
    PatientExit,    \* the bounded waits of an exit outlast the worker
    NoOne,          \* holder of a free lock
    NoService       \* what a thread with nothing at hand works on

Procs   == Sessions \cup {Timer}
Holders == Procs \X {"worker", "main"}

ASSUME TimerApart == Timer \notin Sessions
ASSUME NoOneHolds == NoOne \notin Holders
ASSUME ServiceApart == NoService \notin Services
ASSUME TreesTyped == TreeOf \in [Services -> Trees]
ASSUME RolesTyped == Roles \subseteq {"panel", "cli"}
ASSUME FlagsTyped == CarefulUser \in BOOLEAN /\ PatientExit \in BOOLEAN

VARIABLES
    \* on disk, and in the user manager
    lock,           \* who holds the flock on deploy.lock
    journal,        \* deploy-journal.json
    registry,       \* services with an entry in state.json
    unit,           \* the service's unit: no file, or a stopped/running one
    env,            \* services with an EnvironmentFile
    tree,           \* project directories
    build,          \* services whose live deploy runs a ghost-build unit
    orphans,        \* services with a ghost-build unit no worker waits for
    \* per process
    role,           \* kind of the process in each slot, "none" if none
    wpc, wsvc,      \* the deploying thread: where it is, for which service
    repaired,       \* its auto-repair budget is spent
    flag,           \* DEPLOY_IN_FLIGHT
    exiting,        \* EXITING
    mpc, msvc,      \* the other thread: where it is, for which service
    basis,          \* why it reconciles
    hadEntry,       \* a delete found a registry entry to clean up from
    todo,           \* journal snapshot a reconciliation works through
    rows,           \* per thread: the other services' rows of state.json as it
                    \* has loaded them and is about to store them again
    \* history
    settled,        \* services whose last deploy was registered, undisturbed
    overlaid,       \* services attempted over remains not rolled back
    mislaid         \* services whose row another's store lost, or brought back

disk  == <<journal, registry, unit, env, tree>>
ghost == <<build, orphans>>
wvars == <<wpc, wsvc, repaired, flag>>
mvars == <<role, exiting, mpc, msvc, basis, hadEntry, todo>>
hist  == <<settled, overlaid, mislaid>>
vars  == <<lock, disk, ghost, wvars, mvars, rows, hist>>

JStates == {"none", "deploying", "registering", "registered"}

\* Program points of the deploying thread, in the order of the code.
Idle      == "idle"
BeforeLock == {"idle", "spawned", "locking"}
Journaled == {"exitcheck", "attempt", "clone", "fill", "prepare", "build",
              "building", "install", "env", "unit", "start", "health",
              "repair", "mark", "register", "store", "mark2", "rbUnit", "rbEnv",
              "rbTree", "settle", "clear"}
Locked    == Journaled \cup {"begin", "flag", "unlock"}
WPoints   == BeforeLock \cup Locked \cup {"returning", "ended"}

\* Program points of the other thread.
Cleaning  == {"rcUnit", "rcEnv", "rcTree", "rcUnreg", "rcStore", "rcClear"}
RcHeld    == Cleaning \cup {"rcNext", "sweep"}
Deleting  == {"delUnit", "delEnv", "delTree", "delUnreg", "delStore",
              "delClear"}
MPoints   == RcHeld \cup Deleting \cup
             {"off", "rcLock", "ready", "quiesce", "qkill", "join", "out"}

\* The limits of a careful user: no deploy of a service being deleted, hands
\* off a service being deployed, and no delete of one that an interrupted
\* deploy left behind.
MayDeploy(s) ==
    CarefulUser => \A q \in Procs : mpc[q] \in Deleting => msvc[q] # s
MayHandle(s) ==
    CarefulUser => \A q \in Procs : wpc[q] # Idle => wsvc[q] # s
MayDelete(s) ==
    MayHandle(s) /\ (CarefulUser => journal[s] = "none")

NoJournal == [s \in Services |-> "none"]

TypeOK ==
    /\ lock \in Holders \cup {NoOne}
    /\ journal \in [Services -> JStates]
    /\ registry \subseteq Services
    /\ unit \in [Services -> {"absent", "stopped", "running"}]
    /\ env \subseteq Services
    /\ tree \in [Trees -> {"absent", "partial", "whole"}]
    /\ build \subseteq Services
    /\ orphans \subseteq Services
    /\ role \in [Procs -> {"none", "panel", "cli", "timer"}]
    /\ wpc \in [Procs -> WPoints]
    /\ wsvc \in [Procs -> Services \cup {NoService}]
    /\ \A p \in Procs : wpc[p] # Idle => wsvc[p] \in Services
    /\ repaired \in [Procs -> BOOLEAN]
    /\ flag \in [Procs -> BOOLEAN]
    /\ exiting \in [Procs -> BOOLEAN]
    /\ mpc \in [Procs -> MPoints]
    /\ msvc \in [Procs -> Services \cup {NoService}]
    /\ \A p \in Procs : mpc[p] \in Cleaning \cup Deleting => msvc[p] \in Services
    /\ basis \in [Procs -> {"startup", "exit", "sweep"}]
    /\ hadEntry \in [Procs -> BOOLEAN]
    /\ todo \in [Procs -> [Services -> JStates]]
    /\ settled \subseteq Services
    /\ rows \in [Holders -> SUBSET Services]
    /\ overlaid \subseteq Services
    /\ mislaid \subseteq Services

(***************************************************************************)
(* flock(2) on deploy.lock.  It belongs to the open file description, so   *)
(* the two threads of one process exclude each other as well; the kernel   *)
(* drops it with the process.                                              *)
(***************************************************************************)
\* Mutation: the result of flock is not looked at.
TryLockUnchecked(p, thread) == lock' = <<p, thread>>

TryLock(p, thread) == lock = NoOne /\ lock' = <<p, thread>>
Unlock             == lock' = NoOne
LockAfterDeath(dead) ==
    IF \E p \in dead, t \in {"worker", "main"} : lock = <<p, t>>
    THEN NoOne ELSE lock

(***************************************************************************)
(* deploy-journal.json.                                                    *)
(***************************************************************************)
JournalBegin(s)    == journal' = [journal EXCEPT ![s] = "deploying"]
JournalMark(s, st) ==
    journal' = [journal EXCEPT ![s] = IF @ = "none" THEN @ ELSE st]
JournalClear(s)    == journal' = [journal EXCEPT ![s] = "none"]

(***************************************************************************)
(* state.json, which every change loads, edits and stores as a whole, with *)
(* no lock of its own: a row that was stored in between is overwritten.    *)
(***************************************************************************)
LoadRegistry(h, s) == rows' = [rows EXCEPT ![h] = registry \ {s}]

\* The rows of others that somebody changed since the load.
Overtaken(h, s) == {t \in Services \ {s} : (t \in rows[h]) # (t \in registry)}

StoreRegistry(h, s, own) ==
    /\ registry' = (rows[h] \ {s}) \cup own
    /\ rows' = [rows EXCEPT ![h] = {}]
    /\ mislaid' = (mislaid \cup Overtaken(h, s)) \ {s}

(***************************************************************************)
(* Files of one service.  A tree cannot be removed whole while a ghost     *)
(* build still writes into it: rmdir meets a new entry and gives up.       *)
(***************************************************************************)
RemoveUnit(s) == unit' = [unit EXCEPT ![s] = "absent"]
RemoveEnv(s)  == env' = env \ {s}
HasWriter(t)  == \E s \in build \cup orphans : TreeOf[s] = t
AfterWipe(t)  ==
    IF tree[t] # "absent" /\ HasWriter(t) THEN {"absent", "partial"}
                                          ELSE {"absent"}
WipeTree(t)   == \E left \in AfterWipe(t) : tree' = [tree EXCEPT ![t] = left]
=============================================================================
