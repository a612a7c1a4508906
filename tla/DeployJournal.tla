--------------------------- MODULE DeployJournal ---------------------------
(***************************************************************************)
(* Why a live deploy can be told from a dead one: its build implies its    *)
(* lock, and its journal entry stays where it is until it clears it.  Then *)
(* why a reconciliation settles all it has to.                             *)
(***************************************************************************)
EXTENDS DeployProofs

USE DEF Procs, Holders

\* The effect of one worker step on the ghost builds and on the journal.
WorkerEffects(p) ==
    /\ \/ build' = build /\ wpc[p] # "building"
       \/ build' = build \cup {wsvc[p]} /\ wpc'[p] = "building"
                                        /\ wsvc'[p] = wsvc[p]
       \/ build' = build \ {wsvc[p]} /\ wpc[p] = "building"
    /\ journal' = journal \/ wpc[p] \in Locked
    /\ wpc'[p] \in Journaled =>
          \/ journal'[wsvc[p]] # "none"
          \/ wpc[p] \in Journaled /\ journal' = journal

\* Every worker step has such an effect: a build starts and ends with its own
\* worker, and the journal is written under the lock.
LEMMA WorkerEffect ==
    ASSUME TypeOK, NEW p \in Sessions, WorkerNext(p)
    PROVE  WorkerEffects(p)
<1> USE DEF TypeOK, WorkerEffects, Step, Goto, mvars, disk, ghost, Idle,
            Locked, Journaled, JStates
<1>0. p \in Procs
  OBVIOUS
<1>1. CASE PassGates(p) \/ RejectAtGate(p) \/ LockDeploy(p) \/ LockBusy(p)
           \/ GiveUpAttempt(p) \/ ResolvePin(p)
  BY <1>0, <1>1 DEF PassGates, RejectAtGate, LockDeploy, LockBusy,
                    GiveUpAttempt, ResolvePin
<1>2. CASE Begin(p)
  BY <1>0, <1>2 DEF Begin, JournalBegin
<1>3. CASE ExitCheck(p)
  BY <1>0, <1>3 DEF ExitCheck, JournalClear
<1>4. CASE ReuseClone(p) \/ FreshClone(p) \/ FillClone(p) \/ FillFails(p)
           \/ Prepare(p) \/ SkipBuild(p) \/ Install(p) \/ WriteEnv(p)
  BY <1>0, <1>4 DEF ReuseClone, FreshClone, FillClone, FillFails, Prepare,
                    SkipBuild, Install, WriteEnv
<1>5. CASE StartBuild(p) \/ BuildDone(p) \/ BuildFails(p)
  BY <1>0, <1>5 DEF StartBuild, BuildDone, BuildFails
<1>6. CASE CreateUnit(p) \/ StartUnit(p) \/ HealthOk(p) \/ AskRepair(p)
           \/ RetryRepaired(p) \/ RepairRefused(p) \/ Register(p)
           \/ StoreRow(p)
  BY <1>0, <1>6 DEF CreateUnit, StartUnit, HealthOk, AskRepair,
                    RetryRepaired, RepairRefused, Register, StoreRow
<1>7. CASE MarkRegistering(p) \/ MarkRegistered(p)
  BY <1>0, <1>7 DEF MarkRegistering, MarkRegistered, JournalMark
<1>8. CASE Fail(p) \/ RollbackUnit(p) \/ RollbackEnv(p) \/ RollbackTree(p)
  BY <1>0, <1>8 DEF Fail, RollbackUnit, RollbackEnv, RollbackTree
<1>9. CASE Settle(p)
  BY <1>0, <1>9 DEF Settle
<1>10. CASE ClearEntry(p)
  BY <1>0, <1>10 DEF ClearEntry, JournalClear
<1>11. CASE LowerFlag(p) \/ DropLock(p) \/ Return(p)
  BY <1>0, <1>11 DEF LowerFlag, DropLock, Return
<1>12. QED
  BY <1>1, <1>2, <1>3, <1>4, <1>5, <1>6, <1>7, <1>8, <1>9, <1>10, <1>11
     DEF WorkerNext

\* The same for one step of a main thread, p's end apart.
MainEffects(p) ==
    /\ \A q \in Procs \ {p} :
          /\ wpc'[q] = wpc[q] /\ wsvc'[q] = wsvc[q]
          /\ mpc'[q] = mpc[q] /\ msvc'[q] = msvc[q]
    /\ wpc'[p] \in Journaled => wpc[p] \in Journaled /\ wsvc'[p] = wsvc[p]
    /\ wpc'[p] # Idle =>
          \/ wpc[p] # Idle /\ wsvc'[p] = wsvc[p]
          \/ MayDeploy(wsvc'[p]) /\ UNCHANGED mvars
    /\ mpc'[p] \in Deleting =>
          \/ mpc[p] \in Deleting /\ msvc'[p] = msvc[p]
          \/ MayDelete(msvc'[p]) /\ UNCHANGED wvars
    /\ \/ build' = build /\ (wpc[p] = "building" => wpc'[p] = "building")
       \/ build' = {}
       \/ wpc[p] = "building" /\ build' = build \ {wsvc[p]}
    /\ \/ journal' = journal
       \/ mpc[p] \in RcHeld
       \/ /\ mpc[p] = "delClear"
          /\ \A s \in Services \ {msvc[p]} : journal'[s] = journal[s]

\* Every step of a main thread has such an effect: builds are only ever ended,
\* and the journal is written under the lock or by a delete.
LEMMA MainEffect ==
    ASSUME TypeOK, NEW p \in Procs,
           \/ ReconcileNext(p) \/ DeleteNext(p) \/ UserNext(p)
           \/ ExitNext(p) /\ ~ProcEnd(p)
    PROVE  MainEffects(p)
<1> USE DEF TypeOK, MainEffects, MStep, MGoto, wvars, mvars, disk, ghost, Idle,
            Deleting
<1>0. AfterReconcile(p) \in {"ready", "out"}
  BY DEF AfterReconcile
<1>1. CASE ReconcileNext(p)
  <2>1. /\ UNCHANGED <<wpc, wsvc, build>>
        /\ mpc'[p] \notin Deleting
        /\ \A q \in Procs \ {p} : mpc'[q] = mpc[q] /\ msvc'[q] = msvc[q]
    BY <1>0, <1>1 DEF ReconcileNext, NothingStale, Deferred, ReconcileLock,
       ForgetEntry, CleanEntry, CleanUnit, CleanEnv, CleanTree, CleanRegistry,
       CleanRow, LoadRow, DropRow, CleanJournal, ReconcileDone
  <2>2. journal' = journal \/ mpc[p] \in RcHeld
    BY <1>1 DEF ReconcileNext, NothingStale, Deferred, ReconcileLock,
       ForgetEntry, CleanEntry, CleanUnit, CleanEnv, CleanTree, CleanRegistry,
       CleanRow, LoadRow, DropRow, CleanJournal, ReconcileDone, RcHeld,
       Cleaning
  <2>3. QED
    BY <2>1, <2>2
<1>2. CASE DeleteNext(p)
  BY <1>2 DEF DeleteNext, DeleteUnit, DeleteEnv, DeleteTree, DeleteRegistry,
     DeleteRow, LoadRow, DropRow, DeleteJournal, JournalClear
<1>3. CASE Launch(p) \/ ExitIdle(p) \/ RequestExit(p) \/ StartDelete(p)
           \/ StopService(p) \/ StartService(p)
  BY <1>3 DEF Launch, ExitIdle, RequestExit, StartDelete, StopService,
              StartService
<1>4. CASE Spawn(p)
  BY <1>4 DEF Spawn, Journaled
<1>5. CASE QuiesceGhosts(p) \/ QuiesceDone(p) \/ Join(p)
  BY <1>5 DEF QuiesceGhosts, QuiesceDone, Join
<1>6. CASE QuiesceKill(p)
  BY <1>6 DEF QuiesceKill, Journaled
<1>7. QED
  BY <1>1, <1>2, <1>3, <1>4, <1>5, <1>6 DEF UserNext, ExitNext

(***************************************************************************)
(* Builds.                                                                 *)
(***************************************************************************)

\* No thread's step makes a build outlive the deploy lock of its worker.
LEMMA BuildsStep ==
    ASSUME TypeOK, LockContract, LiveBuildsAreLocked, [Next]_vars
    PROVE  LiveBuildsAreLocked'
<1> USE DEF LiveBuildsAreLocked
<1>0. LockContract' /\ "building" \in Locked /\ "building" \in Journaled
  BY LockStep DEF Locked, Journaled
<1>1. ASSUME NEW p \in Sessions, WorkerNext(p) PROVE LiveBuildsAreLocked'
  <2>1. WorkerMoves(p) /\ WorkerEffects(p)
    BY <1>1, WorkerStep, WorkerEffect
  <2>2. CASE wpc[p] \in Locked
    <3>1. lock = <<p, "worker">>
      BY <2>2 DEF LockContract
    <3>2. \A s \in build : wpc[p] = "building" /\ wsvc[p] = s
      BY <3>1
    <3>3. \A s \in build' : wpc'[p] = "building" /\ wsvc'[p] = s
      BY <2>1, <3>2 DEF WorkerEffects
    <3>4. QED
      BY <1>0, <3>3 DEF LockContract
  <2>3. CASE wpc[p] \notin Locked
    <3>1. wpc[p] # "building" /\ wpc'[p] # "building"
      BY <1>0, <2>1, <2>3 DEF WorkerMoves, Locked, Journaled
    <3>2. build' = build
      BY <2>1, <3>1 DEF WorkerEffects
    <3>3. ASSUME NEW s \in build PROVE lock' = lock
      <4>1. lock # NoOne
        BY NoOneHolds
      <4>2. "unlock" \in Locked
        BY DEF Locked
      <4>3. QED
        BY <2>1, <2>3, <4>1, <4>2 DEF WorkerMoves
    <3>4. QED
      BY <2>1, <3>1, <3>2, <3>3 DEF WorkerMoves
  <2>4. QED
    BY <2>2, <2>3
<1>2. ASSUME NEW p \in Procs,
             \/ ReconcileNext(p) \/ DeleteNext(p) \/ UserNext(p)
             \/ ExitNext(p) /\ ~ProcEnd(p)
      PROVE  LiveBuildsAreLocked'
  <2>1. MainMoves(p) /\ MainEffects(p)
    BY <1>2, MainStep, MainEffect
  <2>2. SUFFICES ASSUME NEW s \in build'
                 PROVE  \E q \in Sessions : /\ lock' = <<q, "worker">>
                                            /\ wpc'[q] = "building"
                                            /\ wsvc'[q] = s
    OBVIOUS
  <2>3. s \in build
    BY <2>1 DEF MainEffects
  <2>4. PICK q \in Sessions : /\ lock = <<q, "worker">>
                              /\ wpc[q] = "building" /\ wsvc[q] = s
    BY <2>3
  <2>5. wpc'[q] = "building" /\ wsvc'[q] = s
    BY <1>0, <2>1, <2>4 DEF MainEffects
  <2>6. QED
    BY <1>0, <2>4, <2>5 DEF LockContract
<1>3. CASE \E p \in Procs : DieLeavingGhosts(p)
  <2>1. PICK p \in Procs : DieLeavingGhosts(p)
    BY <1>3
  <2>2. Die({p}) /\ build' = build \ Abandoned({p})
    BY <2>1 DEF DieLeavingGhosts
  <2>3. ASSUME NEW s \in build'
        PROVE  \E q \in Sessions : /\ lock' = <<q, "worker">>
                                   /\ wpc'[q] = "building" /\ wsvc'[q] = s
    <3>1. PICK q \in Sessions : /\ lock = <<q, "worker">>
                                /\ wpc[q] = "building" /\ wsvc[q] = s
      BY <2>2
    <3>2. q # p
      BY <2>2, <3>1 DEF Abandoned
    <3>3. wpc'[q] = "building" /\ wsvc'[q] = s
      BY <2>2, <3>1, <3>2 DEF Die
    <3>4. QED
      BY <1>0, <3>3 DEF LockContract
  <2>4. QED
    BY <2>3
<1>4. CASE Reboot
  BY <1>4 DEF Reboot
<1>5. CASE SweepStart
  <2>1. lock = NoOne /\ build' = build
    BY <1>5 DEF SweepStart, TryLock, ghost
  <2>2. build = {}
    BY <2>1, NoOneHolds
  <2>3. QED
    BY <2>1, <2>2
<1>6. CASE SweepGhosts
  BY <1>6 DEF SweepGhosts
<1>7. CASE (\E s \in Services : GhostEnds(s)) \/ UNCHANGED vars
  BY <1>7 DEF GhostEnds, vars, wvars, ghost
<1>8. QED
  BY <1>1, <1>2, <1>3, <1>4, <1>5, <1>6, <1>7 DEF Next, ProcEnd, Crash

\* sweep_stale, for any number of sessions and services: a ghost build that a
\* live deploy waits for implies that deploy's lock, so a sweep that could
\* take the lock finds orphans only.
THEOREM LiveBuildsSafety == Spec => []LiveBuildsAreLocked
<1>1. Init => LiveBuildsAreLocked
  BY DEF Init, LiveBuildsAreLocked
<1>2. TypeOK /\ LockContract /\ LiveBuildsAreLocked /\ [Next]_vars
         => LiveBuildsAreLocked'
  BY BuildsStep
<1>3. QED
  BY <1>1, <1>2, TypeCorrect, LockSafety, PTL DEF Spec

(***************************************************************************)
(* The journal.                                                            *)
(***************************************************************************)

\* What the careful user ensures: nobody deletes what is being deployed.
DeletesApart ==
    \A p, q \in Procs :
        wpc[p] # Idle /\ mpc[q] \in Deleting => wsvc[p] # msvc[q]

\* A careful user keeps deletes apart from deploys: both ways in are guarded,
\* and no other step starts either.
LEMMA ApartStep ==
    ASSUME CarefulUser, TypeOK, DeletesApart, [Next]_vars
    PROVE  DeletesApart'
<1> USE DEF DeletesApart
<1>1. ASSUME NEW p \in Sessions, WorkerNext(p) PROVE DeletesApart'
  BY <1>1, WorkerStep DEF WorkerMoves, mvars
<1>2. ASSUME NEW p \in Procs,
             \/ ReconcileNext(p) \/ DeleteNext(p) \/ UserNext(p)
             \/ ExitNext(p) /\ ~ProcEnd(p)
      PROVE  DeletesApart'
  <2>1. MainEffects(p)
    BY <1>2, MainEffect
  <2>2. ASSUME NEW q \in Procs, NEW r \in Procs,
               wpc'[q] # Idle, mpc'[r] \in Deleting
        PROVE  wsvc'[q] # msvc'[r]
    <3>1. \/ wpc[q] # Idle /\ wsvc'[q] = wsvc[q]
          \/ MayDeploy(wsvc'[q]) /\ UNCHANGED mvars
      BY <2>1, <2>2 DEF MainEffects
    <3>2. \/ mpc[r] \in Deleting /\ msvc'[r] = msvc[r]
          \/ MayDelete(msvc'[r]) /\ UNCHANGED wvars
      BY <2>1, <2>2 DEF MainEffects
    <3>3. CASE MayDeploy(wsvc'[q]) /\ UNCHANGED mvars
      BY <2>2, <3>3 DEF MayDeploy, mvars
    <3>4. CASE MayDelete(msvc'[r]) /\ UNCHANGED wvars
      BY <2>2, <3>4 DEF MayDelete, MayHandle, wvars
    <3>5. QED
      BY <3>1, <3>2, <3>3, <3>4
  <2>3. QED
    BY <2>2
<1>3. ASSUME NEW dead \in SUBSET Procs, Die(dead) PROVE DeletesApart'
  BY <1>3 DEF Die, Deleting
<1>4. CASE SweepStart \/ SweepGhosts
  BY <1>4 DEF SweepStart, SweepGhosts, MStep, MGoto, wvars, TypeOK, Deleting
<1>5. CASE (\E s \in Services : GhostEnds(s)) \/ UNCHANGED vars
  BY <1>5 DEF GhostEnds, vars, wvars, mvars
<1>6. QED
  BY <1>1, <1>2, <1>3, <1>4, <1>5 DEF Next, ProcEnd, Crash, DieLeavingGhosts,
     Reboot

\* A worker touches its own entry only; a reconciliation holds the lock, and
\* then no worker is past it; a delete is of another service.
LEMMA JournalStep ==
    ASSUME TypeOK, LockContract, DeletesApart, JournalTracksDeploys,
           [Next]_vars
    PROVE  JournalTracksDeploys'
<1> USE DEF JournalTracksDeploys
<1>0. \A x \in Journaled : x \in Locked /\ x # Idle
  BY DEF Locked, Journaled, Idle
<1>1. ASSUME NEW p \in Sessions, WorkerNext(p) PROVE JournalTracksDeploys'
  <2>1. WorkerMoves(p) /\ WorkerEffects(p)
    BY <1>1, WorkerStep, WorkerEffect
  <2>2. ASSUME NEW q \in Sessions, wpc'[q] \in Journaled
        PROVE  journal'[wsvc'[q]] # "none"
    <3>1. CASE q = p
      BY <1>0, <2>1, <2>2, <3>1 DEF WorkerMoves, WorkerEffects
    <3>2. CASE q # p
      <4>1. wpc[q] \in Journaled /\ wsvc'[q] = wsvc[q]
        BY <2>1, <2>2, <3>2 DEF WorkerMoves
      <4>2. wpc[p] \notin Locked
        BY <1>0, <3>2, <4>1 DEF LockContract
      <4>3. QED
        BY <2>1, <4>1, <4>2 DEF WorkerEffects
    <3>3. QED
      BY <3>1, <3>2
  <2>3. QED
    BY <2>2
<1>2. ASSUME NEW p \in Procs,
             \/ ReconcileNext(p) \/ DeleteNext(p) \/ UserNext(p)
             \/ ExitNext(p) /\ ~ProcEnd(p)
      PROVE  JournalTracksDeploys'
  <2>1. MainEffects(p)
    BY <1>2, MainEffect
  <2>2. ASSUME NEW q \in Sessions, wpc'[q] \in Journaled
        PROVE  journal'[wsvc'[q]] # "none"
    <3>1. wpc[q] \in Journaled /\ wsvc'[q] = wsvc[q]
      BY <2>1, <2>2 DEF MainEffects
    <3>2. mpc[p] \notin RcHeld
      BY <1>0, <3>1 DEF LockContract
    <3>3. wsvc[q] \in Services
      BY <1>0, <3>1 DEF TypeOK
    <3>4. CASE mpc[p] = "delClear"
      <4>1. wsvc[q] # msvc[p]
        BY <1>0, <3>1, <3>4 DEF DeletesApart, Deleting
      <4>2. journal'[wsvc[q]] = journal[wsvc[q]]
        BY <2>1, <3>2, <3>3, <4>1 DEF MainEffects
      <4>3. QED
        BY <3>1, <4>2
    <3>5. QED
      BY <2>1, <3>1, <3>2, <3>4 DEF MainEffects
  <2>3. QED
    BY <2>2
<1>3. ASSUME NEW dead \in SUBSET Procs, Die(dead), UNCHANGED journal
      PROVE  JournalTracksDeploys'
  <2>1. Idle \notin Journaled
    BY <1>0
  <2>2. QED
    BY <1>3, <2>1 DEF Die
<1>4. CASE SweepStart \/ SweepGhosts
  BY <1>4 DEF SweepStart, SweepGhosts, MStep, wvars, disk
<1>5. CASE (\E s \in Services : GhostEnds(s)) \/ UNCHANGED vars
  BY <1>5 DEF GhostEnds, vars, wvars, disk
<1>6. QED
  BY <1>1, <1>2, <1>3, <1>4, <1>5 DEF Next, ProcEnd, Crash, DieLeavingGhosts,
     Reboot, disk

\* lock.rs and journal.rs, for any number of sessions and services: as long
\* as the user does not delete what is being deployed, a live deploy has its
\* entry in the journal, whatever runs beside it.
THEOREM JournalSafety ==
    ASSUME CarefulUser
    PROVE  Spec => []JournalTracksDeploys
<1>1. Init => DeletesApart /\ JournalTracksDeploys
  BY DEF Init, DeletesApart, JournalTracksDeploys, Idle, Journaled
<1>2. TypeOK /\ LockContract /\ DeletesApart /\ JournalTracksDeploys
         /\ [Next]_vars => DeletesApart' /\ JournalTracksDeploys'
  BY CarefulUser, ApartStep, JournalStep
<1>3. QED
  BY <1>1, <1>2, TypeCorrect, LockSafety, PTL DEF Spec

(***************************************************************************)
(* Why a reconciliation that works from a snapshot of the journal settles  *)
(* all of it: entries are added under the lock only, and a reconciliation  *)
(* holds that from its snapshot to its end.                                *)
(***************************************************************************)

\* Between its snapshot and its end a reconciliation knows every entry: it
\* has it on its list still, or is cleaning it just now.
Knows(p, s) ==
    journal[s] # "none" => \/ todo[p][s] # "none"
                           \/ mpc[p] \in Cleaning /\ msvc[p] = s

SnapshotCovers ==
    \A p \in Procs : mpc[p] \in RcHeld \ {"sweep"} =>
        \A s \in Services : Knows(p, s)

\* reconcile_stale_inner: taking the snapshot, forgetting an entry, and
\* cleaning one up keep the list complete.
LEMMA OwnSnapshot ==
    ASSUME TypeOK, NEW p \in Procs, ReconcileNext(p),
           mpc[p] \in RcHeld \ {"sweep"} => \A s \in Services : Knows(p, s),
           mpc'[p] \in RcHeld \ {"sweep"}
    PROVE  \A s \in Services : Knows(p, s)'
<1> USE DEF TypeOK, Knows, MStep, MGoto, disk, RcHeld, Cleaning
<1>0. AfterReconcile(p) \notin RcHeld
  BY DEF AfterReconcile
<1>1. CASE NothingStale(p) \/ Deferred(p) \/ ReconcileDone(p)
  BY <1>0, <1>1 DEF NothingStale, Deferred, ReconcileDone
<1>2. CASE ReconcileLock(p)
  BY <1>2 DEF ReconcileLock
<1>3. CASE ForgetEntry(p)
  BY <1>3 DEF ForgetEntry, Pending, JournalClear
<1>4. CASE CleanEntry(p)
  BY <1>4 DEF CleanEntry, Pending
<1>5. CASE CleanUnit(p) \/ CleanEnv(p) \/ CleanTree(p) \/ CleanRegistry(p)
           \/ CleanRow(p)
  BY <1>5 DEF CleanUnit, CleanEnv, CleanTree, CleanRegistry, CleanRow, LoadRow,
              DropRow
<1>6. CASE CleanJournal(p)
  BY <1>6 DEF CleanJournal, JournalClear
<1>7. QED
  BY <1>1, <1>2, <1>3, <1>4, <1>5, <1>6 DEF ReconcileNext

\* A thread that does not reconcile adds no entry to the journal, unless it
\* is a worker that holds the lock.
Bystander(p) ==
    /\ \A q \in Procs : todo'[q] = todo[q]
    /\ \A q \in Procs \ {p} : mpc'[q] = mpc[q] /\ msvc'[q] = msvc[q]
    /\ mpc'[p] \in RcHeld => mpc'[p] = mpc[p] /\ msvc'[p] = msvc[p]
    /\ \A s \in Services : journal'[s] # "none" =>
          journal[s] # "none" \/ wpc[p] \in Locked

\* Workers, deletes, users and exits are such bystanders.
LEMMA Bystanders ==
    ASSUME TypeOK, NEW p \in Procs,
           \/ p \in Sessions /\ WorkerNext(p)
           \/ DeleteNext(p) \/ UserNext(p) \/ (ExitNext(p) /\ ~ProcEnd(p))
    PROVE  Bystander(p)
<1> USE DEF Bystander, TypeOK
<1>1. CASE p \in Sessions /\ WorkerNext(p)
  BY <1>1, WorkerStep, WorkerEffect DEF WorkerMoves, WorkerEffects, mvars
<1>2. CASE DeleteNext(p)
  <2>1. CASE DeleteRegistry(p) \/ DeleteRow(p)
    BY <2>1 DEF DeleteRegistry, DeleteRow, LoadRow, DropRow, MGoto, disk,
       RcHeld, Cleaning
  <2>2. CASE DeleteUnit(p) \/ DeleteEnv(p) \/ DeleteTree(p) \/ DeleteJournal(p)
    BY <2>2 DEF DeleteUnit, DeleteEnv, DeleteTree, DeleteJournal, JournalClear,
       MStep, MGoto, RcHeld, Cleaning
  <2>3. QED
    BY <1>2, <2>1, <2>2 DEF DeleteNext
<1>3. CASE Launch(p) \/ Spawn(p)
  BY <1>3 DEF Launch, Spawn, MGoto, disk, mvars, RcHeld, Cleaning
<1>4. CASE ExitIdle(p) \/ RequestExit(p) \/ StartDelete(p)
           \/ StopService(p) \/ StartService(p)
  BY <1>4 DEF ExitIdle, RequestExit, StartDelete, StopService, StartService,
     MStep, MGoto, disk, RcHeld, Cleaning
<1>5. CASE QuiesceGhosts(p) \/ QuiesceKill(p) \/ QuiesceDone(p) \/ Join(p)
  BY <1>5 DEF QuiesceGhosts, QuiesceKill, QuiesceDone, Join, MStep, MGoto,
     disk, RcHeld, Cleaning
<1>6. QED
  BY <1>1, <1>2, <1>3, <1>4, <1>5 DEF UserNext, ExitNext

\* The lock leaves at most one reconciliation, and no worker beside it.
LEMMA SnapshotStep ==
    ASSUME TypeOK, LockContract, SnapshotCovers, [Next]_vars
    PROVE  SnapshotCovers'
<1> USE DEF SnapshotCovers
<1>1. ASSUME NEW p \in Procs,
             \/ p \in Sessions /\ WorkerNext(p)
             \/ DeleteNext(p) \/ UserNext(p) \/ (ExitNext(p) /\ ~ProcEnd(p))
      PROVE  SnapshotCovers'
  <2>1. Bystander(p)
    BY <1>1, Bystanders
  <2>2. ASSUME NEW q \in Procs, mpc'[q] \in RcHeld \ {"sweep"},
               NEW s \in Services
        PROVE  Knows(q, s)'
    <3>1. mpc'[q] = mpc[q] /\ msvc'[q] = msvc[q] /\ todo'[q] = todo[q]
      BY <2>1, <2>2 DEF Bystander
    <3>2. wpc[p] \notin Locked
      BY <2>2, <3>1 DEF LockContract
    <3>3. QED
      BY <2>1, <2>2, <3>1, <3>2 DEF Bystander, Knows
  <2>3. QED
    BY <2>2
<1>2. ASSUME NEW p \in Procs, ReconcileNext(p) PROVE SnapshotCovers'
  <2>1. ASSUME NEW q \in Procs, mpc'[q] \in RcHeld \ {"sweep"},
               NEW s \in Services
        PROVE  Knows(q, s)'
    <3>1. CASE q = p
      BY <1>2, <2>1, <3>1, OwnSnapshot
    <3>2. CASE q # p
      <4>1. /\ mpc'[q] = mpc[q] /\ msvc'[q] = msvc[q]
        BY <1>2, <3>2, MainEffect DEF MainEffects
      <4>2. mpc[p] \notin RcHeld
        BY <2>1, <3>2, <4>1 DEF LockContract
      <4>3. ~(mpc[p] = "delClear")
        BY <1>2 DEF ReconcileNext, NothingStale, Deferred, ReconcileLock,
           ForgetEntry, CleanEntry, CleanUnit, CleanEnv, CleanTree,
           CleanRegistry, CleanRow, LoadRow, DropRow, CleanJournal,
           ReconcileDone, MStep
      <4>4. journal' = journal
        BY <1>2, <4>2, <4>3, MainEffect DEF MainEffects
      <4>5. todo'[q] = todo[q]
        BY <1>2, <3>2 DEF ReconcileNext, NothingStale, Deferred,
           ReconcileLock, ForgetEntry, CleanEntry, CleanUnit, CleanEnv,
           CleanTree, CleanRegistry, CleanRow, LoadRow, DropRow, CleanJournal,
           ReconcileDone, TypeOK
      <4>6. QED
        BY <2>1, <4>1, <4>4, <4>5 DEF Knows
    <3>3. QED
      BY <3>1, <3>2
  <2>2. QED
    BY <2>1
<1>3. ASSUME NEW dead \in SUBSET Procs, Die(dead), UNCHANGED journal
      PROVE  SnapshotCovers'
  <2>1. "off" \notin RcHeld
    BY DEF RcHeld, Cleaning
  <2>2. QED
    BY <1>3, <2>1 DEF Die, Knows
<1>4. CASE SweepStart
  BY <1>4 DEF SweepStart, TypeOK, MGoto, disk, Knows
<1>5. CASE SweepGhosts
  <2>1. ASSUME NEW q \in Procs, mpc'[q] \in RcHeld \ {"sweep"},
               NEW s \in Services
        PROVE  Knows(q, s)'
    <3>1. mpc[Timer] = "sweep" /\ journal' = journal
          /\ todo' = [todo EXCEPT ![Timer] = journal]
          /\ mpc' = [mpc EXCEPT ![Timer] = "rcNext"]
          /\ msvc' = msvc
      BY <1>5 DEF SweepGhosts, MStep, MGoto, disk
    <3>2. CASE q = Timer
      BY <3>1, <3>2 DEF Knows, TypeOK
    <3>3. CASE q # Timer
      <4>1. mpc'[q] = mpc[q] /\ todo'[q] = todo[q]
        BY <3>1, <3>3 DEF TypeOK
      <4>2. QED
        BY <2>1, <3>1, <4>1 DEF Knows
    <3>4. QED
      BY <3>2, <3>3
  <2>2. QED
    BY <2>1
<1>6. CASE (\E s \in Services : GhostEnds(s)) \/ UNCHANGED vars
  BY <1>6 DEF GhostEnds, vars, mvars, disk, Knows
<1>7. QED
  BY <1>1, <1>2, <1>3, <1>4, <1>5, <1>6 DEF Next, ProcEnd, Crash,
     DieLeavingGhosts, Reboot, disk

\* An end with the list worked off is an end with an empty journal.
LEMMA SettlesStep ==
    ASSUME TypeOK, SnapshotCovers, [Next]_vars, NEW p \in Procs,
           mpc[p] = "rcNext", mpc'[p] \in {"ready", "out"}
    PROVE  journal' = NoJournal
<1>1. ReconcileDone(p)
  <2>1. ASSUME NEW q \in Sessions, WorkerNext(q) PROVE FALSE
    BY <2>1, WorkerStep DEF WorkerMoves, mvars
  <2>2. ASSUME NEW q \in Procs,
               \/ ReconcileNext(q) \/ DeleteNext(q) \/ UserNext(q)
               \/ ExitNext(q) /\ ~ProcEnd(q)
        PROVE  q = p
    BY <2>2, MainEffect DEF MainEffects
  <2>3. ASSUME \/ DeleteNext(p) \/ UserNext(p)
               \/ ExitNext(p) /\ ~ProcEnd(p)
        PROVE  FALSE
    BY <2>3 DEF DeleteNext, DeleteUnit, DeleteEnv, DeleteTree, DeleteRegistry,
       DeleteRow, LoadRow, DropRow, DeleteJournal, UserNext, Launch, Spawn,
       ExitIdle, RequestExit, StartDelete, StopService, StartService, ExitNext,
       QuiesceGhosts, QuiesceKill, QuiesceDone, Join, MStep, mvars
  <2>4. ASSUME NEW dead \in SUBSET Procs, Die(dead) PROVE FALSE
    BY <2>4 DEF Die
  <2>5. ~SweepStart /\ ~SweepGhosts
    BY DEF SweepStart, SweepGhosts, MStep, MGoto, TypeOK
  <2>6. ~(\E s \in Services : GhostEnds(s)) /\ ~UNCHANGED vars
    BY DEF GhostEnds, vars, mvars
  <2>7. ReconcileNext(p)
    BY <2>1, <2>2, <2>3, <2>4, <2>5, <2>6 DEF Next, ProcEnd, Crash,
       DieLeavingGhosts, Reboot
  <2>8. QED
    BY <2>7 DEF ReconcileNext, NothingStale, Deferred, ReconcileLock,
       ForgetEntry, CleanEntry, CleanUnit, CleanEnv, CleanTree,
       CleanRegistry, CleanRow, LoadRow, DropRow, CleanJournal, MStep, MGoto,
       TypeOK
<1>2. \A s \in Services : journal[s] = "none"
  BY <1>1 DEF ReconcileDone, Pending, SnapshotCovers, Knows, RcHeld, Cleaning
<1>3. journal' = journal
  BY <1>1 DEF ReconcileDone, disk
<1>4. QED
  BY <1>2, <1>3 DEF TypeOK, NoJournal

\* reconcile_stale_locked, for any number of sessions and services: a
\* reconciliation that ran to its end leaves an empty journal, although it
\* read it once only.
THEOREM ReconcileCompletes == Spec => ReconcileSettlesAll
<1>1. Init => SnapshotCovers
  BY DEF Init, SnapshotCovers, RcHeld, Cleaning
<1>2. TypeOK /\ LockContract /\ SnapshotCovers /\ [Next]_vars
         => SnapshotCovers'
  BY SnapshotStep
<1>3. TypeOK /\ SnapshotCovers /\ [Next]_vars
         => [\A p \in Procs :
                (mpc[p] = "rcNext" /\ mpc'[p] \in {"ready", "out"}) =>
                    journal' = NoJournal]_vars
  BY SettlesStep
<1>4. QED
  BY <1>1, <1>2, <1>3, TypeCorrect, LockSafety, PTL
     DEF Spec, ReconcileSettlesAll
=============================================================================
