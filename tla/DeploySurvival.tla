--------------------------- MODULE DeploySurvival ---------------------------
(***************************************************************************)
(* Why a deploy is left alone, while it runs and once it has finished: a   *)
(* thread reaches no further than the service it works on, and the lock    *)
(* and a careful user keep any two of them off the same one.  Then why no  *)
(* unit is left that nothing answers for.                                  *)
(***************************************************************************)
EXTENDS DeployJournal

USE DEF Procs, Holders

\* A step changes nothing of s, but for its row, which somebody may overwrite
\* with an older one, and for a clone directory that is not its own.
Untouched(s) ==
    /\ journal'[s] = journal[s]
    /\ unit'[s] = unit[s]
    /\ s \in env' <=> s \in env
    /\ s \in overlaid' <=> s \in overlaid
    /\ Alone(s) => tree'[TreeOf[s]] = tree[TreeOf[s]]
    /\ \/ s \in mislaid' /\ s \notin settled'
       \/ /\ s \in registry' <=> s \in registry
          /\ s \in mislaid' <=> s \in mislaid
          /\ s \in settled' <=> s \in settled

\* A store of the registry for s leaves the row of another service as it is, or
\* overtakes and mislays it.
LEMMA StoreReach ==
    ASSUME TypeOK, NEW h \in Holders, NEW s \in Services,
           NEW own \in SUBSET {s}, StoreRegistry(h, s, own)
    PROVE  /\ \A t \in Services \ {s} :
                 \/ t \in Overtaken(h, s) /\ t \in mislaid'
                 \/ /\ t \notin Overtaken(h, s)
                    /\ t \in registry' <=> t \in registry
                    /\ t \in mislaid' <=> t \in mislaid
           /\ s \in registry' <=> s \in own
           /\ s \notin mislaid' /\ s \notin Overtaken(h, s)
<1> HIDE DEF Holders
<1>1. QED
  BY DEF StoreRegistry, Overtaken

\* Every worker step moves on, and reaches its own service only, and that only
\* while its deploy has the lock.
LEMMA WorkerReach ==
    ASSUME TypeOK, NEW p \in Sessions, WorkerNext(p)
    PROVE  /\ wpc'[p] # wpc[p]
           /\ \A s \in Services :
                 s # wsvc[p] \/ wpc[p] \notin Locked => Untouched(s)
<1> USE TreesTyped DEF TypeOK, Untouched, Step, Goto, disk, hist, Idle, Locked,
            Journaled
<1>0. p \in Procs
  OBVIOUS
<1>1. CASE PassGates(p) \/ RejectAtGate(p) \/ LockDeploy(p) \/ LockBusy(p)
           \/ GiveUpAttempt(p) \/ ResolvePin(p) \/ ReuseClone(p)
  BY <1>0, <1>1 DEF PassGates, RejectAtGate, LockDeploy, LockBusy,
                    GiveUpAttempt, ResolvePin, ReuseClone
<1>2. CASE Begin(p)
  BY <1>0, <1>2 DEF Begin, JournalBegin, Overlay
<1>3. CASE ExitCheck(p)
  BY <1>0, <1>3 DEF ExitCheck, JournalClear
<1>4. CASE FreshClone(p) \/ FillClone(p) \/ FillFails(p) \/ RollbackTree(p)
  BY <1>0, <1>4 DEF Alone, FreshClone, FillClone, FillFails, RollbackTree,
                    WipeTree
<1>5. CASE Prepare(p) \/ SkipBuild(p) \/ StartBuild(p) \/ BuildDone(p)
           \/ BuildFails(p) \/ HealthOk(p) \/ RepairRefused(p) \/ Fail(p)
  BY <1>0, <1>5 DEF Prepare, SkipBuild, StartBuild, BuildDone, BuildFails,
                    HealthOk, RepairRefused, Fail
<1>6. CASE Install(p) \/ WriteEnv(p) \/ CreateUnit(p) \/ StartUnit(p)
  BY <1>0, <1>6 DEF Install, WriteEnv, CreateUnit, StartUnit
<1>7. CASE AskRepair(p) \/ RetryRepaired(p)
  BY <1>0, <1>7 DEF AskRepair, Overlay, RetryRepaired
<1>8. CASE MarkRegistering(p) \/ Register(p) \/ MarkRegistered(p)
  BY <1>0, <1>8 DEF MarkRegistering, Register, MarkRegistered, JournalMark
<1>14. CASE StoreRow(p)
  <2>1. /\ wpc[p] = "store" /\ wpc'[p] = "mark2"
        /\ wsvc[p] \in Services /\ <<p, "worker">> \in Holders
        /\ {wsvc[p]} \in SUBSET {wsvc[p]}
        /\ StoreRegistry(<<p, "worker">>, wsvc[p], {wsvc[p]})
        /\ settled' = (settled \cup {wsvc[p]})
                        \ Overtaken(<<p, "worker">>, wsvc[p])
        /\ overlaid' = overlaid \ {wsvc[p]}
        /\ UNCHANGED <<journal, unit, env, tree>>
    BY <1>0, <1>14 DEF StoreRow
  <2>2. \A t \in Services \ {wsvc[p]} :
           \/ t \in Overtaken(<<p, "worker">>, wsvc[p]) /\ t \in mislaid'
           \/ /\ t \notin Overtaken(<<p, "worker">>, wsvc[p])
              /\ t \in registry' <=> t \in registry
              /\ t \in mislaid' <=> t \in mislaid
    <3> HIDE DEF Holders
    <3>1. /\ wsvc[p] \in Services /\ <<p, "worker">> \in Holders
          /\ StoreRegistry(<<p, "worker">>, wsvc[p], {wsvc[p]})
      BY <2>1
    <3>2. QED
      BY ONLY TypeOK, <3>1, StoreReach
  <2>3. QED
    BY ONLY <2>1, <2>2 DEF Untouched, Locked, Journaled
<1>9. CASE RollbackUnit(p) \/ RollbackEnv(p)
  BY <1>0, <1>9 DEF RollbackUnit, RollbackEnv, RemoveUnit, RemoveEnv
<1>10. CASE Settle(p)
  BY <1>0, <1>10 DEF Settle
<1>11. CASE ClearEntry(p) \/ LowerFlag(p) \/ DropLock(p)
  BY <1>0, <1>11 DEF ClearEntry, JournalClear, LowerFlag, DropLock
<1>12. CASE Return(p)
  BY <1>0, <1>12 DEF Return
<1>13. QED
  BY <1>1, <1>2, <1>3, <1>4, <1>5, <1>6, <1>7, <1>8, <1>9, <1>10, <1>11,
     <1>12, <1>14 DEF WorkerNext

\* Taking a service off the registry reaches no other, but for its row.
LEMMA RowReach ==
    ASSUME TypeOK, NEW p \in Procs, NEW s \in Services \ {msvc[p]},
           NEW from \in Cleaning \cup Deleting, NEW to,
           LoadRow(p, from, to) \/ DropRow(p, from, to)
    PROVE  Untouched(s)
<1>1. CASE LoadRow(p, from, to)
  BY <1>1 DEF LoadRow, Untouched, disk, hist
<1>2. CASE DropRow(p, from, to)
  <2>1. /\ msvc[p] \in Services /\ <<p, "main">> \in Holders
        /\ {} \in SUBSET {msvc[p]}
        /\ StoreRegistry(<<p, "main">>, msvc[p], {})
        /\ settled' = settled \ Overtaken(<<p, "main">>, msvc[p])
        /\ UNCHANGED <<journal, unit, env, tree, overlaid>>
    BY <1>2 DEF DropRow, TypeOK
  <2>2. \/ s \in Overtaken(<<p, "main">>, msvc[p]) /\ s \in mislaid'
        \/ /\ s \notin Overtaken(<<p, "main">>, msvc[p])
           /\ s \in registry' <=> s \in registry
           /\ s \in mislaid' <=> s \in mislaid
    BY ONLY TypeOK, s \in Services \ {msvc[p]}, <2>1, StoreReach
  <2>3. QED
    BY ONLY <2>1, <2>2 DEF Untouched
<1>3. QED
  BY <1>1, <1>2

\* A step of a main thread reaches the service it cleans or deletes, one whose
\* entry it forgets under the lock, or one the user may handle.
LEMMA MainReach ==
    ASSUME TypeOK, NEW p \in Procs,
           \/ ReconcileNext(p) \/ DeleteNext(p) \/ UserNext(p)
           \/ ExitNext(p) /\ ~ProcEnd(p)
    PROVE  \A s \in Services :
              \/ Untouched(s)
              \/ mpc[p] \in RcHeld
              \/ mpc[p] \in Deleting /\ msvc[p] = s
              \/ mpc[p] = "ready" /\ MayHandle(s)
<1> USE TreesTyped DEF TypeOK, Untouched, MStep, MGoto, disk, hist
<1>1. CASE ReconcileNext(p)
  BY <1>1 DEF ReconcileNext, NothingStale, Deferred, ReconcileLock, ForgetEntry,
     CleanEntry, CleanUnit, CleanEnv, CleanTree, CleanRegistry, CleanRow,
     LoadRow, DropRow, CleanJournal, ReconcileDone, RcHeld, Cleaning
<1>2. CASE DeleteNext(p)
  <2>1. CASE DeleteRegistry(p) \/ DeleteRow(p)
    <3>1. mpc[p] \in Deleting
      BY <2>1 DEF DeleteRegistry, DeleteRow, LoadRow, DropRow, Deleting
    <3>2. \A s \in Services \ {msvc[p]} : Untouched(s)
      BY ONLY TypeOK, p \in Procs, <2>1, RowReach
         DEF DeleteRegistry, DeleteRow, Deleting
    <3>3. QED
      BY <3>1, <3>2
  <2>2. CASE DeleteUnit(p) \/ DeleteEnv(p) \/ DeleteTree(p) \/ DeleteJournal(p)
    BY <2>2 DEF Alone, DeleteUnit, DeleteEnv, DeleteTree, DeleteJournal,
       JournalClear, RemoveUnit, RemoveEnv, WipeTree, Deleting
  <2>3. QED
    BY <1>2, <2>1, <2>2 DEF DeleteNext
<1>3. CASE Launch(p) \/ Spawn(p) \/ ExitIdle(p) \/ RequestExit(p)
  BY <1>3 DEF Launch, Spawn, ExitIdle, RequestExit
<1>4. CASE StartDelete(p)
  BY <1>4 DEF StartDelete, MayDelete
<1>5. CASE StopService(p) \/ StartService(p)
  BY <1>5 DEF StopService, StartService
<1>6. CASE QuiesceGhosts(p) \/ QuiesceKill(p) \/ QuiesceDone(p) \/ Join(p)
  BY <1>6 DEF QuiesceGhosts, QuiesceKill, QuiesceDone, Join
<1>7. QED
  BY <1>1, <1>2, <1>3, <1>4, <1>5, <1>6 DEF UserNext, ExitNext

\* What a live deploy works on is out of reach for every other thread.
LEMMA LiveOutOfReach ==
    ASSUME CarefulUser, TypeOK, LockContract, DeletesApart,
           NEW p \in Procs, NEW q \in Procs, wpc[q] \in Locked,
           \/ ReconcileNext(p) \/ DeleteNext(p) \/ UserNext(p)
           \/ ExitNext(p) /\ ~ProcEnd(p)
    PROVE  Untouched(wsvc[q])
<1>1. wpc[q] # Idle /\ wsvc[q] \in Services
  BY DEF TypeOK, Locked, Journaled, Idle
<1>2. mpc[p] \notin RcHeld
  BY DEF LockContract
<1>3. mpc[p] \in Deleting => msvc[p] # wsvc[q]
  BY <1>1 DEF DeletesApart
<1>4. ~MayHandle(wsvc[q])
  BY <1>1 DEF MayHandle
<1>5. QED
  BY <1>1, <1>2, <1>3, <1>4, MainReach

\* Deaths, sweeps and the ends of orphaned builds reach no service, but that a
\* reboot starts the units that were stopped.
LEMMA OthersReach ==
    ASSUME TypeOK, NEW s \in Services,
           \/ \E p \in Procs : DieLeavingGhosts(p)
           \/ SweepStart \/ SweepGhosts
           \/ \E g \in Services : GhostEnds(g)
           \/ UNCHANGED vars
    PROVE  Untouched(s)
<1> USE DEF Untouched, disk, hist
<1>1. CASE \E p \in Procs : DieLeavingGhosts(p)
  BY <1>1 DEF DieLeavingGhosts, Die
<1>2. CASE SweepStart \/ SweepGhosts \/ \E g \in Services : GhostEnds(g)
  BY <1>2 DEF SweepStart, SweepGhosts, GhostEnds
<1>3. QED
  BY <1>1, <1>2 DEF vars

\* No step disturbs a live deploy whose worker stands still.
LEMMA UndisturbedStep ==
    ASSUME CarefulUser, TypeOK, LockContract, DeletesApart,
           [Next]_vars, NEW p \in Sessions,
           wpc[p] \in Journaled, wpc'[p] = wpc[p]
    PROVE  Untouched(wsvc[p])
<1>0. p \in Procs /\ wpc[p] \in Locked /\ wsvc[p] \in Services
  BY DEF TypeOK, Locked, Journaled, Idle
<1>1. ASSUME NEW q \in Sessions, WorkerNext(q) PROVE Untouched(wsvc[p])
  <2>1. q # p
    BY <1>1, WorkerReach
  <2>2. wpc[q] \notin Locked
    BY <1>0, <2>1 DEF LockContract
  <2>3. QED
    BY <1>0, <1>1, <2>2, WorkerReach
<1>2. ASSUME NEW q \in Procs,
             \/ ReconcileNext(q) \/ DeleteNext(q) \/ UserNext(q)
             \/ ExitNext(q) /\ ~ProcEnd(q)
      PROVE  Untouched(wsvc[p])
  BY <1>0, <1>2, LiveOutOfReach
<1>3. ~Reboot
  BY <1>0 DEF Reboot, Die, Idle, Locked, Journaled
<1>4. QED
  BY <1>0, <1>1, <1>2, <1>3, OthersReach DEF Next, ProcEnd, Crash

\* reconcile_stale_locked, for any number of sessions and services: while the
\* worker of a live deploy stands still, nothing of its service changes on
\* disk, as long as the user keeps deletes away from it; a row that another's
\* store overtakes and a clone directory that is not its own apart.
THEOREM DeploysUndisturbed ==
    ASSUME CarefulUser
    PROVE  Spec => DeployUndisturbed
<1>1. Init => DeletesApart
  BY DEF Init, DeletesApart, Idle
<1>2. TypeOK /\ DeletesApart /\ [Next]_vars => DeletesApart'
  BY CarefulUser, ApartStep
<1>3. TypeOK /\ LockContract /\ DeletesApart /\ [Next]_vars
         => [\A p \in Sessions :
                (wpc[p] \in Journaled /\ wpc'[p] = wpc[p]) =>
                    LET s == wsvc[p] IN
                    /\ journal'[s] = journal[s]
                    /\ unit'[s] = unit[s]
                    /\ s \in mislaid' \/ ((s \in registry') <=> (s \in registry))
                    /\ (s \in env') <=> (s \in env)
                    /\ Alone(s) => tree'[TreeOf[s]] = tree[TreeOf[s]]]_vars
  BY CarefulUser, UndisturbedStep DEF Untouched
<1>4. QED
  BY <1>1, <1>2, <1>3, TypeCorrect, LockSafety, PTL
     DEF Spec, DeployUndisturbed

(***************************************************************************)
(* Finished deploys.                                                       *)
(***************************************************************************)

\* What a deploy has built up by the time it is at these points.
Cloned  == {"prepare", "build", "building", "install", "env", "unit", "start",
            "health", "repair", "mark", "register", "store"}
Started == {"health", "repair", "mark", "register", "store"}
Unfinished == Journaled \ {"mark2", "settle", "clear"}

\* A worker on its way to the registration has the tree and the unit that the
\* registration will vouch for, and nothing vouches for them yet.
Ripens(p) ==
    /\ wpc[p] \in Cloned /\ Alone(wsvc[p]) => tree[TreeOf[wsvc[p]]] = "whole"
    /\ wpc[p] \in Started => unit[wsvc[p]] = "running"
    /\ wpc[p] \in {"register", "store"} => journal[wsvc[p]] # "deploying"
    /\ wpc[p] \in Unfinished => wsvc[p] \notin settled

\* A finished deploy is up, and its journal entry, if there still is one,
\* does not say that it was interrupted.
Kept(s) ==
    s \in settled =>
        /\ s \in registry /\ unit[s] = "running"
        /\ Alone(s) => tree[TreeOf[s]] = "whole"
        /\ journal[s] # "deploying"

\* A clean-up or delete is not of a finished deploy, nor will be: the snapshot
\* of a reconciliation does not take one for interrupted.
Spares(p) ==
    /\ mpc[p] \in RcHeld \ {"sweep"} =>
          \A s \in settled : todo[p][s] # "deploying"
    /\ mpc[p] \in Cleaning \cup Deleting => msvc[p] \notin settled

Survival ==
    /\ \A p \in Procs : Ripens(p) /\ Spares(p)
    /\ \A s \in Services : Kept(s)

\* The worker itself: it does not touch a service that is settled but for its
\* journal entry, and settles one that is up.
LEMMA OwnSurvival ==
    ASSUME TypeOK, NEW p \in Sessions, WorkerNext(p), wpc[p] \in Locked,
           Ripens(p), Kept(wsvc[p])
    PROVE  /\ Ripens(p)'
           /\ Kept(wsvc[p])'
           /\ wsvc'[p] = wsvc[p]
<1> USE TreesTyped DEF TypeOK, Ripens, Kept, Step, Goto, disk, hist, Idle,
        Locked, Journaled, Cloned, Started, Unfinished
<1>0. p \in Procs
  OBVIOUS
<1>1. CASE PassGates(p) \/ RejectAtGate(p) \/ LockDeploy(p) \/ LockBusy(p)
           \/ GiveUpAttempt(p) \/ ResolvePin(p) \/ ReuseClone(p)
  BY <1>0, <1>1 DEF PassGates, RejectAtGate, LockDeploy, LockBusy,
                    GiveUpAttempt, ResolvePin, ReuseClone
<1>2. CASE Begin(p)
  BY <1>0, <1>2 DEF Begin, JournalBegin
<1>3. CASE ExitCheck(p)
  BY <1>0, <1>3 DEF ExitCheck, JournalClear
<1>4. CASE FreshClone(p) \/ FillClone(p) \/ FillFails(p) \/ RollbackTree(p)
  BY <1>0, <1>4 DEF FreshClone, FillClone, FillFails, RollbackTree, WipeTree
<1>5. CASE Prepare(p) \/ SkipBuild(p) \/ StartBuild(p) \/ BuildDone(p)
           \/ BuildFails(p) \/ HealthOk(p) \/ RepairRefused(p) \/ Fail(p)
  BY <1>0, <1>5 DEF Prepare, SkipBuild, StartBuild, BuildDone, BuildFails,
                    HealthOk, RepairRefused, Fail
<1>6. CASE Install(p) \/ WriteEnv(p) \/ CreateUnit(p) \/ StartUnit(p)
  BY <1>0, <1>6 DEF Install, WriteEnv, CreateUnit, StartUnit
<1>7. CASE AskRepair(p) \/ RetryRepaired(p)
  BY <1>0, <1>7 DEF AskRepair, RetryRepaired
<1>8. CASE MarkRegistering(p) \/ Register(p) \/ MarkRegistered(p)
  BY <1>0, <1>8 DEF MarkRegistering, Register, MarkRegistered, JournalMark
<1>14. CASE StoreRow(p)
  <2>1. /\ wpc[p] = "store" /\ wpc'[p] = "mark2"
        /\ wsvc[p] \in Services /\ <<p, "worker">> \in Holders
        /\ StoreRegistry(<<p, "worker">>, wsvc[p], {wsvc[p]})
        /\ UNCHANGED <<journal, unit, tree, wsvc>>
    BY <1>0, <1>14 DEF StoreRow
  <2>2. wsvc[p] \in registry'
    BY <2>1 DEF StoreRegistry
  <2>3. QED
    BY ONLY <2>1, <2>2, Ripens(p) DEF Ripens, Kept, Cloned, Started, Unfinished,
       Journaled
<1>9. CASE RollbackUnit(p) \/ RollbackEnv(p)
  BY <1>0, <1>9 DEF RollbackUnit, RollbackEnv, RemoveUnit
<1>10. CASE Settle(p)
  BY <1>0, <1>10 DEF Settle
<1>11. CASE ClearEntry(p) \/ LowerFlag(p) \/ DropLock(p)
  BY <1>0, <1>11 DEF ClearEntry, JournalClear, LowerFlag, DropLock
<1>12. CASE Return(p)
  BY <1>0, <1>12 DEF Return
<1>13. QED
  BY <1>1, <1>2, <1>3, <1>4, <1>5, <1>6, <1>7, <1>8, <1>9, <1>10, <1>11,
     <1>12, <1>14 DEF WorkerNext

\* A main thread: it removes what is not settled, and unsettles what the user
\* stops or deletes.
LEMMA MainSurvival ==
    ASSUME TypeOK, NEW p \in Procs, Spares(p),
           \A s \in Services : Kept(s),
           \/ ReconcileNext(p) \/ DeleteNext(p) \/ UserNext(p)
           \/ ExitNext(p) /\ ~ProcEnd(p)
    PROVE  /\ settled' \subseteq settled
           /\ \A s \in Services : Kept(s)'
           /\ Spares(p)'
<1> USE TreesTyped DEF TypeOK, Spares, Kept, MStep, MGoto, disk, hist, RcHeld,
        Cleaning, Deleting
<1>0. AfterReconcile(p) \notin RcHeld \cup Deleting
  BY DEF AfterReconcile
<1>1. CASE \/ NothingStale(p) \/ Deferred(p) \/ ReconcileLock(p)
           \/ ReconcileDone(p)
  BY <1>0, <1>1 DEF NothingStale, Deferred, ReconcileLock, ReconcileDone
<1>2. CASE ForgetEntry(p)
  BY <1>2 DEF ForgetEntry, JournalClear
<1>3. CASE CleanEntry(p)
  BY <1>3 DEF CleanEntry, Pending, StaleAction, JStates
<1>4. CASE CleanUnit(p) \/ CleanEnv(p) \/ CleanRegistry(p)
  BY <1>4 DEF CleanUnit, CleanEnv, CleanRegistry, LoadRow, RemoveUnit
<1>5. CASE CleanTree(p)
  BY <1>5 DEF CleanTree, WipeTree, Alone
<1>6. CASE CleanJournal(p)
  BY <1>6 DEF CleanJournal, JournalClear
<1>7. CASE DeleteUnit(p) \/ DeleteEnv(p) \/ DeleteRegistry(p)
  BY <1>7 DEF DeleteUnit, DeleteEnv, DeleteRegistry, LoadRow, RemoveUnit
<1>8. CASE DeleteTree(p)
  BY <1>8 DEF DeleteTree, WipeTree, Alone
<1>9. CASE DeleteJournal(p)
  BY <1>9 DEF DeleteJournal, JournalClear
<1>10. CASE Launch(p) \/ Spawn(p) \/ ExitIdle(p) \/ RequestExit(p)
  BY <1>10 DEF Launch, Spawn, ExitIdle, RequestExit, mvars
<1>11. CASE StartDelete(p) \/ StopService(p) \/ StartService(p)
  BY <1>11 DEF StartDelete, StopService, StartService
<1>12. CASE QuiesceGhosts(p) \/ QuiesceKill(p) \/ QuiesceDone(p) \/ Join(p)
  BY <1>12 DEF QuiesceGhosts, QuiesceKill, QuiesceDone, Join
<1>14. CASE CleanRow(p) \/ DeleteRow(p)
  <2>1. /\ msvc[p] \in Services /\ msvc[p] \notin settled
        /\ <<p, "main">> \in Holders /\ {} \in SUBSET {msvc[p]}
        /\ StoreRegistry(<<p, "main">>, msvc[p], {})
        /\ settled' = settled \ Overtaken(<<p, "main">>, msvc[p])
        /\ UNCHANGED <<journal, unit, tree, msvc, todo>>
        /\ \/ mpc[p] = "rcStore" /\ mpc'[p] = "rcClear"
           \/ mpc[p] = "delStore" /\ mpc'[p] = "delClear"
    BY <1>14 DEF CleanRow, DeleteRow, DropRow
  <2>2. \A t \in Services \ {msvc[p]} :
           \/ t \in Overtaken(<<p, "main">>, msvc[p]) /\ t \in mislaid'
           \/ /\ t \notin Overtaken(<<p, "main">>, msvc[p])
              /\ t \in registry' <=> t \in registry
              /\ t \in mislaid' <=> t \in mislaid
    BY ONLY TypeOK, <2>1, StoreReach
  <2>3. \A s \in Services : Kept(s)'
    BY ONLY <2>1, <2>2, \A s \in Services : Kept(s) DEF Kept
  <2>4. Spares(p)'
    BY ONLY <2>1, Spares(p) DEF Spares, RcHeld, Cleaning, Deleting
  <2>5. QED
    BY <2>1, <2>3, <2>4
<1>13. QED
  BY <1>1, <1>2, <1>3, <1>4, <1>5, <1>6, <1>7, <1>8, <1>9, <1>10, <1>11,
     <1>12, <1>14 DEF ReconcileNext, DeleteNext, UserNext, ExitNext

\* A main thread leaves workers where they are, but for a build it kills.
LEMMA MainPlaces ==
    ASSUME TypeOK, NEW p \in Procs,
           \/ ReconcileNext(p) \/ DeleteNext(p) \/ UserNext(p)
           \/ ExitNext(p) /\ ~ProcEnd(p)
    PROVE  \A q \in Procs :
              wpc'[q] \in Journaled =>
                  /\ wsvc'[q] = wsvc[q]
                  /\ \/ wpc'[q] = wpc[q]
                     \/ wpc[q] = "building" /\ wpc'[q] = "rbUnit"
<1> USE DEF TypeOK, MStep, wvars, Journaled
<1>1. CASE ReconcileNext(p) \/ DeleteNext(p)
  BY <1>1 DEF ReconcileNext, NothingStale, Deferred, ReconcileLock,
     ForgetEntry, CleanEntry, CleanUnit, CleanEnv, CleanTree, CleanRegistry,
     CleanRow, LoadRow, DropRow, CleanJournal, ReconcileDone, DeleteNext,
     DeleteUnit, DeleteEnv, DeleteTree, DeleteRegistry, DeleteRow, DeleteJournal
<1>2. CASE UserNext(p)
  BY <1>2 DEF UserNext, Launch, Spawn, ExitIdle, RequestExit, StartDelete,
     StopService, StartService
<1>3. CASE QuiesceGhosts(p) \/ QuiesceKill(p) \/ QuiesceDone(p) \/ Join(p)
  BY <1>3 DEF QuiesceGhosts, QuiesceKill, QuiesceDone, Join
<1>4. QED
  BY <1>1, <1>2, <1>3 DEF ExitNext

\* No step of any thread, and no death, breaks it.
LEMMA SurvivalStep ==
    ASSUME CarefulUser, TypeOK, LockContract, DeletesApart,
           Survival, [Next]_vars
    PROVE  Survival'
<1> USE DEF Survival
<1>0. /\ \A x \in Cloned \cup Started \cup Unfinished : x \in Journaled
      /\ {"register", "store"} \subseteq Journaled
      /\ \A x \in Journaled : x \in Locked /\ x # Idle
  BY DEF Cloned, Started, Unfinished, Locked, Journaled, Idle
<1>1. ASSUME NEW p \in Sessions, WorkerNext(p) PROVE Survival'
  <2>0. p \in Procs /\ WorkerMoves(p)
    BY <1>1, WorkerStep
  <2>1. CASE wpc[p] \in Locked
    <3>1. /\ Ripens(p)' /\ Kept(wsvc[p])' /\ wsvc'[p] = wsvc[p]
          /\ wsvc[p] \in Services
      BY <1>1, <2>0, <2>1, OwnSurvival DEF TypeOK, WorkerMoves
    <3>2. ASSUME NEW s \in Services PROVE Kept(s)'
      BY <1>1, <2>1, <3>1, <3>2, WorkerReach DEF Kept, Untouched
    <3>3. ASSUME NEW q \in Procs PROVE Ripens(q)'
      <4>1. CASE q = p
        BY <3>1, <4>1
      <4>2. CASE q # p
        BY <1>0, <2>0, <2>1, <4>2 DEF WorkerMoves, LockContract, Ripens
      <4>3. QED
        BY <4>1, <4>2
    <3>4. ASSUME NEW q \in Procs PROVE Spares(q)'
      <4>1. mpc[q] \notin RcHeld
        BY <2>0, <2>1 DEF LockContract
      <4>2. UNCHANGED <<mpc, msvc>>
        BY <2>0 DEF WorkerMoves, mvars
      <4>3. mpc[q] \in Deleting => msvc[q] # wsvc[p] /\ msvc[q] \in Services
        BY <2>0 DEF DeletesApart, WorkerMoves, TypeOK
      <4>4. QED
        BY <1>1, <4>1, <4>2, <4>3, WorkerReach
           DEF Spares, Untouched, RcHeld
    <3>5. QED
      BY <3>2, <3>3, <3>4
  <2>2. CASE wpc[p] \notin Locked
    <3>1. \A s \in Services : Untouched(s)
      BY <1>1, <2>2, WorkerReach
    <3>2. settled' \subseteq settled
      <4>1. TypeOK'
        BY <1>1, WorkerTypes
      <4>2. settled' \subseteq Services
        BY <4>1 DEF TypeOK
      <4>3. \A s \in Services : s \in settled' => s \in settled
        BY <3>1 DEF Untouched
      <4>4. QED
        BY ONLY <4>2, <4>3
    <3>3. ASSUME NEW q \in Procs PROVE Ripens(q)'
      <4>1. CASE q = p
        <5>1. wpc'[p] \notin Journaled
          BY <2>0, <2>2, <4>1 DEF WorkerMoves, Locked, Journaled
        <5>2. QED
          BY <1>0, <4>1, <5>1 DEF Ripens
      <4>2. CASE q # p
        <5>1. wpc'[q] = wpc[q] /\ wsvc'[q] = wsvc[q]
          BY <2>0, <4>2 DEF WorkerMoves
        <5>2. wpc[q] \in Journaled => wsvc[q] \in Services
          BY <1>0 DEF TypeOK
        <5>3. QED
          BY <1>0, <3>1, <5>1, <5>2 DEF Ripens, Untouched
      <4>3. QED
        BY <4>1, <4>2
    <3>4. ASSUME NEW q \in Procs PROVE Spares(q)'
      BY <2>0, <3>2 DEF Spares, WorkerMoves, mvars
    <3>5. ASSUME NEW s \in Services PROVE Kept(s)'
      BY <3>1 DEF Kept, Untouched
    <3>6. QED
      BY <3>3, <3>4, <3>5
  <2>3. QED
    BY <2>1, <2>2
<1>2. ASSUME NEW p \in Procs,
             \/ ReconcileNext(p) \/ DeleteNext(p) \/ UserNext(p)
             \/ ExitNext(p) /\ ~ProcEnd(p)
      PROVE  Survival'
  <2>1. /\ settled' \subseteq settled
        /\ \A s \in Services : Kept(s)'
        /\ Spares(p)'
    BY <1>2, MainSurvival
  <2>2. ASSUME NEW q \in Procs PROVE Ripens(q)'
    <3>1. CASE wpc'[q] \in Journaled
      <4>1. /\ wsvc'[q] = wsvc[q]
            /\ \/ wpc'[q] = wpc[q]
               \/ wpc[q] = "building" /\ wpc'[q] = "rbUnit"
        BY <1>2, <3>1, MainPlaces
      <4>2. wpc[q] \in Locked
        BY <1>0, <3>1, <4>1 DEF Locked, Journaled
      <4>3. Untouched(wsvc[q])
        BY <1>2, <4>2, LiveOutOfReach
      <4>4. QED
        BY <2>1, <4>1, <4>3
           DEF Ripens, Untouched, Cloned, Started, Unfinished, Journaled
    <3>2. CASE wpc'[q] \notin Journaled
      BY <1>0, <3>2 DEF Ripens
    <3>3. QED
      BY <3>1, <3>2
  <2>3. ASSUME NEW q \in Procs, q # p PROVE Spares(q)'
    <3>1. mpc'[q] = mpc[q] /\ msvc'[q] = msvc[q]
      BY <1>2, <2>3, MainEffect DEF MainEffects
    <3>2. todo'[q] = todo[q]
      BY <1>2, <2>3 DEF TypeOK, ReconcileNext, NothingStale, Deferred,
         ReconcileLock, ForgetEntry, CleanEntry, CleanUnit, CleanEnv,
         CleanTree, CleanRegistry, CleanRow, LoadRow, DropRow, CleanJournal,
         ReconcileDone, DeleteNext, DeleteUnit, DeleteEnv, DeleteTree,
         DeleteRegistry, DeleteRow, DeleteJournal,
         UserNext, Launch, Spawn, ExitIdle, RequestExit, StartDelete,
         StopService, StartService, ExitNext, QuiesceGhosts, QuiesceKill,
         QuiesceDone, Join, mvars
    <3>3. QED
      BY <2>1, <3>1, <3>2 DEF Spares
  <2>4. QED
    BY <2>1, <2>2, <2>3
<1>3. ASSUME NEW dead \in SUBSET Procs, Die(dead), UNCHANGED disk
      PROVE  Survival'
  <2>1. "off" \notin RcHeld \cup Cleaning \cup Deleting
    BY DEF RcHeld, Cleaning, Deleting
  <2>2. QED
    BY <1>0, <1>3, <2>1 DEF Die, Ripens, Spares, Kept, disk, hist
<1>4. CASE Reboot
  <2>1. "off" \notin RcHeld \cup Cleaning \cup Deleting
    BY DEF RcHeld, Cleaning, Deleting
  <2>2. QED
    BY <1>0, <1>4, <2>1 DEF Reboot, Die, Ripens, Spares, Kept, hist
<1>5. CASE SweepStart
  BY <1>5 DEF SweepStart, MGoto, TypeOK, wvars, disk, hist, Ripens, Spares,
     Kept, Cleaning, Deleting
<1>6. CASE SweepGhosts
  <2>1. /\ UNCHANGED <<wvars, disk, msvc, hist>>
        /\ mpc[Timer] = "sweep"
        /\ mpc' = [mpc EXCEPT ![Timer] = "rcNext"]
        /\ todo' = [todo EXCEPT ![Timer] = journal]
    BY <1>6 DEF SweepGhosts, MStep, MGoto
  <2>2. \A s \in settled : journal[s] # "deploying"
    BY DEF Kept, TypeOK
  <2>3. QED
    BY <2>1, <2>2 DEF TypeOK, wvars, disk, hist, Ripens, Spares, Kept,
       RcHeld, Cleaning, Deleting
<1>7. CASE (\E s \in Services : GhostEnds(s)) \/ UNCHANGED vars
  BY <1>7 DEF GhostEnds, vars, wvars, mvars, disk, hist, Ripens, Spares, Kept
<1>8. QED
  BY <1>1, <1>2, <1>3, <1>4, <1>5, <1>6, <1>7 DEF Next, ProcEnd, Crash,
     DieLeavingGhosts

\* stale_action, for any number of sessions and services: a deploy that got as
\* far as its registration stays up, with a tree that is its own, through
\* crashes, sweeps, reconciliations and exits, until the user stops, redeploys
\* or deletes it or another's store of the registry overtakes its row; as long
\* as the user keeps off what is being deployed.
THEOREM SurvivalSafety ==
    ASSUME CarefulUser
    PROVE  Spec => []FinishedDeploysSurvive
<1>1. Init => DeletesApart /\ Survival
  BY DEF Init, DeletesApart, Survival, Ripens, Spares, Kept, Idle, Cloned,
     Started, Unfinished, Journaled, RcHeld, Cleaning, Deleting
<1>2. TypeOK /\ LockContract /\ DeletesApart /\ Survival /\ [Next]_vars
         => DeletesApart' /\ Survival'
  BY CarefulUser, ApartStep, SurvivalStep
<1>3. TypeOK /\ Survival => FinishedDeploysSurvive
  BY DEF TypeOK, Survival, Kept, FinishedDeploysSurvive
<1>4. QED
  BY <1>1, <1>2, <1>3, TypeCorrect, LockSafety, PTL DEF Spec

(***************************************************************************)
(* Why nothing is left to run unlisted: a journal entry is cleared only    *)
(* where its service is in the registry, or has neither unit nor env file, *)
(* or was attempted over remains, or has lost its row.                     *)
(***************************************************************************)

\* A service that asks for no clean-up.
Bare(s)   == unit[s] = "absent" /\ s \notin env
Listed(s) == s \in registry \/ Bare(s)

\* Attempted over remains, or robbed of its row.
Excused(s) == s \in overlaid \/ s \in mislaid

\* The invariant proper, and what a registered mark stands for.
Answered(s) ==
    /\ Excused(s) \/ Listed(s) \/ journal[s] # "none"
    /\ journal[s] = "registered" => s \in registry \/ s \in mislaid

\* Where a worker can get to the end of its deploy without another rollback or
\* registration.
EndInSight == {"exitcheck", "attempt", "clone", "fill", "repair", "mark2",
               "settle", "clear"}

\* What a worker has seen to before it clears its entry.
LeavesListed(p) ==
    /\ wpc[p] \in EndInSight => Excused(wsvc[p]) \/ Listed(wsvc[p])
    /\ wpc[p] \in {"rbEnv", "rbTree"} => unit[wsvc[p]] = "absent"
    /\ wpc[p] = "rbTree" => wsvc[p] \notin env
    /\ wpc[p] = "mark2" => wsvc[p] \in registry \/ wsvc[p] \in mislaid

UnitGone == {"rcEnv", "rcTree", "rcUnreg", "rcStore", "rcClear",
             "delEnv", "delTree", "delUnreg", "delStore", "delClear"}
EnvGone  == UnitGone \ {"rcEnv", "delEnv"}

\* What a reconciliation or a delete has seen to before it takes the service
\* off the registry and the journal; the snapshot is still true of what is on
\* it.
LeavesBare(p) ==
    /\ mpc[p] \in UnitGone => unit[msvc[p]] = "absent"
    /\ mpc[p] \in EnvGone => msvc[p] \notin env
    /\ mpc[p] \in RcHeld \ {"sweep"} =>
          \A s \in Services : todo[p][s] \in {"none", journal[s]}
    /\ mpc[p] \in Deleting => journal[msvc[p]] = "none"
    /\ mpc[p] \in Cleaning =>
          /\ journal[msvc[p]] \notin {"none", "registered"}
          /\ todo[p][msvc[p]] = "none"

Accounts ==
    /\ \A s \in Services : Answered(s)
    /\ \A p \in Procs : LeavesListed(p) /\ LeavesBare(p)

\* The worker itself, whose own entry is in the journal.
LEMMA OwnAccounts ==
    ASSUME TypeOK, NEW p \in Sessions, WorkerNext(p), wpc[p] \in Locked,
           wpc[p] \in Journaled => journal[wsvc[p]] # "none",
           LeavesListed(p), Answered(wsvc[p])
    PROVE  /\ LeavesListed(p)'
           /\ Answered(wsvc[p])'
<1> USE DEF TypeOK, LeavesListed, Answered, Listed, Excused, Bare, EndInSight,
        Step, Goto, disk, hist, Idle, Locked, Journaled
<1>0. p \in Procs
  OBVIOUS
<1>1. CASE PassGates(p) \/ RejectAtGate(p) \/ LockDeploy(p) \/ LockBusy(p)
           \/ GiveUpAttempt(p) \/ ResolvePin(p) \/ ReuseClone(p)
  BY <1>0, <1>1 DEF PassGates, RejectAtGate, LockDeploy, LockBusy,
                    GiveUpAttempt, ResolvePin, ReuseClone
<1>2. CASE Begin(p)
  BY <1>0, <1>2 DEF Begin, JournalBegin, Overlay
<1>3. CASE ExitCheck(p)
  BY <1>0, <1>3 DEF ExitCheck, JournalClear
<1>4. CASE FreshClone(p) \/ FillClone(p) \/ FillFails(p) \/ RollbackTree(p)
  BY <1>0, <1>4 DEF FreshClone, FillClone, FillFails, RollbackTree
<1>5. CASE Prepare(p) \/ SkipBuild(p) \/ StartBuild(p) \/ BuildDone(p)
           \/ BuildFails(p) \/ HealthOk(p) \/ RepairRefused(p) \/ Fail(p)
  BY <1>0, <1>5 DEF Prepare, SkipBuild, StartBuild, BuildDone, BuildFails,
                    HealthOk, RepairRefused, Fail
<1>6. CASE Install(p) \/ WriteEnv(p) \/ CreateUnit(p) \/ StartUnit(p)
  BY <1>0, <1>6 DEF Install, WriteEnv, CreateUnit, StartUnit
<1>7. CASE AskRepair(p) \/ RetryRepaired(p)
  BY <1>0, <1>7 DEF AskRepair, Overlay, RetryRepaired
<1>8. CASE MarkRegistering(p) \/ Register(p) \/ MarkRegistered(p)
  BY <1>0, <1>8 DEF MarkRegistering, Register, MarkRegistered, JournalMark
<1>14. CASE StoreRow(p)
  <2>1. /\ wpc[p] = "store" /\ wpc'[p] = "mark2" /\ wsvc'[p] = wsvc[p]
        /\ wsvc[p] \in registry'
    BY <1>0, <1>14 DEF StoreRow, StoreRegistry
  <2>2. QED
    BY ONLY <2>1 DEF LeavesListed, Answered, Listed, EndInSight
<1>9. CASE RollbackUnit(p) \/ RollbackEnv(p)
  BY <1>0, <1>9 DEF RollbackUnit, RollbackEnv, RemoveUnit, RemoveEnv
<1>10. CASE Settle(p)
  BY <1>0, <1>10 DEF Settle
<1>11. CASE ClearEntry(p) \/ LowerFlag(p) \/ DropLock(p)
  BY <1>0, <1>11 DEF ClearEntry, JournalClear, LowerFlag, DropLock
<1>12. CASE Return(p)
  BY <1>0, <1>12 DEF Return
<1>13. QED
  BY <1>1, <1>2, <1>3, <1>4, <1>5, <1>6, <1>7, <1>8, <1>9, <1>10, <1>11,
     <1>12, <1>14 DEF WorkerNext

\* A main thread itself.
LEMMA MainAccounts ==
    ASSUME CarefulUser, TypeOK, NEW p \in Procs, LeavesBare(p),
           \A s \in Services : Answered(s),
           \/ ReconcileNext(p) \/ DeleteNext(p) \/ UserNext(p)
           \/ ExitNext(p) /\ ~ProcEnd(p)
    PROVE  /\ \A s \in Services : Answered(s)'
           /\ LeavesBare(p)'
<1> USE DEF TypeOK, LeavesBare, UnitGone, EnvGone, Answered, Listed, Excused,
        Bare, MStep, MGoto, disk, hist, RcHeld, Cleaning, Deleting
<1>0. AfterReconcile(p) \in {"ready", "out"}
  BY DEF AfterReconcile
<1>1. CASE \/ NothingStale(p) \/ Deferred(p) \/ ReconcileLock(p)
           \/ ReconcileDone(p)
  BY <1>0, <1>1 DEF NothingStale, Deferred, ReconcileLock, ReconcileDone
<1>2. CASE ForgetEntry(p)
  BY <1>2 DEF ForgetEntry, Pending, StaleAction, JournalClear, JStates
<1>3. CASE CleanEntry(p)
  <2>1. PICK s \in Services :
           /\ todo[p][s] # "none"
           /\ StaleAction(todo[p][s], s \in registry)
           /\ msvc' = [msvc EXCEPT ![p] = s]
           /\ todo' = [todo EXCEPT ![p][s] = "none"]
    BY <1>3 DEF CleanEntry, Pending
  <2>2. /\ UNCHANGED <<disk, hist>>
        /\ mpc[p] = "rcNext"
        /\ mpc' = [mpc EXCEPT ![p] = "rcUnit"]
    BY <1>3 DEF CleanEntry
  <2>3. todo[p][s] = journal[s] /\ journal[s] \notin {"none", "registered"}
    BY <2>1, <2>2 DEF StaleAction
  <2>4. todo'[p] = [todo[p] EXCEPT ![s] = "none"]
    BY <2>1
  <2>5. \A x \in Services : Answered(x)'
    BY <2>2
  <2>6. \A x \in Services : todo'[p][x] \in {"none", journal'[x]}
    BY <2>2, <2>4
  <2>7. mpc'[p] = "rcUnit" /\ msvc'[p] = s
    BY <2>1, <2>2
  <2>8. journal'[msvc'[p]] \notin {"none", "registered"}
    BY <2>2, <2>3, <2>7
  <2>9. LeavesBare(p)'
    BY <2>4, <2>6, <2>7, <2>8
  <2>10. QED
    BY <2>5, <2>9
<1>4. CASE CleanUnit(p) \/ CleanEnv(p) \/ CleanTree(p)
  BY <1>4 DEF CleanUnit, CleanEnv, CleanTree, RemoveUnit, RemoveEnv
<1>5. CASE CleanRegistry(p) \/ CleanJournal(p)
  BY <1>5 DEF CleanRegistry, LoadRow, CleanJournal, JournalClear
<1>6. CASE DeleteUnit(p) \/ DeleteEnv(p) \/ DeleteTree(p)
  BY <1>6 DEF DeleteUnit, DeleteEnv, DeleteTree, RemoveUnit, RemoveEnv
<1>7. CASE DeleteRegistry(p) \/ DeleteJournal(p)
  BY <1>7 DEF DeleteRegistry, LoadRow, DeleteJournal, JournalClear
<1>13. CASE CleanRow(p) \/ DeleteRow(p)
  <2>1. /\ msvc[p] \in Services
        /\ <<p, "main">> \in Holders /\ {} \in SUBSET {msvc[p]}
        /\ StoreRegistry(<<p, "main">>, msvc[p], {})
        /\ UNCHANGED <<journal, unit, env, overlaid, msvc, todo>>
        /\ \/ mpc[p] = "rcStore" /\ mpc'[p] = "rcClear"
           \/ mpc[p] = "delStore" /\ mpc'[p] = "delClear"
    BY <1>13 DEF CleanRow, DeleteRow, DropRow
  <2>2. \A t \in Services \ {msvc[p]} :
           \/ t \in Overtaken(<<p, "main">>, msvc[p]) /\ t \in mislaid'
           \/ /\ t \notin Overtaken(<<p, "main">>, msvc[p])
              /\ t \in registry' <=> t \in registry
              /\ t \in mislaid' <=> t \in mislaid
    BY ONLY TypeOK, <2>1, StoreReach
  <2>3. Bare(msvc[p]) /\ journal[msvc[p]] # "registered"
    BY ONLY <2>1, LeavesBare(p)
       DEF LeavesBare, Bare, UnitGone, EnvGone, Cleaning, Deleting
  <2>4. \A s \in Services : Answered(s)'
    BY ONLY <2>1, <2>2, <2>3, \A s \in Services : Answered(s)
       DEF Answered, Listed, Excused, Bare
  <2>5. LeavesBare(p)'
    BY ONLY <2>1, LeavesBare(p)
       DEF LeavesBare, UnitGone, EnvGone, RcHeld, Cleaning, Deleting
  <2>6. QED
    BY <2>4, <2>5
<1>8. CASE Launch(p) \/ Spawn(p) \/ ExitIdle(p) \/ RequestExit(p)
  BY <1>8 DEF Launch, Spawn, ExitIdle, RequestExit, mvars
<1>9. CASE StartDelete(p)
  BY <1>9 DEF StartDelete, MayDelete
<1>10. CASE StopService(p) \/ StartService(p)
  BY <1>10 DEF StopService, StartService
<1>11. CASE QuiesceGhosts(p) \/ QuiesceKill(p) \/ QuiesceDone(p) \/ Join(p)
  BY <1>11 DEF QuiesceGhosts, QuiesceKill, QuiesceDone, Join
<1>12. QED
  BY <1>1, <1>2, <1>3, <1>4, <1>5, <1>6, <1>7, <1>8, <1>9, <1>10, <1>11,
     <1>13 DEF ReconcileNext, DeleteNext, UserNext, ExitNext

\* A main thread brings no unit and no env file back, and takes entries off the
\* journal only, under the lock or at the end of a delete.
LEMMA MainOnlyRemoves ==
    ASSUME TypeOK, NEW p \in Procs,
           \/ ReconcileNext(p) \/ DeleteNext(p) \/ UserNext(p)
           \/ ExitNext(p) /\ ~ProcEnd(p)
    PROVE  /\ \A s \in Services :
                 /\ unit[s] = "absent" => unit'[s] = "absent"
                 /\ s \notin env => s \notin env'
                 /\ \/ journal'[s] = journal[s]
                    \/ journal'[s] = "none"
                 /\ \/ journal'[s] = journal[s]
                    \/ mpc[p] \in RcHeld
                    \/ mpc[p] \in Deleting /\ msvc[p] = s
           /\ \A q \in Procs \ {p} : todo'[q] = todo[q]
<1> USE DEF TypeOK, MStep, MGoto, disk, mvars
<1>1. CASE ReconcileNext(p)
  BY <1>1 DEF ReconcileNext, NothingStale, Deferred, ReconcileLock, ForgetEntry,
     CleanEntry, CleanUnit, CleanEnv, CleanTree, CleanRegistry, CleanRow,
     LoadRow, DropRow, CleanJournal, ReconcileDone, RemoveUnit, RemoveEnv,
     JournalClear, RcHeld, Cleaning
<1>2. CASE DeleteNext(p)
  BY <1>2 DEF DeleteNext, DeleteUnit, DeleteEnv, DeleteTree, DeleteRegistry,
     DeleteRow, LoadRow, DropRow, DeleteJournal, JournalClear, RemoveUnit,
     RemoveEnv, Deleting
<1>3. CASE UserNext(p)
  BY <1>3 DEF UserNext, Launch, Spawn, ExitIdle, RequestExit, StartDelete,
     StopService, StartService
<1>4. CASE QuiesceGhosts(p) \/ QuiesceKill(p) \/ QuiesceDone(p) \/ Join(p)
  BY <1>4 DEF QuiesceGhosts, QuiesceKill, QuiesceDone, Join
<1>5. QED
  BY <1>1, <1>2, <1>3, <1>4 DEF ExitNext

\* No step of any thread, and no death, breaks it.
LEMMA AccountsStep ==
    ASSUME CarefulUser, TypeOK, LockContract, DeletesApart,
           JournalTracksDeploys, Accounts, [Next]_vars
    PROVE  Accounts'
<1> USE DEF Accounts
<1>0. /\ \A x \in EndInSight \cup {"rbEnv", "rbTree", "mark2"} : x \in Journaled
      /\ \A x \in Journaled : x \in Locked /\ x # Idle
      /\ \A x \in UnitGone \cup EnvGone : x \in Cleaning \cup Deleting
      /\ "off" \notin RcHeld \cup Deleting
      /\ Cleaning \subseteq RcHeld \ {"sweep"}
      /\ RcHeld \cap Deleting = {}
  BY DEF EndInSight, UnitGone, EnvGone, Locked, Journaled, Idle, RcHeld,
     Cleaning, Deleting
<1>1. ASSUME NEW p \in Sessions, WorkerNext(p) PROVE Accounts'
  <2>0. p \in Procs /\ WorkerMoves(p) /\ UNCHANGED <<mpc, msvc, todo>>
    BY <1>1, WorkerStep DEF WorkerMoves, mvars
  <2>1. ASSUME NEW q \in Procs PROVE LeavesBare(q)'
    <3>1. CASE mpc[q] \in RcHeld
      <4>1. wpc[p] \notin Locked
        BY <2>0, <3>1 DEF LockContract
      <4>2. \A s \in Services : Untouched(s)
        BY <1>1, <4>1, WorkerReach
      <4>3. mpc[q] \in Cleaning => msvc[q] \in Services
        BY DEF TypeOK
      <4>4. QED
        BY <1>0, <2>0, <3>1, <4>2, <4>3 DEF LeavesBare, Untouched
    <3>2. CASE mpc[q] \in Deleting
      <4>1. msvc[q] \in Services /\ (wpc[p] \in Locked => msvc[q] # wsvc[p])
        BY <2>0, <3>2 DEF TypeOK, DeletesApart, WorkerMoves
      <4>2. Untouched(msvc[q])
        BY <1>1, <4>1, WorkerReach
      <4>3. QED
        BY <1>0, <2>0, <3>2, <4>2 DEF LeavesBare, Untouched
    <3>3. CASE mpc[q] \notin RcHeld \cup Deleting
      BY <1>0, <2>0, <3>3 DEF LeavesBare
    <3>4. QED
      BY <3>1, <3>2, <3>3
  <2>2. CASE wpc[p] \in Locked
    <3>0. wsvc[p] \in Services /\ wpc[p] # Idle
      BY <2>0, <2>2 DEF TypeOK, WorkerMoves
    <3>1. LeavesListed(p)' /\ Answered(wsvc[p])'
      BY <1>1, <2>2, <3>0, OwnAccounts DEF JournalTracksDeploys
    <3>2. wsvc'[p] = wsvc[p]
      <4>1. "unlock" \in Locked /\ Idle \notin {"returning"}
        BY DEF Locked, Idle
      <4>2. Idle \notin Locked
        BY DEF Locked, Journaled, Idle
      <4>3. wpc'[p] # Idle
        BY <2>0, <2>2, <4>1, <4>2, NoOneHolds DEF WorkerMoves, LockContract
      <4>4. QED
        BY <2>0, <4>3 DEF WorkerMoves
    <3>3. ASSUME NEW s \in Services PROVE Answered(s)'
      BY <1>1, <3>1, <3>2, <3>3, WorkerReach
         DEF Answered, Listed, Excused, Bare, Untouched
    <3>4. ASSUME NEW q \in Procs PROVE LeavesListed(q)'
      <4>1. CASE q = p
        BY <3>1, <4>1
      <4>2. CASE q # p
        BY <1>0, <2>0, <2>2, <4>2 DEF WorkerMoves, LockContract, LeavesListed
      <4>3. QED
        BY <4>1, <4>2
    <3>5. QED
      BY <2>1, <3>3, <3>4
  <2>3. CASE wpc[p] \notin Locked
    <3>1. \A s \in Services : Untouched(s)
      BY <1>1, <2>3, WorkerReach
    <3>2. ASSUME NEW s \in Services PROVE Answered(s)'
      BY <3>1 DEF Answered, Listed, Excused, Bare, Untouched
    <3>3. ASSUME NEW q \in Procs PROVE LeavesListed(q)'
      <4>1. CASE q = p
        <5>1. wpc'[p] \notin Journaled
          BY <2>0, <2>3, <4>1 DEF WorkerMoves, Locked, Journaled
        <5>2. QED
          BY <1>0, <4>1, <5>1 DEF LeavesListed
      <4>2. CASE q # p
        <5>1. wpc'[q] = wpc[q] /\ wsvc'[q] = wsvc[q]
          BY <2>0, <4>2 DEF WorkerMoves
        <5>2. wpc[q] \in Journaled => wsvc[q] \in Services
          BY <1>0 DEF TypeOK
        <5>3. QED
          BY <1>0, <3>1, <5>1, <5>2
             DEF LeavesListed, Listed, Excused, Bare, Untouched
      <4>3. QED
        BY <4>1, <4>2
    <3>4. QED
      BY <2>1, <3>2, <3>3
  <2>4. QED
    BY <2>2, <2>3
<1>2. ASSUME NEW p \in Procs,
             \/ ReconcileNext(p) \/ DeleteNext(p) \/ UserNext(p)
             \/ ExitNext(p) /\ ~ProcEnd(p)
      PROVE  Accounts'
  <2>1. /\ \A s \in Services : Answered(s)'
        /\ LeavesBare(p)'
    BY <1>2, MainAccounts
  <2>2. ASSUME NEW q \in Procs PROVE LeavesListed(q)'
    <3>1. CASE wpc'[q] \in Journaled
      <4>1. /\ wsvc'[q] = wsvc[q]
            /\ \/ wpc'[q] = wpc[q]
               \/ wpc[q] = "building" /\ wpc'[q] = "rbUnit"
        BY <1>2, <3>1, MainPlaces
      <4>2. wpc[q] \in Locked
        BY <1>0, <3>1, <4>1 DEF Locked, Journaled
      <4>3. Untouched(wsvc[q])
        BY <1>2, <4>2, LiveOutOfReach
      <4>4. QED
        BY <4>1, <4>3
           DEF LeavesListed, Listed, Excused, Bare, Untouched, EndInSight
    <3>2. CASE wpc'[q] \notin Journaled
      BY <1>0, <3>2 DEF LeavesListed
    <3>3. QED
      BY <3>1, <3>2
  <2>3. ASSUME NEW q \in Procs, q # p PROVE LeavesBare(q)'
    <3>1. mpc'[q] = mpc[q] /\ msvc'[q] = msvc[q] /\ todo'[q] = todo[q]
      BY <1>2, <2>3, MainEffect, MainOnlyRemoves DEF MainEffects
    <3>2. mpc[q] \in RcHeld \cup Deleting => msvc[q] \in Services
                                             \/ mpc[q] \in {"rcNext", "sweep"}
      BY DEF TypeOK, RcHeld
    <3>3. /\ \A s \in Services : unit[s] = "absent" => unit'[s] = "absent"
          /\ \A s \in Services : s \notin env => s \notin env'
          /\ \A s \in Services : journal'[s] = journal[s] \/ journal'[s] = "none"
      BY <1>2, MainOnlyRemoves
    <3>4. ASSUME mpc[q] \in RcHeld, NEW s \in Services
          PROVE  journal'[s] = journal[s]
      <4>1. mpc[p] \notin RcHeld
        BY <2>3, <3>4 DEF LockContract
      <4>2. mpc[p] \in Deleting /\ msvc[p] = s => journal[s] = "none"
        BY DEF LeavesBare
      <4>3. QED
        BY <1>2, <4>1, <4>2, MainOnlyRemoves
    <3>5. QED
      <4>1. CASE mpc[q] \in RcHeld
        BY <1>0, <3>1, <3>2, <3>3, <3>4, <4>1
           DEF LeavesBare, UnitGone, EnvGone, Cleaning
      <4>2. CASE mpc[q] \in Deleting
        BY <1>0, <3>1, <3>2, <3>3, <4>2 DEF LeavesBare, Deleting
      <4>3. CASE mpc[q] \notin RcHeld \cup Deleting
        BY <1>0, <3>1, <4>3 DEF LeavesBare
      <4>4. QED
        BY <4>1, <4>2, <4>3
  <2>4. QED
    BY <2>1, <2>2, <2>3
<1>3. ASSUME NEW dead \in SUBSET Procs, Die(dead), UNCHANGED disk
      PROVE  Accounts'
  BY <1>0, <1>3 DEF Die, LeavesListed, LeavesBare, Answered, Listed, Excused,
     Bare, disk, hist
<1>4. CASE Reboot
  <2>1. /\ \A p \in Procs : wpc'[p] \notin Journaled
        /\ \A p \in Procs : mpc'[p] \notin RcHeld \cup Deleting
    BY <1>0, <1>4 DEF Reboot, Die
  <2>2. /\ UNCHANGED <<journal, registry, env, overlaid, mislaid>>
        /\ \A s \in Services : unit[s] = "absent" => unit'[s] = "absent"
    BY <1>4 DEF Reboot, Die, hist
  <2>3. \A s \in Services : Answered(s)'
    BY <2>2 DEF Answered, Listed, Excused, Bare
  <2>4. QED
    BY <1>0, <2>1, <2>3 DEF LeavesListed, LeavesBare
<1>5. CASE SweepStart
  <2>1. /\ UNCHANGED <<wvars, disk, msvc, todo, hist>>
        /\ mpc' = [mpc EXCEPT ![Timer] = "sweep"]
    BY <1>5 DEF SweepStart, MGoto
  <2>2. QED
    BY <2>1 DEF TypeOK, wvars, disk, hist, LeavesListed, LeavesBare, Answered,
       Listed, Excused, Bare, UnitGone, EnvGone, Cleaning, Deleting
<1>6. CASE SweepGhosts
  <2>1. /\ UNCHANGED <<wvars, disk, msvc, hist>>
        /\ mpc' = [mpc EXCEPT ![Timer] = "rcNext"]
        /\ todo' = [todo EXCEPT ![Timer] = journal]
    BY <1>6 DEF SweepGhosts, MStep, MGoto
  <2>2. QED
    BY <2>1 DEF TypeOK, wvars, disk, hist, LeavesListed, LeavesBare, Answered,
       Listed, Excused, Bare, UnitGone, EnvGone, Cleaning, Deleting
<1>7. CASE (\E s \in Services : GhostEnds(s)) \/ UNCHANGED vars
  BY <1>7 DEF GhostEnds, vars, wvars, mvars, disk, hist, LeavesListed,
     LeavesBare, Answered, Listed, Excused, Bare
<1>8. QED
  BY <1>1, <1>2, <1>3, <1>4, <1>5, <1>6, <1>7 DEF Next, ProcEnd, Crash,
     DieLeavingGhosts

\* rollback_failed and reconcile_stale_inner, for any number of sessions and
\* services: wherever deploys fail or die, no unit and no env file is left that
\* neither the registry nor the journal tells of, unless its service was
\* attempted over remains or lost its row to another's store; as long as the
\* user keeps off what is being deployed.
THEOREM AccountsSafety ==
    ASSUME CarefulUser
    PROVE  Spec => []UnitsAreAccounted
<1>1. Init => DeletesApart /\ JournalTracksDeploys /\ Accounts
  BY DEF Init, NoJournal, DeletesApart, JournalTracksDeploys, Accounts,
     LeavesListed, LeavesBare, Answered, Listed, Excused, Bare, Idle, Journaled,
     EndInSight, UnitGone, EnvGone, RcHeld, Cleaning, Deleting
<1>2. TypeOK /\ LockContract /\ DeletesApart /\ JournalTracksDeploys /\ Accounts
         /\ [Next]_vars => DeletesApart' /\ JournalTracksDeploys' /\ Accounts'
  BY CarefulUser, ApartStep, JournalStep, AccountsStep
<1>3. Accounts => UnitsAreAccounted
  BY DEF Accounts, Answered, Listed, Excused, Bare, UnitsAreAccounted,
     Accounted, InProgress
<1>4. QED
  BY <1>1, <1>2, <1>3, TypeCorrect, LockSafety, PTL DEF Spec
=============================================================================
