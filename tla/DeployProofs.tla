---------------------------- MODULE DeployProofs ----------------------------
(***************************************************************************)
(* Type correctness of the deploy machinery, and the contract of its lock, *)
(* for any number of sessions and services.                                *)
(***************************************************************************)
EXTENDS DeploySystem, TLAPS

USE DEF Procs, Holders

\* What a thread loads and stores of the registry are sets of services.
LEMMA RegistryTypes ==
    ASSUME TypeOK, NEW h \in Holders, NEW s \in Services, NEW own \in SUBSET Services
    PROVE  /\ LoadRegistry(h, s) => rows' \in [Holders -> SUBSET Services]
           /\ Overtaken(h, s) \subseteq Services
           /\ StoreRegistry(h, s, own) =>
                 /\ registry' \subseteq Services /\ mislaid' \subseteq Services
                 /\ rows' \in [Holders -> SUBSET Services]
<1> HIDE DEF Holders
<1>1. /\ rows \in [Holders -> SUBSET Services]
      /\ registry \subseteq Services /\ mislaid \subseteq Services
  BY DEF TypeOK
<1>2. Overtaken(h, s) \subseteq Services
  BY DEF Overtaken
<1>3. QED
  BY ONLY <1>1, <1>2, h \in Holders, own \in SUBSET Services
     DEF LoadRegistry, StoreRegistry

\* A step of a deploying thread keeps every variable in its type: the service it
\* works on is a service, and journal marks are journal states.
LEMMA WorkerTypes ==
    ASSUME TypeOK, NEW p \in Sessions, WorkerNext(p)
    PROVE  TypeOK'
<1> USE TreesTyped DEF TypeOK, Step, Goto, disk, ghost, mvars, hist, Idle, WPoints, Locked, Journaled, BeforeLock
<1>0. p \in Procs
  OBVIOUS
<1>1. CASE PassGates(p)
  BY <1>0, <1>1 DEF PassGates
<1>2. CASE RejectAtGate(p)
  BY <1>0, <1>2 DEF RejectAtGate
<1>3. CASE LockDeploy(p)
  BY <1>0, <1>3 DEF LockDeploy, TryLock
<1>4. CASE LockBusy(p)
  BY <1>0, <1>4 DEF LockBusy
<1>5. CASE Begin(p)
  BY <1>0, <1>5 DEF Begin, JournalBegin, JStates, Overlay
<1>6. CASE ExitCheck(p)
  <2>1. CASE exiting[p]
    <3>1. /\ wpc[p] = "exitcheck"
          /\ journal' = [journal EXCEPT ![wsvc[p]] = "none"]
          /\ wpc' = [wpc EXCEPT ![p] = "flag"]
      BY <1>6, <2>1 DEF ExitCheck, JournalClear
    <3>2. UNCHANGED <<lock, registry, unit, env, tree, ghost, wsvc, repaired,
                      flag, mvars, rows, hist>>
      BY <1>6 DEF ExitCheck
    <3>3. QED
      BY <1>0, <3>1, <3>2 DEF JStates
  <2>2. CASE ~exiting[p]
    BY <1>0, <1>6, <2>2 DEF ExitCheck
  <2>3. QED
    BY <2>1, <2>2
<1>7. CASE GiveUpAttempt(p)
  BY <1>0, <1>7 DEF GiveUpAttempt
<1>8. CASE ResolvePin(p)
  BY <1>0, <1>8 DEF ResolvePin
<1>9. CASE ReuseClone(p)
  BY <1>0, <1>9 DEF ReuseClone
<1>10. CASE FreshClone(p)
  BY <1>0, <1>10 DEF FreshClone
<1>11. CASE FillClone(p)
  BY <1>0, <1>11 DEF FillClone
<1>12. CASE FillFails(p)
  BY <1>0, <1>12 DEF FillFails, WipeTree, AfterWipe
<1>13. CASE Prepare(p)
  BY <1>0, <1>13 DEF Prepare
<1>38. CASE SkipBuild(p)
  BY <1>0, <1>38 DEF SkipBuild
<1>14. CASE StartBuild(p)
  BY <1>0, <1>14 DEF StartBuild
<1>15. CASE BuildDone(p)
  BY <1>0, <1>15 DEF BuildDone
<1>16. CASE BuildFails(p)
  BY <1>0, <1>16 DEF BuildFails
<1>17. CASE Install(p)
  BY <1>0, <1>17 DEF Install
<1>18. CASE WriteEnv(p)
  BY <1>0, <1>18 DEF WriteEnv
<1>19. CASE CreateUnit(p)
  BY <1>0, <1>19 DEF CreateUnit
<1>20. CASE StartUnit(p)
  BY <1>0, <1>20 DEF StartUnit
<1>21. CASE HealthOk(p)
  BY <1>0, <1>21 DEF HealthOk
<1>22. CASE AskRepair(p)
  BY <1>0, <1>22 DEF AskRepair, Overlay
<1>23. CASE RetryRepaired(p)
  BY <1>0, <1>23 DEF RetryRepaired
<1>24. CASE RepairRefused(p)
  BY <1>0, <1>24 DEF RepairRefused
<1>25. CASE MarkRegistering(p)
  BY <1>0, <1>25 DEF MarkRegistering, JournalMark, JStates
<1>26. CASE Register(p) \/ StoreRow(p)
  <2>0. wsvc[p] \in Services /\ <<p, "worker">> \in Holders
    BY <1>0, <1>26 DEF Register, StoreRow
  <2>1. /\ registry' \subseteq Services /\ mislaid' \subseteq Services
        /\ settled' \subseteq Services /\ overlaid' \subseteq Services
        /\ rows' \in [Holders -> SUBSET Services]
    <3>1. CASE Register(p)
      <4>1. LoadRegistry(<<p, "worker">>, wsvc[p])
            /\ UNCHANGED <<registry, mislaid, settled, overlaid>>
        BY <3>1 DEF Register
      <4>2. rows' \in [Holders -> SUBSET Services]
        BY ONLY TypeOK, <2>0, <4>1, RegistryTypes
      <4>3. QED
        BY <4>1, <4>2
    <3>2. CASE StoreRow(p)
      <4>1. /\ StoreRegistry(<<p, "worker">>, wsvc[p], {wsvc[p]})
            /\ settled' \subseteq settled \cup {wsvc[p]}
            /\ overlaid' \subseteq overlaid
            /\ {wsvc[p]} \in SUBSET Services
        BY <2>0, <3>2 DEF StoreRow
      <4>2. /\ registry' \subseteq Services /\ mislaid' \subseteq Services
            /\ rows' \in [Holders -> SUBSET Services]
        BY ONLY TypeOK, <2>0, <4>1, RegistryTypes
      <4>3. QED
        BY <2>0, <4>1, <4>2
    <3>3. QED
      BY <1>26, <3>1, <3>2
  <2>2. /\ wpc' \in [Procs -> WPoints]
        /\ \A q \in Procs : wpc'[q] # Idle => wsvc[q] \in Services
    BY <1>0, <1>26 DEF Register, StoreRow
  <2>3. UNCHANGED <<lock, journal, unit, env, tree, ghost, wsvc, repaired, flag,
                    mvars>>
    BY <1>26 DEF Register, StoreRow
  <2>4. QED
    BY ONLY TypeOK, <2>1, <2>2, <2>3 DEF TypeOK, ghost, mvars
<1>27. CASE MarkRegistered(p)
  BY <1>0, <1>27 DEF MarkRegistered, JournalMark, JStates
<1>28. CASE Fail(p)
  BY <1>0, <1>28 DEF Fail
<1>29. CASE RollbackUnit(p)
  BY <1>0, <1>29 DEF RollbackUnit, RemoveUnit
<1>30. CASE RollbackEnv(p)
  BY <1>0, <1>30 DEF RollbackEnv, RemoveEnv
<1>31. CASE RollbackTree(p)
  BY <1>0, <1>31 DEF RollbackTree, WipeTree, AfterWipe
<1>32. CASE Settle(p)
  <2>1. CASE exiting[p]
    <3>1. /\ wpc' = [wpc EXCEPT ![p] = "unlock"]
          /\ flag' = [flag EXCEPT ![p] = FALSE]
      BY <1>32, <2>1 DEF Settle
    <3>2. UNCHANGED <<lock, disk, ghost, wsvc, repaired, mvars, rows, hist>>
      BY <1>32 DEF Settle
    <3>3. /\ wpc' \in [Procs -> WPoints] /\ flag' \in [Procs -> BOOLEAN]
          /\ \A q \in Procs : wpc'[q] # Idle => wsvc[q] \in Services
      <4>1. /\ wpc \in [Procs -> WPoints] /\ flag \in [Procs -> BOOLEAN]
            /\ \A q \in Procs : wpc[q] # Idle => wsvc[q] \in Services
            /\ wpc[p] # Idle
        BY <1>32 DEF Settle
      <4>2. QED
        BY ONLY <1>0, <3>1, <4>1 DEF WPoints, Locked
    <3>4. QED
      BY ONLY TypeOK, <3>2, <3>3 DEF TypeOK, disk, ghost, mvars, hist
  <2>2. CASE ~exiting[p]
    BY <1>0, <1>32, <2>2 DEF Settle
  <2>3. QED
    BY <2>1, <2>2
<1>33. CASE ClearEntry(p)
  BY <1>0, <1>33 DEF ClearEntry, JournalClear, JStates
<1>34. CASE LowerFlag(p)
  BY <1>0, <1>34 DEF LowerFlag
<1>35. CASE DropLock(p)
  BY <1>0, <1>35 DEF DropLock, Unlock
<1>36. CASE Return(p)
  BY <1>0, <1>36 DEF Return
<1>37. QED
  BY <1>1, <1>2, <1>3, <1>4, <1>5, <1>6, <1>7, <1>8, <1>9, <1>10, <1>11, <1>12, <1>13, <1>14, <1>15, <1>16, <1>17, <1>18, <1>19, <1>20, <1>21, <1>22, <1>23, <1>24, <1>25, <1>26, <1>27, <1>28, <1>29, <1>30, <1>31, <1>32, <1>33, <1>34, <1>35, <1>36, <1>38 DEF WorkerNext

\* Taking a service off the registry keeps every variable in its type.
LEMMA RowTypes ==
    ASSUME TypeOK, NEW p \in Procs,
           NEW from \in Cleaning \cup Deleting, NEW to \in Cleaning \cup Deleting,
           LoadRow(p, from, to) \/ DropRow(p, from, to)
    PROVE  TypeOK'
<1> USE DEF TypeOK, LoadRow, DropRow, MGoto
<1>1. /\ registry' \subseteq Services /\ mislaid' \subseteq Services
      /\ settled' \subseteq Services /\ UNCHANGED overlaid
      /\ rows' \in [Holders -> SUBSET Services]
  <2>1. msvc[p] \in Services /\ <<p, "main">> \in Holders
    OBVIOUS
  <2>2. QED
    BY <2>1, RegistryTypes DEF disk, hist
<1>2. /\ mpc' \in [Procs -> MPoints]
      /\ \A q \in Procs : mpc'[q] \in Cleaning \cup Deleting => msvc[q] \in Services
  <2>1. /\ mpc \in [Procs -> MPoints] /\ mpc' = [mpc EXCEPT ![p] = to]
        /\ mpc[p] \in Cleaning \cup Deleting /\ to \in MPoints
        /\ \A q \in Procs : mpc[q] \in Cleaning \cup Deleting => msvc[q] \in Services
    BY DEF MPoints, RcHeld
  <2>2. QED
    BY ONLY <2>1, p \in Procs
<1>3. UNCHANGED <<lock, journal, unit, env, tree, ghost, wvars, role, exiting,
                  msvc, basis, hadEntry, todo>>
  BY DEF disk
<1>4. QED
  BY ONLY TypeOK, <1>1, <1>2, <1>3 DEF TypeOK, ghost, wvars

\* A step of a reconciliation keeps every variable in its type; what it cleans
\* up comes from its list, so it is a service.
LEMMA ReconcileTypes ==
    ASSUME TypeOK, NEW p \in Procs, ReconcileNext(p)
    PROVE  TypeOK'
<1> USE TreesTyped DEF TypeOK, MStep, MGoto, wvars, ghost, disk, hist, mvars, Idle,
           MPoints, RcHeld, Cleaning, Deleting, JStates
<1>1. CASE NothingStale(p)
  BY <1>1 DEF NothingStale, AfterReconcile
<1>2. CASE Deferred(p)
  BY <1>2 DEF Deferred, AfterReconcile
<1>3. CASE ReconcileLock(p)
  BY <1>3 DEF ReconcileLock, TryLock
<1>4. CASE ForgetEntry(p)
  BY <1>4 DEF ForgetEntry, Pending, JournalClear
<1>5. CASE CleanEntry(p)
  BY <1>5 DEF CleanEntry, Pending
<1>6. CASE CleanUnit(p)
  BY <1>6 DEF CleanUnit, RemoveUnit
<1>7. CASE CleanEnv(p)
  BY <1>7 DEF CleanEnv, RemoveEnv
<1>8. CASE CleanTree(p)
  BY <1>8 DEF CleanTree, WipeTree, AfterWipe
<1>9. CASE CleanRegistry(p) \/ CleanRow(p)
  BY <1>9, RowTypes DEF CleanRegistry, CleanRow
<1>10. CASE CleanJournal(p)
  BY <1>10 DEF CleanJournal, JournalClear
<1>11. CASE ReconcileDone(p)
  BY <1>11 DEF ReconcileDone, Unlock, AfterReconcile
<1>12. QED
  BY <1>1, <1>2, <1>3, <1>4, <1>5, <1>6, <1>7, <1>8, <1>9, <1>10, <1>11 DEF ReconcileNext

\* A step of a delete on the UI thread keeps every variable in its type.
LEMMA DeleteTypes ==
    ASSUME TypeOK, NEW p \in Sessions, DeleteNext(p)
    PROVE  TypeOK'
<1> USE TreesTyped DEF TypeOK, MStep, MGoto, wvars, ghost, disk, hist, mvars, Idle,
           MPoints, RcHeld, Cleaning, Deleting, JStates
<1>1. CASE DeleteUnit(p)
  BY <1>1 DEF DeleteUnit, RemoveUnit
<1>2. CASE DeleteEnv(p)
  BY <1>2 DEF DeleteEnv, RemoveEnv
<1>3. CASE DeleteTree(p)
  BY <1>3 DEF DeleteTree, WipeTree, AfterWipe
<1>4. CASE DeleteRegistry(p) \/ DeleteRow(p)
  BY <1>4, RowTypes DEF DeleteRegistry, DeleteRow
<1>5. CASE DeleteJournal(p)
  BY <1>5 DEF DeleteJournal, JournalClear
<1>6. QED
  BY <1>1, <1>2, <1>3, <1>4, <1>5 DEF DeleteNext

\* The end of any set of processes leaves what it touches in its type.
LEMMA DieTypes ==
    ASSUME TypeOK, NEW dead \in SUBSET Procs, Die(dead)
    PROVE  /\ lock' \in Holders \cup {NoOne}
           /\ role' \in [Procs -> {"none", "panel", "cli", "timer"}]
           /\ wpc' \in [Procs -> WPoints]
           /\ wsvc' \in [Procs -> Services \cup {NoService}]
           /\ \A q \in Procs : wpc'[q] # Idle => wsvc'[q] \in Services
           /\ repaired' \in [Procs -> BOOLEAN]
           /\ flag' \in [Procs -> BOOLEAN]
           /\ exiting' \in [Procs -> BOOLEAN]
           /\ mpc' \in [Procs -> MPoints]
           /\ msvc' \in [Procs -> Services \cup {NoService}]
           /\ \A q \in Procs : mpc'[q] \in Cleaning \cup Deleting => msvc'[q] \in Services
           /\ basis' \in [Procs -> {"startup", "exit", "sweep"}]
           /\ hadEntry' \in [Procs -> BOOLEAN]
           /\ todo' \in [Procs -> [Services -> JStates]]
           /\ rows' \in [Holders -> SUBSET Services]
           /\ UNCHANGED hist
<1> USE DEF TypeOK, Die
<1>1. lock' \in Holders \cup {NoOne}
  BY DEF LockAfterDeath
<1>2. /\ wpc' \in [Procs -> WPoints]
      /\ \A q \in Procs : wpc'[q] # Idle => wsvc'[q] \in Services
  BY DEF WPoints, BeforeLock, Idle
<1>3. mpc' \in [Procs -> MPoints]
  BY DEF MPoints
<1>4. \A q \in Procs : mpc'[q] \in Cleaning \cup Deleting => msvc'[q] \in Services
  BY DEF Cleaning, Deleting
<1>5. todo' \in [Procs -> [Services -> JStates]]
  BY DEF NoJournal, JStates
<1>6. QED
  BY <1>1, <1>2, <1>3, <1>4, <1>5

\* An exit, a crash or a reboot keeps every variable in its type.
LEMMA DeathTypes ==
    ASSUME TypeOK,
           \/ \E p \in Procs : DieLeavingGhosts(p)
           \/ Reboot
    PROVE  TypeOK'
<1>1. CASE \E p \in Procs : DieLeavingGhosts(p)
  <2>1. PICK p \in Procs : DieLeavingGhosts(p)
    BY <1>1
  <2>2. Die({p}) /\ {p} \in SUBSET Procs
    BY <2>1 DEF DieLeavingGhosts
  <2>3. /\ orphans' \subseteq Services /\ build' \subseteq Services
        /\ UNCHANGED disk
    BY <2>1 DEF DieLeavingGhosts, Abandoned, TypeOK
  <2>4. QED
    BY <2>2, <2>3, DieTypes DEF TypeOK, disk, hist
<1>2. CASE Reboot
  <2>1. Die(Procs)
    BY <1>2 DEF Reboot
  <2>2. unit' \in [Services -> {"absent", "stopped", "running"}]
    BY <1>2 DEF Reboot, TypeOK
  <2>3. /\ build' = {} /\ orphans' = {}
        /\ UNCHANGED <<journal, registry, env, tree>>
    BY <1>2 DEF Reboot
  <2>4. QED
    BY <2>1, <2>2, <2>3, DieTypes DEF TypeOK, hist
<1>3. QED
  BY <1>1, <1>2

\* A step of a graceful exit keeps every variable in its type.
LEMMA ExitTypes ==
    ASSUME TypeOK, NEW p \in Procs, ExitNext(p)
    PROVE  TypeOK'
<1> USE TreesTyped DEF TypeOK, MStep, MGoto, wvars, ghost, disk, hist, mvars, Idle,
           MPoints, RcHeld, Cleaning, Deleting, JStates
<1>1. CASE QuiesceGhosts(p)
  <2>1. mpc' = [mpc EXCEPT ![p] = "qkill"] /\ build' = {} /\ orphans' = {}
    BY <1>1 DEF QuiesceGhosts
  <2>2. UNCHANGED <<lock, disk, wvars, role, exiting, basis, msvc, hadEntry,
                    todo, rows, hist>>
    BY <1>1 DEF QuiesceGhosts
  <2>3. mpc' \in [Procs -> MPoints] /\ mpc'[p] \notin Cleaning \cup Deleting
    BY <2>1
  <2>4. \A q \in Procs :
           mpc'[q] \in Cleaning \cup Deleting => msvc[q] \in Services
    BY <2>1, <2>3
  <2>5. QED
    <3>1. build' \subseteq Services /\ orphans' \subseteq Services
      BY <2>1
    <3>2. UNCHANGED <<lock, journal, registry, unit, env, tree, role, wpc, wsvc,
                      repaired, flag, exiting, msvc, basis, hadEntry, todo,
                      rows, settled, overlaid, mislaid>>
      BY <2>2
    <3>3. QED
      BY ONLY TypeOK, <2>3, <2>4, <3>1, <3>2 DEF TypeOK
<1>2. CASE QuiesceKill(p)
  <2>1. CASE wpc[p] = "building"
    <3>1. /\ wpc' = [wpc EXCEPT ![p] = "rbUnit"]
          /\ mpc' = [mpc EXCEPT ![p] = "quiesce"]
          /\ orphans' \subseteq Services /\ build' \subseteq Services
      BY <1>2, <2>1 DEF QuiesceKill
    <3>2. UNCHANGED <<lock, disk, wsvc, repaired, flag, role, exiting, msvc,
                      basis, hadEntry, todo, rows, hist>>
      BY <1>2 DEF QuiesceKill
    <3>3. QED
      BY <2>1, <3>1, <3>2 DEF WPoints, Locked, Journaled
  <2>2. CASE wpc[p] # "building"
    BY <1>2, <2>2 DEF QuiesceKill
  <2>3. QED
    BY <2>1, <2>2
<1>3. CASE QuiesceDone(p)
  BY <1>3 DEF QuiesceDone
<1>4. CASE Join(p)
  BY <1>4 DEF Join
<1>5. CASE ProcEnd(p)
  BY <1>5, DeathTypes DEF ProcEnd
<1>6. QED
  BY <1>1, <1>2, <1>3, <1>4, <1>5 DEF ExitNext

\* What the user does keeps every variable in its type.
LEMMA UserTypes ==
    ASSUME TypeOK, NEW p \in Sessions, UserNext(p)
    PROVE  TypeOK'
<1> USE TreesTyped DEF TypeOK, MStep, MGoto, wvars, ghost, disk, hist, mvars, Idle,
           MPoints, RcHeld, Cleaning, Deleting, JStates
<1>1. CASE Launch(p)
  BY <1>1, RolesTyped DEF Launch
<1>2. CASE Spawn(p)
  BY <1>2 DEF Spawn, WPoints, BeforeLock
<1>3. CASE ExitIdle(p)
  BY <1>3 DEF ExitIdle
<1>4. CASE RequestExit(p)
  BY <1>4 DEF RequestExit
<1>5. CASE StartDelete(p)
  BY <1>5 DEF StartDelete
<1>6. CASE StopService(p) \/ StartService(p)
  <2>1. /\ UNCHANGED <<lock, journal, registry, env, tree, ghost, wvars, role,
                       exiting, basis, msvc, hadEntry, todo, rows, overlaid,
                       mislaid>>
        /\ mpc' = [mpc EXCEPT ![p] = "ready"]
        /\ settled' \subseteq Services
    BY <1>6 DEF StopService, StartService
  <2>2. unit' \in [Services -> {"absent", "stopped", "running"}]
    BY <1>6 DEF StopService, StartService
  <2>3. QED
    BY <2>1, <2>2
<1>7. QED
  BY <1>1, <1>2, <1>3, <1>4, <1>5, <1>6 DEF UserNext

\* The start of the timer's sweep, and the end of a ghost build, keep every
\* variable in its type.
LEMMA SweepTypes ==
    ASSUME TypeOK, SweepStart \/ SweepGhosts \/ \E s \in Services : GhostEnds(s)
    PROVE  TypeOK'
<1> USE DEF TypeOK, MStep, MGoto, wvars, ghost, disk, hist, mvars, MPoints, RcHeld, Cleaning, Deleting
<1>1. CASE SweepStart
  BY <1>1 DEF SweepStart, TryLock
<1>2. CASE SweepGhosts
  BY <1>2 DEF SweepGhosts
<1>3. CASE \E s \in Services : GhostEnds(s)
  BY <1>3 DEF GhostEnds
<1>4. QED
  BY <1>1, <1>2, <1>3

\* The state of the deploy machinery, on disk and in each process, has its type
\* in every reachable state: above all, a thread that deploys, cleans up or
\* deletes always has a service at hand.
THEOREM TypeCorrect == Spec => []TypeOK
<1>1. Init => TypeOK
  BY TreesTyped DEF Init, TypeOK, NoJournal, JStates, WPoints, BeforeLock, MPoints, Idle, Cleaning, Deleting
<1>2. TypeOK /\ [Next]_vars => TypeOK'
  <2>1. SUFFICES ASSUME TypeOK, [Next]_vars PROVE TypeOK'
    OBVIOUS
  <2>2. ASSUME NEW p \in Sessions, UserNext(p) \/ WorkerNext(p) \/ DeleteNext(p) PROVE TypeOK'
    BY <2>1, <2>2, UserTypes, WorkerTypes, DeleteTypes
  <2>3. ASSUME NEW p \in Procs, ReconcileNext(p) \/ ExitNext(p) PROVE TypeOK'
    BY <2>1, <2>3, ReconcileTypes, ExitTypes
  <2>4. CASE SweepStart \/ SweepGhosts \/ \E s \in Services : GhostEnds(s)
    BY <2>1, <2>4, SweepTypes
  <2>5. CASE (\E p \in Procs : Crash(p)) \/ Reboot
    BY <2>1, <2>5, DeathTypes DEF Crash
  <2>6. CASE UNCHANGED vars
    BY <2>1, <2>6 DEF TypeOK, vars, disk, ghost, wvars, mvars, hist
  <2>7. QED
    BY <2>1, <2>2, <2>3, <2>4, <2>5, <2>6 DEF Next
<1>3. QED
  BY <1>1, <1>2, PTL DEF Spec

(***************************************************************************)
(* What deploy.lock guarantees, for any number of sessions and services.   *)
(***************************************************************************)

\* The effect of one worker step on the lock and on the two threads' places.
WorkerMoves(p) ==
    /\ UNCHANGED mvars
    /\ wpc[p] # Idle
    /\ wpc'[p] # Idle => wsvc'[p] = wsvc[p]
    /\ \A q \in Procs \ {p} : wpc'[q] = wpc[q] /\ wsvc'[q] = wsvc[q]
    /\ \/ lock' = lock /\ (wpc[p] \in Locked <=> wpc'[p] \in Locked)
       \/ lock = NoOne /\ lock' = <<p, "worker">> /\ wpc'[p] = "begin"
       \/ lock' = NoOne /\ wpc[p] = "unlock" /\ wpc'[p] = "returning"

\* Every worker step keeps to one of the three: it stays on its side of the
\* lock, takes it when free, or drops its own.
LEMMA WorkerStep ==
    ASSUME TypeOK, NEW p \in Sessions, WorkerNext(p)
    PROVE  WorkerMoves(p)
<1> USE DEF TypeOK, WorkerMoves, Step, Goto, mvars, Idle, Locked, Journaled
<1>0. p \in Procs
  OBVIOUS
<1>1. CASE PassGates(p) \/ RejectAtGate(p) \/ LockBusy(p)
           \/ Begin(p) \/ GiveUpAttempt(p) \/ ResolvePin(p)
  BY <1>0, <1>1 DEF PassGates, RejectAtGate, LockBusy, Begin, GiveUpAttempt,
                    ResolvePin
<1>2. CASE LockDeploy(p)
  BY <1>0, <1>2 DEF LockDeploy, TryLock
<1>3. CASE ExitCheck(p)
  BY <1>0, <1>3 DEF ExitCheck
<1>4. CASE ReuseClone(p) \/ FreshClone(p) \/ FillClone(p) \/ FillFails(p)
           \/ Prepare(p) \/ SkipBuild(p)
  BY <1>0, <1>4 DEF ReuseClone, FreshClone, FillClone, FillFails, Prepare,
                    SkipBuild
<1>5. CASE StartBuild(p) \/ BuildDone(p) \/ BuildFails(p) \/ Install(p)
           \/ WriteEnv(p) \/ CreateUnit(p) \/ StartUnit(p)
  BY <1>0, <1>5 DEF StartBuild, BuildDone, BuildFails, Install, WriteEnv,
                    CreateUnit, StartUnit
<1>6. CASE HealthOk(p) \/ AskRepair(p) \/ RetryRepaired(p) \/ RepairRefused(p)
           \/ MarkRegistering(p) \/ Register(p) \/ StoreRow(p)
           \/ MarkRegistered(p)
  BY <1>0, <1>6 DEF HealthOk, AskRepair, RetryRepaired, RepairRefused,
                    MarkRegistering, Register, StoreRow, MarkRegistered
<1>7. CASE Fail(p) \/ RollbackUnit(p) \/ RollbackEnv(p) \/ RollbackTree(p)
  BY <1>0, <1>7 DEF Fail, RollbackUnit, RollbackEnv, RollbackTree
<1>8. CASE Settle(p)
  BY <1>0, <1>8 DEF Settle
<1>9. CASE ClearEntry(p) \/ LowerFlag(p)
  BY <1>0, <1>9 DEF ClearEntry, LowerFlag
<1>10. CASE DropLock(p)
  BY <1>0, <1>10 DEF DropLock, Unlock
<1>11. CASE Return(p)
  BY <1>0, <1>11 DEF Return
<1>12. QED
  BY <1>1, <1>2, <1>3, <1>4, <1>5, <1>6, <1>7, <1>8, <1>9, <1>10, <1>11
     DEF WorkerNext

\* The same for one step of a main thread, p's end apart.
MainMoves(p) ==
    /\ \A q \in Procs \ {p} : mpc'[q] = mpc[q] /\ wpc'[q] = wpc[q]
    /\ wpc[p] \in Locked <=> wpc'[p] \in Locked
    /\ \/ lock' = lock /\ (mpc[p] \in RcHeld <=> mpc'[p] \in RcHeld)
       \/ lock = NoOne /\ lock' = <<p, "main">> /\ mpc'[p] \in RcHeld
       \/ lock' = NoOne /\ mpc[p] = "rcNext" /\ mpc'[p] \notin RcHeld

\* Every step of a main thread keeps to the same three.
LEMMA MainStep ==
    ASSUME TypeOK, NEW p \in Procs,
           \/ ReconcileNext(p) \/ DeleteNext(p) \/ UserNext(p)
           \/ ExitNext(p) /\ ~ProcEnd(p)
    PROVE  MainMoves(p)
<1> USE DEF TypeOK, MainMoves, MStep, MGoto, wvars, mvars, Idle, RcHeld,
            Cleaning
<1>0. AfterReconcile(p) \in {"ready", "out"}
  BY DEF AfterReconcile
<1>1. CASE NothingStale(p) \/ Deferred(p) \/ ForgetEntry(p) \/ CleanEntry(p)
           \/ CleanUnit(p) \/ CleanEnv(p)
  BY <1>0, <1>1 DEF NothingStale, Deferred, ForgetEntry, CleanEntry, CleanUnit,
              CleanEnv
<1>2. CASE CleanTree(p) \/ CleanRegistry(p) \/ CleanRow(p) \/ CleanJournal(p)
  BY <1>2 DEF CleanTree, CleanRegistry, CleanRow, LoadRow, DropRow, CleanJournal
<1>3. CASE ReconcileLock(p)
  BY <1>3 DEF ReconcileLock, TryLock
<1>4. CASE ReconcileDone(p)
  BY <1>0, <1>4 DEF ReconcileDone, Unlock
<1>5. CASE DeleteNext(p)
  BY <1>5 DEF DeleteNext, DeleteUnit, DeleteEnv, DeleteTree, DeleteRegistry,
              DeleteRow, LoadRow, DropRow, DeleteJournal
<1>6. CASE Launch(p)
  BY <1>6 DEF Launch
<1>7. CASE Spawn(p)
  BY <1>7 DEF Spawn, Locked, Journaled
<1>8. CASE ExitIdle(p) \/ RequestExit(p) \/ StartDelete(p)
           \/ StopService(p) \/ StartService(p)
  BY <1>8 DEF ExitIdle, RequestExit, StartDelete, StopService, StartService
<1>9. CASE QuiesceGhosts(p) \/ QuiesceDone(p) \/ Join(p)
  BY <1>9 DEF QuiesceGhosts, QuiesceDone, Join
<1>10. CASE QuiesceKill(p)
  BY <1>10 DEF QuiesceKill, Locked, Journaled
<1>11. QED
  BY <1>1, <1>2, <1>3, <1>4, <1>5, <1>6, <1>7, <1>8, <1>9, <1>10
     DEF ReconcileNext, UserNext, ExitNext

\* The kernel drops the lock with its holder, and with nobody else.
LEMMA LockThroughDeath ==
    ASSUME TypeOK, LockContract, NEW dead \in SUBSET Procs, Die(dead)
    PROVE  LockContract'
<1> USE DEF TypeOK, LockContract, Die
<1>1. ASSUME NEW p \in Procs
      PROVE  /\ wpc'[p] \in Locked <=> lock' = <<p, "worker">>
             /\ mpc'[p] \in RcHeld <=> lock' = <<p, "main">>
  <2>1. CASE p \in dead
    <3>1. "idle" \notin Locked /\ "off" \notin RcHeld
      BY DEF Locked, Journaled, RcHeld, Cleaning
    <3>2. lock' # <<p, "worker">> /\ lock' # <<p, "main">>
      <4>1. CASE \E q \in dead, t \in {"worker", "main"} : lock = <<q, t>>
        BY <4>1, NoOneHolds DEF LockAfterDeath
      <4>2. CASE ~\E q \in dead, t \in {"worker", "main"} : lock = <<q, t>>
        <5>1. lock' = lock
          BY <4>2 DEF LockAfterDeath
        <5>2. lock # <<p, "worker">> /\ lock # <<p, "main">>
          BY <4>2, <2>1
        <5>3. QED
          BY <5>1, <5>2
      <4>3. QED
        BY <4>1, <4>2
    <3>3. QED
      BY <2>1, <3>1, <3>2 DEF Idle
  <2>2. CASE p \notin dead
    <3>1. wpc'[p] = wpc[p] /\ mpc'[p] = mpc[p]
      BY <2>2
    <3>2. /\ lock' = <<p, "worker">> <=> lock = <<p, "worker">>
          /\ lock' = <<p, "main">> <=> lock = <<p, "main">>
      <4>1. CASE \E q \in dead, t \in {"worker", "main"} : lock = <<q, t>>
        <5>1. PICK q \in dead, t \in {"worker", "main"} : lock = <<q, t>>
          BY <4>1
        <5>2. lock' = NoOne
          BY <4>1 DEF LockAfterDeath
        <5>3. q # p
          BY <2>2, <5>1
        <5>4. QED
          BY <5>1, <5>2, <5>3, NoOneHolds
      <4>2. CASE ~\E q \in dead, t \in {"worker", "main"} : lock = <<q, t>>
        BY <4>2 DEF LockAfterDeath
      <4>3. QED
        BY <4>1, <4>2
    <3>3. QED
      BY <3>1, <3>2
  <2>3. QED
    BY <2>1, <2>2
<1>2. QED
  BY <1>1

\* The timer takes the lock only when free, and keeps it through its sweep.
LEMMA LockThroughSweep ==
    ASSUME TypeOK, LockContract, SweepStart \/ SweepGhosts
    PROVE  LockContract'
<1> USE NoOneHolds DEF TypeOK, LockContract, MStep, MGoto, wvars, RcHeld, Cleaning
<1>1. CASE SweepStart
  BY <1>1 DEF SweepStart, TryLock
<1>2. CASE SweepGhosts
  BY <1>2 DEF SweepGhosts
<1>3. QED
  BY <1>1, <1>2

\* No step breaks the contract of the lock.
LEMMA LockStep ==
    ASSUME TypeOK, LockContract, [Next]_vars
    PROVE  LockContract'
<1> USE NoOneHolds DEF LockContract
<1>1. ASSUME NEW p \in Sessions, WorkerNext(p) PROVE LockContract'
  <2>1. WorkerMoves(p)
    BY <1>1, WorkerStep
  <2>2. "begin" \in Locked /\ "unlock" \in Locked /\ "returning" \notin Locked
    BY DEF Locked, Journaled
  <2>3. UNCHANGED mpc
    BY <2>1 DEF WorkerMoves, mvars
  <2>4. QED
    BY <2>1, <2>2, <2>3 DEF WorkerMoves
<1>2. ASSUME NEW p \in Procs,
             \/ ReconcileNext(p) \/ DeleteNext(p) \/ UserNext(p)
             \/ ExitNext(p) /\ ~ProcEnd(p)
      PROVE  LockContract'
  <2>1. MainMoves(p)
    BY <1>2, MainStep
  <2>2. "rcNext" \in RcHeld
    BY DEF RcHeld
  <2>3. QED
    BY <2>1, <2>2 DEF MainMoves
<1>3. CASE \E p \in Procs : DieLeavingGhosts(p)
  BY <1>3, LockThroughDeath DEF DieLeavingGhosts
<1>4. CASE Reboot
  BY <1>4, LockThroughDeath DEF Reboot
<1>5. CASE SweepStart \/ SweepGhosts
  BY <1>5, LockThroughSweep
<1>6. CASE (\E s \in Services : GhostEnds(s)) \/ UNCHANGED vars
  BY <1>6 DEF GhostEnds, vars, wvars, mvars
<1>7. QED
  BY <1>1, <1>2, <1>3, <1>4, <1>5, <1>6 DEF Next, ProcEnd, Crash

\* lock.rs, for every number of sessions: the lock is held by exactly the
\* thread that is between taking and dropping it.
THEOREM LockSafety == Spec => []LockContract
<1>1. Init => LockContract
  BY NoOneHolds DEF Init, LockContract, Locked, Journaled, RcHeld, Cleaning, Idle
<1>2. TypeOK /\ LockContract /\ [Next]_vars => LockContract'
  BY LockStep
<1>3. QED
  BY <1>1, <1>2, TypeCorrect, PTL DEF Spec

(***************************************************************************)
(* A graceful exit of a panel.  Its thread for the deploy is joined before *)
(* the last reconciliation, so the lock that one meets is somebody else's. *)
(***************************************************************************)
\* A session that reconciles to exit has no deploy left.
ExitJoined ==
    \A p \in Sessions :
        /\ mpc[p] # "off" => role[p] = "panel"
        /\ mpc[p] = "rcLock" /\ basis[p] # "startup" => wpc[p] = Idle

\* What one step of p's main thread, its end apart, does to the way out.
ExitMoves(p) ==
    /\ \A q \in Procs \ {p} :
           mpc'[q] = mpc[q] /\ wpc'[q] = wpc[q] /\ basis'[q] = basis[q] /\ role'[q] = role[q]
    /\ (role'[p] = role[p] /\ mpc[p] # "off") \/ role'[p] \in Roles
    /\ mpc'[p] = "rcLock" => \/ basis'[p] = "startup"
                             \/ wpc'[p] = Idle
                             \/ mpc[p] = "quiesce" /\ role[p] # "panel"
    /\ mpc[p] = "rcLock" /\ mpc'[p] = "out" => basis[p] # "startup"

\* With waits long enough for the worker, the way out leads past its end.
LEMMA ExitStep ==
    ASSUME TypeOK, PatientExit, NEW p \in Procs,
           \/ ReconcileNext(p) \/ DeleteNext(p) \/ UserNext(p)
           \/ ExitNext(p) /\ ~ProcEnd(p)
    PROVE  ExitMoves(p)
<1> USE DEF TypeOK, ExitMoves, MStep, MGoto, wvars, mvars, Idle
<1>1. CASE NothingStale(p) \/ Deferred(p) \/ ForgetEntry(p) \/ CleanEntry(p)
           \/ CleanUnit(p) \/ CleanEnv(p)
  BY <1>1 DEF NothingStale, Deferred, ForgetEntry, CleanEntry, CleanUnit,
              CleanEnv, AfterReconcile
<1>2. CASE CleanTree(p) \/ CleanRegistry(p) \/ CleanRow(p) \/ CleanJournal(p)
  BY <1>2 DEF CleanTree, CleanRegistry, CleanRow, LoadRow, DropRow, CleanJournal
<1>3. CASE ReconcileLock(p)
  BY <1>3 DEF ReconcileLock
<1>4. CASE ReconcileDone(p)
  BY <1>4 DEF ReconcileDone, AfterReconcile
<1>5. CASE DeleteNext(p)
  BY <1>5 DEF DeleteNext, DeleteUnit, DeleteEnv, DeleteTree, DeleteRegistry,
              DeleteRow, LoadRow, DropRow, DeleteJournal
<1>6. CASE Launch(p)
  BY <1>6 DEF Launch
<1>7. CASE Spawn(p)
  BY <1>7 DEF Spawn
<1>8. CASE ExitIdle(p) \/ RequestExit(p) \/ StartDelete(p)
           \/ StopService(p) \/ StartService(p)
  BY <1>8 DEF ExitIdle, RequestExit, StartDelete, StopService, StartService
<1>9. CASE QuiesceGhosts(p) \/ QuiesceDone(p) \/ Join(p)
  BY <1>9 DEF QuiesceGhosts, QuiesceDone, Join
<1>10. CASE QuiesceKill(p)
  BY <1>10 DEF QuiesceKill
<1>11. QED
  BY <1>1, <1>2, <1>3, <1>4, <1>5, <1>6, <1>7, <1>8, <1>9, <1>10
     DEF ReconcileNext, UserNext, ExitNext

\* Without a __deploy, which does not wait for its worker's last steps, whoever
\* is on the way out has been joined.
LEMMA ExitJoinedStep ==
    ASSUME TypeOK, PatientExit, "cli" \notin Roles, ExitJoined, [Next]_vars
    PROVE  ExitJoined'
<1> USE DEF ExitJoined
<1>0. \A r \in Roles : r = "panel"
  BY RolesTyped
<1>1. ASSUME NEW p \in Sessions, WorkerNext(p) PROVE ExitJoined'
  <2>1. WorkerMoves(p)
    BY <1>1, WorkerStep
  <2>2. UNCHANGED <<mpc, basis, role>> /\ wpc[p] # Idle
        /\ \A q \in Procs \ {p} : wpc'[q] = wpc[q]
    BY <2>1 DEF WorkerMoves, mvars
  <2>3. QED
    BY <2>2
<1>2. ASSUME NEW p \in Procs,
             \/ ReconcileNext(p) \/ DeleteNext(p) \/ UserNext(p)
             \/ ExitNext(p) /\ ~ProcEnd(p)
      PROVE  ExitJoined'
  <2>1. ExitMoves(p)
    BY <1>2, ExitStep
  <2>2. QED
    BY <1>0, <2>1 DEF ExitMoves
<1>3. ASSUME NEW dead \in SUBSET Procs, Die(dead) PROVE ExitJoined'
  BY <1>3 DEF Die, Idle
<1>4. CASE SweepStart \/ SweepGhosts
  BY <1>4, TimerApart DEF SweepStart, SweepGhosts, MStep, MGoto, wvars, TypeOK
<1>5. CASE (\E s \in Services : GhostEnds(s)) \/ UNCHANGED vars
  BY <1>5 DEF GhostEnds, vars, wvars, mvars
<1>6. CASE (\E p \in Procs : DieLeavingGhosts(p)) \/ Reboot
  BY <1>3, <1>6 DEF DieLeavingGhosts, Reboot
<1>7. QED
  BY <1>1, <1>2, <1>4, <1>5, <1>6 DEF Next, ProcEnd, Crash

\* The last reconciliation of an exit is never put off because of the deploy
\* that the exit itself ended: exit_with_reconcile joins the worker first, and
\* the lock is free of whoever is idle.  For any number of panels; it takes
\* waits that are long enough, which are bounded in the code.
THEOREM ExitNotDeferred ==
    ASSUME PatientExit, "cli" \notin Roles
    PROVE  Spec => NoSelfDeferral
<1>1. Init => ExitJoined
  BY DEF Init, ExitJoined
<1>2. TypeOK /\ ExitJoined /\ [Next]_vars => ExitJoined'
  BY ExitJoinedStep
<1>3. ASSUME TypeOK, LockContract, ExitJoined, [Next]_vars, NEW p \in Sessions,
             mpc[p] = "rcLock", mpc'[p] = "out"
      PROVE  lock # <<p, "worker">>
  <2>1. basis[p] # "startup"
    <3>1. ASSUME NEW q \in Sessions, WorkerNext(q) PROVE FALSE
      BY <1>3, <3>1, WorkerStep DEF WorkerMoves, mvars
    <3>2. ASSUME NEW q \in Procs,
                 \/ ReconcileNext(q) \/ DeleteNext(q) \/ UserNext(q)
                 \/ ExitNext(q) /\ ~ProcEnd(q)
          PROVE  basis[p] # "startup"
      BY <1>3, <3>2, ExitStep DEF ExitMoves
    <3>3. ASSUME NEW dead \in SUBSET Procs, Die(dead) PROVE FALSE
      BY <1>3, <3>3 DEF Die
    <3>4. CASE SweepStart \/ SweepGhosts
      BY <1>3, <3>4, TimerApart DEF SweepStart, SweepGhosts, MStep, MGoto, TypeOK
    <3>5. CASE (\E s \in Services : GhostEnds(s)) \/ UNCHANGED vars
      BY <1>3, <3>5 DEF GhostEnds, vars, mvars
    <3>6. CASE (\E q \in Procs : DieLeavingGhosts(q)) \/ Reboot
      BY <3>3, <3>6 DEF DieLeavingGhosts, Reboot
    <3>7. QED
      BY <1>3, <3>1, <3>2, <3>4, <3>5, <3>6 DEF Next, ProcEnd, Crash
  <2>2. wpc[p] = Idle
    BY <1>3, <2>1 DEF ExitJoined
  <2>3. Idle \notin Locked
    BY DEF Idle, Locked, Journaled
  <2>4. QED
    BY <1>3, <2>2, <2>3 DEF LockContract
<1>4. TypeOK /\ LockContract /\ ExitJoined /\ [Next]_vars =>
          [\A p \in Sessions :
              (mpc[p] = "rcLock" /\ mpc'[p] = "out" /\ journal # NoJournal) =>
                  lock # <<p, "worker">>]_vars
  BY <1>3
<1>5. QED
  BY <1>1, <1>2, <1>4, TypeCorrect, LockSafety, PTL DEF Spec, NoSelfDeferral
=============================================================================
