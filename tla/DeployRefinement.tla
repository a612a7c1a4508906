-------------------------- MODULE DeployRefinement --------------------------
(***************************************************************************)
(* Why the machinery keeps its one promise: seen through Phase, every step *)
(* of every thread is a step of CleanRemoval, for each service.            *)
(***************************************************************************)
EXTENDS DeploySurvival

USE DEF Procs, Holders

\* Somebody is deleting s.
InDelete(s) == \E q \in Procs : mpc[q] \in Deleting /\ msvc[q] = s

\* The step is one that CleanRemoval allows s.
Follows(s) ==
    \/ Phase(s)' = Phase(s)
    \/ Removal!Begin(s) \/ Removal!Overlay(s) \/ Removal!Cleaned(s)
    \/ Removal!Commit(s) \/ Removal!Finish(s)
    \/ Removal!GiveUp(s) \/ Removal!Leak(s) \/ Removal!Delete(s)
    \/ Removal!Deleted(s) \/ Removal!Purge(s) \/ Removal!Purged(s)
    \/ Removal!Mislay(s) \/ Removal!Restore(s)

\* The step leaves the row of s where it belongs.
Steady(s) == s \notin mislaid /\ s \notin mislaid'

\* The edges of CleanRemoval in terms of Phase.
LEMMA Edges ==
    ASSUME NEW s \in Services, NEW from, NEW to
    PROVE  Removal!Edge(s, from, to) <=> Phase(s) \in from /\ Phase(s)' \in to
BY DEF Removal!Edge

\* A service at rest has no entry, and one that leaks was attempted over
\* remains.
LEMMA RestPhases ==
    ASSUME NEW s \in Services, s \notin mislaid, Answered(s), ~InDelete(s),
           journal[s] = "none"
    PROVE  \/ Phase(s) \in {"gone", "up", "row", "husk"}
           \/ Phase(s) = "leaked" /\ s \in overlaid
BY DEF Phase, InDelete, Answered, Listed, Excused, Bare

\* A step that changes nothing of s, and starts no delete of it, at most ends
\* one: with the process that was at it.
LEMMA QuietStep ==
    ASSUME NEW s \in Services, Steady(s), Answered(s),
           InDelete(s) => journal[s] = "none",
           journal'[s] = journal[s],
           unit'[s] = "absent" <=> unit[s] = "absent",
           s \in registry' <=> s \in registry,
           s \in env' <=> s \in env,
           Alone(s) => tree'[TreeOf[s]] = tree[TreeOf[s]],
           s \in settled' <=> s \in settled,
           s \in overlaid' <=> s \in overlaid,
           InDelete(s)' => InDelete(s)
    PROVE  Follows(s)
<1>0. HasTree(s)' = HasTree(s) /\ HasHusk(s)' = HasHusk(s)
  BY DEF HasTree, HasHusk, Alone
<1>1. CASE InDelete(s)' <=> InDelete(s)
  BY <1>0, <1>1 DEF Follows, Phase, InDelete, Steady
<1>2. CASE InDelete(s) /\ ~InDelete(s)'
  <2>1. journal'[s] = "none"
    BY <1>2
  <2>2. Phase(s) = IF s \in overlaid THEN "purging" ELSE "deleting"
    BY <1>2 DEF Phase, InDelete, Steady
  <2>3. \/ Phase(s)' \in {"gone", "up", "row", "husk"}
        \/ Phase(s)' = "leaked" /\ s \in overlaid
    BY <1>2, <2>1 DEF Phase, InDelete, Answered, Listed, Excused, Bare, Steady
  <2>4. QED
    BY <2>2, <2>3, Edges
       DEF Follows, Removal!Deleted, Removal!Purged, Removal!AtRest
<1>3. QED
  BY <1>1, <1>2

\* Between two conditions of a journaled service every edge is there.
LEMMA JournaledStep ==
    ASSUME NEW s \in Services, Steady(s), ~InDelete(s), ~InDelete(s)',
           journal[s] # "none", journal'[s] # "none"
    PROVE  Follows(s)
<1>1. /\ Phase(s) \in {"committed", "overlaying", "deploying"}
      /\ Phase(s)' \in {"committed", "overlaying", "deploying"}
  BY DEF Phase, InDelete, Steady
<1>2. QED
  BY <1>1, Edges DEF Follows, Removal!Begin, Removal!Overlay, Removal!Cleaned,
     Removal!Commit

\* An entry comes off the journal of a service that nobody deletes: a settled
\* one is up, another is listed or bare, or was attempted over remains.
LEMMA EntryGone ==
    ASSUME NEW s \in Services, Steady(s), ~InDelete(s), ~InDelete(s)',
           journal[s] # "none", journal'[s] = "none",
           unit'[s] = unit[s],
           s \in registry' <=> s \in registry,
           s \in env' <=> s \in env,
           Alone(s) => tree'[TreeOf[s]] = tree[TreeOf[s]],
           Kept(s), s \in settled \/ s \in overlaid \/ Listed(s)
    PROVE  Follows(s)
<1>1. Phase(s) = IF s \in settled THEN "committed"
                 ELSE IF s \in overlaid THEN "overlaying" ELSE "deploying"
  BY DEF Phase, InDelete, Steady
<1>2. CASE s \in settled
  <2>1. Phase(s)' = "up"
    <3>1. HasTree(s)'
      BY <1>2 DEF Kept, HasTree, Alone
    <3>2. QED
      BY <1>2, <3>1 DEF Phase, InDelete, Steady, Kept
  <2>2. QED
    BY <1>1, <1>2, <2>1, Edges DEF Follows, Removal!Finish
<1>3. CASE s \notin settled /\ s \notin overlaid
  <2>1. Phase(s)' \in {"gone", "up", "row", "husk"}
    BY <1>3 DEF Phase, InDelete, Steady, Listed, Bare
  <2>2. QED
    BY <1>1, <1>3, <2>1, Edges DEF Follows, Removal!GiveUp, Removal!AtRest
<1>4. CASE s \notin settled /\ s \in overlaid
  <2>1. Phase(s)' \in {"gone", "up", "row", "husk", "leaked"}
    BY DEF Phase, InDelete, Steady
  <2>2. QED
    BY <1>1, <1>4, <2>1, Edges DEF Follows, Removal!Leak, Removal!AtRest
<1>5. QED
  BY <1>2, <1>3, <1>4

\* The few worker steps at which a deploy enters or leaves the journal.
LEMMA JournalEnds ==
    ASSUME TypeOK, NEW p \in Sessions, WorkerNext(p), wpc[p] \in Locked,
           ~(wpc[p] \in Journaled /\ wpc'[p] \in Journaled)
    PROVE  \/ Begin(p) \/ ExitCheck(p) \/ Settle(p)
           \/ ClearEntry(p) \/ LowerFlag(p) \/ DropLock(p)
<1> USE DEF TypeOK, Step, Goto, Locked, Journaled
<1>0. p \in Procs
  OBVIOUS
<1>1. ~(PassGates(p) \/ RejectAtGate(p) \/ LockDeploy(p) \/ LockBusy(p)
        \/ GiveUpAttempt(p) \/ ResolvePin(p) \/ ReuseClone(p))
  BY <1>0 DEF PassGates, RejectAtGate, LockDeploy, LockBusy, GiveUpAttempt,
              ResolvePin, ReuseClone
<1>2. ~(FreshClone(p) \/ FillClone(p) \/ FillFails(p) \/ RollbackTree(p)
        \/ Prepare(p) \/ SkipBuild(p) \/ StartBuild(p) \/ BuildDone(p))
  BY <1>0 DEF FreshClone, FillClone, FillFails, RollbackTree, Prepare,
              SkipBuild, StartBuild, BuildDone
<1>3. ~(BuildFails(p) \/ HealthOk(p) \/ RepairRefused(p) \/ Fail(p)
        \/ Install(p) \/ WriteEnv(p) \/ CreateUnit(p) \/ StartUnit(p))
  BY <1>0 DEF BuildFails, HealthOk, RepairRefused, Fail, Install, WriteEnv,
              CreateUnit, StartUnit
<1>4. ~(AskRepair(p) \/ RetryRepaired(p) \/ MarkRegistering(p) \/ Register(p)
        \/ StoreRow(p) \/ MarkRegistered(p) \/ RollbackUnit(p) \/ RollbackEnv(p)
        \/ Return(p))
  BY <1>0 DEF AskRepair, RetryRepaired, MarkRegistering, Register,
              StoreRow, MarkRegistered, RollbackUnit, RollbackEnv, Return
<1>5. QED
  BY <1>1, <1>2, <1>3, <1>4 DEF WorkerNext

\* A worker under the lock, for its own service, which nobody deletes.
LEMMA OwnFollows ==
    ASSUME TypeOK, NEW p \in Sessions, WorkerNext(p), wpc[p] \in Locked,
           wpc[p] \in Journaled => journal[wsvc[p]] # "none",
           NEW s \in Services, Steady(s), s = wsvc[p],
           Ripens(p), Kept(s), LeavesListed(p), Answered(s), ~InDelete(s)
    PROVE  Follows(s)
<1>1. p \in Procs /\ ~InDelete(s)'
  BY WorkerStep DEF WorkerMoves, InDelete, mvars
<1>2. CASE wpc[p] \in Journaled /\ wpc'[p] \in Journaled
  BY <1>1, <1>2, WorkerEffect, JournaledStep DEF WorkerEffects
<1>3. CASE Begin(p)
  <2>1. /\ journal'[s] = "deploying" /\ s \notin settled'
        /\ s \in overlaid => s \in overlaid'
    BY <1>1, <1>3 DEF Begin, JournalBegin, Overlay, TypeOK
  <2>2. Phase(s)' = IF s \in overlaid' THEN "overlaying" ELSE "deploying"
    BY <1>1, <2>1 DEF Phase, InDelete, Steady
  <2>3. CASE journal[s] = "none"
    BY <2>1, <2>2, <2>3, RestPhases, Edges
       DEF Steady, Follows, Removal!Begin, Removal!Overlay, Removal!AtRest
  <2>4. CASE journal[s] # "none"
    BY <1>1, <2>1, <2>4, JournaledStep
  <2>5. QED
    BY <2>3, <2>4
<1>4. CASE ExitCheck(p) /\ wpc'[p] \notin Journaled
  <2>1. wpc[p] = "exitcheck" /\ journal' = [journal EXCEPT ![s] = "none"]
    BY <1>1, <1>4 DEF ExitCheck, JournalClear, Goto, TypeOK, Journaled
  <2>2. UNCHANGED <<registry, unit, env, tree>> /\ journal'[s] = "none"
    BY <1>4, <2>1 DEF ExitCheck, TypeOK
  <2>3. journal[s] # "none" /\ (s \in overlaid \/ Listed(s))
    BY <2>1 DEF Journaled, LeavesListed, EndInSight, Excused, Steady
  <2>4. QED
    BY <1>1, <2>2, <2>3, EntryGone
<1>5. CASE ClearEntry(p)
  <2>1. wpc[p] = "clear" /\ journal' = [journal EXCEPT ![s] = "none"]
    BY <1>5 DEF ClearEntry, JournalClear, Step
  <2>2. UNCHANGED <<registry, unit, env, tree>> /\ journal'[s] = "none"
    BY <1>5, <2>1 DEF ClearEntry, TypeOK
  <2>3. journal[s] # "none" /\ (s \in overlaid \/ Listed(s))
    BY <2>1 DEF Journaled, LeavesListed, EndInSight, Excused, Steady
  <2>4. QED
    BY <1>1, <2>2, <2>3, EntryGone
<1>6. CASE Settle(p) \/ LowerFlag(p) \/ DropLock(p)
  <2>1. UNCHANGED <<disk, hist>>
    BY <1>6 DEF Settle, LowerFlag, DropLock
  <2>2. QED
    BY <1>1, <2>1, QuietStep DEF disk, hist
<1>7. QED
  BY <1>2, <1>3, <1>4, <1>5, <1>6, JournalEnds DEF ExitCheck, Locked, Journaled

\* Who deletes what changes with StartDelete and DeleteJournal only.
LEMMA DeletesGoOn ==
    ASSUME TypeOK, NEW p \in Procs, NEW s \in Services,
           \/ ReconcileNext(p) \/ DeleteNext(p) \/ UserNext(p)
           \/ ExitNext(p) /\ ~ProcEnd(p)
    PROVE  /\ StartDelete(p) \/ (InDelete(s)' => InDelete(s))
           /\ DeleteJournal(p) \/ (InDelete(s) => InDelete(s)')
<1> USE DEF TypeOK, InDelete, MStep, MGoto, mvars, Deleting
<1>0. AfterReconcile(p) \in {"ready", "out"}
  BY DEF AfterReconcile
<1>1. CASE CleanRegistry(p) \/ CleanRow(p)
  <2>1. /\ mpc[p] \notin Deleting /\ mpc'[p] \notin Deleting
        /\ \A q \in Procs \ {p} : mpc'[q] = mpc[q]
        /\ UNCHANGED msvc
    BY <1>1 DEF CleanRegistry, CleanRow, LoadRow, DropRow
  <2>2. QED
    BY ONLY <2>1 DEF InDelete
<1>2. CASE DeleteRegistry(p) \/ DeleteRow(p)
  <2>1. /\ mpc[p] \in Deleting /\ mpc'[p] \in Deleting
        /\ \A q \in Procs \ {p} : mpc'[q] = mpc[q]
        /\ UNCHANGED msvc
    BY <1>2 DEF DeleteRegistry, DeleteRow, LoadRow, DropRow
  <2>2. QED
    BY ONLY p \in Procs, <2>1 DEF InDelete
<1>3. CASE NothingStale(p) \/ Deferred(p) \/ ReconcileLock(p)
           \/ ForgetEntry(p) \/ CleanEntry(p) \/ ReconcileDone(p)
  BY <1>0, <1>3 DEF NothingStale, Deferred, ReconcileLock, ForgetEntry,
     CleanEntry, ReconcileDone
<1>4. CASE CleanUnit(p) \/ CleanEnv(p) \/ CleanTree(p) \/ CleanJournal(p)
  BY <1>4 DEF CleanUnit, CleanEnv, CleanTree, CleanJournal
<1>5. CASE DeleteUnit(p) \/ DeleteEnv(p) \/ DeleteTree(p)
  BY <1>5 DEF DeleteUnit, DeleteEnv, DeleteTree
<1>6. CASE DeleteJournal(p)
  BY <1>6 DEF DeleteJournal
<1>7. CASE Launch(p) \/ Spawn(p) \/ ExitIdle(p) \/ RequestExit(p)
           \/ StopService(p) \/ StartService(p)
  <2>1. /\ mpc[p] \notin Deleting /\ mpc'[p] \notin Deleting
        /\ UNCHANGED msvc
    BY <1>7 DEF Launch, Spawn, ExitIdle, RequestExit, StopService, StartService
  <2>2. \A q \in Procs \ {p} : mpc'[q] = mpc[q]
    BY <1>7 DEF Launch, Spawn, ExitIdle, RequestExit, StopService, StartService
  <2>3. QED
    BY ONLY <2>1, <2>2 DEF InDelete
<1>8. CASE StartDelete(p)
  <2>1. /\ mpc[p] \notin Deleting
        /\ \A q \in Procs \ {p} : mpc'[q] = mpc[q] /\ msvc'[q] = msvc[q]
    BY <1>8 DEF StartDelete
  <2>2. QED
    BY ONLY <1>8, <2>1 DEF InDelete
<1>9. CASE QuiesceGhosts(p) \/ QuiesceKill(p) \/ QuiesceDone(p) \/ Join(p)
  BY <1>9 DEF QuiesceGhosts, QuiesceKill, QuiesceDone, Join
<1>10. QED
  BY <1>1, <1>2, <1>3, <1>4, <1>5, <1>6, <1>7, <1>8, <1>9
     DEF ReconcileNext, DeleteNext, UserNext, ExitNext

\* What is being deleted stays in one of two conditions until it no longer is.
LEMMA DeleteStep ==
    ASSUME NEW s \in Services, Steady(s), InDelete(s), InDelete(s)',
           s \in overlaid' => s \in overlaid
    PROVE  Follows(s)
<1>1. /\ Phase(s) = IF s \in overlaid THEN "purging" ELSE "deleting"
      /\ Phase(s)' = IF s \in overlaid' THEN "purging" ELSE "deleting"
  BY DEF Phase, InDelete, Steady
<1>2. QED
  BY <1>1, Edges DEF Follows, Removal!Purged

\* A main thread, for any service: what it cleans up is journaled and not
\* settled, what it deletes is not journaled.
LEMMA MainFollows ==
    ASSUME CarefulUser, TypeOK, NEW p \in Procs, Spares(p),
           \A q \in Procs : LeavesBare(q),
           NEW s \in Services, Steady(s), Answered(s), Kept(s),
           \/ ReconcileNext(p) \/ DeleteNext(p) \/ UserNext(p)
           \/ ExitNext(p) /\ ~ProcEnd(p)
    PROVE  Follows(s)
<1>0. /\ InDelete(s) => journal[s] = "none"
      /\ AfterReconcile(p) \in {"ready", "out"}
  BY DEF InDelete, LeavesBare, AfterReconcile
<1>1. CASE \/ NothingStale(p) \/ Deferred(p) \/ ReconcileLock(p)
           \/ ReconcileDone(p) \/ CleanEntry(p)
           \/ Launch(p) \/ Spawn(p) \/ ExitIdle(p) \/ RequestExit(p)
           \/ (ExitNext(p) /\ ~ProcEnd(p))
  <2>1. UNCHANGED <<disk, hist>>
    BY <1>1 DEF NothingStale, Deferred, ReconcileLock, ReconcileDone,
       CleanEntry, Launch, Spawn, ExitIdle, RequestExit, ExitNext,
       QuiesceGhosts, QuiesceKill, QuiesceDone, Join
  <2>2. ~StartDelete(p)
    BY <1>0, <1>1
       DEF TypeOK, NothingStale, Deferred, ReconcileLock, ReconcileDone,
       CleanEntry, Launch, Spawn, ExitIdle, RequestExit, ExitNext,
       QuiesceGhosts, QuiesceKill, QuiesceDone, Join, StartDelete, MStep, MGoto,
       mvars
  <2>3. InDelete(s)' => InDelete(s)
    BY <2>2, DeletesGoOn
  <2>4. QED
    BY <1>0, <2>1, <2>3, QuietStep DEF disk, hist
<1>2. CASE ForgetEntry(p) \/ CleanUnit(p) \/ CleanEnv(p) \/ CleanTree(p)
           \/ CleanRegistry(p) \/ CleanRow(p) \/ CleanJournal(p)
  <2>0. InDelete(s)' <=> InDelete(s)
    <3>1. ~StartDelete(p) /\ ~DeleteJournal(p)
      BY <1>2 DEF ForgetEntry, CleanUnit, CleanEnv, CleanTree, CleanRegistry,
         CleanRow, LoadRow, DropRow, CleanJournal, StartDelete, DeleteJournal,
         MStep
    <3>2. QED
      BY <3>1, DeletesGoOn
  <2>1. CASE ForgetEntry(p)
    <3>1. PICK x \in Pending(p) :
             /\ ~StaleAction(todo[p][x], x \in registry)
             /\ journal' = [journal EXCEPT ![x] = "none"]
      BY <2>1 DEF ForgetEntry, JournalClear
    <3>2. UNCHANGED <<registry, unit, env, tree, settled, overlaid>>
      BY <2>1 DEF ForgetEntry, hist
    <3>3. mpc[p] = "rcNext" /\ x \in Services /\ todo[p][x] # "none"
      BY <2>1 DEF ForgetEntry, MStep, Pending
    <3>4. todo[p][x] = journal[x]
      BY <3>3 DEF LeavesBare, RcHeld
    <3>5. CASE x = s
      <4>1. s \in registry /\ journal[s] # "none"
        BY <3>1, <3>3, <3>4, <3>5 DEF StaleAction, Answered, Steady
      <4>2. Listed(s) /\ ~InDelete(s) /\ ~InDelete(s)'
        BY <1>0, <2>0, <4>1 DEF Listed
      <4>3. journal'[s] = "none"
        BY <3>1, <3>5 DEF TypeOK
      <4>4. QED
        BY <3>2, <4>1, <4>2, <4>3, EntryGone
    <3>6. CASE x # s
      <4>1. journal'[s] = journal[s]
        BY <3>1, <3>6 DEF TypeOK
      <4>2. QED
        BY <1>0, <2>0, <3>2, <4>1, QuietStep
    <3>7. QED
      BY <3>5, <3>6
  <2>2. CASE CleanUnit(p) \/ CleanEnv(p) \/ CleanTree(p) \/ CleanRegistry(p)
             \/ CleanRow(p)
    <3>1. mpc[p] \in Cleaning /\ msvc[p] \in Services /\ UNCHANGED journal
      BY <2>2 DEF TypeOK, CleanUnit, CleanEnv, CleanTree, CleanRegistry,
         CleanRow, LoadRow, DropRow, disk, MStep, Cleaning
    <3>2. CASE msvc[p] = s
      <4>1. journal[s] # "none"
        BY <3>1, <3>2 DEF LeavesBare
      <4>2. ~InDelete(s) /\ ~InDelete(s)' /\ journal'[s] # "none"
        BY <1>0, <2>0, <3>1, <4>1
      <4>3. QED
        BY <4>1, <4>2, JournaledStep
    <3>3. CASE msvc[p] # s
      <4>1. ASSUME CleanUnit(p) \/ CleanEnv(p) \/ CleanTree(p)
            PROVE  Untouched(s)
        BY <3>1, <3>3, <4>1, TreesTyped
           DEF Alone, TypeOK, Untouched, CleanUnit, CleanEnv, CleanTree,
               RemoveUnit, RemoveEnv, WipeTree, hist
      <4>2. ASSUME CleanRegistry(p) \/ CleanRow(p) PROVE Untouched(s)
        BY <3>3, <4>2, RowReach DEF CleanRegistry, CleanRow, Cleaning
      <4>3. Untouched(s)
        BY <2>2, <4>1, <4>2
      <4>4. QED
        BY <1>0, <2>0, <4>3, QuietStep DEF Untouched, Steady
    <3>4. QED
      BY <3>2, <3>3
  <2>3. CASE CleanJournal(p)
    <3>1. mpc[p] = "rcClear" /\ msvc[p] \in Services
      BY <2>3 DEF TypeOK, CleanJournal, MStep, Cleaning
    <3>2. /\ UNCHANGED <<registry, unit, env, tree, settled, overlaid>>
          /\ journal' = [journal EXCEPT ![msvc[p]] = "none"]
      BY <2>3 DEF CleanJournal, JournalClear, hist
    <3>3. CASE msvc[p] = s
      <4>1. journal[s] # "none" /\ Bare(s)
        BY <3>1, <3>3 DEF LeavesBare, Bare, Cleaning, UnitGone, EnvGone
      <4>2. ~InDelete(s) /\ ~InDelete(s)' /\ journal'[s] = "none"
        BY <1>0, <2>0, <3>2, <3>3, <4>1 DEF TypeOK
      <4>3. QED
        BY <3>2, <4>1, <4>2, EntryGone DEF Listed
    <3>4. CASE msvc[p] # s
      <4>1. journal'[s] = journal[s]
        BY <3>1, <3>2, <3>4 DEF TypeOK
      <4>2. QED
        BY <1>0, <2>0, <3>2, <4>1, QuietStep
    <3>5. QED
      BY <3>3, <3>4
  <2>4. QED
    BY <1>2, <2>1, <2>2, <2>3
<1>3. CASE StartDelete(p)
  <2>1. PICK x \in Services :
           /\ MayDelete(x)
           /\ msvc' = [msvc EXCEPT ![p] = x]
           /\ settled' = settled \ {x}
    BY <1>3 DEF StartDelete
  <2>2. /\ UNCHANGED <<journal, registry, unit, env, tree, overlaid>>
        /\ mpc[p] = "ready"
        /\ mpc' = [mpc EXCEPT ![p] = "delUnit"]
    BY <1>3 DEF StartDelete, MStep, MGoto, disk
  <2>3. CASE x = s
    <3>1. journal[s] = "none"
      BY <2>1, <2>3 DEF MayDelete
    <3>2. InDelete(s)'
      BY <2>1, <2>2, <2>3 DEF TypeOK, InDelete, Deleting
    <3>3. CASE InDelete(s)
      BY <2>2, <3>2, <3>3, DeleteStep
    <3>4. CASE ~InDelete(s)
      <4>1. Phase(s)' = IF s \in overlaid THEN "purging" ELSE "deleting"
        BY <2>2, <3>2 DEF Phase, InDelete, Steady
      <4>2. QED
        BY <3>1, <3>4, <4>1, RestPhases, Edges
           DEF Steady, Follows, Removal!Delete, Removal!Purge, Removal!AtRest
    <3>5. QED
      BY <3>3, <3>4
  <2>4. CASE x # s
    <3>1. InDelete(s)' => InDelete(s)
      BY <2>1, <2>2, <2>4 DEF TypeOK, InDelete
    <3>2. QED
      BY <1>0, <2>1, <2>2, <2>4, <3>1, QuietStep
  <2>5. QED
    BY <2>3, <2>4
<1>4. CASE DeleteUnit(p) \/ DeleteEnv(p) \/ DeleteTree(p) \/ DeleteRegistry(p)
           \/ DeleteRow(p)
  <2>1. /\ mpc[p] \in Deleting /\ msvc[p] \in Services
        /\ ~StartDelete(p) /\ ~DeleteJournal(p) /\ DeleteNext(p)
    BY <1>4 DEF TypeOK, DeleteUnit, DeleteEnv, DeleteTree, DeleteRegistry,
       DeleteRow, LoadRow, DropRow, DeleteJournal, StartDelete, DeleteNext,
       MStep, Deleting
  <2>2. InDelete(s)' <=> InDelete(s)
    BY <2>1, DeletesGoOn
  <2>3. CASE msvc[p] = s
    <3>1. InDelete(s) /\ InDelete(s)'
      BY <2>1, <2>2, <2>3 DEF InDelete
    <3>2. overlaid' \subseteq overlaid
      BY <1>4 DEF DeleteUnit, DeleteEnv, DeleteTree, DeleteRegistry, DeleteRow,
         LoadRow, DropRow, hist
    <3>3. QED
      BY <3>1, <3>2, DeleteStep
  <2>4. CASE msvc[p] # s
    <3>1. ASSUME DeleteUnit(p) \/ DeleteEnv(p) \/ DeleteTree(p)
          PROVE  Untouched(s)
      BY <2>1, <2>4, <3>1, TreesTyped
         DEF Alone, TypeOK, Untouched, DeleteUnit, DeleteEnv, DeleteTree,
             RemoveUnit, RemoveEnv, WipeTree, hist
    <3>2. ASSUME DeleteRegistry(p) \/ DeleteRow(p) PROVE Untouched(s)
      BY <2>4, <3>2, RowReach DEF DeleteRegistry, DeleteRow, Deleting
    <3>3. Untouched(s)
      BY <1>4, <3>1, <3>2
    <3>4. QED
      BY <1>0, <2>2, <3>3, QuietStep DEF Untouched, Steady
  <2>5. QED
    BY <2>3, <2>4
<1>5. CASE DeleteJournal(p)
  <2>1. mpc[p] = "delClear" /\ msvc[p] \in Services
    BY <1>5 DEF TypeOK, DeleteJournal, MStep, Deleting
  <2>2. /\ UNCHANGED <<registry, unit, env, tree, settled, overlaid>>
        /\ journal' = [journal EXCEPT ![msvc[p]] = "none"]
    BY <1>5 DEF DeleteJournal, JournalClear, hist
  <2>3. journal[msvc[p]] = "none"
    BY <2>1 DEF LeavesBare, Deleting
  <2>4. journal'[s] = journal[s]
    BY <2>1, <2>2, <2>3 DEF TypeOK
  <2>5. ~StartDelete(p)
    BY <2>1 DEF StartDelete, MStep
  <2>6. InDelete(s)' => InDelete(s)
    BY <2>5, DeletesGoOn
  <2>7. QED
    BY <1>0, <2>2, <2>4, <2>6, QuietStep
<1>6. CASE StopService(p) \/ StartService(p)
  <2>1. /\ UNCHANGED <<journal, registry, env, tree, overlaid>>
        /\ settled' \subseteq settled
        /\ \A x \in Services : unit'[x] = "absent" <=> unit[x] = "absent"
        /\ ~StartDelete(p) /\ ~DeleteJournal(p)
    BY <1>6 DEF TypeOK, StopService, StartService, StartDelete, DeleteJournal,
       MStep, MGoto, hist
  <2>2. InDelete(s)' <=> InDelete(s)
    BY <1>6, <2>1, DeletesGoOn
  <2>3. CASE InDelete(s)
    BY <2>1, <2>2, <2>3, DeleteStep
  <2>4. CASE ~InDelete(s) /\ journal[s] # "none"
    BY <2>1, <2>2, <2>4, JournaledStep
  <2>5. CASE ~InDelete(s) /\ journal[s] = "none"
    BY <2>1, <2>2, <2>5
       DEF Follows, Phase, InDelete, Steady, HasTree, HasHusk, Alone
  <2>6. QED
    BY <2>3, <2>4, <2>5
<1>7. QED
  BY <1>1, <1>2, <1>3, <1>4, <1>5, <1>6
     DEF ReconcileNext, DeleteNext, UserNext

\* Where its row stays where it belongs, every step is one of CleanRemoval's.
LEMMA SteadyFollows ==
    ASSUME CarefulUser, TypeOK, LockContract, DeletesApart,
           JournalTracksDeploys, Survival, Accounts, [Next]_vars,
           NEW s \in Services, Steady(s)
    PROVE  Follows(s)
<1>0. /\ InDelete(s) => journal[s] = "none"
      /\ Answered(s) /\ Kept(s)
  BY DEF InDelete, Accounts, LeavesBare, Survival
<1>1. ASSUME NEW p \in Sessions, WorkerNext(p) PROVE Follows(s)
  <2>0. p \in Procs /\ WorkerMoves(p)
    BY <1>1, WorkerStep
  <2>1. InDelete(s)' <=> InDelete(s)
    BY <2>0 DEF WorkerMoves, mvars, InDelete
  <2>2. CASE s = wsvc[p] /\ wpc[p] \in Locked
    <3>1. ~InDelete(s)
      BY <2>0, <2>2 DEF DeletesApart, InDelete, WorkerMoves
    <3>2. /\ wpc[p] \in Journaled => journal[wsvc[p]] # "none"
          /\ Ripens(p) /\ LeavesListed(p)
      BY <2>0 DEF JournalTracksDeploys, Survival, Accounts
    <3>3. QED
      BY <1>0, <1>1, <2>2, <3>1, <3>2, OwnFollows
  <2>3. CASE ~(s = wsvc[p] /\ wpc[p] \in Locked)
    <3>1. Untouched(s)
      BY <1>1, <2>3, WorkerReach
    <3>2. QED
      BY <1>0, <2>1, <3>1, QuietStep DEF Untouched, Steady
  <2>4. QED
    BY <2>2, <2>3
<1>2. ASSUME NEW p \in Procs,
             \/ ReconcileNext(p) \/ DeleteNext(p) \/ UserNext(p)
             \/ ExitNext(p) /\ ~ProcEnd(p)
      PROVE  Follows(s)
  <2>1. Spares(p) /\ \A q \in Procs : LeavesBare(q)
    BY DEF Survival, Accounts
  <2>2. QED
    BY <1>0, <1>2, <2>1, MainFollows
<1>3. CASE \/ \E p \in Procs : DieLeavingGhosts(p)
           \/ SweepStart \/ SweepGhosts
           \/ \E g \in Services : GhostEnds(g)
           \/ UNCHANGED vars
  <2>1. Untouched(s)
    BY <1>3, OthersReach
  <2>2. InDelete(s)' => InDelete(s)
    <3> USE DEF InDelete, Deleting
    <3>1. CASE \E p \in Procs : DieLeavingGhosts(p)
      BY <3>1 DEF DieLeavingGhosts, Die
    <3>2. CASE SweepStart \/ SweepGhosts
      BY <3>2 DEF TypeOK, SweepStart, SweepGhosts, MStep, MGoto
    <3>3. CASE (\E g \in Services : GhostEnds(g)) \/ UNCHANGED vars
      BY <3>3 DEF GhostEnds, vars, mvars
    <3>4. QED
      BY <1>3, <3>1, <3>2, <3>3
  <2>3. QED
    BY <1>0, <2>1, <2>2, QuietStep DEF Untouched, Steady
<1>4. CASE Reboot
  <2>1. /\ UNCHANGED <<journal, registry, env, tree, settled, overlaid>>
        /\ unit'[s] = "absent" <=> unit[s] = "absent"
        /\ ~InDelete(s)'
    BY <1>4 DEF Reboot, Die, hist, InDelete, Deleting
  <2>2. QED
    BY <1>0, <2>1, QuietStep
<1>5. QED
  BY <1>1, <1>2, <1>3, <1>4 DEF Next, ProcEnd, Crash

\* p is about to store the registry, with or without the row of x.
Storing(p, x) ==
    \/ p \in Sessions /\ StoreRow(p) /\ x = wsvc[p]
    \/ (CleanRow(p) \/ DeleteRow(p)) /\ x = msvc[p]

\* Rows are mislaid, and put right, by a store of the registry only.
LEMMA RowsMove ==
    ASSUME TypeOK, [Next]_vars, mislaid' # mislaid
    PROVE  \E p \in Procs, x \in Services :
              /\ Storing(p, x)
              /\ \E t \in SUBSET Services : mislaid' = (mislaid \cup t) \ {x}
<1>1. ASSUME NEW p \in Sessions, WorkerNext(p), ~StoreRow(p) PROVE FALSE
  BY <1>1 DEF hist, WorkerNext, PassGates, RejectAtGate, LockDeploy, LockBusy,
     Begin, ExitCheck, GiveUpAttempt, ResolvePin, ReuseClone, FreshClone,
     FillClone, FillFails, Prepare, SkipBuild, StartBuild, BuildDone,
     BuildFails, Install, WriteEnv, CreateUnit, StartUnit, HealthOk, AskRepair,
     RetryRepaired, RepairRefused, MarkRegistering, Register, MarkRegistered,
     Fail, RollbackUnit, RollbackEnv, RollbackTree, Settle, ClearEntry,
     LowerFlag, DropLock, Return
<1>2. ASSUME NEW p \in Procs, ReconcileNext(p) \/ DeleteNext(p),
             ~CleanRow(p), ~DeleteRow(p)
      PROVE  FALSE
  BY <1>2 DEF hist, ReconcileNext, NothingStale, Deferred, ReconcileLock,
     ForgetEntry, CleanEntry, CleanUnit, CleanEnv, CleanTree, CleanRegistry,
     LoadRow, CleanJournal, ReconcileDone, DeleteNext, DeleteUnit, DeleteEnv,
     DeleteTree, DeleteRegistry, DeleteJournal
<1>3. ASSUME NEW p \in Procs, UserNext(p) \/ (ExitNext(p) /\ ~ProcEnd(p))
      PROVE  FALSE
  BY <1>3 DEF hist, UserNext, Launch, Spawn, ExitIdle, RequestExit, StartDelete,
     StopService, StartService, ExitNext, QuiesceGhosts, QuiesceKill,
     QuiesceDone, Join
<1>4. ~\E dead \in SUBSET Procs : Die(dead)
  BY DEF Die, hist
<1>5. ~(SweepStart \/ SweepGhosts) /\ ~\E s \in Services : GhostEnds(s)
  BY DEF SweepStart, SweepGhosts, GhostEnds, hist
<1>6. ~UNCHANGED vars
  BY DEF vars, hist
<1>7. \/ \E p \in Sessions : StoreRow(p)
      \/ \E p \in Procs : CleanRow(p) \/ DeleteRow(p)
  BY <1>1, <1>2, <1>3, <1>4, <1>5, <1>6
     DEF Next, ProcEnd, Crash, DieLeavingGhosts, Reboot
<1>8. CASE \E p \in Sessions : StoreRow(p)
  <2>1. PICK p \in Sessions : StoreRow(p)
    BY <1>8
  <2>2. /\ p \in Procs /\ wsvc[p] \in Services
        /\ StoreRegistry(<<p, "worker">>, wsvc[p], {wsvc[p]})
    BY <2>1 DEF StoreRow, TypeOK, Idle
  <2>3. QED
    BY <2>1, <2>2 DEF StoreRegistry, Overtaken, Storing
<1>9. CASE \E p \in Procs : CleanRow(p) \/ DeleteRow(p)
  <2>1. PICK p \in Procs : CleanRow(p) \/ DeleteRow(p)
    BY <1>9
  <2>2. /\ msvc[p] \in Services
        /\ StoreRegistry(<<p, "main">>, msvc[p], {})
    BY <2>1 DEF CleanRow, DeleteRow, DropRow, TypeOK, Cleaning, Deleting
  <2>3. QED
    BY <2>1, <2>2 DEF StoreRegistry, Overtaken, Storing
<1>10. QED
  BY <1>7, <1>8, <1>9

\* Whoever stores a row is at work on its service, before and after: its entry
\* is in the journal, or a delete of it is under way.
LEMMA StorerWorks ==
    ASSUME CarefulUser, TypeOK, JournalTracksDeploys, Accounts,
           NEW p \in Procs, NEW x \in Services, Storing(p, x)
    PROVE  /\ journal[x] # "none" \/ InDelete(x)
           /\ journal'[x] # "none" \/ InDelete(x)'
<1>1. CASE p \in Sessions /\ StoreRow(p) /\ x = wsvc[p]
  <2>1. wpc[p] = "store" /\ UNCHANGED journal
    BY <1>1 DEF StoreRow
  <2>2. journal[x] # "none"
    BY <1>1, <2>1 DEF JournalTracksDeploys, Journaled
  <2>3. QED
    BY <2>1, <2>2
<1>2. CASE CleanRow(p) /\ x = msvc[p]
  <2>1. mpc[p] = "rcStore" /\ UNCHANGED journal
    BY <1>2 DEF CleanRow, DropRow
  <2>2. journal[x] # "none"
    BY <1>2, <2>1 DEF Accounts, LeavesBare, Cleaning
  <2>3. QED
    BY <2>1, <2>2
<1>3. CASE DeleteRow(p) /\ x = msvc[p]
  <2>1. /\ mpc[p] = "delStore" /\ mpc'[p] = "delClear" /\ UNCHANGED msvc
    BY <1>3 DEF DeleteRow, DropRow, MGoto, TypeOK
  <2>2. QED
    BY <1>3, <2>1 DEF InDelete, Deleting
<1>4. QED
  BY <1>1, <1>2, <1>3 DEF Storing

\* Seen through Phase, every step is one of CleanRemoval's for each service.
LEMMA EveryoneFollows ==
    ASSUME CarefulUser, TypeOK, LockContract, DeletesApart,
           JournalTracksDeploys, Survival, Accounts, [Next]_vars,
           NEW s \in Services
    PROVE  Follows(s)
<1>1. CASE Steady(s)
  BY <1>1, SteadyFollows
<1>2. CASE s \in mislaid /\ s \in mislaid'
  BY <1>2 DEF Follows, Phase
<1>3. CASE (s \in mislaid) # (s \in mislaid')
  <2>1. PICK p \in Procs, x \in Services :
           /\ Storing(p, x)
           /\ \E t \in SUBSET Services : mislaid' = (mislaid \cup t) \ {x}
    BY <1>3, RowsMove
  <2>2. /\ journal[x] # "none" \/ InDelete(x)
        /\ journal'[x] # "none" \/ InDelete(x)'
    BY <2>1, StorerWorks
  <2>3. CASE s \in mislaid /\ s \notin mislaid'
    <3>1. x = s
      BY <2>1, <2>3
    <3>2. Phase(s) = "mislaid"
      BY <2>3 DEF Phase
    <3>3. Phase(s)' \in Removal!Worked
      BY <2>2, <2>3, <3>1 DEF Phase, InDelete, Removal!Worked
    <3>4. QED
      BY <3>2, <3>3, Edges DEF Follows, Removal!Restore
  <2>4. CASE s \notin mislaid /\ s \in mislaid'
    <3>1. x # s
      BY <2>1, <2>4
    <3>2. Phase(x) \in Removal!Worked \cup {"mislaid"}
      BY <2>2 DEF Phase, InDelete, Removal!Worked
    <3>3. Phase(s) \in Removal!AtRest \cup Removal!Worked \cup {"leaked"}
      BY <2>4 DEF Phase, Removal!AtRest, Removal!Worked
    <3>4. Phase(s)' = "mislaid"
      BY <2>4 DEF Phase
    <3>5. Removal!Mislay(s)
      BY <3>1, <3>2, <3>3, <3>4, Edges DEF Removal!Mislay
    <3>6. QED
      BY <3>5 DEF Follows
  <2>5. QED
    BY <1>3, <2>3, <2>4
<1>4. QED
  BY <1>1, <1>2, <1>3 DEF Steady

\* The promise of CleanRemoval, for any number of sessions and services: each
\* service goes through it, whatever deploys, reconciliations, sweeps, deletes,
\* deaths and reboots do at the same time, and whichever rows of the registry
\* they lose to each other; as long as the user keeps off what is being
\* deployed.
THEOREM RefinementHolds ==
    ASSUME CarefulUser
    PROVE  Spec => RefinesCleanRemoval
<1>1. Init => /\ DeletesApart /\ JournalTracksDeploys
              /\ Survival /\ Accounts
  BY DEF Init, NoJournal, DeletesApart, JournalTracksDeploys, Survival, Ripens,
     Spares, Kept, Accounts, LeavesListed, LeavesBare, Answered, Listed,
     Excused, Bare, Idle, Journaled, Cloned, Started, Unfinished, EndInSight,
     UnitGone, EnvGone, RcHeld, Cleaning, Deleting
<1>2. TypeOK /\ LockContract /\ DeletesApart /\ JournalTracksDeploys
         /\ Survival /\ Accounts /\ [Next]_vars
         => DeletesApart' /\ JournalTracksDeploys' /\ Survival' /\ Accounts'
  BY CarefulUser, ApartStep, JournalStep, SurvivalStep,
     AccountsStep
<1>3. Init => Removal!Init
  <2>1. ASSUME Init, NEW s \in Services PROVE Phase(s) = "gone"
    BY <2>1, TreesTyped DEF Init, NoJournal, Phase, Deleting, HasHusk
  <2>2. QED
    BY <2>1 DEF Removal!Init
<1>4. TypeOK /\ LockContract /\ DeletesApart /\ JournalTracksDeploys
         /\ Survival /\ Accounts /\ [Next]_vars => Removal!Next
  BY CarefulUser, EveryoneFollows DEF Follows, Removal!Next
<1>5. QED
  BY <1>1, <1>2, <1>3, <1>4, TypeCorrect, LockSafety, PTL
     DEF Spec, RefinesCleanRemoval, Removal!Spec
=============================================================================
