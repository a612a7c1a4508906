---------------------------- MODULE TunnelProofs ----------------------------
(***************************************************************************)
(* Why calls that do not overlap keep one tunnel at most: whoever starts a *)
(* share has waited for the supervisor that came before, so one supervisor *)
(* at a time writes the events and is named by the record or its pid file. *)
(***************************************************************************)
EXTENDS TunnelShare, TLAPS

\* A clean-up never starts a share.
Roles == \A c \in Cleaners : goal[c] # "start" /\ pc[c] \notin {"wipe", "spawn"}

Busy(a) == pc[a] \notin {"off", "idle"}

\* A supervisor that nobody knows of and that has a pid file to remove only.
Leaving(i) == phase[i] = "rmChild" /\ parent[i] = NoPid

\* The supervisor that a panel has started and not yet listed.
Unlisted(i) ==
    \E a \in Actors :
        /\ pc[a] = "put" /\ victim[a] = i /\ parent[i] = a
        /\ phase[i] \notin {"boot", "rmChild"} => supFile = i

\* Where the records know of a supervisor: in shares.json, in the pid file when
\* its panel died before it listed it, or in the hands of the panel.
Named(i) ==
    \/ rec.sup = i
    \/ rec = NoRec /\ supFile = i /\ parent[i] = NoPid /\ phase[i] # "boot"
    \/ rec = NoRec /\ Unlisted(i)

AllNamed == \A i \in Sups : Alive(i) => Named(i) \/ Leaving(i)

\* What the calls have seen to at each place.
Settled     == \A i \in Sups : Alive(i) => Leaving(i)
OnlyLeft(j) == \A i \in Sups : Alive(i) => i = j \/ Leaving(i)

Unlists == {"wipe", "spawn", "put", "swTerm", "swWait", "swForget", "swKill",
            "quit"}
StoppedAt == {"kill", "forget", "unlist", "wipe", "spawn", "swForget", "swKill",
              "quit"}

Call(a) ==
    /\ pc[a] = "fold" => snap[a] = rec
    /\ pc[a] \in Unlists => rec = NoRec
    /\ pc[a] = "mark" => rec.sup = victim[a]

CallSettles(a) ==
    /\ pc[a] \in StoppedAt => Settled
    /\ pc[a] \in {"wait", "put", "swWait"} => OnlyLeft(victim[a])

\* The event log is that of the listed supervisor, or of the one about to be.
Fresh(i) == phase[i] \in {"boot", "pid", "armed", "born", "watch", "report"}

LogIsOwn ==
    /\ events.url /\ rec # NoRec => rec.sup \in seen
    /\ \A a \in Actors :
          /\ pc[a] = "spawn" => events = NoEvents
          /\ pc[a] = "put" /\ events.url => victim[a] \in seen
    /\ \A i \in Sups : Fresh(i) => ~events.error /\ ~events.exit

RowIsOwn ==
    /\ rec # NoRec => rec.sup \in Sups
    /\ rec.status = "live" => rec.sup \in seen
    /\ \A i \in Sups :
          Fresh(i) /\ rec.sup = i => rec.status \in {"starting", "live"}

ChildrenWatched == \A i \in child : phase[i] \in {"born", "watch"}

OneCall ==
    /\ \A a, b \in Actors : Busy(a) /\ Busy(b) => a = b
    /\ \A a \in Actors : Call(a)

Sharing ==
    /\ ChildrenWatched
    /\ OneCall
    /\ ~forked => /\ AllNamed
                  /\ \A a \in Actors : CallSettles(a)
                  /\ LogIsOwn
                  /\ RowIsOwn

\* A supervisor's own steps keep the types.
LEMMA SupTypes ==
    ASSUME TypeOK, NEW i \in Sups, SupNext(i) \/ Publish(i) \/ ChildExits(i)
    PROVE  TypeOK'
<1> USE DEF TypeOK, files, sups, actors, SupStep, Phases, PidsOr
<1>1. CASE BootFails(i)       BY <1>1 DEF BootFails
<1>2. CASE WritePid(i)        BY <1>2 DEF WritePid
<1>3. CASE Arm(i)             BY <1>3 DEF Arm
<1>4. CASE SpawnChild(i)      BY <1>4 DEF SpawnChild
<1>5. CASE SpawnFails(i)      BY <1>5 DEF SpawnFails
<1>6. CASE RecordChild(i)     BY <1>6 DEF RecordChild
<1>7. CASE EndChild(i)        BY <1>7 DEF EndChild
<1>8. CASE Reap(i)            BY <1>8 DEF Reap
<1>9. CASE Report(i)          BY <1>9 DEF Report
<1>10. CASE RemoveSupFile(i)  BY <1>10 DEF RemoveSupFile
<1>11. CASE RemoveChildFile(i) BY <1>11 DEF RemoveChildFile
<1>12. CASE Publish(i)        BY <1>12 DEF Publish
<1>13. CASE ChildExits(i)     BY <1>13 DEF ChildExits
<1> QED BY <1>1, <1>2, <1>3, <1>4, <1>5, <1>6, <1>7, <1>8, <1>9, <1>10,
           <1>11, <1>12, <1>13 DEF SupNext

\* Signals keep the types of the supervisors.
LEMMA SignalTypes ==
    ASSUME TypeOK
    PROVE  /\ \A who \in SUBSET Sups :
                 Term(who) => phase' \in [Sups -> Phases] /\ told' \subseteq Sups
           /\ \A i \in Sups :
                 Kill(i) => phase' \in [Sups -> Phases] /\ child' \subseteq Sups
<1>1. ASSUME NEW who \in SUBSET Sups, Term(who)
      PROVE  phase' \in [Sups -> Phases] /\ told' \subseteq Sups
  BY <1>1 DEF TypeOK, Term, Phases
<1>2. ASSUME NEW i \in Sups, Kill(i)
      PROVE  phase' \in [Sups -> Phases] /\ child' \subseteq Sups
  BY <1>2 DEF TypeOK, Kill, Phases
<1> QED BY <1>1, <1>2

\* What a row is folded to is a record.
LEMMA FoldedType ==
    ASSUME TypeOK, NEW r \in Record
    PROVE  Folded(r) \in Record
BY DEF TypeOK, Folded, Record, Status

\* The ways into a call keep the types.
LEMMA EntryTypes ==
    ASSUME TypeOK, NEW a \in Actors, NEW from \in {"off", "idle"},
           NEW call \in {"browse", "stop", "start", "exit"},
           Enter(a, from, call) \/ EnterStop(a, from, call)
    PROVE  TypeOK'
BY DEF TypeOK, Enter, EnterStop, Move, Places, files, sups

\* The steps of a call keep the types.
LEMMA CallTypes ==
    ASSUME TypeOK, Roles, NEW a \in Actors, ActorNext(a), ~Quit(a)
    PROVE  TypeOK'
<1> USE DEF TypeOK, files, sups, actors, Move, Places
<1>0. NoRec \in Record /\ NoPid \in PidsOr /\ Sups \subseteq PidsOr
  BY DEF NoRec, Record, Status, PidsOr
<1>1. CASE Fold(a)
  <2> DEFINE saved == IF snap[a] # NoRec /\ Changed(snap[a]) THEN Folded(snap[a])
                      ELSE rec
  <2>1. saved \in Record
    BY FoldedType
  <2>2. /\ rec' = saved /\ snap' = [snap EXCEPT ![a] = saved]
        /\ Move(a, "fold", IF goal[a] = "browse" THEN "idle"
                           ELSE IF saved = NoRec THEN "swTerm" ELSE "term")
        /\ UNCHANGED <<files, events, sups, goal, victim, forked>>
    BY <1>1 DEF Fold
  <2> HIDE DEF saved
  <2> QED BY <2>1, <2>2
<1>2. ASSUME NEW from \in Places, NEW to \in Places \ {"put", "mark"},
             NEW i \in PidsOr, TermVictim(a, from, to, i),
             UNCHANGED snap \/ snap' = [snap EXCEPT ![a] = rec]
      PROVE  TypeOK'
  <2>1. Term({i} \cap Sups) /\ {i} \cap Sups \in SUBSET Sups
    BY <1>2 DEF TermVictim
  <2>2. phase' \in [Sups -> Phases] /\ told' \subseteq Sups
    BY <2>1, SignalTypes
  <2> QED BY <1>2, <2>2 DEF TermVictim
<1>3. CASE StopTerm(a)
  BY <1>3, <1>2 DEF StopTerm, Record
<1>4. CASE SweepTerm(a)
  BY <1>4, <1>2 DEF SweepTerm
<1>5. CASE Gone(a, "wait", "kill") \/ Gone(a, "swWait", "swForget")
  BY <1>5, <1>0 DEF Gone
<1>6. CASE KillVictim(a, "wait", "kill") \/ KillVictim(a, "swWait", "swForget")
  <2>1. victim[a] \in Sups /\ Kill(victim[a])
    BY <1>6 DEF KillVictim, Alive
  <2>2. phase' \in [Sups -> Phases] /\ child' \subseteq Sups
    BY <2>1, SignalTypes
  <2> QED BY <1>6, <1>0, <2>2 DEF KillVictim
<1>7. CASE StopKillChild(a)   BY <1>7 DEF StopKillChild
<1>8. CASE Forget(a)          BY <1>8, <1>0 DEF Forget
<1>9. CASE Unlist(a)          BY <1>9, <1>0 DEF Unlist
<1>10. CASE Wipe(a)           BY <1>10, <1>0 DEF Wipe, NoEvents
<1>11. CASE Spawn(a)
  <2>1. a \in Panels
    BY <1>11 DEF Actors, Roles, Spawn
  <2> QED BY <1>11, <1>0, <2>1 DEF Spawn, Phases
<1>12. CASE SpawnFailed(a)    BY <1>12, <1>0 DEF SpawnFailed
<1>13. CASE Put(a)
  <2>1. victim[a] \in Sups
    BY <1>13 DEF Put
  <2> QED BY <1>13, <1>0, <2>1 DEF Put, Record, Status
<1>14. CASE Mark(a)           BY <1>14, <1>0 DEF Mark
<1>15. CASE SweepForget(a)    BY <1>15, <1>0 DEF SweepForget
<1>16. CASE SweepChild(a)     BY <1>16, <1>0 DEF SweepChild
<1> QED BY <1>1, <1>3, <1>4, <1>5, <1>6, <1>7, <1>8, <1>9, <1>10, <1>11, <1>12,
           <1>13, <1>14, <1>15, <1>16 DEF ActorNext

\* The end of a process, and of all, keeps the types.
LEMMA DeathTypes ==
    ASSUME TypeOK,
           \/ \E a \in Actors : Quit(a) \/ Crash(a)
           \/ \E p \in Panels : CrashInSpawn(p)
           \/ Reboot
    PROVE  TypeOK'
<1> USE DEF TypeOK, files, sups, actors, Places
<1>0. NoRec \in Record /\ NoPid \in PidsOr
  BY DEF NoRec, Record, Status, PidsOr
<1>1. ASSUME NEW a \in Actors, Quit(a) \/ Crash(a)
      PROVE  TypeOK'
  <2>1. Term(Orphaned(a)) /\ Orphaned(a) \in SUBSET Sups
    BY <1>1 DEF Quit, Crash, Die, Orphaned
  <2>2. phase' \in [Sups -> Phases] /\ told' \subseteq Sups
    BY <2>1, SignalTypes
  <2> QED BY <1>0, <1>1, <2>2 DEF Quit, Crash, Die
<1>2. ASSUME NEW p \in Panels, CrashInSpawn(p)
      PROVE  TypeOK'
  BY <1>0, <1>2 DEF CrashInSpawn, Phases
<1>3. CASE Reboot
  BY <1>0, <1>3 DEF Reboot, Phases
<1> QED BY <1>1, <1>2, <1>3

\* A clean-up keeps to its calls.
LEMMA RolesStep ==
    ASSUME TypeOK, Roles, [Next]_vars
    PROVE  Roles'
<1> SUFFICES ASSUME NEW c \in Cleaners
             PROVE  goal'[c] # "start" /\ pc'[c] \notin {"wipe", "spawn"}
  BY DEF Roles
<1> USE DEF TypeOK, Roles, actors, Move
<1>0. c \in Actors /\ c \notin Panels
  BY PanelsApart DEF Actors
<1>1. CASE UNCHANGED vars
  BY <1>1 DEF vars
<1>2. ASSUME NEW i \in Sups, SupNext(i) \/ Publish(i) \/ ChildExits(i)
      PROVE  UNCHANGED actors
  BY <1>2 DEF SupNext, Publish, ChildExits, BootFails, WritePid, Arm, SpawnChild,
       SpawnFails, RecordChild, EndChild, Reap, Report, RemoveSupFile,
       RemoveChildFile
<1>3. ASSUME NEW p \in Panels, \/ Launch(p) \/ Browse(p) \/ ExitPanel(p)
                              \/ StartShare(p) \/ StopShare(p) \/ CrashInSpawn(p)
      PROVE  goal'[c] = goal[c] /\ pc'[c] = pc[c]
  BY <1>0, <1>3 DEF Launch, Browse, ExitPanel, StartShare, StopShare, CrashInSpawn,
       Enter, EnterStop
<1>4. ASSUME NEW d \in Cleaners, CleanupStart(d) \/ DeleteShare(d)
      PROVE  goal'[c] # "start" /\ pc'[c] \notin {"wipe", "spawn"}
  BY <1>0, <1>4 DEF CleanupStart, DeleteShare, Enter, EnterStop
<1>5. ASSUME NEW a \in Actors, ActorNext(a) \/ Crash(a)
      PROVE  goal'[c] # "start" /\ pc'[c] \notin {"wipe", "spawn"}
  <2>1. CASE Fold(a) \/ Mark(a) \/ Unlist(a) \/ Wipe(a) \/ Quit(a) \/ Crash(a)
    BY <1>0, <2>1 DEF Fold, Mark, Unlist, Wipe, Quit, Crash, Die
  <2>2. CASE \/ StopTerm(a) \/ Gone(a, "wait", "kill") \/ KillVictim(a, "wait", "kill")
             \/ StopKillChild(a) \/ Forget(a)
    BY <1>0, <2>2 DEF StopTerm, TermVictim, Gone, KillVictim, StopKillChild, Forget
  <2>3. CASE \/ Spawn(a) \/ SpawnFailed(a) \/ Put(a) \/ SweepTerm(a)
             \/ Gone(a, "swWait", "swForget") \/ KillVictim(a, "swWait", "swForget")
             \/ SweepForget(a) \/ SweepChild(a)
    BY <1>0, <2>3 DEF Spawn, SpawnFailed, Put, SweepTerm, TermVictim, Gone,
         KillVictim, SweepForget, SweepChild
  <2> QED BY <1>5, <2>1, <2>2, <2>3 DEF ActorNext
<1>6. CASE Reboot
  BY <1>0, <1>6 DEF Reboot
<1> QED BY <1>1, <1>2, <1>3, <1>4, <1>5, <1>6 DEF Next

\* The types of a share: every step of every process, supervisor and death.
LEMMA TypesStep == TypeOK /\ Roles /\ [Next]_vars => TypeOK' /\ Roles'
<1> SUFFICES ASSUME TypeOK, Roles, [Next]_vars PROVE TypeOK'
  BY RolesStep
<1>1. CASE UNCHANGED vars
  BY <1>1 DEF TypeOK, vars, files, sups, actors
<1>2. CASE \E i \in Sups : SupNext(i) \/ Publish(i) \/ ChildExits(i)
  BY <1>2, SupTypes
<1>3. CASE \E p \in Panels : \/ Launch(p) \/ Browse(p) \/ ExitPanel(p)
                             \/ StartShare(p) \/ StopShare(p)
  BY <1>3, EntryTypes DEF Actors, Launch, Browse, ExitPanel, StartShare, StopShare
<1>4. CASE \E c \in Cleaners : CleanupStart(c) \/ DeleteShare(c)
  BY <1>4, EntryTypes DEF Actors, CleanupStart, DeleteShare
<1>5. CASE \E a \in Actors : ActorNext(a) /\ ~Quit(a)
  BY <1>5, CallTypes
<1>6. CASE \/ \E a \in Actors : Quit(a) \/ Crash(a)
           \/ \E p \in Panels : CrashInSpawn(p)
           \/ Reboot
  BY <1>6, DeathTypes
<1> QED BY <1>1, <1>2, <1>3, <1>4, <1>5, <1>6 DEF Next

\* Every state a panel, a clean-up and the supervisors reach is well typed,
\* whether or not their calls overlap.
THEOREM TunnelTypes == Spec => []TypeOK
<1>1. ASSUME Init
      PROVE  TypeOK /\ Roles
  <2>1. NoRec \in Record /\ NoPid \in PidsOr
    BY DEF NoRec, Record, Status, PidsOr
  <2> QED BY <1>1, <2>1 DEF Init, Roles, Actors, TypeOK, NoEvents, Phases, Places
<1> QED BY <1>1, TypesStep, PTL DEF Spec

\* One supervisor acts: two that both have more to do than to leave are one.
LEMMA OneActs ==
    ASSUME TypeOK, OneCall, AllNamed, \A a \in Actors : CallSettles(a),
           NEW i \in Sups, Alive(i), ~Leaving(i),
           NEW j \in Sups, Alive(j), ~Leaving(j)
    PROVE  i = j
<1>0. rec = NoRec => rec.sup \notin Sups
  BY NoPidApart DEF NoRec
<1>1. Named(i) /\ Named(j)
  BY DEF AllNamed
<1>2. ASSUME NEW k \in Sups, NEW l \in Sups, Alive(l), ~Leaving(l), Unlisted(k)
      PROVE  k = l
  BY <1>2 DEF Unlisted, CallSettles, OnlyLeft
<1> QED BY <1>0, <1>1, <1>2 DEF Named

\* A step of a supervisor: it is the one that acts, and where a call has made
\* sure that none does, it changes nothing that counts.
LEMMA SupSharing ==
    ASSUME TypeOK, Sharing, NEW i \in Sups, SupNext(i) \/ Publish(i) \/ ChildExits(i)
    PROVE  Sharing'
<1> USE DEF files, sups, actors, SupStep
<1>1. OneCall' /\ forked' = forked /\ rec' = rec /\ parent' = parent /\ UNCHANGED actors
  <2>1. UNCHANGED <<rec, parent, actors, forked>>
    BY DEF SupNext, Publish, ChildExits, BootFails, WritePid, Arm, SpawnChild,
       SpawnFails, RecordChild, EndChild, Reap, Report, RemoveSupFile,
       RemoveChildFile
  <2> QED BY <2>1 DEF Sharing, OneCall, Call, Busy
<1>2. /\ seen \subseteq seen'
      /\ \A j \in Sups \ {i} : /\ phase'[j] = phase[j]
                               /\ j \in child' <=> j \in child
  BY DEF TypeOK, SupNext, Publish, ChildExits, BootFails, WritePid, Arm, SpawnChild,
       SpawnFails, RecordChild, EndChild, Reap, Report, RemoveSupFile,
       RemoveChildFile
<1>3. /\ i \in child' => phase'[i] \in {"born", "watch"}
      /\ Alive(i)' => Alive(i) /\ (Leaving(i) => Leaving(i)')
      /\ Fresh(i)' => Fresh(i)
  <2> USE DEF TypeOK, Sharing, ChildrenWatched, Alive, Leaving, Fresh
  <2>1. CASE Publish(i) \/ ChildExits(i) \/ EndChild(i)
    BY <1>1, <2>1 DEF Publish, ChildExits, EndChild
  <2>2. CASE \/ BootFails(i) \/ WritePid(i) \/ Arm(i) \/ SpawnChild(i)
             \/ SpawnFails(i) \/ RecordChild(i)
    BY <1>1, <2>2 DEF BootFails, WritePid, Arm, SpawnChild, SpawnFails, RecordChild
  <2>3. CASE Reap(i) \/ Report(i) \/ RemoveSupFile(i) \/ RemoveChildFile(i)
    BY <1>1, <2>3 DEF Reap, Report, RemoveSupFile, RemoveChildFile
  <2> QED BY <2>1, <2>2, <2>3 DEF SupNext
<1>4. ChildrenWatched'
  <2>1. child' \subseteq Sups
    BY SupTypes DEF TypeOK
  <2> QED BY <1>2, <1>3, <2>1 DEF Sharing, ChildrenWatched
<1>5. \A j \in Sups : /\ Alive(j)' => Alive(j)
                      /\ Alive(j)' /\ Leaving(j) => Leaving(j)'
                      /\ Fresh(j)' => Fresh(j)
  BY <1>1, <1>2, <1>3 DEF Alive, Leaving, Fresh
<1> SUFFICES ASSUME ~forked
             PROVE  /\ AllNamed'
                    /\ \A a \in Actors : CallSettles(a)'
                    /\ LogIsOwn'
                    /\ RowIsOwn'
  BY <1>1, <1>4 DEF Sharing
<1>6. /\ AllNamed /\ LogIsOwn /\ RowIsOwn /\ OneCall
      /\ \A a \in Actors : CallSettles(a)
  BY DEF Sharing
<1>7. \A a \in Actors : CallSettles(a)'
  BY <1>1, <1>5, <1>6 DEF CallSettles, Settled, OnlyLeft, actors
<1>8. RowIsOwn'
  BY <1>1, <1>2, <1>5, <1>6 DEF RowIsOwn
<1>9. \A j \in Sups \ {i} : ~Leaving(i) /\ Alive(i) /\ Alive(j) => Leaving(j)
  BY <1>6, OneActs
<1>10. AllNamed'
  <2> SUFFICES ASSUME NEW j \in Sups, Alive(j)'
               PROVE  Named(j)' \/ Leaving(j)'
    BY DEF AllNamed
  <2>1. Named(j) \/ Leaving(j)
    BY <1>5, <1>6 DEF AllNamed
  <2>2. CASE Leaving(j)
    BY <1>5, <2>2
  <2>3. CASE Named(j) /\ supFile' = supFile /\ phase'[j] = phase[j]
    BY <1>1, <2>3 DEF Named, Unlisted, actors
  <2>4. CASE Named(j) /\ rec.sup = j
    BY <1>1, <2>4 DEF Named
  <2>5. CASE j # i /\ supFile' # supFile
    <3>1. Alive(i) /\ ~Leaving(i)
      BY <2>5 DEF SupNext, Publish, ChildExits, BootFails, WritePid, Arm, SpawnChild,
         SpawnFails, RecordChild, EndChild, Reap, Report, RemoveSupFile,
         RemoveChildFile, Alive, Leaving
    <3> QED BY <1>5, <1>9, <2>5, <3>1
  <2>6. CASE j = i /\ Named(j) /\ rec.sup # j /\ WritePid(i)
    BY <1>1, <2>6 DEF Named, Unlisted, WritePid, actors, TypeOK
  <2>7. CASE j = i /\ Named(j) /\ rec.sup # j /\ RemoveSupFile(i)
    BY <1>1, <2>7 DEF Named, Unlisted, RemoveSupFile, actors, TypeOK, Leaving
  <2>8. CASE j = i /\ Named(j) /\ rec.sup # j /\ ~WritePid(i) /\ ~RemoveSupFile(i)
    <3>1. supFile' = supFile
      BY <2>8 DEF SupNext, Publish, ChildExits, BootFails, WritePid, Arm, SpawnChild,
         SpawnFails, RecordChild, EndChild, Reap, Report, RemoveChildFile
    <3>2. phase[j] # "boot" \/ ~Alive(j)'
      BY <2>8 DEF SupNext, Publish, ChildExits, BootFails, Arm, SpawnChild,
         SpawnFails, RecordChild, EndChild, Reap, Report, RemoveChildFile,
         TypeOK, Alive, Sharing, ChildrenWatched
    <3>3. Alive(j)' => /\ phase'[j] # "boot"
                       /\ phase'[j] = "rmChild" <=> phase[j] = "rmChild"
      BY <2>8, <3>2 DEF SupNext, Publish, ChildExits, BootFails, Arm, SpawnChild,
         SpawnFails, RecordChild, EndChild, Reap, Report, RemoveChildFile,
         TypeOK, Alive
    <3> QED BY <1>1, <2>8, <3>1, <3>2, <3>3 DEF Named, Unlisted, actors
  <2> QED BY <1>2, <2>1, <2>2, <2>3, <2>4, <2>5, <2>6, <2>7, <2>8
<1>11. LogIsOwn'
  <2>1. CASE events' = events
    BY <1>1, <1>2, <1>5, <1>6, <2>1 DEF LogIsOwn, actors
  <2>2. CASE Publish(i)
    <3>1. Alive(i) /\ ~Leaving(i)
      BY <2>2 DEF Publish, Alive, Leaving
    <3>2. rec # NoRec => rec.sup = i
      BY <1>6, <3>1 DEF AllNamed, Named
    <3>3. \A a \in Actors : /\ pc[a] # "spawn"
                            /\ pc[a] = "put" => victim[a] = i
      BY <1>6, <3>1 DEF CallSettles, Settled, OnlyLeft, StoppedAt
    <3>4. /\ i \in seen' /\ ~events'.error /\ events'.exit = events.exit
          /\ phase' = phase /\ Fresh(i)
      BY <2>2 DEF Publish, TypeOK, Fresh
    <3> QED BY <1>1, <1>5, <1>6, <3>2, <3>3, <3>4 DEF LogIsOwn, actors, Fresh
  <2>3. CASE BootFails(i) \/ SpawnFails(i) \/ Report(i)
    <3>1. Alive(i) /\ ~Leaving(i) /\ ~Fresh(i)'
      BY <2>3 DEF BootFails, SpawnFails, Report, Alive, Leaving, Fresh, TypeOK
    <3>2. \A a \in Actors : pc[a] # "spawn"
      BY <1>6, <3>1 DEF CallSettles, Settled, StoppedAt
    <3>3. \A j \in Sups \ {i} : Alive(j) => Leaving(j)
      BY <1>9, <3>1
    <3>4. \A j \in Sups : ~Fresh(j)'
      BY <1>5, <3>1, <3>3 DEF Fresh, Alive, Leaving
    <3>5. events'.url = events.url
      BY <2>3 DEF BootFails, SpawnFails, Report, TypeOK
    <3> QED BY <1>1, <1>2, <1>6, <3>2, <3>4, <3>5 DEF LogIsOwn, actors
  <2> QED BY <2>1, <2>2, <2>3 DEF SupNext, ChildExits, WritePid, Arm, SpawnChild,
         RecordChild, EndChild, Reap, RemoveSupFile, RemoveChildFile
<1> QED BY <1>7, <1>8, <1>10, <1>11

\* A call begins when no other is under way.
LEMMA EntrySharing ==
    ASSUME TypeOK, Sharing, ~Overlap, NEW a \in Actors, NEW from \in {"off", "idle"},
           NEW call \in {"browse", "stop", "start", "exit"},
           Enter(a, from, call) \/ EnterStop(a, from, call)
    PROVE  Sharing'
<1>1. /\ UNCHANGED <<rec, supFile, events, phase, parent, child, seen, victim, forked>>
      /\ pc[a] \in {"off", "idle"} /\ pc'[a] \in {"fold", "term"}
      /\ pc'[a] = "fold" => snap'[a] = rec
      /\ \A b \in Actors \ {a} : pc'[b] = pc[b] /\ pc[b] \in {"off", "idle"}
  BY DEF Enter, EnterStop, Move, Turn, TypeOK, files, sups
<1>2. OneCall'
  BY <1>1 DEF OneCall, Call, Busy, Unlists
<1>3. \A b \in Actors : CallSettles(b)'
  BY <1>1 DEF CallSettles, StoppedAt
<1>4. ChildrenWatched' /\ (RowIsOwn => RowIsOwn')
  BY <1>1 DEF Sharing, ChildrenWatched, RowIsOwn, Fresh
<1>5. LogIsOwn => LogIsOwn'
  BY <1>1 DEF LogIsOwn, Fresh
<1>6. AllNamed => AllNamed'
  <2> SUFFICES ASSUME AllNamed, NEW i \in Sups, Alive(i)
               PROVE  Named(i)' \/ Leaving(i)
    BY <1>1 DEF AllNamed, Alive, Leaving
  <2>1. ~Unlisted(i)
    BY <1>1 DEF Unlisted
  <2> QED BY <1>1, <2>1 DEF AllNamed, Named
<1> QED BY <1>1, <1>2, <1>3, <1>4, <1>5, <1>6 DEF Sharing

\* A death: signals and the loss of a parent leave no supervisor unnamed.
LEMMA DeathSharing ==
    ASSUME TypeOK, Sharing,
           \/ \E a \in Actors : Quit(a) \/ Crash(a)
           \/ \E p \in Panels : CrashInSpawn(p)
           \/ Reboot
    PROVE  Sharing'
<1>1. ASSUME NEW a \in Actors, Quit(a) \/ Crash(a)
      PROVE  Sharing'
  <2>1. /\ UNCHANGED <<rec, supFile, events, child, seen, forked>>
        /\ pc'[a] = "off"
        /\ \A b \in Actors \ {a} : /\ pc'[b] = pc[b] /\ victim'[b] = victim[b]
                                   /\ snap'[b] = snap[b]
        /\ \A i \in Sups : /\ parent'[i] = IF parent[i] = a THEN NoPid ELSE parent[i]
                           /\ phase'[i] = IF /\ parent[i] = a
                                             /\ phase[i] \in {"boot", "pid"}
                                          THEN "dead" ELSE phase[i]
    BY <1>1 DEF Quit, Crash, Die, Term, Orphaned, TypeOK, files
  <2>2. \A i \in Sups : /\ Alive(i)' => Alive(i)
                        /\ Leaving(i) => Leaving(i)'
                        /\ Fresh(i)' => Fresh(i)
    BY <2>1 DEF Alive, Leaving, Fresh
  <2>3. OneCall'
    BY <2>1 DEF Sharing, OneCall, Call, Busy, Unlists
  <2>4. ChildrenWatched'
    BY <2>1 DEF Sharing, ChildrenWatched, TypeOK
  <2>5. ASSUME \A b \in Actors : CallSettles(b)
        PROVE  \A b \in Actors : CallSettles(b)'
    BY <2>1, <2>2, <2>5 DEF CallSettles, Settled, OnlyLeft, StoppedAt
  <2>6. LogIsOwn /\ RowIsOwn => LogIsOwn' /\ RowIsOwn'
    BY <2>1, <2>2 DEF LogIsOwn, RowIsOwn
  <2>7. ASSUME AllNamed, NEW i \in Sups, Alive(i)'
        PROVE  Named(i)' \/ Leaving(i)'
    <3>1. Alive(i) /\ (Named(i) \/ Leaving(i))
      BY <2>2, <2>7 DEF AllNamed
    <3>2. phase'[i] = phase[i] /\ (parent[i] = a => phase[i] # "boot")
      BY <2>1, <2>7 DEF Alive
    <3>3. CASE rec = NoRec /\ Unlisted(i)
      <4>1. PICK b \in Actors :
               /\ pc[b] = "put" /\ victim[b] = i /\ parent[i] = b
               /\ phase[i] \notin {"boot", "rmChild"} => supFile = i
        BY <3>3 DEF Unlisted
      <4>2. CASE b = a
        BY <2>1, <3>2, <3>3, <4>1, <4>2 DEF Named, Leaving
      <4>3. CASE b # a
        <5>1. /\ pc'[b] = "put" /\ victim'[b] = i /\ parent'[i] = b
              /\ phase'[i] \notin {"boot", "rmChild"} => supFile' = i
          BY <2>1, <3>2, <4>1, <4>3
        <5> QED BY <2>1, <3>3, <5>1 DEF Named, Unlisted
      <4> QED BY <4>2, <4>3
    <3> QED BY <2>1, <2>2, <3>1, <3>2, <3>3 DEF Named
  <2> QED BY <2>1, <2>3, <2>4, <2>5, <2>6, <2>7 DEF Sharing, AllNamed
<1>2. ASSUME NEW p \in Panels, CrashInSpawn(p)
      PROVE  Sharing'
  <2>1. forked' /\ rec' = rec /\ child' = child
    BY <1>2 DEF CrashInSpawn
  <2>2. /\ p \in Actors /\ pc'[p] = "off"
        /\ \A b \in Actors \ {p} : /\ pc'[b] = pc[b] /\ victim'[b] = victim[b]
                                   /\ snap'[b] = snap[b]
    BY <1>2 DEF CrashInSpawn, TypeOK, Actors
  <2>3. OneCall'
    BY <2>1, <2>2 DEF Sharing, OneCall, Call, Busy, Unlists
  <2>4. ChildrenWatched'
    BY <1>2 DEF Sharing, ChildrenWatched, TypeOK, CrashInSpawn
  <2> QED BY <2>1, <2>3, <2>4 DEF Sharing
<1>3. CASE Reboot
  <2>1. /\ rec' = rec /\ child' = {} /\ UNCHANGED <<events, seen, forked>>
        /\ \A a \in Actors : pc'[a] = "off"
        /\ \A i \in Sups : ~Alive(i)' /\ ~Fresh(i)'
    BY <1>3 DEF Reboot, Alive, Fresh, TypeOK
  <2>2. OneCall' /\ ChildrenWatched'
    BY <2>1 DEF OneCall, Call, Busy, Unlists, ChildrenWatched
  <2>3. AllNamed' /\ \A a \in Actors : CallSettles(a)'
    BY <2>1 DEF AllNamed, CallSettles, StoppedAt
  <2>4. LogIsOwn /\ RowIsOwn => LogIsOwn' /\ RowIsOwn'
    BY <2>1 DEF LogIsOwn, RowIsOwn
  <2> QED BY <2>1, <2>2, <2>3, <2>4 DEF Sharing
<1> QED BY <1>1, <1>2, <1>3

\* While a call is under way its panel or clean-up alone moves, so what holds of
\* the place it goes to is all there is to show.
LEMMA OneMoves ==
    ASSUME TypeOK, OneCall, NEW a \in Actors, ActorNext(a), ~Quit(a)
    PROVE  /\ Busy(a) /\ forked' = forked /\ seen' = seen
           /\ \A b \in Actors \ {a} : pc[b] \in {"off", "idle"} /\ pc'[b] = pc[b]
           /\ Call(a)' => OneCall'
           /\ CallSettles(a)' => \A b \in Actors : CallSettles(b)'
<1>1. Busy(a) /\ forked' = forked /\ seen' = seen
  BY DEF ActorNext, Fold, StopTerm, SweepTerm, TermVictim, Gone, KillVictim,
     StopKillChild, Forget, Unlist, Wipe, Spawn, SpawnFailed, Put, Mark, SweepForget,
     SweepChild, Move, Busy, sups
<1>2. \A b \in Actors \ {a} : pc'[b] = pc[b]
  BY DEF ActorNext, Fold, StopTerm, SweepTerm, TermVictim, Gone, KillVictim,
     StopKillChild, Forget, Unlist, Wipe, Spawn, SpawnFailed, Put, Mark, SweepForget,
     SweepChild, Move, TypeOK
<1>3. \A b \in Actors \ {a} : pc[b] \in {"off", "idle"}
  BY <1>1 DEF OneCall, Busy
<1>4. Call(a)' => OneCall'
  BY <1>2, <1>3 DEF OneCall, Call, Busy, Unlists
<1>5. CallSettles(a)' => \A b \in Actors : CallSettles(b)'
  BY <1>2, <1>3 DEF CallSettles, StoppedAt
<1> QED BY <1>1, <1>2, <1>3, <1>4, <1>5

\* Where every supervisor has ended, or has no more than a pid file to remove, a
\* call may clear the files, the record and the log.
LEMMA SettledSharing ==
    ASSUME TypeOK, Sharing, NEW a \in Actors,
           \/ StopKillChild(a) \/ Forget(a) \/ Unlist(a) \/ Wipe(a)
           \/ SpawnFailed(a) \/ SweepForget(a) \/ SweepChild(a)
    PROVE  Sharing'
<1> USE DEF sups, files, Move
<1>1. ActorNext(a) /\ ~Quit(a)
  BY DEF ActorNext, Quit, StopKillChild, Forget, Unlist, Wipe, SpawnFailed,
     SweepForget, SweepChild
<1>2. OneCall
  BY DEF Sharing
<1>3. /\ pc[a] \in StoppedAt /\ child' \subseteq child
      /\ UNCHANGED <<phase, parent, seen, forked>>
      /\ rec' \in {rec, NoRec} /\ events' \in {events, NoEvents}
      /\ pc'[a] \in StoppedAt \cup {"idle", "swTerm", "fold"}
      /\ pc'[a] = "spawn" => events' = NoEvents
  BY DEF StopKillChild, Forget, Unlist, Wipe, SpawnFailed, SweepForget, SweepChild,
     TypeOK, StoppedAt
<1>4. Call(a)'
  BY <1>2 DEF StopKillChild, Forget, Unlist, Wipe, SpawnFailed, SweepForget,
     SweepChild, TypeOK, OneCall, Call, Unlists
<1>5. OneCall'
  BY <1>1, <1>2, <1>4, OneMoves
<1>6. ChildrenWatched'
  BY <1>3 DEF Sharing, ChildrenWatched
<1>7. ASSUME ~forked
      PROVE  /\ AllNamed' /\ \A b \in Actors : CallSettles(b)'
             /\ LogIsOwn' /\ RowIsOwn'
  <2>1. Settled /\ Settled'
    BY <1>3, <1>7 DEF Sharing, CallSettles, Settled, Alive, Leaving
  <2>2. CallSettles(a)'
    BY <1>3, <2>1 DEF CallSettles, StoppedAt
  <2>3. AllNamed'
    BY <2>1 DEF AllNamed, Settled
  <2>4. \A i \in Sups : ~Fresh(i)'
    BY <2>1 DEF Fresh, Settled, Alive, Leaving
  <2>5. \A b \in Actors \ {a} : pc'[b] \in {"off", "idle"}
    BY <1>1, <1>2, OneMoves
  <2>6. LogIsOwn'
    BY <1>3, <1>7, <2>4, <2>5 DEF Sharing, LogIsOwn, NoEvents, StoppedAt
  <2>7. RowIsOwn'
    BY <1>3, <1>7, <2>4 DEF Sharing, RowIsOwn, NoRec
  <2> QED BY <1>1, <1>2, <2>2, <2>3, <2>6, <2>7, OneMoves
<1> QED BY <1>3, <1>5, <1>6, <1>7 DEF Sharing

\* The signals of a stop go to the supervisor that acts, by its record or its pid
\* file, and the stop goes on when that one has ended.
LEMMA SignalSharing ==
    ASSUME TypeOK, Sharing, NEW a \in Actors,
           \/ StopTerm(a) \/ SweepTerm(a)
           \/ Gone(a, "wait", "kill") \/ KillVictim(a, "wait", "kill")
           \/ Gone(a, "swWait", "swForget") \/ KillVictim(a, "swWait", "swForget")
    PROVE  Sharing'
<1> USE DEF sups, files, Move
<1>1. ActorNext(a) /\ ~Quit(a)
  BY DEF ActorNext, Quit, StopTerm, SweepTerm, TermVictim, Gone, KillVictim
<1>2. OneCall
  BY DEF Sharing
<1>3. /\ UNCHANGED <<rec, files, events, parent, seen, forked>>
      /\ pc[a] \in {"term", "swTerm", "wait", "swWait"}
      /\ pc'[a] \in {"wait", "kill", "swKill", "swWait", "swForget"}
      /\ pc[a] \in {"swTerm", "swWait"} <=> pc'[a] \in {"swKill", "swWait", "swForget"}
  BY DEF StopTerm, SweepTerm, TermVictim, Gone, KillVictim, TypeOK
<1>4. /\ child' \subseteq child
      /\ \A i \in Sups : phase'[i] \in {phase[i], "dead"}
      /\ \A i \in child' : phase'[i] = phase[i] \/ phase[i] \in {"boot", "pid"}
  BY DEF StopTerm, SweepTerm, TermVictim, Term, Gone, KillVictim, Kill, TypeOK
<1>5. Call(a)'
  BY <1>2, <1>3 DEF OneCall, Call, Unlists
<1>6. OneCall'
  BY <1>1, <1>2, <1>5, OneMoves
<1>7. ChildrenWatched'
  <2>1. \A i \in child' : phase[i] \in {"born", "watch"}
    BY <1>4 DEF Sharing, ChildrenWatched
  <2> QED BY <1>4, <2>1 DEF ChildrenWatched
<1>8. \A i \in Sups : /\ Alive(i)' => Alive(i) /\ phase'[i] = phase[i]
                      /\ Leaving(i) /\ Alive(i)' => Leaving(i)'
                      /\ Fresh(i)' => Fresh(i)
  BY <1>3, <1>4 DEF Alive, Leaving, Fresh
<1>9. \A b \in Actors : pc[b] # "put" /\ pc'[b] \notin {"put", "spawn"}
  BY <1>1, <1>2, <1>3, OneMoves
<1>10. ASSUME ~forked
       PROVE  /\ AllNamed' /\ \A b \in Actors : CallSettles(b)'
              /\ LogIsOwn' /\ RowIsOwn'
  <2>0. /\ AllNamed /\ LogIsOwn /\ RowIsOwn
        /\ CallSettles(a)
    BY <1>10 DEF Sharing
  <2>1. ASSUME NEW i \in Sups, Alive(i), ~Leaving(i)
        PROVE  \/ rec.sup = i
               \/ /\ rec = NoRec /\ supFile = i
                  /\ parent[i] = NoPid /\ phase[i] # "boot"
    BY <1>9, <2>0, <2>1 DEF AllNamed, Named, Unlisted
  <2>2. AllNamed'
    BY <1>3, <1>8, <2>1 DEF AllNamed, Named
  <2>3. LogIsOwn' /\ RowIsOwn'
    BY <1>3, <1>8, <1>9, <2>0 DEF LogIsOwn, RowIsOwn
  <2>4. ASSUME StopTerm(a) PROVE CallSettles(a)'
    <3>1. pc'[a] = "wait" /\ victim'[a] = IF rec.sup # NoPid THEN rec.sup ELSE supFile
      BY <2>4 DEF StopTerm, TermVictim, TypeOK
    <3>2. OnlyLeft(victim'[a])
      BY <2>1, <3>1, NoPidApart DEF OnlyLeft, NoRec
    <3> QED BY <1>8, <3>1, <3>2 DEF CallSettles, OnlyLeft, StoppedAt
  <2>5. ASSUME SweepTerm(a) PROVE CallSettles(a)'
    <3>1. /\ pc'[a] = (IF supFile = NoPid THEN "swKill" ELSE "swWait")
          /\ victim'[a] = supFile /\ pc[a] = "swTerm"
      BY <2>5 DEF SweepTerm, TermVictim, TypeOK
    <3>2. rec = NoRec
      BY <1>2, <3>1 DEF OneCall, Call, Unlists
    <3>3. OnlyLeft(supFile)
      BY <2>1, <3>2, NoPidApart DEF OnlyLeft, NoRec
    <3>4. supFile = NoPid => Settled
      BY <3>3, NoPidApart DEF OnlyLeft, Settled
    <3> QED BY <1>8, <3>1, <3>3, <3>4 DEF CallSettles, OnlyLeft, StoppedAt, Settled
  <2>6. ASSUME \/ Gone(a, "wait", "kill") \/ KillVictim(a, "wait", "kill")
               \/ Gone(a, "swWait", "swForget") \/ KillVictim(a, "swWait", "swForget")
        PROVE  CallSettles(a)'
    <3>1. /\ pc[a] \in {"wait", "swWait"} /\ pc'[a] \in {"kill", "swForget"}
      BY <2>6 DEF Gone, KillVictim, TypeOK
    <3>2. OnlyLeft(victim[a])
      BY <2>0, <3>1 DEF CallSettles
    <3>3. Settled'
      <4> SUFFICES ASSUME NEW i \in Sups, Alive(i)'
                   PROVE  Leaving(i)'
        BY DEF Settled
      <4>1. i = victim[a] => FALSE
        <5> SUFFICES ASSUME i = victim[a] PROVE FALSE
          OBVIOUS
        <5>1. phase'[i] \in {"unused", "dead"}
          BY <2>6 DEF Gone, KillVictim, Kill, Alive, TypeOK
        <5> QED BY <5>1 DEF Alive
      <4> QED BY <1>8, <3>2, <4>1 DEF OnlyLeft
    <3> QED BY <3>1, <3>3 DEF CallSettles, StoppedAt
  <2>7. CallSettles(a)'
    BY <2>4, <2>5, <2>6
  <2> QED BY <1>1, <1>2, <2>2, <2>3, <2>7, OneMoves
<1> QED BY <1>3, <1>6, <1>7, <1>10 DEF Sharing

\* The rest of a start: the new supervisor is the only one to act, its log is
\* empty, and the panel has it in hand until the record names it.
LEMMA StartSharing ==
    ASSUME TypeOK, Sharing, NEW a \in Actors, Spawn(a) \/ Put(a) \/ Mark(a)
    PROVE  Sharing'
<1> USE DEF sups, files, Move
<1>1. ActorNext(a) /\ ~Quit(a)
  BY DEF ActorNext, Quit, Spawn, Put, Mark
<1>2. /\ OneCall
      /\ ~forked => /\ AllNamed /\ LogIsOwn /\ RowIsOwn
                    /\ CallSettles(a)
  BY DEF Sharing
<1>3. /\ \A b \in Actors \ {a} : pc[b] \in {"off", "idle"} /\ pc'[b] = pc[b]
      /\ forked' = forked
      /\ Call(a)' => OneCall'
      /\ CallSettles(a)' => \A b \in Actors : CallSettles(b)'
  BY <1>1, <1>2, OneMoves
<1>4. CASE Spawn(a)
  <2>1. PICK i \in Sups : /\ phase[i] = "unused"
                          /\ phase' = [phase EXCEPT ![i] = "boot"]
                          /\ parent' = [parent EXCEPT ![i] = a]
                          /\ victim' = [victim EXCEPT ![a] = i]
    BY <1>4 DEF Spawn
  <2>2. /\ UNCHANGED <<rec, supFile, events, child, seen>>
        /\ pc[a] = "spawn" /\ pc'[a] = "put" /\ victim'[a] = i
        /\ phase'[i] = "boot" /\ parent'[i] = a
        /\ \A j \in Sups \ {i} : phase'[j] = phase[j] /\ parent'[j] = parent[j]
    BY <1>4, <2>1 DEF Spawn, TypeOK
  <2>3. rec = NoRec
    BY <1>2, <2>2 DEF OneCall, Call, Unlists
  <2>4. OneCall'
    BY <1>3, <2>2, <2>3 DEF Call
  <2>5. ChildrenWatched'
    BY <2>1, <2>2 DEF Sharing, ChildrenWatched, TypeOK
  <2>6. ASSUME ~forked
        PROVE  AllNamed' /\ CallSettles(a)' /\ LogIsOwn' /\ RowIsOwn'
    <3>1. Settled /\ events = NoEvents
      BY <1>2, <2>2, <2>6 DEF CallSettles, LogIsOwn, StoppedAt
    <3>2. \A j \in Sups \ {i} : Alive(j)' => Leaving(j)'
      BY <2>2, <3>1 DEF Settled, Alive, Leaving
    <3>3. Named(i)'
      BY <2>2, <2>3 DEF Named, Unlisted
    <3>4. AllNamed' /\ CallSettles(a)'
      BY <2>2, <3>2, <3>3 DEF AllNamed, CallSettles, OnlyLeft, StoppedAt
    <3>5. LogIsOwn'
      BY <1>3, <2>2, <2>3, <3>1 DEF LogIsOwn, NoEvents
    <3>6. RowIsOwn'
      BY <2>2, <2>3, NoPidApart DEF RowIsOwn, NoRec
    <3> QED BY <3>4, <3>5, <3>6
  <2> QED BY <1>3, <2>4, <2>5, <2>6 DEF Sharing
<1>5. CASE Put(a)
  <2>1. /\ UNCHANGED <<supFile, events, phase, parent, child, seen, victim>>
        /\ pc[a] = "put" /\ pc'[a] = "mark" /\ victim[a] \in Sups
        /\ rec' = [sup |-> victim[a], child |-> NoPid, status |-> "starting"]
    BY <1>5 DEF Put, TypeOK
  <2>2. OneCall'
    BY <1>3, <2>1 DEF Call, Unlists
  <2>3. ChildrenWatched'
    BY <2>1 DEF Sharing, ChildrenWatched
  <2>4. ASSUME ~forked
        PROVE  AllNamed' /\ CallSettles(a)' /\ LogIsOwn' /\ RowIsOwn'
    <3>1. OnlyLeft(victim[a]) /\ LogIsOwn
      BY <1>2, <2>1, <2>4 DEF CallSettles
    <3>2. AllNamed'
      BY <2>1, <3>1 DEF AllNamed, OnlyLeft, Named, Alive, Leaving
    <3>3. CallSettles(a)'
      BY <2>1 DEF CallSettles, StoppedAt
    <3>4. LogIsOwn'
      BY <1>3, <2>1, <3>1 DEF LogIsOwn, Fresh
    <3>5. RowIsOwn'
      BY <2>1 DEF RowIsOwn, Fresh
    <3> QED BY <3>2, <3>3, <3>4, <3>5
  <2> QED BY <1>3, <2>2, <2>3, <2>4 DEF Sharing
<1>6. CASE Mark(a)
  <2>1. /\ UNCHANGED <<rec, events, phase, parent, child, seen>>
        /\ pc[a] = "mark" /\ pc'[a] = "fold" /\ victim[a] \in Sups
        /\ snap'[a] = rec
    BY <1>6 DEF Mark, TypeOK
  <2>2. rec.sup = victim[a]
    BY <1>2, <2>1 DEF OneCall, Call
  <2>3. rec # NoRec
    BY <2>1, <2>2, NoPidApart DEF NoRec
  <2>4. OneCall'
    BY <1>3, <2>1 DEF Call, Unlists
  <2>5. ChildrenWatched'
    BY <2>1 DEF Sharing, ChildrenWatched
  <2>6. ASSUME ~forked
        PROVE  AllNamed' /\ CallSettles(a)' /\ LogIsOwn' /\ RowIsOwn'
    <3>1. AllNamed'
      BY <1>2, <2>1, <2>3, <2>6 DEF AllNamed, Named, Alive, Leaving
    <3>2. CallSettles(a)'
      BY <2>1 DEF CallSettles, StoppedAt
    <3>3. LogIsOwn' /\ RowIsOwn'
      BY <1>2, <1>3, <2>1, <2>6 DEF LogIsOwn, RowIsOwn, Fresh
    <3> QED BY <3>1, <3>2, <3>3
  <2> QED BY <1>3, <2>4, <2>5, <2>6 DEF Sharing
<1> QED BY <1>4, <1>5, <1>6

\* The log is folded into the row of the supervisor that wrote it.
LEMMA FoldSharing ==
    ASSUME TypeOK, Sharing, NEW a \in Actors, Fold(a)
    PROVE  Sharing'
<1> USE DEF sups, files, Move
<1>1. ActorNext(a) /\ ~Quit(a)
  BY DEF ActorNext, Quit, Fold
<1>2. /\ OneCall
      /\ ~forked => AllNamed /\ LogIsOwn /\ RowIsOwn
  BY DEF Sharing
<1>3. /\ \A b \in Actors \ {a} : pc[b] \in {"off", "idle"} /\ pc'[b] = pc[b]
      /\ forked' = forked
      /\ Call(a)' => OneCall'
      /\ CallSettles(a)' => \A b \in Actors : CallSettles(b)'
  BY <1>1, <1>2, OneMoves
<1>4. pc[a] = "fold" /\ snap[a] = rec
  BY <1>2 DEF Fold, OneCall, Call
<1>5. /\ rec' = rec \/ (rec # NoRec /\ rec' = Folded(rec))
      /\ pc'[a] \in {"idle", "swTerm", "term"}
      /\ pc'[a] = "swTerm" => rec' = NoRec
      /\ UNCHANGED <<supFile, events, phase, parent, child, seen, victim, forked>>
  BY <1>4 DEF Fold, TypeOK
<1>6. OneCall'
  BY <1>3, <1>5 DEF Call, Unlists
<1>7. ChildrenWatched'
  BY <1>5 DEF Sharing, ChildrenWatched
<1>8. ASSUME ~forked
      PROVE  AllNamed' /\ CallSettles(a)' /\ LogIsOwn' /\ RowIsOwn'
  <2>0. AllNamed /\ LogIsOwn /\ RowIsOwn
    BY <1>2, <1>8
  <2>1. rec'.sup = rec.sup
    BY <1>5 DEF Folded, TypeOK, Record
  <2>2. rec = NoRec <=> rec' = NoRec
    BY <1>5, <2>0, <2>1, NoPidApart DEF NoRec, RowIsOwn
  <2>3. AllNamed'
    <3>1. ASSUME NEW i \in Sups, Alive(i), Named(i)
          PROVE  Named(i)'
      <4>1. ~Unlisted(i)
        BY <1>3, <1>4 DEF Unlisted
      <4> QED BY <1>5, <2>1, <2>2, <3>1, <4>1 DEF Named
    <3> QED BY <1>5, <2>0, <3>1 DEF AllNamed, Alive, Leaving
  <2>4. CallSettles(a)'
    BY <1>5 DEF CallSettles, StoppedAt
  <2>5. LogIsOwn'
    BY <1>3, <1>5, <2>0, <2>1, <2>2 DEF LogIsOwn, Fresh
  <2>6. RowIsOwn'
    <3>1. CASE rec' = rec
      BY <1>5, <2>0, <3>1 DEF RowIsOwn, Fresh
    <3>2. CASE rec # NoRec /\ rec' = Folded(rec)
      <4>1. rec'.status = "live" => rec.status = "live" \/ events.url
        BY <3>2 DEF Folded, TypeOK, Record
      <4>2. ASSUME NEW i \in Sups, Fresh(i), rec.sup = i
            PROVE  rec'.status \in {"starting", "live"}
        <5>1. ~events.error /\ ~events.exit /\ rec.status \in {"starting", "live"}
          BY <2>0, <4>2 DEF LogIsOwn, RowIsOwn
        <5>2. Alive(rec.sup)
          BY <4>2 DEF Fresh, Alive
        <5> QED BY <3>2, <5>1, <5>2 DEF Folded, TypeOK, Record
      <4> QED BY <1>5, <2>0, <2>1, <3>2, <4>1, <4>2 DEF RowIsOwn, LogIsOwn, Fresh
    <3> QED BY <1>5, <3>1, <3>2
  <2> QED BY <2>3, <2>4, <2>5, <2>6
<1> QED BY <1>3, <1>6, <1>7, <1>8 DEF Sharing

\* Where calls do not overlap, the invariant is kept by every step.
LEMMA SharingStep ==
    ASSUME ~Overlap, TypeOK, Sharing, [Next]_vars
    PROVE  Sharing'
<1>1. CASE UNCHANGED vars
  BY <1>1 DEF vars, files, sups, actors, Sharing, ChildrenWatched, OneCall, Busy,
     Call, AllNamed, Named, Unlisted, CallSettles, Settled, OnlyLeft, Alive, Leaving,
     LogIsOwn, RowIsOwn, Fresh
<1>2. CASE \E i \in Sups : SupNext(i) \/ Publish(i) \/ ChildExits(i)
  BY <1>2, SupSharing
<1>3. CASE \E p \in Panels : \/ Launch(p) \/ Browse(p) \/ ExitPanel(p)
                             \/ StartShare(p) \/ StopShare(p)
  BY <1>3, EntrySharing DEF Actors, Launch, Browse, ExitPanel, StartShare, StopShare
<1>4. CASE \E c \in Cleaners : CleanupStart(c) \/ DeleteShare(c)
  BY <1>4, EntrySharing DEF Actors, CleanupStart, DeleteShare
<1>5. ASSUME NEW a \in Actors, ActorNext(a), ~Quit(a)
      PROVE  Sharing'
  BY <1>5, SettledSharing, SignalSharing, StartSharing, FoldSharing DEF ActorNext
<1>6. CASE \/ \E a \in Actors : Quit(a) \/ Crash(a)
           \/ \E p \in Panels : CrashInSpawn(p)
           \/ Reboot
  BY <1>6, DeathSharing
<1> QED BY <1>1, <1>2, <1>3, <1>4, <1>5, <1>6 DEF Next

\* The invariant of sharing, of histories without overlapping calls.
LEMMA SharingHolds ==
    ASSUME ~Overlap
    PROVE  Spec => []Sharing
<1>1. ASSUME Init
      PROVE  Sharing
  BY <1>1, NoPidApart DEF Init, Sharing, ChildrenWatched, OneCall, Busy, Call, Unlists,
     AllNamed, Alive, CallSettles, StoppedAt, LogIsOwn, NoEvents, RowIsOwn, NoRec, Fresh
<1>2. TypeOK /\ Sharing /\ [Next]_vars => Sharing'
  BY SharingStep
<1> QED BY <1>1, <1>2, TunnelTypes, PTL DEF Spec

\* start and stop: a tunnel of a live panel that nobody has asked to stop is the
\* one the registry lists, through every crash and reboot.
THEOREM TunnelsListed ==
    ASSUME ~Overlap
    PROVE  Spec => []NoHiddenTunnel
<1>1. ASSUME TypeOK, Sharing
      PROVE  NoHiddenTunnel
  <2> SUFFICES ASSUME ~forked, NEW i \in child \ told, parent[i] # NoPid
               PROVE  \/ pc[parent[i]] = "put" /\ victim[parent[i]] = i
                      \/ rec.sup = i /\ rec.status \in {"starting", "live"}
    BY DEF NoHiddenTunnel
  <2>1. i \in Sups /\ Alive(i) /\ ~Leaving(i) /\ Fresh(i)
    BY <1>1 DEF TypeOK, Sharing, ChildrenWatched, Alive, Leaving, Fresh
  <2>2. rec.sup = i \/ Unlisted(i)
    BY <1>1, <2>1 DEF Sharing, AllNamed, Named
  <2> QED BY <1>1, <2>1, <2>2 DEF Sharing, RowIsOwn, Unlisted
<1> QED BY <1>1, TunnelTypes, SharingHolds, PTL

\* refresh_all: a row is live only by its own supervisor's public URL, whatever
\* an earlier share of the service left in the log.
THEOREM RowsPublished ==
    ASSUME ~Overlap
    PROVE  Spec => []LiveRowsPublished
<1>1. Sharing => LiveRowsPublished
  BY DEF Sharing, RowIsOwn, LiveRowsPublished
<1> QED BY <1>1, SharingHolds, PTL

\* stop_all: a panel about to exit leaves no supervisor and no tunnel of its own.
THEOREM ExitsClean ==
    ASSUME ~Overlap
    PROVE  Spec => []ExitLeavesNothing
<1>1. ASSUME TypeOK, Sharing
      PROVE  ExitLeavesNothing
  <2> SUFFICES ASSUME ~forked, NEW p \in Panels, pc[p] = "quit",
                      NEW i \in Sups, parent[i] = p
               PROVE  ~Alive(i) /\ i \notin child
    BY DEF ExitLeavesNothing
  <2>1. Settled /\ parent[i] # NoPid
    BY <1>1, NoPidApart DEF Sharing, CallSettles, StoppedAt, Actors
  <2>2. ~Alive(i)
    BY <2>1 DEF Settled, Leaving
  <2> QED BY <1>1, <2>2 DEF Sharing, ChildrenWatched, Alive
<1> QED BY <1>1, TunnelTypes, SharingHolds, PTL
=============================================================================
