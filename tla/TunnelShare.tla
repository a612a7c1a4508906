---------------------------- MODULE TunnelShare ----------------------------
(***************************************************************************)
(* Public sharing of one service: networks/supervisor.rs, with the record  *)
(* it keeps in shares.json (networks/registry.rs), and the calls the panel *)
(* and the timer's `__cleanup` make.                                       *)
(*                                                                         *)
(* A panel starts a supervisor process, which starts and watches one       *)
(* cloudflared child.  They share no memory: the panel learns the child's  *)
(* fate from an event log and two pid files, and any process of the user   *)
(* may stop the share.  A process id is never used twice here.             *)
(***************************************************************************)
EXTENDS Naturals, FiniteSets

CONSTANTS
    Panels,     \* panel slots
    Cleaners,   \* slots of `__cleanup` processes
    Sups,       \* supervisors, one for each start; bounds the starts
    NoPid,      \* no process
    Overlap     \* whether calls of different processes may overlap

ASSUME PanelsApart == Panels \cap Cleaners = {}
ASSUME OverlapBool == Overlap \in BOOLEAN
ASSUME NoPidApart == NoPid \notin Sups \cup Panels

VARIABLES
    rec,        \* the service's record in shares.json
    supFile,    \* supervisor.pid
    childFile,  \* cloudflared.pid: the supervisor whose child it names
    events,     \* what read_events makes of events.log
    phase,      \* where each supervisor is
    parent,     \* the live panel that started it
    told,       \* supervisors whose stop flag is set
    child,      \* supervisors whose cloudflared runs
    seen,       \* supervisors that saw a public URL
    pc,         \* where each panel or cleaner is
    goal,       \* the call it is in
    snap,       \* the record it read last
    victim,     \* the supervisor it is stopping
    forked      \* history: a panel was killed between fork and prctl

files  == <<supFile, childFile>>
sups   == <<phase, parent, told, child, seen>>
actors == <<pc, goal, snap, victim>>
vars   == <<rec, files, events, sups, actors, forked>>

Actors == Panels \cup Cleaners
PidsOr == Sups \cup {NoPid}
Status == {"none", "starting", "live", "error", "stopped"}
Record == [sup : PidsOr, child : PidsOr, status : Status]
NoRec  == [sup |-> NoPid, child |-> NoPid, status |-> "none"]
NoEvents == [url |-> FALSE, error |-> FALSE, exit |-> FALSE]

Phases == {"unused", "boot", "pid", "armed", "born", "watch", "report",
           "rmSup", "rmChild", "dead"}
Places == {"off", "idle", "fold", "term", "wait", "kill", "forget", "unlist",
           "wipe", "spawn", "put", "mark", "swTerm", "swWait",
           "swForget", "swKill", "quit"}

TypeOK ==
    /\ rec \in Record
    /\ supFile \in PidsOr /\ childFile \in PidsOr
    /\ events \in [url : BOOLEAN, error : BOOLEAN, exit : BOOLEAN]
    /\ phase \in [Sups -> Phases]
    /\ parent \in [Sups -> Panels \cup {NoPid}]
    /\ told \subseteq Sups /\ child \subseteq Sups /\ seen \subseteq Sups
    /\ pc \in [Actors -> Places]
    /\ goal \in [Actors -> {"browse", "stop", "start", "exit"}]
    /\ snap \in [Actors -> Record]
    /\ victim \in [Actors -> PidsOr]
    /\ \A a \in Actors : pc[a] \in {"put", "mark"} => victim[a] \in Sups
    /\ forked \in BOOLEAN

Init ==
    /\ rec = NoRec
    /\ supFile = NoPid /\ childFile = NoPid
    /\ events = NoEvents
    /\ phase = [i \in Sups |-> "unused"]
    /\ parent = [i \in Sups |-> NoPid]
    /\ told = {} /\ child = {} /\ seen = {}
    /\ pc = [a \in Actors |-> "off"]
    /\ goal = [a \in Actors |-> "browse"]
    /\ snap = [a \in Actors |-> NoRec]
    /\ victim = [a \in Actors |-> NoPid]
    /\ forked = FALSE

Alive(i) == i \in Sups /\ phase[i] \notin {"unused", "dead"}

(***************************************************************************)
(* Signals.  Until the supervisor has its handlers, SIGTERM ends it; then  *)
(* it sets the stop flag.  SIGKILL ends it, and cloudflared with it        *)
(* (PR_SET_PDEATHSIG).                                                     *)
(***************************************************************************)
Term(who) ==
    /\ phase' = [i \in Sups |->
          IF i \in who /\ phase[i] \in {"boot", "pid"} THEN "dead"
          ELSE phase[i]]
    /\ told' = told \cup {i \in who : Alive(i) /\ phase[i] \notin {"boot", "pid"}}

Kill(i) ==
    /\ phase' = [phase EXCEPT ![i] = "dead"]
    /\ child' = child \ {i}

(***************************************************************************)
(* The supervisor.                                                         *)
(***************************************************************************)
SupStep(i, from, to) == phase[i] = from /\ phase' = [phase EXCEPT ![i] = to]

BootFails(i) ==
    /\ SupStep(i, "boot", "dead")
    /\ events' = [events EXCEPT !.error = TRUE, !.exit = TRUE]
    /\ UNCHANGED <<rec, files, parent, told, child, seen, actors, forked>>

WritePid(i) ==
    /\ SupStep(i, "boot", "pid")
    /\ supFile' = i
    /\ UNCHANGED <<rec, childFile, events, parent, told, child, seen, actors,
                   forked>>

Arm(i) ==
    /\ SupStep(i, "pid", "armed")
    /\ UNCHANGED <<rec, files, events, parent, told, child, seen, actors,
                   forked>>

SpawnChild(i) ==
    /\ SupStep(i, "armed", "born")
    /\ child' = child \cup {i}
    /\ UNCHANGED <<rec, files, events, parent, told, seen, actors, forked>>

SpawnFails(i) ==
    /\ SupStep(i, "armed", "rmSup")
    /\ events' = [events EXCEPT !.error = TRUE, !.exit = TRUE]
    /\ UNCHANGED <<rec, files, parent, told, child, seen, actors, forked>>

RecordChild(i) ==
    /\ SupStep(i, "born", "watch")
    /\ childFile' = i
    /\ UNCHANGED <<rec, supFile, events, parent, told, child, seen, actors,
                   forked>>

\* The first public URL in the child's output, which may outlast the child.
Publish(i) ==
    /\ phase[i] = "watch"
    /\ i \notin seen
    /\ seen' = seen \cup {i}
    /\ events' = [events EXCEPT !.url = TRUE, !.error = FALSE]
    /\ UNCHANGED <<rec, files, phase, parent, told, child, actors, forked>>

\* terminate_child, and the end of cloudflared by itself.
EndChild(i) ==
    /\ phase[i] = "watch"
    /\ i \in told \cap child
    /\ child' = child \ {i}
    /\ UNCHANGED <<rec, files, events, phase, parent, told, seen, actors,
                   forked>>

ChildExits(i) ==
    /\ i \in child
    /\ child' = child \ {i}
    /\ UNCHANGED <<rec, files, events, phase, parent, told, seen, actors,
                   forked>>

Reap(i) ==
    /\ SupStep(i, "watch", "report")
    /\ i \notin child
    /\ childFile' = NoPid
    /\ UNCHANGED <<rec, supFile, events, parent, told, child, seen, actors,
                   forked>>

\* A child that failed before it had a URL is an error.
Report(i) ==
    /\ SupStep(i, "report", "rmSup")
    /\ \E failed \in {e \in BOOLEAN : e => i \notin seen} :
          events' = [events EXCEPT !.exit = TRUE, !.error = @ \/ failed]
    /\ UNCHANGED <<rec, files, parent, told, child, seen, actors, forked>>

RemoveSupFile(i) ==
    /\ SupStep(i, "rmSup", "rmChild")
    /\ supFile' = NoPid
    /\ UNCHANGED <<rec, childFile, events, parent, told, child, seen, actors,
                   forked>>

RemoveChildFile(i) ==
    /\ SupStep(i, "rmChild", "dead")
    /\ childFile' = NoPid
    /\ UNCHANGED <<rec, supFile, events, parent, told, child, seen, actors,
                   forked>>

SupNext(i) ==
    \/ BootFails(i) \/ WritePid(i) \/ Arm(i) \/ SpawnChild(i) \/ SpawnFails(i)
    \/ RecordChild(i) \/ EndChild(i) \/ Reap(i) \/ Report(i)
    \/ RemoveSupFile(i) \/ RemoveChildFile(i)

(***************************************************************************)
(* Calls of a panel or a cleaner.                                          *)
(***************************************************************************)
Move(a, from, to) == pc[a] = from /\ pc' = [pc EXCEPT ![a] = to]

\* Nothing keeps two processes from such calls at once.  Overlap = FALSE limits
\* a run to the histories where they do not meet.
Turn(a) == Overlap \/ \A b \in Actors \ {a} : pc[b] \in {"off", "idle"}

\* A call begins with refresh_all, which loads the records ...
Enter(a, from, call) ==
    /\ Move(a, from, "fold")
    /\ goal' = [goal EXCEPT ![a] = call]
    /\ snap' = [snap EXCEPT ![a] = rec]
    /\ Turn(a)
    /\ UNCHANGED <<rec, files, events, sups, victim, forked>>

\* ... or with a read of the one record, when it is a stop.
EnterStop(a, from, call) ==
    /\ Move(a, from, "term")
    /\ goal' = [goal EXCEPT ![a] = call]
    /\ Turn(a)
    /\ UNCHANGED <<rec, files, events, sups, snap, victim, forked>>

\* The Networks screen reads its rows when it opens and every few ticks.
Launch(p)       == Enter(p, "off", "browse")
Browse(p)       == Enter(p, "idle", "browse")
ExitPanel(p)    == Enter(p, "idle", "exit")
CleanupStart(c) == Enter(c, "off", "exit")

StopShare(p)   == EnterStop(p, "idle", "stop")
\* uninstall_service and cleanup_stale, off the panel's event loop.
DeleteShare(c) == EnterStop(c, "off", "stop")

\* can_start, on the row the panel read last; then cloudflared is probed.
StartShare(p) ==
    /\ snap[p].status \notin {"starting", "live"}
    /\ \E i \in Sups : phase[i] = "unused"
    /\ EnterStop(p, "idle", "start")

\* Mutation: a share without a recorded child is taken for ended.
FoldedByChild(r) ==
    LET byUrl  == IF events.url THEN "live" ELSE r.status
        byErr  == IF events.error THEN "error" ELSE byUrl
        byExit == IF events.exit /\ byErr # "error" THEN "stopped" ELSE byErr
        byLife == IF childFile = NoPid /\ byExit \in {"starting", "live"}
                  THEN "stopped" ELSE byExit
    IN  [r EXCEPT !.child = childFile, !.status = byLife]

\* ... then folds events and liveness into them and saves them if changed.
Folded(r) ==
    LET byUrl  == IF events.url THEN "live" ELSE r.status
        byErr  == IF events.error THEN "error" ELSE byUrl
        byExit == IF events.exit /\ byErr # "error" THEN "stopped" ELSE byErr
        byLife == IF ~Alive(r.sup) /\ byExit \in {"starting", "live"}
                  THEN "stopped" ELSE byExit
    IN  [r EXCEPT !.child = childFile, !.status = byLife]

Changed(r) == Folded(r) # r \/ (events.url /\ r.status # "live")

Fold(a) ==
    LET saved == IF snap[a] # NoRec /\ Changed(snap[a]) THEN Folded(snap[a])
                 ELSE rec
    IN  /\ rec' = saved
        /\ snap' = [snap EXCEPT ![a] = saved]
        /\ Move(a, "fold", IF goal[a] = "browse" THEN "idle"
                           ELSE IF saved = NoRec THEN "swTerm" ELSE "term")
    /\ UNCHANGED <<files, events, sups, goal, victim, forked>>

(***************************************************************************)
(* stop: the supervisor, then its child, then the files and the record.    *)
(***************************************************************************)
TermVictim(a, from, to, i) ==
    /\ Move(a, from, to)
    /\ victim' = [victim EXCEPT ![a] = i]
    /\ Term({i} \cap Sups)
    /\ UNCHANGED <<rec, files, events, parent, child, seen, goal, forked>>

StopTerm(a) ==
    /\ TermVictim(a, "term", "wait", IF rec.sup # NoPid THEN rec.sup ELSE supFile)
    /\ snap' = [snap EXCEPT ![a] = rec]

\* Mutation: the supervisor is signalled and not waited for.
GoneUnawaited(a, from, to) ==
    /\ Move(a, from, to)
    /\ victim' = [victim EXCEPT ![a] = NoPid]
    /\ UNCHANGED <<rec, files, events, sups, goal, snap, forked>>

Gone(a, from, to) ==
    /\ Move(a, from, to)
    /\ ~Alive(victim[a])
    /\ victim' = [victim EXCEPT ![a] = NoPid]
    /\ UNCHANGED <<rec, files, events, sups, goal, snap, forked>>

\* The supervisor outlasts the grace periods.
KillVictim(a, from, to) ==
    /\ Move(a, from, to)
    /\ Alive(victim[a])
    /\ Kill(victim[a])
    /\ victim' = [victim EXCEPT ![a] = NoPid]
    /\ UNCHANGED <<rec, files, events, parent, told, seen, goal, snap, forked>>

StopKillChild(a) ==
    /\ Move(a, "kill", "forget")
    /\ child' = child \ {IF snap[a].child # NoPid THEN snap[a].child
                         ELSE childFile}
    /\ UNCHANGED <<rec, files, events, phase, parent, told, seen, goal, snap,
                   victim, forked>>

Forget(a) ==
    /\ Move(a, "forget", "unlist")
    /\ supFile' = NoPid /\ childFile' = NoPid
    /\ UNCHANGED <<rec, events, sups, goal, snap, victim, forked>>

Unlist(a) ==
    /\ \/ goal[a] = "start" /\ Move(a, "unlist", "wipe")
          /\ UNCHANGED <<goal, snap>>
       \/ goal[a] = "exit" /\ Move(a, "unlist", "swTerm")
          /\ UNCHANGED <<goal, snap>>
       \/ goal[a] = "stop" /\ a \in Cleaners /\ Move(a, "unlist", "quit")
          /\ UNCHANGED <<goal, snap>>
       \/ goal[a] = "stop" /\ a \in Panels /\ Move(a, "unlist", "fold")
          /\ goal' = [goal EXCEPT ![a] = "browse"]
          /\ snap' = [snap EXCEPT ![a] = NoRec]
    /\ rec' = NoRec
    /\ UNCHANGED <<files, events, sups, victim, forked>>

(***************************************************************************)
(* The rest of start.                                                      *)
(***************************************************************************)
\* Mutation: the event log of the last share is kept.
WipeFilesOnly(a) ==
    /\ Move(a, "wipe", "spawn")
    /\ supFile' = NoPid /\ childFile' = NoPid
    /\ UNCHANGED <<rec, events, sups, goal, snap, victim, forked>>

Wipe(a) ==
    /\ Move(a, "wipe", "spawn")
    /\ supFile' = NoPid /\ childFile' = NoPid
    /\ events' = NoEvents
    /\ UNCHANGED <<rec, sups, goal, snap, victim, forked>>

\* Mutation: the id of the new process is not kept.
SpawnUnnamed(a) ==
    /\ Move(a, "spawn", "put")
    /\ \E i \in Sups :
          /\ phase[i] = "unused"
          /\ phase' = [phase EXCEPT ![i] = "boot"]
          /\ parent' = [parent EXCEPT ![i] = a]
    /\ UNCHANGED <<rec, files, events, told, child, seen, goal, snap, victim,
                   forked>>

Spawn(a) ==
    /\ Move(a, "spawn", "put")
    /\ \E i \in Sups :
          /\ phase[i] = "unused"
          /\ phase' = [phase EXCEPT ![i] = "boot"]
          /\ parent' = [parent EXCEPT ![i] = a]
          /\ victim' = [victim EXCEPT ![a] = i]
    /\ UNCHANGED <<rec, files, events, told, child, seen, goal, snap, forked>>

SpawnFailed(a) ==
    /\ Move(a, "spawn", "idle")
    /\ snap' = [snap EXCEPT ![a] = NoRec]
    /\ UNCHANGED <<rec, files, events, sups, goal, victim, forked>>

Put(a) ==
    /\ Move(a, "put", "mark")
    /\ rec' = [sup |-> victim[a], child |-> NoPid, status |-> "starting"]
    /\ UNCHANGED <<files, events, sups, goal, snap, victim, forked>>

\* The panel writes the pid file too, then reads its rows again.
Mark(a) ==
    /\ Move(a, "mark", "fold")
    /\ supFile' = victim[a]
    /\ goal' = [goal EXCEPT ![a] = "browse"]
    /\ snap' = [snap EXCEPT ![a] = rec]
    /\ victim' = [victim EXCEPT ![a] = NoPid]
    /\ UNCHANGED <<rec, childFile, events, sups, forked>>

(***************************************************************************)
(* The end of a process.  Supervisors of a panel that dies get SIGTERM     *)
(* (PR_SET_PDEATHSIG).                                                     *)
(***************************************************************************)
Orphaned(p) == {i \in Sups : parent[i] = p}

\* Mutation: no signal when the parent dies.
DieQuietly(a) ==
    /\ pc' = [pc EXCEPT ![a] = "off"]
    /\ parent' = [i \in Sups |-> IF parent[i] = a THEN NoPid ELSE parent[i]]
    /\ snap' = [snap EXCEPT ![a] = NoRec]
    /\ victim' = [victim EXCEPT ![a] = NoPid]
    /\ goal' = [goal EXCEPT ![a] = "browse"]
    /\ UNCHANGED <<phase, told>>

Die(a) ==
    /\ pc' = [pc EXCEPT ![a] = "off"]
    /\ Term(Orphaned(a))
    /\ parent' = [i \in Sups |-> IF parent[i] = a THEN NoPid ELSE parent[i]]
    /\ snap' = [snap EXCEPT ![a] = NoRec]
    /\ victim' = [victim EXCEPT ![a] = NoPid]
    /\ goal' = [goal EXCEPT ![a] = "browse"]

(***************************************************************************)
(* sweep_orphans, the tail of stop_all.                                    *)
(***************************************************************************)
\* Mutation: stop_all ends with the records.
SweepNothing(a) ==
    /\ Move(a, "swTerm", "quit")
    /\ UNCHANGED <<rec, files, events, sups, goal, snap, victim, forked>>

SweepTerm(a) ==
    /\ TermVictim(a, "swTerm", IF supFile = NoPid THEN "swKill" ELSE "swWait",
                  supFile)
    /\ UNCHANGED snap

SweepForget(a) ==
    /\ Move(a, "swForget", "swKill")
    /\ supFile' = NoPid
    /\ UNCHANGED <<rec, childFile, events, sups, goal, snap, victim, forked>>

SweepChild(a) ==
    /\ Move(a, "swKill", "quit")
    /\ child' = child \ {childFile}
    /\ childFile' = NoPid
    /\ UNCHANGED <<rec, supFile, events, phase, parent, told, seen, goal, snap,
                   victim, forked>>

\* The process exits.
Quit(a) ==
    /\ pc[a] = "quit"
    /\ Die(a)
    /\ UNCHANGED <<rec, files, events, child, seen, forked>>

Crash(a) ==
    /\ pc[a] \notin {"off", "quit"}
    /\ Die(a)
    /\ UNCHANGED <<rec, files, events, child, seen, forked>>

\* A panel killed after the fork and before the new process has asked for the
\* signal: the supervisor never hears of it.
CrashInSpawn(p) ==
    /\ pc[p] = "spawn"
    /\ \E i \in Sups :
          /\ phase[i] = "unused"
          /\ phase' = [phase EXCEPT ![i] = "boot"]
    /\ Orphaned(p) \subseteq {i \in Sups : ~Alive(i)}
    /\ pc' = [pc EXCEPT ![p] = "off"]
    /\ parent' = [i \in Sups |-> IF parent[i] = p THEN NoPid ELSE parent[i]]
    /\ snap' = [snap EXCEPT ![p] = NoRec]
    /\ victim' = [victim EXCEPT ![p] = NoPid]
    /\ goal' = [goal EXCEPT ![p] = "browse"]
    /\ forked' = TRUE
    /\ UNCHANGED <<rec, files, events, told, child, seen>>

\* Every process ends; the state directory stays.
Reboot ==
    /\ phase' = [i \in Sups |-> IF Alive(i) THEN "dead" ELSE phase[i]]
    /\ parent' = [i \in Sups |-> NoPid]
    /\ child' = {}
    /\ pc' = [a \in Actors |-> "off"]
    /\ goal' = [a \in Actors |-> "browse"]
    /\ snap' = [a \in Actors |-> NoRec]
    /\ victim' = [a \in Actors |-> NoPid]
    /\ UNCHANGED <<rec, files, events, told, seen, forked>>

ActorNext(a) ==
    \/ Fold(a)
    \/ StopTerm(a) \/ Gone(a, "wait", "kill") \/ KillVictim(a, "wait", "kill")
    \/ StopKillChild(a) \/ Forget(a) \/ Unlist(a)
    \/ Wipe(a) \/ Spawn(a) \/ SpawnFailed(a) \/ Put(a) \/ Mark(a)
    \/ SweepTerm(a) \/ Gone(a, "swWait", "swForget")
    \/ KillVictim(a, "swWait", "swForget") \/ SweepForget(a) \/ SweepChild(a)
    \/ Quit(a)

Next ==
    \/ \E i \in Sups : SupNext(i) \/ Publish(i) \/ ChildExits(i)
    \/ \E p \in Panels :
          \/ Launch(p) \/ Browse(p) \/ ExitPanel(p)
          \/ StartShare(p) \/ StopShare(p) \/ CrashInSpawn(p)
    \/ \E c \in Cleaners : CleanupStart(c) \/ DeleteShare(c)
    \/ \E a \in Actors : ActorNext(a) \/ Crash(a)
    \/ Reboot

Spec == Init /\ [][Next]_vars

\* Processes that run are scheduled and the timer fires again and again; what
\* the user does and what cloudflared prints is not promised.
Fairness ==
    /\ \A i \in Sups : WF_vars(SupNext(i))
    /\ \A a \in Actors : WF_vars(ActorNext(a))
    /\ \A c \in Cleaners : WF_vars(CleanupStart(c))

FairSpec == Spec /\ Fairness

\* A reboot in which one process had nothing left but to exit is its exit.
Mishap ==
    /\ \/ \E a \in Actors : Crash(a)
       \/ \E p \in Panels : CrashInSpawn(p)
       \/ Reboot
    /\ ~\E a \in Actors : Quit(a)
    /\ ~\E i \in Sups : SupNext(i)

(***************************************************************************)
(* Properties.                                                             *)
(***************************************************************************)

\* start and stop: a tunnel nobody has asked to stop, of a panel that runs, is
\* the one the registry lists as starting or live (the panel is about to list
\* it, at most), so the user sees it and can stop it.
NoHiddenTunnel ==
    ~forked =>
        \A i \in child \ told :
            parent[i] # NoPid =>
                \/ pc[parent[i]] = "put" /\ victim[parent[i]] = i
                \/ rec.sup = i /\ rec.status \in {"starting", "live"}

\* refresh_all: a row is live only if its own supervisor saw a public URL, not
\* because of what an earlier share of the service left in the event log.
LiveRowsPublished == ~forked /\ rec.status = "live" => rec.sup \in seen

\* stop_all, "every running tunnel is stopped on exit": when a panel is about
\* to exit, the supervisors it started and their children have ended.
ExitLeavesNothing ==
    \A p \in Panels :
        (~forked /\ pc[p] = "quit") =>
            \A i \in Sups : parent[i] = p => ~Alive(i) /\ i \notin child

\* PR_SET_PDEATHSIG: when the panel dies in whatever way, its tunnel ends,
\* whether or not a clean-up ever gets to its end.
TunnelsDieWithPanel ==
    \A i \in Sups :
        (~forked /\ i \in child /\ parent[i] = NoPid) ~> i \notin child

\* sweep_orphans: a supervisor that only its pid file tells of is ended by the
\* timer, once crashes stop (unless a stop or a start of the service, which
\* removes that file, gets there first).
LostSharesAreSwept ==
    <>[][~Mishap]_vars =>
        \A i \in Sups :
            (rec = NoRec /\ supFile = i /\ Alive(i))
                ~> \/ ~Alive(i) \/ rec # NoRec
                   \/ \E a \in Actors : goal[a] \in {"stop", "start"}

\* NETWORKS.md: a service is shared while the panel is running, and __cleanup
\* sweeps what a lost registry left: it never ends a share of a live panel.
CleanupSparesLiveShares ==
    \A c \in Cleaners :
        (pc[c] = "wait" /\ goal[c] = "exit" /\ victim[c] \in Sups) =>
            parent[victim[c]] = NoPid
=============================================================================
