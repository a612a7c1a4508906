------------------------------ MODULE ChildKill ------------------------------
(***************************************************************************)
(* A child process under a deadline: `git clone` (hoster/gitclone.rs,      *)
(* run_with_timeout) and a host-phase downloader (hoster/prefetch.rs,      *)
(* run_host_step_timed).  Both start the child in a process group of its   *)
(* own, poll it, kill it at the deadline, and then read its pipes to their *)
(* end.  The first reads them when the child is gone, the second by        *)
(* threads that it joins; both wait for the last holder of the pipe.  The  *)
(* kill is sent to the pid of the child, where the comments say it is sent *)
(* to the group: whatever the child has started lives on.                  *)
(***************************************************************************)

VARIABLES
    caller,     \* where the caller is
    child,      \* "runs", "hit" (killed, not yet gone), "done", "failed", "killed"
    helper      \* a process the child has started: "none", "runs", "gone"

killVars == <<caller, child, helper>>

Reaped == child \in {"done", "failed", "killed"}
PipeClosed == Reaped /\ helper \in {"none", "gone"}
Returned == caller \in {"ok", "error", "timeout"}

KillInit == caller = "poll" /\ child = "runs" /\ helper = "none"

\* A helper (git-remote-https, the node of an npm) shares the child's pipes.
StartHelper ==
    /\ child = "runs" /\ helper = "none"
    /\ helper' = "runs"
    /\ UNCHANGED <<caller, child>>

ChildExits ==
    /\ child = "runs"
    /\ child' \in {"done", "failed"}
    /\ UNCHANGED <<caller, helper>>

HelperEnds ==
    /\ helper = "runs"
    /\ helper' = "gone"
    /\ UNCHANGED <<caller, child>>

\* A process in an uninterruptible wait goes when that wait is over.
KillTakesEffect ==
    /\ child = "hit"
    /\ child' = "killed"
    /\ UNCHANGED <<caller, helper>>

\* try_wait has the status: no deadline from here on.
SeesExit ==
    /\ caller = "poll" /\ Reaped
    /\ caller' = "read"
    /\ UNCHANGED <<child, helper>>

\* Mutation: the deadline is noticed, and nothing is killed.
SigkillNobody == UNCHANGED <<child, helper>>

\* kill(g) with the positive pid, then child.kill(): both reach the child alone.
sigkill ==
    /\ child' = IF child = "runs" THEN "hit" ELSE child
    /\ UNCHANGED helper

Deadline ==
    /\ caller = "poll"
    /\ caller' = "grace"
    /\ sigkill

\* The reap-confirm loop, until the child is gone or the grace is over; then
\* the wait for the child.
KillAgain ==
    /\ caller = "grace" /\ ~Reaped
    /\ sigkill
    /\ UNCHANGED caller

GraceOver ==
    /\ caller = "grace"
    /\ caller' = "drain"
    /\ UNCHANGED <<child, helper>>

\* read_to_end, wait_with_output or the joins, and wait.
ReadsToEnd ==
    /\ caller \in {"read", "drain"} /\ PipeClosed
    /\ caller' = CASE caller = "drain" -> "timeout"
               [] caller = "read" /\ child = "done" -> "ok"
               [] OTHER -> "error"
    /\ UNCHANGED <<child, helper>>

Caller == SeesExit \/ Deadline \/ KillAgain \/ GraceOver \/ ReadsToEnd
KillNext == StartHelper \/ ChildExits \/ HelperEnds \/ KillTakesEffect \/ Caller

\* The caller's thread runs and SIGKILL works; neither the child nor a helper
\* has to end by itself.
KillFair ==
    /\ WF_killVars(SeesExit \/ Deadline)
    /\ WF_killVars(GraceOver) /\ WF_killVars(ReadsToEnd)
    /\ WF_killVars(KillTakesEffect)
KillSpec == KillInit /\ [][KillNext]_killVars /\ KillFair

\* Every run under a deadline comes back to its caller, whether the child ends,
\* hangs or ignores the first kill.  A caller waits without end for one thing
\* only: a helper of the child that holds its pipes.
KilledRunsReturn == caller = "poll" ~> Returned \/ helper = "runs"
=============================================================================
