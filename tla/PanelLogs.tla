------------------------------ MODULE PanelLogs ------------------------------
(***************************************************************************)
(* deploy.log, its writers in any process (tui/workers.rs), the thread     *)
(* that tails it, and the Logs screen it feeds (tui/mod.rs).  crash.log is *)
(* written, rotated and tailed the same way (crashlog.rs).                 *)
(*                                                                         *)
(* A line is the number of its append; a byte offset is a number of lines. *)
(* An empty file stands for an absent one as well.                         *)
(***************************************************************************)
EXTENDS Naturals, SequencesExt

CONSTANTS
    Writers,    \* threads, of any process, that append
    Stopped,    \* bound: tailing threads told to stop that have not yet
    Cap, Keep,  \* MAX_DEPLOY_LOG_BYTES, DEPLOY_LOG_KEEP_BYTES
    MaxLines    \* bound of the appends

VARIABLES
    file,       \* deploy.log
    next,       \* the number of the next line
    wr,         \* by writer: its step, and the content it read to cut
    view,       \* "main", "logs" or "ask" (ConfirmClear)
    lines,      \* deploy_history, which the open view shows
    tail,       \* the tailing thread: state, offset, lines read and not sent
    inbox,      \* 0 is DeployLogsCleared
    draining,   \* the loop drains its inbox before it reads a key
    late,       \* stopped threads past their check: about to "send" a line (0, a
                \* clear), or to "read" the file with their offset
    mixed       \* history: a re-read, a late cut or a late line mixed old lines
                \* with new

logVars == <<file, next, wr, view, lines, tail, inbox, draining, late, mixed>>
panelVars == <<view, lines, tail, inbox, draining, late, mixed>>

Idle == [at |-> "idle", read |-> <<>>]
NoTail == [at |-> "off", pos |-> 0, buf |-> <<>>]
Gone == [at |-> "gone", n |-> 0]

LogInit ==
    /\ file = <<>> /\ next = 1 /\ wr = [w \in Writers |-> Idle]
    /\ view = "main" /\ lines = <<>> /\ tail = NoTail
    /\ inbox = <<>> /\ draining = TRUE
    /\ late = [t \in Stopped |-> Gone] /\ mixed = FALSE

(***************************************************************************)
(* append_deploy_log: look at the size, cut to the newest lines, append.   *)
(***************************************************************************)
CheckSize(w) ==
    /\ wr[w] = Idle /\ next <= MaxLines
    /\ wr' = [wr EXCEPT ![w] = IF Len(file) > Cap
                                THEN [at |-> "cut", read |-> file]
                                ELSE [at |-> "append", read |-> <<>>]]
    /\ UNCHANGED <<file, next, panelVars>>

Cut(w) ==
    /\ wr[w].at = "cut"
    /\ file' = LET r == wr[w].read IN SubSeq(r, Len(r) - Keep + 1, Len(r))
    /\ wr' = [wr EXCEPT ![w] = [at |-> "append", read |-> <<>>]]
    /\ mixed' = (mixed \/ ~IsPrefix(wr[w].read, file))
    /\ UNCHANGED <<next, view, lines, tail, inbox, draining, late>>

AppendLine(w) ==
    /\ wr[w].at = "append"
    /\ file' = Append(file, next)
    /\ next' = next + 1
    /\ wr' = [wr EXCEPT ![w] = Idle]
    /\ UNCHANGED panelVars

\* Another window clears the log.
ClearedElsewhere ==
    /\ file # <<>>
    /\ file' = <<>>
    /\ UNCHANGED <<next, wr, panelVars>>

\* Mutation: the tail starts at the top of the file.
TailFromTop ==
    /\ tail.at = "start"
    /\ tail' = [at |-> "poll", pos |-> 0, buf |-> <<>>]
    /\ UNCHANGED <<file, next, wr, view, lines, inbox, draining, late, mixed>>

(***************************************************************************)
(* spawn_file_tailer.                                                      *)
(***************************************************************************)
TailStarts ==
    /\ tail.at = "start"
    /\ tail' = [at |-> "poll", pos |-> Len(file), buf |-> <<>>]
    /\ UNCHANGED <<file, next, wr, view, lines, inbox, draining, late, mixed>>

Poll ==
    /\ tail.at = "poll" /\ tail.buf = <<>> /\ tail.pos # Len(file)
    /\ tail' = [tail EXCEPT
           !.pos = Len(file),
           !.buf = IF Len(file) < tail.pos THEN <<0>>
                   ELSE SubSeq(file, tail.pos + 1, Len(file))]
    /\ UNCHANGED <<file, next, wr, view, lines, inbox, draining, late, mixed>>

SendLine ==
    /\ tail.buf # <<>>
    /\ inbox' = Append(inbox, Head(tail.buf))
    /\ tail' = [tail EXCEPT !.buf = Tail(@)]
    /\ UNCHANGED <<file, next, wr, view, lines, draining, late, mixed>>

(***************************************************************************)
(* The event loop.                                                         *)
(***************************************************************************)
Drain ==
    /\ draining /\ inbox # <<>>
    /\ inbox' = Tail(inbox)
    /\ lines' = IF Head(inbox) = 0 THEN <<>> ELSE Append(lines, Head(inbox))
    /\ UNCHANGED <<file, next, wr, view, tail, draining, late, mixed>>

Drained ==
    /\ draining /\ inbox = <<>>
    /\ draining' = FALSE
    /\ UNCHANGED <<file, next, wr, view, lines, tail, inbox, late, mixed>>

KeyAt(v) == ~draining /\ view = v /\ draining' = TRUE

\* Nothing a stopped thread has sent or may still send is under way.
AllQuiet == inbox = <<>> /\ \A t \in Stopped : late[t] = Gone

OpenLogs ==
    /\ KeyAt("main")
    /\ view' = "logs"
    /\ lines' = IF file # <<>> THEN file ELSE lines
    /\ tail' = [NoTail EXCEPT !.at = "start"]
    /\ mixed' = ((mixed /\ file = <<>>) \/ ~AllQuiet)
    /\ UNCHANGED <<file, next, wr, inbox, late>>

\* stop_log_tailers stores a flag.  The thread tests it before it reads the file
\* and before each line, and so may have a read, a line or a clear before it.
LeaveLogs ==
    /\ KeyAt("logs")
    /\ view' = "main"
    /\ tail' = NoTail
    /\ \/ UNCHANGED late
       \/ \E t \in Stopped :
             /\ tail.at = "poll" /\ late[t] = Gone
             /\ late' = [late EXCEPT ![t] =
                   IF tail.buf = <<>> THEN [at |-> "read", n |-> tail.pos]
                   ELSE [at |-> "send", n |-> Head(tail.buf)]]
    /\ UNCHANGED <<file, next, wr, lines, inbox, mixed>>

\* A stopped thread sends what it has in hand, a clear if it finds the file
\* shorter than its offset, and nothing after it.
LateSend(t) ==
    /\ late[t].at = "send"
    /\ inbox' = Append(inbox, late[t].n)
    /\ late' = [late EXCEPT ![t] = Gone]
    /\ UNCHANGED <<file, next, wr, view, lines, tail, draining, mixed>>

LateRead(t) ==
    /\ late[t].at = "read"
    /\ late' = [late EXCEPT ![t] =
                   IF Len(file) < late[t].n THEN [at |-> "send", n |-> 0] ELSE Gone]
    /\ UNCHANGED <<file, next, wr, view, lines, tail, inbox, draining, mixed>>

AskClear ==
    /\ KeyAt("logs")
    /\ view' = "ask"
    /\ UNCHANGED <<file, next, wr, lines, tail, inbox, late, mixed>>

ClearDeployLog ==
    /\ KeyAt("ask")
    /\ view' = "logs"
    /\ file' = <<>> /\ lines' = <<>>
    /\ inbox' = Append(inbox, 0)
    /\ UNCHANGED <<next, wr, tail, late, mixed>>

\* The software or crash tab was cleared; the deploy tab is read again.
ClearOtherTab ==
    /\ KeyAt("ask")
    /\ view' = "logs"
    /\ lines' = file
    /\ mixed' = TRUE
    /\ UNCHANGED <<file, next, wr, tail, inbox, late>>

ClearRefused ==
    /\ KeyAt("ask")
    /\ view' = "logs"
    /\ lines' = IF lines = <<>> THEN file ELSE lines
    /\ mixed' = (mixed \/ lines = <<>>)
    /\ UNCHANGED <<file, next, wr, tail, inbox, late>>

LogNext ==
    \/ \E w \in Writers : CheckSize(w) \/ Cut(w) \/ AppendLine(w)
    \/ ClearedElsewhere \/ TailStarts \/ Poll \/ SendLine \/ Drain \/ Drained
    \/ OpenLogs \/ LeaveLogs \/ AskClear
    \/ \E t \in Stopped : LateSend(t) \/ LateRead(t)
    \/ ClearDeployLog \/ ClearOtherTab \/ ClearRefused

LogSpec == LogInit /\ [][LogNext]_logVars

Ascending(s) == \A i, j \in DOMAIN s : i < j => s[i] < s[j]

\* The view shows lines in the order they were written and none twice, while
\* writers cut the file under the tail, other windows clear it, and the user
\* leaves, clears and comes back, until the panel reads the file again behind
\* a running tail (ClearOtherTab), or before a tail it has stopped has noticed
\* that and its last line has been drained (OpenLogs), or a writer cuts what
\* another one has cut or cleared meanwhile and so writes old lines back.
ShownInOrder == view # "main" /\ ~mixed => Ascending(lines)

(***************************************************************************)
(* Why it holds: an inductive strengthening.  0 is no line, but the sign   *)
(* of a clear on its way.                                                  *)
(***************************************************************************)
Below(s, n) == n # 0 => \A i \in DOMAIN s : s[i] < n
Ordered(s) == \A i, j \in DOMAIN s : i < j /\ s[j] # 0 => s[i] < s[j]
Follows(s, t) == \A j \in DOMAIN t : Below(s, t[j])

\* What is shown, sent and read, in this order.
Seen == {lines, inbox, tail.buf}

LogTyped ==
  /\ next \in Nat \ {0} /\ file \in Seq(Nat)
  /\ wr \in [Writers -> [at : {"idle", "cut", "append"}, read : Seq(Nat)]]
  /\ lines \in Seq(Nat \ {0}) /\ inbox \in Seq(Nat)
  /\ tail \in [at : {"off", "start", "poll"}, pos : Nat, buf : Seq(Nat)]

Written(s) == Ascending(s) /\ \A i \in DOMAIN s : s[i] \in 1 .. next - 1

\* A cut writes back what it read, so the file always holds written lines, in
\* their order.
FilesAscend ==
  /\ Written(file)
  /\ \A w \in Writers : wr[w].at = "cut" => Written(wr[w].read) /\ Len(wr[w].read) > Cap

\* A closed view has no tail.
QuietWhenClosed ==
  /\ tail.at # "poll" => tail.buf = <<>>
  /\ view = "main" => tail.at = "off"

\* A cut takes lines from the front, so those behind the tail's offset were not
\* there when it read up to it.
UnreadIsNewer ==
  /\ \A s \in Seen : Below(s, next)
  /\ tail.at = "poll" =>
       \A s \in Seen : \A i \in DOMAIN file : i > tail.pos => Below(s, file[i])

InOrder ==
  /\ \A s \in Seen : Ordered(s)
  /\ Follows(lines, inbox) /\ Follows(lines, tail.buf) /\ Follows(inbox, tail.buf)
  /\ UnreadIsNewer

TailInv == LogTyped /\ FilesAscend /\ QuietWhenClosed /\ (~mixed => InOrder)

\* An open view whose lines are not mixed has no thread of an earlier one behind
\* it, and a closed one has at most one, whose line is newer than those shown and
\* sent.
OneBehind ==
  /\ view # "main" => \A t \in Stopped : late[t] = Gone
  /\ \A t, u \in Stopped : late[t] # Gone /\ late[u] # Gone => t = u

LateIsNewer ==
  \A t \in Stopped :
    late[t].at = "send" =>
        Below(lines, late[t].n) /\ Below(inbox, late[t].n) /\ late[t].n < next

LateInv ==
  /\ late \in [Stopped -> [at : {"gone", "send", "read"}, n : Nat]]
  /\ ~mixed => OneBehind /\ LateIsNewer

LogInv == TailInv /\ LateInv
=============================================================================
