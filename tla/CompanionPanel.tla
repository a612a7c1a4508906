--------------------------- MODULE CompanionPanel ---------------------------
(***************************************************************************)
(* The second panel (tui_v2/mod.rs): one loop that first drains the        *)
(* channel and then handles one key, with scans, deploys and journal reads *)
(* in threads of their own.  It has no detection, no wizard and no         *)
(* tailers; its messages carry a number only when they come from a scan.   *)
(***************************************************************************)
EXTENDS Naturals, Sequences, SequencesExt, FiniteSets

CONSTANTS MaxScans, MaxDeploys, MaxOpens,   \* bounds: threads of each kind started
          JournalLines                      \* lines the journal returns

NoAnswer == 0   \* scans and deploys are numbered from one

VARIABLES
  scr,      \* the screen and what it shows
  inbox,    \* the channel
  threads,  \* the running threads: scans, deploys and journal reads
  seq,      \* scans started (scan_seq)
  born,     \* deploys and log screens started so far
  soft,     \* software_history
  exited    \* the panel left its loop

companionVars == <<scr, inbox, threads, seq, born, soft, exited>>

Main == [name |-> "main"]
Url == [name |-> "url"]
Services == [name |-> "services"]
Scan(n, report) == [name |-> "scan", seq |-> n, report |-> report]
Deploy(n, done) == [name |-> "deploy", job |-> n, done |-> done]
Ask(what, yes) == [name |-> "ask", what |-> what, yes |-> yes]
Logs(lines) == [name |-> "logs", lines |-> lines]

CompanionInit ==
  /\ scr = Main
  /\ inbox = <<>>
  /\ threads = {}
  /\ seq = 0
  /\ born = [deploys |-> 0, opens |-> 0]
  /\ soft = 0
  /\ exited = FALSE

Keys == ~exited /\ inbox = <<>>

-----------------------------------------------------------------------------
(* Threads *)

\* A scan ends with its report, a deploy with its outcome, a journal read with
\* all the lines the journal holds.
ThreadEnds ==
  \E t \in threads :
    /\ threads' = threads \ {t}
    /\ CASE t.kind = "scan" -> inbox' = Append(inbox, [tag |-> "ScanDone", seq |-> t.id])
         [] t.kind = "deploy" -> inbox' = Append(inbox, [tag |-> "DeployDone", job |-> t.id])
         [] OTHER -> inbox' = Append(inbox, [tag |-> "SoftwareLog", lines |-> JournalLines])
    /\ UNCHANGED <<scr, seq, born, soft, exited>>

-----------------------------------------------------------------------------
(* Messages, drained before any key *)

\* Mutation: a report is shown on any scan screen.
ScanDoneAny(m) ==
  /\ scr' = IF scr.name = "scan" THEN Scan(scr.seq, m.seq) ELSE scr
  /\ UNCHANGED soft

\* A report is shown only on the scan screen that asked for it.
ScanDone(m) ==
  /\ scr' = IF scr.name = "scan" /\ scr.seq = m.seq THEN Scan(scr.seq, m.seq) ELSE scr
  /\ UNCHANGED soft

\* The outcome of a deploy carries no number: the open deploy screen takes it.
DeployDone(m) ==
  /\ scr' = IF scr.name = "deploy" THEN Deploy(scr.job, m.job) ELSE scr
  /\ UNCHANGED soft

SoftwareLog(m) ==
  /\ soft' = soft + m.lines
  /\ scr' = IF scr.name = "logs" THEN Logs(scr.lines + m.lines) ELSE scr

Drain ==
  /\ ~exited
  /\ inbox # <<>>
  /\ LET m == Head(inbox)
     IN CASE m.tag = "ScanDone" -> ScanDone(m)
          [] m.tag = "DeployDone" -> DeployDone(m)
          [] OTHER -> SoftwareLog(m)
  /\ inbox' = Tail(inbox)
  /\ UNCHANGED <<threads, seq, born, exited>>

-----------------------------------------------------------------------------
(* Keys *)

StartScan ==
  /\ Keys /\ scr = Main
  /\ seq < MaxScans
  /\ seq' = seq + 1
  /\ threads' = threads \cup {[kind |-> "scan", id |-> seq + 1]}
  /\ scr' = Scan(seq + 1, NoAnswer)
  /\ UNCHANGED <<inbox, born, soft, exited>>

OpenScreen ==
  /\ Keys /\ scr = Main
  /\ scr' \in {Url, Services}
  /\ UNCHANGED <<inbox, threads, seq, born, soft, exited>>

\* The first opening reads the journal in place; every opening also starts a
\* thread that reads it again.
OpenLogs ==
  /\ Keys /\ scr = Main
  /\ born.opens < MaxOpens
  /\ born' = [born EXCEPT !.opens = @ + 1]
  /\ soft' = IF soft = 0 THEN JournalLines ELSE soft
  /\ scr' = Logs(IF soft = 0 THEN JournalLines ELSE soft)
  /\ threads' = threads \cup {[kind |-> "journal", id |-> born.opens + 1]}
  /\ UNCHANGED <<inbox, seq, exited>>

\* A manifest path is confirmed first, on [N]o while the binary is outdated; a
\* service is confirmed before it is deleted, always on [N]o.
AskFirst ==
  /\ Keys
  /\ \/ scr = Url /\ \E fresh \in BOOLEAN : scr' = Ask("deploy", fresh)
     \/ scr = Services /\ scr' = Ask("delete", FALSE)
  /\ UNCHANGED <<inbox, threads, seq, born, soft, exited>>

Flip ==
  /\ Keys /\ scr.name = "ask"
  /\ scr' = Ask(scr.what, ~scr.yes)
  /\ UNCHANGED <<inbox, threads, seq, born, soft, exited>>

ConfirmDeploy ==
  /\ Keys /\ scr = Ask("deploy", TRUE)
  /\ born.deploys < MaxDeploys
  /\ born' = [born EXCEPT !.deploys = @ + 1]
  /\ threads' = threads \cup {[kind |-> "deploy", id |-> born.deploys + 1]}
  /\ scr' = Deploy(born.deploys + 1, NoAnswer)
  /\ UNCHANGED <<inbox, seq, soft, exited>>

\* A deletion runs inside the key handler and returns to the services.
AnswerOther ==
  /\ Keys /\ scr.name = "ask"
  /\ scr' = IF scr.what = "deploy" THEN Url ELSE Services
  /\ scr.what = "delete" \/ ~scr.yes
  /\ UNCHANGED <<inbox, threads, seq, born, soft, exited>>

\* Every screen but a running deploy goes back to the menu.
MayLeave ==
  /\ scr.name \in {"scan", "url", "services", "logs", "deploy"}
  /\ scr.name = "deploy" => scr.done # NoAnswer

Leave ==
  /\ Keys /\ MayLeave
  /\ scr' = Main
  /\ UNCHANGED <<inbox, threads, seq, born, soft, exited>>

\* Ctrl+C anywhere, Esc or q on the menu, or a termination signal.
Exit ==
  /\ Keys
  /\ exited' = TRUE
  /\ UNCHANGED <<scr, inbox, threads, seq, born, soft>>

CompanionNext ==
  \/ ThreadEnds \/ Drain
  \/ StartScan \/ OpenScreen \/ OpenLogs \/ AskFirst \/ Flip \/ ConfirmDeploy
  \/ AnswerOther \/ Leave \/ Exit

CompanionSpec == CompanionInit /\ [][CompanionNext]_companionVars

-----------------------------------------------------------------------------
(* Properties *)

\* A screen shows only the answer to what it asked: a scan left with Esc does
\* not fill the screen of a later one, and the outcome a deploy screen reports
\* is its own worker's, although that message carries no number.
AnswersAreTheirOwn ==
  /\ scr.name = "scan" => scr.report \in {NoAnswer, scr.seq}
  /\ scr.name = "deploy" => scr.done \in {NoAnswer, scr.job}

\* A screen that waits has somebody to wait for: its thread still runs or its
\* answer is in the channel, so no spinner turns forever.
WaitersAreServed ==
  /\ (scr.name = "scan" /\ scr.report = NoAnswer) =>
       \/ [kind |-> "scan", id |-> scr.seq] \in threads
       \/ \E i \in DOMAIN inbox : inbox[i].tag = "ScanDone" /\ inbox[i].seq = scr.seq
  /\ (scr.name = "deploy" /\ scr.done = NoAnswer) =>
       \/ [kind |-> "deploy", id |-> scr.job] \in threads
       \/ \E i \in DOMAIN inbox : inbox[i].tag = "DeployDone" /\ inbox[i].job = scr.job

-----------------------------------------------------------------------------
(* Why they hold: an inductive strengthening *)

Messages == [tag : {"ScanDone"}, seq : Nat \ {0}] \cup [tag : {"DeployDone"}, job : Nat \ {0}]
              \cup [tag : {"SoftwareLog"}, lines : {JournalLines}]

CompanionTyped ==
  /\ inbox \in Seq(Messages)
  /\ threads \subseteq [kind : {"scan", "deploy", "journal"}, id : Nat \ {0}]
  /\ seq \in Nat /\ born \in [deploys : Nat, opens : Nat]

\* A deploy that runs, or whose outcome is on its way, is the one that the open
\* screen waits for, and there is only one: that is why the message needs no number.
OneWorker ==
  /\ \A t \in threads : t.kind = "deploy" =>
       scr.name = "deploy" /\ scr.job = t.id /\ scr.done = NoAnswer
  /\ \A i \in DOMAIN inbox : inbox[i].tag = "DeployDone" =>
       /\ scr.name = "deploy" /\ scr.job = inbox[i].job /\ scr.done = NoAnswer
       /\ [kind |-> "deploy", id |-> scr.job] \notin threads
       /\ \A j \in DOMAIN inbox : inbox[j].tag = "DeployDone" => j = i

CompanionInv == CompanionTyped /\ OneWorker /\ AnswersAreTheirOwn /\ WaitersAreServed
=============================================================================
