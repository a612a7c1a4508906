----------------------------- MODULE RecordFiles -----------------------------
(***************************************************************************)
(* The files several processes of the program keep together: state.json    *)
(* and the deploy journal, read and replaced as a whole through            *)
(* atomic.rs write_atomic, and the network and crash logs, which are       *)
(* appended to and cut at a size.                                          *)
(*                                                                         *)
(* A process does one operation at a time, step by step, and may be        *)
(* killed between any two steps.                                           *)
(***************************************************************************)
EXTENDS Naturals, Sequences, FiniteSets, SequencesExt

CONSTANTS Procs,     \* processes of the program
          Rotate,    \* lines at which a log is cut
          Keep,      \* lines of the crash log that survive a cut
          MaxLines   \* bound: lines written to each log

VARIABLES
  about,    \* the file the processes work on: the three share nothing
  state,    \* the registered names in state.json, or the torn value
  temps,    \* content of each process's temporary file, by process
  proc,     \* what each process is doing
  net,      \* net.log and net.log.1
  crash,    \* crash.log
  wrote,    \* lines written so far to the network log and to the crash log
  missed    \* cuts of a file that have failed since the last that worked

recVars == <<about, state, temps, proc, net, crash, wrote, missed>>

Torn == {"torn"}
NoTemp == {"no file"}
Idle == [op |-> "idle"]

RecInit ==
  /\ about \in {"state", "net", "crash"}
  /\ state = {}
  /\ temps = [p \in Procs |-> NoTemp]
  /\ proc = [p \in Procs |-> Idle]
  /\ net = [live |-> <<>>, old |-> <<>>]
  /\ crash = <<>>
  /\ wrote = [net |-> 0, crash |-> 0]
  /\ missed = [live |-> 0, old |-> 0, crash |-> 0]

-----------------------------------------------------------------------------
(* state.json: register and unregister *)

\* The whole file is read and one entry changed in memory: p's own name, for a
\* service is deployed and removed by one process at a time.
Load(p) ==
  /\ about = "state"
  /\ proc[p].op = "idle"
  /\ \E change \in {state \cup {p}, state \ {p}} :
       proc' = [proc EXCEPT ![p] = [op |-> "store", new |-> change]]
  /\ UNCHANGED <<about, state, temps, net, crash, wrote, missed>>

\* write_atomic creates a file of a random name, which may stay half written.
WriteTemp(p) ==
  /\ proc[p].op = "store"
  /\ \/ temps' = [temps EXCEPT ![p] = Torn] /\ UNCHANGED proc
     \/ /\ temps' = [temps EXCEPT ![p] = proc[p].new]
        /\ proc' = [proc EXCEPT ![p].op = "synced"]
  /\ UNCHANGED <<about, state, net, crash, wrote, missed>>

Rename(p) ==
  /\ proc[p].op = "synced"
  /\ state' = temps[p]
  /\ temps' = [temps EXCEPT ![p] = NoTemp]
  /\ proc' = [proc EXCEPT ![p] = Idle]
  /\ UNCHANGED <<about, net, crash, wrote, missed>>

\* A full disk or a removed directory fails the write: the temporary is
\* removed and the file stays as it was.
WriteFails(p) ==
  /\ proc[p].op = "store"
  /\ temps' = [temps EXCEPT ![p] = NoTemp]
  /\ proc' = [proc EXCEPT ![p] = Idle]
  /\ UNCHANGED <<about, state, net, crash, wrote, missed>>

-----------------------------------------------------------------------------
(* net.log: append_to_file, one record after the other in a process *)

\* Mutation: the log rotates one line late.
StatNetLate(p) ==
  /\ about = "net"
  /\ proc[p].op = "idle"
  /\ wrote.net < MaxLines
  /\ wrote' = [wrote EXCEPT !.net = @ + 1]
  /\ proc' = [proc EXCEPT ![p] =
       [op |-> IF Len(net.live) > Rotate THEN "rotate" ELSE "append",
        line |-> wrote.net + 1]]
  /\ UNCHANGED <<about, state, temps, net, crash, missed>>

StatNet(p) ==
  /\ about = "net"
  /\ proc[p].op = "idle"
  /\ wrote.net < MaxLines
  /\ wrote' = [wrote EXCEPT !.net = @ + 1]
  /\ proc' = [proc EXCEPT ![p] =
       [op |-> IF Len(net.live) >= Rotate THEN "rotate" ELSE "append",
        line |-> wrote.net + 1]]
  /\ UNCHANGED <<about, state, temps, net, crash, missed>>

\* The live file replaces the archive; without a live file nothing happens.
RotateNet(p) ==
  /\ proc[p].op = "rotate"
  /\ IF net.live = <<>>
     THEN UNCHANGED <<net, missed>>
     ELSE /\ net' = [live |-> <<>>, old |-> net.live]
          /\ missed' = [missed EXCEPT !.old = missed.live, !.live = 0]
  /\ proc' = [proc EXCEPT ![p].op = "append"]
  /\ UNCHANGED <<about, state, temps, crash, wrote>>

\* A rename that fails degrades to appending to the file as it is.
RotateFails(p) ==
  /\ proc[p].op = "rotate"
  /\ missed' = [missed EXCEPT !.live = @ + 1]
  /\ proc' = [proc EXCEPT ![p].op = "append"]
  /\ UNCHANGED <<about, state, temps, net, crash, wrote>>

AppendNet(p) ==
  /\ proc[p].op = "append"
  /\ net' = [net EXCEPT !.live = Append(@, proc[p].line)]
  /\ proc' = [proc EXCEPT ![p] = Idle]
  /\ UNCHANGED <<about, state, temps, crash, wrote, missed>>

-----------------------------------------------------------------------------
(* crash.log and deploy.log: the file is read, and written back cut *)

ReadCrash(p) ==
  /\ about = "crash"
  /\ proc[p].op = "idle"
  /\ wrote.crash < MaxLines
  /\ wrote' = [wrote EXCEPT !.crash = @ + 1]
  /\ proc' = [proc EXCEPT ![p] =
       [op |-> IF Len(crash) > Rotate THEN "cut" ELSE "add",
        line |-> wrote.crash + 1,
        tail |-> SubSeq(crash, IF Len(crash) > Keep THEN Len(crash) - Keep + 1 ELSE 1,
                        Len(crash))]]
  /\ UNCHANGED <<about, state, temps, net, crash, missed>>

\* fs::write truncates the file and then writes the part that was kept; its
\* error is dropped, so that a file it cannot open is only added to, and one on
\* a full disk stays empty.
CutCrash(p) ==
  /\ proc[p].op = "cut"
  /\ crash' = <<>>
  /\ missed' = [missed EXCEPT !.crash = 0]
  /\ proc' = [proc EXCEPT ![p].op = "refill"]
  /\ UNCHANGED <<about, state, temps, net, wrote>>

CutFails(p) ==
  /\ proc[p].op = "cut"
  /\ missed' = [missed EXCEPT !.crash = @ + 1]
  /\ proc' = [proc EXCEPT ![p].op = "add"]
  /\ UNCHANGED <<about, state, temps, net, crash, wrote>>

RefillCrash(p) ==
  /\ proc[p].op = "refill"
  /\ crash' \in {crash, proc[p].tail \o SubSeq(crash, Len(proc[p].tail) + 1, Len(crash))}
  /\ proc' = [proc EXCEPT ![p].op = "add"]
  /\ UNCHANGED <<about, state, temps, net, wrote, missed>>

AddCrash(p) ==
  /\ proc[p].op = "add"
  /\ crash' = Append(crash, proc[p].line)
  /\ proc' = [proc EXCEPT ![p] = Idle]
  /\ UNCHANGED <<about, state, temps, net, wrote, missed>>

\* A kill leaves the files as they are; the next process starts idle.
Killed(p) ==
  /\ proc[p] # Idle
  /\ proc' = [proc EXCEPT ![p] = Idle]
  /\ UNCHANGED <<about, state, temps, net, crash, wrote, missed>>

RecNext ==
  \E p \in Procs :
    \/ Load(p) \/ WriteTemp(p) \/ Rename(p) \/ WriteFails(p)
    \/ StatNet(p) \/ RotateNet(p) \/ RotateFails(p) \/ AppendNet(p)
    \/ ReadCrash(p) \/ CutCrash(p) \/ CutFails(p) \/ RefillCrash(p) \/ AddCrash(p)
    \/ Killed(p)

RecSpec == RecInit /\ [][RecNext]_recVars

-----------------------------------------------------------------------------
(* Properties *)

\* A reader never meets a half-written registry, whatever is killed when.
RegistryNeverTorn == state # Torn /\ state \subseteq Procs

\* A log exceeds the size it is cut at by at most one line of each process, and
\* one for each cut that has failed since the last that worked: a cut that works
\* makes up for all that failed before it.
LogsStaySmall ==
  /\ Len(net.live) <= Rotate + Cardinality(Procs) - 1 + missed.live
  /\ Len(net.old) <= Rotate + Cardinality(Procs) - 1 + missed.old
  /\ Len(crash) <= Rotate + Cardinality(Procs) + missed.crash

(***************************************************************************)
(* Why they hold: an inductive strengthening.  What a process is about to  *)
(* append was decided when the file was shorter, so it counts as written.  *)
(***************************************************************************)
Works ==
  [op : {"idle"}] \cup [op : {"store", "synced"}, new : SUBSET Procs]
    \cup [op : {"rotate", "append"}, line : Nat]
    \cup [op : {"cut", "refill", "add"}, line : Nat, tail : Seq(Nat)]

RecTyped ==
  /\ temps \in [Procs -> (SUBSET Procs) \cup {Torn, NoTemp}]
  /\ proc \in [Procs -> Works]
  /\ net.live \in Seq(Nat) /\ net.old \in Seq(Nat)
  /\ crash \in Seq(Nat)
  /\ wrote \in [net : Nat, crash : Nat]
  /\ missed \in [live : Nat, old : Nat, crash : Nat]

\* A temporary file is renamed only when it holds all of the new registry.
SyncedWhole ==
  /\ state \subseteq Procs
  /\ \A p \in Procs : proc[p].op = "synced" => temps[p] = proc[p].new

Doing(ops) == {p \in Procs : proc[p].op \in ops}

RoomLeft ==
  /\ Len(net.live) + Cardinality(Doing({"append"}))
        <= Rotate + Cardinality(Procs) - 1 + missed.live
  /\ Len(net.old) <= Rotate + Cardinality(Procs) - 1 + missed.old
  /\ Len(crash) + Cardinality(Doing({"refill", "add"}))
        <= Rotate + Cardinality(Procs) + missed.crash
  /\ \A p \in Procs : proc[p].op \in {"cut", "refill", "add"} => Len(proc[p].tail) <= Keep

RecInv == RecTyped /\ SyncedWhole /\ RoomLeft
=============================================================================
