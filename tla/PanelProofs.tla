----------------------------- MODULE PanelProofs -----------------------------
(***************************************************************************)
(* Why the panels show and store what they should: the library's manifest  *)
(* under its writers (ManifestShelf), the second panel's questions         *)
(* (CompanionPanel), the first panel's jobs and consents (PanelScreens),   *)
(* the lines of its Logs screen (PanelLogs), the review of its wizard      *)
(* (PanelWizard).  The variables s1 .. s12 are those of the part, in the   *)
(* order in which its module declares them; each inductive invariant is    *)
(* stated, and its parts explained, beside the property in the module of   *)
(* the part.                                                               *)
(***************************************************************************)
EXTENDS MCParts, Sequences, FiniteSets, FiniteSetTheorems, SequenceTheorems, TLAPS

(***************************************************************************)
(* ManifestShelf.                                                          *)
(***************************************************************************)
\* A library starts with a fresh manifest, no deploy and no edit open.
LEMMA ShelfStart ==
    ASSUME Shelf!ShelfInit
    PROVE  Shelf!ShelfInv
BY DEF Shelf!ShelfInit, Shelf!ShelfInv, Shelf!ShelfTyped, Shelf!MemoryCurrent,
       Shelf!Manifests, Shelf!Fresh, Shelf!NoDeploy, Shelf!Closed, Shelf!Gone

\* A write of the user leaves the deploy behind, if there is one.
LEMMA ShelfWritten ==
    ASSUME Shelf!ShelfInv, NEW m \in Shelf!Manifests, Shelf!UserWrites(m),
           s3' \in [Windows -> [at : {"closed", "form", "hosts", "editor", "store"},
                                m : Shelf!Manifests]]
    PROVE  Shelf!ShelfInv'
BY DEF Shelf!ShelfInv, Shelf!ShelfTyped, Shelf!MemoryCurrent, Shelf!UserWrites

\* An edit that opens or closes writes nothing.
LEMMA ShelfBrowsed ==
    ASSUME Shelf!ShelfInv, UNCHANGED <<s1, s2, s4>>,
           s3' \in [Windows -> [at : {"closed", "form", "hosts", "editor", "store"},
                                m : Shelf!Manifests]]
    PROVE  Shelf!ShelfInv'
BY DEF Shelf!ShelfInv, Shelf!ShelfTyped, Shelf!MemoryCurrent

\* What the user does in a window keeps the invariant.
LEMMA ShelfWindow ==
    ASSUME Shelf!ShelfInv, NEW w \in Windows,
           \/ \E kind \in {"form", "hosts", "editor"} : Shelf!OpenWith(w, kind)
           \/ Shelf!SaveForm(w) \/ Shelf!set_egress_allow(w) \/ Shelf!SaveEditor(w)
           \/ Shelf!LeaveEdit(w) \/ Shelf!CheckDuplicate(w) \/ Shelf!StoreNew(w)
    PROVE  Shelf!ShelfInv'
<1> DEFINE Wins == [Windows -> [at : {"closed", "form", "hosts", "editor", "store"},
                                m : Shelf!Manifests]]
<1>1. /\ s1 \in Shelf!Manifests /\ s3 \in Wins /\ s3[w].m \in Shelf!Manifests
      /\ Shelf!Gone \in Shelf!Manifests /\ Shelf!Fresh \subseteq Shelf!Manifests
  BY DEF Shelf!ShelfInv, Shelf!ShelfTyped, Shelf!Manifests, Shelf!Gone, Shelf!Fresh
<1>2. Shelf!Close(w) => s3' \in Wins
  BY <1>1 DEF Shelf!Close, Shelf!Closed
<1>3. ASSUME NEW kind \in {"form", "hosts", "editor"}, Shelf!OpenWith(w, kind)
      PROVE  Shelf!ShelfInv'
  <2>1. UNCHANGED <<s1, s2, s4>>
    BY <1>3 DEF Shelf!OpenWith
  <2>2. /\ [Shelf!Gone EXCEPT !.port = s1.port] \in Shelf!Manifests
        /\ [Shelf!Gone EXCEPT !.allow = s1.allow] \in Shelf!Manifests
    BY <1>1 DEF Shelf!Manifests, Shelf!Gone
  <2>3. s3' \in Wins
    BY <1>1, <1>3, <2>2 DEF Shelf!OpenWith
  <2>4. QED
    BY <2>1, <2>3, ShelfBrowsed
<1>4. CASE Shelf!SaveForm(w)
  <2>1. PICK p \in {s3[w].m.port, "user"} :
           Shelf!UserWrites([s1 EXCEPT !.port = p]) /\ Shelf!Close(w)
    BY <1>4 DEF Shelf!SaveForm
  <2>2. [s1 EXCEPT !.port = p] \in Shelf!Manifests
    BY <1>1 DEF Shelf!Manifests
  <2>3. QED
    BY <1>2, <2>1, <2>2, ShelfWritten
<1>5. CASE Shelf!set_egress_allow(w)
  <2>1. PICK l \in {"user", "none"} :
           /\ Shelf!UserWrites([s1 EXCEPT !.allow = l, !.auto = "no"])
           /\ Shelf!Close(w)
    BY <1>5 DEF Shelf!set_egress_allow
  <2>2. [s1 EXCEPT !.allow = l, !.auto = "no"] \in Shelf!Manifests
    <3>1. s1 \in Shelf!Manifests /\ l \in {"user", "none"}
      BY <1>1
    <3>2. [s1 EXCEPT !.allow = l] \in Shelf!Manifests
      BY ONLY <3>1 DEF Shelf!Manifests
    <3>3. [[s1 EXCEPT !.allow = l] EXCEPT !.auto = "no"] \in Shelf!Manifests
      BY ONLY <3>2 DEF Shelf!Manifests
    <3>4. QED
      BY ONLY <3>1, <3>3 DEF Shelf!Manifests
  <2>3. QED
    BY <1>2, <2>1, <2>2, ShelfWritten
<1>6. CASE Shelf!SaveEditor(w)
  <2> DEFINE m == s3[w].m
  <2>1. /\ [m EXCEPT !.port = "user"] \in Shelf!Manifests
        /\ [m EXCEPT !.steps = "user"] \in Shelf!Manifests
        /\ [m EXCEPT !.allow = "user"] \in Shelf!Manifests
    <3>1. m \in Shelf!Manifests
      BY <1>1
    <3> HIDE DEF m
    <3>2. [m EXCEPT !.port = "user"] \in Shelf!Manifests
      BY ONLY <3>1 DEF Shelf!Manifests
    <3>3. [m EXCEPT !.steps = "user"] \in Shelf!Manifests
      BY ONLY <3>1 DEF Shelf!Manifests
    <3>4. [m EXCEPT !.allow = "user"] \in Shelf!Manifests
      BY ONLY <3>1 DEF Shelf!Manifests
    <3>5. QED
      BY <3>2, <3>3, <3>4
  <2>2. PICK n \in Shelf!Manifests : Shelf!UserWrites(n) /\ Shelf!Close(w)
    BY <1>6, <2>1 DEF Shelf!SaveEditor
  <2>3. QED
    BY <1>2, <2>2, ShelfWritten
<1>7. CASE Shelf!LeaveEdit(w)
  BY <1>2, <1>7, ShelfBrowsed DEF Shelf!LeaveEdit
<1>8. CASE Shelf!CheckDuplicate(w)
  <2>1. s3' \in Wins
    BY <1>1, <1>8 DEF Shelf!CheckDuplicate
  <2>2. QED
    BY <1>8, <2>1, ShelfBrowsed DEF Shelf!CheckDuplicate
<1>9. CASE Shelf!StoreNew(w)
  BY <1>1, <1>2, <1>9, ShelfWritten DEF Shelf!StoreNew
<1>10. QED
  BY <1>3, <1>4, <1>5, <1>6, <1>7, <1>8, <1>9

\* A step of a deploy keeps the invariant, and what the user has chosen.
LEMMA ShelfDeploy ==
    ASSUME Shelf!ShelfInv, Shelf!DeployStep
    PROVE  Shelf!ShelfInv' /\ Shelf!UserListStep
<1> USE DEF Shelf!ShelfInv, Shelf!ShelfTyped, Shelf!MemoryCurrent, Shelf!UserListStep,
            Shelf!Manifests, Shelf!NoDeploy, Shelf!Gone, Shelf!Persist
<1>1. CASE Shelf!DeployLoads
  BY <1>1 DEF Shelf!DeployLoads
<1>2. CASE Shelf!Install
  <2>1. PICK h \in {FALSE, s2.m.allow = "none" /\ s2.m.auto = "unset"} :
           s2' = [s2 EXCEPT !.at = "started", !.hosts = h]
    BY <1>2 DEF Shelf!Install, Shelf!egress_may_autofill
  <2>2. /\ h \in BOOLEAN /\ (h => s2.m.auto = "unset")
        /\ s2.at = "attempt" /\ UNCHANGED <<s1, s3, s4>>
    BY <1>2 DEF Shelf!Install
  <2>3. /\ s2'.at = "started" /\ s2'.hosts = h /\ s2'.m = s2.m
        /\ s2' \in [at : {"idle", "attempt", "started", "adopted", "filled"},
                    m : Shelf!Manifests, repaired : BOOLEAN, hosts : BOOLEAN]
    BY <2>1, <2>2
  <2>4. QED
    BY <2>2, <2>3
<1>3. CASE Shelf!AdoptPort
  BY <1>3 DEF Shelf!AdoptPort
<1>4. CASE Shelf!Repair
  <2> DEFINE m == [s2.m EXCEPT !.steps = "full"]
  <2>1. /\ s2.at \in {"started", "adopted"} /\ UNCHANGED <<s3, s4>>
        /\ s1' = m /\ s2' = [s2 EXCEPT !.at = "attempt", !.m = m, !.repaired = TRUE]
    BY <1>4 DEF Shelf!Repair
  <2>2. m \in Shelf!Manifests /\ m.allow = s2.m.allow /\ m.auto = s2.m.auto
    OBVIOUS
  <2> HIDE DEF m
  <2>3. /\ s2'.at = "attempt" /\ s2'.hosts = s2.hosts /\ s2'.m = m
        /\ s2' \in [at : {"idle", "attempt", "started", "adopted", "filled"},
                    m : Shelf!Manifests, repaired : BOOLEAN, hosts : BOOLEAN]
    BY <2>1, <2>2
  <2>4. QED
    BY <2>1, <2>2, <2>3
<1>5. CASE Shelf!FillEgress
  <2> DEFINE m == [s2.m EXCEPT !.allow = "tree", !.auto = "yes"]
  <2>1. /\ s2.at \in {"started", "adopted"} /\ s2.hosts /\ UNCHANGED <<s3, s4>>
        /\ s1' = m /\ s2' = [s2 EXCEPT !.at = "filled"]
    BY <1>5 DEF Shelf!FillEgress
  <2>2. m \in Shelf!Manifests
    OBVIOUS
  <2> HIDE DEF m
  <2>3. /\ s2'.at = "filled" /\ s2'.hosts = s2.hosts /\ s2'.m = s2.m
        /\ s2' \in [at : {"idle", "attempt", "started", "adopted", "filled"},
                    m : Shelf!Manifests, repaired : BOOLEAN, hosts : BOOLEAN]
    BY <2>1
  <2>4. QED
    BY <2>1, <2>2, <2>3
<1>6. CASE Shelf!DeployEnds
  BY <1>6 DEF Shelf!DeployEnds
<1>7. QED
  BY <1>1, <1>2, <1>3, <1>4, <1>5, <1>6 DEF Shelf!DeployStep

\* Every step keeps the invariant, and what the user has chosen.
LEMMA ShelfStep ==
    ASSUME Shelf!ShelfInv, Shelf!ShelfNext
    PROVE  Shelf!ShelfInv' /\ Shelf!UserListStep
<1>1. CASE Shelf!DeployStep
  BY <1>1, ShelfDeploy
<1>2. CASE Shelf!Remove
  <2>1. /\ Shelf!Gone \in Shelf!Manifests
        /\ s3 \in [Windows -> [at : {"closed", "form", "hosts", "editor", "store"},
                               m : Shelf!Manifests]]
    BY DEF Shelf!ShelfInv, Shelf!ShelfTyped, Shelf!Manifests, Shelf!Gone
  <2>2. QED
    BY <1>2, <2>1, ShelfWritten DEF Shelf!Remove, Shelf!UserWrites, Shelf!UserListStep
<1>3. CASE Shelf!auto_store
  <2>1. /\ Shelf!Fresh \subseteq Shelf!Manifests
        /\ s3 \in [Windows -> [at : {"closed", "form", "hosts", "editor", "store"},
                               m : Shelf!Manifests]]
    BY DEF Shelf!ShelfInv, Shelf!ShelfTyped, Shelf!Manifests, Shelf!Fresh
  <2>2. QED
    BY <1>3, <2>1, ShelfWritten
       DEF Shelf!auto_store, Shelf!UserWrites, Shelf!UserListStep
<1>4. ASSUME NEW w \in Windows,
           \/ \E kind \in {"form", "hosts", "editor"} : Shelf!OpenWith(w, kind)
           \/ Shelf!SaveForm(w) \/ Shelf!set_egress_allow(w) \/ Shelf!SaveEditor(w)
           \/ Shelf!LeaveEdit(w) \/ Shelf!CheckDuplicate(w) \/ Shelf!StoreNew(w)
      PROVE  Shelf!ShelfInv' /\ Shelf!UserListStep
  <2>1. s2' = s2
    BY <1>4 DEF Shelf!OpenWith, Shelf!SaveForm, Shelf!set_egress_allow,
                Shelf!SaveEditor, Shelf!LeaveEdit, Shelf!CheckDuplicate,
                Shelf!StoreNew, Shelf!UserWrites
  <2>2. QED
    BY <1>4, <2>1, ShelfWindow DEF Shelf!UserListStep
<1>5. QED
  BY <1>1, <1>2, <1>3, <1>4 DEF Shelf!ShelfNext

\* A list the user has taken over is left alone by every step of a deploy, with
\* any number of windows open, unless the user wrote the file while it ran.
THEOREM ShelfSafety == PartsSpec => UserListKept
<1> DEFINE Inv == part = "shelf" => Shelf!ShelfInv
<1>1. PartsInit => Inv
  BY ShelfStart DEF PartsInit
<1>2. Inv /\ [PartsNext]_partVars =>
        Inv' /\ [part = "shelf" => Shelf!UserListStep]_partVars
  <2>1. ASSUME Inv, PartsNext
        PROVE  Inv' /\ (part = "shelf" => Shelf!UserListStep)
    BY <2>1, ShelfStep DEF PartsNext
  <2>2. ASSUME Inv, UNCHANGED partVars PROVE Inv'
    BY <2>2 DEF partVars, slots, Shelf!ShelfInv, Shelf!ShelfTyped, Shelf!MemoryCurrent
  <2>3. QED
    BY <2>1, <2>2
<1>3. QED
  BY <1>1, <1>2, PTL DEF PartsSpec, UserListKept
(***************************************************************************)
(* Channels: what is taken from the front, and put at the end.             *)
(***************************************************************************)
\* Taking the first message moves every other one up by one place.
LEMMA TailShifts ==
    ASSUME NEW S, NEW q \in Seq(S), q # <<>>
    PROVE  /\ Tail(q) \in Seq(S) /\ 1 \in DOMAIN q /\ Head(q) = q[1] /\ Head(q) \in S
           /\ \A i \in DOMAIN q : i # 1 =>
                 i - 1 \in DOMAIN Tail(q) /\ Tail(q)[i - 1] = q[i]
           /\ \A i \in DOMAIN Tail(q) :
                 i + 1 \in DOMAIN q /\ i + 1 # 1 /\ Tail(q)[i] = q[i + 1]
OBVIOUS

\* A new message comes last and moves none.
LEMMA AppendAdds ==
    ASSUME NEW S, NEW q \in Seq(S), NEW m \in S
    PROVE  /\ Append(q, m) \in Seq(S)
           /\ Len(q) + 1 \in DOMAIN Append(q, m) /\ Append(q, m)[Len(q) + 1] = m
           /\ \A i \in DOMAIN q : i \in DOMAIN Append(q, m) /\ Append(q, m)[i] = q[i]
           /\ \A i \in DOMAIN Append(q, m) : i = Len(q) + 1 \/ i \in DOMAIN q
OBVIOUS

(***************************************************************************)
(* CompanionPanel.                                                         *)
(***************************************************************************)
\* The panel opens on its menu, with nothing running.
LEMMA CompanionStart ==
    ASSUME Companion!CompanionInit
    PROVE  Companion!CompanionInv
BY DEF Companion!CompanionInit, Companion!CompanionInv, Companion!CompanionTyped,
       Companion!OneWorker, Companion!AnswersAreTheirOwn, Companion!WaitersAreServed,
       Companion!Main

\* A thread ends with its answer: the screen that waits for it still has it to
\* wait for, now in the channel.
LEMMA CompanionThread ==
    ASSUME Companion!CompanionInv, Companion!ThreadEnds
    PROVE  Companion!CompanionInv'
<1> USE DEF Companion!CompanionInv
<1>1. PICK t \in s3 :
        /\ s3' = s3 \ {t}
        /\ CASE t.kind = "scan" -> s2' = Append(s2, [tag |-> "ScanDone", seq |-> t.id])
             [] t.kind = "deploy" -> s2' = Append(s2, [tag |-> "DeployDone", job |-> t.id])
             [] OTHER -> s2' = Append(s2, [tag |-> "SoftwareLog", lines |-> JournalLines])
        /\ UNCHANGED <<s1, s4, s5, s6, s7>>
  BY DEF Companion!ThreadEnds
<1>2. /\ t.kind \in {"scan", "deploy", "journal"} /\ t.id \in Nat \ {0}
      /\ t = [kind |-> t.kind, id |-> t.id]
      /\ s2 \in Seq(Companion!Messages)
  BY DEF Companion!CompanionTyped
<1>3. PICK m \in Companion!Messages :
        /\ s2' = Append(s2, m)
        /\ t.kind = "scan" => m.tag = "ScanDone" /\ m.seq = t.id
        /\ t.kind = "deploy" => m.tag = "DeployDone" /\ m.job = t.id
        /\ t.kind = "journal" => m.tag = "SoftwareLog"
  BY <1>1, <1>2 DEF Companion!Messages
<1>4. Companion!CompanionTyped'
  BY <1>1, <1>3, AppendAdds DEF Companion!CompanionTyped
<1>5. Companion!OneWorker'
  BY <1>1, <1>2, <1>3, AppendAdds DEF Companion!OneWorker
<1>6. Companion!AnswersAreTheirOwn'
  BY <1>1 DEF Companion!AnswersAreTheirOwn
<1>7. Companion!WaitersAreServed'
  BY <1>1, <1>2, <1>3, AppendAdds DEF Companion!WaitersAreServed
<1>8. QED
  BY <1>4, <1>5, <1>6, <1>7

\* A message is drained: a screen takes it only if it is the answer it waits for.
LEMMA CompanionDrain ==
    ASSUME Companion!CompanionInv, Companion!Drain
    PROVE  Companion!CompanionInv'
<1> USE DEF Companion!CompanionInv
<1> DEFINE m == Head(s2)
<1>1. /\ s2 \in Seq(Companion!Messages) /\ s2 # <<>> /\ s2' = Tail(s2)
      /\ UNCHANGED <<s3, s4, s5, s7>>
  BY DEF Companion!Drain, Companion!CompanionTyped
<1>2. m \in Companion!Messages
  BY <1>1, TailShifts
<1>3. Companion!CompanionTyped'
  BY <1>1, TailShifts DEF Companion!CompanionTyped
<1>4. \A i \in DOMAIN s2 : s2[i] # m => \E j \in DOMAIN s2' : s2'[j] = s2[i]
  BY <1>1, TailShifts
<1> HIDE DEF m
<1>5. CASE m.tag = "ScanDone"
  <2>1. /\ m.seq \in Nat \ {0}
        /\ s1' = IF s1.name = "scan" /\ s1.seq = m.seq
                 THEN [name |-> "scan", seq |-> s1.seq, report |-> m.seq] ELSE s1
    BY <1>1, <1>2, <1>5
       DEF Companion!Drain, Companion!ScanDone, Companion!Scan, Companion!Messages, m
  <2>2. Companion!OneWorker'
    BY <1>1, <2>1, TailShifts DEF Companion!OneWorker
  <2>3. Companion!AnswersAreTheirOwn'
    BY <2>1 DEF Companion!AnswersAreTheirOwn
  <2>4. Companion!WaitersAreServed'
    <3>1. s1.name = "scan" /\ s1.seq # m.seq =>
             \A i \in DOMAIN s2 : s2[i].tag = "ScanDone" /\ s2[i].seq = s1.seq => s2[i] # m
      OBVIOUS
    <3>2. \A i \in DOMAIN s2 : s2[i].tag = "DeployDone" => s2[i] # m
      BY <1>5
    <3>3. s1'.name = "scan" /\ s1'.report = 0 => s1' = s1 /\ s1.seq # m.seq
      BY <2>1
    <3>4. s1'.name = "deploy" => s1' = s1
      BY <2>1
    <3>5. s1'.name = "scan" /\ s1'.report = 0 =>
             \/ [kind |-> "scan", id |-> s1'.seq] \in s3'
             \/ \E i \in DOMAIN s2' : s2'[i].tag = "ScanDone" /\ s2'[i].seq = s1'.seq
      BY <1>1, <1>4, <3>1, <3>3 DEF Companion!WaitersAreServed, Companion!NoAnswer
    <3>6. s1'.name = "deploy" /\ s1'.done = 0 =>
             \/ [kind |-> "deploy", id |-> s1'.job] \in s3'
             \/ \E i \in DOMAIN s2' : s2'[i].tag = "DeployDone" /\ s2'[i].job = s1'.job
      BY <1>1, <1>4, <3>2, <3>4 DEF Companion!WaitersAreServed, Companion!NoAnswer
    <3>7. QED
      BY ONLY <3>5, <3>6 DEF Companion!WaitersAreServed, Companion!NoAnswer
  <2>5. QED
    BY <1>3, <2>2, <2>3, <2>4
<1>6. CASE m.tag = "DeployDone"
  <2>1. /\ m.job \in Nat \ {0} /\ s1.name = "deploy" /\ s1.job = m.job
        /\ \A t \in s3 : t.kind # "deploy"
        /\ \A i \in DOMAIN s2' : s2'[i].tag # "DeployDone"
    BY <1>1, <1>2, <1>6, TailShifts
       DEF Companion!OneWorker, Companion!Messages, Companion!CompanionTyped, m
  <2>2. s1' = [name |-> "deploy", job |-> s1.job, done |-> m.job]
    BY <1>1, <1>6, <2>1 DEF Companion!Drain, Companion!DeployDone, Companion!Deploy, m
  <2>3. Companion!OneWorker'
    BY <1>1, <2>1 DEF Companion!OneWorker
  <2>4. Companion!AnswersAreTheirOwn' /\ Companion!WaitersAreServed'
    BY <2>1, <2>2 DEF Companion!AnswersAreTheirOwn, Companion!WaitersAreServed,
                      Companion!NoAnswer
  <2>5. QED
    BY <1>3, <2>3, <2>4
<1>7. CASE m.tag = "SoftwareLog"
  <2>1. \/ s1' = s1
        \/ s1.name = "logs" /\ s1'.name = "logs"
    BY <1>1, <1>7 DEF Companion!Drain, Companion!SoftwareLog, Companion!Logs, m
  <2>2. Companion!OneWorker'
    BY <1>1, <2>1, TailShifts DEF Companion!OneWorker
  <2>3. Companion!AnswersAreTheirOwn'
    BY <2>1 DEF Companion!AnswersAreTheirOwn
  <2>4. Companion!WaitersAreServed'
    <3>1. \A i \in DOMAIN s2 : s2[i].tag \in {"ScanDone", "DeployDone"} => s2[i] # m
      BY <1>7
    <3>2. QED
      BY <1>1, <1>4, <2>1, <3>1 DEF Companion!WaitersAreServed
  <2>5. QED
    BY <1>3, <2>2, <2>3, <2>4
<1>8. QED
  BY <1>2, <1>5, <1>6, <1>7 DEF Companion!Messages

\* A key finds the channel empty, so no outcome is on its way; it opens a screen
\* with a thread of its own, or leaves one that no deploy is behind.
LEMMA CompanionKey ==
    ASSUME Companion!CompanionInv,
           \/ Companion!StartScan \/ Companion!OpenScreen \/ Companion!OpenLogs
           \/ Companion!AskFirst \/ Companion!Flip \/ Companion!ConfirmDeploy
           \/ Companion!AnswerOther \/ Companion!Leave \/ Companion!Exit
    PROVE  Companion!CompanionInv'
<1> USE DEF Companion!CompanionInv, Companion!CompanionTyped, Companion!OneWorker,
            Companion!AnswersAreTheirOwn, Companion!WaitersAreServed, Companion!Keys,
            Companion!NoAnswer, Companion!Main, Companion!Url, Companion!Services,
            Companion!Scan, Companion!Deploy, Companion!Ask, Companion!Logs
<1>1. CASE Companion!StartScan
  BY <1>1 DEF Companion!StartScan
<1>2. CASE Companion!OpenScreen
  BY <1>2 DEF Companion!OpenScreen
<1>3. CASE Companion!OpenLogs
  BY <1>3 DEF Companion!OpenLogs
<1>4. CASE Companion!AskFirst
  BY <1>4 DEF Companion!AskFirst
<1>5. CASE Companion!Flip
  BY <1>5 DEF Companion!Flip
<1>6. CASE Companion!ConfirmDeploy
  BY <1>6 DEF Companion!ConfirmDeploy
<1>7. CASE Companion!AnswerOther
  BY <1>7 DEF Companion!AnswerOther
<1>8. CASE Companion!Leave
  BY <1>8 DEF Companion!Leave, Companion!MayLeave
<1>9. CASE Companion!Exit
  BY <1>9 DEF Companion!Exit
<1>10. QED
  BY <1>1, <1>2, <1>3, <1>4, <1>5, <1>6, <1>7, <1>8, <1>9

\* A screen of the second panel shows the answer to its own question, and one that
\* waits has a thread or a message to wait for, for any number of threads.
THEOREM CompanionSafety == PartsSpec => []AnswersAreTheirOwn
<1> DEFINE Inv == part = "companion" => Companion!CompanionInv
<1>1. PartsInit => Inv
  BY CompanionStart DEF PartsInit
<1>2. Inv /\ [PartsNext]_partVars => Inv'
  <2>1. ASSUME Inv, PartsNext PROVE Inv'
    BY <2>1, CompanionThread, CompanionDrain, CompanionKey
       DEF PartsNext, Companion!CompanionNext
  <2>2. ASSUME Inv, UNCHANGED partVars PROVE Inv'
    BY <2>2 DEF partVars, slots, Companion!CompanionInv, Companion!CompanionTyped,
                Companion!OneWorker, Companion!AnswersAreTheirOwn,
                Companion!WaitersAreServed
  <2>3. QED
    BY <2>1, <2>2
<1>3. Inv => AnswersAreTheirOwn
  BY DEF AnswersAreTheirOwn, Companion!CompanionInv
<1>4. QED
  BY <1>1, <1>2, <1>3, PTL DEF PartsSpec

(***************************************************************************)
(* PanelScreens.  Out, the threads whose result has not reached the        *)
(* screen, is what most of the invariant is about: first how it changes.   *)
(***************************************************************************)
\* A finite set, and its size, are the same seen from the part's module.
LEMMA SameFiniteSets ==
    ASSUME NEW S
    PROVE  /\ Screens!IsFiniteSet(S) <=> IsFiniteSet(S)
           /\ Screens!Cardinality(S) = Cardinality(S)
<1>1. Screens!IsFiniteSet(S) <=> IsFiniteSet(S)
  BY DEF IsFiniteSet, Screens!IsFiniteSet
<1>2. Screens!Cardinality(S) = Cardinality(S)
  BY DEF Cardinality, Screens!Cardinality
<1>3. QED
  BY <1>1, <1>2

\* The threads whose result waits in the inbox.
Waiting == {m.job : m \in Screens!Range(s3)}

\* The message that is drained is the only one of its thread, which has ended.
LEMMA InboxDrained ==
    ASSUME Screens!ScrTyped, Screens!JobsDistinct, s3 # <<>>, s3' = Tail(s3)
    PROVE  /\ Head(s3) \in Screens!Results /\ Head(s3).job \in Screens!Jobs
           /\ Head(s3).job \in Waiting /\ Head(s3).job \notin s2
           /\ Waiting' = Waiting \ {Head(s3).job}
           /\ s3' \in Seq(Screens!Results)
           /\ \A i \in DOMAIN s3' :
                /\ s3'[i].job \notin s2
                /\ \A k \in DOMAIN s3' : s3'[k].job = s3'[i].job => k = i
<1>1. s3 \in Seq(Screens!Results)
  BY DEF Screens!ScrTyped
<1>2. /\ \A i \in DOMAIN s3 : s3[i].job \notin s2
      /\ \A i, k \in DOMAIN s3 : s3[k].job = s3[i].job => k = i
  BY DEF Screens!JobsDistinct
<1>3. Head(s3) \in Screens!Results /\ Head(s3) = s3[1] /\ 1 \in DOMAIN s3
  BY <1>1, TailShifts
<1>4. Head(s3).job \in Screens!Jobs
  BY <1>3 DEF Screens!Results
<1>5. Head(s3).job \in Waiting /\ Head(s3).job \notin s2
  BY <1>2, <1>3 DEF Waiting, Screens!Range
<1>6. Waiting' = Waiting \ {Head(s3).job}
  <2>1. ASSUME NEW j, j \in Waiting' PROVE j \in Waiting \ {Head(s3).job}
    <3>1. PICK i \in DOMAIN s3' : j = s3'[i].job
      BY <2>1 DEF Waiting, Screens!Range
    <3>2. i + 1 \in DOMAIN s3 /\ i + 1 # 1 /\ s3'[i] = s3[i + 1]
      BY <1>1, <3>1, TailShifts
    <3>3. QED
      BY <1>2, <1>3, <3>1, <3>2 DEF Waiting, Screens!Range
  <2>2. ASSUME NEW j, j \in Waiting \ {Head(s3).job} PROVE j \in Waiting'
    <3>1. PICK i \in DOMAIN s3 : j = s3[i].job /\ i # 1
      BY <1>3, <2>2 DEF Waiting, Screens!Range
    <3>2. i - 1 \in DOMAIN s3' /\ s3'[i - 1] = s3[i]
      BY <1>1, <3>1, TailShifts
    <3>3. QED
      BY <3>1, <3>2 DEF Waiting, Screens!Range
  <2>3. QED
    BY <2>1, <2>2
<1>7. \A i \in DOMAIN s3' : i + 1 \in DOMAIN s3 /\ s3'[i] = s3[i + 1]
  BY <1>1, TailShifts
<1>8. s3' \in Seq(Screens!Results)
  BY <1>1, TailShifts
<1>9. /\ \A i \in DOMAIN s3' : s3'[i].job \notin s2
      /\ \A i, k \in DOMAIN s3' : s3'[k].job = s3'[i].job => k = i
  BY <1>2, <1>7, <1>8
<1>10. QED
  BY <1>3, <1>4, <1>5, <1>6, <1>8, <1>9

\* What is out is threads, with numbers up to the newest, finitely many.
LEMMA OutTyped ==
    ASSUME Screens!ScrTyped
    PROVE  /\ Screens!Out = s2 \cup Waiting
           /\ Screens!Out \subseteq Screens!Jobs /\ IsFiniteSet(Screens!Out)
<1>1. Screens!Out = s2 \cup Waiting
  BY DEF Screens!Out, Waiting
<1>2. Waiting \subseteq Screens!Jobs
  <2>1. s3 \in Seq(Screens!Results)
    BY DEF Screens!ScrTyped
  <2>2. \A m \in Screens!Range(s3) : m \in Screens!Results
    BY <2>1 DEF Screens!Range
  <2>3. QED
    BY <2>2 DEF Waiting, Screens!Results
<1>3. IsFiniteSet(Waiting)
  <2> DEFINE n == Len(s3)
             f == [i \in 1..n |-> s3[i].job]
  <2>1. s3 \in Seq(Screens!Results) /\ DOMAIN s3 = 1..n /\ n \in Nat
    BY DEF Screens!ScrTyped
  <2>2. Waiting = {s3[i].job : i \in 1..n}
    BY <2>1 DEF Waiting, Screens!Range
  <2>3. f \in Surjection(1..n, Waiting)
    BY <2>2 DEF Surjection
  <2>4. IsFiniteSet(1..n)
    BY <2>1, FS_Interval
  <2> HIDE DEF f
  <2>5. QED
    BY <2>3, <2>4, FS_Surjection
<1>4. QED
  BY <1>1, <1>2, <1>3, FS_Union, SameFiniteSets DEF Screens!ScrTyped

\* A key that only shows a screen, and a thread that ends, leave what is out.
LEMMA OutKept ==
    ASSUME Screens!ScrTyped, Screens!JobsDistinct, UNCHANGED <<s2, s3, s4>>
    PROVE  Screens!Out' = Screens!Out /\ Screens!JobsDistinct'
BY DEF Screens!Out, Screens!JobsDistinct, Screens!Range

\* A message is drained: its thread is no longer out.
LEMMA OutDrained ==
    ASSUME Screens!ScrTyped, Screens!JobsDistinct, s3 # <<>>, s3' = Tail(s3),
           UNCHANGED <<s2, s4>>
    PROVE  /\ Head(s3).job \in Screens!Out
           /\ Screens!Out' = Screens!Out \ {Head(s3).job}
           /\ Screens!JobsDistinct'
<1>1. Screens!Out = s2 \cup Waiting /\ Screens!Out' = s2' \cup Waiting'
  BY DEF Screens!Out, Waiting
<1>2. Screens!Out' = Screens!Out \ {Head(s3).job} /\ Head(s3).job \in Screens!Out
  BY <1>1, InboxDrained
<1>3. Screens!JobsDistinct'
  BY <1>2, InboxDrained DEF Screens!JobsDistinct
<1>4. QED
  BY <1>2, <1>3

\* A thread is spawned, with a number that none has had.
LEMMA OutSpawned ==
    ASSUME Screens!ScrTyped, Screens!JobsDistinct, UNCHANGED s3,
           NEW j \in Screens!Jobs, Screens!Spawn(j), j.n = s4 + 1
    PROVE  /\ Screens!Out' = Screens!Out \cup {j} /\ j \notin Screens!Out
           /\ s2' \subseteq Screens!Jobs /\ IsFiniteSet(s2')
           /\ s4' = s4 + 1 /\ s4' \in 0..MaxJobs
           /\ Screens!JobsDistinct'
<1>1. /\ s2' = s2 \cup {j} /\ s4' = s4 + 1 /\ s4 < MaxJobs /\ s4 \in 0..MaxJobs
      /\ s2 \subseteq Screens!Jobs /\ IsFiniteSet(s2) /\ MaxJobs \in Nat
  BY TargetsAssumption, SameFiniteSets DEF Screens!Spawn, Screens!ScrTyped
<1>2. Screens!Out = s2 \cup Waiting /\ Screens!Out' = s2' \cup Waiting
  BY DEF Screens!Out, Waiting
<1>3. \A i \in Screens!Out : i.n \in Nat /\ i.n <= s4
  BY OutTyped DEF Screens!JobsDistinct, Screens!Jobs
<1>4. j \notin Screens!Out /\ Screens!Out' = Screens!Out \cup {j}
  BY <1>1, <1>2, <1>3
<1>5. s2' \subseteq Screens!Jobs /\ IsFiniteSet(s2') /\ s4' \in 0..MaxJobs
  BY <1>1, FS_AddElement
<1>6. \A i \in DOMAIN s3 : s3[i].job \in Screens!Out
  BY <1>2 DEF Waiting, Screens!Range
<1>7. Screens!JobsDistinct'
  BY <1>1, <1>3, <1>4, <1>6 DEF Screens!JobsDistinct
<1>8. QED
  BY <1>1, <1>4, <1>5, <1>7

\* A message is drained and starts a thread.
LEMMA OutSwapped ==
    ASSUME Screens!ScrTyped, Screens!JobsDistinct, s3 # <<>>, s3' = Tail(s3),
           NEW j \in Screens!Jobs, Screens!Spawn(j), j.n = s4 + 1
    PROVE  /\ Screens!Out' = (Screens!Out \ {Head(s3).job}) \cup {j}
           /\ Head(s3).job \in Screens!Out /\ j \notin Screens!Out
           /\ s2' \subseteq Screens!Jobs /\ IsFiniteSet(s2')
           /\ s4' = s4 + 1 /\ s4' \in 0..MaxJobs
           /\ Screens!JobsDistinct'
<1>1. /\ s2' = s2 \cup {j} /\ s4' = s4 + 1 /\ s4 < MaxJobs /\ s4 \in 0..MaxJobs
      /\ s2 \subseteq Screens!Jobs /\ IsFiniteSet(s2) /\ MaxJobs \in Nat
  BY TargetsAssumption, SameFiniteSets DEF Screens!Spawn, Screens!ScrTyped
<1>2. Screens!Out = s2 \cup Waiting /\ Screens!Out' = s2' \cup Waiting'
  BY DEF Screens!Out, Waiting
<1>3. \A i \in Screens!Out : i.n \in Nat /\ i.n <= s4
  BY OutTyped DEF Screens!JobsDistinct, Screens!Jobs
<1>4. /\ j \notin Screens!Out /\ Head(s3).job \in Screens!Out
      /\ Screens!Out' = (Screens!Out \ {Head(s3).job}) \cup {j}
  BY <1>1, <1>2, <1>3, InboxDrained
<1>5. s2' \subseteq Screens!Jobs /\ IsFiniteSet(s2') /\ s4' \in 0..MaxJobs
  BY <1>1, FS_AddElement
<1>6. \A i \in DOMAIN s3' : s3'[i].job \in Screens!Out
  <2>1. \A i \in DOMAIN s3' : s3'[i].job \in Waiting'
    BY DEF Waiting, Screens!Range
  <2>2. QED
    BY <1>2, <2>1, InboxDrained
<1>7. Screens!JobsDistinct'
  <2>1. \A i \in Screens!Out' : i.n <= s4'
    BY <1>1, <1>3, <1>4
  <2>2. \A i \in DOMAIN s3' : s3'[i].job \notin s2'
    BY <1>1, <1>4, <1>6, InboxDrained
  <2>3. QED
    BY <2>1, <2>2, InboxDrained DEF Screens!JobsDistinct
<1>8. QED
  BY <1>1, <1>4, <1>5, <1>7

\* A thread ends: its result is out instead.
LEMMA OutFinished ==
    ASSUME Screens!ScrTyped, Screens!JobsDistinct, NEW j, NEW found,
           Screens!Finish(j, found)
    PROVE  /\ Screens!Out' = Screens!Out /\ Screens!JobsDistinct'
           /\ s2' \subseteq Screens!Jobs /\ IsFiniteSet(s2')
           /\ s3' \in Seq(Screens!Results)
<1> DEFINE m == [job |-> j, found |-> found]
<1>1. /\ j \in s2 /\ s2' = s2 \ {j} /\ s3' = Append(s3, m) /\ s4' = s4
      /\ s2 \subseteq Screens!Jobs /\ IsFiniteSet(s2) /\ s3 \in Seq(Screens!Results)
      /\ m \in Screens!Results /\ m.job = j
  BY SameFiniteSets DEF Screens!Finish, Screens!ScrTyped, Screens!Results
<1> HIDE DEF m
<1>2. s2' \subseteq Screens!Jobs /\ IsFiniteSet(s2') /\ s3' \in Seq(Screens!Results)
  BY <1>1, FS_RemoveElement, AppendAdds
<1>3. Waiting' = Waiting \cup {j}
  <2>1. ASSUME NEW i \in DOMAIN s3' PROVE s3'[i].job \in Waiting \cup {j}
    BY <1>1, <2>1, AppendAdds DEF Waiting, Screens!Range
  <2>2. ASSUME NEW i \in DOMAIN s3 PROVE s3[i].job \in Waiting'
    BY <1>1, <2>2, AppendAdds DEF Waiting, Screens!Range
  <2>3. j \in Waiting'
    BY <1>1, AppendAdds DEF Waiting, Screens!Range
  <2>4. QED
    BY <2>1, <2>2, <2>3 DEF Waiting, Screens!Range
<1>4. Screens!Out' = Screens!Out
  BY <1>1, <1>3 DEF Screens!Out, Waiting
<1>5. /\ \A i \in DOMAIN s3 : s3[i].job \notin s2 /\ s3[i].job # j
      /\ \A i, k \in DOMAIN s3 : s3[k].job = s3[i].job => k = i
  BY <1>1 DEF Screens!JobsDistinct
<1>6. \A i \in DOMAIN s3' :
        \/ i = Len(s3) + 1 /\ s3'[i].job = j
        \/ i \in DOMAIN s3 /\ s3'[i] = s3[i]
  BY <1>1, AppendAdds
<1>7. /\ \A i \in DOMAIN s3' : s3'[i].job \notin s2'
      /\ \A i, k \in DOMAIN s3' : s3'[k].job = s3'[i].job => k = i
  BY <1>1, <1>5, <1>6
<1>8. Screens!JobsDistinct'
  BY <1>1, <1>4, <1>7 DEF Screens!JobsDistinct
<1>9. QED
  BY <1>2, <1>4, <1>8

(***************************************************************************)
(* Consents: what may still start a deploy of a target, in a set of        *)
(* threads S.                                                              *)
(***************************************************************************)
Pilots(S, t) == {j \in S : j.kind = "detect" /\ j.route = "Auto" /\ j.t = t}

\* The autopilots of a set that loses or gains one thread.
LEMMA PilotCount ==
    ASSUME NEW S, IsFiniteSet(S), NEW j, NEW t
    PROVE  /\ Cardinality(Pilots(S, t)) \in Nat
           /\ Cardinality(Pilots(S \cup {j}, t)) <= Cardinality(Pilots(S, t)) + 1
           /\ j \notin Pilots({j}, t) =>
                 Cardinality(Pilots(S \cup {j}, t)) <= Cardinality(Pilots(S, t))
           /\ Cardinality(Pilots(S \ {j}, t)) <= Cardinality(Pilots(S, t))
           /\ j \in Pilots(S, t) =>
                 Cardinality(Pilots(S \ {j}, t)) = Cardinality(Pilots(S, t)) - 1
<1> DEFINE P == Pilots(S, t)
<1>1. IsFiniteSet(P) /\ Cardinality(P) \in Nat
  BY FS_Subset, FS_CardinalityType DEF Pilots
<1>2. Pilots(S \ {j}, t) = P \ {j}
  BY DEF Pilots
<1>3. IF j \in Pilots({j}, t) THEN Pilots(S \cup {j}, t) = P \cup {j}
                              ELSE Pilots(S \cup {j}, t) = P
  BY DEF Pilots
<1>4. P = Pilots(S, t)
  OBVIOUS
<1> HIDE DEF P
<1>5. /\ Cardinality(P \ {j}) = IF j \in P THEN Cardinality(P) - 1 ELSE Cardinality(P)
      /\ Cardinality(P \cup {j}) = IF j \in P THEN Cardinality(P) ELSE Cardinality(P) + 1
  BY <1>1, FS_AddElement, FS_RemoveElement
<1>6. /\ Cardinality(P \ {j}) <= Cardinality(P)
      /\ Cardinality(P \cup {j}) <= Cardinality(P) + 1
  BY <1>1, <1>5
<1>7. /\ Cardinality(Pilots(S \cup {j}, t)) <= Cardinality(P) + 1
      /\ j \notin Pilots({j}, t) => Cardinality(Pilots(S \cup {j}, t)) <= Cardinality(P)
  <2>1. CASE j \in Pilots({j}, t)
    BY <1>3, <1>6, <2>1
  <2>2. CASE j \notin Pilots({j}, t)
    BY <1>1, <1>3, <2>2
  <2>3. QED
    BY <2>1, <2>2
<1>8. QED
  BY <1>1, <1>2, <1>4, <1>5, <1>6, <1>7

\* The autopilots of the invariant are those of the threads that are out.
LEMMA AutopilotsCounted ==
    /\ \A t : Screens!Cardinality(Screens!Autopilots(t))
                 = Cardinality(Pilots(Screens!Out, t))
    /\ \A t : Screens!Cardinality(Screens!Autopilots(t))'
                 = Cardinality(Pilots(Screens!Out', t))
<1>1. \A t : Screens!Autopilots(t) = Pilots(Screens!Out, t)
  BY DEF Screens!Autopilots, Pilots
<1>2. \A t : Screens!Autopilots(t)' = Pilots(Screens!Out', t)
  BY DEF Screens!Autopilots, Pilots
<1>3. \A t : Screens!Cardinality(Screens!Autopilots(t))'
                = Cardinality(Screens!Autopilots(t)')
  BY SameFiniteSets
<1>4. QED
  BY <1>1, <1>2, <1>3, SameFiniteSets

(***************************************************************************)
(* Screens.  A quiet one waits for nothing.                                *)
(***************************************************************************)
Scr == [at : Screens!Places, n : Nat, busy : BOOLEAN, t : Screens!Some, yes : BOOLEAN,
        route : Screens!Routes]
Quiet(s) ==
    /\ s \in Scr /\ s.at \notin {"off", "handover"}
    /\ s.busy => s.at \notin {"Scan", "DetectInput", "Deploy"}
    /\ s.at = "Egress" => s.t = NoTarget

\* A screen that has just opened waits for nothing.
LEMMA FreshScreens ==
    ASSUME NEW at \in Screens!Places, NEW t \in Screens!Some
    PROVE  /\ Screens!Screen(at) \in Scr /\ Screens!On(at, t) \in Scr
           /\ Screens!Screen(at).at = at /\ Screens!On(at, t).at = at
           /\ Screens!Screen(at).busy = FALSE /\ Screens!On(at, t).busy = FALSE
           /\ Screens!Screen(at).t = NoTarget /\ Screens!On(at, t).t = t
           /\ Screens!Screen(at).n = 0 /\ Screens!On(at, t).n = 0
           /\ Screens!Screen(at).route = "Auto" /\ Screens!On(at, t).route = "Auto"
           /\ Screens!Screen(at).yes = FALSE /\ Screens!On(at, t).yes = FALSE
BY DEF Scr, Screens!Screen, Screens!On, Screens!Some, Screens!Routes

\* Nothing that may start a deploy is added and no consent is used.
LEMMA CoverKept ==
    ASSUME Screens!ScrTyped, Screens!ConsentsCover,
           IsFiniteSet(Screens!Out), UNCHANGED s7, s4' \in Nat, s4' >= s4,
           s6' \in {s6, Screens!NoAction},
           \/ Screens!Out' \subseteq Screens!Out
           \/ \E j : Screens!Out' = Screens!Out \cup {j}
                  /\ (j.kind # "detect" \/ j.route # "Auto")
    PROVE  Screens!ConsentsCover'
<1>1. SUFFICES ASSUME NEW t \in Targets
               PROVE  \/ s7'[t] >= Cardinality(Pilots(Screens!Out', t)) + Screens!Parked(t)'
                      \/ s7'[t] >= MaxJobs - s4'
  BY AutopilotsCounted DEF Screens!ConsentsCover
<1>2. \/ s7[t] >= Cardinality(Pilots(Screens!Out, t)) + Screens!Parked(t)
      \/ s7[t] >= MaxJobs - s4
  BY AutopilotsCounted DEF Screens!ConsentsCover
<1>3. /\ Screens!Parked(t) \in {0, 1} /\ Screens!Parked(t)' \in {0, 1}
      /\ Screens!Parked(t)' <= Screens!Parked(t)
  BY TargetsAssumption DEF Screens!Parked, Screens!NoAction
<1>4. Pilots(Screens!Out', t) \subseteq Pilots(Screens!Out, t)
  BY DEF Pilots
<1>5. IsFiniteSet(Pilots(Screens!Out, t))
  BY FS_Subset DEF Pilots
<1>6. /\ Cardinality(Pilots(Screens!Out, t)) \in Nat
      /\ Cardinality(Pilots(Screens!Out', t)) \in Nat
      /\ Cardinality(Pilots(Screens!Out', t)) <= Cardinality(Pilots(Screens!Out, t))
  BY <1>4, <1>5, FS_Subset, FS_CardinalityType
<1>7. s7[t] \in Int /\ s4 \in Nat /\ MaxJobs \in Nat
  BY TargetsAssumption DEF Screens!ScrTyped
<1>8. QED
  BY <1>2, <1>3, <1>6, <1>7

\* A quiet screen is shown in place of one behind which no deploy runs.
LEMMA Browsed ==
    ASSUME Screens!ScrInv, s1.at \notin {"off", "handover"},
           ~(s1.at = "Deploy" /\ s1.busy), NEW s, Quiet(s), Screens!Show(s)
    PROVE  Screens!ScrInv'
<1>1. s1' = s /\ UNCHANGED <<s2, s3, s4, s5, s6, s7>>
  BY DEF Screens!Show
<1>2. Screens!ScrTyped /\ Screens!ScrTyped'
  BY <1>1 DEF Screens!ScrInv, Screens!ScrTyped, Quiet, Scr
<1>3. Screens!Out' = Screens!Out /\ Screens!JobsDistinct'
  BY <1>1, <1>2, OutKept DEF Screens!ScrInv
<1>4. \A j \in Screens!Out : j.kind # "deploy"
  BY DEF Screens!ScrInv, Screens!WorkerMeansDeployScreen
<1>5. Screens!SpinnersHaveWorkers' /\ Screens!WorkerMeansDeployScreen'
  BY <1>1, <1>3, <1>4
     DEF Screens!SpinnersHaveWorkers, Screens!WorkerMeansDeployScreen, Quiet
<1>6. Screens!PendingParked'
  BY <1>1 DEF Screens!ScrInv, Screens!PendingParked, Screens!NoAction, Quiet
<1>7. s4 \in Nat
  BY <1>2, TargetsAssumption DEF Screens!ScrTyped
<1>8. Screens!ConsentsCover'
  BY <1>1, <1>2, <1>3, <1>7, OutTyped, CoverKept DEF Screens!ScrInv
<1>9. QED
  BY <1>2, <1>3, <1>5, <1>6, <1>8 DEF Screens!ScrInv

\* A consent and a deploy are settled, no further than there are threads left.
LEMMA Settled ==
    ASSUME s7 \in [Targets -> Int], NEW t, NEW c \in {0, 1}, NEW d \in {0, 1},
           Screens!Settle(t, c, d)
    PROVE  /\ s7' \in [Targets -> Int]
           /\ \A u \in Targets : \/ s7'[u] >= MaxJobs
                                 \/ s7'[u] = s7[u] + (IF u = t THEN c - d ELSE 0)
<1>1. MaxJobs \in Nat
  BY TargetsAssumption
<1>2. s7' = [s7 EXCEPT ![t] = IF s7[t] + c - d > MaxJobs THEN MaxJobs
                              ELSE s7[t] + c - d]
  BY DEF Screens!Settle
<1>3. ASSUME NEW u \in Targets
      PROVE  /\ s7'[u] \in Int
             /\ \/ s7'[u] >= MaxJobs
                \/ s7'[u] = s7[u] + (IF u = t THEN c - d ELSE 0)
  <2>1. /\ s7[u] \in Int
        /\ s7'[u] = IF u # t THEN s7[u]
                    ELSE IF s7[u] + c - d > MaxJobs THEN MaxJobs ELSE s7[u] + c - d
    BY <1>2
  <2>2. CASE u = t
    BY <1>1, <2>1, <2>2
  <2>3. CASE u # t
    BY <2>1, <2>3
  <2>4. QED
    BY <2>2, <2>3
<1>4. s7' \in [Targets -> Int]
  BY <1>2, <1>3
<1>5. QED
  BY <1>3, <1>4

\* No thread of S deploys.
NoDeploys(S) == \A i \in S : i.kind # "deploy"

\* What one consent to `route` for t adds to what may start a deploy of u.
Claim(route, t, u) == IF u = t /\ route # "Wizard" THEN 1 ELSE 0

\* The threads in S have a consent each, and c more covers the route for t.
Covered(S, route, t, c) ==
    \A u \in Targets :
        \/ s7[u] + (IF u = t THEN c ELSE 0)
             >= Cardinality(Pilots(S, u)) + Claim(route, t, u)
        \/ s7[u] >= MaxJobs - s4

\* The consents after a step for t that takes c and uses d.
Paid(t, c, d) ==
    /\ s7' \in [Targets -> Int]
    /\ \A u \in Targets : \/ s7'[u] >= MaxJobs
                          \/ s7'[u] = s7[u] + (IF u = t THEN c - d ELSE 0)

\* The thread that does the action of a route for t.
Doing(route, t) ==
    [kind |-> IF route = "PathDeploy" THEN "deploy" ELSE "detect",
     n |-> s4 + 1, t |-> t, route |-> route]

\* It is spawned beside those in S, and its screen is open.
Started(S, route, t) ==
    /\ Screens!Out' = S \cup {Doing(route, t)}
    /\ s4' = s4 + 1 /\ s6' = Screens!NoAction
    /\ s1' = IF route = "PathDeploy"
             THEN [Screens!On("Deploy", t) EXCEPT !.busy = TRUE]
             ELSE [Screens!On("DetectInput", t) EXCEPT !.busy = TRUE, !.n = s4 + 1]

\* The action is done here: a deploy uses its consent, a detection keeps it.
LEMMA Performed ==
    ASSUME s7 \in [Targets -> Int], s4 \in Nat,
           NEW S, IsFiniteSet(S), NoDeploys(S),
           NEW route \in Screens!Routes, NEW t \in Screens!Some, NEW c \in {0, 1},
           Covered(S, route, t, c), Started(S, route, t),
           Paid(t, c, IF route = "PathDeploy" THEN 1 ELSE 0)
    PROVE  /\ s1' \in Scr
           /\ Screens!PendingParked' /\ Screens!ConsentsCover'
           /\ Screens!SpinnersHaveWorkers' /\ Screens!WorkerMeansDeployScreen'
<1>1. PICK j : /\ j = [kind |-> IF route = "PathDeploy" THEN "deploy" ELSE "detect",
                       n |-> s4 + 1, t |-> t, route |-> route]
               /\ Screens!Out' = S \cup {j}
  BY DEF Started, Doing
<1>2. /\ s4' = s4 + 1 /\ s6' = Screens!NoAction
      /\ s1' = IF route = "PathDeploy"
               THEN [Screens!On("Deploy", t) EXCEPT !.busy = TRUE]
               ELSE [Screens!On("DetectInput", t) EXCEPT !.busy = TRUE, !.n = s4 + 1]
  BY DEF Started
<1> USE <1>1, <1>2
<1>3. s1' \in Scr /\ s1'.at \in {"Deploy", "DetectInput"}
  <2>1. Screens!On("Deploy", t) \in Scr /\ Screens!On("DetectInput", t) \in Scr
    BY FreshScreens DEF Screens!Places
  <2>2. CASE route = "PathDeploy"
    BY <2>1, <2>2 DEF Scr, Screens!On, Screens!Screen
  <2>3. CASE route # "PathDeploy"
    <3>1. s1' = [at |-> "DetectInput", n |-> s4 + 1, busy |-> TRUE, t |-> t,
                 yes |-> FALSE, route |-> "Auto"]
      BY <2>3 DEF Screens!On, Screens!Screen
    <3>2. "DetectInput" \in Screens!Places /\ "Auto" \in Screens!Routes
      BY DEF Screens!Places, Screens!Routes
    <3>3. s4 + 1 \in Nat /\ t \in Screens!Some
      OBVIOUS
    <3>4. s1' \in Scr
      BY ONLY <3>1, <3>2, <3>3 DEF Scr
    <3>5. QED
      BY ONLY <3>1, <3>4
  <2>4. QED
    BY <2>2, <2>3
<1>4. Screens!PendingParked'
  BY <1>3 DEF Screens!PendingParked
<1>5. Screens!SpinnersHaveWorkers' /\ Screens!WorkerMeansDeployScreen'
  <2>1. CASE route = "PathDeploy"
    <3>1. s1'.at = "Deploy" /\ s1'.busy /\ s1'.t = t /\ j.kind = "deploy" /\ j.t = t
      BY <2>1 DEF Screens!On, Screens!Screen
    <3>2. QED
      BY <3>1 DEF Screens!SpinnersHaveWorkers, Screens!WorkerMeansDeployScreen, NoDeploys
  <2>2. CASE route # "PathDeploy"
    <3>1. s1'.at = "DetectInput" /\ j.kind = "detect"
      BY <2>2 DEF Screens!On, Screens!Screen
    <3>2. QED
      BY <3>1 DEF Screens!SpinnersHaveWorkers, Screens!WorkerMeansDeployScreen, NoDeploys
  <2>3. QED
    BY <2>1, <2>2
<1>6. Screens!ConsentsCover'
  <2>1. SUFFICES ASSUME NEW u \in Targets
                 PROVE  \/ s7'[u] >= Cardinality(Pilots(Screens!Out', u)) + Screens!Parked(u)'
                        \/ s7'[u] >= MaxJobs - s4'
    BY AutopilotsCounted DEF Screens!ConsentsCover
  <2>2. Screens!Parked(u)' = 0
    BY TargetsAssumption DEF Screens!Parked, Screens!NoAction
  <2>3. /\ Cardinality(Pilots(S, u)) \in Nat
        /\ Cardinality(Pilots(Screens!Out', u)) \in Nat
        /\ Cardinality(Pilots(Screens!Out', u)) <= Cardinality(Pilots(S, u)) + 1
        /\ j \notin Pilots({j}, u) =>
              Cardinality(Pilots(Screens!Out', u)) <= Cardinality(Pilots(S, u))
    BY PilotCount, FS_AddElement
  <2>4. s7[u] \in Int /\ s7'[u] \in Int /\ s4 \in Nat /\ MaxJobs \in Nat
    BY TargetsAssumption DEF Paid
  <2>5. j \in Pilots({j}, u) => u = t /\ route = "Auto"
    BY DEF Pilots
  <2>6. \/ s7[u] + (IF u = t THEN c ELSE 0)
             >= Cardinality(Pilots(S, u)) + Claim(route, t, u)
        \/ s7[u] >= MaxJobs - s4
    BY DEF Covered
  <2>7. \/ s7'[u] >= MaxJobs
        \/ s7'[u] = s7[u] + (IF u = t THEN c - (IF route = "PathDeploy" THEN 1 ELSE 0)
                              ELSE 0)
    BY DEF Paid
  <2>8. CASE u # t
    BY <2>2, <2>3, <2>4, <2>5, <2>6, <2>7, <2>8 DEF Claim
  <2>9. CASE u = t /\ route = "PathDeploy"
    BY <2>2, <2>3, <2>4, <2>5, <2>6, <2>7, <2>9 DEF Claim
  <2>10. CASE u = t /\ route = "Auto"
    BY <2>2, <2>3, <2>4, <2>6, <2>7, <2>10 DEF Claim
  <2>11. CASE u = t /\ route = "Wizard"
    BY <2>2, <2>3, <2>4, <2>5, <2>6, <2>7, <2>11 DEF Claim
  <2>12. QED
    BY <2>8, <2>9, <2>10, <2>11 DEF Screens!Routes
<1>7. QED
  BY <1>3, <1>4, <1>5, <1>6

\* The action is handed over to the newer build, and its consent with it.
LEMMA HandedOver ==
    ASSUME s7 \in [Targets -> Int], s4 \in Nat,
           NEW S, IsFiniteSet(S), NoDeploys(S),
           NEW route \in Screens!Routes, NEW t \in Screens!Some, NEW c \in {0, 1},
           Covered(S, route, t, c),
           Screens!Out' = S, UNCHANGED s4, s6' = [route |-> route, t |-> t],
           s1' = [Screens!On("handover", t) EXCEPT !.route = route],
           Paid(t, c, 0)
    PROVE  /\ s1' \in Scr
           /\ Screens!PendingParked' /\ Screens!ConsentsCover'
           /\ Screens!SpinnersHaveWorkers' /\ Screens!WorkerMeansDeployScreen'
<1>1. s1' \in Scr /\ s1'.at = "handover" /\ s1'.route = route /\ s1'.t = t
  <2>1. Screens!On("handover", t) \in Scr
    BY FreshScreens DEF Screens!Places
  <2>2. QED
    BY <2>1 DEF Scr, Screens!On, Screens!Screen
<1>2. Screens!PendingParked'
  BY <1>1 DEF Screens!PendingParked
<1>3. Screens!SpinnersHaveWorkers' /\ Screens!WorkerMeansDeployScreen'
  BY <1>1 DEF Screens!SpinnersHaveWorkers, Screens!WorkerMeansDeployScreen, NoDeploys
<1>4. Screens!ConsentsCover'
  <2>1. SUFFICES ASSUME NEW u \in Targets
                 PROVE  \/ s7'[u] >= Cardinality(Pilots(Screens!Out', u)) + Screens!Parked(u)'
                        \/ s7'[u] >= MaxJobs - s4'
    BY AutopilotsCounted DEF Screens!ConsentsCover
  <2>2. Screens!Parked(u)' = Claim(route, t, u)
    BY DEF Screens!Parked, Claim
  <2>3. Cardinality(Pilots(S, u)) \in Nat /\ Claim(route, t, u) \in {0, 1}
    BY PilotCount DEF Claim
  <2>4. s7[u] \in Int /\ s7'[u] \in Int /\ s4 \in Nat /\ MaxJobs \in Nat
    BY TargetsAssumption DEF Paid
  <2>5. \/ s7[u] + (IF u = t THEN c ELSE 0)
             >= Cardinality(Pilots(S, u)) + Claim(route, t, u)
        \/ s7[u] >= MaxJobs - s4
    BY DEF Covered
  <2>6. \/ s7'[u] >= MaxJobs
        \/ s7'[u] = s7[u] + (IF u = t THEN c ELSE 0)
    BY <2>4 DEF Paid
  <2>7. CASE u # t
    BY <2>2, <2>3, <2>4, <2>5, <2>6, <2>7
  <2>8. CASE u = t
    BY <2>2, <2>3, <2>4, <2>5, <2>6, <2>8
  <2>9. QED
    BY <2>7, <2>8
<1>5. QED
  BY <1>1, <1>2, <1>3, <1>4

\* S is what is out once the message, if one is drained, is taken.
Reading(S) ==
    \/ UNCHANGED s3 /\ S = Screens!Out
    \/ s3 # <<>> /\ s3' = Tail(s3) /\ S = Screens!Out \ {Head(s3).job}

\* The threads left once a message is read.
LEMMA ReadingLeaves ==
    ASSUME Screens!ScrTyped, NEW S, Reading(S)
    PROVE  IsFiniteSet(S) /\ S \subseteq Screens!Out /\ s3' \in Seq(Screens!Results)
<1>1. IsFiniteSet(Screens!Out) /\ s3 \in Seq(Screens!Results)
  BY OutTyped DEF Screens!ScrTyped
<1>2. CASE UNCHANGED s3 /\ S = Screens!Out
  BY <1>1, <1>2
<1>3. CASE s3 # <<>> /\ s3' = Tail(s3) /\ S = Screens!Out \ {Head(s3).job}
  BY <1>1, <1>3, FS_RemoveElement, TailShifts
<1>4. QED
  BY <1>2, <1>3 DEF Reading

\* Doing the action here keeps the invariant.
LEMMA PerformKeeps ==
    ASSUME Screens!ScrTyped, Screens!JobsDistinct,
           NEW S, Reading(S), NoDeploys(S),
           NEW route \in Screens!Routes, NEW t \in Screens!Some, NEW c \in {0, 1},
           Covered(S, route, t, c), Screens!Perform(route, t, c),
           s6' = Screens!NoAction, UNCHANGED s5
    PROVE  Screens!ScrInv'
<1> DEFINE j == Doing(route, t)
<1>1. s4 \in Nat /\ s7 \in [Targets -> Int] /\ IsFiniteSet(S)
  BY TargetsAssumption, ReadingLeaves DEF Screens!ScrTyped
<1>2. j \in Screens!Jobs /\ j.n = s4 + 1
  BY <1>1 DEF Screens!Jobs, Doing
<1>3. /\ Screens!Spawn(j)
      /\ s1' = IF route = "PathDeploy"
               THEN [Screens!On("Deploy", t) EXCEPT !.busy = TRUE]
               ELSE [Screens!On("DetectInput", t) EXCEPT !.busy = TRUE, !.n = s4 + 1]
  BY DEF Screens!Perform, Screens!StartTarget, Screens!Detect, Screens!Job, Doing
<1>4. Paid(t, c, IF route = "PathDeploy" THEN 1 ELSE 0)
  BY <1>1, Settled DEF Screens!Perform, Paid
<1> HIDE DEF j
<1>5. /\ Screens!Out' = S \cup {j} /\ s4' = s4 + 1 /\ s4' \in 0..MaxJobs
      /\ s2' \subseteq Screens!Jobs /\ IsFiniteSet(s2') /\ Screens!JobsDistinct'
  BY <1>2, <1>3, OutSpawned, OutSwapped DEF Reading
<1>6. /\ s1' \in Scr
      /\ Screens!PendingParked' /\ Screens!ConsentsCover'
      /\ Screens!SpinnersHaveWorkers' /\ Screens!WorkerMeansDeployScreen'
  <2>1. Started(S, route, t)
    BY <1>3, <1>5 DEF Started, j
  <2>2. QED
    BY <1>1, <1>4, <2>1, Performed
<1>7. s6' \in [route : Screens!Routes, t : Screens!Some]
  BY DEF Screens!NoAction, Screens!Routes, Screens!Some
<1>8. Screens!ScrTyped'
  <2>1. s5' \in BOOLEAN /\ s7' \in [Targets -> Int] /\ s3' \in Seq(Screens!Results)
    BY <1>4, ReadingLeaves DEF Screens!ScrTyped, Paid
  <2>2. QED
    BY <1>5, <1>6, <1>7, <2>1, SameFiniteSets DEF Screens!ScrTyped, Scr
<1>9. QED
  BY <1>5, <1>6, <1>8 DEF Screens!ScrInv

\* A committed action is done here or handed over, and keeps the invariant.
LEMMA Committed ==
    ASSUME Screens!ScrInv, s1.at \notin {"off", "handover"},
           NEW S, Reading(S), NoDeploys(S),
           NEW route \in Screens!Routes, NEW t \in Screens!Some, NEW c \in {0, 1},
           Covered(S, route, t, c), Screens!Commit(route, t, c)
    PROVE  Screens!ScrInv'
<1>1. /\ Screens!ScrTyped /\ Screens!JobsDistinct
      /\ s6 = Screens!NoAction /\ UNCHANGED s5
  BY DEF Screens!ScrInv, Screens!PendingParked, Screens!Commit
<1>2. CASE Screens!Perform(route, t, c) /\ UNCHANGED s6
  BY <1>1, <1>2, PerformKeeps
<1>3. ASSUME s6' = [route |-> route, t |-> t],
             s1' = [Screens!On("handover", t) EXCEPT !.route = route],
             Screens!Settle(t, c, 0), UNCHANGED <<s2, s4>>
      PROVE  Screens!ScrInv'
  <2>1. s4 \in Nat /\ s7 \in [Targets -> Int] /\ IsFiniteSet(S)
    BY <1>1, TargetsAssumption, ReadingLeaves DEF Screens!ScrTyped
  <2>2. Paid(t, c, 0)
    BY <1>3, <2>1, Settled DEF Paid
  <2>3. Screens!Out' = S /\ Screens!JobsDistinct'
    BY <1>1, <1>3, OutKept, OutDrained DEF Reading
  <2>4. /\ s1' \in Scr
        /\ Screens!PendingParked' /\ Screens!ConsentsCover'
        /\ Screens!SpinnersHaveWorkers' /\ Screens!WorkerMeansDeployScreen'
    BY <1>3, <2>1, <2>2, <2>3, HandedOver
  <2>5. s6' \in [route : Screens!Routes, t : Screens!Some]
    BY <1>3
  <2>6. s7' \in [Targets -> Int] /\ s3' \in Seq(Screens!Results)
    BY <1>1, <2>2, ReadingLeaves DEF Paid
  <2>7. Screens!ScrTyped'
    BY <1>1, <1>3, <2>4, <2>5, <2>6 DEF Screens!ScrTyped, Scr, Screens!IsFiniteSet
  <2>8. QED
    BY <2>3, <2>4, <2>7 DEF Screens!ScrInv
<1>4. QED
  BY <1>2, <1>3 DEF Screens!Commit

\* While a panel reads keys, every thread that may deploy has its consent.
LEMMA ConsentsHeld ==
    ASSUME Screens!ScrInv, s1.at \notin {"off", "handover"}
    PROVE  /\ \A route, t : Covered(Screens!Out, route, t,
                                    IF route # "Wizard" THEN 1 ELSE 0)
           /\ s3 # <<>> /\ Head(s3).job.kind = "detect" /\ Head(s3).job.route = "Auto" =>
                 Covered(Screens!Out \ {Head(s3).job}, "PathDeploy", Head(s3).job.t, 0)
<1>1. \A u \in Targets : s7[u] \in Int
  BY DEF Screens!ScrInv, Screens!ScrTyped
<1>2. IsFiniteSet(Screens!Out)
  BY OutTyped DEF Screens!ScrInv
<1>3. \A u \in Targets : \/ s7[u] >= Cardinality(Pilots(Screens!Out, u))
                         \/ s7[u] >= MaxJobs - s4
  <2>1. SUFFICES ASSUME NEW u \in Targets
                 PROVE  \/ s7[u] >= Cardinality(Pilots(Screens!Out, u))
                        \/ s7[u] >= MaxJobs - s4
    OBVIOUS
  <2>2. Screens!Parked(u) = 0
    BY TargetsAssumption
       DEF Screens!ScrInv, Screens!PendingParked, Screens!Parked, Screens!NoAction
  <2>3. \/ s7[u] >= Cardinality(Pilots(Screens!Out, u)) + 0
        \/ s7[u] >= MaxJobs - s4
    BY <2>2, AutopilotsCounted DEF Screens!ScrInv, Screens!ConsentsCover
  <2>4. Cardinality(Pilots(Screens!Out, u)) \in Nat
    BY <1>2, PilotCount
  <2>5. QED
    BY <2>3, <2>4
<1>4. ASSUME NEW route, NEW t
      PROVE  Covered(Screens!Out, route, t, IF route # "Wizard" THEN 1 ELSE 0)
  <2>1. SUFFICES ASSUME NEW u \in Targets
                 PROVE  \/ s7[u] + (IF u = t THEN IF route # "Wizard" THEN 1 ELSE 0 ELSE 0)
                             >= Cardinality(Pilots(Screens!Out, u)) + Claim(route, t, u)
                        \/ s7[u] >= MaxJobs - s4
    BY DEF Covered
  <2>2. Cardinality(Pilots(Screens!Out, u)) \in Nat
    BY <1>2, PilotCount
  <2>3. QED
    BY <1>1, <1>3, <2>2 DEF Claim
<1>5. ASSUME s3 # <<>>, Head(s3).job.kind = "detect", Head(s3).job.route = "Auto"
      PROVE  Covered(Screens!Out \ {Head(s3).job}, "PathDeploy", Head(s3).job.t, 0)
  <2> DEFINE j == Head(s3).job
  <2>1. SUFFICES ASSUME NEW u \in Targets
                 PROVE  \/ s7[u] + (IF u = j.t THEN 0 ELSE 0)
                             >= Cardinality(Pilots(Screens!Out \ {j}, u))
                                  + Claim("PathDeploy", j.t, u)
                        \/ s7[u] >= MaxJobs - s4
    BY DEF Covered
  <2>2. j \in Screens!Out
    <3>1. s3 \in Seq(Screens!Results)
      BY DEF Screens!ScrInv, Screens!ScrTyped
    <3>2. Head(s3) \in Screens!Range(s3)
      BY <1>5, <3>1, TailShifts DEF Screens!Range
    <3>3. QED
      BY <3>2 DEF Screens!Out
  <2>3. u = j.t => j \in Pilots(Screens!Out, u)
    BY <1>5, <2>2 DEF Pilots
  <2> HIDE DEF j
  <2>4. IsFiniteSet(Screens!Out \ {j})
    BY <1>2, FS_RemoveElement
  <2>5. /\ Cardinality(Pilots(Screens!Out, u)) \in Nat
        /\ Cardinality(Pilots(Screens!Out \ {j}, u)) \in Nat
    BY <1>2, <2>4, PilotCount
  <2>6. /\ Cardinality(Pilots(Screens!Out \ {j}, u)) <= Cardinality(Pilots(Screens!Out, u))
        /\ j \in Pilots(Screens!Out, u) =>
              Cardinality(Pilots(Screens!Out \ {j}, u))
                = Cardinality(Pilots(Screens!Out, u)) - 1
    BY <1>2, PilotCount
  <2>7. QED
    BY <1>1, <1>3, <2>3, <2>5, <2>6 DEF Claim
<1>6. QED
  BY <1>4, <1>5

\* A thread that does not deploy is spawned behind the screen that shows it.
LEMMA Opened ==
    ASSUME Screens!ScrInv, NEW j \in Screens!Jobs, Screens!Spawn(j), j.n = s4 + 1,
           j.kind # "deploy", j.kind # "detect" \/ j.route # "Auto",
           UNCHANGED <<s3, s5, s6, s7>>,
           s1.at \notin {"off", "handover", "Deploy"},
           s1' \in Scr, s1'.at \notin {"off", "handover", "Deploy"},
           s1'.at = "Scan" => j.kind = "scan" /\ j.n = s1'.n,
           s1'.at = "DetectInput" => j.kind = "detect",
           s1'.at = "Egress" => j.kind = "check" /\ j.t = s1'.t
    PROVE  Screens!ScrInv'
<1>1. Screens!ScrTyped /\ Screens!JobsDistinct /\ s6 = Screens!NoAction
  BY DEF Screens!ScrInv, Screens!PendingParked
<1>2. /\ Screens!Out' = Screens!Out \cup {j} /\ s4' = s4 + 1 /\ s4' \in 0..MaxJobs
      /\ s2' \subseteq Screens!Jobs /\ IsFiniteSet(s2') /\ Screens!JobsDistinct'
  BY <1>1, OutSpawned
<1>3. Screens!ScrTyped'
  BY <1>1, <1>2, SameFiniteSets DEF Screens!ScrTyped, Scr
<1>4. Screens!PendingParked'
  BY <1>1 DEF Screens!PendingParked
<1>5. NoDeploys(Screens!Out')
  BY <1>2 DEF Screens!ScrInv, Screens!WorkerMeansDeployScreen, NoDeploys
<1>6. Screens!SpinnersHaveWorkers' /\ Screens!WorkerMeansDeployScreen'
  BY <1>2, <1>5 DEF Screens!SpinnersHaveWorkers, Screens!WorkerMeansDeployScreen, NoDeploys
<1>7. s4 \in Nat /\ s4' \in Nat /\ s4' >= s4 /\ IsFiniteSet(Screens!Out)
  BY <1>1, <1>2, OutTyped, TargetsAssumption DEF Screens!ScrTyped
<1>8. Screens!ConsentsCover'
  BY <1>1, <1>2, <1>7, CoverKept DEF Screens!ScrInv
<1>9. QED
  BY <1>2, <1>3, <1>4, <1>6, <1>8 DEF Screens!ScrInv

\* A message is read and starts nothing.
LEMMA MessageRead ==
    ASSUME Screens!ScrInv, s3 # <<>>, s3' = Tail(s3), UNCHANGED <<s2, s4, s5, s6, s7>>,
           s1' \in Scr, Screens!PendingParked',
           Screens!SpinnersHaveWorkers', Screens!WorkerMeansDeployScreen'
    PROVE  Screens!ScrInv'
<1>1. Screens!ScrTyped /\ Screens!JobsDistinct
  BY DEF Screens!ScrInv
<1>2. /\ Screens!Out' = Screens!Out \ {Head(s3).job} /\ Screens!JobsDistinct'
      /\ s3' \in Seq(Screens!Results)
  BY <1>1, OutDrained, InboxDrained
<1>3. Screens!ScrTyped'
  BY <1>1, <1>2 DEF Screens!ScrTyped, Scr, Screens!IsFiniteSet
<1>4. s4 \in Nat /\ IsFiniteSet(Screens!Out)
  BY <1>1, OutTyped, TargetsAssumption DEF Screens!ScrTyped
<1>5. Screens!ConsentsCover'
  BY <1>1, <1>2, <1>4, CoverKept DEF Screens!ScrInv
<1>6. QED
  BY <1>2, <1>3, <1>5 DEF Screens!ScrInv

\* A drained message ends the wait of the screen that waits for it, and no other.
LEMMA ScreensDrain ==
    ASSUME Screens!ScrInv, Screens!Drain
    PROVE  Screens!ScrInv'
<1> DEFINE m == Head(s3)
<1>1. /\ Screens!ScrTyped /\ Screens!JobsDistinct /\ s1 \in Scr
      /\ Screens!SpinnersHaveWorkers /\ Screens!WorkerMeansDeployScreen
      /\ Screens!PendingParked
  BY DEF Screens!ScrInv, Screens!ScrTyped, Scr
<1>2. s3 # <<>> /\ s3' = Tail(s3)
  BY DEF Screens!Drain, Screens!ScanDone, Screens!DeployDone, Screens!EgressChecked,
         Screens!DetectDone, Screens!Next1
<1>3. m \in Screens!Results /\ m.job \in Screens!Jobs /\ m.job \in Screens!Out
  BY <1>1, <1>2, InboxDrained, OutTyped
<1>4. UNCHANGED <<s2, s4>> => Screens!Out' = Screens!Out \ {m.job}
  BY <1>1, <1>2, OutDrained
<1>5. /\ [s1 EXCEPT !.busy = FALSE] \in Scr
      /\ [s1 EXCEPT !.t = NoTarget] \in Scr
  BY <1>1 DEF Scr, Screens!Some
<1> HIDE DEF m
<1>6. CASE Screens!ScanDone
  <2>1. /\ m.job.kind = "scan" /\ UNCHANGED <<s2, s4, s5, s6, s7>>
        /\ s1' = IF s1.at = "Scan" /\ s1.n = m.job.n
                 THEN [s1 EXCEPT !.busy = FALSE] ELSE s1
    BY <1>6 DEF Screens!ScanDone, Screens!Next1, Screens!ShowRead, m
  <2>2. /\ s1' \in Scr /\ s1'.at = s1.at /\ s1'.t = s1.t /\ s1'.route = s1.route
        /\ s1'.n = s1.n /\ (s1.at # "Scan" => s1' = s1)
        /\ s1.at = "Scan" /\ s1'.busy => s1.busy /\ s1.n # m.job.n
    BY <1>1, <1>5, <2>1 DEF Scr
  <2>3. Screens!PendingParked'
    BY <1>1, <2>1, <2>2 DEF Screens!PendingParked
  <2>4. Screens!SpinnersHaveWorkers'
    BY <1>1, <1>4, <2>1, <2>2 DEF Screens!SpinnersHaveWorkers
  <2>5. Screens!WorkerMeansDeployScreen'
    BY <1>1, <1>4, <2>1, <2>2 DEF Screens!WorkerMeansDeployScreen
  <2>6. QED
    BY <1>2, <2>1, <2>2, <2>3, <2>4, <2>5, MessageRead
<1>7. CASE Screens!DeployDone
  <2>1. /\ m.job.kind = "deploy" /\ UNCHANGED <<s2, s4, s5, s6, s7>>
        /\ s1' = IF s1.at = "Deploy" THEN [s1 EXCEPT !.busy = FALSE] ELSE s1
    BY <1>7 DEF Screens!DeployDone, Screens!Next1, Screens!ShowRead, m
  <2>2. s1.at = "Deploy" /\ NoDeploys(Screens!Out')
    BY <1>1, <1>3, <1>4, <2>1 DEF Screens!WorkerMeansDeployScreen, NoDeploys
  <2>3. s1' \in Scr /\ s1'.at = "Deploy" /\ ~s1'.busy
    BY <1>1, <1>5, <2>1, <2>2 DEF Scr
  <2>4. Screens!PendingParked'
    BY <1>1, <2>1, <2>2, <2>3 DEF Screens!PendingParked
  <2>5. Screens!SpinnersHaveWorkers' /\ Screens!WorkerMeansDeployScreen'
    BY <2>2, <2>3
       DEF Screens!SpinnersHaveWorkers, Screens!WorkerMeansDeployScreen, NoDeploys
  <2>6. QED
    BY <1>2, <2>1, <2>3, <2>4, <2>5, MessageRead
<1>8. CASE Screens!EgressChecked
  <2>1. /\ m.job.kind = "check" /\ UNCHANGED <<s2, s4, s5, s6, s7>>
        /\ s1' = IF s1.at = "Egress" /\ s1.t = m.job.t
                 THEN [s1 EXCEPT !.t = NoTarget] ELSE s1
    BY <1>8 DEF Screens!EgressChecked, Screens!Next1, Screens!ShowRead, m
  <2>2. /\ s1' \in Scr /\ s1'.at = s1.at /\ s1'.busy = s1.busy /\ s1'.n = s1.n
        /\ s1.at # "Egress" => s1' = s1
        /\ s1.at = "Egress" /\ s1'.t # NoTarget => s1'.t = s1.t /\ s1.t # m.job.t
    BY <1>1, <1>5, <2>1 DEF Scr
  <2>3. Screens!PendingParked'
    BY <1>1, <2>1, <2>2 DEF Screens!PendingParked
  <2>4. Screens!SpinnersHaveWorkers'
    BY <1>1, <1>4, <2>1, <2>2 DEF Screens!SpinnersHaveWorkers
  <2>5. Screens!WorkerMeansDeployScreen'
    BY <1>1, <1>4, <2>1, <2>2 DEF Screens!WorkerMeansDeployScreen
  <2>6. QED
    BY <1>2, <2>1, <2>2, <2>3, <2>4, <2>5, MessageRead
<1>9. ASSUME m.job.kind = "detect", s1' \in Scr, UNCHANGED <<s2, s4, s5, s6, s7>>,
             s1' = s1 \/ s1.at = "DetectInput",
             s1.at = "DetectInput" =>
                s1'.at \in {"DetectInput", "Wizard"} /\ ~s1'.busy
      PROVE  Screens!ScrInv'
  <2>1. Screens!PendingParked'
    BY <1>1, <1>9 DEF Screens!PendingParked
  <2>2. Screens!SpinnersHaveWorkers'
    BY <1>1, <1>4, <1>9 DEF Screens!SpinnersHaveWorkers
  <2>3. Screens!WorkerMeansDeployScreen'
    BY <1>1, <1>4, <1>9 DEF Screens!WorkerMeansDeployScreen
  <2>4. QED
    BY <1>2, <1>9, <2>1, <2>2, <2>3, MessageRead
<1>10. CASE Screens!DetectDone
  <2>1. m.job.kind = "detect"
    BY <1>10 DEF Screens!DetectDone, Screens!Next1, m
  <2>2. CASE s1.at # "DetectInput"
    BY <1>1, <1>9, <1>10, <2>1, <2>2 DEF Screens!DetectDone, Screens!ShowRead
  <2>3. CASE s1.at = "DetectInput" /\ Screens!ShowRead([s1 EXCEPT !.busy = FALSE])
    <3>1. s1' \in Scr /\ s1'.at = "DetectInput" /\ ~s1'.busy
      BY <1>1, <1>5, <2>3 DEF Screens!ShowRead, Scr
    <3>2. QED
      BY <1>9, <2>1, <2>3, <3>1 DEF Screens!ShowRead
  <2>4. CASE s1.at = "DetectInput" /\ Screens!ShowRead(Screens!On("Wizard", m.job.t))
    <3>1. "Wizard" \in Screens!Places /\ m.job.t \in Screens!Some
      BY <1>3 DEF Screens!Places, Screens!Jobs
    <3>2. s1' \in Scr /\ s1'.at = "Wizard" /\ ~s1'.busy
      BY <2>4, <3>1, FreshScreens DEF Screens!ShowRead
    <3>3. QED
      BY <1>9, <2>1, <2>4, <3>2 DEF Screens!ShowRead
  <2>5. CASE /\ s1.at = "DetectInput" /\ m.job.route = "Auto"
             /\ Screens!Commit("PathDeploy", m.job.t, 0)
    <3>1. Reading(Screens!Out \ {m.job})
      BY <1>2 DEF Reading, m
    <3>2. NoDeploys(Screens!Out \ {m.job})
      BY <1>1, <2>5 DEF Screens!WorkerMeansDeployScreen, NoDeploys
    <3>3. Covered(Screens!Out \ {m.job}, "PathDeploy", m.job.t, 0)
      BY <1>2, <2>1, <2>5, ConsentsHeld DEF m
    <3>4. m.job.t \in Screens!Some /\ "PathDeploy" \in Screens!Routes
      BY <1>3 DEF Screens!Jobs, Screens!Routes
    <3>5. QED
      BY <2>5, <3>1, <3>2, <3>3, <3>4, Committed
  <2>6. QED
    BY <1>10, <2>2, <2>3, <2>4, <2>5 DEF Screens!DetectDone, m
<1>11. QED
  BY <1>6, <1>7, <1>8, <1>10 DEF Screens!Drain

\* A key that only moves to another screen.
LEMMA WentTo ==
    ASSUME Screens!ScrInv, NEW from, NEW to \in Screens!Places \ {"off", "handover"},
           from \notin {"off", "handover"}, from = "Deploy" => ~s1.busy,
           Screens!GoTo(from, to)
    PROVE  Screens!ScrInv'
<1>1. NoTarget \in Screens!Some
  BY DEF Screens!Some
<1>2. Quiet(Screens!Screen(to))
  BY <1>1, FreshScreens DEF Quiet
<1>3. QED
  BY <1>2, Browsed DEF Screens!GoTo

\* A key that only shows a screen keeps the invariant.
LEMMA ScreensBrowse ==
    ASSUME Screens!ScrInv,
           \/ Screens!Leave \/ Screens!JumpToService \/ Screens!Highlight
           \/ \E m \in Screens!Menus : Screens!OpenMenu(m)
           \/ \E t \in Targets : Screens!EnterPath(t) \/ Screens!PickManifest(t)
           \/ Screens!ConfirmNo \/ Screens!AskFirst \/ Screens!Answer
           \/ Screens!DismissDeploy \/ Screens!AddServiceRow \/ Screens!DetectEsc
           \/ Screens!WizardLeave \/ Screens!EditForm \/ Screens!EgressList
    PROVE  Screens!ScrInv'
<1>1. Screens!Menus \cup {"Main", "Import", "DetectInput", "Wizard", "ConfirmDelete",
                          "ConfirmClear", "EgressHosts", "EditServiceForm", "Confirm"}
        \subseteq Screens!Places \ {"off", "handover"}
  BY DEF Screens!Places, Screens!Menus
<1>2. Screens!Menus = {"Networks", "Services", "UrlInput", "AddService", "UserServices",
                       "EditService", "Egress", "Logs"}
  BY DEF Screens!Menus
<1>3. \A t \in Targets : t \in Screens!Some
  BY DEF Screens!Some
<1>4. ASSUME NEW m \in Screens!Menus, Screens!OpenMenu(m) PROVE Screens!ScrInv'
  BY <1>1, <1>4, WentTo DEF Screens!OpenMenu
<1>5. CASE Screens!Leave
  <2>1. PICK from \in Screens!Menus \cup {"Scan"} : Screens!GoTo(from, "Main")
    BY <1>5 DEF Screens!Leave, Screens!GoTo
  <2>2. from \notin {"off", "handover", "Deploy"}
    BY <1>2
  <2>3. QED
    BY <1>1, <2>1, <2>2, WentTo
<1>6. CASE Screens!JumpToService \/ Screens!ConfirmNo \/ Screens!AskFirst \/ Screens!Answer
  BY <1>1, <1>2, <1>6, WentTo
     DEF Screens!JumpToService, Screens!ConfirmNo, Screens!AskFirst, Screens!Answer
<1>7. CASE Screens!DismissDeploy \/ Screens!DetectEsc \/ Screens!WizardLeave
           \/ Screens!EgressList
  BY <1>1, <1>2, <1>7, WentTo
     DEF Screens!DismissDeploy, Screens!DetectEsc, Screens!WizardLeave, Screens!EgressList
<1>8. CASE Screens!Highlight
  <2> DEFINE s == [s1 EXCEPT !.yes = ~s1.yes]
  <2>1. s1.at \in {"Confirm", "ConfirmDelete", "ConfirmClear"} /\ Screens!Show(s)
    BY <1>8 DEF Screens!Highlight
  <2>2. s1 \in Scr
    BY DEF Screens!ScrInv, Screens!ScrTyped, Scr
  <2>3. Quiet(s)
    BY <2>1, <2>2 DEF Quiet, Scr
  <2> HIDE DEF s
  <2>4. QED
    BY <2>1, <2>3, Browsed
<1>9. ASSUME NEW t \in Targets, Screens!EnterPath(t) \/ Screens!PickManifest(t)
      PROVE  Screens!ScrInv'
  <2>1. PICK b \in BOOLEAN :
          /\ Screens!Show([Screens!On("Confirm", t) EXCEPT !.yes = b])
          /\ s1.at \in {"UrlInput", "AddService", "UserServices"}
    BY <1>9 DEF Screens!EnterPath, Screens!PickManifest, Screens!ScrInv, Screens!ScrTyped
  <2>2. Screens!On("Confirm", t) \in Scr
    BY <1>1, <1>3, FreshScreens
  <2>3. Quiet([Screens!On("Confirm", t) EXCEPT !.yes = b])
    BY <2>2 DEF Quiet, Scr, Screens!On, Screens!Screen
  <2>4. QED
    BY <2>1, <2>3, Browsed
<1>10. ASSUME NEW t \in Targets, NEW at \in {"Wizard", "EditServiceForm"},
              s1.at \in {"AddService", "EditService"}, Screens!Show(Screens!On(at, t))
       PROVE  Screens!ScrInv'
  <2>1. Quiet(Screens!On(at, t))
    BY <1>1, <1>3, FreshScreens DEF Quiet
  <2>2. QED
    BY <1>10, <2>1, Browsed
<1>11. CASE Screens!AddServiceRow
  <2>1. CASE \/ Screens!GoTo("AddService", "Import")
             \/ Screens!GoTo("Import", "AddService")
             \/ Screens!GoTo("AddService", "DetectInput")
    BY <1>1, <1>2, <2>1, WentTo
  <2>2. QED
    BY <1>10, <1>11, <2>1 DEF Screens!AddServiceRow
<1>12. CASE Screens!EditForm
  <2>1. CASE Screens!GoTo("EditServiceForm", "EditService")
    BY <1>1, <1>2, <2>1, WentTo
  <2>2. QED
    BY <1>10, <1>12, <2>1 DEF Screens!EditForm
<1>13. QED
  BY <1>4, <1>5, <1>6, <1>7, <1>8, <1>9, <1>11, <1>12

\* A key that spawns a thread, or commits an action, keeps the invariant.
LEMMA ScreensAct ==
    ASSUME Screens!ScrInv,
           \/ Screens!OpenScan
           \/ \E t \in Targets, r \in {"Auto", "Wizard"} : Screens!EnterUrl(t, r)
           \/ \E t \in Targets : Screens!DetectEnter(t) \/ Screens!EgressVerify(t)
           \/ Screens!ConfirmYes \/ Screens!WizardDeploy \/ Screens!EditRedeploy
    PROVE  Screens!ScrInv'
<1>1. s1 \in Scr /\ s1.t \in Screens!Some /\ s4 + 1 \in Nat
  BY TargetsAssumption DEF Screens!ScrInv, Screens!ScrTyped, Scr
<1>2. /\ \A t \in Targets : t \in Screens!Some
      /\ NoTarget \in Screens!Some
      /\ {"Scan", "DetectInput", "Egress"} \subseteq Screens!Places
      /\ {"Auto", "Wizard", "PathDeploy"} \subseteq Screens!Routes
  BY DEF Screens!Some, Screens!Places, Screens!Menus, Screens!Routes
<1>3. ASSUME NEW route \in Screens!Routes, NEW t \in Screens!Some,
             NEW c \in {0, 1}, c = IF route # "Wizard" THEN 1 ELSE 0,
             s1.at \notin {"off", "handover", "Deploy"}, UNCHANGED s3,
             Screens!Commit(route, t, c)
      PROVE  Screens!ScrInv'
  <2>1. Reading(Screens!Out)
    BY <1>3 DEF Reading
  <2>2. NoDeploys(Screens!Out)
    BY <1>3 DEF NoDeploys, Screens!ScrInv, Screens!WorkerMeansDeployScreen
  <2>3. Covered(Screens!Out, route, t, c)
    BY <1>3, ConsentsHeld
  <2>4. QED
    BY <1>3, <2>1, <2>2, <2>3, Committed
<1>4. CASE Screens!OpenScan
  <2> DEFINE j == Screens!Job("scan", NoTarget, "Auto")
  <2>1. /\ s1.at = "Main" /\ Screens!Spawn(j) /\ UNCHANGED <<s3, s5, s6, s7>>
        /\ s1' = [Screens!Screen("Scan") EXCEPT !.busy = TRUE, !.n = s4 + 1]
    BY <1>4 DEF Screens!OpenScan
  <2>2. j \in Screens!Jobs /\ j.n = s4 + 1 /\ j.kind = "scan"
    BY <1>1, <1>2 DEF Screens!Job, Screens!Jobs
  <2>3. s1' = [at |-> "Scan", n |-> s4 + 1, busy |-> TRUE, t |-> NoTarget,
               yes |-> FALSE, route |-> "Auto"]
    BY <2>1 DEF Screens!Screen
  <2>4. s1' \in Scr /\ s1'.at = "Scan" /\ s1'.n = s4 + 1
    BY ONLY <1>1, <1>2, <2>3 DEF Scr
  <2> HIDE DEF j
  <2>5. QED
    BY <2>1, <2>2, <2>4, Opened
<1>5. ASSUME NEW t \in Targets, Screens!DetectEnter(t) PROVE Screens!ScrInv'
  <2> DEFINE j == Screens!Job("detect", t, "Wizard")
  <2>1. /\ s1.at = "DetectInput" /\ Screens!Spawn(j) /\ UNCHANGED <<s3, s5, s6, s7>>
        /\ s1' = [Screens!On("DetectInput", t) EXCEPT !.busy = TRUE, !.n = s4 + 1]
    BY <1>5 DEF Screens!DetectEnter, Screens!Detect
  <2>2. j \in Screens!Jobs /\ j.n = s4 + 1 /\ j.kind = "detect" /\ j.route = "Wizard"
    BY <1>1, <1>2 DEF Screens!Job, Screens!Jobs
  <2>3. s1' = [at |-> "DetectInput", n |-> s4 + 1, busy |-> TRUE, t |-> t,
               yes |-> FALSE, route |-> "Auto"]
    BY <2>1 DEF Screens!On, Screens!Screen
  <2>4. t \in Screens!Some
    BY <1>2
  <2>5. s1' \in Scr /\ s1'.at = "DetectInput"
    BY ONLY <1>1, <1>2, <2>3, <2>4 DEF Scr
  <2> HIDE DEF j
  <2>6. QED
    BY <2>1, <2>2, <2>5, Opened
<1>6. ASSUME NEW t \in Targets, Screens!EgressVerify(t) PROVE Screens!ScrInv'
  <2> DEFINE j == Screens!Job("check", t, "Auto")
  <2>1. /\ s1.at = "Egress" /\ Screens!Spawn(j) /\ UNCHANGED <<s3, s5, s6, s7>>
        /\ s1' = Screens!On("Egress", t)
    BY <1>6 DEF Screens!EgressVerify
  <2>2. j \in Screens!Jobs /\ j.n = s4 + 1 /\ j.kind = "check" /\ j.t = t
    BY <1>1, <1>2 DEF Screens!Job, Screens!Jobs
  <2>3. t \in Screens!Some /\ "Egress" \in Screens!Places
    BY <1>2
  <2>4. s1' \in Scr /\ s1'.at = "Egress" /\ s1'.t = t
    BY ONLY <2>1, <2>3, FreshScreens
  <2> HIDE DEF j
  <2>5. QED
    BY <2>1, <2>2, <2>4, Opened
<1>7. ASSUME NEW t \in Targets, NEW r \in {"Auto", "Wizard"}, Screens!EnterUrl(t, r)
      PROVE  Screens!ScrInv'
  <2>1. /\ s1.at = "UrlInput" /\ UNCHANGED s3
        /\ Screens!Commit(r, t, IF r = "Auto" THEN 1 ELSE 0)
    BY <1>7 DEF Screens!EnterUrl
  <2>2. CASE r = "Auto"
    BY <1>2, <1>3, <2>1, <2>2
  <2>3. CASE r = "Wizard"
    BY <1>2, <1>3, <2>1, <2>3
  <2>4. QED
    BY <2>2, <2>3
<1>8. CASE Screens!ConfirmYes \/ Screens!WizardDeploy \/ Screens!EditRedeploy
  <2>1. /\ s1.at \notin {"off", "handover", "Deploy"} /\ UNCHANGED s3
        /\ Screens!Commit("PathDeploy", s1.t, 1)
    BY <1>8 DEF Screens!ConfirmYes, Screens!WizardDeploy, Screens!EditRedeploy
  <2>2. QED
    BY <1>1, <1>2, <1>3, <2>1
<1>9. QED
  BY <1>4, <1>5, <1>6, <1>7, <1>8

\* Nothing is out once the process is gone.
LEMMA OutGone ==
    ASSUME s3' = <<>>
    PROVE  /\ Screens!Out' = s2' /\ s3' \in Seq(Screens!Results)
           /\ (\A j \in s2' : j.n <= s4') => Screens!JobsDistinct'
BY DEF Screens!Out, Screens!Range, Screens!JobsDistinct

\* A launch takes up the pending action once, and from then on it is gone.
LEMMA ScreensLaunch ==
    ASSUME Screens!ScrInv, Screens!Launch
    PROVE  Screens!ScrInv'
<1>1. /\ Screens!ScrTyped /\ s4 \in 0..MaxJobs /\ s4 \in Nat /\ MaxJobs \in Nat
      /\ s7 \in [Targets -> Int]
      /\ s5' \in BOOLEAN /\ s6' = Screens!NoAction
      /\ s6.t \in Screens!Some /\ s6.route \in Screens!Routes
      /\ s6' \in [route : Screens!Routes, t : Screens!Some]
  <2>1. Screens!ScrTyped /\ s5' = FALSE /\ s6' = Screens!NoAction /\ MaxJobs \in Nat
    BY TargetsAssumption DEF Screens!ScrInv, Screens!Launch
  <2>2. /\ s4 \in 0..MaxJobs /\ s7 \in [Targets -> Int]
        /\ s6 \in [route : Screens!Routes, t : Screens!Some]
    BY <2>1 DEF Screens!ScrTyped
  <2>3. Screens!NoAction \in [route : Screens!Routes, t : Screens!Some]
    BY DEF Screens!NoAction, Screens!Routes, Screens!Some
  <2>4. s4 \in Nat /\ s6.t \in Screens!Some /\ s6.route \in Screens!Routes
    BY <2>1, <2>2
  <2>5. QED
    BY <2>1, <2>2, <2>3, <2>4
<1>2. s3' = <<>>
  BY DEF Screens!Launch
<1>3. IsFiniteSet({}) /\ Cardinality({}) = 0 /\ (\A t : Pilots({}, t) = {})
  BY FS_EmptySet DEF Pilots
<1>4. ASSUME NEW at \in {"Main", "UrlInput"}, s1' = Screens!Screen(at), s2' = {},
             UNCHANGED <<s4, s7>>
      PROVE  Screens!ScrInv'
  <2>1. Screens!Out' = {} /\ Screens!JobsDistinct' /\ s3' \in Seq(Screens!Results)
    BY <1>2, <1>4, OutGone
  <2>2. at \in Screens!Places /\ NoTarget \in Screens!Some
    BY DEF Screens!Places, Screens!Menus, Screens!Some
  <2>3. s1' \in Scr /\ s1'.at = at
    BY <1>4, <2>2, FreshScreens
  <2>4. Screens!ScrTyped'
    BY <1>1, <1>3, <1>4, <2>1, <2>3, SameFiniteSets DEF Screens!ScrTyped, Scr
  <2>5. Screens!PendingParked'
    BY <1>1, <2>3 DEF Screens!PendingParked
  <2>6. Screens!SpinnersHaveWorkers' /\ Screens!WorkerMeansDeployScreen'
    BY <2>1, <2>3 DEF Screens!SpinnersHaveWorkers, Screens!WorkerMeansDeployScreen
  <2>7. IsFiniteSet(Screens!Out)
    BY <1>1, OutTyped
  <2>8. Screens!ConsentsCover'
    BY <1>1, <1>4, <2>1, <2>7, CoverKept DEF Screens!ScrInv
  <2>9. QED
    BY <2>1, <2>4, <2>5, <2>6, <2>8 DEF Screens!ScrInv
<1>5. ASSUME Started({}, s6.route, s6.t), s4 < MaxJobs, s2' = {Doing(s6.route, s6.t)},
             Paid(s6.t, 0, IF s6.route = "PathDeploy" THEN 1 ELSE 0)
      PROVE  Screens!ScrInv'
  <2>1. Doing(s6.route, s6.t) \in Screens!Jobs /\ Doing(s6.route, s6.t).n = s4 + 1
    BY <1>1 DEF Doing, Screens!Jobs
  <2>2. s4' = s4 + 1 /\ s4' \in 0..MaxJobs
    BY <1>1, <1>5 DEF Started
  <2>3. Screens!JobsDistinct' /\ s3' \in Seq(Screens!Results)
    BY <1>1, <1>2, <1>5, <2>1, <2>2, OutGone
  <2>4. Covered({}, s6.route, s6.t, 0)
    <3>1. SUFFICES ASSUME NEW u \in Targets
                   PROVE  \/ s7[u] + 0 >= 0 + Claim(s6.route, s6.t, u)
                          \/ s7[u] >= MaxJobs - s4
      BY <1>3 DEF Covered
    <3>2. \/ s7[u] >= Cardinality(Pilots(Screens!Out, u)) + Screens!Parked(u)
          \/ s7[u] >= MaxJobs - s4
      BY AutopilotsCounted DEF Screens!ScrInv, Screens!ConsentsCover
    <3>3. Screens!Parked(u) = Claim(s6.route, s6.t, u)
      BY DEF Screens!Parked, Claim
    <3>4. Cardinality(Pilots(Screens!Out, u)) \in Nat
      BY <1>1, OutTyped, PilotCount
    <3>5. s7[u] \in Int /\ Claim(s6.route, s6.t, u) \in {0, 1}
      BY <1>1 DEF Claim
    <3>6. QED
      BY <3>2, <3>3, <3>4, <3>5
  <2>5. NoDeploys({})
    BY DEF NoDeploys
  <2>6. /\ s1' \in Scr
        /\ Screens!PendingParked' /\ Screens!ConsentsCover'
        /\ Screens!SpinnersHaveWorkers' /\ Screens!WorkerMeansDeployScreen'
    BY <1>1, <1>3, <1>5, <2>4, <2>5, Performed
  <2>7. s2' \subseteq Screens!Jobs /\ IsFiniteSet(s2')
    BY <1>5, <2>1, FS_Singleton
  <2>8. s7' \in [Targets -> Int]
    BY <1>5 DEF Paid
  <2>9. Screens!ScrTyped'
    BY <1>1, <2>2, <2>3, <2>6, <2>7, <2>8, SameFiniteSets DEF Screens!ScrTyped, Scr
  <2>10. QED
    BY <2>3, <2>6, <2>9 DEF Screens!ScrInv
<1>6. ASSUME s2' = {Doing(s6.route, s6.t)}, s4' = s4 + 1,
             s1' = IF s6.route = "PathDeploy"
                   THEN [Screens!On("Deploy", s6.t) EXCEPT !.busy = TRUE]
                   ELSE [Screens!On("DetectInput", s6.t) EXCEPT !.busy = TRUE,
                                                                !.n = s4 + 1]
      PROVE  Started({}, s6.route, s6.t)
  BY <1>1, <1>2, <1>6, OutGone DEF Started
<1>7. CASE /\ s6 = Screens!NoAction /\ s1' = Screens!Screen("Main")
           /\ s2' = {} /\ UNCHANGED <<s4, s7>>
  BY <1>4, <1>7
<1>8. CASE /\ s6.route # "PathDeploy" /\ s4 < MaxJobs /\ s4' = s4 + 1
           /\ s1' = [Screens!On("DetectInput", s6.t) EXCEPT !.busy = TRUE, !.n = s4 + 1]
           /\ s2' = {Screens!Job("detect", s6.t, s6.route)} /\ UNCHANGED s7
  <2>1. s2' = {Doing(s6.route, s6.t)}
    BY <1>8 DEF Screens!Job, Doing
  <2>2. Paid(s6.t, 0, IF s6.route = "PathDeploy" THEN 1 ELSE 0)
    BY <1>1, <1>8 DEF Paid
  <2>3. QED
    BY <1>5, <1>6, <1>8, <2>1, <2>2
<1>9. CASE /\ s6.route = "PathDeploy" /\ s4 < MaxJobs /\ s4' = s4 + 1
           /\ s1' = [Screens!On("Deploy", s6.t) EXCEPT !.busy = TRUE]
           /\ s2' = {Screens!Job("deploy", s6.t, "PathDeploy")}
           /\ Screens!Settle(s6.t, 0, 1)
  <2>1. s2' = {Doing(s6.route, s6.t)}
    BY <1>9 DEF Screens!Job, Doing
  <2>2. Paid(s6.t, 0, 1)
    BY <1>1, <1>9, Settled DEF Paid
  <2>3. QED
    BY <1>5, <1>6, <1>9, <2>1, <2>2
<1>10. CASE /\ s1' = Screens!Screen("UrlInput") /\ s2' = {} /\ UNCHANGED <<s4, s7>>
  BY <1>4, <1>10
<1>11. Screens!Job("detect", s6.t, s6.route).n = s4 + 1
  BY DEF Screens!Job
<1>12. QED
  BY <1>7, <1>8, <1>9, <1>10, <1>11 DEF Screens!Launch

\* A thread ends, a newer build lands on disk, exec fails, the process dies.
LEMMA ScreensTurn ==
    ASSUME Screens!ScrInv,
           \/ Screens!Install \/ Screens!ExecFails \/ Screens!Kill
           \/ \E j \in s2, f \in {"sure", "unsure", "failed", "ok"} : Screens!Finish(j, f)
    PROVE  Screens!ScrInv'
<1>1. /\ Screens!ScrTyped /\ Screens!JobsDistinct /\ s4 \in Nat
      /\ IsFiniteSet(Screens!Out)
  BY OutTyped, TargetsAssumption DEF Screens!ScrInv, Screens!ScrTyped
<1>2. CASE Screens!Install
  <2>1. UNCHANGED <<s1, s2, s3, s4, s6, s7>> /\ s5' = TRUE
    BY <1>2 DEF Screens!Install
  <2>2. Screens!Out' = Screens!Out /\ Screens!JobsDistinct'
    BY <1>1, <2>1, OutKept
  <2>3. Screens!ScrTyped'
    BY <1>1, <2>1 DEF Screens!ScrTyped
  <2>4. Screens!ConsentsCover'
    BY <1>1, <2>1, <2>2, CoverKept DEF Screens!ScrInv
  <2>5. QED
    BY <2>1, <2>2, <2>3, <2>4 DEF Screens!ScrInv, Screens!PendingParked,
       Screens!SpinnersHaveWorkers, Screens!WorkerMeansDeployScreen
<1>3. ASSUME NEW j, NEW f, Screens!Finish(j, f) PROVE Screens!ScrInv'
  <2>1. UNCHANGED <<s1, s4, s5, s6, s7>>
    BY <1>3 DEF Screens!Finish
  <2>2. /\ Screens!Out' = Screens!Out /\ Screens!JobsDistinct'
        /\ s2' \subseteq Screens!Jobs /\ IsFiniteSet(s2')
        /\ s3' \in Seq(Screens!Results)
    BY <1>1, <1>3, OutFinished
  <2>3. Screens!ScrTyped'
    BY <1>1, <2>1, <2>2, SameFiniteSets DEF Screens!ScrTyped
  <2>4. Screens!ConsentsCover'
    BY <1>1, <2>1, <2>2, CoverKept DEF Screens!ScrInv
  <2>5. QED
    BY <2>1, <2>2, <2>3, <2>4 DEF Screens!ScrInv, Screens!PendingParked,
       Screens!SpinnersHaveWorkers, Screens!WorkerMeansDeployScreen
<1>4. CASE Screens!Kill
  <2>1. /\ s1' = Screens!Screen("off") /\ s2' = {} /\ s3' = <<>>
        /\ UNCHANGED <<s4, s5, s6, s7>>
    BY <1>4 DEF Screens!Kill
  <2>2. Screens!Out' = {} /\ Screens!JobsDistinct' /\ s3' \in Seq(Screens!Results)
    BY <2>1, OutGone
  <2>3. "off" \in Screens!Places /\ NoTarget \in Screens!Some
    BY DEF Screens!Places, Screens!Some
  <2>4. s1' \in Scr /\ s1'.at = "off"
    BY <2>1, <2>3, FreshScreens
  <2>5. Screens!ScrTyped'
    BY <1>1, <2>1, <2>2, <2>4, FS_EmptySet, SameFiniteSets DEF Screens!ScrTyped, Scr
  <2>6. Screens!ConsentsCover'
    BY <1>1, <2>1, <2>2, CoverKept DEF Screens!ScrInv
  <2>7. QED
    BY <2>1, <2>2, <2>4, <2>5, <2>6 DEF Screens!ScrInv, Screens!PendingParked,
       Screens!SpinnersHaveWorkers, Screens!WorkerMeansDeployScreen
<1>5. CASE Screens!ExecFails
  <2>1. /\ s1.at = "handover" /\ s6' = Screens!NoAction /\ UNCHANGED <<s3, s5>>
        /\ Screens!Perform(s1.route, s1.t, 0)
    BY <1>5 DEF Screens!ExecFails
  <2>2. s1.route \in Screens!Routes /\ s1.t \in Screens!Some
    BY <1>1 DEF Screens!ScrTyped
  <2>3. Reading(Screens!Out)
    BY <2>1 DEF Reading
  <2>4. NoDeploys(Screens!Out)
    BY <2>1 DEF NoDeploys, Screens!ScrInv, Screens!WorkerMeansDeployScreen
  <2>5. Covered(Screens!Out, s1.route, s1.t, 0)
    <3>1. SUFFICES ASSUME NEW u \in Targets
                   PROVE  \/ s7[u] + 0 >= Cardinality(Pilots(Screens!Out, u))
                                            + Claim(s1.route, s1.t, u)
                          \/ s7[u] >= MaxJobs - s4
      BY DEF Covered
    <3>2. \/ s7[u] >= Cardinality(Pilots(Screens!Out, u)) + Screens!Parked(u)
          \/ s7[u] >= MaxJobs - s4
      BY AutopilotsCounted DEF Screens!ScrInv, Screens!ConsentsCover
    <3>3. Screens!Parked(u) = Claim(s1.route, s1.t, u)
      BY <2>1 DEF Screens!Parked, Claim, Screens!ScrInv, Screens!PendingParked
    <3>4. s7[u] \in Int
      BY <1>1 DEF Screens!ScrTyped
    <3>5. QED
      BY <3>2, <3>3, <3>4
  <2>6. QED
    BY <1>1, <2>1, <2>2, <2>3, <2>4, <2>5, PerformKeeps
<1>6. QED
  BY <1>2, <1>3, <1>4, <1>5

\* The panel opens on its menu, with nothing running and nothing owed.
LEMMA ScreensStart ==
    ASSUME Screens!ScrInit
    PROVE  Screens!ScrInv
<1>1. /\ s1 = Screens!Screen("Main") /\ s2 = {} /\ s3 = <<>> /\ s4 = 0 /\ s5 = FALSE
      /\ s6 = Screens!NoAction /\ s7 = [t \in Targets |-> 0]
  BY DEF Screens!ScrInit
<1>2. Screens!Out = {} /\ Screens!JobsDistinct
  BY <1>1 DEF Screens!Out, Screens!JobsDistinct, Screens!Range
<1>3. "Main" \in Screens!Places /\ NoTarget \in Screens!Some /\ "Auto" \in Screens!Routes
  BY DEF Screens!Places, Screens!Some, Screens!Routes
<1>4. s1 \in Scr /\ s1.at = "Main"
  BY <1>1, <1>3, FreshScreens
<1>5. Screens!ScrTyped
  <2>1. s4 \in 0..MaxJobs /\ s7 \in [Targets -> Int] /\ Screens!IsFiniteSet(s2)
    BY <1>1, TargetsAssumption, FS_EmptySet, SameFiniteSets
  <2>2. s6 \in [route : Screens!Routes, t : Screens!Some]
    BY <1>1, <1>3 DEF Screens!NoAction
  <2>3. s3 \in Seq(Screens!Results)
    BY <1>1
  <2>4. s2 \subseteq Screens!Jobs /\ s5 \in BOOLEAN
    BY <1>1
  <2>5. QED
    BY <1>4, <2>1, <2>2, <2>3, <2>4 DEF Screens!ScrTyped, Scr
<1>6. Screens!ConsentsCover
  <2>1. SUFFICES ASSUME NEW t \in Targets
                 PROVE  s7[t] >= Cardinality(Pilots({}, t)) + Screens!Parked(t)
    BY <1>2, AutopilotsCounted DEF Screens!ConsentsCover
  <2>2. Screens!Parked(t) = 0
    BY <1>1, TargetsAssumption DEF Screens!Parked, Screens!NoAction
  <2>3. Cardinality(Pilots({}, t)) = 0
    BY FS_EmptySet DEF Pilots
  <2>4. QED
    BY <1>1, <2>2, <2>3
<1>7. QED
  BY <1>1, <1>2, <1>4, <1>5, <1>6
     DEF Screens!ScrInv, Screens!PendingParked, Screens!SpinnersHaveWorkers,
         Screens!WorkerMeansDeployScreen

\* Every step of the panel, of a thread and of its process keeps the invariant.
LEMMA ScreensStep ==
    ASSUME Screens!ScrInv, Screens!ScrNext
    PROVE  Screens!ScrInv'
BY ScreensBrowse, ScreensAct, ScreensDrain, ScreensLaunch, ScreensTurn
   DEF Screens!ScrNext, Screens!Key

\* The invariant of the screens holds for any services and any number of threads.
LEMMA ScreensInductive ==
    PartsSpec => [](part = "screens" => Screens!ScrInv)
<1> DEFINE Inv == part = "screens" => Screens!ScrInv
<1>1. PartsInit => Inv
  BY ScreensStart DEF PartsInit
<1>2. Inv /\ [PartsNext]_partVars => Inv'
  <2>1. ASSUME Inv, PartsNext PROVE Inv'
    BY <2>1, ScreensStep DEF PartsNext
  <2>2. ASSUME Inv, UNCHANGED partVars PROVE Inv'
    <3>1. UNCHANGED <<part, s1, s2, s3, s4, s5, s6, s7>>
      BY <2>2 DEF partVars, slots
    <3>2. Screens!Out' = Screens!Out
      BY <3>1 DEF Screens!Out
    <3>3. \A t : Screens!Cardinality(Screens!Autopilots(t))'
                   = Screens!Cardinality(Screens!Autopilots(t))
      BY <3>2, AutopilotsCounted
    <3>4. \A t : Screens!Parked(t)' = Screens!Parked(t)
      BY <3>1 DEF Screens!Parked
    <3>5. Screens!ScrInv => Screens!ConsentsCover'
      BY <3>1, <3>3, <3>4 DEF Screens!ScrInv, Screens!ConsentsCover
    <3>6. QED
      BY <2>2, <3>1, <3>2, <3>5
         DEF Screens!ScrInv, Screens!ScrTyped, Screens!JobsDistinct,
             Screens!PendingParked, Screens!SpinnersHaveWorkers,
             Screens!WorkerMeansDeployScreen
  <2>3. QED
    BY <2>1, <2>2
<1>3. QED
  BY <1>1, <1>2, PTL DEF PartsSpec

\* A screen that shows work in progress has a thread that will end it, and a
\* deploy worker has its own unfinished Deploy screen, whatever arrives late.
THEOREM ScreensSafety == PartsSpec => []SpinnersHaveWorkers
<1>1. (part = "screens" => Screens!ScrInv) => SpinnersHaveWorkers
  BY DEF SpinnersHaveWorkers, Screens!ScrInv
<1>2. QED
  BY <1>1, ScreensInductive, PTL

\* A consent starts at most one deploy, for any services and any number of
\* threads, replayed by a newer build, a refused exec, a later launch, or not.
THEOREM ConsentSafety == PartsSpec => []ConsentDeploysOnce
<1>1. (part = "screens" => Screens!ScrInv) => ConsentDeploysOnce
  <2>1. SUFFICES ASSUME Screens!ScrInv, NEW t \in Targets PROVE s7[t] >= 0
    BY DEF ConsentDeploysOnce, Screens!ConsentDeploysOnce
  <2>2. Screens!ScrTyped
    BY <2>1 DEF Screens!ScrInv
  <2>3. s7[t] \in Int /\ s4 \in Nat /\ MaxJobs \in Nat /\ s4 <= MaxJobs
    BY <2>1, <2>2, TargetsAssumption DEF Screens!ScrTyped
  <2>4. Cardinality(Pilots(Screens!Out, t)) \in Nat /\ Screens!Parked(t) \in {0, 1}
    BY <2>2, OutTyped, PilotCount DEF Screens!Parked
  <2>5. \/ s7[t] >= Cardinality(Pilots(Screens!Out, t)) + Screens!Parked(t)
        \/ s7[t] >= MaxJobs - s4
    BY <2>1, AutopilotsCounted DEF Screens!ScrInv, Screens!ConsentsCover
  <2>6. QED
    BY <2>3, <2>4, <2>5
<1>2. QED
  BY <1>1, ScreensInductive, PTL

(***************************************************************************)
(* PanelLogs.                                                              *)
(***************************************************************************)
\* The end of a sequence, from its k-th member on.
LEMMA LogEnd ==
    ASSUME NEW f \in Seq(Nat), NEW k \in Nat \ {0}
    PROVE  LET r == SubSeq(f, k, Len(f)) IN
           /\ r \in Seq(Nat)
           /\ \A i \in DOMAIN r : i \in Nat \ {0} /\ k + i - 1 \in DOMAIN f
                                    /\ r[i] = f[k + i - 1]
<1> DEFINE r == SubSeq(f, k, Len(f))
<1>1. /\ Len(f) \in Int /\ k \in Int /\ (\A i \in k .. Len(f) : f[i] \in Nat)
      /\ DOMAIN f = 1 .. Len(f)
  OBVIOUS
<1>2. /\ r \in Seq(Nat)
      /\ Len(r) = IF k <= Len(f) THEN Len(f) - k + 1 ELSE 0
      /\ \A i \in 1 .. Len(f) - k + 1 : r[i] = f[k + i - 1]
  BY <1>1, SubSeqProperties
<1> HIDE DEF r
<1>3. DOMAIN r = 1 .. Len(r)
  BY <1>2
<1>4. ASSUME NEW i \in DOMAIN r
      PROVE  i \in Nat \ {0} /\ k + i - 1 \in DOMAIN f /\ r[i] = f[k + i - 1]
  <2>1. i \in 1 .. Len(r) /\ Len(r) \in Nat
    BY <1>2, <1>3
  <2>2. i \in Nat \ {0} /\ i <= Len(r) /\ Len(r) = Len(f) - k + 1
    BY <1>1, <1>2, <2>1
  <2>3. i \in 1 .. Len(f) - k + 1 /\ k + i - 1 \in 1 .. Len(f)
    BY <1>1, <2>2
  <2>4. QED
    BY ONLY <1>1, <1>2, <2>2, <2>3
<1>5. QED
  BY <1>2, <1>4 DEF r

\* One line alone is below another when it is the smaller.
LEMMA OneLine ==
    ASSUME NEW n \in Nat, NEW m \in Nat
    PROVE  Logs!Below(<<n>>, m) <=> (m # 0 => n < m)
BY DEF Logs!Below

\* A line put behind all of s, and before what follows it.
LEMMA LineAdded ==
    ASSUME NEW s \in Seq(Nat), NEW n \in Nat
    PROVE  LET g == Append(s, n) IN
           /\ g \in Seq(Nat)
           /\ Logs!Ordered(s) /\ Logs!Below(s, n) => Logs!Ordered(g)
           /\ \A m \in Nat : Logs!Below(s, m) /\ Logs!Below(<<n>>, m) => Logs!Below(g, m)
           /\ \A t \in Seq(Nat) :
                 /\ Logs!Follows(t, s) /\ Logs!Below(t, n) => Logs!Follows(t, g)
                 /\ Logs!Follows(s, t) /\ Logs!Follows(<<n>>, t) => Logs!Follows(g, t)
<1> DEFINE g == Append(s, n)
<1>1. /\ g \in Seq(Nat) /\ Len(g) = Len(s) + 1 /\ Len(s) \in Nat
      /\ \A i \in 1 .. Len(s) : g[i] = s[i]
      /\ g[Len(s) + 1] = n
  BY AppendProperties
<1> HIDE DEF g
<1>2. DOMAIN g = 1 .. Len(s) + 1 /\ DOMAIN s = 1 .. Len(s)
  BY <1>1
<1>3. \A i \in DOMAIN g : (i \in DOMAIN s /\ g[i] = s[i]) \/ (i = Len(s) + 1 /\ g[i] = n)
  BY <1>1, <1>2
<1>4. Logs!Ordered(s) /\ Logs!Below(s, n) => Logs!Ordered(g)
  BY <1>1, <1>2, <1>3 DEF Logs!Ordered, Logs!Below
<1>5. \A m \in Nat : Logs!Below(s, m) /\ Logs!Below(<<n>>, m) => Logs!Below(g, m)
  BY <1>3 DEF Logs!Below
<1>6. ASSUME NEW t \in Seq(Nat)
      PROVE  /\ Logs!Follows(t, s) /\ Logs!Below(t, n) => Logs!Follows(t, g)
             /\ Logs!Follows(s, t) /\ Logs!Follows(<<n>>, t) => Logs!Follows(g, t)
  <2>1. \A j \in DOMAIN t : t[j] \in Nat
    OBVIOUS
  <2>2. QED
    BY <1>3, <1>5, <2>1 DEF Logs!Follows
<1>7. QED
  BY <1>1, <1>4, <1>5, <1>6 DEF g

\* The first line of s, and the rest of it.
LEMMA LineTaken ==
    ASSUME NEW s \in Seq(Nat), s # <<>>
    PROVE  /\ Head(s) \in Nat /\ Tail(s) \in Seq(Nat)
           /\ Logs!Ordered(s) => Logs!Ordered(Tail(s)) /\ Logs!Follows(<<Head(s)>>, Tail(s))
           /\ \A m \in Nat : Logs!Below(s, m) =>
                                Logs!Below(Tail(s), m) /\ Logs!Below(<<Head(s)>>, m)
           /\ \A t \in Seq(Nat) :
                 /\ Logs!Follows(t, s) => Logs!Follows(t, Tail(s)) /\ Logs!Below(t, Head(s))
                 /\ Logs!Follows(s, t) =>
                       Logs!Follows(Tail(s), t) /\ Logs!Follows(<<Head(s)>>, t)
<1> DEFINE h == Head(s)
           r == Tail(s)
<1>1. /\ h \in Nat /\ r \in Seq(Nat) /\ Len(s) \in Nat \ {0} /\ Len(r) = Len(s) - 1
      /\ h = s[1] /\ \A i \in 1 .. Len(r) : r[i] = s[i + 1]
  OBVIOUS
<1> HIDE DEF h, r
<1>2. DOMAIN r = 1 .. Len(s) - 1 /\ DOMAIN s = 1 .. Len(s)
  BY <1>1
<1>3. /\ 1 \in DOMAIN s
      /\ \A i \in DOMAIN r : i \in Nat \ {0} /\ i + 1 \in DOMAIN s /\ r[i] = s[i + 1]
  BY <1>1, <1>2
<1>4. Logs!Ordered(s) => Logs!Ordered(r)
  BY <1>3 DEF Logs!Ordered
<1>5. ASSUME Logs!Ordered(s) PROVE Logs!Follows(<<h>>, r)
  <2>1. ASSUME NEW j \in DOMAIN r
        PROVE  r[j] \in Nat /\ (r[j] # 0 => h < r[j])
    <3>1. 1 \in DOMAIN s /\ j + 1 \in DOMAIN s /\ 1 < j + 1 /\ r[j] = s[j + 1]
      BY <1>3, <2>1
    <3>2. r[j] # 0 => s[1] < s[j + 1]
      BY <1>5, <3>1 DEF Logs!Ordered
    <3>3. QED
      BY <1>1, <3>1, <3>2
  <2>2. QED
    BY <1>1, <2>1, OneLine DEF Logs!Follows
<1>6. ASSUME NEW m \in Nat, Logs!Below(s, m)
      PROVE  Logs!Below(r, m) /\ Logs!Below(<<h>>, m)
  <2>1. Logs!Below(r, m) /\ (m # 0 => h < m)
    BY <1>1, <1>3, <1>6 DEF Logs!Below
  <2>2. QED
    BY <1>1, <2>1, OneLine
<1>7. ASSUME NEW t \in Seq(Nat)
      PROVE  /\ Logs!Follows(t, s) => Logs!Follows(t, r) /\ Logs!Below(t, h)
             /\ Logs!Follows(s, t) => Logs!Follows(r, t) /\ Logs!Follows(<<h>>, t)
  <2>1. \A j \in DOMAIN t : t[j] \in Nat
    OBVIOUS
  <2>2. Logs!Follows(t, s) => Logs!Follows(t, r) /\ Logs!Below(t, h)
    BY <1>1, <1>3 DEF Logs!Follows
  <2>3. Logs!Follows(s, t) => Logs!Follows(r, t) /\ Logs!Follows(<<h>>, t)
    BY <1>6, <2>1 DEF Logs!Follows
  <2>4. QED
    BY <2>2, <2>3
<1>8. QED
  BY <1>1, <1>4, <1>5, <1>6, <1>7 DEF h, r

\* A written sequence's end is written, and any shows in order.
LEMMA WrittenEnd ==
    ASSUME NEW f \in Seq(Nat), s2 \in Nat \ {0}, Logs!Written(f), NEW k \in Nat \ {0}
    PROVE  LET r == SubSeq(f, k, Len(f)) IN
           Logs!Written(r) /\ Logs!Ordered(r) /\ Logs!Below(r, s2)
<1> DEFINE r == SubSeq(f, k, Len(f))
<1>1. \A i \in DOMAIN r : i \in Nat \ {0} /\ k + i - 1 \in DOMAIN f /\ r[i] = f[k + i - 1]
  BY LogEnd
<1> HIDE DEF r
<1>2. ASSUME NEW i \in DOMAIN r, NEW j \in DOMAIN r, i < j
      PROVE  r[i] < r[j]
  <2>1. /\ k + i - 1 \in DOMAIN f /\ k + j - 1 \in DOMAIN f
        /\ k + i - 1 < k + j - 1
    BY <1>1, <1>2
  <2>2. QED
    BY <1>1, <2>1 DEF Logs!Written, Logs!Ascending
<1>3. \A i \in DOMAIN r : r[i] \in 1 .. s2 - 1
  BY <1>1 DEF Logs!Written
<1>4. Logs!Below(r, s2)
  BY <1>3 DEF Logs!Below
<1>5. QED
  BY <1>2, <1>3, <1>4 DEF Logs!Written, Logs!Ascending, Logs!Ordered, r

\* A prefix has the members of what it is a prefix of.
LEMMA PrefixMembers ==
    ASSUME NEW s \in Seq(Nat), NEW t \in Seq(Nat), Logs!IsPrefix(s, t)
    PROVE  \A j \in DOMAIN s : j \in DOMAIN t /\ s[j] = t[j]
<1> DEFINE a == SubSeq(s, 1, Len(s))
           b == SubSeq(t, 1, Len(s))
<1>1. /\ Len(s) \in Int /\ 1 \in Int /\ Len(t) \in Int
      /\ Len(s) <= Len(t) /\ a = b
      /\ DOMAIN s = 1 .. Len(s) /\ DOMAIN t = 1 .. Len(t)
  BY DEF Logs!IsPrefix
<1>2. /\ \A i \in 1 .. Len(s) : s[i] \in Nat
      /\ \A i \in 1 .. Len(s) : t[i] \in Nat
  BY <1>1
<1>3. \A i \in 1 .. Len(s) - 1 + 1 : a[i] = s[1 + i - 1]
  BY <1>1, <1>2, SubSeqProperties
<1>4. \A i \in 1 .. Len(s) - 1 + 1 : b[i] = t[1 + i - 1]
  BY <1>1, <1>2, SubSeqProperties
<1> HIDE DEF a, b
<1>5. \A j \in DOMAIN s : j \in 1 .. Len(s) - 1 + 1 /\ 1 + j - 1 = j /\ j \in DOMAIN t
  BY <1>1
<1>6. QED
  BY <1>1, <1>3, <1>4, <1>5

\* What the invariant says, for the pieces of the view one by one.
LEMMA LogParts ==
    ASSUME Logs!LogTyped
    PROVE  /\ s2 \in Nat \ {0} /\ s1 \in Seq(Nat) /\ s7 \in Seq(Nat)
           /\ s5 \in Seq(Nat \ {0}) /\ s5 \in Seq(Nat)
           /\ s6 \in [at : {"off", "start", "poll"}, pos : Nat, buf : Seq(Nat)]
           /\ s6.buf \in Seq(Nat) /\ s6.pos \in Nat
           /\ s3 \in [Writers -> [at : {"idle", "cut", "append"}, read : Seq(Nat)]]
BY DEF Logs!LogTyped

\* Nothing of the view changes, and the file only loses what the tail has read.
LEMMA ViewKept ==
    ASSUME Logs!TailInv, UNCHANGED <<s4, s5, s6, s7, s8>>, ~s10' => ~s10,
           s2' \in Nat, s2 <= s2', s1' \in Seq(Nat), Logs!FilesAscend',
           s3' \in [Writers -> [at : {"idle", "cut", "append"}, read : Seq(Nat)]],
           ~s10' => \A i \in DOMAIN s1' : i > s6.pos =>
                     s1'[i] >= s2 \/ \E k \in DOMAIN s1 : k > s6.pos /\ s1'[i] = s1[k]
    PROVE  Logs!TailInv'
<1>1. /\ Logs!LogTyped /\ Logs!FilesAscend /\ Logs!QuietWhenClosed
      /\ ~s10 => Logs!InOrder
  BY DEF Logs!TailInv
<1>2. Logs!LogTyped' /\ Logs!QuietWhenClosed'
  BY <1>1 DEF Logs!LogTyped, Logs!QuietWhenClosed
<1>3. ASSUME ~s10' PROVE Logs!InOrder'
  <2>1. /\ Logs!UnreadIsNewer /\ UNCHANGED Logs!Seen
        /\ \A s \in Logs!Seen : Logs!Ordered(s)
        /\ Logs!Follows(s5, s7) /\ Logs!Follows(s5, s6.buf) /\ Logs!Follows(s7, s6.buf)
    BY <1>1, <1>3 DEF Logs!InOrder, Logs!Seen
  <2>2. \A s \in Logs!Seen : s \in Seq(Nat)
    BY <1>1, LogParts DEF Logs!Seen
  <2>3. ASSUME NEW s \in Logs!Seen, NEW m \in Nat, m >= s2 PROVE Logs!Below(s, m)
    <3>1. Logs!Below(s, s2) /\ s2 \in Nat \ {0} /\ (\A i \in DOMAIN s : s[i] \in Nat)
      BY <1>1, <2>1, <2>2, <2>3, LogParts DEF Logs!UnreadIsNewer
    <3>2. QED
      BY <2>3, <3>1 DEF Logs!Below
  <2>4. \A s \in Logs!Seen : Logs!Below(s, s2')
    BY <2>3
  <2>5. ASSUME s6.at = "poll", NEW s \in Logs!Seen, NEW i \in DOMAIN s1', i > s6.pos
        PROVE  Logs!Below(s, s1'[i])
    <3>1. CASE s1'[i] >= s2
      <4>1. s1'[i] \in Nat
        OBVIOUS
      <4>2. QED
        BY <2>3, <3>1, <4>1
    <3>2. CASE \E k \in DOMAIN s1 : k > s6.pos /\ s1'[i] = s1[k]
      BY <2>1, <2>5, <3>2 DEF Logs!UnreadIsNewer
    <3>3. QED
      BY <1>3, <2>5, <3>1, <3>2
  <2>6. Logs!UnreadIsNewer'
    BY <2>1, <2>4, <2>5 DEF Logs!UnreadIsNewer
  <2>7. QED
    BY <2>1, <2>6 DEF Logs!InOrder, Logs!Ordered, Logs!Follows, Logs!Below
<1>4. QED
  BY <1>2, <1>3 DEF Logs!TailInv

\* A writer, or another window, leaves written lines in their order.
LEMMA LogsWritten ==
    ASSUME Logs!TailInv,
           \/ \E w \in Writers : Logs!CheckSize(w) \/ Logs!Cut(w) \/ Logs!AppendLine(w)
           \/ Logs!ClearedElsewhere
    PROVE  Logs!TailInv'
<1>1. /\ Logs!LogTyped /\ Logs!FilesAscend
      /\ s2 \in Nat \ {0} /\ s1 \in Seq(Nat) /\ s6.pos \in Nat
      /\ s3 \in [Writers -> [at : {"idle", "cut", "append"}, read : Seq(Nat)]]
  BY LogParts DEF Logs!TailInv
<1>2. ASSUME NEW w \in Writers, Logs!CheckSize(w) PROVE Logs!TailInv'
  <2> DEFINE x == IF Len(s1) > Cap THEN [at |-> "cut", read |-> s1]
                  ELSE [at |-> "append", read |-> <<>>]
  <2>1. /\ s3' = [s3 EXCEPT ![w] = x]
        /\ UNCHANGED <<s1, s2, s4, s5, s6, s7, s8, s9, s10>>
    BY <1>2 DEF Logs!CheckSize, Logs!panelVars
  <2>2. /\ x \in [at : {"idle", "cut", "append"}, read : Seq(Nat)]
        /\ x.at = "cut" => x.read = s1 /\ Len(s1) > Cap
    BY <1>1
  <2> HIDE DEF x
  <2>3. s3' \in [Writers -> [at : {"idle", "cut", "append"}, read : Seq(Nat)]]
    BY <1>1, <2>1, <2>2
  <2>4. Logs!FilesAscend'
    BY <1>1, <2>1, <2>2 DEF Logs!FilesAscend, Logs!Written, Logs!Ascending
  <2>5. QED
    BY <1>1, <2>1, <2>3, <2>4, ViewKept
<1>3. ASSUME NEW w \in Writers, Logs!Cut(w) PROVE Logs!TailInv'
  <2> DEFINE r == s3[w].read
             k == Len(r) - Keep + 1
             x == [at |-> "append", read |-> <<>>]
  <2>1. /\ s3[w].at = "cut" /\ s3' = [s3 EXCEPT ![w] = x]
        /\ s1' = SubSeq(r, k, Len(r))
        /\ s10' = (s10 \/ ~Logs!IsPrefix(r, s1))
        /\ UNCHANGED <<s2, s4, s5, s6, s7, s8>>
    BY <1>3 DEF Logs!Cut
  <2>2. /\ x \in [at : {"idle", "cut", "append"}, read : Seq(Nat)] /\ x.at # "cut"
        /\ r \in Seq(Nat) /\ Logs!Written(r) /\ Len(r) > Cap
    BY <1>1, <2>1 DEF Logs!FilesAscend
  <2> HIDE DEF x, r
  <2>3. k \in Nat \ {0} /\ Len(r) \in Nat
    BY <2>2, LogsAssumption
  <2> HIDE DEF k
  <2>4. s3' \in [Writers -> [at : {"idle", "cut", "append"}, read : Seq(Nat)]]
    BY <1>1, <2>1, <2>2
  <2>5. /\ s1' \in Seq(Nat) /\ Logs!Written(s1')
        /\ \A i \in DOMAIN s1' : i \in Nat \ {0} /\ k + i - 1 \in DOMAIN r
                                   /\ s1'[i] = r[k + i - 1]
    BY <1>1, <2>1, <2>2, <2>3, LogEnd, WrittenEnd
  <2>6. Logs!FilesAscend'
    BY <1>1, <2>1, <2>2, <2>5 DEF Logs!FilesAscend, Logs!Written, Logs!Ascending
  <2>7. ASSUME ~s10', NEW i \in DOMAIN s1', i > s6.pos
        PROVE  \E j \in DOMAIN s1 : j > s6.pos /\ s1'[i] = s1[j]
    <3>1. i \in Nat \ {0} /\ k + i - 1 \in DOMAIN r /\ s1'[i] = r[k + i - 1]
      BY <2>5, <2>7
    <3>2. k + i - 1 > s6.pos
      BY <1>1, <2>3, <2>7, <3>1
    <3>3. \A j \in DOMAIN r : j \in DOMAIN s1 /\ r[j] = s1[j]
      BY <1>1, <2>1, <2>2, <2>7, PrefixMembers
    <3>4. QED
      BY <3>1, <3>2, <3>3
  <2>8. ~s10' => \A i \in DOMAIN s1' : i > s6.pos =>
                  s1'[i] >= s2 \/ \E j \in DOMAIN s1 : j > s6.pos /\ s1'[i] = s1[j]
    BY <2>7
  <2>9. s2' \in Nat /\ s2 <= s2'
    BY <1>1, <2>1
  <2>10. ~s10' => ~s10
    BY <2>1, Zenon
  <2>11. QED
    BY <2>1, <2>4, <2>5, <2>6, <2>8, <2>9, <2>10, ViewKept
<1>4. ASSUME NEW w \in Writers, Logs!AppendLine(w) PROVE Logs!TailInv'
  <2>1. /\ s3' = [s3 EXCEPT ![w] = Logs!Idle] /\ s1' = Append(s1, s2) /\ s2' = s2 + 1
        /\ UNCHANGED <<s4, s5, s6, s7, s8, s9, s10>>
    BY <1>4 DEF Logs!AppendLine, Logs!panelVars
  <2>2. /\ Logs!Idle \in [at : {"idle", "cut", "append"}, read : Seq(Nat)]
        /\ Logs!Idle.at = "idle"
    BY DEF Logs!Idle
  <2>3. s3' \in [Writers -> [at : {"idle", "cut", "append"}, read : Seq(Nat)]]
    BY <1>1, <2>1, <2>2
  <2>4. /\ s1' \in Seq(Nat) /\ Len(s1) \in Nat
        /\ \A i \in DOMAIN s1' : \/ i \in DOMAIN s1 /\ s1'[i] = s1[i]
                                 \/ i = Len(s1) + 1 /\ s1'[i] = s2
        /\ \A i \in DOMAIN s1 : i \in Nat /\ i <= Len(s1)
    BY <1>1, <2>1
  <2>5. Logs!Written(s1)'
    <3>1. \A i \in DOMAIN s1' : s1'[i] \in 1 .. s2' - 1
      BY <1>1, <2>1, <2>4 DEF Logs!FilesAscend, Logs!Written
    <3>2. ASSUME NEW i \in DOMAIN s1', NEW j \in DOMAIN s1', i < j PROVE s1'[i] < s1'[j]
      <4>1. /\ i \in DOMAIN s1 /\ s1'[i] = s1[i]
            /\ \/ j \in DOMAIN s1 /\ s1'[j] = s1[j]
               \/ j = Len(s1) + 1 /\ s1'[j] = s2
        <5>1. i # Len(s1) + 1
          BY <2>4, <3>2
        <5>2. QED
          BY <2>4, <3>2, <5>1
      <4>2. s1[i] \in 1 .. s2 - 1
        BY <1>1, <4>1 DEF Logs!FilesAscend, Logs!Written
      <4>3. j \in DOMAIN s1 => s1[i] < s1[j]
        BY <1>1, <3>2, <4>1 DEF Logs!FilesAscend, Logs!Written, Logs!Ascending
      <4>4. QED
        BY <1>1, <4>1, <4>2, <4>3
    <3>3. QED
      BY <3>1, <3>2 DEF Logs!Written, Logs!Ascending
  <2>6. Logs!FilesAscend'
    <3>1. ASSUME NEW v \in Writers, s3'[v].at = "cut"
          PROVE  Logs!Written(s3[v].read)' /\ Len(s3'[v].read) > Cap
      <4>1. s3'[v] = s3[v] /\ Logs!Written(s3[v].read) /\ Len(s3[v].read) > Cap
        BY <1>1, <2>1, <2>2, <3>1 DEF Logs!FilesAscend
      <4>2. QED
        BY <1>1, <2>1, <4>1 DEF Logs!Written, Logs!Ascending
    <3>2. QED
      BY <2>5, <3>1 DEF Logs!FilesAscend
  <2>7. \A i \in DOMAIN s1' : i > s6.pos =>
           s1'[i] >= s2 \/ \E k \in DOMAIN s1 : k > s6.pos /\ s1'[i] = s1[k]
    BY <1>1, <2>4
  <2>8. QED
    BY <1>1, <2>1, <2>3, <2>4, <2>6, <2>7, ViewKept
<1>5. CASE Logs!ClearedElsewhere
  <2>1. s1' = <<>> /\ UNCHANGED <<s2, s3, s4, s5, s6, s7, s8, s9, s10>>
    BY <1>5 DEF Logs!ClearedElsewhere, Logs!panelVars
  <2>2. Logs!FilesAscend'
    BY <1>1, <2>1 DEF Logs!FilesAscend, Logs!Written, Logs!Ascending
  <2>3. QED
    BY <1>1, <2>1, <2>2, ViewKept
<1>6. QED
  BY <1>2, <1>3, <1>4, <1>5

\* The sign of a clear: any line may come before it and after it.
LEMMA ClearMark ==
    ASSUME NEW n \in Nat \ {0}
    PROVE  LET b == <<0>> IN
           /\ b \in Seq(Nat) /\ Logs!Ordered(b) /\ Logs!Below(b, n)
           /\ \A s : Logs!Below(s, 0) /\ Logs!Follows(s, b)
<1> DEFINE b == <<0>>
<1>1. b \in Seq(Nat) /\ DOMAIN b = {1} /\ b[1] = 0
  OBVIOUS
<1> HIDE DEF b
<1>2. \A i \in DOMAIN b : b[i] = 0
  BY <1>1
<1>3. Logs!Below(b, n)
  BY <1>2 DEF Logs!Below
<1>4. \A s : Logs!Below(s, 0)
  BY DEF Logs!Below
<1>5. \A s : Logs!Follows(s, b)
  BY <1>2, <1>4 DEF Logs!Follows
<1>6. Logs!Ordered(b)
  BY <1>2 DEF Logs!Ordered
<1>7. QED
  BY <1>1, <1>3, <1>4, <1>5, <1>6 DEF b

\* The tail reads lines newer than any it has read, and sends them in order.
LEMMA LogsTailed ==
    ASSUME Logs!TailInv, Logs!TailStarts \/ Logs!Poll \/ Logs!SendLine
    PROVE  Logs!TailInv'
<1> DEFINE Tails == [at : {"off", "start", "poll"}, pos : Nat, buf : Seq(Nat)]
<1>1. /\ Logs!LogTyped /\ Logs!FilesAscend /\ Logs!QuietWhenClosed
      /\ ~s10 => Logs!InOrder
      /\ s2 \in Nat \ {0} /\ s1 \in Seq(Nat) /\ s5 \in Seq(Nat) /\ s7 \in Seq(Nat)
      /\ s6 \in Tails /\ s6.buf \in Seq(Nat) /\ s6.pos \in Nat /\ Len(s1) \in Nat
  BY LogParts DEF Logs!TailInv
<1>2. UNCHANGED <<s1, s2, s3, s4, s5, s8, s10>>
  BY DEF Logs!TailStarts, Logs!Poll, Logs!SendLine
<1>3. Logs!FilesAscend'
  BY <1>1, <1>2 DEF Logs!FilesAscend, Logs!Written, Logs!Ascending
<1>4. ASSUME s6' \in Tails, s7' \in Seq(Nat), Logs!QuietWhenClosed',
             ~s10 => Logs!InOrder'
      PROVE  Logs!TailInv'
  <2>1. Logs!LogTyped'
    BY <1>1, <1>2, <1>4 DEF Logs!LogTyped
  <2>2. QED
    BY <1>2, <1>3, <1>4, <2>1 DEF Logs!TailInv
<1>5. ASSUME ~s10
      PROVE  /\ Logs!UnreadIsNewer
             /\ Logs!Ordered(s5) /\ Logs!Ordered(s7) /\ Logs!Ordered(s6.buf)
             /\ Logs!Below(s5, s2) /\ Logs!Below(s7, s2) /\ Logs!Below(s6.buf, s2)
             /\ Logs!Follows(s5, s7) /\ Logs!Follows(s5, s6.buf) /\ Logs!Follows(s7, s6.buf)
  BY <1>1, <1>5 DEF Logs!InOrder, Logs!UnreadIsNewer, Logs!Seen
<1>6. CASE Logs!TailStarts
  <2>1. s6.at = "start" /\ s7' = s7 /\ s6' = [at |-> "poll", pos |-> Len(s1), buf |-> <<>>]
    BY <1>6 DEF Logs!TailStarts
  <2>2. s6' \in Tails /\ s6'.buf = <<>> /\ s6'.at = "poll" /\ s6'.pos = Len(s1)
    BY <1>1, <2>1
  <2>3. Logs!QuietWhenClosed'
    BY <1>1, <1>2, <2>1, <2>2 DEF Logs!QuietWhenClosed
  <2>4. ASSUME ~s10 PROVE Logs!InOrder'
    <3>1. /\ Logs!Ordered(s6.buf)' /\ Logs!Below(s6.buf, s2)'
          /\ Logs!Follows(s5, s6.buf)' /\ Logs!Follows(s7, s6.buf)'
      BY <2>2 DEF Logs!Ordered, Logs!Below, Logs!Follows
    <3>2. /\ Logs!Ordered(s5)' /\ Logs!Ordered(s7)' /\ Logs!Follows(s5, s7)'
          /\ Logs!Below(s5, s2)' /\ Logs!Below(s7, s2)'
      BY <1>2, <1>5, <2>1, <2>4 DEF Logs!Ordered, Logs!Below, Logs!Follows
    <3>3. \A i \in DOMAIN s1' : ~ (i > s6'.pos)
      BY <1>1, <1>2, <2>2
    <3>4. QED
      BY <3>1, <3>2, <3>3 DEF Logs!InOrder, Logs!UnreadIsNewer, Logs!Seen
  <2>5. QED
    BY <1>1, <1>4, <2>1, <2>2, <2>3, <2>4
<1>7. CASE Logs!Poll
  <2> DEFINE b == IF Len(s1) < s6.pos THEN <<0>> ELSE SubSeq(s1, s6.pos + 1, Len(s1))
  <2>1. /\ s6.at = "poll" /\ s6.buf = <<>> /\ s7' = s7
        /\ s6' = [s6 EXCEPT !.pos = Len(s1), !.buf = b]
    BY <1>7 DEF Logs!Poll
  <2>2. /\ b \in Seq(Nat)
        /\ ~s10 => /\ Logs!Ordered(b) /\ Logs!Below(b, s2)
                  /\ Logs!Follows(s5, b) /\ Logs!Follows(s7, b)
    <3>1. CASE Len(s1) < s6.pos
      <4>1. b = <<0>>
        BY <3>1
      <4> HIDE DEF b
      <4>2. QED
        BY <1>1, <4>1, ClearMark
    <3>2. CASE ~ (Len(s1) < s6.pos)
      <4> DEFINE k == s6.pos + 1
      <4>1. b = SubSeq(s1, k, Len(s1))
        BY <3>2
      <4>2. k \in Nat \ {0} /\ (\A i \in Nat \ {0} : k + i - 1 > s6.pos)
        BY <1>1
      <4> HIDE DEF b, k
      <4>3. s1 \in Seq(Nat) /\ s2 \in Nat \ {0} /\ Logs!Written(s1)
        BY <1>1 DEF Logs!FilesAscend
      <4>4. /\ b \in Seq(Nat)
            /\ \A i \in DOMAIN b : i \in Nat \ {0} /\ k + i - 1 \in DOMAIN s1
                                     /\ b[i] = s1[k + i - 1]
        BY ONLY <4>1, <4>2, <4>3, LogEnd
      <4>5. Logs!Ordered(b) /\ Logs!Below(b, s2)
        BY ONLY <4>1, <4>2, <4>3, WrittenEnd
      <4>6. ASSUME ~s10, NEW i \in DOMAIN b
            PROVE  Logs!Below(s5, b[i]) /\ Logs!Below(s7, b[i])
        <5>1. /\ k + i - 1 \in DOMAIN s1 /\ k + i - 1 > s6.pos
              /\ b[i] = s1[k + i - 1]
          BY <4>2, <4>4
        <5>2. QED
          BY <1>5, <2>1, <4>6, <5>1 DEF Logs!UnreadIsNewer, Logs!Seen
      <4>7. QED
        BY <4>4, <4>5, <4>6 DEF Logs!Follows
    <3>3. QED
      BY <3>1, <3>2
  <2> HIDE DEF b
  <2>3. s6' \in Tails /\ s6'.at = "poll" /\ s6'.pos = Len(s1) /\ s6'.buf = b
    BY <1>1, <2>1, <2>2
  <2>4. Logs!QuietWhenClosed'
    BY <1>1, <1>2, <2>1, <2>3 DEF Logs!QuietWhenClosed
  <2>5. ASSUME ~s10 PROVE Logs!InOrder'
    <3>1. /\ Logs!Ordered(s6.buf)' /\ Logs!Below(s6.buf, s2)'
          /\ Logs!Follows(s5, s6.buf)' /\ Logs!Follows(s7, s6.buf)'
      BY <1>2, <2>1, <2>2, <2>3, <2>5 DEF Logs!Ordered, Logs!Below, Logs!Follows
    <3>2. /\ Logs!Ordered(s5)' /\ Logs!Ordered(s7)' /\ Logs!Follows(s5, s7)'
          /\ Logs!Below(s5, s2)' /\ Logs!Below(s7, s2)'
      BY <1>2, <1>5, <2>1, <2>5 DEF Logs!Ordered, Logs!Below, Logs!Follows
    <3>3. \A i \in DOMAIN s1' : ~ (i > s6'.pos)
      BY <1>1, <1>2, <2>3
    <3>4. QED
      BY <3>1, <3>2, <3>3 DEF Logs!InOrder, Logs!UnreadIsNewer, Logs!Seen
  <2>6. QED
    BY <1>1, <1>4, <2>1, <2>3, <2>2, <2>4, <2>5
<1>8. CASE Logs!SendLine
  <2> DEFINE h == Head(s6.buf)
             r == Tail(s6.buf)
             q == Append(s7, h)
  <2>1. s6.buf # <<>> /\ s7' = q /\ s6' = [s6 EXCEPT !.buf = r]
    BY <1>8 DEF Logs!SendLine
  <2>2. /\ h \in Nat /\ r \in Seq(Nat)
        /\ ~s10 => /\ Logs!Ordered(r) /\ Logs!Follows(<<h>>, r) /\ Logs!Below(r, s2)
                  /\ Logs!Below(<<h>>, s2) /\ Logs!Below(s5, h) /\ Logs!Below(s7, h)
                  /\ Logs!Follows(s5, r) /\ Logs!Follows(s7, r)
    BY <1>1, <1>5, <2>1, LineTaken
  <2> HIDE DEF h, r
  <2>3. /\ q \in Seq(Nat)
        /\ ~s10 => /\ Logs!Ordered(q) /\ Logs!Below(q, s2)
                  /\ Logs!Follows(s5, q) /\ Logs!Follows(q, r)
    BY <1>1, <1>5, <2>2, LineAdded
  <2> HIDE DEF q
  <2>4. s6' \in Tails /\ s6'.at = s6.at /\ s6'.pos = s6.pos /\ s6'.buf = r
    BY <1>1, <2>1, <2>2
  <2>5. s6.at = "poll"
    BY <1>1, <2>1 DEF Logs!QuietWhenClosed
  <2>6. Logs!QuietWhenClosed'
    BY <1>1, <1>2, <2>4, <2>5 DEF Logs!QuietWhenClosed
  <2>7. ASSUME ~s10 PROVE Logs!InOrder'
    <3>1. /\ Logs!Ordered(s6.buf)' /\ Logs!Below(s6.buf, s2)'
          /\ Logs!Follows(s5, s6.buf)' /\ Logs!Follows(s7, s6.buf)'
          /\ Logs!Ordered(s7)' /\ Logs!Follows(s5, s7)' /\ Logs!Below(s7, s2)'
      BY <1>2, <2>1, <2>2, <2>3, <2>4, <2>7 DEF Logs!Ordered, Logs!Below, Logs!Follows
    <3>2. Logs!Ordered(s5)' /\ Logs!Below(s5, s2)'
      BY <1>2, <1>5, <2>7 DEF Logs!Ordered, Logs!Below
    <3>3. ASSUME NEW i \in DOMAIN s1, i > s6.pos
          PROVE  Logs!Below(s5, s1[i]) /\ Logs!Below(q, s1[i]) /\ Logs!Below(r, s1[i])
      <4>1. Logs!Below(s5, s1[i]) /\ Logs!Below(s7, s1[i]) /\ Logs!Below(s6.buf, s1[i])
        BY <1>5, <2>5, <2>7, <3>3 DEF Logs!UnreadIsNewer, Logs!Seen
      <4>2. s1[i] \in Nat
        BY <1>1
      <4>3. Logs!Below(r, s1[i]) /\ Logs!Below(<<h>>, s1[i])
        BY <1>1, <2>1, <4>1, <4>2, LineTaken DEF h, r
      <4>4. Logs!Below(q, s1[i])
        BY <1>1, <2>2, <4>1, <4>2, <4>3, LineAdded DEF q
      <4>5. QED
        BY <4>1, <4>3, <4>4
    <3>4. ASSUME NEW i \in DOMAIN s1', i > s6'.pos
          PROVE  /\ Logs!Below(s5, s1[i])' /\ Logs!Below(s7, s1[i])'
                 /\ Logs!Below(s6.buf, s1[i])'
      BY <1>2, <2>1, <2>4, <3>3, <3>4 DEF Logs!Below
    <3>5. QED
      BY <3>1, <3>2, <3>4 DEF Logs!InOrder, Logs!UnreadIsNewer, Logs!Seen
  <2>8. QED
    BY <1>4, <2>1, <2>3, <2>4, <2>6, <2>7
<1>9. QED
  BY <1>6, <1>7, <1>8

\* The loop shows what it drains, and a key that reads the file again finds
\* nothing under way, or says so.
LEMMA LogsLooped ==
    ASSUME Logs!TailInv,
           \/ Logs!Drain \/ Logs!Drained \/ Logs!OpenLogs \/ Logs!LeaveLogs
           \/ Logs!AskClear \/ Logs!ClearDeployLog \/ Logs!ClearOtherTab
           \/ Logs!ClearRefused
    PROVE  Logs!TailInv'
<1> DEFINE Tails == [at : {"off", "start", "poll"}, pos : Nat, buf : Seq(Nat)]
<1>1. /\ Logs!LogTyped /\ Logs!FilesAscend /\ Logs!QuietWhenClosed
      /\ ~s10 => Logs!InOrder
      /\ s2 \in Nat \ {0} /\ s1 \in Seq(Nat) /\ s7 \in Seq(Nat)
      /\ s5 \in Seq(Nat \ {0}) /\ s5 \in Seq(Nat)
      /\ s6 \in Tails /\ s6.buf \in Seq(Nat) /\ s6.pos \in Nat
  BY LogParts DEF Logs!TailInv
<1>2. UNCHANGED <<s2, s3>>
  BY DEF Logs!Drain, Logs!Drained, Logs!OpenLogs, Logs!LeaveLogs, Logs!AskClear,
         Logs!ClearDeployLog, Logs!ClearOtherTab, Logs!ClearRefused
<1>3. ASSUME s1' = s1 \/ s1' = <<>>
      PROVE  Logs!FilesAscend' /\ s1' \in Seq(Nat)
  <2>1. CASE s1' = s1
    BY <1>1, <1>2, <2>1 DEF Logs!FilesAscend, Logs!Written, Logs!Ascending
  <2>2. CASE s1' = <<>>
    <3>1. s1' \in Seq(Nat) /\ Logs!Written(s1)'
      BY <2>2 DEF Logs!Written, Logs!Ascending
    <3>2. QED
      BY <1>1, <1>2, <3>1 DEF Logs!FilesAscend, Logs!Written, Logs!Ascending
  <2>3. QED
    BY <1>3, <2>1, <2>2
<1>4. ASSUME s1' = s1 \/ s1' = <<>>, s5' \in Seq(Nat \ {0}), s7' \in Seq(Nat),
             s6' \in Tails, Logs!QuietWhenClosed', ~s10' => Logs!InOrder'
      PROVE  Logs!TailInv'
  <2>1. Logs!LogTyped'
    BY <1>1, <1>2, <1>3, <1>4 DEF Logs!LogTyped
  <2>2. QED
    BY <1>2, <1>3, <1>4, <2>1 DEF Logs!TailInv
<1>5. ASSUME ~s10
      PROVE  /\ Logs!UnreadIsNewer
             /\ Logs!Ordered(s5) /\ Logs!Ordered(s7) /\ Logs!Ordered(s6.buf)
             /\ Logs!Below(s5, s2) /\ Logs!Below(s7, s2) /\ Logs!Below(s6.buf, s2)
             /\ Logs!Follows(s5, s7) /\ Logs!Follows(s5, s6.buf) /\ Logs!Follows(s7, s6.buf)
  BY <1>1, <1>5 DEF Logs!InOrder, Logs!UnreadIsNewer, Logs!Seen
\* The file as the view shows it.
<1>6. /\ s1 \in Seq(Nat \ {0}) /\ Logs!Ordered(s1) /\ Logs!Below(s1, s2)
  <2>1. \A i \in DOMAIN s1 : s1[i] \in Nat \ {0} /\ s1[i] < s2
    BY <1>1 DEF Logs!FilesAscend, Logs!Written
  <2>2. s1 \in Seq(Nat \ {0})
    <3>1. /\ Len(s1) \in Nat /\ s1 = [i \in 1 .. Len(s1) |-> s1[i]]
          /\ \A i \in 1 .. Len(s1) : s1[i] \in Nat \ {0}
      BY <1>1, <2>1
    <3>2. QED
      BY <3>1, SeqDef
  <2>3. QED
    BY <1>1, <2>1, <2>2 DEF Logs!FilesAscend, Logs!Written, Logs!Ascending, Logs!Ordered,
                            Logs!Below
\* Nothing stands in the way of an empty sequence.
<1>7. ASSUME NEW e, e = <<>>
      PROVE  /\ e \in Seq(Nat \ {0}) /\ e \in Seq(Nat) /\ Logs!Ordered(e)
             /\ \A n : Logs!Below(e, n)
             /\ \A t : Logs!Follows(e, t) /\ Logs!Follows(t, e)
  BY <1>7 DEF Logs!Ordered, Logs!Below, Logs!Follows
\* The loop's own bookkeeping.
<1>8. ASSUME UNCHANGED <<s1, s5, s6, s7>>, ~s10, ~s10' PROVE Logs!InOrder'
  BY <1>2, <1>5, <1>8 DEF Logs!InOrder, Logs!UnreadIsNewer, Logs!Seen, Logs!Ordered,
                          Logs!Below, Logs!Follows
<1>9. CASE Logs!Drain
  <2> DEFINE h == Head(s7)
             r == Tail(s7)
             q == IF h = 0 THEN <<>> ELSE Append(s5, h)
  <2>1. /\ s8 /\ s7 # <<>> /\ s7' = r /\ s5' = q
        /\ UNCHANGED <<s1, s4, s6, s8, s10>>
    BY <1>9 DEF Logs!Drain
  <2>2. /\ h \in Nat /\ r \in Seq(Nat)
        /\ ~s10 => /\ Logs!Ordered(r) /\ Logs!Follows(<<h>>, r) /\ Logs!Below(r, s2)
                  /\ Logs!Below(<<h>>, s2) /\ Logs!Below(s5, h)
                  /\ Logs!Follows(s5, r) /\ Logs!Follows(r, s6.buf)
                  /\ Logs!Follows(<<h>>, s6.buf)
    BY <1>1, <1>5, <2>1, LineTaken
  <2> HIDE DEF h, r
  <2>3. /\ q \in Seq(Nat \ {0})
        /\ ~s10 => /\ Logs!Ordered(q) /\ Logs!Below(q, s2)
                  /\ Logs!Follows(q, r) /\ Logs!Follows(q, s6.buf)
    <3>1. CASE h = 0
      <4>1. q = <<>>
        BY <3>1
      <4> HIDE DEF q
      <4>2. QED
        BY <1>7, <4>1
    <3>2. CASE h # 0
      <4>1. q = Append(s5, h)
        BY <3>2
      <4> HIDE DEF q
      <4>2. q \in Seq(Nat \ {0})
        BY <1>1, <2>2, <3>2, <4>1
      <4>3. QED
        BY <1>1, <1>5, <2>2, <4>1, <4>2, LineAdded
    <3>3. QED
      BY <3>1, <3>2
  <2> HIDE DEF q
  <2>4. Logs!QuietWhenClosed'
    BY <1>1, <2>1 DEF Logs!QuietWhenClosed
  <2>5. ASSUME ~s10' PROVE Logs!InOrder'
    <3>1. ~s10
      BY <2>1, <2>5
    <3>2. /\ Logs!Ordered(s5)' /\ Logs!Below(s5, s2)'
          /\ Logs!Ordered(s7)' /\ Logs!Below(s7, s2)'
          /\ Logs!Follows(s5, s7)' /\ Logs!Follows(s5, s6.buf)' /\ Logs!Follows(s7, s6.buf)'
      BY <1>2, <2>1, <2>2, <2>3, <3>1 DEF Logs!Ordered, Logs!Below, Logs!Follows
    <3>3. Logs!Ordered(s6.buf)' /\ Logs!Below(s6.buf, s2)'
      BY <1>2, <1>5, <2>1, <3>1 DEF Logs!Ordered, Logs!Below
    <3>4. ASSUME s6.at = "poll", NEW i \in DOMAIN s1, i > s6.pos
          PROVE  Logs!Below(q, s1[i]) /\ Logs!Below(r, s1[i]) /\ Logs!Below(s6.buf, s1[i])
      <4>1. Logs!Below(s5, s1[i]) /\ Logs!Below(s7, s1[i]) /\ Logs!Below(s6.buf, s1[i])
        BY <1>5, <3>1, <3>4 DEF Logs!UnreadIsNewer, Logs!Seen
      <4>2. s1[i] \in Nat
        BY <1>1
      <4>3. Logs!Below(r, s1[i]) /\ Logs!Below(<<h>>, s1[i])
        BY <1>1, <2>1, <4>1, <4>2, LineTaken DEF h, r
      <4>4. Logs!Below(Append(s5, h), s1[i])
        BY <1>1, <2>2, <4>1, <4>2, <4>3, LineAdded
      <4>5. Logs!Below(q, s1[i])
        BY <1>7, <4>4 DEF q
      <4>6. QED
        BY <4>1, <4>3, <4>5
    <3>5. ASSUME s6'.at = "poll", NEW i \in DOMAIN s1', i > s6'.pos
          PROVE  /\ Logs!Below(s5, s1[i])' /\ Logs!Below(s7, s1[i])'
                 /\ Logs!Below(s6.buf, s1[i])'
      BY <2>1, <3>4, <3>5 DEF Logs!Below
    <3>6. QED
      BY <3>2, <3>3, <3>5 DEF Logs!InOrder, Logs!UnreadIsNewer, Logs!Seen
  <2>6. QED
    BY <1>1, <1>4, <2>1, <2>2, <2>3, <2>4, <2>5
<1>10. CASE Logs!Drained \/ Logs!AskClear
  <2>1. UNCHANGED <<s1, s5, s6, s7, s10>>
    BY <1>10 DEF Logs!Drained, Logs!AskClear, Logs!KeyAt
  <2>2. (s4' = s4 /\ s7 = <<>>) \/ s4' # "main"
    BY <1>10 DEF Logs!Drained, Logs!AskClear
  <2>3. Logs!QuietWhenClosed'
    BY <1>1, <2>1, <2>2 DEF Logs!QuietWhenClosed
  <2>4. ~s10' => Logs!InOrder'
    BY <1>8, <2>1
  <2>5. QED
    BY <1>1, <1>4, <2>1, <2>3, <2>4
<1>11. CASE Logs!OpenLogs
  <2>1. /\ ~s8 /\ s4 = "main" /\ s4' = "logs" /\ UNCHANGED <<s1, s7>>
        /\ s5' = IF s1 # <<>> THEN s1 ELSE s5
        /\ s6' = [Logs!NoTail EXCEPT !.at = "start"]
        /\ s10' = ((s10 /\ s1 = <<>>) \/ ~Logs!AllQuiet)
    BY <1>11 DEF Logs!OpenLogs, Logs!KeyAt
  <2>2. ~s10' => s7 = <<>>
    BY <2>1 DEF Logs!AllQuiet
  <2>3. s6' \in Tails /\ s6'.at = "start" /\ s6'.buf = <<>>
    <3>1. s6' = [at |-> "start", pos |-> 0, buf |-> <<>>]
      BY <2>1 DEF Logs!NoTail
    <3>2. QED
      BY ONLY <3>1
  <2>4. Logs!QuietWhenClosed'
    BY <2>1, <2>3 DEF Logs!QuietWhenClosed
  <2>5. s5' \in Seq(Nat \ {0})
    BY <1>1, <1>6, <2>1
  <2>6. ASSUME ~s10' PROVE Logs!InOrder'
    <3>1. ~s10 \/ s1 # <<>>
      BY <2>1, <2>6
    <3>2. Logs!Ordered(s5)' /\ Logs!Below(s5, s2)'
      <4>1. CASE s1 # <<>>
        BY <1>2, <1>6, <2>1, <4>1 DEF Logs!Ordered, Logs!Below
      <4>2. CASE s1 = <<>>
        BY <1>2, <1>5, <2>1, <3>1, <4>2 DEF Logs!Ordered, Logs!Below
      <4>3. QED
        BY <4>1, <4>2
    <3>3. s7' = <<>> /\ s6'.buf = <<>>
      BY <2>1, <2>2, <2>3, <2>6
    <3>4. /\ Logs!Ordered(s7)' /\ Logs!Ordered(s6.buf)'
          /\ Logs!Below(s7, s2)' /\ Logs!Below(s6.buf, s2)'
          /\ Logs!Follows(s5, s7)' /\ Logs!Follows(s5, s6.buf)' /\ Logs!Follows(s7, s6.buf)'
      BY <3>3 DEF Logs!Ordered, Logs!Below, Logs!Follows
    <3>5. QED
      BY <2>3, <3>2, <3>4 DEF Logs!InOrder, Logs!UnreadIsNewer, Logs!Seen
  <2>7. QED
    BY <1>1, <1>4, <2>1, <2>3, <2>4, <2>5, <2>6
<1>12. CASE Logs!LeaveLogs
  <2>1. s8' /\ s6' = Logs!NoTail /\ UNCHANGED <<s1, s5, s7, s10>>
    BY <1>12 DEF Logs!LeaveLogs, Logs!KeyAt
  <2>2. s6' \in Tails /\ s6'.at = "off" /\ s6'.buf = <<>>
    BY <2>1 DEF Logs!NoTail
  <2>3. Logs!QuietWhenClosed'
    BY <2>1, <2>2 DEF Logs!QuietWhenClosed
  <2>4. ASSUME ~s10' PROVE Logs!InOrder'
    <3>1. /\ Logs!Ordered(s5)' /\ Logs!Ordered(s7)' /\ Logs!Follows(s5, s7)'
          /\ Logs!Below(s5, s2)' /\ Logs!Below(s7, s2)'
      BY <1>2, <1>5, <2>1, <2>4 DEF Logs!Ordered, Logs!Below, Logs!Follows
    <3>2. /\ Logs!Ordered(s6.buf)' /\ Logs!Below(s6.buf, s2)'
          /\ Logs!Follows(s5, s6.buf)' /\ Logs!Follows(s7, s6.buf)'
      BY <2>2 DEF Logs!Ordered, Logs!Below, Logs!Follows
    <3>3. QED
      BY <2>2, <3>1, <3>2 DEF Logs!InOrder, Logs!UnreadIsNewer, Logs!Seen
  <2>5. QED
    BY <1>1, <1>4, <2>1, <2>2, <2>3, <2>4
<1>13. CASE Logs!ClearDeployLog
  <2> DEFINE q == Append(s7, 0)
  <2>1. s4' = "logs" /\ s1' = <<>> /\ s5' = <<>> /\ s7' = q /\ UNCHANGED <<s6, s10>>
    BY <1>13 DEF Logs!ClearDeployLog
  <2>2. 0 \in Nat
    OBVIOUS
  <2>3. q \in Seq(Nat)
    BY <1>1, <2>2
  <2>4. ~s10 => Logs!Ordered(q) /\ Logs!Below(q, s2) /\ Logs!Follows(q, s6.buf)
    BY <1>1, <1>5, <2>2, LineAdded, ClearMark DEF Logs!Follows
  <2> HIDE DEF q
  <2>5. Logs!QuietWhenClosed'
    BY <1>1, <2>1 DEF Logs!QuietWhenClosed
  <2>6. ASSUME ~s10' PROVE Logs!InOrder'
    <3>1. /\ Logs!Ordered(s7)' /\ Logs!Below(s7, s2)' /\ Logs!Follows(s7, s6.buf)'
      BY <1>2, <2>1, <2>4, <2>6 DEF Logs!Ordered, Logs!Below, Logs!Follows
    <3>2. Logs!Ordered(s6.buf)' /\ Logs!Below(s6.buf, s2)'
      BY <1>2, <1>5, <2>1, <2>6 DEF Logs!Ordered, Logs!Below
    <3>3. /\ Logs!Ordered(s5)' /\ Logs!Below(s5, s2)'
          /\ Logs!Follows(s5, s7)' /\ Logs!Follows(s5, s6.buf)'
      BY <2>1 DEF Logs!Ordered, Logs!Below, Logs!Follows
    <3>4. QED
      BY <2>1, <3>1, <3>2, <3>3 DEF Logs!InOrder, Logs!UnreadIsNewer, Logs!Seen
  <2>7. QED
    BY <1>1, <1>4, <1>7, <2>1, <2>3, <2>5, <2>6
<1>14. CASE Logs!ClearOtherTab \/ Logs!ClearRefused
  <2>1. /\ s4' = "logs" /\ UNCHANGED <<s1, s6, s7>> /\ (s5' = s1 \/ s5' = s5)
        /\ ~s10' => ~s10 /\ s5' = s5
    BY <1>14 DEF Logs!ClearOtherTab, Logs!ClearRefused
  <2>2. Logs!QuietWhenClosed'
    BY <1>1, <2>1 DEF Logs!QuietWhenClosed
  <2>3. ~s10' => Logs!InOrder'
    BY <1>8, <2>1
  <2>4. s5' \in Seq(Nat \ {0})
    BY <1>1, <1>6, <2>1
  <2>5. QED
    BY <1>1, <1>4, <2>1, <2>2, <2>3, <2>4
<1>15. QED
  BY <1>9, <1>10, <1>11, <1>12, <1>13, <1>14

\* A stopped thread's last line is behind all that is shown and sent, and no
\* tail reads the file meanwhile, or the lines are mixed.
LEMMA LogsLate ==
    ASSUME Logs!LogInv, NEW t \in Stopped, Logs!LateSend(t) \/ Logs!LateRead(t)
    PROVE  Logs!TailInv'
<1>1. /\ Logs!LogTyped /\ Logs!FilesAscend /\ Logs!QuietWhenClosed
      /\ ~s10 => Logs!InOrder /\ Logs!OneBehind /\ Logs!LateIsNewer
      /\ s2 \in Nat \ {0} /\ s7 \in Seq(Nat) /\ s5 \in Seq(Nat)
      /\ s9 \in [Stopped -> [at : {"gone", "send", "read"}, n : Nat]]
  BY LogParts DEF Logs!LogInv, Logs!TailInv, Logs!LateInv
<1>2. CASE Logs!LateRead(t)
  <2>1. UNCHANGED <<s1, s2, s3, s4, s5, s6, s7, s8, s10>>
    BY <1>2 DEF Logs!LateRead
  <2>2. QED
    BY <2>1 DEF Logs!LogInv, Logs!TailInv, Logs!LogTyped, Logs!FilesAscend, Logs!Written,
         Logs!Ascending, Logs!QuietWhenClosed, Logs!InOrder, Logs!UnreadIsNewer,
         Logs!Seen, Logs!Ordered, Logs!Below, Logs!Follows
<1>3. CASE Logs!LateSend(t)
  <2> DEFINE n == s9[t].n
             q == Append(s7, n)
  <2>1. /\ s9[t].at = "send" /\ s7' = q
        /\ UNCHANGED <<s1, s2, s3, s4, s5, s6, s8, s10>>
    BY <1>3 DEF Logs!LateSend
  <2>2. n \in Nat
    BY <1>1
  <2> HIDE DEF n
  <2>3. q \in Seq(Nat)
    BY <1>1, <2>2
  <2>4. Logs!LogTyped' /\ Logs!FilesAscend' /\ Logs!QuietWhenClosed'
    BY <1>1, <2>1, <2>3 DEF Logs!LogTyped, Logs!FilesAscend, Logs!Written, Logs!Ascending,
                            Logs!QuietWhenClosed
  <2>5. ASSUME ~s10 PROVE Logs!InOrder'
    <3>1. s6.at = "off" /\ s6.buf = <<>>
      <4>1. s9[t] # Logs!Gone
        BY <2>1 DEF Logs!Gone
      <4>2. s4 = "main"
        BY <1>1, <2>5, <4>1 DEF Logs!OneBehind
      <4>3. QED
        BY <1>1, <4>2 DEF Logs!QuietWhenClosed
    <3>2. Logs!Below(s5, n) /\ Logs!Below(s7, n) /\ (n # 0 => n < s2)
      BY <1>1, <2>1, <2>5 DEF Logs!LateIsNewer, n
    <3>3. /\ Logs!Ordered(s5) /\ Logs!Ordered(s7) /\ Logs!Follows(s5, s7)
          /\ Logs!Below(s5, s2) /\ Logs!Below(s7, s2)
      BY <1>1, <2>5 DEF Logs!InOrder, Logs!UnreadIsNewer, Logs!Seen
    <3>4. Logs!Below(<<n>>, s2)
      BY <1>1, <2>2, <3>2, OneLine
    <3>5. Logs!Ordered(q) /\ Logs!Below(q, s2) /\ Logs!Follows(s5, q)
      BY <1>1, <2>2, <3>2, <3>3, <3>4, LineAdded
    <3> HIDE DEF q
    <3>6. /\ Logs!Ordered(s5)' /\ Logs!Ordered(s7)' /\ Logs!Follows(s5, s7)'
          /\ Logs!Below(s5, s2)' /\ Logs!Below(s7, s2)'
      BY <2>1, <3>3, <3>5 DEF Logs!Ordered, Logs!Below, Logs!Follows
    <3>7. /\ Logs!Ordered(s6.buf)' /\ Logs!Below(s6.buf, s2)'
          /\ Logs!Follows(s5, s6.buf)' /\ Logs!Follows(s7, s6.buf)'
      BY <2>1, <3>1 DEF Logs!Ordered, Logs!Below, Logs!Follows
    <3>8. QED
      BY <2>1, <3>1, <3>6, <3>7 DEF Logs!InOrder, Logs!UnreadIsNewer, Logs!Seen
  <2>6. QED
    BY <2>1, <2>4, <2>5 DEF Logs!TailInv
<1>4. QED
  BY <1>2, <1>3

\* At most one thread is behind, with a line newer than those it told the view.
LEMMA LateKept ==
    ASSUME Logs!LogInv, Logs!LogNext
    PROVE  Logs!LateInv'
<1> DEFINE Lates == [at : {"gone", "send", "read"}, n : Nat]
<1>1. /\ Logs!LogTyped /\ Logs!FilesAscend /\ Logs!QuietWhenClosed
      /\ ~s10 => Logs!InOrder /\ Logs!OneBehind /\ Logs!LateIsNewer
      /\ s2 \in Nat \ {0} /\ s7 \in Seq(Nat) /\ s5 \in Seq(Nat)
      /\ s6.buf \in Seq(Nat) /\ s6.pos \in Nat
      /\ s9 \in [Stopped -> Lates]
  BY LogParts DEF Logs!LogInv, Logs!TailInv, Logs!LateInv
<1>2. ASSUME s9' = s9, ~s10' => \A t \in Stopped : s9[t] = Logs!Gone
      PROVE  Logs!LateInv'
  BY <1>1, <1>2 DEF Logs!LateInv, Logs!OneBehind, Logs!LateIsNewer, Logs!Gone
<1>3. ASSUME UNCHANGED <<s4, s9>>, ~s10' => ~s10, s2' \in Nat, s2 <= s2',
             ~s10 => \A n \in Nat : /\ Logs!Below(s5, n) /\ Logs!Below(s7, n)
                                   => Logs!Below(s5, n)' /\ Logs!Below(s7, n)'
      PROVE  Logs!LateInv'
  <2>1. ~s10' => Logs!OneBehind'
    BY <1>1, <1>3 DEF Logs!OneBehind, Logs!Gone
  <2>2. ASSUME ~s10', NEW t \in Stopped, s9'[t].at = "send"
        PROVE  /\ Logs!Below(s5', s9'[t].n) /\ Logs!Below(s7', s9'[t].n)
               /\ s9'[t].n < s2'
    <3>1. /\ Logs!Below(s5, s9[t].n) /\ Logs!Below(s7, s9[t].n) /\ s9[t].n < s2
          /\ s9[t].n \in Nat /\ s9' = s9
      BY <1>1, <1>3, <2>2 DEF Logs!LateIsNewer
    <3>2. Logs!Below(s5', s9[t].n) /\ Logs!Below(s7', s9[t].n)
      BY <1>3, <2>2, <3>1 DEF Logs!Below
    <3>3. QED
      BY <1>1, <1>3, <3>1, <3>2
  <2>3. QED
    BY <1>1, <1>3, <2>1, <2>2 DEF Logs!LateInv, Logs!LateIsNewer
<1>4. ASSUME NEW w \in Writers, Logs!CheckSize(w) \/ Logs!Cut(w) \/ Logs!AppendLine(w)
      PROVE  Logs!LateInv'
  <2>1. UNCHANGED <<s4, s5, s7, s9>> /\ (~s10' => ~s10) /\ (s2' = s2 \/ s2' = s2 + 1)
    <3>1. CASE Logs!CheckSize(w) \/ Logs!AppendLine(w)
      BY <3>1 DEF Logs!CheckSize, Logs!AppendLine, Logs!panelVars
    <3>2. CASE Logs!Cut(w)
      <4>1. /\ s10' = (s10 \/ ~Logs!IsPrefix(s3[w].read, s1))
            /\ UNCHANGED <<s2, s4, s5, s7, s9>>
        BY <3>2 DEF Logs!Cut
      <4>2. ~s10' => ~s10
        BY <4>1, Zenon
      <4>3. QED
        BY <4>1, <4>2
    <3>3. QED
      BY <1>4, <3>1, <3>2
  <2>2. s2' \in Nat /\ s2 <= s2'
    BY <1>1, <2>1
  <2>3. QED
    BY <1>3, <2>1, <2>2 DEF Logs!Below
<1>5. CASE Logs!ClearedElsewhere \/ Logs!TailStarts \/ Logs!Poll \/ Logs!Drained
  <2>1. UNCHANGED <<s2, s4, s5, s7, s9, s10>>
    BY <1>5 DEF Logs!ClearedElsewhere, Logs!TailStarts, Logs!Poll, Logs!Drained,
                Logs!panelVars
  <2>2. s2' \in Nat /\ s2 <= s2'
    BY <1>1, <2>1
  <2>3. QED
    BY <1>3, <2>1, <2>2 DEF Logs!Below
<1>6. CASE \/ Logs!SendLine \/ Logs!AskClear \/ Logs!ClearDeployLog
           \/ Logs!ClearOtherTab \/ Logs!ClearRefused
  <2>1. /\ s9' = s9
        /\ s10' = s10 \/ s10' = TRUE \/ s10' = (s10 \/ s5 = <<>>)
    BY <1>6 DEF Logs!SendLine, Logs!AskClear, Logs!ClearDeployLog, Logs!ClearOtherTab,
                Logs!ClearRefused
  <2>2. s4 # "main"
    BY <1>1, <1>6 DEF Logs!QuietWhenClosed, Logs!SendLine, Logs!AskClear, Logs!KeyAt,
                      Logs!ClearDeployLog, Logs!ClearOtherTab, Logs!ClearRefused
  <2>3. ~s10' => ~s10
    BY <2>1, Zenon
  <2>4. QED
    BY <1>1, <1>2, <2>1, <2>2, <2>3 DEF Logs!OneBehind
<1>7. CASE Logs!Drain
  <2>1. /\ s7 # <<>> /\ s7' = Tail(s7) /\ UNCHANGED <<s2, s4, s9, s10>>
        /\ s5' = IF Head(s7) = 0 THEN <<>> ELSE Append(s5, Head(s7))
    BY <1>7 DEF Logs!Drain
  <2>2. ASSUME NEW n \in Nat, Logs!Below(s5, n), Logs!Below(s7, n)
        PROVE  Logs!Below(s5', n) /\ Logs!Below(s7', n)
    <3> DEFINE h == Head(s7)
    <3>1. /\ h \in Nat /\ Logs!Below(Tail(s7), n) /\ Logs!Below(<<h>>, n)
      BY <1>1, <2>1, <2>2, LineTaken
    <3> HIDE DEF h
    <3>2. Logs!Below(Append(s5, h), n)
      BY <1>1, <2>2, <3>1, LineAdded
    <3>3. Logs!Below(<<>>, n)
      BY DEF Logs!Below
    <3>4. QED
      BY <2>1, <3>1, <3>2, <3>3 DEF h
  <2>3. \A n \in Nat : /\ Logs!Below(s5, n) /\ Logs!Below(s7, n)
                      => Logs!Below(s5, n)' /\ Logs!Below(s7, n)'
    BY <2>2 DEF Logs!Below
  <2>4. s2' \in Nat /\ s2 <= s2'
    BY <1>1, <2>1
  <2>5. QED
    BY <1>3, <2>1, <2>3, <2>4
<1>8. CASE Logs!OpenLogs
  <2>1. s9' = s9 /\ (~s10' => \A t \in Stopped : s9[t] = Logs!Gone)
    BY <1>8 DEF Logs!OpenLogs, Logs!AllQuiet
  <2>2. QED
    BY <1>2, <2>1
<1>9. CASE Logs!LeaveLogs
  <2>1. s4 = "logs" /\ s4' = "main" /\ UNCHANGED <<s2, s5, s7, s10>>
    BY <1>9 DEF Logs!LeaveLogs, Logs!KeyAt
  <2>2. CASE s9' = s9
    BY <1>1, <1>2, <2>1, <2>2 DEF Logs!OneBehind
  <2>3. ASSUME NEW t \in Stopped,
               s9' = [s9 EXCEPT ![t] = IF s6.buf = <<>> THEN [at |-> "read", n |-> s6.pos]
                                       ELSE [at |-> "send", n |-> Head(s6.buf)]]
        PROVE  Logs!LateInv'
    <3> DEFINE x == IF s6.buf = <<>> THEN [at |-> "read", n |-> s6.pos]
                    ELSE [at |-> "send", n |-> Head(s6.buf)]
    <3>1. /\ x \in Lates
          /\ x.at = "send" => s6.buf # <<>> /\ x.n = Head(s6.buf)
      <4>1. CASE s6.buf = <<>>
        BY <1>1, <4>1
      <4>2. CASE s6.buf # <<>>
        <5>1. Head(s6.buf) \in Nat
          BY <1>1, <4>2
        <5>2. QED
          BY <4>2, <5>1
      <4>3. QED
        BY <4>1, <4>2
    <3> HIDE DEF x
    <3>2. s9' = [s9 EXCEPT ![t] = x]
      BY <2>3 DEF x
    <3>3. s9' \in [Stopped -> Lates] /\ s9'[t] = x
      BY <1>1, <3>1, <3>2
    <3>4. ASSUME ~s10' PROVE \A u \in Stopped : u # t => s9'[u] = Logs!Gone
      BY <1>1, <2>1, <3>2, <3>4 DEF Logs!OneBehind
    <3>5. ASSUME ~s10' PROVE Logs!OneBehind'
      BY <2>1, <3>4, <3>5 DEF Logs!OneBehind, Logs!Gone
    <3>6. ASSUME ~s10', NEW u \in Stopped, s9'[u].at = "send"
          PROVE  /\ Logs!Below(s5', s9'[u].n) /\ Logs!Below(s7', s9'[u].n)
                 /\ s9'[u].n < s2'
      <4>1. u = t
        BY <3>4, <3>6 DEF Logs!Gone
      <4>2. s6.buf # <<>> /\ s9'[u].n = Head(s6.buf) /\ s9'[u].n \in Nat
        BY <3>1, <3>3, <3>6, <4>1
      <4>3. /\ Logs!Follows(s5, s6.buf) /\ Logs!Follows(s7, s6.buf)
            /\ Logs!Below(s6.buf, s2)
        BY <1>1, <2>1, <3>6 DEF Logs!InOrder, Logs!UnreadIsNewer, Logs!Seen
      <4>4. Logs!Below(s5, s9'[u].n) /\ Logs!Below(s7, s9'[u].n)
        BY <1>1, <4>2, <4>3, LineTaken
      <4>5. Logs!Below(<<s9'[u].n>>, s2)
        BY <1>1, <4>2, <4>3, LineTaken
      <4>6. s9'[u].n < s2
        BY <1>1, <4>2, <4>5, OneLine
      <4>7. QED
        BY <2>1, <4>4, <4>6 DEF Logs!Below
    <3>7. QED
      BY <3>3, <3>5, <3>6 DEF Logs!LateInv, Logs!LateIsNewer
  <2>4. QED
    BY <1>9, <2>2, <2>3 DEF Logs!LeaveLogs
<1>10. ASSUME NEW t \in Stopped, Logs!LateSend(t) PROVE Logs!LateInv'
  <2>1. /\ s9' = [s9 EXCEPT ![t] = Logs!Gone] /\ s9[t].at = "send"
        /\ UNCHANGED <<s2, s4, s5, s10>>
    BY <1>10 DEF Logs!LateSend
  <2>2. Logs!Gone \in Lates /\ Logs!Gone.at = "gone"
    BY DEF Logs!Gone
  <2>3. s9' \in [Stopped -> Lates]
    BY <1>1, <2>1, <2>2
  <2>4. ~s10' => \A u \in Stopped : s9'[u] = Logs!Gone
    BY <1>1, <2>1, <2>2 DEF Logs!OneBehind, Logs!Gone
  <2>5. QED
    BY <2>2, <2>3, <2>4 DEF Logs!LateInv, Logs!OneBehind, Logs!LateIsNewer
<1>11. ASSUME NEW t \in Stopped, Logs!LateRead(t) PROVE Logs!LateInv'
  <2> DEFINE x == IF Len(s1) < s9[t].n THEN [at |-> "send", n |-> 0] ELSE Logs!Gone
  <2>1. /\ s9' = [s9 EXCEPT ![t] = x] /\ s9[t].at = "read"
        /\ UNCHANGED <<s2, s4, s5, s7, s10>>
    BY <1>11 DEF Logs!LateRead
  <2>2. x \in Lates /\ x.n = 0
    BY DEF Logs!Gone
  <2> HIDE DEF x
  <2>3. s9' \in [Stopped -> Lates] /\ s9'[t] = x
    BY <1>1, <2>1, <2>2
  <2>4. ASSUME ~s10' PROVE Logs!OneBehind' /\ Logs!LateIsNewer'
    <3>1. s4 = "main" /\ \A u \in Stopped : u # t => s9'[u] = Logs!Gone
      BY <1>1, <2>1, <2>4 DEF Logs!OneBehind, Logs!Gone
    <3>2. \A u \in Stopped : s9'[u].at = "send" => s9'[u].n = 0
      BY <2>2, <2>3, <3>1 DEF Logs!Gone
    <3>3. Logs!OneBehind'
      BY <2>1, <3>1 DEF Logs!OneBehind
    <3>4. 0 < s2'
      BY <1>1, <2>1
    <3>5. QED
      BY <3>2, <3>3, <3>4 DEF Logs!LateIsNewer, Logs!Below
  <2>5. QED
    BY <2>3, <2>4 DEF Logs!LateInv
<1>12. QED
  BY <1>4, <1>5, <1>6, <1>7, <1>8, <1>9, <1>10, <1>11 DEF Logs!LogNext

\* It holds of an empty log and a closed view.
LEMMA LogsStart ==
    ASSUME Logs!LogInit
    PROVE  Logs!LogInv
<1>1. /\ s1 = <<>> /\ s2 = 1 /\ s3 = [w \in Writers |-> Logs!Idle]
      /\ s4 = "main" /\ s5 = <<>> /\ s6 = Logs!NoTail /\ s7 = <<>> /\ s8
      /\ s9 = [t \in Stopped |-> Logs!Gone]
  BY DEF Logs!LogInit
<1>2. /\ \A w \in Writers : s3[w].at = "idle"
      /\ s3 \in [Writers -> [at : {"idle", "cut", "append"}, read : Seq(Nat)]]
  BY <1>1 DEF Logs!Idle
<1>3. /\ s6 \in [at : {"off", "start", "poll"}, pos : Nat, buf : Seq(Nat)]
      /\ s6.at = "off" /\ s6.buf = <<>>
  BY <1>1 DEF Logs!NoTail
<1>4. Logs!LogTyped
  BY <1>1, <1>2, <1>3 DEF Logs!LogTyped
<1>5. Logs!FilesAscend
  BY <1>1, <1>2 DEF Logs!FilesAscend, Logs!Written, Logs!Ascending
<1>6. Logs!QuietWhenClosed
  BY <1>1, <1>3 DEF Logs!QuietWhenClosed
<1>7. /\ \A s \in Logs!Seen : s = <<>>
      /\ s5 = <<>> /\ s7 = <<>> /\ s6.buf = <<>>
  BY <1>1, <1>3 DEF Logs!Seen
<1>8. Logs!InOrder
  BY <1>3, <1>7 DEF Logs!InOrder, Logs!UnreadIsNewer, Logs!Ordered, Logs!Below,
                    Logs!Follows
<1>9. Logs!LateInv
  BY <1>1 DEF Logs!LateInv, Logs!OneBehind, Logs!LateIsNewer, Logs!Gone
<1>10. QED
  BY <1>4, <1>5, <1>6, <1>8, <1>9 DEF Logs!LogInv, Logs!TailInv

\* ShownInOrder (tui/mod.rs, tui/workers.rs): whatever the log's bounds and
\* however many threads write it, the Logs screen shows lines in the order they
\* were written and none twice, until a re-read or a late cut mixes old lines
\* with new.
THEOREM LogsSafety == PartsSpec => []ShownInOrder
<1> DEFINE Inv == part = "logs" => Logs!LogInv
<1>1. PartsInit => Inv
  BY LogsStart DEF PartsInit
<1>2. ASSUME Inv, [PartsNext]_partVars PROVE Inv'
  <2>1. CASE PartsNext
    <3>1. CASE part = "logs" /\ part' = part
      <4>1. Logs!LogInv /\ Logs!LogNext
        BY <1>2, <2>1, <3>1 DEF PartsNext
      <4>2. Logs!TailInv'
        BY <4>1, LogsWritten, LogsTailed, LogsLooped, LogsLate DEF Logs!LogInv, Logs!LogNext
      <4>3. QED
        BY <4>1, <4>2, LateKept DEF Logs!LogInv
    <3>2. QED
      BY <2>1, <3>1 DEF PartsNext
  <2>2. CASE UNCHANGED partVars
    <3>1. UNCHANGED <<part, s1, s2, s3, s4, s5, s6, s7, s8, s9, s10>>
      BY <2>2 DEF partVars, slots
    <3>2. QED
      BY <1>2, <3>1 DEF Logs!LogInv, Logs!TailInv, Logs!LateInv, Logs!OneBehind,
           Logs!LateIsNewer, Logs!LogTyped, Logs!FilesAscend, Logs!Written,
           Logs!Ascending, Logs!QuietWhenClosed, Logs!InOrder, Logs!UnreadIsNewer,
           Logs!Seen, Logs!Ordered, Logs!Below, Logs!Follows
  <2>3. QED
    BY <1>2, <2>1, <2>2
<1>3. Inv => ShownInOrder
  <2>1. ASSUME Logs!LogInv, ~s10 PROVE Logs!Ascending(s5)
    <3>1. Logs!Ordered(s5) /\ \A j \in DOMAIN s5 : s5[j] # 0
      BY <2>1, LogParts DEF Logs!LogInv, Logs!TailInv, Logs!InOrder, Logs!Seen
    <3>2. QED
      BY <3>1 DEF Logs!Ordered, Logs!Ascending
  <2>2. QED
    BY <2>1 DEF ShownInOrder, Logs!ShownInOrder
<1>4. QED
  BY <1>1, <1>2, <1>3, PTL DEF PartsSpec

(***************************************************************************)
(* PanelWizard.                                                            *)
(***************************************************************************)
\* The place of a step in the list, and the steps beside it.
LEMMA StepPlaces ==
    ASSUME NEW k \in DOMAIN Steps
    PROVE  /\ k \in Nat \ {0} /\ k <= Len(Steps) /\ Len(Steps) \in Nat
           /\ Steps[k] \in Wizard!ToSet(Steps)
           /\ Steps[k] = "res" <=> k = Len(Steps)
           /\ k # Len(Steps) => k + 1 \in DOMAIN Steps /\ Wizard!After(Steps[k]) = Steps[k + 1]
           /\ k # 1 => k - 1 \in DOMAIN Steps /\ Wizard!Before(Steps[k]) = Steps[k - 1]
           /\ Steps[k] # "review" /\ Steps[k] # "out" /\ Steps[k] # "detected"
<1> DEFINE Names == {"id", "git", "commit", "profile", "prefetch", "build", "run", "res"}
<1>1. /\ Steps \in Seq(Names) /\ Len(Steps) \in Nat /\ DOMAIN Steps = 1 .. Len(Steps)
      /\ Steps # <<>> /\ Steps[1] = "id" /\ Steps[Len(Steps)] = "res"
      /\ \A i, j \in DOMAIN Steps : Steps[i] = Steps[j] => i = j
  BY StepsAssumption
<1>2. k \in Nat \ {0} /\ k <= Len(Steps) /\ Steps[k] \in Names /\ Len(Steps) \in DOMAIN Steps
  BY <1>1
<1>3. Steps[k] \in Wizard!ToSet(Steps)
  BY DEF Wizard!ToSet
<1>4. Wizard!Number(Steps[k]) = k
  <2> DEFINE I == {i \in 1 .. Len(Steps) : Steps[i] = Steps[k]}
  <2>1. I = {k}
    BY <1>1
  <2>2. Wizard!Min({k}) = k
    BY <1>2 DEF Wizard!Min
  <2>3. Wizard!Number(Steps[k]) = IF I # {} THEN Wizard!Min(I) ELSE 0
    BY DEF Wizard!Number, Wizard!SelectInSeq
  <2> HIDE DEF I
  <2>4. QED
    BY <2>1, <2>2, <2>3
<1>5. Steps[k] = "res" <=> k = Len(Steps)
  BY <1>1, <1>2
<1>6. /\ k # Len(Steps) => k + 1 \in DOMAIN Steps /\ Wizard!After(Steps[k]) = Steps[k + 1]
  BY <1>1, <1>2, <1>4, <1>5 DEF Wizard!After
<1>7. Steps[k] # "review" /\ Steps[k] # "out" /\ Steps[k] # "detected"
  BY <1>2
<1>8. k # 1 => k - 1 \in DOMAIN Steps /\ Wizard!Before(Steps[k]) = Steps[k - 1]
  BY <1>1, <1>2, <1>4, <1>7 DEF Wizard!Before
<1>9. QED
  BY <1>1, <1>2, <1>3, <1>5, <1>6, <1>7, <1>8

\* The source comes before the profile, and what a profile presets behind it.
LEMMA SourceFirst ==
    ASSUME NEW k \in DOMAIN Steps, NEW i \in 1 .. k - 1,
           Steps[k] \in {"id", "git", "commit", "profile"}
    PROVE  i \in DOMAIN Steps /\ Steps[i] \in {"id", "git", "commit"}
<1>1. PICK p \in DOMAIN Steps :
         /\ Steps[p] = "profile"
         /\ \A j \in DOMAIN Steps : j < p <=> Steps[j] \in {"id", "git", "commit"}
  BY StepsAssumption
<1>2. i \in DOMAIN Steps /\ i < k /\ k \in Nat /\ i \in Nat /\ p \in Nat
  BY StepsAssumption
<1>3. k < p \/ k = p
  BY <1>1, StepsAssumption
<1>4. QED
  BY <1>1, <1>2, <1>3

\* The steps as values.
LEMMA StepSet ==
    /\ \A s \in Wizard!ToSet(Steps) : \E k \in DOMAIN Steps : s = Steps[k]
    /\ Steps[1] = "id" /\ 1 \in DOMAIN Steps
    /\ "id" \in Wizard!ToSet(Steps) /\ "res" \in Wizard!ToSet(Steps)
    /\ "profile" \in Wizard!ToSet(Steps)
    /\ Len(Steps) \in DOMAIN Steps /\ Steps[Len(Steps)] = "res"
    /\ "review" \notin Wizard!ToSet(Steps) /\ "out" \notin Wizard!ToSet(Steps)
    /\ "detected" \notin Wizard!ToSet(Steps)
<1>1. \A s \in Wizard!ToSet(Steps) : \E k \in DOMAIN Steps : s = Steps[k]
  BY DEF Wizard!ToSet
<1>2. /\ Steps[1] = "id" /\ Steps[Len(Steps)] = "res" /\ DOMAIN Steps = 1 .. Len(Steps)
      /\ Len(Steps) \in Nat /\ Steps # <<>> /\ \E k \in DOMAIN Steps : Steps[k] = "profile"
  BY StepsAssumption
<1>3. 1 \in DOMAIN Steps /\ Len(Steps) \in DOMAIN Steps
  BY <1>2, StepsAssumption
<1>4. QED
  BY <1>1, <1>2, <1>3, StepPlaces

\* A draft has a value for each step, and says whether it was detected.
DraftTyped(d) ==
    /\ d = [x \in Wizard!Fields |-> d[x]]
    /\ d["detected"] \in BOOLEAN
    /\ \A s \in Wizard!ToSet(Steps) : d[s] \in Wizard!Values

\* The empty draft, and one that a detection has filled.
LEMMA DraftsOpened ==
    /\ DraftTyped(Wizard!Empty)
    /\ \A s \in Wizard!ToSet(Steps) : Wizard!Empty[s] = "none"
    /\ \A p \in Wizard!Profiles : DraftTyped(Wizard!Found(p))
<1>1. \A s \in Wizard!ToSet(Steps) : s \in Wizard!Fields /\ s # "detected"
  BY StepSet DEF Wizard!Fields
<1>2. "detected" \in Wizard!Fields
  BY DEF Wizard!Fields
<1>3. /\ DraftTyped(Wizard!Empty)
      /\ \A s \in Wizard!ToSet(Steps) : Wizard!Empty[s] = "none"
  BY <1>1, <1>2 DEF DraftTyped, Wizard!Empty, Wizard!Values
<1>4. ASSUME NEW p \in Wizard!Profiles PROVE DraftTyped(Wizard!Found(p))
  <2> DEFINE d == Wizard!Found(p)
  <2>1. d = [x \in Wizard!Fields |-> d[x]] /\ d["detected"] = TRUE
    BY <1>2 DEF Wizard!Found
  <2>2. \A s \in Wizard!ToSet(Steps) : d[s] \in {"none", "set", p}
    BY <1>1 DEF Wizard!Found
  <2> HIDE DEF d
  <2>3. QED
    BY <2>1, <2>2 DEF DraftTyped, Wizard!Values, Wizard!Given, d
<1>5. QED
  BY <1>3, <1>4

\* An answer changes its own field.
LEMMA AnswerTaken ==
    ASSUME NEW d, DraftTyped(d), NEW s \in Wizard!ToSet(Steps), s # "profile",
           NEW a \in Wizard!Values
    PROVE  LET e == Wizard!Take(d, s, a) IN
           DraftTyped(e) /\ \A x \in Wizard!ToSet(Steps) \ {s} : e[x] = d[x]
<1> DEFINE e == [d EXCEPT ![s] = a]
<1>1. s \in Wizard!Fields /\ s # "detected" /\ "detected" \in Wizard!Fields
      /\ Wizard!ToSet(Steps) \subseteq Wizard!Fields
  BY StepSet DEF Wizard!Fields
<1>2. /\ e = [x \in Wizard!Fields |-> e[x]]
      /\ \A x \in Wizard!Fields : e[x] = IF x = s THEN a ELSE d[x]
  BY <1>1 DEF DraftTyped
<1>3. Wizard!Take(d, s, a) = e
  BY DEF Wizard!Take
<1> HIDE DEF e
<1>4. DraftTyped(e) /\ \A x \in Wizard!ToSet(Steps) \ {s} : e[x] = d[x]
  BY <1>1, <1>2 DEF DraftTyped
<1>5. QED
  BY <1>3, <1>4

\* The defaults of a profile leave the source alone.
LEMMA ProfileTaken ==
    ASSUME NEW d, DraftTyped(d), NEW p \in Wizard!Values
    PROVE  LET e == Wizard!Take(d, "profile", p) IN
           /\ DraftTyped(e)
           /\ \A x \in Wizard!ToSet(Steps) \cap {"id", "git", "commit"} : e[x] = d[x]
<1> DEFINE e == Wizard!ApplyProfile(d, p)
<1>1. /\ "detected" \in Wizard!Fields /\ "detected" \notin Wizard!ToSet(Steps)
      /\ Wizard!ToSet(Steps) \subseteq Wizard!Fields /\ DOMAIN d = Wizard!Fields
  BY StepSet DEF Wizard!Fields, DraftTyped
<1>2. /\ e = [x \in Wizard!Fields |-> e[x]] /\ e["detected"] = FALSE
      /\ \A x \in Wizard!ToSet(Steps) : e[x] \in {p, "none", "set", d[x]}
      /\ \A x \in Wizard!ToSet(Steps) \cap {"id", "git", "commit"} : e[x] = d[x]
  <2>1. e = [x \in Wizard!Fields |->
                CASE x = "profile" -> p
                  [] x = "prefetch" /\ p = "go" -> "none"
                  [] x \in Wizard!Lists \cup {"run", "res"} -> "set"
                  [] x = "detected" -> FALSE
                  [] OTHER -> d[x]]
    BY <1>1 DEF Wizard!ApplyProfile
  <2> HIDE DEF e
  <2>2. e = [x \in Wizard!Fields |-> e[x]]
    BY <2>1
  <2>3. e["detected"] = FALSE
    BY <1>1, <2>1 DEF Wizard!Lists
  <2>4. ASSUME NEW x \in Wizard!ToSet(Steps)
        PROVE  e[x] \in {p, "none", "set", d[x]}
    <3>1. /\ x \in Wizard!Fields /\ x # "detected"
          /\ e[x] = CASE x = "profile" -> p
                      [] x = "prefetch" /\ p = "go" -> "none"
                      [] x \in Wizard!Lists \cup {"run", "res"} -> "set"
                      [] x = "detected" -> FALSE
                      [] OTHER -> d[x]
      BY <1>1, <2>1
    <3>2. QED
      BY <3>1
  <2>5. ASSUME NEW x \in Wizard!ToSet(Steps) \cap {"id", "git", "commit"}
        PROVE  e[x] = d[x]
    BY <1>1, <2>1 DEF Wizard!Lists
  <2>6. QED
    BY <2>2, <2>3, <2>4, <2>5
<1> HIDE DEF e
<1>3. DraftTyped(e)
  BY <1>2 DEF DraftTyped, Wizard!Values, Wizard!Given
<1>4. Wizard!Take(d, "profile", p) = d \/ Wizard!Take(d, "profile", p) = e
  BY DEF Wizard!Take, e
<1>5. QED
  BY <1>2, <1>3, <1>4

\* The wizard stands at a step of the list, and what it has passed is sound.
LEMMA WizardAt ==
    ASSUME DraftTyped(s3'), s2' \in Wizard!Values, s4' \subseteq Wizard!ToSet(Steps),
           NEW k \in DOMAIN Steps, s1' = Steps[k],
           \A i \in 1 .. k - 1 : Wizard!Sound(Steps[i])'
    PROVE  Wizard!WizInv'
<1>1. s1' \in Wizard!ToSet(Steps) /\ s1' # "review"
  BY StepPlaces
<1>2. Wizard!WizTyped'
  BY <1>1 DEF Wizard!WizTyped, DraftTyped
<1>3. \A j \in DOMAIN Steps : Steps[j] = Steps[k] => j = k
  BY StepsAssumption
<1>4. Wizard!ConfirmedSoFar'
  BY <1>3 DEF Wizard!ConfirmedSoFar
<1>5. QED
  BY <1>1, <1>2, <1>4 DEF Wizard!WizInv, Wizard!ReviewAsConfirmed

\* The wizard is closed, or shows the review of what was confirmed.
LEMMA WizardElsewhere ==
    ASSUME DraftTyped(s3'), s2' \in Wizard!Values,
           \/ s1' = "out" /\ s4' \subseteq Wizard!ToSet(Steps)
           \/ s1' = "review" /\ s4' = Wizard!ToSet(Steps)
    PROVE  Wizard!WizInv'
<1>1. Wizard!WizTyped'
  BY DEF Wizard!WizTyped, DraftTyped
<1>2. Wizard!ConfirmedSoFar'
  BY StepPlaces DEF Wizard!ConfirmedSoFar
<1>3. QED
  BY <1>1, <1>2 DEF Wizard!WizInv, Wizard!ReviewAsConfirmed

\* What a change of the draft spares stays sound.
LEMMA SoundSpared ==
    ASSUME NEW s, Wizard!Sound(s), s3'[s] = s3[s], Wizard!Kept(s3') \subseteq s4'
    PROVE  Wizard!Sound(s)'
BY DEF Wizard!Sound, Wizard!Kept

\* Back and forth, refused or not, the wizard passes a step only with a sound
\* answer.
LEMMA WizardStep ==
    ASSUME Wizard!WizInv, Wizard!WizNext
    PROVE  Wizard!WizInv'
<1>1. /\ s1 \in Wizard!ToSet(Steps) \cup {"out", "review"} /\ s2 \in Wizard!Values
      /\ DraftTyped(s3) /\ s4 \subseteq Wizard!ToSet(Steps)
      /\ \A d : Wizard!Kept(d) \subseteq Wizard!ToSet(Steps)
  BY DEF Wizard!WizInv, Wizard!WizTyped, DraftTyped, Wizard!Kept
<1>2. \A k \in DOMAIN Steps : s1 = Steps[k] => \A i \in 1 .. k - 1 : Wizard!Sound(Steps[i])
  BY DEF Wizard!WizInv, Wizard!ConfirmedSoFar
<1>3. \A k \in DOMAIN Steps : \A i \in 1 .. k - 1 :
         /\ i \in DOMAIN Steps /\ i # k /\ Steps[i] \in Wizard!ToSet(Steps)
         /\ Steps[i] # Steps[k]
  <2>1. ASSUME NEW k \in DOMAIN Steps, NEW i \in 1 .. k - 1
        PROVE  i \in DOMAIN Steps /\ i # k
    BY StepsAssumption, <2>1
  <2>2. QED
    BY <2>1, StepsAssumption, StepPlaces
<1>4. CASE Wizard!OpenWizard
  <2>1. /\ s1' = Steps[1] /\ s4' = {} /\ s2' \in {"none", "set"}
        /\ s3' = Wizard!Empty \/ \E p \in Wizard!Profiles : s3' = Wizard!Found(p)
    BY <1>4, StepSet DEF Wizard!OpenWizard, Wizard!Open
  <2>2. DraftTyped(s3') /\ s2' \in Wizard!Values /\ 1 \in DOMAIN Steps
    BY <2>1, DraftsOpened, StepSet DEF Wizard!Values, Wizard!Given
  <2>3. \A i \in 1 .. 1 - 1 : Wizard!Sound(Steps[i])'
    OBVIOUS
  <2>4. QED
    BY <2>1, <2>2, <2>3, WizardAt
<1>5. CASE Wizard!Close \/ Wizard!Save
  BY <1>5, DraftsOpened, WizardElsewhere
     DEF Wizard!Close, Wizard!Save, Wizard!Values
<1>6. ASSUME NEW a \in {"none", "usr", "bad", "blank"} \cup Wizard!Profiles, Wizard!Type(a)
      PROVE  Wizard!WizInv'
  <2>1. /\ s1 \in Wizard!ToSet(Steps) /\ s2' = a /\ UNCHANGED <<s1, s3, s4>>
        /\ a \in Wizard!Values
    BY <1>6 DEF Wizard!Type, Wizard!Values, Wizard!Given
  <2>2. PICK k \in DOMAIN Steps : s1 = Steps[k]
    BY <2>1, StepSet
  <2>3. \A i \in 1 .. k - 1 : Wizard!Sound(Steps[i])'
    BY <1>2, <2>1, <2>2 DEF Wizard!Sound
  <2>4. QED
    BY <1>1, <2>1, <2>2, <2>3, WizardAt
<1>7. CASE Wizard!Enter
  <2> DEFINE d == Wizard!Take(s3, s1, s2)
  <2>1. /\ s1 \in Wizard!ToSet(Steps) /\ Wizard!Acceptable(s1, s2)
        /\ s1 = "res" => Wizard!Buildable(d)
        /\ s1' = Wizard!After(s1) /\ s2' = Wizard!Shown(Wizard!After(s1), d)
        /\ s3' = d /\ s4' = Wizard!Kept(d) \cup {s1}
    BY <1>7 DEF Wizard!Enter
  <2>2. PICK k \in DOMAIN Steps : s1 = Steps[k]
    BY <2>1, StepSet
  <2>3. /\ DraftTyped(d)
        /\ \A i \in 1 .. k - 1 : d[Steps[i]] = s3[Steps[i]]
    <3>1. CASE s1 = "profile"
      <4>1. /\ DraftTyped(d)
            /\ \A x \in Wizard!ToSet(Steps) \cap {"id", "git", "commit"} : d[x] = s3[x]
        BY <1>1, <3>1, ProfileTaken
      <4>2. \A i \in 1 .. k - 1 : Steps[i] \in Wizard!ToSet(Steps) \cap {"id", "git", "commit"}
        BY <1>3, <2>2, <3>1, SourceFirst
      <4>3. QED
        BY ONLY <4>1, <4>2
    <3>2. CASE s1 # "profile"
      <4>1. DraftTyped(d) /\ \A x \in Wizard!ToSet(Steps) \ {s1} : d[x] = s3[x]
        BY <1>1, <2>1, <3>2, AnswerTaken
      <4>2. QED
        BY <1>3, <2>2, <4>1
    <3>3. QED
      BY <3>1, <3>2
  <2>4. \A i \in 1 .. k - 1 : Wizard!Sound(Steps[i])'
    BY <1>2, <2>1, <2>2, <2>3, SoundSpared
  <2>5. s4' \subseteq Wizard!ToSet(Steps) /\ s1 \in s4'
    BY <1>1, <2>1
  <2> HIDE DEF d
  <2>6. CASE k = Len(Steps)
    <3>1. s1 = "res" /\ s1' = "review" /\ s2' \in Wizard!Values
      BY <2>1, <2>2, <2>6, StepPlaces DEF Wizard!After, Wizard!Shown, Wizard!Values
    <3>2. \A s \in Wizard!ToSet(Steps) \cap {"id", "git", "commit"} : d[s] \in Wizard!Given
      BY <2>1, <3>1 DEF Wizard!Buildable, Wizard!Lists
    <3>3. \A i \in 1 .. k - 1 : Steps[i] \in s4'
      BY <1>3, <2>1, <2>4, <3>2 DEF Wizard!Sound
    <3>4. \A j \in DOMAIN Steps : j = k \/ j \in 1 .. k - 1
      BY <2>6, StepPlaces
    <3>5. s4' = Wizard!ToSet(Steps)
      <4>1. \A j \in DOMAIN Steps : Steps[j] \in s4'
        BY <2>2, <2>5, <3>3, <3>4
      <4>2. Wizard!ToSet(Steps) \subseteq s4'
        BY <4>1, StepSet
      <4>3. QED
        BY <2>5, <4>2
    <3>6. QED
      BY <2>1, <2>3, <3>1, <3>5, WizardElsewhere
  <2>7. CASE k # Len(Steps)
    <3>1. k + 1 \in DOMAIN Steps /\ s1' = Steps[k + 1] /\ k \in Nat
      BY <2>1, <2>2, <2>7, StepPlaces
    <3>2. s1' \in Wizard!ToSet(Steps) /\ s1' # "review"
      BY <3>1, StepPlaces
    <3>3. s2' \in Wizard!Values
      BY <2>1, <2>3, <3>1, <3>2, StepPlaces
         DEF Wizard!Shown, DraftTyped, Wizard!Values, Wizard!Profiles
    <3>4. Wizard!Sound(Steps[k])'
      BY <2>2, <2>5 DEF Wizard!Sound
    <3>5. \A i \in 1 .. (k + 1) - 1 : i = k \/ i \in 1 .. k - 1
      BY <3>1
    <3>6. \A i \in 1 .. (k + 1) - 1 : Wizard!Sound(Steps[i])'
      BY <2>4, <3>4, <3>5
    <3>7. QED
      BY <2>1, <2>3, <2>5, <3>1, <3>3, <3>6, WizardAt
  <2>8. QED
    BY <2>6, <2>7
<1>8. CASE Wizard!EnterRefused
  <2>1. /\ s1 \in Wizard!ToSet(Steps) /\ s1' = s1 /\ s2' = s2 /\ s4' = Wizard!Kept(s3')
        /\ \/ s1 \in {"id", "git", "commit"} /\ s3' = Wizard!Empty
           \/ s3' = s3
           \/ s1 = "res" /\ s3' = Wizard!Take(s3, s1, s2)
    BY <1>8 DEF Wizard!EnterRefused
  <2>2. PICK k \in DOMAIN Steps : s1 = Steps[k]
    BY <2>1, StepSet
  <2>3. CASE s1 \in {"id", "git", "commit"} /\ s3' = Wizard!Empty
    <3>1. ASSUME NEW i \in 1 .. k - 1 PROVE Wizard!Sound(Steps[i])'
      <4>1. Steps[i] \in {"id", "git", "commit"} /\ Steps[i] \in Wizard!ToSet(Steps)
        BY <1>3, <2>2, <2>3, SourceFirst
      <4>2. s3'[Steps[i]] = "none"
        BY <2>3, <4>1, DraftsOpened
      <4>3. QED
        BY <4>1, <4>2 DEF Wizard!Sound, Wizard!Given
    <3>2. QED
      BY <1>1, <2>1, <2>2, <2>3, <3>1, DraftsOpened, WizardAt
  <2>4. CASE s3' = s3
    <3>1. \A i \in 1 .. k - 1 : Wizard!Sound(Steps[i])'
      BY <1>2, <2>1, <2>2, <2>4, SoundSpared
    <3>2. QED
      BY <1>1, <2>1, <2>2, <2>4, <3>1, WizardAt
  <2>5. CASE s1 = "res" /\ s3' = Wizard!Take(s3, s1, s2)
    <3>1. DraftTyped(s3') /\ \A x \in Wizard!ToSet(Steps) \ {s1} : s3'[x] = s3[x]
      BY <1>1, <2>1, <2>5, AnswerTaken
    <3>2. \A i \in 1 .. k - 1 : Wizard!Sound(Steps[i])'
      BY <1>2, <1>3, <2>1, <2>2, <3>1, SoundSpared
    <3>3. QED
      BY <1>1, <2>1, <2>2, <3>1, <3>2, WizardAt
  <2>6. QED
    BY <2>1, <2>3, <2>4, <2>5
<1>9. CASE Wizard!Esc
  <2>1. /\ s1 \in Wizard!ToSet(Steps) \cup {"review"} /\ s1 # "id"
        /\ s3' = IF s1 \in {"review", "profile"} THEN s3 ELSE [s3 EXCEPT ![s1] = s2]
        /\ s1' = Wizard!Before(s1) /\ s4' = Wizard!Kept(s3')
        /\ s2' = IF Wizard!Before(s1) = "profile" /\ s3'.profile \notin Wizard!Profiles
                 THEN "bun" ELSE s3'[Wizard!Before(s1)]
    BY <1>9 DEF Wizard!Esc
  <2>2. CASE s1 = "review"
    <3>1. s3' = s3 /\ s1' = "res" /\ s4' = Wizard!Kept(s3) /\ s2' = s3["res"]
      BY <2>1, <2>2 DEF Wizard!Before
    <3>2. s4' = Wizard!ToSet(Steps)
      BY <2>2, <3>1 DEF Wizard!WizInv, Wizard!ReviewAsConfirmed, Wizard!Kept
    <3>3. s2' \in Wizard!Values
      BY <1>1, <3>1, StepSet DEF DraftTyped
    <3>4. \A i \in 1 .. Len(Steps) - 1 : Wizard!Sound(Steps[i])'
      BY <1>3, <3>2, StepSet DEF Wizard!Sound
    <3>5. QED
      BY <1>1, <3>1, <3>2, <3>3, <3>4, StepSet, WizardAt
  <2>3. CASE s1 # "review"
    <3>1. PICK k \in DOMAIN Steps : s1 = Steps[k]
      BY <2>1, <2>3, StepSet
    <3>2. k # 1
      BY <2>1, <3>1, StepSet
    <3>3. k - 1 \in DOMAIN Steps /\ s1' = Steps[k - 1] /\ k \in Nat
      BY <2>1, <3>1, <3>2, StepPlaces
    <3>4. DraftTyped(s3') /\ \A x \in Wizard!ToSet(Steps) \ {s1} : s3'[x] = s3[x]
      <4>1. CASE s1 = "profile"
        BY <1>1, <2>1, <4>1
      <4>2. CASE s1 # "profile"
        <5>1. s3' = Wizard!Take(s3, s1, s2) /\ s1 \in Wizard!ToSet(Steps)
          BY <2>1, <2>3, <4>2 DEF Wizard!Take
        <5>2. QED
          BY <1>1, <4>2, <5>1, AnswerTaken
      <4>3. QED
        BY <4>1, <4>2
    <3>5. s2' \in Wizard!Values
      <4>1. s1' \in Wizard!ToSet(Steps) /\ s1' = Wizard!Before(s1)
        BY <2>1, <3>3, StepPlaces
      <4>2. s3'[s1'] \in Wizard!Values
        BY <3>4, <4>1 DEF DraftTyped
      <4>3. s2' = "bun" \/ s2' = s3'[s1']
        BY <2>1
      <4>4. QED
        BY <4>2, <4>3 DEF Wizard!Values, Wizard!Profiles
    <3>6. \A i \in 1 .. (k - 1) - 1 : i \in 1 .. k - 1
      BY <3>3
    <3>7. \A i \in 1 .. (k - 1) - 1 : Wizard!Sound(Steps[i])'
      BY <1>2, <1>3, <2>1, <3>1, <3>4, <3>6, SoundSpared
    <3>8. QED
      BY <1>1, <2>1, <3>3, <3>4, <3>5, <3>7, WizardAt
  <2>4. QED
    BY <2>2, <2>3
<1>10. QED
  BY <1>4, <1>5, <1>6, <1>7, <1>8, <1>9 DEF Wizard!WizNext

\* ReviewAsConfirmed (tui/mod.rs, tui/wizard.rs): whatever steps the wizard has,
\* in any order that asks the source before the profile and the rest behind it,
\* its review shows the answer last confirmed at each of them.
THEOREM ReviewSafety == PartsSpec => []ReviewAsConfirmed
<1> DEFINE Inv == part = "wizard" => Wizard!WizInv
<1>1. PartsInit => Inv
  <2>1. ASSUME Wizard!WizInit PROVE Wizard!WizInv
    BY <2>1, DraftsOpened, StepPlaces
       DEF Wizard!WizInit, Wizard!WizInv, Wizard!WizTyped, Wizard!ConfirmedSoFar,
           Wizard!ReviewAsConfirmed, DraftTyped, Wizard!Values
  <2>2. QED
    BY <2>1 DEF PartsInit
<1>2. ASSUME Inv, [PartsNext]_partVars PROVE Inv'
  <2>1. CASE PartsNext
    <3>1. CASE part = "wizard" /\ part' = part
      BY <1>2, <2>1, <3>1, WizardStep DEF PartsNext
    <3>2. QED
      BY <2>1, <3>1 DEF PartsNext
  <2>2. CASE UNCHANGED partVars
    <3>1. UNCHANGED <<part, s1, s2, s3, s4>>
      BY <2>2 DEF partVars, slots
    <3>2. QED
      BY <1>2, <3>1 DEF Wizard!WizInv, Wizard!WizTyped, Wizard!ConfirmedSoFar, Wizard!Sound,
           Wizard!ReviewAsConfirmed
  <2>3. QED
    BY <1>2, <2>1, <2>2
<1>3. Inv => ReviewAsConfirmed
  BY DEF ReviewAsConfirmed, Wizard!WizInv
<1>4. QED
  BY <1>1, <1>2, <1>3, PTL DEF PartsSpec
=============================================================================
