----------------------------- MODULE EndsProofs ------------------------------
(***************************************************************************)
(* Why a deploy's verdict on the unit it has started is right (UnitStart), *)
(* for any numbers of polls.  The inductive invariant is stated, and its   *)
(* parts explained, beside the property in that module.                    *)
(***************************************************************************)
EXTENDS MCEnds, TLAPS

\* A replacement begins with the old instance running or with none.
LEMMA UnitStarts ==
    ASSUME Unit!UnitInit
    PROVE  Unit!UnitInv
BY DEF Unit!UnitInit, Unit!UnitInv, Unit!OldOnlyIfPoked, Unit!GapMeansCrash,
   Unit!StartedBefore

\* What the manager, the app and a client do decides nothing, and starts the old
\* unit's process again only where a client has asked for it.
LEMMA UnitBeside ==
    ASSUME Unit!UnitInv,
           Unit!JobRuns \/ Unit!Restarted \/ Unit!ClientConnects \/ Unit!AppSteps
    PROVE  Unit!UnitInv' /\ Unit!VerdictStep
<1> USE DEF Unit!UnitInv, Unit!OldOnlyIfPoked, Unit!GapMeansCrash, Unit!StartedBefore
<1>1. CASE Unit!JobRuns
  <2>1. /\ svc = "queued" /\ svc' = "active" /\ gen' = unit
        /\ UNCHANGED <<pc, polls, unit, sock, poked>>
    BY <1>1 DEF Unit!JobRuns, Unit!Launched
  <2>2. QED
    BY <2>1 DEF Unit!VerdictStep
<1>2. CASE Unit!Restarted
  <2>1. /\ svc = "gap" /\ svc' = "active" /\ gen' = unit
        /\ UNCHANGED <<pc, polls, unit, sock, poked>>
    BY <1>2 DEF Unit!Restarted, Unit!Launched
  <2>2. QED
    BY <2>1 DEF Unit!VerdictStep
<1>3. CASE Unit!ClientConnects
  <2>1. /\ sock = "on" /\ svc = "inactive" /\ svc' = "active" /\ gen' = unit
        /\ poked' = (poked \/ pc \in {"stopsock", "undosock"})
        /\ UNCHANGED <<pc, polls, unit, sock>>
    BY <1>3 DEF Unit!ClientConnects, Unit!Launched
  <2>2. QED
    BY <2>1 DEF Unit!VerdictStep
<1>4. CASE Unit!AppSteps
  <2>1. /\ svc = "active" /\ svc' \in {"active", "gap"}
        /\ svc' = "gap" => Unit!Fate = "crashes"
        /\ UNCHANGED <<fate, pc, polls, unit, gen, sock, poked>>
    BY <1>4 DEF Unit!AppSteps, Unit!plan
  <2>2. Unit!Fate' = Unit!Fate
    BY <2>1 DEF Unit!Fate
  <2>3. QED
    BY <2>1, <2>2 DEF Unit!VerdictStep
<1>5. QED
  BY <1>1, <1>2, <1>3, <1>4

\* What the deploy does up to the start leaves no old instance behind.
LEMMA UnitReplaced ==
    ASSUME Unit!UnitInv,
           \/ Unit!StopService \/ Unit!StopSocket \/ Unit!create_unit \/ Unit!StartSocket
           \/ Unit!StartService \/ Unit!UndoService \/ Unit!UndoSocket
    PROVE  Unit!UnitInv' /\ Unit!VerdictStep
<1>1. Unit!UnitInv'
  <2> USE DEF Unit!UnitInv, Unit!OldOnlyIfPoked, Unit!GapMeansCrash, Unit!StartedBefore,
              Unit!Fate, Unit!plan
  <2>1. CASE Unit!StopService \/ Unit!UndoService
    BY <2>1 DEF Unit!StopService, Unit!UndoService, Unit!Stopped
  <2>2. CASE Unit!StopSocket \/ Unit!UndoSocket
    BY <2>2 DEF Unit!StopSocket, Unit!UndoSocket
  <2>3. CASE Unit!create_unit
    BY <2>3 DEF Unit!create_unit
  <2>4. CASE Unit!StartSocket
    BY <2>4 DEF Unit!StartSocket
  <2>5. CASE Unit!StartService
    BY <2>5 DEF Unit!StartService
  <2>6. QED
    BY <2>1, <2>2, <2>3, <2>4, <2>5
<1>2. pc' # "ok" /\ pc # "poll"
  BY DEF Unit!StopService, Unit!StopSocket, Unit!create_unit, Unit!StartSocket,
     Unit!StartService, Unit!UndoService, Unit!UndoSocket
<1>3. QED
  BY <1>1, <1>2 DEF Unit!VerdictStep

\* A poll gives up on no service that its manager has yet to start, and none
\* that serves.
LEMMA UnitPolled ==
    ASSUME Unit!UnitInv, Unit!Poll
    PROVE  Unit!UnitInv' /\ Unit!VerdictStep
<1>1. /\ pc = "poll" /\ polls \in Nat /\ svc \in {"queued", "active", "gap"}
      /\ svc = "queued" => polls < JobDelay
      /\ UNCHANGED <<mode, fate, svc, unit, gen, sock, app, poked>>
  BY DEF Unit!UnitInv, Unit!StartedBefore, Unit!Poll, Unit!plan
<1>2. CASE svc = "active"
  <2>1. pc' = "probe" /\ polls' = 0
    BY <1>1, <1>2 DEF Unit!Poll, Unit!GoTo
  <2>2. QED
    BY <1>1, <1>2, <2>1 DEF Unit!UnitInv, Unit!OldOnlyIfPoked, Unit!GapMeansCrash,
       Unit!StartedBefore, Unit!VerdictStep
<1>3. CASE svc = "queued"
  <2>1. polls < Grace /\ polls < Budget
    BY <1>1, <1>3, PollsAssumption
  <2>2. pc' = "poll" /\ polls' = polls + 1
    BY <1>1, <1>3, <2>1, PollsAssumption DEF Unit!Poll, Unit!Again
  <2>3. QED
    BY <1>1, <1>3, <2>2 DEF Unit!UnitInv, Unit!OldOnlyIfPoked, Unit!GapMeansCrash,
       Unit!StartedBefore, Unit!VerdictStep
<1>4. CASE svc = "gap"
  <2>1. /\ pc' \in {"poll", "undo"} /\ polls' \in Nat
    BY <1>1, <1>4, PollsAssumption DEF Unit!Poll, Unit!Again, Unit!GoTo
  <2>2. Unit!Fate = "crashes" /\ Unit!Fate' = Unit!Fate
    BY <1>1, <1>4 DEF Unit!UnitInv, Unit!GapMeansCrash, Unit!Fate
  <2>3. QED
    BY <1>1, <1>4, <2>1, <2>2 DEF Unit!UnitInv, Unit!OldOnlyIfPoked, Unit!GapMeansCrash,
       Unit!StartedBefore, Unit!VerdictStep
<1>5. QED
  BY <1>1, <1>2, <1>3, <1>4

\* What answers a probe, or is adopted on another port, is the new app.
LEMMA UnitProbed ==
    ASSUME Unit!UnitInv, Unit!Probe \/ Unit!discover_unit_port
    PROVE  Unit!UnitInv' /\ Unit!VerdictStep
<1>1. /\ pc \in {"probe", "adopt"} /\ pc' \in {"probe", "adopt", "ok", "undo"}
      /\ polls' \in Nat
      /\ UNCHANGED <<mode, fate, svc, unit, gen, sock, app, poked>>
  BY DEF Unit!UnitInv, Unit!Probe, Unit!discover_unit_port, Unit!GoTo, Unit!Again, Unit!plan
<1>2. svc \in {"active", "gap"} /\ (~poked => gen = "new")
  BY <1>1 DEF Unit!UnitInv, Unit!StartedBefore, Unit!OldOnlyIfPoked
<1>3. pc' = "ok" => /\ svc = "active" => app \in {"serving", "elsewhere"} \/ gen = "old"
                    /\ svc = "gap" => mode = "netns"
  BY <1>1, <1>2
     DEF Unit!Probe, Unit!discover_unit_port, Unit!GoTo, Unit!Again, Unit!Answers,
         Unit!TunnelHeld, Unit!PortOpen, Unit!Adopts
<1>4. Unit!VerdictStep
  BY <1>1, <1>2, <1>3 DEF Unit!VerdictStep
<1>5. Unit!UnitInv'
  BY <1>1, <1>2 DEF Unit!UnitInv, Unit!OldOnlyIfPoked, Unit!GapMeansCrash,
     Unit!StartedBefore, Unit!Fate
<1>6. QED
  BY <1>4, <1>5

\* A verdict of the deploy on its unit is neither too early nor too kind,
\* however often the app crashes and a client comes (units.rs, port.rs).
THEOREM VerdictSafety == EndsSpec => VerdictsAreRight
<1> DEFINE Inv == part = "unit" => Unit!UnitInv
<1>1. EndsInit => Inv
  BY UnitStarts DEF EndsInit
<1>2. Inv /\ [EndsNext]_endVars => Inv' /\ [part = "unit" => Unit!VerdictStep]_endVars
  <2>1. ASSUME Inv, EndsNext PROVE Inv' /\ (part = "unit" => Unit!VerdictStep)
    BY <2>1, UnitBeside, UnitReplaced, UnitPolled, UnitProbed
       DEF EndsNext, Unit!UnitNext, Unit!DeploySteps
  <2>2. ASSUME Inv, UNCHANGED endVars PROVE Inv'
    BY <2>2 DEF endVars, unitVars, Unit!UnitInv, Unit!OldOnlyIfPoked,
                Unit!GapMeansCrash, Unit!StartedBefore, Unit!Fate
  <2>3. QED
    BY <2>1, <2>2
<1>3. QED
  BY <1>1, <1>2, PTL DEF EndsSpec, VerdictsAreRight
=============================================================================
