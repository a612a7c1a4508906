---------------------------- MODULE EgressPolicy ----------------------------
(***************************************************************************)
(* A service's outbound policy, from the hosts its own settings declare    *)
(* (hoster/egress_detect.rs), through the list a deploy opens and resolves *)
(* (hoster/deploy.rs) into the unit's filter (hoster/units.rs), to the     *)
(* verdict a live check reports (hoster/egress.rs).                        *)
(*                                                                         *)
(* The name service answers differently from one call to the next, the     *)
(* network comes and goes, and the kernel may or may not enforce filters.  *)
(***************************************************************************)
EXTENDS Naturals, Sequences, SequencesExt, FiniteSets

CONSTANTS Core, Niche,    \* hosts of general engines and of the others
          Controls,       \* the control candidates, a sequence
          MaxHosts,       \* the cap on a list (8 in the code)
          MaxEngines      \* entries a settings file holds

Hosts == Core \cup Niche
Named == Hosts \cup ToSet(Controls)

Engines == [host : Hosts, off : BOOLEAN]
Settings == UNION {[1 .. n -> Engines] : n \in 0 .. MaxEngines}

NoControl == "no control"
NoUnit == [kind |-> "none", ips |-> {}]

VARIABLES
  engines,   \* what the settings file of the tree declares, in order
  allow,     \* the manifest's list, a sequence
  mayFill,   \* the manifest never chose a list
  plan,      \* the hosts the detection proposed
  asked,     \* how many of them were looked up
  kept,      \* those that resolved when asked one by one
  pc,        \* the deploy: "detect", "filter", "resolve", "unit", "done", "failed"
  unit,      \* the policy the running unit carries
  enforces,  \* the kernel can load a unit's address filter
  starved,   \* the host has no free local address to connect from
  check,     \* the live check: its stage, the filter of its probe, its beats
  verdict

egressVars ==
  <<engines, allow, mayFill, plan, asked, kept, pc, unit, enforces, starved, check, verdict>>

-----------------------------------------------------------------------------
\* Mutation: the cap is applied before the order, in that of the file.
CapFileOrder(es) ==
  LET on == SelectSeq(es, LAMBDA e : ~e.off)
  IN [i \in 1 .. (IF Len(on) < MaxHosts THEN Len(on) ELSE MaxHosts) |-> on[i].host]

\* The entries that count: not switched off, a repeated host for the first time.
Declared(es) ==
  {i \in DOMAIN es : ~es[i].off /\ \A j \in 1 .. i - 1 : ~es[j].off => es[j].host # es[i].host}

\* The stable sort by rank: general engines first, each rank in the order of the file.
Ahead(es, i, j) ==
  \/ es[i].host \in Core /\ es[j].host \notin Core
  \/ (es[i].host \in Core <=> es[j].host \in Core) /\ i < j

Place(es, i) == Cardinality({j \in Declared(es) : Ahead(es, j, i)}) + 1

\* Their hosts in that order, up to the cap.
detect_egress(es) ==
  LET n == Cardinality(Declared(es))
  IN [k \in 1 .. (IF n < MaxHosts THEN n ELSE MaxHosts) |->
        es[CHOOSE i \in Declared(es) : Place(es, i) = k].host]

\* The first candidate the list does not hold: without one nothing is proved.
control_host(list) ==
  LET free == SelectSeq(Controls, LAMBDA c : c \notin ToSet(list))
  IN IF free = <<>> THEN NoControl ELSE Head(free)

NoCheck == [stage |-> "idle", control |-> NoControl, list |-> <<>>, beats |-> <<>>]

EgressInit ==
  /\ \/ mayFill = TRUE /\ allow = <<>> /\ engines \in Settings
     \/ mayFill = FALSE /\ engines = <<>> /\ allow \in {<<>>} \cup {<<h>> : h \in Named} \cup {Controls}
  /\ plan = <<>> /\ asked = 0 /\ kept = <<>>
  /\ pc = "detect"
  /\ unit = NoUnit
  /\ enforces \in BOOLEAN
  /\ starved = FALSE
  /\ check = NoCheck
  /\ verdict = "none"

\* An untouched list takes what the tree declares; a chosen one stays.
DetectPlan ==
  /\ pc = "detect"
  /\ plan' = IF mayFill THEN detect_egress(engines) ELSE <<>>
  /\ kept' = IF mayFill THEN <<>> ELSE allow
  /\ pc' = "filter"
  /\ UNCHANGED <<engines, allow, mayFill, asked, unit, enforces, starved, check, verdict>>

\* Each proposed host is looked up on its own; one that does not resolve is
\* dropped with a warning.
FilterOne ==
  /\ pc = "filter"
  /\ asked < Len(plan)
  /\ \E resolves \in BOOLEAN :
       kept' = IF resolves THEN Append(kept, plan[asked + 1]) ELSE kept
  /\ asked' = asked + 1
  /\ UNCHANGED <<engines, allow, mayFill, plan, pc, unit, enforces, starved, check, verdict>>

\* The whole list is looked up again: one failure fails the deploy.
ResolveAll ==
  /\ pc = "filter"
  /\ asked = Len(plan)
  /\ \/ pc' = "unit"
     \/ kept # <<>> /\ pc' = "failed"
  /\ UNCHANGED <<engines, allow, mayFill, plan, asked, kept, unit, enforces, starved, check,
                 verdict>>

\* An empty list is a private network namespace, any other an address filter;
\* a list that was filled is written to the manifest when the deploy ends.
CreateUnit ==
  /\ pc = "unit"
  /\ unit' = IF kept = <<>> THEN [kind |-> "netns", ips |-> {}]
             ELSE [kind |-> "filter", ips |-> ToSet(kept)]
  /\ allow' = IF mayFill THEN kept ELSE allow
  /\ mayFill' = (mayFill /\ kept = <<>>)
  /\ pc' = "done"
  /\ UNCHANGED <<engines, plan, asked, kept, enforces, starved, check, verdict>>

-----------------------------------------------------------------------------
\* The user asks for a live check of the stored list, which resolves it anew
\* for the probe's own unit; a failure ends it unverified.
StartCheck ==
  /\ pc = "done"
  /\ check.stage = "idle"
  /\ \/ /\ check' = [stage |-> "probe", control |-> control_host(allow), list |-> allow,
                     beats |-> <<>>]
        /\ verdict' = "none"
     \/ /\ UNCHANGED check
        /\ verdict' = "unverified"
  /\ UNCHANGED <<engines, allow, mayFill, plan, asked, kept, pc, unit, enforces, starved>>

Probed == (IF check.control = NoControl THEN <<>> ELSE <<check.control>>) \o check.list

\* What one connection attempt reports: the filter refuses what the list does
\* not hold; a host without a local address refuses too; otherwise the far end
\* answers, or nothing comes of it (no name, no network, nobody there).
probe_host(h) ==
  IF starved THEN {"blocked"}
  ELSE IF enforces /\ h \notin ToSet(check.list) THEN {"blocked", "failed"}
  ELSE {"open", "failed"}

ProbeBeat ==
  /\ check.stage = "probe"
  /\ Len(check.beats) < Len(Probed)
  /\ LET h == Probed[Len(check.beats) + 1]
     IN \E status \in probe_host(h) :
          check' = [check EXCEPT !.beats =
                      Append(@, [host |-> h, status |-> status, starved |-> starved])]
  /\ UNCHANGED <<engines, allow, mayFill, plan, asked, kept, pc, unit, enforces, starved,
                 verdict>>

\* Mutation: a host the probe did not reach counts as blocked.
BeatAssumed(h) ==
  IF \E i \in DOMAIN check.beats : check.beats[i].host = h /\ check.beats[i].status = "open"
  THEN "open" ELSE "blocked"

\* The first beat of the host, of a repeated one too.
Beat(h) == LET seen == {i \in DOMAIN check.beats : check.beats[i].host = h}
           IN IF seen = {} THEN "failed" ELSE check.beats[Min(seen)].status

\* The verdict: loopback, then the control beat, then every allowed host.
interpret_probe(loopback) ==
  IF ~loopback THEN "unverified"
  ELSE IF check.control # NoControl /\ Beat(check.control) = "open" THEN "open"
  ELSE IF check.control # NoControl /\ Beat(check.control) # "blocked" THEN "unverified"
  ELSE IF \E h \in ToSet(check.list) : Beat(h) # "open" THEN "unverified"
  ELSE "enforced"

Interpret ==
  /\ check.stage = "probe"
  /\ \E cut, loopback \in BOOLEAN :
       /\ ~cut => Len(check.beats) = Len(Probed)
       /\ verdict' = interpret_probe(loopback)
  /\ check' = [check EXCEPT !.stage = "done"]
  /\ UNCHANGED <<engines, allow, mayFill, plan, asked, kept, pc, unit, enforces, starved>>

\* The host runs out of local addresses, or has some again.
Starve ==
  /\ check.stage = "probe"
  /\ starved' = ~starved
  /\ UNCHANGED <<engines, allow, mayFill, plan, asked, kept, pc, unit, enforces, check, verdict>>

EgressNext ==
  \/ DetectPlan \/ FilterOne \/ ResolveAll \/ CreateUnit
  \/ StartCheck \/ ProbeBeat \/ Interpret \/ Starve

EgressSpec == EgressInit /\ [][EgressNext]_egressVars

-----------------------------------------------------------------------------
(* Properties *)

\* "Blocked, filter enforced" is said only of a filter that stopped the control
\* host: a network that was down, a name that did not resolve, a host nobody
\* answers on or a probe cut short never reads as locked.  (A host out of local
\* addresses reports the same refusal, and with every control allowed nothing
\* was tried: those two cases are excepted.)
LockedIsProved ==
  verdict = "enforced" =>
    \/ enforces
    \/ check.control = NoControl
    \/ \E i \in DOMAIN check.beats : check.beats[i].starved

\* The cap costs the niche engines first and opens nothing the file switched
\* off: a host is left out only for hosts of at least its own rank.
CoreSurvivesTheCap ==
  plan # <<>> =>
    LET wanted == {engines[i].host : i \in {j \in DOMAIN engines : ~engines[j].off}}
        left == wanted \ ToSet(plan)
    IN /\ ToSet(plan) \subseteq wanted
       /\ left \cap Core # {} => ToSet(plan) \subseteq Core

(***************************************************************************)
(* Why CoreSurvivesTheCap holds: a plan is made once, of the settings that *)
(* were there from the start.                                              *)
(***************************************************************************)
PlanIsDetected ==
  /\ engines \in Seq(Engines)
  /\ plan \in {<<>>, detect_egress(engines)}

(***************************************************************************)
(* Why LockedIsProved holds: an inductive strengthening.  Nothing but the  *)
(* filter, or a want of local addresses the beat records, refuses.         *)
(***************************************************************************)
BlockedIsFiltered ==
  \A i \in DOMAIN check.beats :
    check.beats[i].status = "blocked" => enforces \/ check.beats[i].starved

CheckTyped ==
  /\ check \in [stage : {"idle", "probe", "done"}, control : {check.control},
                list : {check.list}, beats : {check.beats}]
  /\ check.beats \in Seq(Range(check.beats))

EgressInv == CheckTyped /\ BlockedIsFiltered /\ LockedIsProved
=============================================================================
