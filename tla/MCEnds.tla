------------------------------- MODULE MCEnds -------------------------------
(***************************************************************************)
(* What must end, and does under the fairness of the part it belongs to:   *)
(* the watchdog over a wedged panel, a fetch, a child under a deadline, a  *)
(* deploy's verdict on its unit, the answer of the static server.  The     *)
(* parts share no state: a behaviour is one of them, chosen at the start,  *)
(* and the others stay at one of their initial states.                     *)
(***************************************************************************)
EXTENDS Naturals

CONSTANTS
    Fetches, MaxRedirects, SlowRetries,     \* HttpFetch
    Grace, Budget, JobDelay,                \* UnitStart
    Clients                                 \* StaticServer

\* A queued job runs before the grace for it ends, and that before the budget.
ASSUME PollsAssumption ==
    /\ Grace \in Nat /\ Budget \in Nat /\ JobDelay \in Nat
    /\ JobDelay <= Grace /\ Grace <= Budget

VARIABLES
    part,
    at, paused, booted, moved, frozen, sampling, due,
    site, rq, cooling, env,
    caller, child, helper,
    mode, fate, pc, polls, svc, unit, gen, sock, app, poked,
    backlog, client, loop, reply

Watchdog == INSTANCE PanelWatchdog
Http == INSTANCE HttpFetch
Run == INSTANCE ChildKill
Unit == INSTANCE UnitStart
Server == INSTANCE StaticServer

wdVars == <<at, paused, booted, moved, frozen, sampling, due>>
httpVars == <<site, rq, cooling, env>>
killVars == <<caller, child, helper>>
unitVars == <<mode, fate, pc, polls, svc, unit, gen, sock, app, poked>>
serveVars == <<backlog, client, loop, reply>>
endVars == <<part, wdVars, httpVars, killVars, unitVars, serveVars>>

\* A part that is not chosen has one initial state.
EndsInit ==
    /\ part \in {"watchdog", "http", "run", "unit", "server"}
    /\ Watchdog!WdInit /\ Http!HttpInit /\ Run!KillInit /\ Unit!UnitInit
    /\ Server!ServeInit
    /\ part # "http" =>
          /\ \A f \in Fetches : site[f] = "serves" /\ rq[f].kind = "text"
          /\ env["proxy"] = "none"
    /\ part # "unit" => mode = "netns" /\ fate = "serves" /\ gen = "none"

EndsNext ==
    \/ /\ part = "watchdog" /\ Watchdog!WdNext
       /\ UNCHANGED <<part, httpVars, killVars, unitVars, serveVars>>
    \/ /\ part = "http" /\ Http!HttpNext
       /\ UNCHANGED <<part, wdVars, killVars, unitVars, serveVars>>
    \/ /\ part = "run" /\ Run!KillNext
       /\ UNCHANGED <<part, wdVars, httpVars, unitVars, serveVars>>
    \/ /\ part = "unit" /\ Unit!UnitNext
       /\ UNCHANGED <<part, wdVars, httpVars, killVars, serveVars>>
    \/ /\ part = "server" /\ Server!ServeNext
       /\ UNCHANGED <<part, wdVars, httpVars, killVars, unitVars>>

\* The fairness of each part, while it is the chosen one.
EndsFair ==
    /\ WF_wdVars(part = "watchdog" /\ Watchdog!Watch)
    /\ WF_wdVars(part = "watchdog" /\ Watchdog!Linger)
    /\ \A f \in Fetches :
        /\ WF_httpVars(part = "http" /\ Http!FetchStep(f))
        /\ WF_httpVars(part = "http" /\ Http!CooldownEnds(f))
        /\ \A h \in Http!Listed, n \in 0..MaxRedirects :
               SF_httpVars(part = "http" /\ rq[f].host = h /\ rq[f].hop = n
                           /\ Http!Answer(f))
    /\ WF_killVars(part = "run" /\ (Run!SeesExit \/ Run!Deadline))
    /\ WF_killVars(part = "run" /\ Run!GraceOver)
    /\ WF_killVars(part = "run" /\ Run!ReadsToEnd)
    /\ WF_killVars(part = "run" /\ Run!KillTakesEffect)
    /\ WF_unitVars(part = "unit" /\ Unit!DeploySteps)
    /\ WF_unitVars(part = "unit" /\ Unit!JobRuns)
    /\ WF_serveVars(part = "server" /\ Server!ServeLoop)
    /\ \A c \in Clients : WF_serveVars(part = "server" /\ Server!Drained(c))

EndsSpec == EndsInit /\ [][EndsNext]_endVars /\ EndsFair

(***************************************************************************)
(* Each property is stated, with the code it is about, in its own module.  *)
(***************************************************************************)
\* A panel wedged by a vanished terminal is ended (tui/mod.rs).
WedgedPanelEnds == part = "watchdog" => Watchdog!WedgedPanelEnds

\* A request whose redirects stay on the list ends once the link stays up, and
\* the system resolver if it is led back to a host (httpclient.rs, resolver.rs).
FetchEnds == part = "http" => Http!FetchEnds

\* A child under a deadline returns to its caller, unless a process it has
\* started lives on and holds its pipes (gitclone.rs, prefetch.rs).
KilledRunsReturn == part = "run" => Run!KilledRunsReturn

\* A deploy reaches its verdict on the unit, and a failed one leaves nothing of
\* it running (units.rs, deploy.rs).
StartEnds == part = "unit" => Unit!StartEnds

\* Whoever connects to the static server is answered (serve.rs).
ConnectedIsAnswered == part = "server" => Server!ConnectedIsAnswered

\* A verdict of the deploy on its unit is neither too early nor too kind
\* (units.rs, port.rs).
VerdictsAreRight == [][part = "unit" => Unit!VerdictStep]_endVars
=============================================================================
