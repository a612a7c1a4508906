------------------------------ MODULE UnitStart ------------------------------
(***************************************************************************)
(* A service replaced by a new one: the old instance stopped, the unit and *)
(* its .socket written and started (hoster/units.rs), the start polled and *)
(* the port probed (hoster/port.rs), or everything rolled back             *)
(* (hoster/deploy.rs).  Beside it the user manager, which runs queued jobs *)
(* and restarts what exits, a client of the service, and the shim          *)
(* (hoster/shim.rs) in front of an app without network.                    *)
(***************************************************************************)
EXTENDS Naturals

CONSTANTS
    Grace, Budget,      \* polls before the first verdict, and in all
    JobDelay            \* polls that the manager may take to run a queued job

VARIABLES
    mode,       \* of the new unit: "netns" (private network, socket) or "filter"
    fate,       \* what the new app does: "serves", "crashes", "elsewhere", "mute"
    pc, polls,  \* of the deploy
    svc,        \* the service: "inactive", "queued", "active", "gap" (to be restarted)
    unit, gen,  \* the unit file, and the one that the process was started from
    sock,       \* the .socket: "off" or "on"
    app,        \* "down", "starting", "serving" or "elsewhere"
    poked       \* history: a client has started the service again between two stops

unitVars == <<mode, fate, pc, polls, svc, unit, gen, sock, app, poked>>

UnitInit ==
    /\ mode \in {"netns", "filter"}
    /\ fate \in {"serves", "crashes", "elsewhere", "mute"}
    /\ pc = "stop" /\ polls = 0 /\ poked = FALSE
    /\ \E old \in {"none", "netns", "filter"} :
           /\ svc = IF old = "none" THEN "inactive" ELSE "active"
           /\ gen = IF old = "none" THEN "none" ELSE "old"
           /\ unit = gen
           /\ app = IF old = "none" THEN "down" ELSE "serving"
           /\ sock = IF old = "netns" THEN "on" ELSE "off"

plan == <<mode, fate>>
Stopped == svc' = "inactive" /\ app' = "down" /\ gen' = "none"

(***************************************************************************)
(* The user manager, the app and a client.                                 *)
(***************************************************************************)
Launched == svc' = "active" /\ gen' = unit /\ app' = "starting"

JobRuns ==
    /\ svc = "queued"
    /\ Launched
    /\ UNCHANGED <<plan, pc, polls, unit, sock, poked>>

\* Restart=always, RestartSec=5.
Restarted ==
    /\ svc = "gap"
    /\ Launched
    /\ UNCHANGED <<plan, pc, polls, unit, sock, poked>>

\* A connection starts a service whose socket listens.
ClientConnects ==
    /\ sock = "on" /\ svc = "inactive"
    /\ Launched
    /\ poked' = (poked \/ pc \in {"stopsock", "undosock"})
    /\ UNCHANGED <<plan, pc, polls, unit, sock>>

Fate == IF gen = "old" THEN "serves" ELSE fate
AppSteps ==
    /\ svc = "active" /\ app = "starting"
    /\ CASE Fate = "crashes" -> svc' = "gap" /\ app' = "down"
         [] Fate = "serves" -> app' = "serving" /\ UNCHANGED svc
         [] Fate = "elsewhere" -> app' = "elsewhere" /\ UNCHANGED svc
         [] OTHER -> FALSE
    /\ UNCHANGED <<plan, pc, polls, unit, gen, sock, poked>>

(***************************************************************************)
(* The deploy.                                                             *)
(***************************************************************************)
\* stop_existing: the service, then its socket.
StopService ==
    /\ pc = "stop" /\ pc' = "stopsock"
    /\ Stopped
    /\ UNCHANGED <<plan, polls, unit, sock, poked>>

StopSocket ==
    /\ pc = "stopsock" /\ pc' = "create"
    /\ sock' = "off"
    /\ UNCHANGED <<plan, polls, svc, unit, gen, app, poked>>

\* A free port, the unit file, and the .socket file of the mode.
create_unit ==
    /\ pc = "create"
    /\ unit' = "new"
    /\ pc' = IF mode = "netns" THEN "startsock" ELSE "start"
    /\ UNCHANGED <<plan, polls, svc, gen, sock, app, poked>>

\* start_unit: a socket is refused while its service runs without it.
StartSocket ==
    /\ pc = "startsock"
    /\ \/ svc = "inactive" /\ sock' = "on" /\ pc' = "start"
       \/ svc # "inactive" /\ pc' = "undo" /\ UNCHANGED sock
    /\ UNCHANGED <<plan, polls, svc, unit, gen, app, poked>>

StartService ==
    /\ pc = "start" /\ pc' = "poll"
    /\ svc' = IF svc = "inactive" THEN "queued" ELSE svc
    /\ UNCHANGED <<plan, polls, unit, gen, sock, app, poked>>

Again == polls' = polls + 1 /\ UNCHANGED pc
GoTo(p) == pc' = p /\ polls' = 0

\* Mutation: the first inactive poll is taken for a crash.
PollHasty ==
    /\ pc = "poll"
    /\ svc = "queued" => polls < JobDelay
    /\ CASE svc = "active" -> GoTo("probe")
         [] svc \in {"inactive", "queued"} -> GoTo("undo")
         [] svc # "active" /\ polls >= Budget -> GoTo("undo")
         [] OTHER -> Again
    /\ UNCHANGED <<plan, svc, unit, gen, sock, app, poked>>

\* wait_until_active: a job that has not run reads as inactive.
Poll ==
    /\ pc = "poll"
    /\ svc = "queued" => polls < JobDelay
    /\ CASE svc = "active" -> GoTo("probe")
         [] svc \in {"inactive", "queued"} /\ polls >= Grace -> GoTo("undo")
         [] svc # "active" /\ polls >= Budget -> GoTo("undo")
         [] OTHER -> Again
    /\ UNCHANGED <<plan, svc, unit, gen, sock, app, poked>>

\* wait_until_port_open connects; wait_until_tunnel_open also waits for an EOF,
\* which comes from a running shim only: a connection that nobody has accepted
\* yet is held by the socket.
PortOpen == svc = "active" /\ app = "serving" /\ gen = "new"
TunnelHeld == sock = "on" /\ (svc = "active" => app = "serving")
Answers == IF mode = "netns" THEN TunnelHeld ELSE PortOpen

Probe ==
    /\ pc = "probe"
    /\ CASE Answers -> GoTo("ok")
         [] ~Answers /\ polls < Budget -> Again
         [] OTHER -> GoTo("adopt")
    /\ UNCHANGED <<plan, svc, unit, gen, sock, app, poked>>

\* discover_unit_port: the processes of the unit listen on another port.  A shim
\* of the old unit that a client has started listens on the old one.
Adopts == mode = "filter" /\ svc = "active" /\ (app = "elsewhere" \/ gen = "old")
discover_unit_port ==
    /\ pc = "adopt"
    /\ GoTo(IF Adopts THEN "ok" ELSE "undo")
    /\ UNCHANGED <<plan, svc, unit, gen, sock, app, poked>>

\* rollback_failed, remove_unit: the service, its socket, the files.
UndoService ==
    /\ pc = "undo" /\ pc' = "undosock"
    /\ Stopped
    /\ UNCHANGED <<plan, polls, unit, sock, poked>>

\* Mutation: the socket of a failed deploy is left on.
UndoFilesOnly ==
    /\ pc = "undosock" /\ pc' = "failed"
    /\ unit' = "none"
    /\ UNCHANGED <<plan, polls, svc, gen, sock, app, poked>>

UndoSocket ==
    /\ pc = "undosock" /\ pc' = "failed"
    /\ sock' = "off" /\ unit' = "none"
    /\ UNCHANGED <<plan, polls, svc, gen, app, poked>>

DeploySteps ==
    \/ StopService \/ StopSocket \/ create_unit \/ StartSocket \/ StartService
    \/ Poll \/ Probe \/ discover_unit_port \/ UndoService \/ UndoSocket
UnitNext == JobRuns \/ Restarted \/ ClientConnects \/ AppSteps \/ DeploySteps
UnitSpec == UnitInit /\ [][UnitNext]_unitVars
UnitFair == WF_unitVars(DeploySteps) /\ WF_unitVars(JobRuns)

\* A deploy that reports success has met an app of the unit it installed, unless
\* a client has started the old instance between the two stops, or the tunnel
\* was probed in the pause before a restart (port.rs:53-60, deploy.rs:934-943);
\* and "a healthy unit whose first is-active poll wins the race is not miscounted
\* as a crash" (deploy.rs:905-907, units.rs:560-565).
VerdictStep ==
    /\ pc # "ok" /\ pc' = "ok" =>
          \/ gen = "new" /\ app \in {"serving", "elsewhere"}
          \/ poked
          \/ mode = "netns" /\ svc = "gap"
    /\ pc = "poll" /\ pc' = "undo" => Fate # "serves"

\* However the app behaves, the deploy gets to its verdict, and a failed one
\* leaves no process of the service and no listener, unless a client has woken
\* it during the removal (units.rs:598-600).
StartEnds ==
    <>(\/ pc = "ok"
       \/ pc = "failed" /\ sock = "off" /\ (svc = "inactive" \/ poked))

(***************************************************************************)
(* Why VerdictStep holds: an inductive strengthening.                      *)
(***************************************************************************)
\* Nothing runs between the two stops and the new unit's start, and what runs
\* from then on was started from it, unless a client has woken the old one.
OldOnlyIfPoked ==
    ~poked =>
        /\ pc \in {"stopsock", "create", "startsock"} => svc = "inactive"
        /\ pc \in {"create", "startsock"} => sock = "off"
        /\ pc \in {"startsock", "start", "poll", "probe", "adopt"} => unit = "new"
        /\ pc \in {"start", "poll", "probe", "adopt"} /\ svc \in {"active", "gap"} =>
              gen = "new"

\* Only an app that crashes is ever met between two starts.
GapMeansCrash == svc = "gap" => Fate = "crashes"

\* A polled service has been asked for; a probed one has been seen to run.
StartedBefore ==
    /\ pc = "poll" => svc \in {"queued", "active", "gap"}
    /\ pc \in {"probe", "adopt"} => svc \in {"active", "gap"}

UnitInv ==
    /\ svc \in {"inactive", "queued", "active", "gap"} /\ polls \in Nat
    /\ OldOnlyIfPoked /\ GapMeansCrash /\ StartedBefore
=============================================================================
