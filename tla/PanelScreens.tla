---------------------------- MODULE PanelScreens ----------------------------
(***************************************************************************)
(* The panel's screens and the threads they wait for (tui/mod.rs,          *)
(* tui/workers.rs), and the hand-over of a keystroke to a newer build of   *)
(* the program (paths.rs).                                                 *)
(*                                                                         *)
(* A key changes the screen and may spawn a thread; the thread sends one   *)
(* result; the event loop applies it to the screen that is open by then.   *)
(* The wizard's nine steps are one screen here (PanelWizard has them), the *)
(* list screens keep no rows.                                              *)
(***************************************************************************)
EXTENDS Integers, Sequences, SequencesExt, FiniteSets

CONSTANTS
    Targets,    \* services, each with its URL and its manifest
    NoTarget,
    MaxJobs     \* bounds the threads spawned

VARIABLES
    scr,        \* the open screen; "off": no panel runs
    jobs,       \* threads at work
    inbox,      \* results the event loop has not drained
    spawned,    \* threads spawned so far
    stale,      \* a newer build lies on disk
    pending,    \* pending-action.json
    owed        \* history: consents to deploy minus deploys, by target

scrVars == <<scr, jobs, inbox, spawned, stale, pending, owed>>

Menus == {"Networks", "Services", "UrlInput", "AddService", "UserServices",
          "EditService", "Egress", "Logs"}
Routes == {"Auto", "Wizard", "PathDeploy"}
NoAction == [route |-> "Auto", t |-> NoTarget]

Screen(at) == [at |-> at, n |-> 0, busy |-> FALSE, t |-> NoTarget, yes |-> FALSE,
               route |-> "Auto"]
On(at, t) == [Screen(at) EXCEPT !.t = t]

ScrInit ==
    /\ scr = Screen("Main")
    /\ jobs = {} /\ inbox = <<>> /\ spawned = 0
    /\ stale = FALSE /\ pending = NoAction
    /\ owed = [t \in Targets |-> 0]

Job(kind, t, route) ==
    [kind |-> kind, n |-> spawned + 1, t |-> t, route |-> route]
Spawn(j) ==
    /\ spawned < MaxJobs
    /\ spawned' = spawned + 1
    /\ jobs' = jobs \cup {j}

Show(s) == scr' = s /\ UNCHANGED <<jobs, inbox, spawned, stale, pending, owed>>
GoTo(from, to) == scr.at = from /\ Show(Screen(to))

(***************************************************************************)
(* What a committed keystroke does on the build that runs: detect a URL,   *)
(* or start a deploy and open its screen.                                  *)
(***************************************************************************)
Detect(t, route) ==
    /\ Spawn(Job("detect", t, route))
    /\ scr' = [On("DetectInput", t) EXCEPT !.busy = TRUE, !.n = spawned + 1]

StartTarget(t) ==
    /\ Spawn(Job("deploy", t, "PathDeploy"))
    /\ scr' = [On("Deploy", t) EXCEPT !.busy = TRUE]

\* More consents than threads are not told apart.
Settle(t, consents, deploys) ==
    owed' = [owed EXCEPT ![t] =
        LET n == @ + consents - deploys IN IF n > MaxJobs THEN MaxJobs ELSE n]

Perform(route, t, consent) ==
    /\ IF route = "PathDeploy" THEN StartTarget(t) ELSE Detect(t, route)
    /\ Settle(t, consent, IF route = "PathDeploy" THEN 1 ELSE 0)

\* restart_with_pending, then the action itself when it returns.
Commit(route, t, consent) ==
    /\ \/ /\ stale
          /\ \A j \in jobs : j.kind # "deploy"
          /\ pending' = [route |-> route, t |-> t]
          /\ scr' = [On("handover", t) EXCEPT !.route = route]
          /\ Settle(t, consent, 0)
          /\ UNCHANGED <<jobs, spawned>>
       \/ /\ Perform(route, t, consent)
          /\ UNCHANGED pending
    /\ UNCHANGED stale

(***************************************************************************)
(* Keys.                                                                   *)
(***************************************************************************)
OpenMenu(m) == GoTo("Main", m)

OpenScan ==
    /\ scr.at = "Main"
    /\ Spawn(Job("scan", NoTarget, "Auto"))
    /\ scr' = [Screen("Scan") EXCEPT !.busy = TRUE, !.n = spawned + 1]
    /\ UNCHANGED <<inbox, stale, pending, owed>>

Leave == scr.at \in Menus \cup {"Scan"} /\ Show(Screen("Main"))

\* A URL: Enter deploys without a gate, Tab goes through the wizard.
EnterUrl(t, route) ==
    /\ scr.at = "UrlInput"
    /\ Commit(route, t, IF route = "Auto" THEN 1 ELSE 0)
    /\ UNCHANGED inbox

EnterPath(t) ==
    /\ scr.at = "UrlInput"
    /\ Show([On("Confirm", t) EXCEPT !.yes = ~stale])

PickManifest(t) ==
    /\ scr.at \in {"AddService", "UserServices"}
    /\ Show([On("Confirm", t) EXCEPT !.yes = TRUE])

JumpToService == GoTo("UserServices", "Services")

Highlight ==
    /\ scr.at \in {"Confirm", "ConfirmDelete", "ConfirmClear"}
    /\ Show([scr EXCEPT !.yes = ~@])

ConfirmYes ==
    /\ scr.at = "Confirm" /\ scr.yes
    /\ Commit("PathDeploy", scr.t, 1)
    /\ UNCHANGED inbox

ConfirmNo == GoTo("Confirm", "UrlInput")

\* Deleting and clearing are modelled with the deploys and the logs.
AskFirst ==
    \/ GoTo("Services", "ConfirmDelete")
    \/ GoTo("Logs", "ConfirmClear")
Answer ==
    \/ GoTo("ConfirmDelete", "Services")
    \/ GoTo("ConfirmClear", "Logs")

\* Mutation: the Deploy screen can be left while the deploy runs.
DismissAnytime == GoTo("Deploy", "Main")

DismissDeploy == GoTo("Deploy", "Main") /\ ~scr.busy

AddServiceRow ==
    \/ GoTo("AddService", "Import")
    \/ GoTo("Import", "AddService")
    \/ GoTo("AddService", "DetectInput")
    \/ \E t \in Targets : scr.at = "AddService" /\ Show(On("Wizard", t))

DetectEnter(t) ==
    /\ scr.at = "DetectInput" /\ ~scr.busy
    /\ Detect(t, "Wizard")
    /\ UNCHANGED <<inbox, stale, pending, owed>>

DetectEsc == GoTo("DetectInput", "AddService")

\* Esc on the first step, or `s` on the last.
WizardLeave == GoTo("Wizard", "AddService")

WizardDeploy ==
    /\ scr.at = "Wizard"
    /\ Commit("PathDeploy", scr.t, 1)
    /\ UNCHANGED inbox

EditForm ==
    \/ \E t \in Targets : scr.at = "EditService" /\ Show(On("EditServiceForm", t))
    \/ GoTo("EditServiceForm", "EditService")

EditRedeploy ==
    /\ scr.at = "EditServiceForm"
    /\ Commit("PathDeploy", scr.t, 1)
    /\ UNCHANGED inbox

EgressVerify(t) ==
    /\ scr.at = "Egress" /\ scr.t = NoTarget
    /\ Spawn(Job("check", t, "Auto"))
    /\ scr' = On("Egress", t)
    /\ UNCHANGED <<inbox, stale, pending, owed>>

EgressList ==
    \/ GoTo("Egress", "EgressHosts")
    \/ GoTo("EgressHosts", "Egress")

(***************************************************************************)
(* Threads end with one message; what a detection found is in it.          *)
(***************************************************************************)
Finish(j, found) ==
    /\ j \in jobs
    /\ found \in IF j.kind = "detect" THEN {"sure", "unsure", "failed"} ELSE {"ok"}
    /\ jobs' = jobs \ {j}
    /\ inbox' = Append(inbox, [job |-> j, found |-> found])
    /\ UNCHANGED <<scr, spawned, stale, pending, owed>>

(***************************************************************************)
(* The event loop drains one message.                                      *)
(***************************************************************************)
Next1(kind) == inbox # <<>> /\ Head(inbox).job.kind = kind /\ inbox' = Tail(inbox)

ShowRead(s) == scr' = s /\ UNCHANGED <<jobs, spawned, stale, pending, owed>>

ScanDone ==
    /\ Next1("scan")
    /\ ShowRead(IF scr.at = "Scan" /\ scr.n = Head(inbox).job.n
            THEN [scr EXCEPT !.busy = FALSE] ELSE scr)

DeployDone ==
    /\ Next1("deploy")
    /\ ShowRead(IF scr.at = "Deploy" THEN [scr EXCEPT !.busy = FALSE] ELSE scr)

EgressChecked ==
    /\ Next1("check")
    /\ ShowRead(IF scr.at = "Egress" /\ scr.t = Head(inbox).job.t
            THEN [scr EXCEPT !.t = NoTarget] ELSE scr)

DetectDone ==
    /\ Next1("detect")
    /\ LET m == Head(inbox) IN
       IF scr.at # "DetectInput" THEN ShowRead(scr)
       ELSE \/ /\ m.found = "failed"
               /\ ShowRead([scr EXCEPT !.busy = FALSE])
            \/ /\ m.found # "failed"     \* wizard, unsure, or auto_store refuses
               /\ ShowRead(On("Wizard", m.job.t))
            \/ /\ m.found = "sure" /\ m.job.route = "Auto"
               /\ Commit("PathDeploy", m.job.t, 0)

(***************************************************************************)
(* Processes: a newer build is installed, exec, a kill, a launch.          *)
(***************************************************************************)
Install ==
    /\ ~stale /\ scr.at # "off"
    /\ stale' = TRUE
    /\ UNCHANGED <<scr, jobs, inbox, spawned, pending, owed>>

\* Mutation: a refused exec leaves the pending action on disk.
ExecFailsKept ==
    /\ scr.at = "handover"
    /\ Perform(scr.route, scr.t, 0)
    /\ UNCHANGED <<inbox, stale, pending>>

ExecFails ==
    /\ scr.at = "handover"
    /\ pending' = NoAction
    /\ Perform(scr.route, scr.t, 0)
    /\ UNCHANGED <<inbox, stale>>

Kill ==
    /\ scr.at # "off"
    /\ scr' = Screen("off")
    /\ jobs' = {} /\ inbox' = <<>>
    /\ UNCHANGED <<spawned, stale, pending, owed>>

\* A launch by exec, or by the user: resume_pending_action.
Launch ==
    /\ scr.at \in {"off", "handover"}
    /\ stale' = FALSE
    /\ pending' = NoAction
    /\ inbox' = <<>>
    /\ LET j == Job("detect", pending.t, pending.route)
           d == Job("deploy", pending.t, "PathDeploy") IN
       \/ /\ pending = NoAction
          /\ scr' = Screen("Main") /\ jobs' = {}
          /\ UNCHANGED <<spawned, owed>>
       \/ /\ pending # NoAction /\ pending.route # "PathDeploy"
          /\ spawned < MaxJobs /\ spawned' = spawned + 1
          /\ scr' = [On("DetectInput", pending.t) EXCEPT !.busy = TRUE, !.n = j.n]
          /\ jobs' = {j}
          /\ UNCHANGED owed
       \/ /\ pending.route = "PathDeploy"
          /\ spawned < MaxJobs /\ spawned' = spawned + 1
          /\ scr' = [On("Deploy", pending.t) EXCEPT !.busy = TRUE]
          /\ jobs' = {d}
          /\ Settle(pending.t, 0, 1)
       \/ /\ pending.route = "PathDeploy"       \* the file is gone
          /\ scr' = Screen("UrlInput") /\ jobs' = {}
          /\ UNCHANGED <<spawned, owed>>

Key ==
    \/ OpenScan \/ Leave \/ JumpToService \/ Highlight
    \/ \E m \in Menus : OpenMenu(m)
    \/ \E t \in Targets, r \in {"Auto", "Wizard"} : EnterUrl(t, r)
    \/ \E t \in Targets : EnterPath(t) \/ PickManifest(t) \/ DetectEnter(t)
                          \/ EgressVerify(t)
    \/ ConfirmYes \/ ConfirmNo \/ AskFirst \/ Answer \/ DismissDeploy
    \/ AddServiceRow \/ DetectEsc \/ WizardLeave \/ WizardDeploy
    \/ EditForm \/ EditRedeploy \/ EgressList

Drain == ScanDone \/ DeployDone \/ EgressChecked \/ DetectDone

ScrNext ==
    \/ Key \/ Drain \/ Install \/ ExecFails \/ Kill \/ Launch
    \/ \E j \in jobs, f \in {"sure", "unsure", "failed", "ok"} : Finish(j, f)

ScrSpec == ScrInit /\ [][ScrNext]_scrVars

(***************************************************************************)
(* Properties.                                                             *)
(***************************************************************************)
\* The threads whose result has not reached the screen.
Out == jobs \cup {m.job : m \in Range(inbox)}

\* A screen that shows work in progress has a thread that will end it: no
\* scan, detection, deploy or egress check spins for ever, however often the
\* user left and came back and whatever arrived late.
SpinnersHaveWorkers ==
    /\ scr.at = "Scan" /\ scr.busy =>
          \E j \in Out : j.kind = "scan" /\ j.n = scr.n
    /\ scr.at = "DetectInput" /\ scr.busy => \E j \in Out : j.kind = "detect"
    /\ scr.at = "Deploy" /\ scr.busy => \E j \in Out : j.kind = "deploy"
    /\ scr.at = "Egress" /\ scr.t # NoTarget =>
          \E j \in Out : j.kind = "check" /\ j.t = scr.t

\* "the Deploy screen (still `done: None`) is the reliable 'a worker exists'
\* signal" (exit_with_reconcile): a deploy worker of this panel runs only
\* behind an unfinished Deploy screen of its own target, and there is one.
WorkerMeansDeployScreen ==
    \A j \in Out : j.kind = "deploy" =>
        /\ scr.at = "Deploy" /\ scr.busy /\ scr.t = j.t
        /\ \A i \in Out : i.kind = "deploy" => i = j

\* A keystroke that consents to a deploy starts at most one, though a newer
\* build may replay it after exec, after a refused exec, or in a later launch.
ConsentDeploysOnce == \A t \in Targets : owed[t] >= 0

(***************************************************************************)
(* Why they hold: an inductive strengthening.                              *)
(***************************************************************************)
Places == Menus \cup {"Main", "Scan", "DetectInput", "Deploy", "handover", "Confirm",
                      "ConfirmDelete", "ConfirmClear", "Import", "Wizard",
                      "EditServiceForm", "EgressHosts", "off"}
Some == Targets \cup {NoTarget}
Jobs == [kind : {"scan", "detect", "deploy", "check"}, n : Nat, t : Some, route : Routes]
Results == [job : Jobs, found : {"sure", "unsure", "failed", "ok"}]

ScrTyped ==
    /\ scr \in [at : Places, n : Nat, busy : BOOLEAN, t : Some, yes : BOOLEAN,
                route : Routes]
    /\ jobs \subseteq Jobs /\ IsFiniteSet(jobs)
    /\ inbox \in Seq(Results)
    /\ spawned \in 0..MaxJobs
    /\ stale \in BOOLEAN
    /\ pending \in [route : Routes, t : Some]
    /\ owed \in [Targets -> Int]

\* A thread has a number of its own, and one result.
JobsDistinct ==
    /\ \A j \in Out : j.n <= spawned
    /\ \A i \in DOMAIN inbox :
        /\ inbox[i].job \notin jobs
        /\ \A k \in DOMAIN inbox : inbox[k].job = inbox[i].job => k = i

\* A pending action is on disk only between the hand-over and the launch.
PendingParked ==
    /\ scr.at = "handover" => pending = [route |-> scr.route, t |-> scr.t]
    /\ pending # NoAction => scr.at \in {"handover", "off"}

\* What may still start a deploy of t without asking: the detections of the
\* autopilot, and a pending action that is not for the wizard.
Autopilots(t) == {j \in Out : j.kind = "detect" /\ j.route = "Auto" /\ j.t = t}
Parked(t) == IF pending.t = t /\ pending.route # "Wizard" THEN 1 ELSE 0

\* Each has a consent of its own left, as far as threads are left to spawn.
ConsentsCover ==
    \A t \in Targets :
        \/ owed[t] >= Cardinality(Autopilots(t)) + Parked(t)
        \/ owed[t] >= MaxJobs - spawned

ScrInv ==
    /\ ScrTyped /\ JobsDistinct /\ PendingParked /\ ConsentsCover
    /\ SpinnersHaveWorkers /\ WorkerMeansDeployScreen

=============================================================================
