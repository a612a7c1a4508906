------------------------------- MODULE MCParts -------------------------------
(***************************************************************************)
(* The components that share no state with each other, checked in one run: *)
(* a behaviour is one of them, chosen at the start and alone from then on. *)
(* The variables s1 .. s12 are those of the chosen part, in the order in   *)
(* which its module declares them; a slot it has no use for stays 0.       *)
(***************************************************************************)
EXTENDS Naturals, FiniteSets, Sequences

CONSTANTS
    Targets, NoTarget, MaxJobs,                 \* PanelScreens
    Steps,                                      \* PanelWizard
    Writers, Stopped, Cap, Keep, MaxLines,      \* PanelLogs
    Windows,                                    \* ManifestShelf
    Versions, NoPin, Sizes, Ignored, Segment, Workers, CloneRetries,    \* SourceFetch
    Newest,                                     \* BuildTools
    Segments, Plugins, Revisions,               \* BuildSeeds
    MaxNotes, MaxFindings,                      \* TreeDetect
    Core, Niche, MaxHosts, MaxEngines,          \* EgressPolicy
    Procs, Rotate, KeepCrash, MaxRecords,       \* RecordFiles
    MaxScans, MaxDeploys, MaxOpens, JournalLines    \* CompanionPanel

\* A version is a number from 1 on.
ASSUME NewestAssumption == Newest \in Nat \ {0}
\* No service is the absent one.
ASSUME TargetsAssumption == NoTarget \notin Targets /\ MaxJobs \in Nat
\* The wizard asks each thing once: the profile after the source it belongs to
\* and before what it presets.
ASSUME StepsAssumption ==
    /\ Steps \in Seq({"id", "git", "commit", "profile", "prefetch", "build", "run", "res"})
    /\ \A i, j \in DOMAIN Steps : Steps[i] = Steps[j] => i = j
    /\ Steps # <<>> /\ Steps[1] = "id" /\ Steps[Len(Steps)] = "res"
    /\ \E k \in DOMAIN Steps :
          /\ Steps[k] = "profile"
          /\ \A i \in DOMAIN Steps : i < k <=> Steps[i] \in {"id", "git", "commit"}
\* A cut leaves less of a log than it is made at.
ASSUME LogsAssumption == Cap \in Nat /\ Keep \in 0 .. Cap
\* A pin is not the absent one; a segment has a length.
ASSUME SourceAssumption ==
    NoPin \notin Versions /\ Sizes \in Seq(Nat) /\ Segment \in Nat \ {0}
\* Both are numbers of entries.
ASSUME EgressAssumption == MaxHosts \in Nat /\ MaxEngines \in Nat
\* Finitely many processes; a cut leaves no more lines than it is made at.
ASSUME RecordsAssumption ==
    /\ IsFiniteSet(Procs) /\ "torn" \notin Procs
    /\ Rotate \in Nat \ {0} /\ KeepCrash \in 0 .. Rotate

\* An empty file, one that fills a segment, and one that needs a second.
FileSizes == <<0, 2, 3>>
\* The pinned commit and the prefetch are answered like "git" and "build".
ShortWizard == <<"id", "git", "profile", "build", "run", "res">>
\* One candidate that a list may hold, one that no list of the model holds.
ControlHosts == <<"github", "example">>

VARIABLES part, s1, s2, s3, s4, s5, s6, s7, s8, s9, s10, s11, s12

slots == <<s1, s2, s3, s4, s5, s6, s7, s8, s9, s10, s11, s12>>
partVars == <<part, slots>>

Screens == INSTANCE PanelScreens WITH
    scr <- s1, jobs <- s2, inbox <- s3, spawned <- s4, stale <- s5,
    pending <- s6, owed <- s7

Wizard == INSTANCE PanelWizard WITH
    step <- s1, typed <- s2, draft <- s3,
    kept <- s4

Logs == INSTANCE PanelLogs WITH
    file <- s1, next <- s2, wr <- s3, view <- s4, lines <- s5,
    tail <- s6, inbox <- s7, draining <- s8, late <- s9,
    mixed <- s10

Shelf == INSTANCE ManifestShelf WITH
    file <- s1, dep <- s2, win <- s3, late <- s4

Source == INSTANCE SourceFetch WITH
    tip <- s1, tree <- s2, pc <- s3, pin <- s4,
    queue <- s5, wk <- s6, parts <- s7, failed <- s8, tries <- s9,
    torn <- s10

Tools == INSTANCE BuildTools WITH
    root <- s1, web <- s2, have <- s3, uses <- s4, pins <- s5,
    step <- s6, box <- s7, lead <- s8, seeded <- s9

Seeds == INSTANCE BuildSeeds WITH
    rev <- s1, step <- s2, sub <- s3, wheels <- s4, staged <- s5,
    placed <- s6, zip <- s7, left <- s8, short <- s9,
    orphaned <- s10

Detect == INSTANCE TreeDetect WITH
    tree <- s1, route <- s2, at <- s3, draft <- s4

Egress == INSTANCE EgressPolicy WITH
    Controls <- ControlHosts, engines <- s1, allow <- s2,
    mayFill <- s3, plan <- s4, asked <- s5, kept <- s6, pc <- s7,
    unit <- s8, enforces <- s9, starved <- s10, check <- s11,
    verdict <- s12

Records == INSTANCE RecordFiles WITH
    Keep <- KeepCrash, MaxLines <- MaxRecords, about <- s1,
    state <- s2, temps <- s3, proc <- s4, net <- s5, crash <- s6,
    wrote <- s7, missed <- s8

Companion == INSTANCE CompanionPanel WITH
    scr <- s1, inbox <- s2, threads <- s3, seq <- s4, born <- s5,
    soft <- s6, exited <- s7

PartsInit ==
    \/ /\ part = "screens" /\ Screens!ScrInit
       /\ s8 = 0 /\ s9 = 0 /\ s10 = 0 /\ s11 = 0 /\ s12 = 0
    \/ /\ part = "wizard" /\ Wizard!WizInit
       /\ s5 = 0 /\ s6 = 0 /\ s7 = 0 /\ s8 = 0 /\ s9 = 0 /\ s10 = 0
       /\ s11 = 0 /\ s12 = 0
    \/ /\ part = "logs" /\ Logs!LogInit
       /\ s11 = 0 /\ s12 = 0
    \/ /\ part = "shelf" /\ Shelf!ShelfInit
       /\ s5 = 0 /\ s6 = 0 /\ s7 = 0 /\ s8 = 0 /\ s9 = 0 /\ s10 = 0
       /\ s11 = 0 /\ s12 = 0
    \/ /\ part = "source" /\ Source!FetchInit
       /\ s11 = 0 /\ s12 = 0
    \/ /\ part = "tools" /\ Tools!ToolsInit
       /\ s10 = 0 /\ s11 = 0 /\ s12 = 0
    \/ /\ part = "seeds" /\ Seeds!SeedsInit
       /\ s11 = 0 /\ s12 = 0
    \/ /\ part = "detect" /\ Detect!DetectInit
       /\ s5 = 0 /\ s6 = 0 /\ s7 = 0 /\ s8 = 0 /\ s9 = 0 /\ s10 = 0
       /\ s11 = 0 /\ s12 = 0
    \/ /\ part = "egress" /\ Egress!EgressInit
    \/ /\ part = "records" /\ Records!RecInit
       /\ s9 = 0 /\ s10 = 0 /\ s11 = 0 /\ s12 = 0
    \/ /\ part = "companion" /\ Companion!CompanionInit
       /\ s8 = 0 /\ s9 = 0 /\ s10 = 0 /\ s11 = 0 /\ s12 = 0

PartsNext ==
    \/ /\ part = "screens" /\ Screens!ScrNext
       /\ UNCHANGED <<part, s8, s9, s10, s11, s12>>
    \/ /\ part = "wizard" /\ Wizard!WizNext
       /\ UNCHANGED <<part, s5, s6, s7, s8, s9, s10, s11, s12>>
    \/ /\ part = "logs" /\ Logs!LogNext
       /\ UNCHANGED <<part, s11, s12>>
    \/ /\ part = "shelf" /\ Shelf!ShelfNext
       /\ UNCHANGED <<part, s5, s6, s7, s8, s9, s10, s11, s12>>
    \/ /\ part = "source" /\ Source!FetchNext
       /\ UNCHANGED <<part, s11, s12>>
    \/ /\ part = "tools" /\ Tools!ToolsNext
       /\ UNCHANGED <<part, s10, s11, s12>>
    \/ /\ part = "seeds" /\ Seeds!SeedsNext
       /\ UNCHANGED <<part, s11, s12>>
    \/ /\ part = "detect" /\ Detect!DetectNext
       /\ UNCHANGED <<part, s5, s6, s7, s8, s9, s10, s11, s12>>
    \/ /\ part = "egress" /\ Egress!EgressNext
       /\ UNCHANGED part
    \/ /\ part = "records" /\ Records!RecNext
       /\ UNCHANGED <<part, s9, s10, s11, s12>>
    \/ /\ part = "companion" /\ Companion!CompanionNext
       /\ UNCHANGED <<part, s8, s9, s10, s11, s12>>

PartsSpec == PartsInit /\ [][PartsNext]_partVars

(***************************************************************************)
(* Each property is stated, with the code it is about, in its own module.  *)
(***************************************************************************)
\* A screen that shows work in progress has a thread that will end it, and a
\* deploy worker runs only behind its own unfinished Deploy screen (tui/mod.rs).
SpinnersHaveWorkers ==
    part = "screens" => Screens!SpinnersHaveWorkers /\ Screens!WorkerMeansDeployScreen

\* One consent starts at most one deploy, replayed by a newer build or not
\* (tui/mod.rs, paths.rs).
ConsentDeploysOnce ==
    part = "screens" => Screens!ConsentDeploysOnce

\* The review holds the answers the user last confirmed (tui/mod.rs, wizard.rs).
ReviewAsConfirmed ==
    part = "wizard" => Wizard!ReviewAsConfirmed

\* The Logs screen shows lines in the order they were written (tui/mod.rs,
\* tui/workers.rs).
ShownInOrder ==
    part = "logs" => Logs!ShownInOrder

\* A pinned clone leaves the files of its pin, and never those of another
\* (gitclone.rs, rawfetch.rs).
PinnedTreeKept ==
    part = "source" => Source!PinnedTreeKept

\* An unpinned clone leaves every file whole (gitclone.rs, rawfetch.rs).
UnpinnedTreeWhole ==
    part = "source" => Source!UnpinnedTreeWhole

\* A build starts with the tools it needs (preflight.rs to goenv.rs).
UsedToolsMeetTheBar ==
    part = "tools" => Tools!UsedToolsMeetTheBar

\* The offline build runs on this deploy's pins (prefetch.rs).
BuildInputsPinned ==
    part = "seeds" => Seeds!BuildInputsPinned

\* A seeded zip is whole and complete when a build trusts it (goenv.rs).
SeededZipsWhole ==
    part = "seeds" => Seeds!SeededZipsWhole

\* What a detected build needs is fetched before it and installed earlier in it,
\* by steps that the manifest check accepts (detect.rs, manifest.rs).
OfflineBuildProvided ==
    part = "detect" => Detect!OfflineBuildProvided /\ Detect!HostStepsAccepted

\* "Blocked, filter enforced" is said only of a filter that works (egress.rs).
LockedIsProved ==
    part = "egress" => Egress!LockedIsProved

\* The cap on a detected list costs the niche hosts first (egress_detect.rs).
CoreSurvivesTheCap ==
    part = "egress" => Egress!CoreSurvivesTheCap

\* Logs grow beyond their bounds by failed cuts alone, and state.json is never half
\* a write (netlog.rs, crashlog.rs, atomic.rs).
LogsStaySmall ==
    part = "records" => Records!LogsStaySmall /\ Records!RegistryNeverTorn

\* A screen of the second panel shows the answer to its own question, and one that
\* waits has a thread to wait for (tui_v2/mod.rs).
AnswersAreTheirOwn ==
    part = "companion" => Companion!AnswersAreTheirOwn /\ Companion!WaitersAreServed

\* A list the user has taken over is left alone by every step of a deploy
\* (library.rs, deploy.rs).
UserListKept ==
    [][part = "shelf" => Shelf!UserListStep]_partVars
=============================================================================
