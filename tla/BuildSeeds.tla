----------------------------- MODULE BuildSeeds -----------------------------
(***************************************************************************)
(* What a deploy puts into the project's caches before the offline build:  *)
(* wheels and their marker, pinned plugins (hoster/prefetch.rs), the Go    *)
(* toolchain and Go modules, fetched in segments (hoster/goenv.rs), in the *)
(* order of deploy_service (hoster/deploy.rs).                             *)
(*                                                                         *)
(* The caches live in the project's tree: they survive a redeploy, and a   *)
(* kill whose leftovers no clean-up has met.                               *)
(***************************************************************************)
EXTENDS Naturals, FiniteSets

CONSTANTS
    Segments,       \* of a zip
    Plugins,
    Revisions       \* of the requirements and of the plugin pins: 1..Revisions

VARIABLES
    rev,        \* what the tree and the manifest ask for now
    step, sub,  \* of the deploy, and within a zip
    wheels,     \* revisions whose wheels are in the wheelhouse; its marker
    staged, placed,     \* by plugin: the revision in .seed-* and in the cache
    zip,        \* by zip: the file, its parts, the files beside it
    left,       \* parts that no worker has taken yet
    short,      \* history: a part came short, or an assembly was killed
    orphaned    \* history: the files beside the module's zip were given up on

seedVars == <<rev, step, sub, wheels, staged, placed, zip, left, short, orphaned>>

Zips == {"toolchain", "module"}
Beside(z) == IF z = "module" THEN {"ziphash", "info", "mod"} ELSE {"info", "mod"}
NoZip == [file |-> "none", parts |-> [i \in Segments |-> "none"], beside |-> {}]

NoCaches ==
    /\ wheels' = [revs |-> {}, done |-> FALSE]
    /\ staged' = [p \in Plugins |-> 0] /\ placed' = [p \in Plugins |-> 0]
    /\ zip' = [z \in Zips |-> NoZip]
    /\ left' = {} /\ short' = FALSE /\ orphaned' = FALSE

SeedsInit ==
    /\ rev = 1 /\ step = "prefetch" /\ sub = "begin"
    /\ wheels = [revs |-> {}, done |-> FALSE]
    /\ staged = [p \in Plugins |-> 0] /\ placed = [p \in Plugins |-> 0]
    /\ zip = [z \in Zips |-> NoZip]
    /\ left = {} /\ short = FALSE /\ orphaned = FALSE

zipVars == <<zip, left, short, orphaned>>
At(s, t) == step = s /\ sub = t
Goto(s, t) == step' = s /\ sub' = t

\* Mutation: marked wheels are not looked at again.
HostStepOnce ==
    /\ step = "prefetch" /\ Goto("mark", "begin")
    /\ wheels' = IF wheels.done THEN wheels ELSE [wheels EXCEPT !.revs = @ \cup {rev}]
    /\ UNCHANGED <<rev, staged, placed, zipVars>>

(***************************************************************************)
(* Wheels and plugins.                                                     *)
(***************************************************************************)
\* pip download adds to what is there; the marker of an earlier deploy stays.
run_host_step ==
    /\ step = "prefetch" /\ Goto("mark", "begin")
    /\ wheels' = [wheels EXCEPT !.revs = @ \cup {rev}]
    /\ UNCHANGED <<rev, staged, placed, zipVars>>

mark_pip_wheelhouse ==
    /\ step = "mark" /\ Goto("stage", "begin")
    /\ wheels' = [wheels EXCEPT !.done = TRUE]
    /\ UNCHANGED <<rev, staged, placed, zipVars>>

\* The bytes have the pinned hash, or the deploy fails.
StagePlugin(p) ==
    /\ step = "stage" /\ staged[p] # rev
    /\ staged' = [staged EXCEPT ![p] = rev]
    /\ UNCHANGED <<rev, step, sub, wheels, placed, zipVars>>

PlacePlugin(p) ==
    /\ step = "stage" /\ \A q \in Plugins : staged[q] = rev \/ placed[q] = rev
    /\ staged[p] = rev
    /\ placed' = [placed EXCEPT ![p] = rev] /\ staged' = [staged EXCEPT ![p] = 0]
    /\ UNCHANGED <<rev, step, sub, wheels, zipVars>>

PluginsPlaced ==
    /\ step = "stage" /\ \A p \in Plugins : placed[p] = rev
    /\ Goto("toolchain", "begin")
    /\ UNCHANGED <<rev, wheels, staged, placed, zipVars>>

(***************************************************************************)
(* fetch_zip, for the zip of the current step.                             *)
(***************************************************************************)
Usable(z) == zip[z].file \in {"cut", "whole"}       \* at least MIN_ZIP bytes
othersVars == <<rev, wheels, staged, placed>>
Following(z) == IF z = "toolchain" THEN "module" ELSE "build"

\* A module whose zip is there is not looked at again; the toolchain is.
AlreadySeeded ==
    /\ At("module", "begin") /\ Usable("module")
    /\ Goto("build", "begin")
    /\ UNCHANGED <<othersVars, zipVars>>

\* left = {} and no stage directory: a download begins, or the zip is there.
BeginZip(z) ==
    /\ At(z, "begin") /\ ~Usable(z)
    /\ Goto(z, "parts")
    /\ left' = {i \in Segments : zip[z].parts[i] # "whole"}
    /\ UNCHANGED <<othersVars, zip, short, orphaned>>

FetchPart(z, i) ==
    /\ At(z, "parts") /\ i \in left
    /\ \E got \in {"whole", "short"} :
           /\ zip' = [zip EXCEPT ![z].parts[i] = got]
           /\ short' = (short \/ got = "short")
    /\ left' = left \ {i}
    /\ UNCHANGED <<othersVars, step, sub, orphaned>>

\* The file is created empty in its place, filled part by part, and compared
\* with the size last; the parts are removed either way.
Truncate(z) ==
    /\ At(z, "parts") /\ left = {}
    /\ Goto(z, "write")
    /\ zip' = [zip EXCEPT ![z].file = "empty"]
    /\ UNCHANGED <<othersVars, left, short, orphaned>>

WriteSome(z) ==
    /\ At(z, "write") /\ zip[z].file = "empty"
    /\ zip' = [zip EXCEPT ![z].file = "cut"]
    /\ UNCHANGED <<othersVars, step, sub, left, short, orphaned>>

\* A mismatch fails the toolchain, and the deploy; a module is tried again.
Assemble(z) ==
    /\ At(z, "write") /\ zip[z].file = "cut"
    /\ LET whole == \A i \in Segments : zip[z].parts[i] = "whole" IN
       /\ zip' = [zip EXCEPT ![z] = [@ EXCEPT
              !.file = IF whole THEN "whole" ELSE "cut",
              !.parts = [i \in Segments |-> "none"]]]
       /\ IF whole THEN Goto(z, "beside")
          ELSE IF z = "module" THEN Goto(z, "retry") ELSE Goto("failed", "begin")
    /\ UNCHANGED <<othersVars, left, short, orphaned>>

\* seed_one_module once more: what is there by now counts.
RetryModule ==
    /\ At("module", "retry")
    /\ Goto("module", "beside")
    /\ UNCHANGED <<othersVars, zipVars>>

\* Mutation: a toolchain zip that is there needs nothing beside it.
ToolchainSkipped ==
    /\ At("toolchain", "begin") /\ Usable("toolchain")
    /\ Goto("module", "begin")
    /\ UNCHANGED <<othersVars, zipVars>>

ToolchainThere ==
    /\ At("toolchain", "begin") /\ Usable("toolchain")
    /\ Goto("toolchain", "beside")
    /\ UNCHANGED <<othersVars, zipVars>>

WriteBeside(z, ext) ==
    /\ At(z, "beside") /\ ext \in Beside(z) \ zip[z].beside
    /\ zip' = [zip EXCEPT ![z].beside = @ \cup {ext}]
    /\ UNCHANGED <<othersVars, step, sub, left, short, orphaned>>

ZipDone(z) ==
    /\ At(z, "beside") /\ zip[z].beside = Beside(z)
    /\ Goto(Following(z), "begin")
    /\ UNCHANGED <<othersVars, zipVars>>

(***************************************************************************)
(* The deploy around it.                                                   *)
(***************************************************************************)
\* A fetch that is refused: the tree goes, and the caches with it.
Fails ==
    /\ step \notin {"build", "failed"}
    /\ Goto("failed", "begin")
    /\ UNCHANGED <<othersVars, zipVars>>

RollBack ==
    /\ step = "failed"
    /\ NoCaches
    /\ Goto("idle", "begin") /\ UNCHANGED rev

\* One failed module of several does not fail the deploy.
GiveUpModule ==
    /\ At("module", "beside") /\ zip["module"].beside # Beside("module")
    /\ Goto("build", "begin") /\ orphaned' = TRUE
    /\ UNCHANGED <<othersVars, zip, left, short>>

Killed ==
    /\ step \notin {"idle", "failed"}
    /\ Goto("idle", "begin") /\ left' = {}
    /\ short' = (short \/ sub = "write")
    /\ orphaned' = (orphaned \/ (step = "module" /\ sub \in {"write", "retry", "beside"}))
    /\ UNCHANGED <<othersVars, zip>>

Built ==
    /\ step = "build"
    /\ Goto("idle", "begin")
    /\ UNCHANGED <<othersVars, zipVars>>

\* The next deploy, of the same tree or of one that asks for more.
Redeploy ==
    /\ step = "idle" /\ Goto("prefetch", "begin")
    /\ rev' \in rev..Revisions
    /\ UNCHANGED <<wheels, staged, placed, zipVars>>

SeedsNext ==
    \/ run_host_step \/ mark_pip_wheelhouse \/ PluginsPlaced
    \/ \E p \in Plugins : StagePlugin(p) \/ PlacePlugin(p)
    \/ AlreadySeeded \/ RetryModule \/ ToolchainThere \/ GiveUpModule
    \/ \E z \in Zips :
        \/ BeginZip(z) \/ Truncate(z) \/ WriteSome(z) \/ Assemble(z) \/ ZipDone(z)
        \/ \E i \in Segments : FetchPart(z, i)
        \/ \E ext \in {"ziphash", "info", "mod"} : WriteBeside(z, ext)
    \/ Fails \/ RollBack \/ Killed \/ Built \/ Redeploy

SeedsSpec == SeedsInit /\ [][SeedsNext]_seedVars

\* The offline build runs on what this deploy's manifest pins and its tree
\* asks for: never on plugins of two revisions or on wheels that an earlier
\* deploy has marked complete (prefetch.rs:117-119, 463-470).
BuildInputsPinned ==
    step = "build" =>
        /\ wheels.done /\ rev \in wheels.revs
        /\ \A p \in Plugins : placed[p] = rev

\* However often the seeding was killed and resumed over the parts it has left,
\* a zip the build trusts is whole, with all the files go looks for beside it,
\* except after the two ways in which goenv.rs does lose track: a part or an
\* assembly cut short, and a module given up after its zip.
SeededZipsWhole ==
    step = "build" =>
        \A z \in Zips :
            /\ ~short => zip[z].file = "whole"
            /\ ~orphaned \/ z = "toolchain" => zip[z].beside = Beside(z)

(***************************************************************************)
(* Why they hold: an inductive strengthening.                              *)
(***************************************************************************)
SeedsTyped ==
    /\ rev \in Nat
    /\ wheels \in [revs : SUBSET Nat, done : BOOLEAN]
    /\ staged \in [Plugins -> Nat] /\ placed \in [Plugins -> Nat]
    /\ zip \in [Zips -> [file : {"none", "empty", "cut", "whole"},
                         parts : [Segments -> {"none", "short", "whole"}],
                         beside : SUBSET {"ziphash", "info", "mod"}]]
    /\ \A z \in Zips : zip[z].beside \subseteq Beside(z)
    /\ left \subseteq Segments
    /\ short \in BOOLEAN /\ orphaned \in BOOLEAN

\* What each step of the deploy has made sure of for the ones after it.
InputsSoFar ==
    /\ step \in {"mark", "stage", "toolchain", "module", "build"} => rev \in wheels.revs
    /\ step \in {"stage", "toolchain", "module", "build"} => wheels.done
    /\ step \in {"toolchain", "module", "build"} => \A p \in Plugins : placed[p] = rev

\* Unless a part came short or a write was killed, a file that is neither absent
\* nor whole is being written just now, from parts that are all whole.
FilesWhole ==
    ~short =>
        /\ \A z \in Zips :
            /\ zip[z].file \in {"none", "whole"} \/ At(z, "write") \/ step = "failed"
            /\ At(z, "parts") => \A i \in Segments \ left : zip[z].parts[i] = "whole"
            /\ At(z, "write") => \A i \in Segments : zip[z].parts[i] = "whole"
            /\ At(z, "beside") => zip[z].file = "whole"
        /\ ~At("module", "retry")
        /\ step \in {"module", "build"} => zip["toolchain"].file = "whole"
        /\ step = "build" => zip["module"].file = "whole"

\* The module's zip may lack the files beside it only while they are on their
\* way; the toolchain's are completed before anything goes on.
BesideComplete ==
    /\ step \in {"module", "build"} => zip["toolchain"].beside = Beside("toolchain")
    /\ ~orphaned =>
        \/ zip["module"].beside = Beside("module")
        \/ step = "module" /\ sub \in {"write", "retry", "beside"}
        \/ step = "failed"
        \/ ~Usable("module") /\ step # "build"

SeedsInv == SeedsTyped /\ InputsSoFar /\ FilesWhole /\ BesideComplete
=============================================================================
