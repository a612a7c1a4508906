----------------------------- MODULE TreeDetect -----------------------------
(***************************************************************************)
(* Tree detection (hoster/detect.rs) from a cloned tree to a stored        *)
(* manifest: what the detector proposes, whether the panel may deploy it   *)
(* unattended, and what the manifest check (hoster/manifest.rs, through    *)
(* tui/wizard.rs build_manifest) says of it.                               *)
(*                                                                         *)
(* A tree is the set of facts the detector reads.  A command is a record   *)
(* of its tool, its verb and where it runs; a run command is the set of    *)
(* things its text contains that the manifest check looks for.             *)
(***************************************************************************)
EXTENDS Naturals, Sequences, SequencesExt

CONSTANTS MaxNotes,     \* placeholder notes kept per tree (4 in the code)
          MaxFindings   \* placeholder values a tree may hold

None == "none"

\* The facts of a package.json and the files beside it.
Packages ==
  [lock : {None, "bun", "pnpm", "npm"}, saysPnpm : BOOLEAN,
   deps : {None, "some", "framework"}, scripts : SUBSET {"build", "start"},
   broken : BOOLEAN]

\* The command a Procfile, a container asset or a Makefile declares: "opaque" is
\* one the renderer does not recognise as a server.
PyDecls == {None, "opaque", "server"}

\* What names the application: an entry point of the packaging, django's
\* manage.py, an application object found in the code.
PyTargets == {"script", "manage", "object"}

\* What the requirements offer to serve it with.
PyServers == {None, "server", "flask"}

Pythons == [decl : PyDecls, targets : SUBSET PyTargets, server : PyServers]

\* Where package main of a go module is, what its source says of the port (flags,
\* a PORT read, a literal listen address), and the web user interface that it
\* embeds: "orphan" is one no script of the repository builds.
GoMains == {None, "root", "cmd"}
GoSignals == [flags : SUBSET {"addr", "port", "env"}, listen : {None, "low", "high"}]
GoUis == {None, "orphan", "bun", "pnpm", "npm"}

Gos == [main : GoMains, says : GoSignals, ui : GoUis]

\* The placeholder values of the config files, and whether the line names the
\* variable that overrides it.
Findings == UNION {[1 .. n -> {"hinted", "bare"}] : n \in 0 .. MaxFindings}

\* The port of a config file or of an EXPOSE line, which is not checked.
Ports == {None, "low", "high"}

VARIABLES
  tree,    \* the facts of the cloned tree
  route,   \* what the user asked for: "auto" or "wizard"
  at,      \* "cloned", "detected", "refused", "review", "stored"
  draft    \* the draft the wizard and the store work on

detectVars == <<tree, route, at, draft>>

-----------------------------------------------------------------------------
(* The proposals *)

Step(head, verb, dir) == [head |-> head, verb |-> verb, dir |-> dir]

\* A proposal before the config files are searched for placeholders.
Proposal(profile, prefetch, build, says, source, port) ==
  [profile |-> profile, prefetch |-> prefetch, build |-> build,
   says |-> says, source |-> source, port |-> port, notes |-> <<>>]

node_evidence(p) ==
  p.lock # None \/ p.broken \/ p.deps # None \/ p.scripts # {}

node_manager(p) ==
  IF p.lock # "bun" /\ (p.lock = "pnpm" \/ p.saysPnpm) THEN "pnpm" ELSE "bun"

\* A start script is a declared command; a framework or any build step makes a
\* static server of the build directory; nothing at all is a guess.
detect_node(p) ==
  LET m == node_manager(p)
      script == IF "build" \in p.scripts THEN <<Step(m, "run", "root")>> ELSE <<>>
      build == IF m = "pnpm" THEN <<Step("pnpm", "install", "root")>> \o script
                             ELSE script
      fetch == Step(m, IF m = "pnpm" THEN "fetch" ELSE "install", "root")
      source == IF "start" \in p.scripts THEN "declared"
                ELSE IF p.deps = "framework" \/ build # <<>> THEN "static"
                ELSE "guess"
  IN Proposal("bun", <<fetch>>, build,
              IF source = "declared" THEN {} ELSE {"port", "static"}, source, "high")

\* Declared command, packaging entry point with a server, manage.py, an app
\* object with a server (or flask), and last a guess.
synthesise_python_run(p) ==
  IF \/ p.decl = "server"
     \/ "script" \in p.targets /\ p.server = "server"
     \/ "manage" \in p.targets
  THEN "declared"
  ELSE IF "object" \in p.targets /\ p.server # None THEN "located"
  ELSE "guess"

detect_python(p, port) ==
  Proposal("python", <<Step("python3", "download", "root")>>,
           <<Step("python3", "venv", "root"), Step("pip", "install", "root")>>,
           {"port", "loopback"}, synthesise_python_run(p),
           IF port = None THEN "high" ELSE port)

\* What the flags, a PORT read or a literal listen address make of the run
\* command: the literal wins over the flags.
go_run_says(says) ==
  {w \in {"port", "loopback"} :
     /\ says.listen = None
     /\ \/ w = "port" /\ "port" \in says.flags
        \/ /\ w = "loopback" /\ "addr" \in says.flags
           /\ "port" \in says.flags \/ "env" \notin says.flags}

\* Mutation: the interface is fetched but not installed.
FrontendUninstalled(g) ==
  IF g.ui \in {None, "orphan"} THEN [prefetch |-> <<>>, build |-> <<>>]
  ELSE [prefetch |-> <<Step("pnpm", "fetch", "web")>>,
        build |-> <<Step("pnpm", "run", "web")>>]

\* The user interface is fetched and built before the binary that embeds it.
go_frontend(g) ==
  LET m == IF g.ui = "bun" THEN "bun" ELSE "pnpm"
  IN CASE g.ui \in {None, "orphan"} -> [prefetch |-> <<>>, build |-> <<>>]
       [] g.ui = "bun" -> [prefetch |-> <<Step("bun", "install", "web")>>,
                           build |-> <<Step("bun", "run", "web")>>]
       [] OTHER -> [prefetch |-> <<Step("pnpm", "fetch", "web")>>,
                    build |-> <<Step("pnpm", "install", "web"), Step("pnpm", "run", "web")>>]

detect_go(g, port) ==
  LET signalled == g.main # None /\ (g.says.flags # {} \/ g.says.listen # None)
      ui == go_frontend(g)
  IN Proposal("go", ui.prefetch, ui.build \o <<Step("go", "build", "root")>>,
              IF signalled THEN go_run_says(g.says) ELSE {},
              IF signalled /\ g.ui # "orphan" THEN "declared" ELSE "guess",
              IF signalled /\ g.says.listen # None THEN g.says.listen
              ELSE IF port = None THEN "random" ELSE port)

\* In reading order: reading stops when MaxNotes notes were made; a value with a
\* documented override is overridden, one without becomes a warning.
placeholder_secret_findings(found) == SubSeq(found, 1, IF Len(found) < MaxNotes
                                                       THEN Len(found) ELSE MaxNotes)

\* The stack whose own evidence carries weight, or an error.
CarriesNode(t) == \E p \in t.pkg : node_evidence(p)
Recognised(t) == CarriesNode(t) \/ t.py # {} \/ t.go # {}

The(found) == CHOOSE x \in found : TRUE

detect_tree(t) ==
  LET base == IF CarriesNode(t) THEN detect_node(The(t.pkg))
              ELSE IF t.py # {} THEN detect_python(The(t.py), t.port)
              ELSE detect_go(The(t.go), t.port)
  IN [base EXCEPT !.notes = placeholder_secret_findings(t.found)]

-----------------------------------------------------------------------------
(* The manifest check *)

KnownTools == {"bun", "pnpm", "go", "python3", "node"}

\* Host-phase steps may only download.
validate_prefetch_step(s) ==
  \/ s.head = "bun" /\ s.verb = "install"
  \/ s.head = "pnpm" /\ s.verb = "fetch"
  \/ s.head = "python3" /\ s.verb = "download"
  \/ s.head = "go" /\ s.verb = "download"

\* build_manifest derives the tools from the steps.
manifest_tools(d) == {s.head : s \in ToSet(d.prefetch \o d.build)} \cap KnownTools

\* A step must use a declared tool, a host step may only download.
step_faults(d) ==
  {f \in {"tools", "prefetch"} :
     \/ f = "tools" /\ \E s \in ToSet(d.prefetch \o d.build) :
                          s.head \in KnownTools /\ s.head \notin manifest_tools(d)
     \/ f = "prefetch" /\ \E s \in ToSet(d.prefetch) : ~validate_prefetch_step(s)}

\* The run command takes the port and binds loopback (or is the static server),
\* the port is free to choose or unprivileged.
run_faults(d) ==
  {f \in {"placeholder", "loopback", "port"} :
     \/ f = "placeholder" /\ "port" \notin d.says
     \/ f = "loopback" /\ d.says \cap {"loopback", "static"} = {}
     \/ f = "port" /\ d.port = "low"}

build_manifest_faults(d) == step_faults(d) \cup run_faults(d)

-----------------------------------------------------------------------------
NoDraft == Proposal(None, <<>>, <<>>, {}, None, None)

\* Representatives of the stacks a tree holds beside its main one: a python
\* application and a package.json of development tools only.
APython == [decl |-> "server", targets |-> {}, server |-> "server"]
ATool == [lock |-> None, saysPnpm |-> FALSE, deps |-> None, scripts |-> {},
          broken |-> FALSE]

Tree(pkg, py, go, port, found) ==
  [pkg |-> pkg, py |-> py, go |-> go, port |-> port, found |-> found]

DetectInit ==
  /\ \E found \in Findings :
       \/ \E p \in Packages, py \in {{}, {APython}} :
            /\ p.broken => p.deps = None /\ p.scripts = {} /\ ~p.saysPnpm
            /\ tree = Tree({p}, py, {}, None, found)
       \/ \E p \in {{}, {ATool}}, py \in Pythons, port \in Ports :
            tree = Tree(p, {py}, {}, port, found)
       \/ \E p \in {{}, {ATool}}, g \in Gos, port \in Ports :
            tree = Tree(p, {}, {g}, port, found)
       \/ tree = Tree({}, {}, {}, None, found)
  /\ route \in {"auto", "wizard"}
  /\ at = "cloned"
  /\ draft = NoDraft

\* detect_url: the tree is inspected, or nothing fits and the reason is shown.
Inspect ==
  /\ at = "cloned"
  /\ IF Recognised(tree)
     THEN at' = "detected" /\ draft' = detect_tree(tree)
     ELSE at' = "refused" /\ UNCHANGED draft
  /\ UNCHANGED <<tree, route>>

\* The autopilot deploys what is confident and has no warning.
MayDeployAlone ==
  /\ route = "auto"
  /\ draft.source # "guess"
  /\ "bare" \notin ToSet(draft.notes)

\* DetectDone: stored and deployed unattended, when the manifest validates...
AutoStore ==
  /\ at = "detected"
  /\ MayDeployAlone
  /\ build_manifest_faults(draft) = {}
  /\ at' = "stored"
  /\ UNCHANGED <<tree, route, draft>>

\* ... and opened in the wizard otherwise.
OpenWizard ==
  /\ at = "detected"
  /\ ~MayDeployAlone \/ build_manifest_faults(draft) # {}
  /\ at' = "review"
  /\ UNCHANGED <<tree, route, draft>>

\* The user corrects the run command or the port on the review screens.
Correct ==
  /\ at = "review"
  /\ \/ draft' = [draft EXCEPT !.says = {"port", "loopback"}, !.source = "declared"]
     \/ draft' = [draft EXCEPT !.port = "random"]
  /\ UNCHANGED <<tree, route, at>>

\* Saving from the review screen validates the same draft.
SaveReviewed ==
  /\ at = "review"
  /\ build_manifest_faults(draft) = {}
  /\ at' = "stored"
  /\ UNCHANGED <<tree, route, draft>>

DetectNext == Inspect \/ AutoStore \/ OpenWizard \/ Correct \/ SaveReviewed

DetectSpec == DetectInit /\ [][DetectNext]_detectVars

-----------------------------------------------------------------------------
(* Properties *)

Before(s, x, y) == \E i, j \in DOMAIN s : i < j /\ s[i] = x /\ s[j] = y

\* The build has no network, so what it needs was fetched before it and
\* installed earlier in it: a project script runs only where its packages were
\* installed (by bun in the host phase, by pnpm offline from a filled store),
\* and a binary that embeds a user interface is built after that interface.
Provided(d) ==
  /\ \A s \in ToSet(d.build) :
       s.verb = "run" =>
         IF s.head = "bun" THEN Contains(d.prefetch, Step("bun", "install", s.dir))
         ELSE /\ Contains(d.prefetch, Step("pnpm", "fetch", s.dir))
              /\ Before(d.build, Step("pnpm", "install", s.dir), s)
  /\ \A s \in ToSet(d.build) :
       s.dir = "web" => Before(d.build, s, Step("go", "build", "root"))

OfflineBuildProvided == at \in {"detected", "stored"} => Provided(draft)

\* What the detector proposes for the host phase is what the manifest check
\* lets run there: a detected draft is never refused for its fetch steps or
\* its tools, so a refusal always names something the user can answer.
HostStepsAccepted ==
  at = "detected" => build_manifest_faults(draft) \cap {"prefetch", "tools"} = {}

(***************************************************************************)
(* Why they hold: what the detector fetches and builds is one of eight     *)
(* plans, and neither the wizard nor the store changes that part of it.    *)
(***************************************************************************)
Plans ==
  {<< <<Step("bun", "install", "root")>>, <<>> >>,
   << <<Step("bun", "install", "root")>>, <<Step("bun", "run", "root")>> >>,
   << <<Step("pnpm", "fetch", "root")>>, <<Step("pnpm", "install", "root")>> >>,
   << <<Step("pnpm", "fetch", "root")>>,
      <<Step("pnpm", "install", "root"), Step("pnpm", "run", "root")>> >>,
   << <<Step("python3", "download", "root")>>,
      <<Step("python3", "venv", "root"), Step("pip", "install", "root")>> >>,
   << <<>>, <<Step("go", "build", "root")>> >>,
   << <<Step("bun", "install", "web")>>,
      <<Step("bun", "run", "web"), Step("go", "build", "root")>> >>,
   << <<Step("pnpm", "fetch", "web")>>,
      <<Step("pnpm", "install", "web"), Step("pnpm", "run", "web"),
        Step("go", "build", "root")>> >>}

DetectInv ==
  at \notin {"cloned", "refused"} =>
    /\ draft \in [profile : {draft.profile}, prefetch : {draft.prefetch},
                  build : {draft.build}, says : {draft.says}, source : {draft.source},
                  port : {draft.port}, notes : {draft.notes}]
    /\ <<draft.prefetch, draft.build>> \in Plans
=============================================================================
