# demo-ghostprovider in TLA+

demo-ghostprovider deploys self-hosted services on one Linux user account: it
clones a repository at a pinned commit, prepares caches on the host, builds
offline in a transient systemd unit, installs and starts a systemd user unit,
checks that it answers, and records it. Its central promise is *clean removal*:
whatever fails, is interrupted or dies, a service that was not deployed to the
end leaves nothing behind, and one that was is left alone. No single function
keeps that promise. It rests on an flock, a journal, a registry, an exit flag
and a timer, used by processes that know nothing of each other.

These modules model that machinery and the parts around it: how sources come to
disk and builds get their inputs, how a started unit is judged, what the panels
show, how services are shared. TLC checks them on small instances; TLAPS proves
the central promise, down to the refinement of an abstract life cycle, for every
number of sessions and services.

## 1. Inventory

### Processes

| process | threads | started by | source |
|---|---|---|---|
| panel (`tui`, `tui_v2`) | UI thread, one deploy worker | the user | `src/src/tui/`, `src/src/tui_v2/` |
| `__deploy --manifest` | main thread deploys, signal watchdog | a script | `src/src/main.rs:142-176`, `243-272` |
| `__cleanup` | one | systemd user timer | `src/src/main.rs:104-107` |
| `ghost-build-*`, `ghost-egress-*` | transient user units | sandbox, egress probe | `src/src/hoster/sandbox.rs`, `egress.rs` |
| `__cloudflared-supervisor` and its `cloudflared` | one share each | the panel | `src/src/networks/supervisor.rs` |
| `demo-*.service` | the deployed services | systemd | `src/src/hoster/units.rs` |

### Components

| component | state | operations | correct when |
|---|---|---|---|
| deploy pipeline (`hoster/deploy.rs`) | the stage of the attempt, `DEPLOY_IN_FLIGHT`, repair budget | gates, lock, journal, clone, prepare, build, install, start, verify, register; rollback; one repair retry | ends; leaves a registered running service, or nothing |
| reconciliation and sweep (`hoster/deploy.rs`) | a snapshot of the journal | `reconcile_stale_locked` at start and exit, `sweep_stale` from the timer | settles every interrupted deploy, touches no live or finished one |
| deploy lock (`hoster/lock.rs`) | flock on `deploy.lock` | try, drop, drop at death | one holder, a thread that is inside |
| journal (`hoster/journal.rs`) | `deploy-journal.json` | begin, mark, clear, entries | an entry for every live deploy; entry and free lock mean interrupted |
| registry (`state.rs`) | `state.json` | register, unregister, list, get | lists every unit left enabled |
| exit (`hoster/cancel.rs`, `main.rs`, `tui/mod.rs`) | `EXITING` | request, quiesce, join, reconcile | ends; settles its own deploy now |
| service actions (`tui/workers.rs`) | none | start, stop, restart, delete | delete removes everything of one service and nothing else |
| units (`hoster/units.rs`) | unit files, the user manager | create, start, poll, remove | a start is judged by its outcome, not by a race with the queue |
| tunnels (`networks/`) | `shares.json`, pid files, event logs | start, stop, refresh, sweep | no tunnel without a listed share; no foreign process killed |
| git clone, segmented fetch (`hoster/gitclone.rs`, `rawfetch.rs`) | the project tree, staged parts, marker | reuse, remove, list, fetch, assemble, retry, tarball | a tree of the pinned commit and of no other, or a failure |
| tools (`hoster/preflight.rs`, `toolcheck.rs`, `toolbox.rs`, `goenv.rs`) | what is installed, placed, stamped | check, provision, take over | a build has its tools at the version it demands |
| seeds (`hoster/prefetch.rs`, `goenv.rs`) | wheelhouse, plugins, zips with their parts and markers | fetch, stage, place, resume, give up | the offline build runs on this deploy's pins |
| child processes (`hoster/gitclone.rs`, `prefetch.rs`) | child, its group, its pipes | spawn, poll, kill, read | the caller comes back |
| HTTP client, resolver (`hoster/httpclient.rs`, `resolver.rs`) | hop, transport, cooldown | get, redirect, retry, resolve | ends; never off the allow list |
| tree detection (`hoster/detect.rs`, `manifest.rs`) | a draft | inspect, store, review | what a build needs is fetched and installed before it |
| manifest library (`hoster/library.rs`) | YAML files | import, save, replace, remove, patch by a deploy | the user's choices outlive a deploy |
| egress (`hoster/egress.rs`, `egress_detect.rs`) | allow list, filter of a unit, a probe | detect, resolve, probe, interpret | a verdict is of the filter that was tried |
| logs and records (`netlog.rs`, `crashlog.rs`, `atomic.rs`) | files with a cap, temporary files | record, rotate, replace | bounded; never half a write |
| panel (`tui/mod.rs`, `tui/workers.rs`, `tui/wizard.rs`) | screen, threads, inbox, heartbeat | keys, results, handover across `exec`, wizard, log views, watchdog | a screen shows the answer to its own question |
| second panel (`tui_v2/mod.rs`) | screen, threads, inbox | the same, fewer screens | the same |
| static server (`serve.rs`) | one connection | accept, read, answer | everybody who connects is answered |
| analyzer, recipes, verify, self-test, output, installer | none shared | pure or one-shot | not modelled, see section 8 |

### How they interact

The panel's worker, the `__deploy` main thread and the timer share
`deploy.lock`, `deploy-journal.json`, `state.json`, unit files, env files and
the trees under `services/`, and the systemd user manager. Inside one process
the worker and the other thread share `DEPLOY_IN_FLIGHT` and `EXITING`. The
panel's delete takes no lock. `quiesce` stops ghost units of the whole user
manager, whoever started them. Inside the panel, threads answer the UI thread
through one channel whose messages mostly carry no number; panels, deploys and
`$EDITOR` meet in the files of the library; every process writes the logs.

### What is hard

Interleaving of lock, journal and flag, which go up and down one after the
other; a crash between any two effects; builds that outlive their client; an
exit that waits for a bounded time only; a delete without the lock; a retry
over a running unit; `state.json` rewritten as a whole by processes that do not
wait for each other; fetches that are retried for ever. Around it: results that
arrive after the user has moved on; caches and parts that a killed deploy
leaves to the next; a unit polled before its job runs; retries without end over
links that come and go; deadlines that cover a child and not its helpers.
`PROJECT.json` lists each hazard at its line.

## 2. Modules

    DeployState      shared variables, constants, types; lock, journal, files
      DeployWorker   the deploying thread
      DeployMain     the other thread: start, reconciliation, exit, delete,
                     timer, crash, reboot
        DeploySystem the composition, fairness, all properties, refinement
          MCDeploy   constants and symmetry for TLC
          DeployProofs        theorems: types, lock
            DeployJournal     builds, journal, complete reconciliations
              DeploySurvival  live and finished deploys are left alone,
                              nothing is left unlisted
                DeployRefinement  the refinement of CleanRemoval
    CleanRemoval     the abstract life cycle of one service

    TunnelShare      public sharing of one service: panels, clean-ups,
                     supervisors and their cloudflared children
      MCTunnel       symmetry for TLC
      TunnelProofs   theorems: types, and one tunnel at a time

    MCParts          one of eleven parts that share no state:
      PanelScreens   screens, worker threads, handover across exec
      PanelWizard    the steps of the new-service wizard
      PanelLogs      deploy.log, its writers, its tail, its view
      ManifestShelf  one manifest under everything that writes it
      SourceFetch    clone, segmented fetch, reuse, fallbacks
      BuildTools     preflight, tool doctor, toolbox, toolchain
      BuildSeeds     wheels, plugins, Go modules before the offline build
      TreeDetect     from a tree to a stored manifest
      EgressPolicy   detected hosts, filter, live check
      RecordFiles    state.json, net.log, crash.log in several processes
      CompanionPanel the second panel
      PanelProofs    theorems about PanelScreens, PanelWizard, PanelLogs,
                     ManifestShelf and CompanionPanel
      BuildProofs    theorems about SourceFetch, BuildTools, BuildSeeds,
                     TreeDetect, EgressPolicy and RecordFiles

    MCEnds           one of five parts in which something must end:
      PanelWatchdog  heartbeat and stall watchdog
      HttpFetch      HTTP client and resolver
      ChildKill      a child under a deadline
      UnitStart      start, poll and probe of a unit, or its rollback
      StaticServer   the accept loop
      EndsProofs     theorem about UnitStart

**State.** `lock`, `journal`, `registry`, `unit`, `env`, `tree` are what is on
disk and in the user manager. `build` holds the services whose live deploy
waits for a ghost build, `orphans` those whose ghost build nobody waits for.
Per process, `wpc`/`wsvc` say where the deploying thread is and for which
service, `mpc`/`msvc` the same for the other thread; `flag` is
`DEPLOY_IN_FLIGHT`, `exiting` is `EXITING`, `repaired` the spent repair budget,
`todo` the journal snapshot of a reconciliation, `basis` its `ReconcileBasis`,
`hadEntry` what `remove_unit_and_state` read before it began. `rows` is, for each
thread between its load of `state.json` and its store, the rows it has read.
Three history variables serve the properties: `settled` holds services whose
last deploy was registered and not disturbed by the user since; `overlaid`
services on which an attempt was started over remains that nobody had rolled
back; `mislaid` services whose row another thread's store has lost or brought
back, until their own next store.

`TreeOf` is the directory a service is cloned into. The code forms it from the
name of the repository without its owner (`deploy.rs:23`), so that services may
share one, and the model lets them: what is said of trees is said of services
that are `Alone` in theirs.

**Actions.** One action per stretch of code between two effects that another
process, or a crash, can tell apart. `Step(p, "from", "to")` moves the worker,
`MStep` the other thread. The order of the actions is the order of the code:
flag before lock before journal on the way in (`deploy.rs:309-319`), journal
before flag before lock on the way out (`396-407`). Names of points follow the
code: `exitcheck` is `deploy.rs:320`, `mark`/`register`/`mark2` are `1127-1139`,
`rbUnit`/`rbEnv`/`rbTree` are `rollback_failed`, `rcUnit` to `rcClear` are
`cleanup_stale` and the clear after it. An update of `state.json` is two actions,
a load and a store (`state.rs:46-57`): `Register` and `StoreRow` of the worker,
`CleanRegistry` and `CleanRow`, `DeleteRegistry` and `DeleteRow` of the other
thread, with every step of everybody else between them.

**Tunnels.** `TunnelShare` stands alone: sharing takes no lock and meets the
deploys only where a removal stops a share (`DeleteShare`). `rec` is the
service's record in `shares.json`, `supFile` and `childFile` the pid files,
`events` what `read_events` makes of the event log. A supervisor is named by its
start; `phase` says how far its `run_cli` is, `told` whether its stop flag is
up, `child` whether its `cloudflared` runs, `parent` which live panel the kernel
will report the death of. A call of a panel or a clean-up is a path of `pc`:
`fold` is `refresh_all`, `term` to `unlist` are `stop`, `wipe` to `mark` the rest
of `start`, `swTerm` to `swKill` are `sweep_orphans`,
`quit` the end of the process. `goal` tells which of these
a call goes through, `snap` is the record it read (in a panel at rest, the row
on the screen), `victim` the supervisor it waits for or has just started.
`forked` is history: a panel was killed between `fork` and `prctl`.
`cloudflared` is external: it prints a URL, or ends, at any time or never.

**The parts.** Each of the other modules stands alone. They are checked in two
runs: `MCParts` and `MCEnds` choose a part in the initial state, and from then on
only that part moves. The parts share no variable, so their sum has each part's
reachable states and no others; a property `part = "x" => X!P` is `X!P` of that
part alone, and the fairness of `MCEnds` is that of the chosen part. In `MCParts`
the parts use the same slots `s1` to `s12`, by substitution; in `MCEnds` their
variables have their own names.

| module | state, in the code | actions, in the code |
|---|---|---|
| `PanelScreens` | `scr`: `Screen` with its spinner; `jobs`, `inbox`: threads and the `Msg` channel; `pending`: `pending-action.json`; `stale`: a newer binary | keys per screen, `Finish` of a thread, `Drain` of the channel, `Install`, `ExecFails`, `Kill`, `Launch` |
| `PanelWizard` | `step`, `typed`, `draft`: the wizard's screens and `wizard::Draft` | `Enter` checks and goes on, `Esc` keeps and goes back, `Save` |
| `PanelLogs` | `file`, `view`, `lines`, `tail`: `deploy.log`, `deploy_history` and the tailing thread with its offset; `late`: threads told to stop that have not looked at their flag yet | `CheckSize`, `Cut`, `AppendLine` of `append_deploy_log`; `Poll`, `SendLine` of the tail, `LateRead`, `LateSend` of a stopped one; open, leave, clear |
| `ManifestShelf` | `file`, `dep`, `win`: the YAML file, the copy of a deploy, the copies of open windows | form, egress list, `$EDITOR`, import; every `persist_manifest` of a deploy |
| `SourceFetch` | `tree`, `parts`, `queue`, `wk`: the project directory and the staging of the materializer | `Clone` to `Return` of `gitclone.rs`, `Listed` to `WriteMarker` of `rawfetch.rs`, `BuildWrites` of a deploy's build, removals that stop half way, `Killed` anywhere |
| `BuildTools` | `have`, `box`, `lead`: host tools, the toolbox with its stamps, the PATH | `preflight_check`, `check_findings`, `TakePlaced`, `PlaceTool`, `write_stamp`, `go_toolchain_env` |
| `BuildSeeds` | `wheels`, `staged`, `placed`, `zip`: the caches in the project's tree | `mark_pip_wheelhouse`, `StagePlugin`, `PlacePlugin`, the parts of a zip, `Killed`, `Redeploy` |
| `TreeDetect` | `tree`: the facts the detector reads; `draft` | `Inspect` (the whole of `detect`), `AutoStore`, `Correct`, `SaveReviewed` with the faults of `validate` |
| `EgressPolicy` | `engines`, `allow`, `plan`, `kept`, `unit`, `check` | `DetectPlan`, `FilterOne`, `ResolveAll`, `CreateUnit`, `StartCheck`, `ProbeBeat`, `Interpret` |
| `RecordFiles` | `state`, `temps`, `net`, `crash` | `Load`, `WriteTemp`, `Rename` of `write_atomic`; stat, rotate and append of `netlog.rs`; the four steps of `crashlog.rs`; a failure of each |
| `CompanionPanel` | `scr`, `inbox`, `threads` | as `PanelScreens` |
| `PanelWatchdog` | `at`, `paused`, `booted`, `moved`: the UI thread, `WATCHDOG_PAUSE`, `LOOP_TICKS` | a pass, the pauses, `Watch` in its two reads |
| `HttpFetch` | `site`, `rq`, `cooling`, `env`: where a URL leads, a request's hop and transport, the DoH cooldown, the link | `FetchStep` (attempt, redirect, retry, a slow fetch begun again), `EnvChanges`, `CooldownEnds` |
| `ChildKill` | `caller`, `child`, `helper` | poll, deadline, kill of the child alone, grace, read to the end |
| `UnitStart` | `svc`, `sock`, `unit`, `app`, `pc`: the user manager and the deploy | stop, write, start, `wait_until_active`, the probes of `port.rs`; jobs, restarts and clients beside it |
| `StaticServer` | `backlog`, `client`, `loop` | `Accept`, `Read`, `ReadTimeout`, `Write` |

What the parts leave to each other: `DeployWorker` has the clone, the tools, the
seeds and the start as one step each that succeeds or fails, `PanelScreens` the
deploy as a thread that ends. Texts, versions and hosts are numbers, model
values or sets of facts; a log line is the number of its append, the content of
a file the sequence of its blocks.

**Abstractions.** A process id is never reused. An event and the pid files are
written in one step each, the two lines that end a run of `cloudflared` in one.
A fold reads events and saves the record in one step, after it loaded the
record in an earlier one. One service is shared. A tree is absent, partial or
whole; removing it fails (leaves it partial) only while a ghost build writes
into it, which is when `force_remove_all` meets an entry that was not there
before. Host-side phases between clone and build (pin marker, tool doctor,
toolbox, prefetch, seeds) are one point that succeeds or fails. Several build
steps count as one. The ports, the tunnel stop and the daemon reload inside a
removal have no effect on the modelled state. An update of the journal is one
step here, one of the registry two; see section 7. What a build adds to a tree
is left out of `SourceFetch`, what it makes of the files of the commit is not.

**The abstract specification.** `CleanRemoval` knows one phase per service:
`gone`, `up`, `row` (an entry of the registry without its unit or tree), `husk`
(a tree and nothing else), `leaked` and `mislaid` at rest; `deploying`,
`overlaying`, `committed`, `deleting`, `purging` while somebody answers for it.
It allows `leaked` only after `overlaying`, and `mislaid` (the row of the service
was lost, or came back) only while another service is worked on or mislaid
itself; the next store of the service's own row ends it. With one service
nothing is ever mislaid. `DeploySystem!Phase` maps the state, and
`RefinesCleanRemoval` says the system implements it.

## 3. Runs

| run | instance | shows |
|---|---|---|
| `sessions` | 2 sessions, panel or `__deploy`, timer, 1 service, exits that give up waiting | lock contract, journal entries of live deploys, builds under lock, survival of finished deploys, no disturbance of live ones, complete reconciliations |
| `services` | 1 panel, timer, 2 services, patient exits; after a row is mislaid, the next deploy is of that service | refinement of `CleanRemoval` with two journal entries at a time and deletes that overwrite rows; no exit defers to its own worker |
| `liveness` | 1 session of either kind, timer, 1 service with the repair retry, fairness | while the network may never answer: an exit ends; where fetches end: interrupted deploys are settled, deploys end; units are accounted for |
| `redeploy` | 1 panel, 1 service | *violated*: a crash early in a redeploy costs a running service |
| `repair` | 1 panel, 1 service with the repair retry | *violated*: a refused repair leaves a running unit unlisted |
| `cliexit` | 1 `__deploy` | *violated*: its watchdog defers to its own deploy |
| `quiesce` | 2 panels | *violated*: an exit stops the build of another session |
| `tunnel` | 1 panel, 1 clean-up, 2 supervisors, calls one after the other | no hidden tunnel, no row on old events, nothing left by an exit |
| `tunnelends` | 1 panel, 1 clean-up, 1 supervisor, calls that overlap, fairness | a tunnel ends with its panel; what only a pid file tells of is swept |
| `timer` | 1 panel, 1 clean-up, 1 supervisor | *violated*: the timer stops a share of a running panel |
| `parts` | the eleven parts of `MCParts`, each from all its initial states | fifteen properties: screens, wizard, log views, library, sources, tools, seeds, detection, egress, records, second panel |
| `ends` | the five parts of `MCEnds`, each under its fairness | five things that must end, and that no verdict on a unit is wrong |

The runs `sessions`, `services`, `liveness`, `tunnel`, `tunnelends` and `parts`
explore between 70 thousand and 3 million distinct states, `ends` 8.5 thousand.
`parts` and `ends` allow deadlock: a part stops where the code does (a clone has
returned, a manifest is stored, a bound on jobs is used up).

The constant `Overlap` of `TunnelShare` lets the calls of two processes
interleave. Nothing in the code prevents it, and the safety properties do not
survive it (two panels that start a share of one service at once leave one of
two tunnels unlisted: `put` overwrites), so `tunnel` has it FALSE: what it shows
is that supervisors, crashes and reboots alone, in any order between and inside
the steps of one call, do no harm. Two supervisors show an old share beside its
successor; `start` waits for the old one, so a third meets the second only.
`Sups` is a bound: each start uses one, and a run ends when all are used.

**Bounds and why they are enough.** All interaction goes through one lock, so
three contenders (two sessions and the timer), each with two threads, show
every order of hold, wait and take-over; a third session would repeat the
second. Services meet in the journal (the list a reconciliation works through)
and in the ghost units a sweep stops; two give a list with a rest. One service
in the run with two sessions, and one session in the run with two services,
keep each run within minutes. No counter is bounded: the state is finite. In
`services` the constraint `RepairNext` (`MCDeploy.tla`) leaves out only states
after a lost update, in which a deploy of the other service has begun before
one of the mislaid one. With a single session a row can come back there (a sweep
stores what it loaded before a delete) but no running service can lose its own:
that takes a deploy and a delete of two sessions over two services, which is out
of TLC's reach here and within that of the proofs of section 6, which have
none of these bounds. The trees of the runs are the services' own; the proofs
let them be shared.

The bounds of `parts`, by module:

| module | bounds | what they let happen |
|---|---|---|
| `PanelScreens` | 2 `Targets`, `MaxJobs` 2 | a late result of the first job meets the screen of the second, of the same target or another |
| `PanelLogs` | 2 `Writers`, 1 `Stopped`, `Cap` 1, `Keep` 1, `MaxLines` 3 | two writers that have both seen the file too long; a file cut under a tail; a stopped tail behind a new one |
| `ManifestShelf` | 1 window | a deploy against a window; two windows meet in the file only, as the deploy and one do |
| `SourceFetch` | 2 `Versions`, files of 0, 2 and 3 blocks, one file ignored, `Segment` 2, 2 `Workers`, `CloneRetries` 2 | an empty file, a full last segment and a short one; a branch that moves between two segments; a build that rewrites, or removes, a file that `ls-files` lists or does not |
| `BuildTools` | versions up to 2 | too old, just right, missing; a pin older or newer than the stamp |
| `BuildSeeds` | 2 zips of 2 parts, 2 plugins, 2 `Revisions` | a kill between two parts, between two plugins, between two deploys |
| `TreeDetect` | `MaxNotes` 1, `MaxFindings` 2 | all combinations of the facts the detector reads |
| `EgressPolicy` | 2 core and 1 niche host, `MaxHosts` 2, `MaxEngines` 3 | a list over its cap, by either kind |
| `RecordFiles` | 2 processes, `Rotate` 2, `KeepCrash` 1, 5 records | both past the size check when the first one cuts |
| `CompanionPanel` | 2 scans, 2 deploys, 2 openings, 2 journal lines | an answer that finds the next question on the screen |

Those of `ends`: `MaxRedirects` 2 and one restarted body in `HttpFetch` (a chain
that ends within the limit and one that passes it; requests meet nowhere but in
the network, so one is enough); `Grace` 3 in `UnitStart`, as `wait_grace`, and
`JobDelay` 3: the user manager runs a queued job before the grace period ends,
which is what that period relies on; `Budget` 5 polls instead of 60, past the
grace period; 3 `Clients` of
`StaticServer` (the one that waits, and two that stay silent before it).

**Two constants describe surroundings.** `CarefulUser` keeps a delete, stop or
start away from a service that is being deployed and a delete away from what an
interrupted deploy left (the panel itself takes no command while its own deploy
is on screen, `tui/mod.rs:1367-1372`; two sessions can still collide, which the
code does not guard against). It is TRUE in all runs. `PatientExit` says that
the bounded waits of an exit (3 s for the flag, 2 s for the thread) last long
enough; FALSE lets them end at any time. `NoSelfDeferral` needs it TRUE, all
other properties are checked with it FALSE or do not depend on it, except that
`services` has it TRUE for both of its properties.

**Fairness.** Weak fairness of each thread's own steps, but not of a worker
that fetches (`Fetching`: the commit and the source, missing tools, toolchains
and modules): fetches are retried without end (`deploy.rs:683-688`,
`goenv.rs:239-246`, `300-332`), so nothing makes a worker leave such a step.
`DeployEnds` and `InterruptedIsCleaned` are therefore promises of runs in which
fetches end (`FetchesEnd`); `ExitEnds` is not, since a quiesce gives up on the
worker after 3 s, for which `QuiesceDone` is strongly fair. Elsewhere threads
are scheduled and a phase ends by its own timeout if need be (`RuntimeMaxSec`
for builds, the start budget). Weak fairness of the end of an orphaned build,
for the same reason. Strong fairness of the sweep's start: the timer fires
again and again and does not meet the lock each time. In `TunnelShare`, weak
fairness of every supervisor and every call, whose waits have deadlines, and of
the timer. None is assumed of the user, of what `cloudflared` prints, of
crashes or of a new session. `InterruptedIsCleaned` holds once crashes stop,
since a machine that dies in every sweep settles nothing; so does
`LostSharesAreSwept`. In `ends`: the watchdog thread runs, and a wedged loop
spins long enough to be sampled; a fetch's thread runs, its cooldown passes,
and a listed host that is reached again and again, as the same hop of a
request, answers in the end (strong fairness: the link may go and come back);
the caller of a child runs and SIGKILL takes effect, but neither child nor
helper must end; a deploy's polls go on and the user manager runs the job it
queued, while apps and clients owe nothing; the server's loop runs and a client
that has begun to read goes on. `Mishap` is careful to leave out the ordinary
ends of processes: a step that is a reboot and an exit at once counts as the
exit, or the assumption would forbid the timer to finish.

## 4. Properties

Deploys, safety: `LockContract`, `JournalTracksDeploys`, `LiveBuildsAreLocked`,
`FinishedDeploysSurvive`, `UnitsAreAccounted`. Steps: `DeployUndisturbed`,
`ReconcileSettlesAll`, `NoSelfDeferral`. Liveness: `InterruptedIsCleaned`,
`DeployEnds`, `ExitEnds`. Refinement: `RefinesCleanRemoval`. Tunnels:
`NoHiddenTunnel`, `LiveRowsPublished`, `ExitLeavesNothing`, and the liveness
`TunnelsDieWithPanel`, `LostSharesAreSwept`.

What the code lets happen to a service between two steps of its own is excepted
by name. A row that another thread's store has overwritten takes its service
out of `settled` and into `mislaid`: `FinishedDeploysSurvive` and
`UnitsAreAccounted` say nothing of it until it is stored again, and
`DeployUndisturbed` lets a row change in this way. The tree of a service is
promised to it by `FinishedDeploysSurvive`, `DeployUndisturbed` and the phases
of `CleanRemoval` where it is `Alone` in its directory. `DeployEnds` and
`InterruptedIsCleaned` are promised if fetches end.

The parts, with the exceptions the code makes necessary; each exception is a
history variable or a disjunct of the property, and section 5 says where it comes
from:

| property | promise | except |
|---|---|---|
| `SpinnersHaveWorkers` | a screen that waits has a thread that will end it; a deploy worker runs only behind its own unfinished screen | |
| `ConsentDeploysOnce` | one consent starts one deploy at most, also across the handover to a newer build | |
| `ReviewAsConfirmed` | the review holds the answers last confirmed, after any walk back and forth | |
| `ShownInOrder` | log lines appear in order and once | after a re-read behind a running tail, a view opened before the tail of the last one has noticed its end, or a late cut (`mixed`) |
| `UserListKept` | no step of a deploy refills an egress list the user took over | if the user wrote it while the deploy ran (`late`) |
| `PinnedTreeKept`, `UnpinnedTreeWhole` | a clone that downloads leaves the files of the pin, or every file whole; one that reuses a tree lets no file of another commit through, and misses none | a reused tree: files that a build has rewritten, or that are ignored and gone (`Unseen`); after a kill or a failed removal that left a commit without an index (`torn`) |
| `UsedToolsMeetTheBar` | a build has its tools at the version the doctor asked for | |
| `BuildInputsPinned` | the offline build runs on plugins and wheels of this deploy | |
| `SeededZipsWhole` | a zip the build trusts is whole, with the files beside it | a part or an assembly cut short (`short`), a module given up after its zip (`orphaned`) |
| `OfflineBuildProvided` | what a build step needs was fetched and installed before; proposed host steps pass the check | |
| `LockedIsProved` | "blocked" is said of a filter that stopped something | no free local address (`starved`), no control host left |
| `CoreSurvivesTheCap` | the cap on a detected list costs niche hosts first | |
| `LogsStaySmall` | a log exceeds the size it is cut at by one line of each process at most; `state.json` is never half a write | of the logs, one more line for each cut that has failed since the last that worked (`missed`) |
| `AnswersAreTheirOwn` | a screen of the second panel shows the answer to its own question | |
| `WedgedPanelEnds` | a panel whose terminal vanished ends, whatever pauses came before | |
| `FetchEnds` | a fetch whose redirects stay on the list ends once the link stays up | one that is led back to a host it has been to needs the system resolver too |
| `KilledRunsReturn` | a run under a deadline returns, whether its child ends, hangs or ignores the first kill | while a helper of the child holds its pipes |
| `StartEnds`, `VerdictsAreRight` | a deploy reaches a verdict on its unit; success means an app of the new unit, a healthy unit is not taken for crashed | a client woke the old unit (`poked`), a probe in the pause before a restart (`gap`) |
| `ConnectedIsAnswered` | who connects is answered, behind clients that stay silent | |

Each is stated, with the code it is
about, in `DeploySystem.tla`, `TunnelShare.tla` or the module of its part. Each
has a mutant of the code
(an operator just above the one it mutates, commented "Mutation") under which
TLC finds it violated: a lock guard bound to `_`, a `stale_action` that ignores
the registry, a rollback that forgets the env file, an exit that skips the join.

## 5. Where the code departs from its comments

Five runs end in a violation, each of a sentence in a comment or in the README;
`PROJECT.json` quotes them.

1. *Redeploy* (`deploy.rs:1586`). A redeploy journals a live service as
   `Deploying`. A crash before the new registration makes the next
   reconciliation remove the old, perhaps still running, instance, although
   `stop_existing` was written so that an interruption leaves it intact.
2. *Repair* (`deploy.rs:1068`). A repair request returns with the unit running
   and nothing rolled back; when the retry does not happen, or ends before its
   clone, the failed deploy leaves the unit enabled, unregistered, unjournaled.
3. *Exit of `__deploy`* (`main.rs:261`). The watchdog waits for the flag and
   not for the thread; there are windows on both sides of the flag in which the
   lock is held by the process itself, or the worker has not begun yet.
4. *Quiesce* (`deploy.rs:1803`). It stops ghost units without the lock. A
   session about to be refused the lock has its flag up already.

5. *Timer* (`main.rs:105`). `__cleanup`, every 15 minutes, starts with
   `stop_all` and so ends the shares of a running panel.

Others need no run. A supervisor whose panel dies between `fork` and `prctl`
hears of no death (`supervisor.rs:129`): `LostSharesAreSwept` says how far the
timer makes up for it. A row of a service that is not deployed any more can be
started once it has stopped (`supervisor.rs:297`), which the comment on `rows`
excludes. A deploy started over leftovers clears their journal entry
even when it ends before it has cleaned or rolled back anything
(`deploy.rs:320-323`, `449-494`). `UnitsAreAccounted` states what is left of
the promise: nothing unlisted remains, unless an attempt was started over the
remains of another and gave up without a rollback.

An error of the registration is dropped (`deploy.rs:1138`): the next line marks
the entry registered, and the unit runs in no registry and no journal. Two
services whose repositories differ only in their owner share a clone directory
(`deploy.rs:1639`), and the clean-up of one wipes the tree of the other: the
properties speak of the trees of services that are `Alone`.

`register` and `unregister` load `state.json`, edit it and store it as a whole,
with no lock of their own (`state.rs:46-57`), and a delete does so without the
deploy lock (`deploy.rs:1539`, `1567`). Beside a deploy, a sweep or another
panel's delete, the row of another service can come back or go: a service that
no longer exists is listed, or a running one is not. A row that goes between the
registration of its service and the mark after it (`deploy.rs:1128-1139`) turns a
crash there into a teardown of what was just deployed. `RefinesCleanRemoval` and
the theorems say that nothing worse follows (`mislaid`).

Fetches are retried for ever and look at no flag while they do: an exit leaves
a deploy that waits for the network behind, for the next reconciliation.

In the parts:

- `Msg::DetectDone` carries no number (`tui/mod.rs:806`): a user who leaves a
  detection and comes back gets the earlier tree's result.
- `exit_with_reconcile` stops shares before it pauses the watchdog
  (`tui/mod.rs:1083`), which may then end an orderly exit.
- The kill at a child's deadline is sent to the positive pid
  (`gitclone.rs:517-519`, `528-531`, `prefetch.rs:368-372`, `379-383`) and so hits
  the child alone, where the comments beside it speak of the group. A helper that
  holds the pipes keeps the caller for as long as it runs.
- The cooldown of the DNS-over-HTTPS fallback is tested before its cache and
  starts after a success too (`resolver.rs:139`): with the system resolver gone
  and no proxy, a request led back to a host it has been to fails in every retry.
- A kill of `git` in its checkout, or between the index and `.git/HEAD` in a
  removal, leaves a tree that counts as intact (`gitclone.rs:159`). So does a
  removal that fails half way, whose result nobody looks at (`210-212`).
- A reused tree is what the last build has left, as `deploy.rs:1179` knows: the
  check asks git for files that are gone and not for files that have changed,
  and git does not list those that the tree's own `.gitignore` names.
- A thread that tails a log looks at its flag before it reads and before each
  line (`tui/mod.rs:3129-3156`): leaving the view and opening it at once can show
  a line twice.
- A rename of `net.log` that fails is dropped and the record appended to the file
  as it is (`netlog.rs:150-156`), which the comment there intends; the log then
  grows until a rename works.
- `dedup_by_key` keeps the first demand for a tool, not the highest
  (`toolcheck.rs:383`).
- A zip of 32 bytes or more is taken for complete, and is assembled in place
  (`goenv.rs:388`).
- A deploy writes its own copy of the manifest over what the user saved meanwhile
  (`deploy.rs:375`).
- A `package.json` without scripts is confidently static under pnpm
  (`detect.rs:237`).
- The read timeout of the tunnel probe passes in the pause before a restart
  (`port.rs:133`).
- The static server has no write timeout (`serve.rs:29`).

## 6. Proofs

All for any values of the constants (`Sessions`, `Services`, `Trees`; of
`TunnelShare`, `Panels`, `Cleaners`, `Sups`; of `MCParts` and `MCEnds`, those
listed there), from the assumptions that the modules state about them.
`CarefulUser` (section 3) is the hypothesis of `JournalSafety` and of all below
it in the first list. Nothing is assumed of `TreeOf`, nor of who stores
`state.json` when.

- `TypeCorrect` (`DeployProofs`): `TypeOK` is inductive. One lemma per group of
  actions, one case per action.
- `LockSafety` (`DeployProofs`): `LockContract` is inductive given `TypeOK`.
  `WorkerMoves` and `MainMoves` sum up what one step of a thread may do to the
  lock and to its place; the contract follows from them. Death drops the lock
  with its holder only.
- `ExitNotDeferred` (`DeployProofs`), the step property `NoSelfDeferral`: from
  `ExitJoined`, a panel that reconciles to exit has no deploy left, so the lock
  that this reconciliation finds is not its own. Hypotheses: `PatientExit`
  (section 3), and no `__deploy` process: that one waits for the flag of its
  worker only, which then still has to drop the lock.
- `LiveBuildsSafety` (`DeployJournal`): inductive given `LockContract`. A build
  starts with its worker under the lock and ends with it; a sweep that takes
  the lock finds it free, so there is no live build to stop.
- `JournalSafety` (`DeployJournal`): `JournalTracksDeploys` is not inductive: a
  delete clears an entry without the lock. The strengthening adds
  `DeletesApart`, no delete of a service being deployed, which `CarefulUser`
  keeps at both ways in. Reconciliations are excluded by `LockContract`.
- `ReconcileCompletes` (`DeployJournal`): the step property
  `ReconcileSettlesAll`, from `SnapshotCovers`: between its snapshot and its
  end, a reconciliation has every journal entry on its list, or is cleaning it
  at this moment. Entries are only added under the lock, which it holds.

- `DeploysUndisturbed` (`DeploySurvival`): from lemmas on reach. A worker
  changes nothing but its own service and that only under the lock
  (`WorkerReach`); a main thread changes what it cleans or deletes, what it
  forgets under the lock, or what the user may handle (`MainReach`). For the
  service of a live deploy all of these are excluded, by the lock, by
  `DeletesApart` and by the careful user (`LiveOutOfReach`). The registry is
  what all of them reach: whoever stores a row of its own leaves the row of
  another as it is, or mislays it (`StoreReach`, `RowReach`).
- `SurvivalSafety` (`DeploySurvival`): `FinishedDeploysSurvive` is not
  inductive. `Survival` adds what a worker has built up by each point on its way
  to the registration (`Ripens`), that the journal never says "deploying" of a
  finished deploy (`Kept`), and that no clean-up has one at hand or on its
  snapshot as interrupted, nor a delete (`Spares`). A mislaid row ends the
  promise: between the registration and the mark too, where the journal would
  tell of a live service what only the registry can deny.
- `AccountsSafety` (`DeploySurvival`): `UnitsAreAccounted` looks at a state; what
  keeps it true is what each thread has seen to before it clears an entry.
  `LeavesListed` says it of a worker (registered, or rolled back, or attempted
  over remains), `LeavesBare` of a reconciliation or delete (unit and env file
  are gone before registry entry and journal entry; its snapshot is still true),
  `Answered` of each service that is not mislaid.
- `RefinementHolds` (`DeployRefinement`): `Spec => RefinesCleanRemoval`, from all
  invariants above. A step that does not change a service, and one between two
  conditions of a journaled one, follow `CleanRemoval` whatever they are
  (`QuietStep`, `JournaledStep`); what is left is how an entry comes off the
  journal (`EntryGone`), where deletes begin and end (`MainFollows`), and that
  a store moves the rows of others only as `Mislay` and `Restore` allow
  (`RowsMove`): whoever stores is at work on a service of its own
  (`StorerWorks`).

- `TunnelTypes` (`TunnelProofs`): `TypeOK` of `TunnelShare` with `Roles`, a
  clean-up starts no share; whether or not calls overlap.
- `TunnelsListed`, `RowsPublished`, `ExitsClean` (`TunnelProofs`), for
  `Overlap = FALSE`: `NoHiddenTunnel`, `LiveRowsPublished` and
  `ExitLeavesNothing` from one invariant, `Sharing`. None of the three is
  inductive: they look at the record or at the tunnel, and what connects them is
  the supervisor. `AllNamed` says where a live one is known (in the record, in
  its pid file once its panel has died, in the hands of the panel that is about
  to list it), `CallSettles` that a call past its wait has ended the one before,
  and both that one supervisor acts at a time (`OneActs`). So the log is its own
  (`LogIsOwn`) and what is folded from it too (`RowIsOwn`). The one exception is
  a panel killed between `fork` and `prctl` (`forked`).

### The parts

`MCParts` and `MCEnds` are compositions of parts that share no state, so a
theorem about one is `PartsSpec => ...`, with the slots `s1`..`s12` for its
variables: an invariant says `part = "logs" => ...`, and the steps of the other
parts keep it because they keep `part`. The inductive invariant of a part stands
at the end of its module, beside the property, with what each conjunct is for;
TLC has checked each before it was proved. What the constants are assumed to be:

- `NewestAssumption`: versions are counted from 1. `TargetsAssumption`: the
  absent service is no service.
- `StepsAssumption`: the wizard asks each thing once, starts with the name, asks
  the source before the profile and all that a profile presets behind it.
- `SourceAssumption`: a pin is not the absent one, a segment has a length.
  `EgressAssumption`: both bounds are numbers.
- `LogsAssumption`, `RecordsAssumption`: what a cut keeps is not above the size it
  is made at (`DEPLOY_LOG_KEEP_BYTES` and `MAX_DEPLOY_LOG_BYTES` in
  `workers.rs`, the crash log's in `crashlog.rs`); finitely many processes.
- `PollsAssumption`: the grace is within the budget (`units.rs:560`), and the
  manager runs a queued job within the grace. The second part is the premise of
  the grace itself; without it `VerdictStep` is false.

The theorems:

- `LogsSafety` (`PanelProofs`): a line is the number of its append. What is
  shown, what is in the inbox and what the tail has read are three ordered
  sequences, each below the next (`InOrder`). It stays so because what the file
  holds beyond the tail's offset is newer than all three (`UnreadIsNewer`): an
  append is, and a cut takes lines from the front, so that it only moves lines
  to smaller offsets. The ways in which the code does show old lines behind new
  ones are what `mixed` excepts. `QuietWhenClosed` says why a re-read on opening
  is none of them, when the tail before it has gone: the inbox was drained before
  the key was read. Of tails that have been stopped at most one is still about
  to send (`OneBehind`), and what it sends is newer than all that is shown
  (`LateIsNewer`).
- `ScreensSafety` (`PanelProofs`): with `WorkerMeansDeployScreen`, a deploy's
  thread, or its result, means that the screen is its own and there is no other;
  so a result never ends another one's wait.
- `ConsentSafety` (`PanelProofs`): `owed` counts consents less deploys. It stays
  above zero because all that can still start a deploy unasked, an automatic
  detection or a parked action, has a consent of its own left (`ConsentsCover`),
  and a parked action is on disk only between handover and launch
  (`PendingParked`). The count is of a finite set of threads, for any number of
  them.
- `CompanionSafety` (`PanelProofs`): from `OneWorker`; this is why the message of
  a deploy needs no number.
- `ShelfSafety` (`PanelProofs`), an action property: from `MemoryCurrent`, a
  deploy knows what the file says of the list until it fills it in, unless the
  user wrote meanwhile.
- `ReviewSafety` (`PanelProofs`): `ReviewAsConfirmed` looks at the review
  only. On the way there every step before the one on screen is `Sound`
  (`ConfirmedSoFar`): it still shows what was confirmed, or it is a field of the
  source that a refusal threw away, which the building of the manifest misses.
- `SourcePinned`, `SourceWhole` (`BuildProofs`): every block in a staged segment
  has the number that the segment's place gives it (`PartsSound`), so that joined
  in order the segments are the file (`JoinedSegments`), whoever fetched which
  when; every file that is there is whole and of the commit the marker
  names, or a build's (`FilesSound`), and the marker is written only when all
  files are of the version that was asked for (`FreshSound`). A reuse is of a
  tree with the right marker and all files that git lists (`ReusedSound`). What a
  kill amid a checkout of git, or half a removal, leaves is the exception of the
  properties, `torn`.
- `ToolsSafety` (`BuildProofs`): a stamp for today's pin is of the tool that is
  placed today, because pins only grow (`StampsAreOld`); the rest is what each
  step has made sure of for the ones after it (`PassedSoFar`).
- `InputsSafety`, `ZipsSafety` (`BuildProofs`): `InputsSoFar` likewise.
  `FilesWhole` and `BesideComplete` say in which step a zip may be less than
  whole, or alone, and that nothing goes on from there.
- `DetectSafety` (`BuildProofs`): what the detector fetches and builds is one of
  eight plans (`Plans`), whatever the tree; neither the wizard nor the store
  changes that part of a draft; and each of the eight provides for its build.
- `CapSafety` (`BuildProofs`): the place of an entry is a bijection from the
  declared entries to 1..n (`PlacesFill`), so what the cap drops comes after
  everything it keeps, and a general engine only after general engines.
- `LockSeenSafety` (`BuildProofs`): every beat that reads "blocked" was refused
  by the filter or for want of local addresses (`BlockedIsFiltered`), over
  however many beats.
- `RecordsSafety` (`BuildProofs`): the length of a log is not inductive; what
  a process has decided to append counts as written, and every cut that failed
  is a line above the bound (`RoomLeft`). The proof counts processes by the
  cardinality of the sets they are in.
- `VerdictSafety` (`EndsProofs`), an action property: from `OldOnlyIfPoked`, what
  runs after the stops is the new unit unless a client woke the old one,
  `GapMeansCrash` and `StartedBefore`.

What attempts at a proof found in the models: `Poll` of `UnitStart` and one
branch of `ChildKill` had overlapping arms of a CASE, which TLC resolves in
order and TLA+ does not; the arms now exclude each other, as the `if`s of the
code do. `Beat` of `EgressPolicy` looked for the first beat through `SelectSeq`,
which is recursive; it takes the smallest index now. `detect_egress` sorted
through `SelectSeq` too; now each entry has a place, one more than the number of
those ahead of it, which is what a stable sort by rank gives (TLC finds the two
definitions equal on all lists of up to five entries). `PanelWizard` and
`TreeDetect` joined functions with `@@`, which TLC overrides; they say now which
fields change.

Induction over data is out of the provers' reach as a rule with a predicate for
parameter; where a proof needs it, over the number of segments, it is done over
the set of the numbers for which the claim holds (`NatsFromZero`, from
`LeastNumber`, from the well-foundedness of `<`).

### By TLC only

Every safety invariant and every action property of the runs that must pass is
stated by a theorem above. What is left to TLC is liveness: `DeployEnds`,
`ExitEnds`, `InterruptedIsCleaned`, `TunnelsDieWithPanel`, `LostSharesAreSwept`,
`StartEnds`, `FetchEnds`, `KilledRunsReturn`, `WedgedPanelEnds` and
`ConnectedIsAnswered` rest on fairness, which is out of the prover's reach, as is
ENABLED. So are the disagreements of section 5: each is one counterexample.

## 7. Left to do

In this order:

1. The read-modify-write of `deploy-journal.json` and `shares.json`, as that of
   `state.json` is modelled now: the deploy modules and `TunnelShare` take each
   update of them as one step. A write that fails, and a write whose process dies
   before the rename, have no effect there either.
2. `TunnelShare` with records of several services and calls that overlap: what
   they can lose.
3. Services that share a clone directory, in a run: the theorems let them, the
   runs do not.
4. `detect.rs`: public env names, Dockerfile `ENV`.

## 8. Not modelled

- Reading and writing text: YAML, unit files, JSON, versions, URLs, HTTP headers.
  The modules take what the text says as a fact.
- The analyzer, the recipes and the forge's API answers (`analyzer/`,
  `hoster/recipes.rs`, `hoster/github.rs`): functions of a URL or a tree that
  fill a report.
- Drawing, lists, selections, text fields and key bindings of both panels, apart
  from which commands a screen takes when.
- The contents of the sandbox: property lists of transient units, seccomp, paths.
- Self-test, verification, output and network status: one-shot commands that
  print a report. The installer: shell scripts outside the program.
- Time. Deadlines are steps that may come at any moment, or counted polls;
  back-off and the size of timeouts are left out, as is TLS.
- The life of process ids: the model never uses one twice.
