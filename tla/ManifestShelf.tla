---------------------------- MODULE ManifestShelf ----------------------------
(***************************************************************************)
(* One manifest of the library (hoster/library.rs) under everything that   *)
(* writes it: the panel's edit form, egress list, wizard and autopilot     *)
(* (tui/mod.rs), $EDITOR, and a deploy of the service, which patches the   *)
(* manifest it loaded when it began (hoster/deploy.rs).                    *)
(*                                                                         *)
(* A manifest keeps what these writers tell apart: whose the port, the     *)
(* egress list and the build steps are, and the mark egress.auto.          *)
(***************************************************************************)
EXTENDS Naturals

CONSTANTS
    Windows     \* panels and command lines with an edit open

VARIABLES
    file,       \* the file of the library
    dep,        \* the deploy: its step, its manifest in memory, what it has done
    win,        \* by window: what is open, and the content it was opened with
    late        \* history: the user has written the file since the deploy read it

shelfVars == <<file, dep, win, late>>

\* No such file; also what an edit has not read.
Gone == [port |-> "none", allow |-> "none", auto |-> "none", steps |-> "none"]

\* What the wizard, the autopilot and an import store: the list may be given,
\* the steps may lack the frontend build that the tree declares.
Fresh == [port : {"set"}, allow : {"none", "user"}, auto : {"unset"},
          steps : {"short", "full"}]

NoDeploy == [at |-> "idle", m |-> Gone, repaired |-> FALSE, hosts |-> FALSE]
Closed == [at |-> "closed", m |-> Gone]

ShelfInit ==
    /\ file \in Fresh
    /\ dep = NoDeploy
    /\ win = [w \in Windows |-> Closed]
    /\ late = FALSE

(***************************************************************************)
(* The user's writes.                                                      *)
(***************************************************************************)
UserWrites(m) ==
    /\ file' = m
    /\ late' = (dep # NoDeploy)
    /\ UNCHANGED dep

Close(w) == win' = [win EXCEPT ![w] = Closed]
OpenWith(w, kind) ==
    /\ win[w] = Closed
    /\ file # Gone
    /\ win' = [win EXCEPT ![w] = [at |-> kind, m |->
           CASE kind = "form" -> [Gone EXCEPT !.port = file.port]
             [] kind = "hosts" -> [Gone EXCEPT !.allow = file.allow]
             [] kind = "editor" -> file]]
    /\ UNCHANGED <<file, dep, late>>

\* save_edit: the manifest is loaded again and gets all six rows of the form,
\* the port that was read when the form was opened among them.
SaveForm(w) ==
    /\ win[w].at = "form" /\ file # Gone
    /\ \E p \in {win[w].m.port, "user"} : UserWrites([file EXCEPT !.port = p])
    /\ Close(w)

\* set_egress_allow, from the list the screen shows: a host is added, or the
\* last one is deleted.
set_egress_allow(w) ==
    /\ win[w].at = "hosts" /\ file # Gone
    /\ \E l \in {"user", "none"} :
           /\ win[w].m.allow = "none" => l = "user"
           /\ UserWrites([file EXCEPT !.allow = l, !.auto = "no"])
    /\ Close(w)

\* edit_in_editor: the copy that was edited replaces the file.
SaveEditor(w) ==
    /\ win[w].at = "editor"
    /\ LET m == win[w].m IN
       \/ UserWrites([m EXCEPT !.port = "user"])
       \/ UserWrites([m EXCEPT !.steps = "user"])
       \/ UserWrites([m EXCEPT !.allow = "user"])
    /\ Close(w)

\* Escape, an unchanged copy, or a refusal because the file is gone.
LeaveEdit(w) ==
    /\ win[w] # Closed
    /\ Close(w)
    /\ UNCHANGED <<file, dep, late>>

Remove ==
    /\ file # Gone
    /\ UserWrites(Gone)
    /\ UNCHANGED win

\* import and wizard_save: the check for a duplicate, then the write.
CheckDuplicate(w) ==
    /\ win[w] = Closed /\ file = Gone
    /\ win' = [win EXCEPT ![w] = [at |-> "store", m |-> Gone]]
    /\ UNCHANGED <<file, dep, late>>

StoreNew(w) ==
    /\ win[w].at = "store"
    /\ \E m \in Fresh : UserWrites(m)
    /\ Close(w)

\* auto_store replaces on purpose; its deploy follows when none runs.
auto_store ==
    /\ \E m \in Fresh : m.allow = "none" /\ UserWrites(m)
    /\ UNCHANGED win

(***************************************************************************)
(* A deploy of the service.                                                *)
(***************************************************************************)
DeployLoads ==
    /\ dep = NoDeploy /\ file # Gone
    /\ dep' = [NoDeploy EXCEPT !.at = "attempt", !.m = file]
    /\ late' = FALSE
    /\ UNCHANGED <<file, win>>

\* Mutation: an emptied list counts as one that was never chosen.
MayFillEmpty(m) == m.allow = "none"

\* The tree of an undecided manifest declares hosts, or it does not.
egress_may_autofill(m) == m.allow = "none" /\ m.auto = "unset"
Install ==
    /\ dep.at = "attempt"
    /\ \E h \in {FALSE, egress_may_autofill(dep.m)} :
           dep' = [dep EXCEPT !.at = "started", !.hosts = h]
    /\ UNCHANGED <<file, win, late>>

\* The app listens on a port of its own: set_run_port patches the file, if
\* there still is one.
AdoptPort ==
    /\ dep.at = "started"
    /\ file' = IF file = Gone THEN Gone ELSE [file EXCEPT !.port = "seen"]
    /\ dep' = [dep EXCEPT !.at = "adopted"]
    /\ UNCHANGED <<win, late>>

\* persist_manifest: the manifest in memory becomes the file.
Persist(m) ==
    /\ file' = m
    /\ UNCHANGED <<win, late>>

\* A placeholder page, and a tree that declares frontend steps: one repair.
Repair ==
    /\ dep.at \in {"started", "adopted"}
    /\ dep.m.steps = "short" /\ ~dep.repaired
    /\ LET m == [dep.m EXCEPT !.steps = "full"] IN
       /\ Persist(m)
       /\ dep' = [dep EXCEPT !.at = "attempt", !.m = m, !.repaired = TRUE]

\* The auto-egress fill after a success.
FillEgress ==
    /\ dep.at \in {"started", "adopted"}
    /\ dep.hosts /\ dep.m.allow = "none"
    /\ Persist([dep.m EXCEPT !.allow = "tree", !.auto = "yes"])
    /\ dep' = [dep EXCEPT !.at = "filled"]

\* At any step: it has failed, or has nothing to fill in.
DeployEnds ==
    /\ dep # NoDeploy
    /\ dep' = NoDeploy /\ late' = FALSE
    /\ UNCHANGED <<file, win>>

DeployStep ==
    DeployLoads \/ Install \/ AdoptPort \/ Repair \/ FillEgress \/ DeployEnds

ShelfNext ==
    \/ DeployStep \/ Remove \/ auto_store
    \/ \E w \in Windows :
        \/ \E kind \in {"form", "hosts", "editor"} : OpenWith(w, kind)
        \/ SaveForm(w) \/ set_egress_allow(w) \/ SaveEditor(w) \/ LeaveEdit(w)
        \/ CheckDuplicate(w) \/ StoreNew(w)

ShelfSpec == ShelfInit /\ [][ShelfNext]_shelfVars

\* A list the user has taken over in the Egress menu, emptied ones included, is
\* never filled or refilled by a step of a deploy, whatever repairs, adoptions
\* and retries it goes through, unless the user wrote the file while it ran
\* (library.rs:158-160, manifest.rs:896).
UserListStep ==
    dep' # dep /\ ~late /\ file.auto = "no" =>
        file'.allow = file.allow /\ file'.auto = "no"

(***************************************************************************)
(* Why it holds: an inductive invariant.                                   *)
(***************************************************************************)
Manifests == [port : {"none", "set", "user", "seen"}, allow : {"none", "user", "tree"},
              auto : {"none", "unset", "no", "yes"},
              steps : {"none", "short", "full", "user"}]

ShelfTyped ==
    /\ file \in Manifests
    /\ dep \in [at : {"idle", "attempt", "started", "adopted", "filled"},
                m : Manifests, repaired : BOOLEAN, hosts : BOOLEAN]
    /\ win \in [Windows -> [at : {"closed", "form", "hosts", "editor", "store"},
                            m : Manifests]]
    /\ late \in BOOLEAN

\* Unless the user has written the file meanwhile, the deploy has in memory what
\* the file says of the list, until it fills that in; and it looks for hosts
\* only where the list was never chosen.
MemoryCurrent ==
    /\ dep.hosts => dep.m.auto = "unset"
    /\ dep # NoDeploy /\ dep.at # "filled" /\ ~late =>
          dep.m.allow = file.allow /\ dep.m.auto = file.auto

ShelfInv == ShelfTyped /\ MemoryCurrent
=============================================================================
