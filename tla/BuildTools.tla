----------------------------- MODULE BuildTools -----------------------------
(***************************************************************************)
(* The tools of a build: preflight (hoster/preflight.rs), the doctor       *)
(* (hoster/toolcheck.rs), the pinned tools of the project's toolbox        *)
(* (hoster/toolbox.rs) and Go's own toolchain (hoster/goenv.rs), in the    *)
(* order in which deploy_service goes through them (hoster/deploy.rs).     *)
(*                                                                         *)
(* A version is a number, 0 is "none".  bun stands for the tools that the  *)
(* toolbox provisions, node for those that only the system provides.       *)
(***************************************************************************)
EXTENDS Naturals

CONSTANTS
    Newest      \* versions are 1..Newest

VARIABLES
    root, web,  \* what package.json and go.mod, and web/package.json, demand
    have,       \* what is installed
    uses,       \* the tools the service's manifest names
    pins,       \* the versions this build of the program has pins for
    step,       \* of the deploy
    box,        \* .ghost-cache/toolbox: the version placed, the stamps
    lead,       \* the tools the PATH of this deploy takes from the toolbox
    seeded      \* the Go toolchain in the project's file proxy

toolVars == <<root, web, have, uses, pins, step, box, lead, seeded>>

Tools == {"go", "bun", "node"}
Demands == 0..Newest
is_auto_provisionable(t) == t \in {"go", "bun"}

ToolsInit ==
    /\ root \in [Tools -> Demands]
    /\ web \in {[t \in Tools |-> IF t = "bun" THEN n ELSE 0] : n \in Demands}
    /\ have \in [Tools -> Demands]
    /\ uses \in {{"bun"}, {"go", "bun"}, {"bun", "node"}}
    /\ pins \in [{"go", "bun"} -> 1..Newest]
    /\ step = "preflight"
    /\ box = [t \in {"go", "bun"} |-> [placed |-> 0, stamps |-> {}]]
    /\ lead = {} /\ seeded = 0

\* Sorting and removing duplicates keep the first demand for a tool; the merge
\* after them finds no second one.
manifest_requirements(t) == IF root[t] # 0 THEN root[t] ELSE web[t]
Gap(t) == have[t] < manifest_requirements(t)

Goto(s) == step' = s /\ UNCHANGED <<root, web, have, uses, pins, box, lead, seeded>>

preflight_check ==
    /\ step = "preflight"
    /\ Goto(IF \E t \in uses : have[t] = 0 /\ ~is_auto_provisionable(t)
            THEN "refused" ELSE "doctor")

\* A gap of a tool that cannot be provisioned blocks, whether or not the
\* service uses the tool.
check_findings ==
    /\ step = "doctor"
    /\ Goto(IF \E t \in Tools : Gap(t) /\ ~is_auto_provisionable(t)
            THEN "refused" ELSE "toolbox")

\* Mutation: only missing tools are provisioned, not old ones.
MissingOnly == {t \in uses : is_auto_provisionable(t) /\ have[t] = 0}

toolbox_needs ==
    {t \in uses : /\ is_auto_provisionable(t)
                  /\ have[t] = 0 \/ (t # "go" /\ Gap(t))}
Min(t) == IF t = "go" THEN 0 ELSE manifest_requirements(t)
select_pin(t) == pins[t] >= Min(t)

\* A tool that an earlier deploy has placed and stamped is taken as it is.
Placed(t) == box[t].placed # 0 /\ pins[t] \in box[t].stamps

TakePlaced(t) ==
    /\ step = "toolbox" /\ t \in toolbox_needs \ lead
    /\ select_pin(t) /\ Placed(t)
    /\ lead' = lead \cup {t}
    /\ UNCHANGED <<root, web, have, uses, pins, step, box, seeded>>

\* Fetched, compared with the pin, and renamed to its place; the stamp follows.
PlaceTool(t) ==
    /\ step = "toolbox" /\ t \in toolbox_needs \ lead
    /\ select_pin(t) /\ ~Placed(t)
    /\ box[t].placed # pins[t]
    /\ box' = [box EXCEPT ![t].placed = pins[t]]
    /\ UNCHANGED <<root, web, have, uses, pins, step, lead, seeded>>

write_stamp(t) ==
    /\ step = "toolbox" /\ t \in toolbox_needs \ lead
    /\ select_pin(t) /\ box[t].placed = pins[t]
    /\ box' = [box EXCEPT ![t].stamps = @ \cup {pins[t]}]
    /\ lead' = lead \cup {t}
    /\ UNCHANGED <<root, web, have, uses, pins, step, seeded>>

\* No pin is new enough, the fetch fails, or the bytes are not the pinned ones.
provision_fails ==
    /\ step = "toolbox"
    /\ \E t \in toolbox_needs \ lead : ~select_pin(t) \/ ~Placed(t)
    /\ Goto("refused")

provision_done ==
    /\ step = "toolbox" /\ toolbox_needs \subseteq lead
    /\ Goto("toolchain")

OnPath(t) == IF t \in lead THEN box[t].placed ELSE have[t]

\* The build's own toolchain, for a Go that is older than go.mod demands.
go_toolchain_env ==
    /\ step = "toolchain"
    /\ LET need == root["go"]
           fetch == "go" \in uses /\ OnPath("go") < need IN
       \/ step' = "build" /\ seeded' = IF fetch THEN need ELSE seeded
       \/ fetch /\ step' = "refused" /\ UNCHANGED seeded
    /\ UNCHANGED <<root, web, have, uses, pins, box, lead>>

\* A deploy that failed has removed the tree; one that was killed may not have.
Redeploy ==
    /\ \/ step = "refused" /\ box' = [t \in {"go", "bun"} |-> [placed |-> 0, stamps |-> {}]]
                           /\ seeded' = 0
       \/ step # "refused" /\ UNCHANGED <<box, seeded>>
    /\ step # "preflight"
    /\ step' = "preflight" /\ lead' = {}
    \* by a newer build of the program
    /\ pins' \in {p \in [{"go", "bun"} -> 1..Newest] : \A t \in {"go", "bun"} : p[t] >= pins[t]}
    /\ UNCHANGED <<root, web, have, uses>>

ToolsNext ==
    \/ preflight_check \/ check_findings
    \/ \E t \in {"go", "bun"} : TakePlaced(t) \/ PlaceTool(t) \/ write_stamp(t)
    \/ provision_fails \/ provision_done \/ go_toolchain_env \/ Redeploy

ToolsSpec == ToolsInit /\ [][ToolsNext]_toolVars

Effective(t) == IF t = "go" /\ seeded > OnPath(t) THEN seeded ELSE OnPath(t)

\* A build never starts with a tool of the service missing, or older than the
\* doctor found it has to be, whatever an earlier deploy or build of the program
\* has left in the toolbox (toolbox.rs, deploy.rs:559-567).
UsedToolsMeetTheBar ==
    step = "build" =>
        \A t \in uses : Effective(t) >= manifest_requirements(t) /\ Effective(t) > 0

(***************************************************************************)
(* Why it holds: an inductive strengthening.                               *)
(***************************************************************************)
ToolsTyped ==
    /\ root \in [Tools -> Nat] /\ web \in [Tools -> Nat] /\ have \in [Tools -> Nat]
    /\ web["go"] = 0
    /\ uses \subseteq Tools
    /\ pins \in [{"go", "bun"} -> Nat \ {0}]
    /\ box \in [{"go", "bun"} -> [placed : Nat, stamps : SUBSET Nat]]
    /\ lead \subseteq {"go", "bun"}
    /\ seeded \in Nat

\* Pins only grow, so a stamp that equals today's pin is of what is placed now.
StampsAreOld ==
    \A t \in {"go", "bun"} :
        /\ box[t].placed <= pins[t]
        /\ \A v \in box[t].stamps : v <= box[t].placed

LeadIsPinned == \A t \in lead : box[t].placed = pins[t] /\ select_pin(t)

\* What each step of the deploy has made sure of for the ones after it.
PassedSoFar ==
    /\ step \in {"doctor", "toolbox", "toolchain", "build"} =>
          \A t \in uses : have[t] # 0 \/ is_auto_provisionable(t)
    /\ step \in {"toolbox", "toolchain", "build"} =>
          \A t \in Tools : Gap(t) => is_auto_provisionable(t)
    /\ step \in {"toolchain", "build"} => toolbox_needs \subseteq lead
    /\ step = "build" /\ "go" \in uses =>
          seeded >= root["go"] \/ OnPath("go") >= root["go"]

ToolsInv == ToolsTyped /\ StampsAreOld /\ LeadIsPinned /\ PassedSoFar
=============================================================================
