----------------------------- MODULE PanelWizard -----------------------------
(***************************************************************************)
(* The nine steps of the new-service wizard (tui/mod.rs, tui/wizard.rs).   *)
(*                                                                         *)
(* A step holds what is typed and the draft built so far.  Enter checks    *)
(* the step's answer and goes on, Esc puts it unchecked into the draft and *)
(* goes back.  An answer is abstracted to where it comes from; command and *)
(* port are one answer here, memory and tasks another.                     *)
(***************************************************************************)
EXTENDS Naturals, Sequences, SequencesExt

CONSTANT
    Steps       \* the steps in order, of "id", "git", "commit", "profile",
                \* "prefetch", "build", "run", "res"; the review follows

VARIABLES
    step,       \* the open step; "out": the wizard is closed
    typed,      \* its buffer; at the profile step the highlighted profile
    draft,      \* wizard::Draft
    kept        \* history: steps whose answer in the draft is still the one
                \* that Enter last took there

wizVars == <<step, typed, draft, kept>>

Lists == {"prefetch", "build"}
Profiles == {"bun", "go"}
Given == {"set", "usr"}     \* detected or preset; typed
Answers(s) == IF s = "profile" THEN Profiles
              ELSE IF s \in Lists THEN {"none", "usr", "blank"}
              ELSE {"none", "usr", "bad"}

Number(s) == SelectInSeq(Steps, LAMBDA x : x = s)
\* Mutation: the profile step goes past the build step.
AfterShort(s) ==
    IF s = "res" THEN "review"
    ELSE Steps[Number(IF s = "profile" THEN "build" ELSE s) + 1]

After(s) == IF s = "res" THEN "review" ELSE Steps[Number(s) + 1]
Before(s) == IF s = "review" THEN "res" ELSE Steps[Number(s) - 1]

Fields == ToSet(Steps) \cup {"detected"}

Empty == [x \in Fields |-> IF x = "detected" THEN FALSE ELSE "none"]

\* What spawn_detect fills in: all but the id, which it only suggests.
Found(p) == [x \in Fields |-> CASE x = "detected" -> TRUE [] x = "id" -> "none"
                                [] x = "profile" -> p [] OTHER -> "set"]

WizInit ==
    /\ step = "out" /\ typed = "none"
    /\ draft = Empty /\ kept = {}

Open(buffer, d) ==
    /\ step = "out"
    /\ step' = "id" /\ typed' = buffer /\ draft' = d
    /\ kept' = {}

OpenWizard == Open("none", Empty) \/ \E p \in Profiles : Open("set", Found(p))

Type(a) ==
    /\ step \in ToSet(Steps) /\ a \in Answers(step)
    /\ typed' = a
    /\ UNCHANGED <<step, draft, kept>>

\* check_id, check_git, check_commit; the run and resource checks.  A list of
\* steps is checked only when the manifest is built.
Acceptable(s, a) == s \in Lists \/ a \in Given \cup Profiles

\* build_manifest, with the schema's validation.
Buildable(d) ==
    /\ d.profile \in Profiles
    /\ \A s \in ToSet(Steps) \ ({"profile"} \cup Lists) : d[s] \in Given
    /\ \A s \in ToSet(Steps) \cap Lists : d[s] # "blank"

ApplyProfile(d, p) ==
    [x \in DOMAIN d |->
        CASE x = "profile" -> p
          [] x = "prefetch" /\ p = "go" -> "none"
          [] x \in Lists \cup {"run", "res"} -> "set"
          [] x = "detected" -> FALSE
          [] OTHER -> d[x]]

Take(d, s, a) ==
    IF s # "profile" THEN [d EXCEPT ![s] = a]
    ELSE IF d.detected /\ a = d.profile THEN d ELSE ApplyProfile(d, a)

\* The buffer of a step opened from the draft.
Shown(s, d) ==
    IF s = "review" THEN "none"
    ELSE IF s = "profile" /\ ~d.detected THEN "bun" ELSE d[s]

\* After a change of the draft to d.
Kept(d) == {s \in kept : d[s] = draft[s]}

Enter ==
    /\ step \in ToSet(Steps)
    /\ Acceptable(step, typed)
    /\ LET d == Take(draft, step, typed) IN
       /\ step = "res" => Buildable(d)
       /\ step' = After(step)
       /\ typed' = Shown(After(step), d)
       /\ draft' = d
       /\ kept' = Kept(d) \cup {step}

\* The first three steps take the draft out of the screen before they check,
\* and do not put it back; the last one puts it back with the new answer.
EnterRefused ==
    /\ step \in ToSet(Steps)
    /\ \/ /\ step \in {"id", "git", "commit"} /\ ~Acceptable(step, typed)
          /\ draft' = Empty
       \/ /\ step \in {"run", "res"} /\ ~Acceptable(step, typed)
          /\ draft' = draft
       \/ /\ step = "res" /\ Acceptable(step, typed)
          /\ ~Buildable(Take(draft, step, typed))
          /\ draft' = Take(draft, step, typed)
    /\ kept' = Kept(draft')
    /\ UNCHANGED <<step, typed>>

Esc ==
    /\ step \in (ToSet(Steps) \cup {"review"}) \ {"id"}
    /\ LET d == IF step \in {"review", "profile"} THEN draft
                ELSE [draft EXCEPT ![step] = typed] IN
       /\ draft' = d
       /\ step' = Before(step)
       \* Back to the profiles, the cursor is on the draft's profile.
       /\ typed' = IF Before(step) = "profile" /\ d.profile \notin Profiles THEN "bun"
                   ELSE d[Before(step)]
       /\ kept' = Kept(d)

Close ==
    /\ step = "id"
    /\ step' = "out" /\ typed' = "none" /\ draft' = Empty /\ kept' = {}

\* `s`, or Enter, which also deploys.  A taken id or a full shelf refuses.
Save ==
    /\ step = "review" /\ Buildable(draft)
    /\ step' = "out" /\ typed' = "none" /\ draft' = Empty /\ kept' = {}

WizNext ==
    \/ OpenWizard \/ Enter \/ EnterRefused \/ Esc \/ Close \/ Save
    \/ \E a \in {"none", "usr", "bad", "blank"} \cup Profiles : Type(a)

WizSpec == WizInit /\ [][WizNext]_wizVars

\* The review shows, and saves, the answer the user last confirmed at each of
\* the eight steps, after any walk back and forth, refusals and a change of
\* profile.
ReviewAsConfirmed ==
    step = "review" => kept = ToSet(Steps)

(***************************************************************************)
(* Why it holds: an inductive strengthening.                               *)
(***************************************************************************)
Values == {"none", "bad", "blank"} \cup Given \cup Profiles

WizTyped ==
    /\ step \in ToSet(Steps) \cup {"out", "review"}
    /\ typed \in Values
    /\ draft = [x \in Fields |-> draft[x]]
    /\ draft.detected \in BOOLEAN
    /\ \A s \in ToSet(Steps) : draft[s] \in Values
    /\ kept \subseteq ToSet(Steps)

\* Whatever a refusal throws away is missed when the manifest is built.
Sound(s) == s \in kept \/ (s \in {"id", "git", "commit"} /\ draft[s] \notin Given)

ConfirmedSoFar ==
    \A k \in DOMAIN Steps : step = Steps[k] => \A i \in 1 .. k - 1 : Sound(Steps[i])

WizInv == WizTyped /\ ConfirmedSoFar /\ ReviewAsConfirmed
=============================================================================
