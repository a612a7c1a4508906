----------------------------- MODULE SourceFetch -----------------------------
(***************************************************************************)
(* How a source tree comes to disk: clone with its reuse check and its     *)
(* fallbacks (hoster/gitclone.rs), and the materializer that downloads     *)
(* every file in segments by several workers (hoster/rawfetch.rs).  The    *)
(* process may be killed at any step; the directory stays as it is then.   *)
(*                                                                         *)
(* The content of a file is the sequence of its blocks, each with the      *)
(* version it comes from; the upstream branch may move at any time.  The   *)
(* files are those the listing keeps: push_blob drops links, submodules,   *)
(* entries without a size and unsafe paths.  What a build adds to the tree *)
(* is left out; what it does to these files is not.                        *)
(***************************************************************************)
EXTENDS Naturals, SequencesExt

CONSTANTS
    Versions, NoPin,
    Sizes,          \* of the files, in blocks
    Ignored,        \* files of the tree that its own ignore rules name
    Segment,        \* SEGMENT
    Workers,
    CloneRetries

VARIABLES
    tip,        \* the version the branch points to
    tree,       \* the project directory
    pc, pin,    \* the step of clone, and the commit it is asked for
    queue,      \* segments nobody has taken
    wk,         \* by worker: the segment it fetches
    parts,      \* the staging directory: segments that are written
    failed,     \* a worker has failed
    tries,
    torn        \* history: a kill or a failed removal left a .git with a commit
                \* and without its index, or a clone began over such remains

fetchVars == <<tip, tree, pc, pin, queue, wk, parts, failed, tries, torn>>
poolVars == <<queue, wk, parts, failed>>

Files == DOMAIN Sizes
Content(v, f) == [b \in 1..Sizes[f] |-> <<v, b>>]
Absent == <<"absent">>
Built == <<"built">>     \* what a build has made of a file
NoTree == [head |-> FALSE, index |-> FALSE, marker |-> NoPin,
           file |-> [f \in Files |-> Absent]]
NoSegment == <<0, 0>>

\* The files that git ls-files lists: init_git adds what is not ignored.  A clone
\* of git's own lists all.
Tracked == Files \ Ignored

(***************************************************************************)
(* materialize and segment_len: how many segments, and how long.           *)
(***************************************************************************)
SegmentCount(size) == (size + Segment - 1) \div Segment
segment_start(seg) == seg * Segment
segment_len(size, seg) ==
    (IF (seg + 1) * Segment < size THEN (seg + 1) * Segment ELSE size) - segment_start(seg)

\* An empty file has none.
Tasks == UNION {{<<f, s - 1>> : s \in 1..SegmentCount(Sizes[f])} : f \in Files}

FetchInit ==
    /\ tip \in Versions /\ tree = NoTree
    /\ pc = "idle" /\ pin = NoPin
    /\ queue = {} /\ wk = [w \in Workers |-> NoSegment]
    /\ parts = [t \in {} |-> <<>>] /\ failed = FALSE
    /\ tries = 0 /\ torn = FALSE

BranchMoves ==
    /\ \E v \in Versions \ {tip} : tip' = v
    /\ UNCHANGED <<tree, pc, pin, poolVars, tries, torn>>

(***************************************************************************)
(* clone: the reuse check.                                                 *)
(***************************************************************************)
\* Mutation: a tree with a HEAD counts as whole.
HeadIsEnough == tree.head

worktree_intact ==
    tree.head /\ (tree.index => \A f \in Tracked : tree.file[f] # Absent)

\* Mutation: the pin of the tree that is there is not compared.
ReusableForAny(p) == (tree.head \/ tree.index) /\ worktree_intact

Reusable(p) ==
    /\ tree.head \/ tree.index
    /\ worktree_intact
    /\ p # NoPin => tree.marker = p

Clone ==
    /\ pc = "idle"
    /\ \E p \in Versions \cup {NoPin} :
           /\ pin' = p
           /\ pc' = IF Reusable(p) THEN "reused" ELSE "clear"
    /\ UNCHANGED <<tip, tree, poolVars, tries, torn>>

\* force_remove_all takes the entries in any order, and may fail at any; nobody
\* looks at its result.
RemoveEntry ==
    /\ pc \in {"clear", "undo", "wipe"} /\ tree # NoTree
    /\ \/ tree.head /\ tree' = [tree EXCEPT !.head = FALSE]
       \/ tree.index /\ tree' = [tree EXCEPT !.index = FALSE]
       \/ tree.marker # NoPin /\ tree' = [tree EXCEPT !.marker = NoPin]
       \/ \E f \in Files : tree.file[f] # Absent
              /\ tree' = [tree EXCEPT !.file[f] = Absent]
    /\ UNCHANGED <<tip, pc, pin, poolVars, tries, torn>>

\* The listing succeeds, or the materializer fails before it has made anything.
Listed ==
    /\ pc = "clear"
    /\ torn' = (tree # NoTree)
    /\ \/ pc' = "fetch" /\ queue' = Tasks
       \/ pc' = "undo" /\ queue' = {}
    /\ parts' = [t \in {} |-> <<>>] /\ failed' = FALSE
    /\ wk' = [w \in Workers |-> NoSegment]
    /\ UNCHANGED <<tip, tree, pin, tries>>

(***************************************************************************)
(* fetch_all: the workers take the tasks in turn.                          *)
(***************************************************************************)
First(q) == CHOOSE t \in q : \A u \in q : t[1] < u[1] \/ (t[1] = u[1] /\ t[2] <= u[2])

Take(w) ==
    /\ pc = "fetch" /\ wk[w] = NoSegment
    /\ ~failed /\ queue # {}
    /\ wk' = [wk EXCEPT ![w] = First(queue)]
    /\ queue' = queue \ {First(queue)}
    /\ UNCHANGED <<tip, tree, pc, pin, parts, failed, tries, torn>>

\* A pinned tree is asked for by its commit, another one by its branch.
Ref == IF pin = NoPin THEN tip ELSE pin

\* The range that is asked for, or all of the file; a part of another length
\* than expected is a failure.
FetchSegment(w) ==
    /\ pc = "fetch" /\ wk[w] # NoSegment
    /\ LET f == wk[w][1]
           start == segment_start(wk[w][2])
           len == segment_len(Sizes[f], wk[w][2])
       IN \E body \in {SubSeq(Content(Ref, f), start + 1, start + len), Content(Ref, f)} :
              IF Len(body) = len
              THEN /\ parts' = [t \in DOMAIN parts \cup {wk[w]} |->
                                   IF t = wk[w] THEN body ELSE parts[t]]
                   /\ UNCHANGED failed
              ELSE failed' = TRUE /\ UNCHANGED parts
    /\ wk' = [wk EXCEPT ![w] = NoSegment]
    /\ UNCHANGED <<tip, tree, pc, pin, queue, tries, torn>>

\* No answer, or the part cannot be written.
SegmentFails(w) ==
    /\ pc = "fetch" /\ wk[w] # NoSegment
    /\ failed' = TRUE
    /\ wk' = [wk EXCEPT ![w] = NoSegment]
    /\ UNCHANGED <<tip, tree, pc, pin, queue, parts, tries, torn>>

(***************************************************************************)
(* assemble, once all workers are joined; then init_git and the marker.    *)
(***************************************************************************)
Joined == (\A w \in Workers : wk[w] = NoSegment) /\ (failed \/ queue = {})
PartsOf(f) == [s \in 1..SegmentCount(Sizes[f]) |-> parts[<<f, s - 1>>]]
Complete == \A t \in Tasks : t \in DOMAIN parts
Assembled(f) == FlattenSeq(PartsOf(f))

\* A file that stands in the way is a collision.
Assemble ==
    /\ pc = "fetch" /\ Joined
    /\ IF /\ ~failed /\ Complete
          /\ \A f \in Files : tree.file[f] = Absent /\ Len(Assembled(f)) = Sizes[f]
       THEN /\ tree' = [tree EXCEPT !.file = [f \in Files |-> Assembled(f)]]
            /\ pc' = "commit"
       ELSE pc' = "undo" /\ UNCHANGED tree
    /\ UNCHANGED <<tip, pin, poolVars, tries, torn>>

\* A git that fails is only noted.
init_git ==
    /\ pc = "commit"
    /\ \E added, committed \in BOOLEAN :
           /\ committed => added
           /\ tree' = [tree EXCEPT !.index = @ \/ added, !.head = @ \/ committed]
    /\ pc' = "mark"
    /\ UNCHANGED <<tip, pin, poolVars, tries, torn>>

\* The marker of an unpinned tree names the branch, which is no pin.
WriteMarker ==
    /\ pc = "mark"
    /\ \E written \in BOOLEAN :
           /\ tree' = [tree EXCEPT !.marker = IF written THEN pin ELSE @]
           /\ torn' = (torn /\ ~ (written /\ tree.index))
    /\ pc' = "ok"
    /\ UNCHANGED <<tip, pin, poolVars, tries>>

\* What failed is removed.
Undone ==
    /\ pc = "undo"
    /\ pc' = "nomat"
    /\ torn' = (torn /\ tree # NoTree)
    /\ UNCHANGED <<tip, tree, pin, poolVars, tries>>

(***************************************************************************)
(* Without a pin: git, some times, then the archive of the branch.         *)
(***************************************************************************)
Whole(v, committed) ==
    [head |-> committed, index |-> committed, marker |-> NoPin,
     file |-> [f \in Files |-> Content(v, f)]]

NoFallback ==
    /\ pc = "nomat" /\ pin # NoPin
    /\ pc' = "failed"
    /\ UNCHANGED <<tip, tree, pin, poolVars, tries, torn>>

\* git clones into an empty directory only.
GitClone ==
    /\ pc = "nomat" /\ pin = NoPin /\ tries < CloneRetries
    /\ \/ tree = NoTree /\ tree' = Whole(tip, TRUE) /\ pc' = "ok" /\ tries' = 0
       \/ pc' = "undo" /\ tries' = tries + 1 /\ UNCHANGED tree
    /\ UNCHANGED <<tip, pin, poolVars, torn>>

\* The process is killed while git checks out: the commit is there, the index,
\* which git writes last, is not.
KilledInCheckout ==
    /\ pc = "nomat" /\ pin = NoPin /\ tries < CloneRetries /\ tree = NoTree
    /\ \E missing \in SUBSET Files :
           tree' = [Whole(tip, TRUE) EXCEPT !.index = FALSE,
                        !.file = [f \in Files |-> IF f \in missing THEN Absent ELSE @[f]]]
    /\ pc' = "idle" /\ tries' = 0 /\ torn' = TRUE
    /\ UNCHANGED <<tip, pin, poolVars>>

\* The archive is unpacked over what is there.
tarball_fallback ==
    /\ pc = "nomat" /\ pin = NoPin /\ tries = CloneRetries
    /\ \/ tree' = [tree EXCEPT !.file = Whole(tip, FALSE).file] /\ pc' = "ok"
       \/ pc' = "failed" /\ UNCHANGED tree
    /\ tries' = 0
    /\ UNCHANGED <<tip, pin, poolVars, torn>>

\* The build writes over files of the tree, or removes some.
BuildWrites ==
    /\ pc \in {"ok", "reused", "built"}
    /\ \E f \in Files, c \in {Built, Absent} : tree' = [tree EXCEPT !.file[f] = c]
    /\ pc' = "built"
    /\ UNCHANGED <<tip, pin, poolVars, tries, torn>>

\* The caller goes on with the tree, or removes it (rollback, delete, detect), as
\* far as the removal gets.
Return ==
    /\ pc \in {"ok", "reused", "built", "failed", "wipe"}
    /\ \/ pc' = "idle"
       \/ pc \in {"ok", "reused", "built"} /\ pc' = "wipe"
    /\ torn' = (tree # NoTree /\ (torn \/ (tree.head /\ ~tree.index)))
    /\ parts' = [t \in {} |-> <<>>] /\ UNCHANGED <<queue, wk, failed>>
    /\ UNCHANGED <<tip, tree, pin, tries>>

\* The process is killed; the staging directory goes with the next removal.
Killed ==
    /\ pc \notin {"idle", "ok", "reused", "built"}
    /\ pc' = "idle" /\ tries' = 0
    /\ torn' = (torn \/ (tree.head /\ ~tree.index))
    /\ queue' = {} /\ wk' = [w \in Workers |-> NoSegment]
    /\ parts' = [t \in {} |-> <<>>] /\ failed' = FALSE
    /\ UNCHANGED <<tip, tree, pin>>

FetchNext ==
    \/ BranchMoves \/ Clone \/ RemoveEntry \/ Listed
    \/ \E w \in Workers : Take(w) \/ FetchSegment(w) \/ SegmentFails(w)
    \/ Assemble \/ init_git \/ WriteMarker \/ Undone
    \/ NoFallback \/ GitClone \/ KilledInCheckout \/ tarball_fallback
    \/ BuildWrites \/ Return \/ Killed

FetchSpec == FetchInit /\ [][FetchNext]_fetchVars

InPlace(f) ==
    /\ Len(tree.file[f]) = Sizes[f]
    /\ \A b \in 1..Sizes[f] : tree.file[f][b][2] = b

\* What the reuse check cannot see: a file an earlier build has rewritten, and one
\* of those git does not list that is gone.
Unseen(f) == tree.file[f] = Built \/ (f \notin Tracked /\ tree.file[f] = Absent)

\* A pinned tree that is downloaded holds exactly the bytes of that commit in each
\* file the listing named, whatever a removal left before it; one that is reused
\* holds no byte of another commit, whatever the earlier clone was asked for and
\* wherever it, a build or a removal was killed: each file is that commit's, or
\* one the check cannot see (gitclone.rs:187-211, rawfetch.rs:412-448, 544-550).  A
\* tree with remains of a failed removal, or of git's own checkout, is the
\* exception (torn).
PinnedTreeKept ==
    pin # NoPin =>
        /\ pc = "ok" => \A f \in Files : tree.file[f] = Content(pin, f)
        /\ pc = "reused" /\ ~torn =>
               \A f \in Files : Unseen(f) \/ tree.file[f] = Content(pin, f)

\* An unpinned clone leaves every file whole, block by block in order, though
\* the workers finish in any order and the branch may move between two files;
\* reused, it misses none but those the check cannot see.
UnpinnedTreeWhole ==
    pin = NoPin =>
        /\ pc = "ok" => \A f \in Files : InPlace(f)
        /\ pc = "reused" /\ ~torn => \A f \in Files : Unseen(f) \/ InPlace(f)

(***************************************************************************)
(* Why they hold: an inductive strengthening.                              *)
(***************************************************************************)
Asked == IF pin = NoPin THEN Versions ELSE {pin}
Marked == IF tree.marker = NoPin THEN Versions ELSE {tree.marker}

FetchTyped ==
    /\ tip \in Versions /\ pin \in Versions \cup {NoPin}
    /\ tree \in [head : BOOLEAN, index : BOOLEAN, marker : Versions \cup {NoPin},
                 file : [Files -> {Absent, Built} \cup Seq(Versions \X Nat)]]

\* Blocks of the versions vs, numbered on from n.
Blocks(s, vs, n) == s \in Seq(vs \X Nat) /\ \A b \in DOMAIN s : s[b][2] = n + b

Holds(f, vs) == Blocks(tree.file[f], vs, 0) /\ Len(tree.file[f]) = Sizes[f]

\* A segment is where its number says, whoever fetched it and when.
PartsSound ==
    pc = "fetch" =>
        \A t \in Tasks \cap DOMAIN parts :
            /\ Blocks(parts[t], Asked, segment_start(t[2]))
            /\ Len(parts[t]) = segment_len(Sizes[t[1]], t[2])

\* A file that is there is whole, and of the commit that the marker names, unless
\* a build has had it.
FilesSound ==
    ~torn => /\ \A f \in Files : tree.file[f] \in {Absent, Built} \/ Holds(f, Marked)
             /\ pc \in {"fetch", "undo", "nomat"} => tree = NoTree
             /\ pc \in {"commit", "mark"} => tree.marker = NoPin

\* A download leaves nothing out, and the reuse check passes nothing else.
FreshSound == pc \in {"commit", "mark", "ok"} => \A f \in Files : Holds(f, Asked)

ReusedSound ==
    pc = "reused" /\ ~torn =>
        Marked \subseteq Asked /\ \A f \in Tracked : tree.file[f] # Absent

HeadHasIndex == ~torn /\ tree.head /\ pc \notin {"clear", "undo", "wipe"} => tree.index

FetchInv ==
    FetchTyped /\ PartsSound /\ FilesSound /\ FreshSound /\ ReusedSound /\ HeadHasIndex
=============================================================================
