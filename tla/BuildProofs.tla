----------------------------- MODULE BuildProofs -----------------------------
(***************************************************************************)
(* Why a build starts from what it needs and stays locked up: the source   *)
(* tree (SourceFetch), the tools it runs (BuildTools), the inputs seeded   *)
(* from an older build (BuildSeeds), the plan the detector makes           *)
(* (TreeDetect), the filter around the service (EgressPolicy), the files   *)
(* that record it all (RecordFiles).  The variables s1 .. s12 are those of *)
(* the part, in the order in which its module declares them; each          *)
(* inductive invariant is stated, and its parts explained, beside the      *)
(* property in the module of the part.                                     *)
(***************************************************************************)
EXTENDS MCParts, Sequences, FiniteSetTheorems, SequenceTheorems, WellFoundedInduction,
        TLAPS

(***************************************************************************)
(* Natural numbers.                                                        *)
(***************************************************************************)

\* A nonempty set of numbers has a least one.
LEMMA LeastNumber ==
    ASSUME NEW T, T \subseteq Nat, T # {}
    PROVE  \E n \in T : \A m \in T : n <= m
<1> DEFINE R == OpToRel(<, Nat)
<1>1. \A m, n \in Nat : <<m, n>> \in R <=> m < n
  BY DEF OpToRel
<1>2. PICK n \in T : \A m \in T : <<m, n>> \notin R
  BY NatLessThanWellFounded, WFMin
<1> HIDE DEF R
<1>3. \A m \in T : ~(m < n)
  BY <1>1, <1>2
<1>4. \A m \in T : n <= m
  BY <1>3
<1>5. QED
  BY <1>4

\* Induction over the natural numbers, for a set of them.
LEMMA NatsFromZero ==
    ASSUME NEW S \in SUBSET Nat, 0 \in S, \A n \in S : n + 1 \in S
    PROVE  S = Nat
<1> SUFFICES ASSUME Nat \ S # {} PROVE FALSE
  OBVIOUS
<1>1. PICK m \in Nat \ S : \A k \in Nat \ S : m <= k
  BY LeastNumber
<1>2. m # 0 /\ m \in Nat
  OBVIOUS
<1>3. m - 1 \in Nat /\ ~(m <= m - 1) /\ (m - 1) + 1 = m
  BY <1>2
<1>4. m - 1 \in S
  BY <1>1, <1>3
<1>5. (m - 1) + 1 \in S
  BY <1>4
<1>6. QED
  BY <1>3, <1>5

(***************************************************************************)
(* SourceFetch.                                                            *)
(***************************************************************************)

\* FlattenSeq joins the sequences one by one.
LEMMA Flattening ==
    ASSUME NEW ps, Len(ps) \in Nat \ {0}
    PROVE  \E g : /\ Source!FlattenSeq(ps) = g[Len(ps)]
                  /\ g[1] = ps[1]
                  /\ \A i \in 2 .. Len(ps) : g[i] = g[i - 1] \o ps[i]
<1> DEFINE Joins(g, m) == g = [i \in 1 .. m |-> IF i = 1 THEN ps[i] ELSE g[i - 1] \o ps[i]]
           S == {m \in Nat : \E g : Joins(g, m)}
<1>1. 0 \in S
  <2>1. Joins(<<>>, 0)
    OBVIOUS
  <2>2. QED
    BY <2>1
<1>2. ASSUME NEW m \in S PROVE m + 1 \in S
  <2>1. PICK g : Joins(g, m)
    OBVIOUS
  <2> DEFINE h == [i \in 1 .. m + 1 |-> IF i = m + 1 THEN (IF i = 1 THEN ps[i] ELSE g[m] \o ps[i])
                                        ELSE g[i]]
  <2>2. ASSUME NEW i \in 1 .. m + 1
        PROVE  h[i] = IF i = 1 THEN ps[i] ELSE h[i - 1] \o ps[i]
    <3>1. CASE i = m + 1
      <4>1. h[i] = IF i = 1 THEN ps[i] ELSE g[m] \o ps[i]
        BY <3>1
      <4>2. m \in Nat /\ i - 1 = m
        BY <3>1
      <4>3. i # 1 => m \in 1 .. m + 1 /\ m # m + 1
        BY <3>1, <4>2
      <4>4. i # 1 => h[m] = g[m]
        BY <4>3
      <4> HIDE DEF h
      <4>5. QED
        BY <4>1, <4>2, <4>4
    <3>2. CASE i # m + 1
      <4>1. i \in 1 .. m /\ (i # 1 => i - 1 \in 1 .. m)
        BY <2>2, <3>2
      <4>2. g[i] = IF i = 1 THEN ps[i] ELSE g[i - 1] \o ps[i]
        BY <2>1, <4>1
      <4>3. QED
        BY <3>2, <4>1, <4>2
    <3>3. QED
      BY <3>1, <3>2
  <2>3. h = [i \in 1 .. m + 1 |-> h[i]]
    OBVIOUS
  <2> HIDE DEF h
  <2>4. Joins(h, m + 1)
    BY <2>2, <2>3
  <2>5. m + 1 \in Nat
    OBVIOUS
  <2> HIDE DEF Joins
  <2>6. \E f : Joins(f, m + 1)
    BY <2>4
  <2>7. QED
    BY <2>5, <2>6
<1>3. S = Nat
  <2> HIDE DEF S
  <2>1. S \in SUBSET Nat
    BY DEF S
  <2>2. QED
    BY <1>1, <1>2, <2>1, NatsFromZero
<1> DEFINE n == Len(ps)
           c == CHOOSE g : Joins(g, n)
<1>4. Joins(c, n)
  BY <1>3
<1>5. Source!FlattenSeq(ps) = c[n]
  BY DEF Source!FlattenSeq
<1> HIDE DEF c
<1>6. ASSUME NEW i \in 1 .. n PROVE c[i] = IF i = 1 THEN ps[i] ELSE c[i - 1] \o ps[i]
  BY <1>4
<1>7. 1 \in 1 .. n /\ \A i \in 2 .. n : i \in 1 .. n /\ i # 1
  OBVIOUS
<1>8. c[1] = ps[1]
  BY <1>6, <1>7
<1>9. ASSUME NEW i \in 2 .. n PROVE c[i] = c[i - 1] \o ps[i]
  BY <1>6, <1>7
<1>10. QED
  BY <1>5, <1>8, <1>9

\* Blocks that follow one another join to blocks.
LEMMA JoinedBlocks ==
    ASSUME NEW vs, NEW n \in Nat, NEW s, NEW t,
           Source!Blocks(s, vs, n), Source!Blocks(t, vs, n + Len(s))
    PROVE  Source!Blocks(s \o t, vs, n) /\ Len(s \o t) = Len(s) + Len(t)
<1> DEFINE B == vs \X Nat
<1>1. s \in Seq(B) /\ t \in Seq(B) /\ Len(s) \in Nat /\ Len(t) \in Nat
  BY DEF Source!Blocks
<1>2. DOMAIN s = 1 .. Len(s) /\ DOMAIN t = 1 .. Len(t)
  BY <1>1
<1>3. /\ \A b \in 1 .. Len(s) : s[b][2] = n + b
      /\ \A b \in 1 .. Len(t) : t[b][2] = n + Len(s) + b
  BY <1>2 DEF Source!Blocks
<1> HIDE DEF B
<1> DEFINE u == s \o t
<1>4. /\ u \in Seq(B) /\ Len(u) = Len(s) + Len(t)
      /\ \A i \in 1 .. Len(s) + Len(t) :
             u[i] = IF i <= Len(s) THEN s[i] ELSE t[i - Len(s)]
  BY <1>1, ConcatProperties
<1>5. DOMAIN u = 1 .. Len(s) + Len(t)
  BY <1>1, <1>4
<1> HIDE DEF u
<1>6. ASSUME NEW i \in 1 .. Len(s) + Len(t) PROVE u[i][2] = n + i
  <2>1. CASE i <= Len(s)
    <3>1. i \in 1 .. Len(s) /\ u[i] = s[i]
      BY <1>1, <1>4, <2>1
    <3>2. QED
      BY <1>3, <3>1
  <2>2. CASE ~(i <= Len(s))
    <3> DEFINE j == i - Len(s)
    <3>1. j \in 1 .. Len(t) /\ n + Len(s) + j = n + i
      BY <1>1, <2>2
    <3>2. u[i] = t[j]
      BY <1>4, <2>2
    <3> HIDE DEF j
    <3>3. QED
      BY <1>3, <3>1, <3>2
  <2>3. QED
    BY <2>1, <2>2
<1>7. Source!Blocks(u, vs, n)
  BY <1>4, <1>5, <1>6 DEF B, Source!Blocks
<1>8. QED
  BY <1>4, <1>7 DEF u

\* The segments cover a file, and the last one is not empty.
LEMMA SegmentsCover ==
    ASSUME NEW size \in Nat
    PROVE  /\ Source!SegmentCount(size) \in Nat
           /\ size = 0 => Source!SegmentCount(size) = 0
           /\ size # 0 => Source!SegmentCount(size) # 0
           /\ size <= Source!SegmentCount(size) * Segment
           /\ \A i \in Nat : i < Source!SegmentCount(size) => i * Segment < size
<1> DEFINE k == Source!SegmentCount(size)
<1>1. Segment \in Nat \ {0}
  BY SourceAssumption
<1>2. k \in Nat /\ k * Segment <= size + Segment - 1 /\ size + Segment - 1 < (k + 1) * Segment
  BY <1>1 DEF Source!SegmentCount
<1> HIDE DEF k
<1>3. (k + 1) * Segment = k * Segment + Segment
  BY <1>1, <1>2
<1>4. k * Segment \in Nat
  BY <1>1, <1>2
<1>5. size <= k * Segment
  BY <1>1, <1>2, <1>3, <1>4
<1>6. size # 0 => k # 0
  BY <1>1, <1>5
<1>7. size = 0 => k = 0
  <2>1. CASE k >= 1
    <3>1. k * Segment >= Segment
      BY <1>1, <1>2, <2>1
    <3>2. QED
      BY <1>1, <1>2, <1>4, <3>1
  <2>2. QED
    BY <1>2, <2>1
<1>8. ASSUME NEW i \in Nat, i < k PROVE i * Segment < size
  <2>1. (i + 1) * Segment <= k * Segment
    BY <1>1, <1>2, <1>8
  <2>2. (i + 1) * Segment = i * Segment + Segment /\ i * Segment \in Nat
    BY <1>1
  <2>3. QED
    BY <1>1, <1>2, <1>4, <2>1, <2>2
<1>9. QED
  BY <1>2, <1>5, <1>6, <1>7, <1>8 DEF k

\* All segments of a file, each with the blocks that its number says, join to
\* the file.
LEMMA JoinedSegments ==
    ASSUME NEW vs, NEW size \in Nat, NEW ps,
           ps = [s \in 1 .. Source!SegmentCount(size) |-> ps[s]],
           \A s \in 1 .. Source!SegmentCount(size) :
               /\ Source!Blocks(ps[s], vs, Source!segment_start(s - 1))
               /\ Len(ps[s]) = Source!segment_len(size, s - 1)
    PROVE  Source!Blocks(Source!FlattenSeq(ps), vs, 0) /\ Len(Source!FlattenSeq(ps)) = size
<1> DEFINE k == Source!SegmentCount(size)
           upto(i) == IF i * Segment < size THEN i * Segment ELSE size
<1>1. k \in Nat /\ (size = 0 <=> k = 0) /\ size <= k * Segment
  BY SegmentsCover
<1>2. \A i \in Nat : i < k => i * Segment < size
  BY SegmentsCover
<1>3. Len(ps) = k
  BY <1>1
<1>4. Segment \in Nat \ {0}
  BY SourceAssumption
<1>5. CASE size = 0
  <2>1. ps = <<>>
    BY <1>1, <1>5
  <2>2. Source!FlattenSeq(ps) = <<>>
    BY <2>1 DEF Source!FlattenSeq
  <2>3. Source!Blocks(<<>>, vs, 0)
    <3>1. <<>> \in Seq(vs \X Nat) /\ DOMAIN <<>> = {}
      OBVIOUS
    <3>2. QED
      BY <3>1 DEF Source!Blocks
  <2>4. Len(<<>>) = 0
    OBVIOUS
  <2>5. QED
    BY <2>2, <2>3, <2>4, <1>5
<1>6. CASE size # 0
  <2>1. Len(ps) \in Nat \ {0}
    BY <1>1, <1>3, <1>6
  <2>2. PICK g : /\ Source!FlattenSeq(ps) = g[Len(ps)]
                 /\ g[1] = ps[1]
                 /\ \A i \in 2 .. Len(ps) : g[i] = g[i - 1] \o ps[i]
    BY <2>1, Flattening
  <2>3. ASSUME NEW i \in 1 .. k
        PROVE  /\ i \in Nat /\ i - 1 \in Nat /\ i - 1 < k
               /\ Source!Blocks(ps[i], vs, (i - 1) * Segment)
               /\ Len(ps[i]) = upto(i) - (i - 1) * Segment
    <3>1. i \in Nat /\ i - 1 \in Nat /\ i - 1 < k /\ (i - 1) + 1 = i
      BY <1>1
    <3>2. Source!segment_start(i - 1) = (i - 1) * Segment
      BY DEF Source!segment_start
    <3>3. Source!segment_len(size, i - 1) = upto(i) - (i - 1) * Segment
      BY <3>1, <3>2 DEF Source!segment_len
    <3> HIDE DEF upto
    <3>4. QED
      BY <3>1, <3>2, <3>3
  <2> DEFINE Joined(i) == Source!Blocks(g[i], vs, 0) /\ Len(g[i]) = upto(i)
             S == {i \in Nat : i + 1 \in 1 .. k => Joined(i + 1)}
  <2>4. 0 \in S
    <3>1. CASE 1 \in 1 .. k
      <4>1. Source!Blocks(ps[1], vs, (1 - 1) * Segment) /\ Len(ps[1]) = upto(1) - (1 - 1) * Segment
        BY <2>3, <3>1
      <4>2. (1 - 1) * Segment = 0 /\ upto(1) \in Nat
        BY <1>4
      <4> HIDE DEF upto
      <4>3. Joined(1)
        BY <2>2, <4>1, <4>2
      <4> HIDE DEF Joined
      <4>4. 0 + 1 = 1
        OBVIOUS
      <4>5. QED
        BY <4>3, <4>4
    <3>2. QED
      BY <3>1
  <2>5. ASSUME NEW j \in S PROVE j + 1 \in S
    <3> DEFINE i == j + 1
    <3>1. i \in Nat /\ (i + 1) - 1 = i
      OBVIOUS
    <3>2. CASE i + 1 \in 1 .. k
      <4>1. i \in 1 .. k /\ i < k /\ i + 1 \in 2 .. Len(ps)
        BY <1>1, <1>3, <3>2
      <4>2. Joined(i)
        <5> HIDE DEF Joined
        <5>1. j + 1 \in 1 .. k => Joined(j + 1)
          OBVIOUS
        <5>2. QED
          BY ONLY <4>1, <5>1
      <4>3. i * Segment < size /\ i * Segment \in Nat /\ upto(i) = i * Segment
        BY <1>2, <1>4, <3>1, <4>1
      <4>4. Source!Blocks(ps[i + 1], vs, i * Segment) /\ Len(ps[i + 1]) = upto(i + 1) - i * Segment
        BY <2>3, <3>1, <3>2
      <4>5. upto(i + 1) \in Nat
        BY <1>4, <3>1
      <4>6. g[i + 1] = g[i] \o ps[i + 1]
        BY <2>2, <3>1, <4>1
      <4> DEFINE a == g[i]
                 b == ps[i + 1]
                 m == i * Segment
      <4>7. Source!Blocks(a, vs, 0) /\ Len(a) = m
        BY <4>2, <4>3
      <4>8. Source!Blocks(b, vs, m) /\ Len(b) = upto(i + 1) - m /\ m \in Nat /\ 0 \in Nat
        BY <4>3, <4>4
      <4>9. g[i + 1] = a \o b
        BY <4>6
      <4> HIDE DEF i, upto, a, b, m
      <4>10. 0 + Len(a) = m
        BY <4>7, <4>8
      <4>11. Source!Blocks(b, vs, 0 + Len(a))
        BY <4>8, <4>10, Zenon
      <4>12. Source!Blocks(a \o b, vs, 0) /\ Len(a \o b) = Len(a) + Len(b)
        BY <4>7, <4>8, <4>11, JoinedBlocks
      <4>13. Len(a) + Len(b) = upto(i + 1)
        BY <4>5, <4>7, <4>8
      <4>14. Joined(i + 1)
        BY <4>9, <4>12, <4>13, Zenon
      <4>15. i \in Nat
        BY <3>1
      <4> HIDE DEF Joined
      <4>16. i \in S
        BY <4>14, <4>15
      <4>17. QED
        BY <4>16 DEF i
    <3>3. CASE i + 1 \notin 1 .. k
      BY <3>1, <3>3
    <3>4. QED
      BY <3>2, <3>3
  <2>6. S = Nat
    <3> HIDE DEF S
    <3>1. S \in SUBSET Nat
      BY DEF S
    <3>2. QED
      BY <2>4, <2>5, <3>1, NatsFromZero
  <2>7. k - 1 \in Nat /\ (k - 1) + 1 = k /\ k \in 1 .. k
    BY <1>1, <1>3, <2>1
  <2>8. k - 1 \in S
    BY <2>6, <2>7
  <2>9. upto(k) = size
    BY <1>1, <1>4
  <2>10. Joined(k)
    BY <2>7, <2>8
  <2>11. QED
    BY <1>3, <2>2, <2>9, <2>10
<1>7. QED
  BY <1>5, <1>6

\* Of more versions are also the blocks of fewer.
LEMMA WiderBlocks ==
    ASSUME NEW vs, NEW ws, vs \subseteq ws, NEW n, NEW s, Source!Blocks(s, vs, n)
    PROVE  Source!Blocks(s, ws, n)
<1>1. Seq(vs \X Nat) \subseteq Seq(ws \X Nat)
  OBVIOUS
<1>2. QED
  BY <1>1 DEF Source!Blocks

\* What the server has of a version is whole.
LEMMA ContentWhole ==
    ASSUME NEW v, NEW vs, v \in vs, NEW f \in Source!Files
    PROVE  /\ Source!Blocks(Source!Content(v, f), vs, 0)
           /\ Len(Source!Content(v, f)) = Sizes[f] /\ Sizes[f] \in Nat
<1>1. Sizes[f] \in Nat
  BY SourceAssumption DEF Source!Files
<1> DEFINE c == Source!Content(v, f)
           B == vs \X Nat
<1>2. c = [b \in 1 .. Sizes[f] |-> <<v, b>>]
  BY DEF Source!Content
<1>3. \A b \in 1 .. Sizes[f] : <<v, b>> \in B
  BY <1>1
<1> HIDE DEF c, B
<1>4. c \in Seq(B) /\ DOMAIN c = 1 .. Sizes[f] /\ Len(c) = Sizes[f]
  BY <1>1, <1>2, <1>3
<1>5. \A b \in DOMAIN c : c[b][2] = 0 + b
  BY <1>1, <1>2, <1>4
<1>6. QED
  BY <1>1, <1>4, <1>5 DEF Source!Blocks, B, c

\* An answer of the length that was asked for is the segment, whichever of the
\* two answers a server gives.
LEMMA AnswerIsSegment ==
    ASSUME NEW v, NEW vs, v \in vs, NEW f \in Source!Files, NEW seg \in Nat,
           seg < Source!SegmentCount(Sizes[f]),
           NEW body \in {SubSeq(Source!Content(v, f), Source!segment_start(seg) + 1,
                                Source!segment_start(seg) + Source!segment_len(Sizes[f], seg)),
                         Source!Content(v, f)},
           Len(body) = Source!segment_len(Sizes[f], seg)
    PROVE  Source!Blocks(body, vs, Source!segment_start(seg))
<1> DEFINE c == Source!Content(v, f)
           start == Source!segment_start(seg)
           len == Source!segment_len(Sizes[f], seg)
           size == Sizes[f]
           B == vs \X Nat
<1>1. Source!Blocks(c, vs, 0) /\ Len(c) = size /\ size \in Nat
  BY ContentWhole
<1>2. Segment \in Nat \ {0}
  BY SourceAssumption
<1>3. start = seg * Segment /\ start \in Nat /\ start < size
  <2>1. seg * Segment < size
    BY <1>1, SegmentsCover
  <2>2. QED
    BY <1>2, <2>1 DEF Source!segment_start
<1>4. (seg + 1) * Segment \in Nat /\ (seg + 1) * Segment = seg * Segment + Segment
  BY <1>2
<1>5. len \in Nat /\ start + len <= size
  BY <1>1, <1>2, <1>3, <1>4 DEF Source!segment_len
<1>6. c \in Seq(B) /\ \A b \in 1 .. size : c[b][2] = b
  <2>1. c \in Seq(B) /\ \A b \in DOMAIN c : c[b][2] = 0 + b
    BY <1>1 DEF Source!Blocks
  <2>2. DOMAIN c = 1 .. size
    BY <1>1, <2>1
  <2>3. QED
    BY <1>1, <2>1, <2>2
<1>7. body \in {SubSeq(c, start + 1, start + len), c} /\ Len(body) = len
  OBVIOUS
<1> HIDE DEF c, start, len, size, B
<1>8. CASE body = c
  <2>1. start = 0
    BY <1>1, <1>3, <1>5, <1>7, <1>8
  <2>2. QED
    BY <1>1, <1>8, <2>1 DEF start
<1>9. CASE body = SubSeq(c, start + 1, start + len)
  <2> DEFINE s == SubSeq(c, start + 1, start + len)
  <2>1. start + 1 \in 1 .. Len(c) + 1 /\ start + len \in start .. Len(c)
    BY <1>1, <1>3, <1>5
  <2>2. /\ s \in Seq(B) /\ Len(s) = len
        /\ \A i \in 1 .. len : s[i] = c[start + i]
    <3>1. s = [i \in 1 .. len |-> c[start + i]]
      BY <1>1, <1>3, <1>5, <1>6
    <3>2. \A i \in 1 .. len : start + i \in 1 .. size
      BY <1>1, <1>3, <1>5
    <3>3. \A i \in 1 .. len : c[start + i] \in B
      BY <1>1, <1>6, <3>2
    <3> HIDE DEF s
    <3>4. QED
      BY <1>5, <3>1, <3>3
  <2> HIDE DEF s
  <2>3. ASSUME NEW i \in 1 .. len PROVE s[i][2] = start + i
    <3>1. start + i \in 1 .. size
      BY <1>1, <1>3, <1>5
    <3>2. QED
      BY <1>6, <2>2, <3>1
  <2>4. DOMAIN s = 1 .. len
    BY <2>2
  <2>5. Source!Blocks(s, vs, start)
    BY <2>2, <2>3, <2>4 DEF Source!Blocks, B
  <2>6. QED
    BY <1>9, <2>5 DEF s, start
<1>10. QED
  BY <1>7, <1>8, <1>9

\* A tree on disk.
TreeType ==
    [head : BOOLEAN, index : BOOLEAN, marker : Versions \cup {NoPin},
     file : [Source!Files -> {Source!Absent, Source!Built} \cup Seq(Versions \X Nat)]]

\* Nothing on disk is a tree, and nothing is wrong with it.
LEMMA SourceNone ==
    Source!NoTree \in TreeType /\ Source!NoTree.marker = NoPin /\ ~Source!NoTree.head
    /\ \A f \in Source!Files : Source!NoTree.file[f] = Source!Absent
BY DEF TreeType, Source!NoTree

\* A fetch starts with nothing on disk.
LEMMA SourceStart ==
    ASSUME Source!FetchInit
    PROVE  Source!FetchInv
BY SourceNone
DEF TreeType, Source!FetchInit, Source!FetchInv, Source!FetchTyped, Source!PartsSound,
    Source!FilesSound, Source!FreshSound, Source!ReusedSound, Source!HeadHasIndex

\* The steps that leave the tree, and what is staged for it, alone.
LEMMA SourceQuiet ==
    ASSUME Source!FetchInv, UNCHANGED <<s2, s3, s4, s7, s10>>, s1' \in Versions
    PROVE  Source!FetchInv'
BY DEF Source!FetchInv, Source!FetchTyped, Source!PartsSound, Source!Asked, Source!Marked,
       Source!FilesSound, Source!FreshSound, Source!ReusedSound, Source!Holds,
       Source!HeadHasIndex

\* The reuse check: a tree it passes misses no file it sees, and is of the pin.
LEMMA SourceReused ==
    ASSUME Source!FetchInv, Source!Clone
    PROVE  Source!FetchInv'
<1> USE DEF Source!Clone
<1>1. PICK p \in Versions \cup {NoPin} :
          s4' = p /\ s3' = IF Source!Reusable(p) THEN "reused" ELSE "clear"
  OBVIOUS
<1>2. Source!FetchTyped'
  BY <1>1 DEF Source!FetchInv, Source!FetchTyped
<1>3. Source!PartsSound'
  BY <1>1 DEF Source!PartsSound
<1>4. ASSUME s3' = "reused", ~s10'
      PROVE  s2.index /\ \A f \in Source!Tracked : s2.file[f] # Source!Absent
  BY <1>1, <1>4 DEF Source!Reusable, Source!worktree_intact, Source!FetchInv,
                    Source!HeadHasIndex
<1>5. s3' = "reused" => Source!Marked \subseteq Source!Asked'
  BY <1>1, SourceAssumption
  DEF Source!Reusable, Source!Marked, Source!Asked, Source!FetchInv, Source!FetchTyped
<1>6. Source!FilesSound'
  BY <1>1 DEF Source!FetchInv, Source!FilesSound, Source!Holds, Source!Marked
<1>7. Source!FreshSound'
  BY <1>1 DEF Source!FreshSound
<1>8. Source!ReusedSound'
  BY <1>4, <1>5 DEF Source!ReusedSound, Source!Marked
<1>9. Source!HeadHasIndex'
  BY <1>1, <1>4 DEF Source!HeadHasIndex
<1>10. QED
  BY <1>2, <1>3, <1>6, <1>7, <1>8, <1>9 DEF Source!FetchInv

\* A step that takes from a tree, or builds over it, leaves its other files as they
\* were, and no marker or the marker they had.
LEMMA SourceTaken ==
    ASSUME Source!FetchInv, s2' \in TreeType, s2'.marker \in {s2.marker, NoPin},
           \A f \in Source!Files : s2'.file[f] \in {s2.file[f], Source!Absent, Source!Built},
           UNCHANGED <<s1, s4, s10>>,
           s3' \in {"clear", "undo", "wipe", "built"},
           s3' = "undo" => s3 = "undo" /\ (~s10 => s2' = Source!NoTree),
           s3' = "built" => s2'.head = s2.head /\ s2'.index = s2.index
                                /\ s3 \notin {"clear", "undo", "wipe"}
    PROVE  Source!FetchInv'
<1>1. Source!Marked \subseteq Source!Marked'
  BY DEF Source!Marked, Source!FetchInv, Source!FetchTyped
<1>2. ASSUME ~s10, NEW f \in Source!Files
      PROVE  \/ s2'.file[f] \in {Source!Absent, Source!Built}
             \/ Source!Holds(f, Source!Marked)'
  <2>1. s2.file[f] \in {Source!Absent, Source!Built} \/ Source!Holds(f, Source!Marked)
    BY <1>2 DEF Source!FetchInv, Source!FilesSound
  <2>2. QED
    BY <1>1, <2>1, WiderBlocks DEF Source!Holds
<1>3. QED
  BY <1>2
  DEF TreeType, Source!FetchInv, Source!FetchTyped, Source!PartsSound, Source!FilesSound,
      Source!FreshSound, Source!ReusedSound, Source!HeadHasIndex

\* A removal, however far it gets, and a build.
LEMMA SourceRemoved ==
    ASSUME Source!FetchInv, Source!RemoveEntry \/ Source!BuildWrites
    PROVE  Source!FetchInv'
<1>1. s2 \in TreeType
  BY DEF TreeType, Source!FetchInv, Source!FetchTyped
<1>2. ASSUME NEW f \in Source!Files, NEW c \in {Source!Absent, Source!Built},
             s2' = [s2 EXCEPT !.file[f] = c]
      PROVE  /\ s2' \in TreeType /\ s2'.marker = s2.marker
             /\ s2'.head = s2.head /\ s2'.index = s2.index
             /\ \A g \in Source!Files : s2'.file[g] \in {s2.file[g], Source!Absent, Source!Built}
  <2>1. /\ s2' \in TreeType /\ s2'.marker = s2.marker
        /\ s2'.head = s2.head /\ s2'.index = s2.index
        /\ s2'.file = [s2.file EXCEPT ![f] = c]
    BY <1>1, <1>2 DEF TreeType
  <2>2. \A g \in Source!Files : s2'.file[g] \in {s2.file[g], Source!Absent, Source!Built}
    BY <1>1, <2>1 DEF TreeType
  <2>3. QED
    BY <2>1, <2>2
<1>3. CASE Source!RemoveEntry
  <2>1. /\ UNCHANGED <<s1, s3, s4, s10>> /\ s3 \in {"clear", "undo", "wipe"}
        /\ s2 # Source!NoTree
    BY <1>3 DEF Source!RemoveEntry
  <2>2. /\ s2' \in TreeType /\ s2'.marker \in {s2.marker, NoPin}
        /\ \A g \in Source!Files : s2'.file[g] \in {s2.file[g], Source!Absent, Source!Built}
    <3>1. CASE s2' = [s2 EXCEPT !.head = FALSE]
      BY <1>1, <3>1 DEF TreeType
    <3>2. CASE s2' = [s2 EXCEPT !.index = FALSE]
      BY <1>1, <3>2 DEF TreeType
    <3>3. CASE s2' = [s2 EXCEPT !.marker = NoPin]
      BY <1>1, <3>3 DEF TreeType
    <3>4. CASE \E f \in Source!Files : s2' = [s2 EXCEPT !.file[f] = Source!Absent]
      BY <1>2, <3>4
    <3>5. QED
      BY <1>3, <3>1, <3>2, <3>3, <3>4 DEF Source!RemoveEntry
  <2>3. s3 = "undo" => s10
    BY <2>1 DEF Source!FetchInv, Source!FilesSound
  <2>4. QED
    BY <2>1, <2>2, <2>3, SourceTaken
<1>4. CASE Source!BuildWrites
  <2>1. /\ UNCHANGED <<s1, s4, s10>> /\ s3 \in {"ok", "reused", "built"} /\ s3' = "built"
        /\ \E f \in Source!Files, c \in {Source!Built, Source!Absent} :
               s2' = [s2 EXCEPT !.file[f] = c]
    BY <1>4 DEF Source!BuildWrites
  <2>2. /\ s2' \in TreeType /\ s2'.marker = s2.marker
        /\ s2'.head = s2.head /\ s2'.index = s2.index
        /\ \A g \in Source!Files : s2'.file[g] \in {s2.file[g], Source!Absent, Source!Built}
    BY <1>2, <2>1
  <2>3. QED
    BY <2>1, <2>2, SourceTaken
<1>5. QED
  BY <1>3, <1>4

\* A segment that is fetched is staged whole, or not at all.
LEMMA SourceStaged ==
    ASSUME Source!FetchInv, NEW w \in Workers, Source!FetchSegment(w)
    PROVE  Source!FetchInv'
<1> DEFINE t0 == s6[w]
           f == t0[1]
           start == Source!segment_start(t0[2])
           len == Source!segment_len(Sizes[f], t0[2])
<1>1. UNCHANGED <<s1, s2, s3, s4, s10>> /\ s3 = "fetch"
  BY DEF Source!FetchSegment
<1>2. PICK body \in {SubSeq(Source!Content(Source!Ref, f), start + 1, start + len),
                     Source!Content(Source!Ref, f)} :
          \/ /\ Len(body) = len
             /\ s7' = [t \in DOMAIN s7 \cup {t0} |-> IF t = t0 THEN body ELSE s7[t]]
          \/ s7' = s7
  BY DEF Source!FetchSegment
<1>3. Source!Ref \in Source!Asked /\ Source!Asked' = Source!Asked
  BY <1>1 DEF Source!Ref, Source!Asked, Source!FetchInv, Source!FetchTyped
<1>4. ASSUME NEW t \in Source!Tasks \cap DOMAIN s7'
      PROVE  /\ Source!Blocks(s7'[t], Source!Asked, Source!segment_start(t[2]))
             /\ Len(s7'[t]) = Source!segment_len(Sizes[t[1]], t[2])
  <2>1. CASE t \in DOMAIN s7 /\ s7'[t] = s7[t]
    BY <1>1, <2>1 DEF Source!FetchInv, Source!PartsSound
  <2>2. CASE t = t0 /\ s7'[t] = body /\ Len(body) = len
    <3>1. PICK g \in Source!Files :
              t \in {<<g, s - 1>> : s \in 1 .. Source!SegmentCount(Sizes[g])}
      BY DEF Source!Tasks
    <3>2. PICK s \in 1 .. Source!SegmentCount(Sizes[g]) : t = <<g, s - 1>>
      BY <3>1
    <3>3. Sizes[g] \in Nat /\ Source!SegmentCount(Sizes[g]) \in Nat
      BY SourceAssumption, SegmentsCover DEF Source!Files
    <3>4. t[1] = g /\ t[2] \in Nat /\ t[2] < Source!SegmentCount(Sizes[g])
      BY <3>2, <3>3
    <3>5. f = g /\ t0[2] = t[2]
      BY <2>2, <3>4
    <3> HIDE DEF start, len, f, t0
    <3>6. Source!Blocks(body, Source!Asked, start)
      BY <1>2, <1>3, <2>2, <3>4, <3>5, AnswerIsSegment DEF start, len
    <3>7. QED
      BY <2>2, <3>4, <3>5, <3>6 DEF start, len
  <2>3. QED
    BY <1>2, <2>1, <2>2
<1>5. Source!PartsSound'
  BY <1>3, <1>4 DEF Source!PartsSound
<1>6. QED
  BY <1>1, <1>5
  DEF Source!FetchInv, Source!FetchTyped, Source!Asked, Source!Marked, Source!FilesSound,
      Source!FreshSound, Source!ReusedSound, Source!Holds, Source!HeadHasIndex

\* What is assembled of all segments is the files.
LEMMA SourceAssembled ==
    ASSUME Source!FetchInv, Source!Assemble
    PROVE  Source!FetchInv'
<1>1. /\ UNCHANGED <<s1, s4, s10>> /\ s3 = "fetch" /\ s2 \in TreeType
      /\ ~s10 => s2 = Source!NoTree
      /\ Source!Asked' = Source!Asked /\ Source!Asked \subseteq Versions
  BY DEF Source!Assemble, Source!FetchInv, Source!FetchTyped, Source!FilesSound, Source!Asked,
         TreeType
<1>2. CASE s2' = s2 /\ s3' = "undo"
  BY <1>1, <1>2
  DEF Source!FetchInv, Source!FetchTyped, Source!PartsSound, Source!FilesSound,
      Source!FreshSound, Source!ReusedSound, Source!Holds, Source!Marked, Source!HeadHasIndex
<1>3. ASSUME Source!Complete, s3' = "commit",
             s2' = [s2 EXCEPT !.file = [f \in Source!Files |-> Source!Assembled(f)]]
      PROVE  Source!FetchInv'
  <2>1. ASSUME NEW f \in Source!Files
        PROVE  /\ Source!Blocks(Source!Assembled(f), Source!Asked, 0)
               /\ Len(Source!Assembled(f)) = Sizes[f]
    <3> DEFINE k == Source!SegmentCount(Sizes[f])
               ps == Source!PartsOf(f)
    <3>1. Sizes[f] \in Nat
      BY SourceAssumption DEF Source!Files
    <3>2. ps = [s \in 1 .. k |-> ps[s]] /\ \A s \in 1 .. k : ps[s] = s7[<<f, s - 1>>]
      BY DEF Source!PartsOf
    <3>3. ASSUME NEW s \in 1 .. k
          PROVE  /\ Source!Blocks(ps[s], Source!Asked, Source!segment_start(s - 1))
                 /\ Len(ps[s]) = Source!segment_len(Sizes[f], s - 1)
      <4>1. <<f, s - 1>> \in Source!Tasks
        BY DEF Source!Tasks
      <4>2. <<f, s - 1>> \in Source!Tasks \cap DOMAIN s7
        BY <1>3, <4>1 DEF Source!Complete
      <4> DEFINE t == <<f, s - 1>>
      <4>3. t[1] = f /\ t[2] = s - 1
        OBVIOUS
      <4>4. /\ Source!Blocks(s7[t], Source!Asked, Source!segment_start(t[2]))
            /\ Len(s7[t]) = Source!segment_len(Sizes[t[1]], t[2])
        BY <1>1, <4>2 DEF Source!FetchInv, Source!PartsSound
      <4> HIDE DEF ps
      <4>5. ps[s] = s7[t]
        BY <3>2
      <4> HIDE DEF t
      <4>6. QED
        BY <4>3, <4>4, <4>5
    <3> HIDE DEF ps
    <3>4. /\ Source!Blocks(Source!FlattenSeq(ps), Source!Asked, 0)
          /\ Len(Source!FlattenSeq(ps)) = Sizes[f]
      BY <3>1, <3>2, <3>3, JoinedSegments DEF k
    <3>5. QED
      BY <3>4 DEF ps, Source!Assembled
  <2>2. ASSUME NEW f \in Source!Files
        PROVE  /\ Source!Blocks(Source!Assembled(f), Versions, 0)
               /\ Source!Assembled(f) \in Seq(Versions \X Nat)
    <3>1. Source!Blocks(Source!Assembled(f), Versions, 0)
      BY <1>1, <2>1, WiderBlocks
    <3>2. QED
      BY <3>1 DEF Source!Blocks
  <2> DEFINE files == [f \in Source!Files |-> Source!Assembled(f)]
  <2>3. files \in [Source!Files -> {Source!Absent, Source!Built} \cup Seq(Versions \X Nat)]
    BY <2>2
  <2>4. \A f \in Source!Files : files[f] = Source!Assembled(f)
    OBVIOUS
  <2>5. s2' = [s2 EXCEPT !.file = files]
    BY <1>3
  <2> HIDE DEF files
  <2>6. /\ s2' \in TreeType /\ s2'.file = files
        /\ s2'.marker = s2.marker /\ s2'.head = s2.head /\ s2'.index = s2.index
    BY <1>1, <2>3, <2>5 DEF TreeType
  <2>7. Source!FetchTyped'
    BY <1>1, <2>6 DEF Source!FetchInv, Source!FetchTyped, TreeType
  <2>8. Source!FreshSound'
    <3>1. \A f \in Source!Files : Source!Holds(f, Source!Asked)'
      BY <1>1, <2>1, <2>4, <2>6 DEF Source!Holds
    <3>2. QED
      BY <3>1 DEF Source!FreshSound
  <2>9. Source!FilesSound'
    <3>1. ASSUME ~s10 PROVE s2'.marker = NoPin
      BY <1>1, <2>6, <3>1, SourceNone
    <3>2. ASSUME ~s10, NEW f \in Source!Files PROVE Source!Holds(f, Source!Marked)'
      BY <2>1, <2>2, <2>4, <2>6, <3>1, <3>2 DEF Source!Holds, Source!Marked
    <3>3. QED
      BY <1>1, <1>3, <3>1, <3>2 DEF Source!FilesSound
  <2>10. Source!HeadHasIndex'
    BY <1>1, <1>3, <2>6, SourceNone DEF Source!HeadHasIndex
  <2>11. QED
    BY <1>3, <2>7, <2>8, <2>9, <2>10 DEF Source!FetchInv, Source!PartsSound,
                                         Source!ReusedSound
<1>4. QED
  BY <1>2, <1>3 DEF Source!Assemble

\* The commit and the marker do not touch the files, and the marker that is written
\* names what they are of.
LEMMA SourceMarked ==
    ASSUME Source!FetchInv, Source!init_git \/ Source!WriteMarker
    PROVE  Source!FetchInv'
<1>1. s2 \in TreeType
  BY DEF Source!FetchInv, Source!FetchTyped, TreeType
<1>2. CASE Source!init_git
  <2>1. PICK added \in BOOLEAN, committed \in BOOLEAN :
            /\ committed => added
            /\ s2' = [s2 EXCEPT !.index = @ \/ added, !.head = @ \/ committed]
    BY <1>2 DEF Source!init_git
  <2>2. /\ s2' \in TreeType /\ s2'.marker = s2.marker /\ s2'.file = s2.file
        /\ s2'.index = (s2.index \/ added) /\ s2'.head = (s2.head \/ committed)
    BY <1>1, <2>1 DEF TreeType
  <2>3. /\ UNCHANGED <<s1, s4, s10>> /\ s3 = "commit" /\ s3' = "mark"
    BY <1>2 DEF Source!init_git
  <2>4. Source!HeadHasIndex'
    BY <1>1, <2>1, <2>2, <2>3 DEF Source!FetchInv, Source!HeadHasIndex, TreeType
  <2>5. QED
    BY <2>2, <2>3, <2>4
    DEF TreeType, Source!FetchInv, Source!FetchTyped, Source!PartsSound, Source!Asked,
        Source!Marked, Source!FilesSound, Source!FreshSound, Source!ReusedSound, Source!Holds
<1>3. CASE Source!WriteMarker
  <2>1. PICK written \in BOOLEAN :
            /\ s2' = [s2 EXCEPT !.marker = IF written THEN s4 ELSE @]
            /\ s10' = (s10 /\ ~ (written /\ s2.index))
    BY <1>3 DEF Source!WriteMarker
  <2>2. s4 \in Versions \cup {NoPin} /\ UNCHANGED <<s1, s4>> /\ s3 = "mark" /\ s3' = "ok"
    BY <1>3 DEF Source!WriteMarker, Source!FetchInv, Source!FetchTyped
  <2>3. /\ s2' \in TreeType /\ s2'.file = s2.file /\ s2'.index = s2.index
        /\ s2'.head = s2.head /\ s2'.marker = IF written THEN s4 ELSE s2.marker
    BY <1>1, <2>1, <2>2 DEF TreeType
  <2>4. \A f \in Source!Files : Source!Holds(f, Source!Asked)
    BY <2>2 DEF Source!FetchInv, Source!FreshSound
  <2>5. ~s10' => ~s10 \/ (written /\ s2.index)
    BY <2>1, Zenon
  <2>6. ASSUME ~s10' PROVE Source!Asked \subseteq Source!Marked'
    <3>1. CASE written
      BY <2>2, <2>3, <3>1 DEF Source!Asked, Source!Marked
    <3>2. CASE ~written
      <4>1. s2'.marker = NoPin
        BY <2>2, <2>3, <2>5, <2>6, <3>2 DEF Source!FetchInv, Source!FilesSound
      <4>2. QED
        BY <2>2, <4>1 DEF Source!Asked, Source!Marked
    <3>3. QED
      BY <3>1, <3>2
  <2>7. Source!FilesSound'
    <3>1. ASSUME ~s10', NEW f \in Source!Files PROVE Source!Holds(f, Source!Marked)'
      BY <2>3, <2>4, <2>6, <3>1, WiderBlocks DEF Source!Holds
    <3>2. QED
      BY <2>2, <3>1 DEF Source!FilesSound
  <2>8. Source!HeadHasIndex'
    BY <2>2, <2>3, <2>5 DEF Source!FetchInv, Source!HeadHasIndex
  <2>9. QED
    BY <2>2, <2>3, <2>7, <2>8
    DEF TreeType, Source!FetchInv, Source!FetchTyped, Source!PartsSound, Source!Asked,
        Source!FreshSound, Source!ReusedSound, Source!Holds
<1>4. QED
  BY <1>2, <1>3

\* A tree that git, or an archive, brings in is whole, unless a kill cut the
\* checkout short.
LEMMA SourceCloned ==
    ASSUME Source!FetchInv,
           Source!GitClone \/ Source!KilledInCheckout \/ Source!tarball_fallback
    PROVE  Source!FetchInv'
<1>1. /\ UNCHANGED <<s1, s4>> /\ s4 = NoPin /\ s1 \in Versions /\ s3 = "nomat"
      /\ s3' \in {"ok", "undo", "idle", "failed"} /\ s2 \in TreeType
      /\ ~s10 => s2 = Source!NoTree
      /\ Source!Asked' = Versions
  BY DEF Source!GitClone, Source!KilledInCheckout, Source!tarball_fallback, Source!FetchInv,
         Source!FetchTyped, Source!FilesSound, Source!Asked, TreeType
<1>2. ASSUME NEW f \in Source!Files
      PROVE  /\ Source!Blocks(Source!Content(s1, f), Versions, 0)
             /\ Len(Source!Content(s1, f)) = Sizes[f]
             /\ Source!Content(s1, f) \in Seq(Versions \X Nat)
  <2>1. /\ Source!Blocks(Source!Content(s1, f), Versions, 0)
        /\ Len(Source!Content(s1, f)) = Sizes[f]
    BY <1>1, ContentWhole
  <2>2. QED
    BY <2>1 DEF Source!Blocks
<1>3. ASSUME s2' = s2, s10' = s10, s3' # "ok" PROVE Source!FetchInv'
  BY <1>1, <1>3, SourceNone
  DEF TreeType, Source!FetchInv, Source!FetchTyped, Source!PartsSound, Source!FilesSound,
      Source!FreshSound, Source!ReusedSound, Source!Holds, Source!Marked, Source!HeadHasIndex
<1>4. ASSUME s3' = "ok", s2'.file = [f \in Source!Files |-> Source!Content(s1, f)],
             s2' \in TreeType, s10' = s10,
             ~s10 => s2'.marker = NoPin /\ (s2'.head => s2'.index)
      PROVE  Source!FetchInv'
  <2>1. \A f \in Source!Files : Source!Holds(f, Versions)'
    BY <1>2, <1>4 DEF Source!Holds
  <2>2. Source!FreshSound'
    BY <1>1, <2>1 DEF Source!FreshSound, Source!Holds
  <2>3. Source!FilesSound'
    BY <1>4, <2>1 DEF Source!FilesSound, Source!Marked, Source!Holds
  <2>4. QED
    BY <1>1, <1>4, <2>2, <2>3
    DEF TreeType, Source!FetchInv, Source!FetchTyped, Source!PartsSound, Source!ReusedSound,
        Source!HeadHasIndex
<1>5. CASE Source!GitClone
  <2>1. CASE s2' = Source!Whole(s1, TRUE) /\ s3' = "ok"
    <3>1. /\ s2' = [head |-> TRUE, index |-> TRUE, marker |-> NoPin,
                    file |-> [f \in Source!Files |-> Source!Content(s1, f)]]
          /\ s10' = s10
      BY <1>5, <2>1 DEF Source!GitClone, Source!Whole
    <3> DEFINE files == [f \in Source!Files |-> Source!Content(s1, f)]
    <3>2. files \in [Source!Files -> {Source!Absent, Source!Built} \cup Seq(Versions \X Nat)]
      BY <1>2
    <3> HIDE DEF files
    <3>3. /\ s2' \in TreeType /\ s2'.file = files /\ s2'.marker = NoPin /\ s2'.index
      BY <3>1, <3>2 DEF TreeType, files
    <3>4. QED
      BY <1>4, <2>1, <3>1, <3>3 DEF files
  <2>2. CASE s2' = s2 /\ s3' = "undo"
    BY <1>3, <1>5, <2>2 DEF Source!GitClone
  <2>3. QED
    BY <1>5, <2>1, <2>2 DEF Source!GitClone
<1>6. CASE Source!tarball_fallback
  <2>1. CASE s2' = [s2 EXCEPT !.file = Source!Whole(s1, FALSE).file] /\ s3' = "ok"
    <3> DEFINE files == [f \in Source!Files |-> Source!Content(s1, f)]
    <3>1. files \in [Source!Files -> {Source!Absent, Source!Built} \cup Seq(Versions \X Nat)]
      BY <1>2
    <3>2. s2' = [s2 EXCEPT !.file = files] /\ s10' = s10
      BY <1>6, <2>1 DEF Source!Whole, Source!tarball_fallback
    <3> HIDE DEF files
    <3>3. /\ s2' \in TreeType /\ s2'.file = files
          /\ s2'.marker = s2.marker /\ s2'.head = s2.head
      BY <1>1, <3>1, <3>2 DEF TreeType
    <3>4. ~s10 => s2.marker = NoPin /\ ~s2.head
      BY <1>1, SourceNone
    <3>5. QED
      BY <1>4, <2>1, <3>2, <3>3, <3>4 DEF files
  <2>2. CASE s2' = s2 /\ s3' = "failed"
    BY <1>3, <1>6, <2>2 DEF Source!tarball_fallback
  <2>3. QED
    BY <1>6, <2>1, <2>2 DEF Source!tarball_fallback
<1>7. CASE Source!KilledInCheckout
  <2>1. PICK missing \in SUBSET Source!Files :
            s2' = [Source!Whole(s1, TRUE) EXCEPT !.index = FALSE,
                       !.file = [f \in Source!Files |->
                                    IF f \in missing THEN Source!Absent ELSE @[f]]]
    BY <1>7 DEF Source!KilledInCheckout
  <2> DEFINE files == [f \in Source!Files |->
                          IF f \in missing THEN Source!Absent ELSE Source!Content(s1, f)]
  <2>2. s2' = [head |-> TRUE, index |-> FALSE, marker |-> NoPin, file |-> files]
    BY <2>1 DEF Source!Whole
  <2>3. files \in [Source!Files -> {Source!Absent, Source!Built} \cup Seq(Versions \X Nat)]
    BY <1>2
  <2> HIDE DEF files
  <2>4. s2' \in TreeType
    BY <2>2, <2>3 DEF TreeType
  <2>5. s10' /\ s3' = "idle"
    BY <1>7 DEF Source!KilledInCheckout
  <2>6. QED
    BY <1>1, <2>4, <2>5
    DEF TreeType, Source!FetchInv, Source!FetchTyped, Source!PartsSound, Source!FilesSound,
        Source!FreshSound, Source!ReusedSound, Source!HeadHasIndex
<1>8. QED
  BY <1>5, <1>6, <1>7

\* A step that leaves the tree, and starts nothing on it that the invariant speaks
\* of.
LEMMA SourceLeft ==
    ASSUME Source!FetchInv, UNCHANGED <<s1, s2, s4>>,
           s3' \in {"idle", "failed", "wipe", "nomat"}, ~s10' => ~s10 \/ s2 = Source!NoTree,
           s3' = "nomat" /\ ~s10' => s2 = Source!NoTree,
           s3' # "wipe" /\ ~s10' => (s2.head => s2.index)
    PROVE  Source!FetchInv'
<1>1. Source!FilesSound'
  <2>1. CASE s2 = Source!NoTree
    BY <2>1, SourceNone DEF Source!FilesSound
  <2>2. CASE ~s10
    BY <2>2 DEF Source!FetchInv, Source!FilesSound, Source!Marked, Source!Holds
  <2>3. CASE s10'
    BY <2>3 DEF Source!FilesSound
  <2>4. QED
    BY <2>1, <2>2, <2>3
<1>2. QED
  BY <1>1
  DEF Source!FetchInv, Source!FetchTyped, Source!PartsSound, Source!FreshSound,
      Source!ReusedSound, Source!HeadHasIndex

\* Every step of a fetch, a killed one included.
LEMMA SourceStep ==
    ASSUME Source!FetchInv, Source!FetchNext
    PROVE  Source!FetchInv'
<1>1. CASE Source!BranchMoves
  BY <1>1, SourceQuiet DEF Source!BranchMoves, Source!poolVars
<1>2. CASE \E w \in Workers : Source!Take(w) \/ Source!SegmentFails(w)
  <2>1. UNCHANGED <<s1, s2, s3, s4, s7, s10>>
    BY <1>2 DEF Source!Take, Source!SegmentFails
  <2>2. s1 \in Versions
    BY DEF Source!FetchInv, Source!FetchTyped
  <2>3. QED
    BY <2>1, <2>2, SourceQuiet
<1>3. CASE Source!Listed
  <2>1. /\ UNCHANGED <<s1, s2, s4>> /\ s3' \in {"fetch", "undo"} /\ s7' = [t \in {} |-> <<>>]
        /\ s10' = (s2 # Source!NoTree)
    BY <1>3 DEF Source!Listed
  <2>2. DOMAIN s7' = {}
    BY <2>1
  <2>3. Source!FilesSound'
    <3>1. ~s10' => s2 = Source!NoTree
      BY <2>1
    <3>2. QED
      BY <2>1, <3>1, SourceNone DEF Source!FilesSound
  <2>4. Source!HeadHasIndex'
    BY <2>1, SourceNone DEF Source!HeadHasIndex
  <2>5. QED
    BY <2>1, <2>2, <2>3, <2>4
    DEF Source!FetchInv, Source!FetchTyped, Source!PartsSound, Source!FreshSound,
        Source!ReusedSound
<1>4. CASE Source!NoFallback
  <2>1. /\ UNCHANGED <<s1, s2, s4, s10>> /\ s3' = "failed" /\ s3 = "nomat"
    BY <1>4 DEF Source!NoFallback
  <2>2. ~s10 => s2 = Source!NoTree
    BY <2>1 DEF Source!FetchInv, Source!FilesSound
  <2>3. QED
    BY <2>1, <2>2, SourceLeft, SourceNone
<1>5. CASE Source!Return
  <2>1. /\ UNCHANGED <<s1, s2, s4>> /\ s3' \in {"idle", "wipe"}
        /\ s10' = (s2 # Source!NoTree /\ (s10 \/ (s2.head /\ ~s2.index)))
    BY <1>5 DEF Source!Return
  <2>2. ~s10' => s2 = Source!NoTree \/ (~s10 /\ (s2.head => s2.index))
    BY <2>1, Zenon
  <2>3. QED
    BY <2>1, <2>2, SourceLeft, SourceNone
<1>6. CASE Source!Killed
  <2>1. /\ UNCHANGED <<s1, s2, s4>> /\ s3' = "idle"
        /\ s10' = (s10 \/ (s2.head /\ ~s2.index))
    BY <1>6 DEF Source!Killed
  <2>2. ~s10' => ~s10 /\ (s2.head => s2.index)
    BY <2>1, Zenon
  <2>3. QED
    BY <2>1, <2>2, SourceLeft
<1>7. CASE Source!Undone
  <2>1. /\ UNCHANGED <<s1, s2, s4>> /\ s3' = "nomat" /\ s3 = "undo"
        /\ s10' = (s10 /\ s2 # Source!NoTree)
    BY <1>7 DEF Source!Undone
  <2>2. ~s10' => ~s10 \/ s2 = Source!NoTree
    BY <2>1, Zenon
  <2>3. ~s10 => s2 = Source!NoTree
    BY <2>1 DEF Source!FetchInv, Source!FilesSound
  <2>4. QED
    BY <2>1, <2>2, <2>3, SourceLeft, SourceNone
<1>8. QED
  BY <1>1, <1>2, <1>3, <1>4, <1>5, <1>6, <1>7, SourceReused, SourceRemoved, SourceStaged,
     SourceAssembled, SourceMarked, SourceCloned DEF Source!FetchNext

\* All that a fetch does, from nothing on.
LEMMA SourceInductive == PartsSpec => [](part = "source" => Source!FetchInv)
<1> DEFINE Inv == part = "source" => Source!FetchInv
<1>1. PartsInit => Inv
  BY SourceStart DEF PartsInit
<1>2. Inv /\ [PartsNext]_partVars => Inv'
  <2> SUFFICES ASSUME Inv, [PartsNext]_partVars, part' = "source" PROVE Source!FetchInv'
    OBVIOUS
  <2>1. CASE PartsNext
    BY <2>1, SourceStep DEF PartsNext
  <2>2. CASE UNCHANGED partVars
    <3>1. Source!FetchInv /\ UNCHANGED <<s1, s2, s3, s4, s7, s10>>
      BY <2>2 DEF partVars, slots
    <3>2. s1 \in Versions
      BY <3>1 DEF Source!FetchInv, Source!FetchTyped
    <3>3. QED
      BY <3>1, <3>2, SourceQuiet
  <2>3. QED
    BY <2>1, <2>2
<1>3. QED
  BY <1>1, <1>2, PTL DEF PartsSpec

\* A file that holds blocks of one commit only, each in its place, is that commit's.
LEMMA HeldIsContent ==
    ASSUME NEW v, NEW f \in Source!Files, Source!Holds(f, {v})
    PROVE  s2.file[f] = Source!Content(v, f)
<1> DEFINE c == s2.file[f]
<1>1. Source!Blocks(c, {v}, 0) /\ Len(c) = Sizes[f]
  BY DEF Source!Holds
<1>2. Sizes[f] \in Nat
  BY SourceAssumption DEF Source!Files
<1> HIDE DEF c
<1>3. c \in Seq({v} \X Nat) /\ DOMAIN c = 1 .. Sizes[f]
  BY <1>1, <1>2 DEF Source!Blocks
<1>4. ASSUME NEW b \in 1 .. Sizes[f] PROVE c[b] = <<v, b>>
  <2>1. c[b][2] = 0 + b
    BY <1>1, <1>3 DEF Source!Blocks
  <2>2. PICK n \in Nat : c[b] = <<v, n>>
    <3> DEFINE S == {v} \X Nat
    <3>1. c[b] \in S
      <4> HIDE DEF S
      <4>1. c \in Seq(S) /\ b \in DOMAIN c
        BY <1>3 DEF S
      <4>2. QED
        BY <4>1
    <3>2. QED
      BY <3>1
  <2>3. n = b
    BY <1>2, <2>1, <2>2
  <2>4. QED
    BY <2>2, <2>3
<1>5. c = [b \in 1 .. Sizes[f] |-> c[b]]
  BY <1>3
<1>6. QED
  BY <1>4, <1>5 DEF c, Source!Content

\* A file that holds blocks, each in its place, is whole.
LEMMA HeldIsWhole ==
    ASSUME NEW vs, NEW f \in Source!Files, Source!Holds(f, vs)
    PROVE  Source!InPlace(f)
<1> DEFINE c == s2.file[f]
<1>1. Source!Blocks(c, vs, 0) /\ Len(c) = Sizes[f]
  BY DEF Source!Holds
<1>2. Sizes[f] \in Nat
  BY SourceAssumption DEF Source!Files
<1> HIDE DEF c
<1>3. DOMAIN c = 1 .. Sizes[f]
  BY <1>1, <1>2 DEF Source!Blocks
<1>4. \A b \in 1 .. Sizes[f] : c[b][2] = b
  BY <1>1, <1>2, <1>3 DEF Source!Blocks
<1>5. QED
  BY <1>1, <1>4 DEF c, Source!InPlace

\* A pinned tree that is downloaded is that commit's, file by file, and one that is
\* reused differs from it in what the reuse check cannot see alone (gitclone.rs,
\* rawfetch.rs), whatever number and sizes of files, however they are cut into
\* segments, and whatever was killed, removed in part or built over before.
THEOREM SourcePinned == PartsSpec => []PinnedTreeKept
<1>1. (part = "source" => Source!FetchInv) => PinnedTreeKept
  <2> SUFFICES ASSUME Source!FetchInv, s4 # NoPin
               PROVE  Source!PinnedTreeKept
    BY DEF PinnedTreeKept, Source!PinnedTreeKept
  <2>1. Source!Asked = {s4}
    BY DEF Source!Asked
  <2>2. ASSUME s3 = "ok", NEW f \in Source!Files PROVE s2.file[f] = Source!Content(s4, f)
    BY <2>1, <2>2, HeldIsContent DEF Source!FetchInv, Source!FreshSound
  <2>3. ASSUME s3 = "reused", ~s10, NEW f \in Source!Files
        PROVE  Source!Unseen(f) \/ s2.file[f] = Source!Content(s4, f)
    <3>1. CASE s2.file[f] \in {Source!Absent, Source!Built}
      BY <2>3, <3>1 DEF Source!FetchInv, Source!ReusedSound, Source!Unseen
    <3>2. CASE Source!Holds(f, Source!Marked)
      <4>1. Source!Marked \subseteq {s4}
        BY <2>1, <2>3 DEF Source!FetchInv, Source!ReusedSound
      <4>2. Source!Holds(f, {s4})
        BY <3>2, <4>1, WiderBlocks DEF Source!Holds
      <4>3. QED
        BY <4>2, HeldIsContent
    <3>3. QED
      BY <2>3, <3>1, <3>2 DEF Source!FetchInv, Source!FilesSound
  <2>4. QED
    BY <2>2, <2>3 DEF Source!PinnedTreeKept
<1>2. QED
  BY <1>1, SourceInductive, PTL

\* An unpinned clone leaves every file whole, whatever order the workers
\* finished in, and a reused one misses none the check can see (rawfetch.rs,
\* gitclone.rs).
THEOREM SourceWhole == PartsSpec => []UnpinnedTreeWhole
<1>1. (part = "source" => Source!FetchInv) => UnpinnedTreeWhole
  <2> SUFFICES ASSUME Source!FetchInv
               PROVE  Source!UnpinnedTreeWhole
    BY DEF UnpinnedTreeWhole
  <2>1. ASSUME s3 = "ok", NEW f \in Source!Files PROVE Source!InPlace(f)
    BY <2>1, HeldIsWhole DEF Source!FetchInv, Source!FreshSound
  <2>2. ASSUME s3 = "reused", ~s10, NEW f \in Source!Files
        PROVE  Source!Unseen(f) \/ Source!InPlace(f)
    <3>1. CASE s2.file[f] \in {Source!Absent, Source!Built}
      BY <2>2, <3>1 DEF Source!FetchInv, Source!ReusedSound, Source!Unseen
    <3>2. CASE Source!Holds(f, Source!Marked)
      BY <3>2, HeldIsWhole
    <3>3. QED
      BY <2>2, <3>1, <3>2 DEF Source!FetchInv, Source!FilesSound
  <2>3. QED
    BY <2>1, <2>2 DEF Source!UnpinnedTreeWhole
<1>2. QED
  BY <1>1, SourceInductive, PTL

(***************************************************************************)
(* BuildTools.                                                             *)
(***************************************************************************)

\* Whatever is installed, demanded and pinned, a first deploy starts with an
\* empty toolbox.
LEMMA ToolsStart ==
    ASSUME Tools!ToolsInit
    PROVE  Tools!ToolsInv
<1> USE NewestAssumption
    DEF Tools!ToolsInit, Tools!Tools, Tools!Demands
<1>1. Tools!ToolsTyped
  BY DEF Tools!ToolsTyped
<1>2. Tools!StampsAreOld
  BY DEF Tools!StampsAreOld
<1>3. Tools!LeadIsPinned /\ Tools!PassedSoFar
  BY DEF Tools!LeadIsPinned, Tools!PassedSoFar
<1>4. QED
  BY <1>1, <1>2, <1>3 DEF Tools!ToolsInv
\* A step that only moves the deploy on keeps what does not look at the step.
LEMMA ToolsMoveOn ==
    ASSUME Tools!ToolsInv, NEW s, Tools!Goto(s)
    PROVE  /\ Tools!ToolsTyped' /\ Tools!StampsAreOld' /\ Tools!LeadIsPinned'
           /\ s6' = s /\ UNCHANGED <<s1, s2, s3, s4, s5, s7, s8, s9>>
BY DEF Tools!ToolsInv, Tools!Goto, Tools!ToolsTyped, Tools!StampsAreOld,
       Tools!LeadIsPinned, Tools!select_pin, Tools!Min, Tools!manifest_requirements

\* Every step of a deploy, and the next deploy, keep the inductive invariant.
LEMMA ToolsStep ==
    ASSUME Tools!ToolsInv, Tools!ToolsNext
    PROVE  Tools!ToolsInv'
<1> USE DEF Tools!ToolsInv
<1>1. CASE Tools!preflight_check
  <2>1. PICK s \in {"refused", "doctor"} :
           /\ Tools!Goto(s)
           /\ s = "doctor" => \A t \in s4 : s3[t] # 0 \/ Tools!is_auto_provisionable(t)
    BY <1>1 DEF Tools!preflight_check
  <2>2. Tools!PassedSoFar'
    BY <2>1, ToolsMoveOn DEF Tools!PassedSoFar, Tools!is_auto_provisionable
  <2>3. QED
    BY <2>1, <2>2, ToolsMoveOn
<1>2. CASE Tools!check_findings
  <2>1. PICK s \in {"refused", "toolbox"} :
           /\ s6 = "doctor" /\ Tools!Goto(s)
           /\ s = "toolbox" =>
                 \A t \in Tools!Tools : Tools!Gap(t) => Tools!is_auto_provisionable(t)
    BY <1>2 DEF Tools!check_findings
  <2>2. Tools!PassedSoFar'
    BY <2>1, ToolsMoveOn
       DEF Tools!PassedSoFar, Tools!is_auto_provisionable, Tools!Gap,
           Tools!manifest_requirements
  <2>3. QED
    BY <2>1, <2>2, ToolsMoveOn
<1>3. ASSUME NEW t \in {"go", "bun"}, Tools!TakePlaced(t)
      PROVE  Tools!ToolsInv'
  <2>1. s7[t].placed = s5[t]
    BY <1>3 DEF Tools!TakePlaced, Tools!Placed, Tools!StampsAreOld, Tools!ToolsTyped
  <2>2. QED
    BY <1>3, <2>1
       DEF Tools!TakePlaced, Tools!ToolsTyped, Tools!StampsAreOld, Tools!LeadIsPinned,
           Tools!PassedSoFar, Tools!select_pin, Tools!Min, Tools!Gap,
           Tools!manifest_requirements, Tools!is_auto_provisionable
<1>4. ASSUME NEW t \in {"go", "bun"}, Tools!PlaceTool(t)
      PROVE  Tools!ToolsInv'
  <2>1. /\ s6 = "toolbox" /\ t \notin s8
        /\ s7' = [s7 EXCEPT ![t].placed = s5[t]]
        /\ UNCHANGED <<s1, s2, s3, s4, s5, s6, s8, s9>>
    BY <1>4 DEF Tools!PlaceTool
  <2>2. Tools!ToolsTyped'
    BY <2>1 DEF Tools!ToolsTyped
  <2>3. Tools!StampsAreOld'
    BY <2>1 DEF Tools!ToolsTyped, Tools!StampsAreOld
  <2>4. Tools!LeadIsPinned'
    BY <2>1 DEF Tools!ToolsTyped, Tools!LeadIsPinned, Tools!select_pin, Tools!Min,
                Tools!manifest_requirements
  <2>5. Tools!PassedSoFar'
    BY <2>1 DEF Tools!PassedSoFar, Tools!Gap, Tools!manifest_requirements,
                Tools!is_auto_provisionable
  <2>6. QED
    BY <2>2, <2>3, <2>4, <2>5
<1>5. ASSUME NEW t \in {"go", "bun"}, Tools!write_stamp(t)
      PROVE  Tools!ToolsInv'
  <2>1. /\ s6 = "toolbox" /\ s7[t].placed = s5[t] /\ Tools!select_pin(t)
        /\ s7' = [s7 EXCEPT ![t].stamps = @ \cup {s5[t]}]
        /\ s8' = s8 \cup {t}
        /\ UNCHANGED <<s1, s2, s3, s4, s5, s6, s9>>
    BY <1>5 DEF Tools!write_stamp
  <2>2. Tools!ToolsTyped'
    BY <2>1 DEF Tools!ToolsTyped
  <2>3. Tools!StampsAreOld'
    BY <2>1 DEF Tools!ToolsTyped, Tools!StampsAreOld
  <2>4. Tools!LeadIsPinned'
    BY <2>1 DEF Tools!ToolsTyped, Tools!LeadIsPinned, Tools!select_pin, Tools!Min,
                Tools!manifest_requirements
  <2>5. Tools!PassedSoFar'
    BY <2>1 DEF Tools!PassedSoFar, Tools!Gap, Tools!manifest_requirements,
                Tools!is_auto_provisionable
  <2>6. QED
    BY <2>2, <2>3, <2>4, <2>5
<1>6. CASE Tools!provision_fails
  <2>1. Tools!Goto("refused")
    BY <1>6 DEF Tools!provision_fails
  <2>2. QED
    BY <2>1, ToolsMoveOn DEF Tools!PassedSoFar
<1>7. CASE Tools!provision_done
  <2>1. /\ s6 = "toolbox" /\ Tools!toolbox_needs \subseteq s8
        /\ Tools!Goto("toolchain")
    BY <1>7 DEF Tools!provision_done
  <2>2. Tools!PassedSoFar'
    BY <2>1, ToolsMoveOn
       DEF Tools!PassedSoFar, Tools!is_auto_provisionable, Tools!Gap,
           Tools!manifest_requirements, Tools!toolbox_needs
  <2>3. QED
    BY <2>1, <2>2, ToolsMoveOn
<1>8. CASE Tools!go_toolchain_env
  <2>1. /\ s6 = "toolchain" /\ s6' \in {"build", "refused"}
        /\ UNCHANGED <<s1, s2, s3, s4, s5, s7, s8>>
        /\ s9' \in {s9, s1["go"]}
        /\ s6' = "build" /\ "go" \in s4 =>
              s9' = s1["go"] \/ ~(Tools!OnPath("go") < s1["go"])
    BY <1>8 DEF Tools!go_toolchain_env
  <2>2. Tools!ToolsTyped' /\ Tools!StampsAreOld' /\ Tools!LeadIsPinned'
    BY <2>1 DEF Tools!ToolsTyped, Tools!StampsAreOld, Tools!LeadIsPinned, Tools!Tools,
                Tools!select_pin, Tools!Min, Tools!manifest_requirements
  <2>3. Tools!OnPath("go") \in Nat /\ Tools!OnPath("go")' = Tools!OnPath("go")
    BY <2>1 DEF Tools!ToolsTyped, Tools!OnPath, Tools!Tools
  <2>4. Tools!PassedSoFar'
    BY <2>1, <2>3
       DEF Tools!PassedSoFar, Tools!is_auto_provisionable, Tools!Gap, Tools!ToolsTyped,
           Tools!manifest_requirements, Tools!toolbox_needs, Tools!Tools
  <2>5. QED
    BY <2>2, <2>4
<1>9. CASE Tools!Redeploy
  <2>1. /\ s6' = "preflight" /\ s8' = {}
        /\ UNCHANGED <<s1, s2, s3, s4>>
        /\ s5' \in [{"go", "bun"} -> Nat \ {0}]
        /\ \A t \in {"go", "bun"} : s5'[t] >= s5[t]
    BY <1>9, NewestAssumption DEF Tools!Redeploy
  <2>2. \/ UNCHANGED <<s7, s9>>
        \/ /\ s7' = [t \in {"go", "bun"} |-> [placed |-> 0, stamps |-> {}]]
           /\ s9' = 0
    BY <1>9 DEF Tools!Redeploy
  <2>3. Tools!ToolsTyped'
    BY <2>1, <2>2 DEF Tools!ToolsTyped
  <2>4. Tools!StampsAreOld'
    BY <2>1, <2>2 DEF Tools!ToolsTyped, Tools!StampsAreOld
  <2>5. Tools!LeadIsPinned' /\ Tools!PassedSoFar'
    BY <2>1 DEF Tools!LeadIsPinned, Tools!PassedSoFar
  <2>6. QED
    BY <2>3, <2>4, <2>5
<1>10. QED
  BY <1>1, <1>2, <1>3, <1>4, <1>5, <1>6, <1>7, <1>8, <1>9 DEF Tools!ToolsNext

\* A build starts with every tool of its service at least as new as the project
\* demands, for any versions installed, pinned or left by an earlier deploy.
THEOREM ToolsSafety == PartsSpec => []UsedToolsMeetTheBar
<1> DEFINE Inv == part = "tools" => Tools!ToolsInv
<1>1. PartsInit => Inv
  BY ToolsStart DEF PartsInit
<1>2. Inv /\ [PartsNext]_partVars => Inv'
  <2>1. CASE PartsNext /\ part = "tools" /\ Inv
    BY <2>1, ToolsStep DEF PartsNext
  <2>2. CASE UNCHANGED partVars /\ part = "tools" /\ Inv
    BY <2>2
       DEF partVars, slots, Tools!ToolsInv, Tools!ToolsTyped, Tools!StampsAreOld,
           Tools!LeadIsPinned, Tools!PassedSoFar, Tools!select_pin, Tools!Min,
           Tools!Gap, Tools!toolbox_needs, Tools!OnPath, Tools!manifest_requirements,
           Tools!is_auto_provisionable
  <2>3. CASE part # "tools" /\ [PartsNext]_partVars
    BY <2>3 DEF PartsNext, partVars
  <2>4. QED
    BY <2>1, <2>2, <2>3
<1>3. Inv => UsedToolsMeetTheBar
  <2>1. SUFFICES ASSUME Tools!ToolsInv, s6 = "build", NEW t \in s4
                 PROVE  /\ Tools!Effective(t) >= Tools!manifest_requirements(t)
                        /\ Tools!Effective(t) > 0
    BY DEF UsedToolsMeetTheBar, Tools!UsedToolsMeetTheBar
  <2>2. t \in {"go", "bun", "node"}
    BY <2>1 DEF Tools!ToolsInv, Tools!ToolsTyped, Tools!Tools
  <2>3. CASE t \in s8
    BY <2>1, <2>2, <2>3
       DEF Tools!ToolsInv, Tools!ToolsTyped, Tools!Tools, Tools!LeadIsPinned,
           Tools!PassedSoFar, Tools!Effective, Tools!OnPath, Tools!select_pin,
           Tools!Min, Tools!manifest_requirements
  <2>4. CASE t \notin s8
    BY <2>1, <2>2, <2>4
       DEF Tools!ToolsInv, Tools!ToolsTyped, Tools!Tools, Tools!toolbox_needs,
           Tools!PassedSoFar, Tools!Effective, Tools!OnPath, Tools!Gap,
           Tools!is_auto_provisionable, Tools!manifest_requirements
  <2>5. QED
    BY <2>3, <2>4
<1>4. QED
  BY <1>1, <1>2, <1>3, PTL DEF PartsSpec
(***************************************************************************)
(* BuildSeeds.                                                             *)
(***************************************************************************)

\* A first deploy finds empty caches.
LEMMA SeedsStart ==
    ASSUME Seeds!SeedsInit
    PROVE  Seeds!SeedsInv
<1> USE DEF Seeds!SeedsInit
<1>1. Seeds!SeedsTyped
  BY DEF Seeds!SeedsTyped, Seeds!NoZip
<1>2. Seeds!InputsSoFar /\ Seeds!FilesWhole /\ Seeds!BesideComplete
  BY DEF Seeds!InputsSoFar, Seeds!FilesWhole, Seeds!BesideComplete, Seeds!NoZip,
         Seeds!At, Seeds!Zips, Seeds!Usable
<1>3. QED
  BY <1>1, <1>2 DEF Seeds!SeedsInv

\* A step that touches no zip, and moves the deploy within or between the steps
\* that have no zip, keeps what is known of the zips.
LEMMA ZipsAside ==
    ASSUME Seeds!SeedsInv, UNCHANGED <<s7, s8, s9, s10>>,
           s2 \notin {"toolchain", "module", "build", "failed"},
           \/ s2' \notin {"toolchain", "module", "build"}
           \/ s2' = "toolchain" /\ s3' = "begin"
    PROVE  Seeds!FilesWhole' /\ Seeds!BesideComplete'
BY DEF Seeds!SeedsInv, Seeds!FilesWhole, Seeds!BesideComplete, Seeds!At, Seeds!Usable,
       Seeds!Zips, Seeds!Beside

\* The wheels and the plugins of this deploy are put in their places.
LEMMA SeedsInputs ==
    ASSUME Seeds!SeedsInv,
           \/ Seeds!run_host_step \/ Seeds!mark_pip_wheelhouse \/ Seeds!PluginsPlaced
           \/ \E p \in Plugins : Seeds!StagePlugin(p) \/ Seeds!PlacePlugin(p)
    PROVE  Seeds!SeedsInv'
<1> USE DEF Seeds!SeedsInv
<1>1. CASE Seeds!run_host_step
  <2>1. Seeds!SeedsTyped' /\ Seeds!InputsSoFar'
    BY <1>1 DEF Seeds!run_host_step, Seeds!Goto, Seeds!zipVars, Seeds!SeedsTyped,
                Seeds!InputsSoFar
  <2>2. QED
    BY <1>1, <2>1, ZipsAside DEF Seeds!run_host_step, Seeds!Goto, Seeds!zipVars
<1>2. CASE Seeds!mark_pip_wheelhouse
  <2>1. Seeds!SeedsTyped' /\ Seeds!InputsSoFar'
    BY <1>2 DEF Seeds!mark_pip_wheelhouse, Seeds!Goto, Seeds!zipVars, Seeds!SeedsTyped,
                Seeds!InputsSoFar
  <2>2. QED
    BY <1>2, <2>1, ZipsAside DEF Seeds!mark_pip_wheelhouse, Seeds!Goto, Seeds!zipVars
<1>3. CASE Seeds!PluginsPlaced
  <2>1. Seeds!SeedsTyped' /\ Seeds!InputsSoFar'
    BY <1>3 DEF Seeds!PluginsPlaced, Seeds!Goto, Seeds!zipVars, Seeds!SeedsTyped,
                Seeds!InputsSoFar
  <2>2. QED
    BY <1>3, <2>1, ZipsAside DEF Seeds!PluginsPlaced, Seeds!Goto, Seeds!zipVars
<1>4. ASSUME NEW p \in Plugins, Seeds!StagePlugin(p) \/ Seeds!PlacePlugin(p)
      PROVE  Seeds!SeedsInv'
  <2>1. /\ s2 = "stage" /\ UNCHANGED <<s1, s2, s3, s4, s7, s8, s9, s10>>
        /\ s5' \in [Plugins -> Nat] /\ s6' \in [Plugins -> Nat]
    BY <1>4 DEF Seeds!StagePlugin, Seeds!PlacePlugin, Seeds!zipVars, Seeds!SeedsTyped
  <2>2. Seeds!SeedsTyped' /\ Seeds!InputsSoFar'
    BY <2>1 DEF Seeds!SeedsTyped, Seeds!InputsSoFar
  <2>3. QED
    BY <2>1, <2>2, ZipsAside
<1>5. QED
  BY <1>1, <1>2, <1>3, <1>4

\* A zip is fetched in parts, assembled in its place and completed.
LEMMA SeedsZips ==
    ASSUME Seeds!SeedsInv, NEW z \in Seeds!Zips,
           \/ Seeds!BeginZip(z) \/ Seeds!Truncate(z) \/ Seeds!WriteSome(z)
           \/ Seeds!Assemble(z) \/ Seeds!ZipDone(z)
           \/ \E i \in Segments : Seeds!FetchPart(z, i)
           \/ \E ext \in {"ziphash", "info", "mod"} : Seeds!WriteBeside(z, ext)
    PROVE  Seeds!SeedsInv'
<1> USE DEF Seeds!SeedsInv
<1>1. CASE Seeds!BeginZip(z)
  <2>1. /\ s2 = z /\ s3 = "begin" /\ ~Seeds!Usable(z)
        /\ s2' = z /\ s3' = "parts" /\ UNCHANGED <<s1, s4, s5, s6, s7, s9, s10>>
        /\ s8' = {i \in Segments : s7[z].parts[i] # "whole"}
    BY <1>1 DEF Seeds!BeginZip, Seeds!Goto, Seeds!othersVars, Seeds!At
  <2>2. Seeds!SeedsTyped' /\ Seeds!InputsSoFar'
    BY <2>1 DEF Seeds!SeedsTyped, Seeds!InputsSoFar, Seeds!Zips
  <2>3. Seeds!FilesWhole'
    BY <2>1 DEF Seeds!FilesWhole, Seeds!At, Seeds!Zips, Seeds!Usable
  <2>4. Seeds!BesideComplete'
    BY <2>1 DEF Seeds!BesideComplete, Seeds!Beside, Seeds!Zips, Seeds!Usable
  <2>5. QED
    BY <2>2, <2>3, <2>4
<1>2. CASE Seeds!Truncate(z)
  <2>1. /\ s2 = z /\ s3 = "parts" /\ s8 = {}
        /\ s2' = z /\ s3' = "write" /\ UNCHANGED <<s1, s4, s5, s6, s8, s9, s10>>
        /\ s7' = [s7 EXCEPT ![z].file = "empty"]
    BY <1>2 DEF Seeds!Truncate, Seeds!Goto, Seeds!othersVars, Seeds!At
  <2>2. Seeds!SeedsTyped' /\ Seeds!InputsSoFar'
    BY <2>1 DEF Seeds!SeedsTyped, Seeds!InputsSoFar, Seeds!Zips
  <2>3. Seeds!FilesWhole'
    BY <2>1 DEF Seeds!FilesWhole, Seeds!At, Seeds!Zips, Seeds!SeedsTyped
  <2>4. Seeds!BesideComplete'
    BY <2>1 DEF Seeds!BesideComplete, Seeds!Beside, Seeds!Zips, Seeds!Usable,
                Seeds!SeedsTyped
  <2>5. QED
    BY <2>2, <2>3, <2>4
<1>3. CASE Seeds!WriteSome(z)
  <2>1. /\ s2 = z /\ s3 = "write"
        /\ UNCHANGED <<s1, s2, s3, s4, s5, s6, s8, s9, s10>>
        /\ s7' = [s7 EXCEPT ![z].file = "cut"]
    BY <1>3 DEF Seeds!WriteSome, Seeds!othersVars, Seeds!At
  <2>2. Seeds!SeedsTyped' /\ Seeds!InputsSoFar'
    BY <2>1 DEF Seeds!SeedsTyped, Seeds!InputsSoFar, Seeds!Zips
  <2>3. Seeds!FilesWhole'
    BY <2>1 DEF Seeds!FilesWhole, Seeds!At, Seeds!Zips, Seeds!SeedsTyped
  <2>4. Seeds!BesideComplete'
    BY <2>1 DEF Seeds!BesideComplete, Seeds!Beside, Seeds!Zips, Seeds!Usable,
                Seeds!SeedsTyped
  <2>5. QED
    BY <2>2, <2>3, <2>4
<1>4. CASE Seeds!Assemble(z)
  <2> DEFINE whole == \A i \in Segments : s7[z].parts[i] = "whole"
  <2>1. /\ s2 = z /\ s3 = "write" /\ UNCHANGED <<s1, s4, s5, s6, s8, s9, s10>>
        /\ s7' = [s7 EXCEPT ![z] = [@ EXCEPT !.file = IF whole THEN "whole" ELSE "cut",
                                             !.parts = [i \in Segments |-> "none"]]]
        /\ \/ whole /\ s2' = z /\ s3' = "beside"
           \/ ~whole /\ z = "module" /\ s2' = "module" /\ s3' = "retry"
           \/ ~whole /\ s2' = "failed"
    BY <1>4 DEF Seeds!Assemble, Seeds!Goto, Seeds!othersVars, Seeds!At
  <2>2. Seeds!SeedsTyped' /\ Seeds!InputsSoFar'
    <3>1. Seeds!InputsSoFar'
      BY <2>1 DEF Seeds!InputsSoFar, Seeds!Zips
    <3> HIDE DEF whole
    <3>2. s7'[z] \in [file : {"none", "empty", "cut", "whole"},
                      parts : [Segments -> {"none", "short", "whole"}],
                      beside : SUBSET {"ziphash", "info", "mod"}]
      <4>1. /\ s7[z] \in [file : {"none", "empty", "cut", "whole"},
                             parts : [Segments -> {"none", "short", "whole"}],
                             beside : SUBSET {"ziphash", "info", "mod"}]
            /\ z \in DOMAIN s7
        BY DEF Seeds!SeedsTyped
      <4>2. s7'[z] = [s7[z] EXCEPT !.file = IF whole THEN "whole" ELSE "cut",
                                   !.parts = [i \in Segments |-> "none"]]
        BY ONLY <2>1, <4>1
      <4>3. s7'[z] = [file |-> IF whole THEN "whole" ELSE "cut",
                      parts |-> [i \in Segments |-> "none"],
                      beside |-> s7[z].beside]
        BY ONLY <4>1, <4>2
      <4>4. /\ (IF whole THEN "whole" ELSE "cut") \in {"none", "empty", "cut", "whole"}
            /\ [i \in Segments |-> "none"] \in [Segments -> {"none", "short", "whole"}]
            /\ s7[z].beside \in SUBSET {"ziphash", "info", "mod"}
        BY ONLY <4>1
      <4>5. QED
        BY ONLY <4>3, <4>4
    <3>3. s7'[z].beside = s7[z].beside
      BY <2>1 DEF Seeds!SeedsTyped
    <3>4. Seeds!SeedsTyped'
      BY <2>1, <3>2, <3>3 DEF Seeds!SeedsTyped
    <3>5. QED
      BY <3>1, <3>4
  <2>3. Seeds!FilesWhole'
    <3>1. ~s9 => whole
      BY <2>1 DEF Seeds!FilesWhole, Seeds!At
    <3>2. \A x \in Seeds!Zips : s7'[x].file =
             IF x # z THEN s7[x].file ELSE IF whole THEN "whole" ELSE "cut"
      BY <2>1 DEF Seeds!SeedsTyped
    <3>3. QED
      BY <2>1, <3>1, <3>2 DEF Seeds!FilesWhole, Seeds!At, Seeds!Zips
  <2>4. Seeds!BesideComplete'
    BY <2>1 DEF Seeds!BesideComplete, Seeds!Beside, Seeds!Zips, Seeds!Usable,
                Seeds!SeedsTyped
  <2>5. QED
    BY <2>2, <2>3, <2>4
<1>5. CASE Seeds!ZipDone(z)
  <2>1. /\ s2 = z /\ s3 = "beside" /\ s7[z].beside = Seeds!Beside(z)
        /\ s2' = Seeds!Following(z) /\ s3' = "begin"
        /\ UNCHANGED <<s1, s4, s5, s6, s7, s8, s9, s10>>
    BY <1>5 DEF Seeds!ZipDone, Seeds!Goto, Seeds!othersVars, Seeds!zipVars, Seeds!At
  <2>2. Seeds!SeedsTyped' /\ Seeds!InputsSoFar'
    BY <2>1 DEF Seeds!SeedsTyped, Seeds!InputsSoFar, Seeds!Zips, Seeds!Following
  <2>3. Seeds!FilesWhole'
    BY <2>1 DEF Seeds!FilesWhole, Seeds!At, Seeds!Zips, Seeds!Following
  <2>4. Seeds!BesideComplete'
    BY <2>1 DEF Seeds!BesideComplete, Seeds!Zips, Seeds!Usable, Seeds!Following,
                Seeds!Beside
  <2>5. QED
    BY <2>2, <2>3, <2>4
<1>6. ASSUME NEW i \in Segments, Seeds!FetchPart(z, i)
      PROVE  Seeds!SeedsInv'
  <2>1. PICK got \in {"whole", "short"} :
        /\ s2 = z /\ s3 = "parts" /\ UNCHANGED <<s1, s2, s3, s4, s5, s6, s10>>
        /\ s7' = [s7 EXCEPT ![z].parts[i] = got]
        /\ s9' = (s9 \/ got = "short")
        /\ s8' = s8 \ {i}
    BY <1>6 DEF Seeds!FetchPart, Seeds!othersVars, Seeds!At
  <2>2. Seeds!SeedsTyped' /\ Seeds!InputsSoFar'
    BY <2>1 DEF Seeds!SeedsTyped, Seeds!InputsSoFar, Seeds!Zips
  <2>3. \A x \in Seeds!Zips : s7'[x].file = s7[x].file
    BY <2>1 DEF Seeds!SeedsTyped
  <2>4. s7'[z].parts = [s7[z].parts EXCEPT ![i] = got]
    BY <2>1 DEF Seeds!SeedsTyped
  <2>5. ~s9' => ~s9 /\ \A j \in Segments \ s8' : s7'[z].parts[j] = "whole"
    <3>1. ~s9' => ~s9 /\ got = "whole"
      BY <2>1 DEF Seeds!SeedsTyped
    <3>2. ~s9 => \A j \in Segments \ s8 : s7[z].parts[j] = "whole"
      BY <2>1 DEF Seeds!FilesWhole, Seeds!At
    <3>3. DOMAIN s7[z].parts = Segments
      BY DEF Seeds!SeedsTyped
    <3>4. QED
      BY ONLY <2>1, <2>4, <3>1, <3>2, <3>3
  <2>6. Seeds!FilesWhole'
    BY <2>1, <2>3, <2>5 DEF Seeds!FilesWhole, Seeds!At, Seeds!Zips
  <2>7. Seeds!BesideComplete'
    BY <2>1 DEF Seeds!BesideComplete, Seeds!Beside, Seeds!Zips, Seeds!Usable,
                Seeds!SeedsTyped
  <2>8. QED
    BY <2>2, <2>6, <2>7
<1>7. ASSUME NEW ext \in {"ziphash", "info", "mod"}, Seeds!WriteBeside(z, ext)
      PROVE  Seeds!SeedsInv'
  <2>1. /\ s2 = z /\ s3 = "beside" /\ ext \in Seeds!Beside(z)
        /\ UNCHANGED <<s1, s2, s3, s4, s5, s6, s8, s9, s10>>
        /\ s7' = [s7 EXCEPT ![z].beside = @ \cup {ext}]
    BY <1>7 DEF Seeds!WriteBeside, Seeds!othersVars, Seeds!At
  <2>2. Seeds!SeedsTyped' /\ Seeds!InputsSoFar'
    BY <2>1 DEF Seeds!SeedsTyped, Seeds!InputsSoFar, Seeds!Zips
  <2>3. Seeds!FilesWhole'
    BY <2>1 DEF Seeds!FilesWhole, Seeds!At, Seeds!Zips, Seeds!SeedsTyped
  <2>4. Seeds!BesideComplete'
    BY <2>1 DEF Seeds!BesideComplete, Seeds!Beside, Seeds!Zips, Seeds!Usable,
                Seeds!SeedsTyped
  <2>5. QED
    BY <2>2, <2>3, <2>4
<1>8. QED
  BY <1>1, <1>2, <1>3, <1>4, <1>5, <1>6, <1>7

\* What is there is taken, a module is given up, the deploy ends, is killed or
\* rolled back, and the next one begins.
LEMMA SeedsTurns ==
    ASSUME Seeds!SeedsInv,
           \/ Seeds!AlreadySeeded \/ Seeds!RetryModule \/ Seeds!ToolchainThere
           \/ Seeds!GiveUpModule \/ Seeds!Fails \/ Seeds!RollBack \/ Seeds!Killed
           \/ Seeds!Built \/ Seeds!Redeploy
    PROVE  Seeds!SeedsInv'
<1> USE DEF Seeds!SeedsInv, Seeds!Goto, Seeds!At, Seeds!zipVars, Seeds!othersVars,
            Seeds!Usable, Seeds!Zips
<1>1. CASE Seeds!AlreadySeeded
  <2>1. Seeds!SeedsTyped' /\ Seeds!InputsSoFar'
    BY <1>1 DEF Seeds!AlreadySeeded, Seeds!SeedsTyped, Seeds!InputsSoFar
  <2>2. Seeds!FilesWhole'
    BY <1>1 DEF Seeds!AlreadySeeded, Seeds!SeedsTyped, Seeds!FilesWhole
  <2>3. Seeds!BesideComplete'
    BY <1>1 DEF Seeds!AlreadySeeded, Seeds!BesideComplete, Seeds!Beside
  <2>4. QED
    BY <2>1, <2>2, <2>3
<1>2. CASE Seeds!RetryModule
  <2>1. Seeds!SeedsTyped' /\ Seeds!InputsSoFar'
    BY <1>2 DEF Seeds!RetryModule, Seeds!SeedsTyped, Seeds!InputsSoFar
  <2>2. Seeds!FilesWhole'
    BY <1>2 DEF Seeds!RetryModule, Seeds!SeedsTyped, Seeds!FilesWhole
  <2>3. Seeds!BesideComplete'
    BY <1>2 DEF Seeds!RetryModule, Seeds!BesideComplete, Seeds!Beside
  <2>4. QED
    BY <2>1, <2>2, <2>3
<1>3. CASE Seeds!ToolchainThere
  <2>1. Seeds!SeedsTyped' /\ Seeds!InputsSoFar'
    BY <1>3 DEF Seeds!ToolchainThere, Seeds!SeedsTyped, Seeds!InputsSoFar
  <2>2. Seeds!FilesWhole'
    BY <1>3 DEF Seeds!ToolchainThere, Seeds!SeedsTyped, Seeds!FilesWhole
  <2>3. Seeds!BesideComplete'
    BY <1>3 DEF Seeds!ToolchainThere, Seeds!BesideComplete, Seeds!Beside
  <2>4. QED
    BY <2>1, <2>2, <2>3
<1>4. CASE Seeds!GiveUpModule
  <2>1. Seeds!SeedsTyped' /\ Seeds!InputsSoFar'
    BY <1>4 DEF Seeds!GiveUpModule, Seeds!SeedsTyped, Seeds!InputsSoFar
  <2>2. Seeds!FilesWhole'
    BY <1>4 DEF Seeds!GiveUpModule, Seeds!SeedsTyped, Seeds!FilesWhole
  <2>3. Seeds!BesideComplete'
    BY <1>4 DEF Seeds!GiveUpModule, Seeds!BesideComplete, Seeds!Beside
  <2>4. QED
    BY <2>1, <2>2, <2>3
<1>5. CASE Seeds!Fails
  <2>1. Seeds!SeedsTyped' /\ Seeds!InputsSoFar'
    BY <1>5 DEF Seeds!Fails, Seeds!SeedsTyped, Seeds!InputsSoFar
  <2>2. Seeds!FilesWhole'
    BY <1>5 DEF Seeds!Fails, Seeds!SeedsTyped, Seeds!FilesWhole
  <2>3. Seeds!BesideComplete'
    BY <1>5 DEF Seeds!Fails, Seeds!BesideComplete, Seeds!Beside
  <2>4. QED
    BY <2>1, <2>2, <2>3
<1>6. CASE Seeds!Killed
  <2>1. Seeds!SeedsTyped' /\ Seeds!InputsSoFar'
    BY <1>6 DEF Seeds!Killed, Seeds!SeedsTyped, Seeds!InputsSoFar
  <2>2. Seeds!FilesWhole'
    BY <1>6 DEF Seeds!Killed, Seeds!SeedsTyped, Seeds!FilesWhole
  <2>3. Seeds!BesideComplete'
    BY <1>6 DEF Seeds!Killed, Seeds!BesideComplete, Seeds!Beside
  <2>4. QED
    BY <2>1, <2>2, <2>3
<1>7. CASE Seeds!Built
  <2>1. Seeds!SeedsTyped' /\ Seeds!InputsSoFar'
    BY <1>7 DEF Seeds!Built, Seeds!SeedsTyped, Seeds!InputsSoFar
  <2>2. Seeds!FilesWhole'
    BY <1>7 DEF Seeds!Built, Seeds!SeedsTyped, Seeds!FilesWhole
  <2>3. Seeds!BesideComplete'
    BY <1>7 DEF Seeds!Built, Seeds!BesideComplete, Seeds!Beside
  <2>4. QED
    BY <2>1, <2>2, <2>3
<1>8. CASE Seeds!Redeploy
  <2>1. Seeds!SeedsTyped' /\ Seeds!InputsSoFar'
    BY <1>8 DEF Seeds!Redeploy, Seeds!SeedsTyped, Seeds!InputsSoFar
  <2>2. Seeds!FilesWhole'
    BY <1>8 DEF Seeds!Redeploy, Seeds!SeedsTyped, Seeds!FilesWhole
  <2>3. Seeds!BesideComplete'
    BY <1>8 DEF Seeds!Redeploy, Seeds!BesideComplete, Seeds!Beside
  <2>4. QED
    BY <2>1, <2>2, <2>3
<1>9. CASE Seeds!RollBack
  <2>1. /\ Seeds!NoCaches /\ s2' = "idle" /\ s3' = "begin" /\ s1' = s1
    BY <1>9 DEF Seeds!RollBack
  <2>2. Seeds!SeedsTyped' /\ Seeds!InputsSoFar'
    BY <2>1 DEF Seeds!NoCaches, Seeds!NoZip, Seeds!SeedsTyped, Seeds!InputsSoFar
  <2>3. Seeds!FilesWhole' /\ Seeds!BesideComplete'
    BY <2>1 DEF Seeds!NoCaches, Seeds!NoZip, Seeds!FilesWhole, Seeds!BesideComplete
  <2>4. QED
    BY <2>2, <2>3
<1>10. QED
  BY <1>1, <1>2, <1>3, <1>4, <1>5, <1>6, <1>7, <1>8, <1>9

\* Every step keeps the inductive invariant.
LEMMA SeedsStep ==
    ASSUME Seeds!SeedsInv, Seeds!SeedsNext
    PROVE  Seeds!SeedsInv'
BY SeedsInputs, SeedsZips, SeedsTurns DEF Seeds!SeedsNext
\* A step of the part keeps the inductive invariant, a stuttering step does.
LEMMA SeedsInductive ==
    /\ PartsInit => (part = "seeds" => Seeds!SeedsInv)
    /\ (part = "seeds" => Seeds!SeedsInv) /\ [PartsNext]_partVars
          => (part = "seeds" => Seeds!SeedsInv)'
<1>1. PartsInit => (part = "seeds" => Seeds!SeedsInv)
  BY SeedsStart DEF PartsInit
<1>2. ASSUME part = "seeds" => Seeds!SeedsInv, PartsNext
      PROVE  (part = "seeds" => Seeds!SeedsInv)'
  BY <1>2, SeedsStep DEF PartsNext
<1>3. ASSUME part = "seeds" => Seeds!SeedsInv, UNCHANGED partVars
      PROVE  (part = "seeds" => Seeds!SeedsInv)'
  BY <1>3
     DEF partVars, slots, Seeds!SeedsInv, Seeds!SeedsTyped, Seeds!InputsSoFar,
         Seeds!FilesWhole, Seeds!BesideComplete, Seeds!At, Seeds!Usable
<1>4. QED
  BY <1>1, <1>2, <1>3

\* The offline build runs on the wheels and the plugins of this deploy's manifest,
\* for any number of plugins and revisions.
THEOREM InputsSafety == PartsSpec => []BuildInputsPinned
<1>1. (part = "seeds" => Seeds!SeedsInv) => BuildInputsPinned
  BY DEF Seeds!SeedsInv, Seeds!InputsSoFar, BuildInputsPinned, Seeds!BuildInputsPinned
<1>2. QED
  BY <1>1, SeedsInductive, PTL DEF PartsSpec

\* A zip that the build trusts is whole and complete, for any number of segments,
\* unless a part or a write was cut short or the module was given up.
THEOREM ZipsSafety == PartsSpec => []SeededZipsWhole
<1>1. (part = "seeds" => Seeds!SeedsInv) => SeededZipsWhole
  BY DEF Seeds!SeedsInv, Seeds!FilesWhole, Seeds!BesideComplete, Seeds!Zips,
         Seeds!Usable, SeededZipsWhole, Seeds!SeededZipsWhole
<1>2. QED
  BY <1>1, SeedsInductive, PTL DEF PartsSpec

(***************************************************************************)
(* TreeDetect.                                                             *)
(***************************************************************************)

\* Short sequences, joined.
LEMMA ShortJoins ==
    ASSUME NEW x, NEW y, NEW z
    PROVE  <<x>> \o <<y>> = <<x, y>> /\ <<x, y>> \o <<z>> = <<x, y, z>>
<1> DEFINE S == {x, y, z}
           a == <<x>> \o <<y>>
           b == <<x, y>> \o <<z>>
<1>1. <<x>> \in Seq(S) /\ <<y>> \in Seq(S) /\ <<z>> \in Seq(S) /\ <<x, y>> \in Seq(S)
  OBVIOUS
<1>2. Len(<<x>>) = 1 /\ Len(<<y>>) = 1 /\ Len(<<z>>) = 1 /\ Len(<<x, y>>) = 2
  OBVIOUS
<1>3. /\ a \in Seq(S) /\ Len(a) = 1 + 1
      /\ \A i \in 1 .. 1 + 1 : a[i] = IF i <= 1 THEN <<x>>[i] ELSE <<y>>[i - 1]
  BY <1>1, <1>2, ConcatProperties
<1>4. /\ b \in Seq(S) /\ Len(b) = 2 + 1
      /\ \A i \in 1 .. 2 + 1 : b[i] = IF i <= 2 THEN <<x, y>>[i] ELSE <<z>>[i - 2]
  BY <1>1, <1>2, ConcatProperties
<1> HIDE DEF S, a, b
<1>5. Len(a) = 2 /\ a[1] = x /\ a[2] = y
  BY <1>3
<1>6. Len(b) = 3 /\ b[1] = x /\ b[2] = y /\ b[3] = z
  BY <1>4
<1>7. a = <<x, y>>
  BY <1>3, <1>5
<1>8. b = <<x, y, z>>
  BY <1>4, <1>6
<1>9. QED
  BY <1>7, <1>8 DEF a, b

\* Each plan brings in what its build needs, before the build needs it, by
\* downloads only.
LEMMA PlansProvide ==
    ASSUME NEW d, <<d.prefetch, d.build>> \in Detect!Plans
    PROVE  /\ Detect!Provided(d)
           /\ \A s \in Detect!ToSet(d.prefetch) : Detect!validate_prefetch_step(s)
<1> USE DEF Detect!Provided, Detect!ToSet, Detect!Contains, Detect!Before,
            Detect!validate_prefetch_step, Detect!Step
<1> DEFINE f == d.prefetch
           b == d.build
<1>1. CASE f = <<Detect!Step("bun", "install", "root")>> /\ b = <<>>
  BY <1>1
<1>2. CASE /\ f = <<Detect!Step("bun", "install", "root")>>
           /\ b = <<Detect!Step("bun", "run", "root")>>
  BY <1>2
<1>3. CASE /\ f = <<Detect!Step("pnpm", "fetch", "root")>>
           /\ b = <<Detect!Step("pnpm", "install", "root")>>
  BY <1>3
<1>4. CASE /\ f = <<Detect!Step("pnpm", "fetch", "root")>>
           /\ b = <<Detect!Step("pnpm", "install", "root"), Detect!Step("pnpm", "run", "root")>>
  BY <1>4
<1>5. CASE /\ f = <<Detect!Step("python3", "download", "root")>>
           /\ b = <<Detect!Step("python3", "venv", "root"), Detect!Step("pip", "install", "root")>>
  BY <1>5
<1>6. CASE f = <<>> /\ b = <<Detect!Step("go", "build", "root")>>
  BY <1>6
<1>7. CASE /\ f = <<Detect!Step("bun", "install", "web")>>
           /\ b = <<Detect!Step("bun", "run", "web"), Detect!Step("go", "build", "root")>>
  BY <1>7
<1>8. CASE /\ f = <<Detect!Step("pnpm", "fetch", "web")>>
           /\ b = <<Detect!Step("pnpm", "install", "web"), Detect!Step("pnpm", "run", "web"),
                    Detect!Step("go", "build", "root")>>
  BY <1>8
<1>9. QED
  BY <1>1, <1>2, <1>3, <1>4, <1>5, <1>6, <1>7, <1>8 DEF Detect!Plans

\* Whatever the tree holds, the detector makes one of the plans of it.
LEMMA DetectedPlan ==
    ASSUME NEW t
    PROVE  LET d == Detect!detect_tree(t) IN
           /\ d \in [profile : {d.profile}, prefetch : {d.prefetch}, build : {d.build},
                     says : {d.says}, source : {d.source}, port : {d.port},
                     notes : {d.notes}]
           /\ <<d.prefetch, d.build>> \in Detect!Plans
<1> DEFINE Whole(d) ==
               /\ d \in [profile : {d.profile}, prefetch : {d.prefetch}, build : {d.build},
                         says : {d.says}, source : {d.source}, port : {d.port},
                         notes : {d.notes}]
               /\ <<d.prefetch, d.build>> \in Detect!Plans
<1>1. ASSUME NEW profile, NEW f, NEW b, NEW says, NEW source, NEW port,
             <<f, b>> \in Detect!Plans
      PROVE  Whole(Detect!Proposal(profile, f, b, says, source, port))
  <2> DEFINE d == Detect!Proposal(profile, f, b, says, source, port)
  <2>1. d.prefetch = f /\ d.build = b
    BY DEF Detect!Proposal
  <2>2. d \in [profile : {d.profile}, prefetch : {d.prefetch}, build : {d.build},
               says : {d.says}, source : {d.source}, port : {d.port}, notes : {d.notes}]
    BY DEF Detect!Proposal
  <2> HIDE DEF d
  <2>3. QED
    BY <1>1, <2>1, <2>2 DEF d
<1>2. ASSUME NEW p PROVE Whole(Detect!detect_node(p))
  <2> DEFINE m == Detect!node_manager(p)
             script == IF "build" \in p.scripts THEN <<Detect!Step(m, "run", "root")>> ELSE <<>>
             build == IF m = "pnpm" THEN <<Detect!Step("pnpm", "install", "root")>> \o script
                      ELSE script
             fetch == Detect!Step(m, IF m = "pnpm" THEN "fetch" ELSE "install", "root")
  <2>1. m \in {"pnpm", "bun"}
    BY DEF Detect!node_manager
  <2> HIDE DEF m
  <2>2. <<Detect!Step("pnpm", "install", "root")>> \o <<>>
          = <<Detect!Step("pnpm", "install", "root")>>
    OBVIOUS
  <2>3. <<Detect!Step("pnpm", "install", "root")>> \o <<Detect!Step("pnpm", "run", "root")>>
          = <<Detect!Step("pnpm", "install", "root"), Detect!Step("pnpm", "run", "root")>>
    BY ShortJoins
  <2>4. << <<fetch>>, build>> \in Detect!Plans
    BY <2>1, <2>2, <2>3 DEF Detect!Plans
  <2>5. \E says, source :
            Detect!detect_node(p) = Detect!Proposal("bun", <<fetch>>, build, says, source, "high")
    BY DEF Detect!detect_node, m
  <2> HIDE DEF fetch, build
  <2>6. QED
    BY <1>1, <2>4, <2>5
<1>3. ASSUME NEW p, NEW port PROVE Whole(Detect!detect_python(p, port))
  BY <1>1 DEF Detect!detect_python, Detect!Plans
<1>4. ASSUME NEW g, NEW port PROVE Whole(Detect!detect_go(g, port))
  <2> DEFINE ui == Detect!go_frontend(g)
             go == <<Detect!Step("go", "build", "root")>>
  <2>1. \/ ui = [prefetch |-> <<>>, build |-> <<>>]
        \/ ui = [prefetch |-> <<Detect!Step("bun", "install", "web")>>,
                 build |-> <<Detect!Step("bun", "run", "web")>>]
        \/ ui = [prefetch |-> <<Detect!Step("pnpm", "fetch", "web")>>,
                 build |-> <<Detect!Step("pnpm", "install", "web"),
                             Detect!Step("pnpm", "run", "web")>>]
    BY DEF Detect!go_frontend
  <2>2. <<>> \o go = go
    OBVIOUS
  <2>3. <<Detect!Step("bun", "run", "web")>> \o go
          = <<Detect!Step("bun", "run", "web"), Detect!Step("go", "build", "root")>>
    BY ShortJoins
  <2>4. <<Detect!Step("pnpm", "install", "web"), Detect!Step("pnpm", "run", "web")>> \o go
          = <<Detect!Step("pnpm", "install", "web"), Detect!Step("pnpm", "run", "web"),
              Detect!Step("go", "build", "root")>>
    BY ShortJoins
  <2> HIDE DEF ui
  <2> DEFINE f == ui.prefetch
             b == ui.build \o go
  <2>5. <<f, b>> \in Detect!Plans
    <3>1. CASE ui = [prefetch |-> <<>>, build |-> <<>>]
      <4>1. f = <<>> /\ b = go
        BY <2>2, <3>1
      <4> HIDE DEF f, b
      <4>2. QED
        BY <4>1 DEF Detect!Plans
    <3>2. CASE ui = [prefetch |-> <<Detect!Step("bun", "install", "web")>>,
                     build |-> <<Detect!Step("bun", "run", "web")>>]
      <4>1. /\ f = <<Detect!Step("bun", "install", "web")>>
            /\ b = <<Detect!Step("bun", "run", "web")>> \o go
        BY <3>2
      <4> HIDE DEF f, b
      <4>2. QED
        BY <2>3, <4>1 DEF Detect!Plans
    <3>3. CASE ui = [prefetch |-> <<Detect!Step("pnpm", "fetch", "web")>>,
                     build |-> <<Detect!Step("pnpm", "install", "web"),
                                 Detect!Step("pnpm", "run", "web")>>]
      <4>1. /\ f = <<Detect!Step("pnpm", "fetch", "web")>>
            /\ b = <<Detect!Step("pnpm", "install", "web"),
                     Detect!Step("pnpm", "run", "web")>> \o go
        BY <3>3
      <4> HIDE DEF f, b
      <4>2. QED
        BY <2>4, <4>1 DEF Detect!Plans
    <3>4. QED
      BY <2>1, <3>1, <3>2, <3>3
  <2>6. \E says, source, to :
            Detect!detect_go(g, port) = Detect!Proposal("go", f, b, says, source, to)
    BY DEF Detect!detect_go, ui
  <2> HIDE DEF f, b
  <2>7. QED
    BY <1>1, <2>5, <2>6
<1>5. ASSUME NEW base, Whole(base), NEW notes
      PROVE  Whole([base EXCEPT !.notes = notes])
  <2> DEFINE d == [base EXCEPT !.notes = notes]
  <2>1. d.prefetch = base.prefetch /\ d.build = base.build
    BY <1>5
  <2>2. d \in [profile : {d.profile}, prefetch : {d.prefetch}, build : {d.build},
               says : {d.says}, source : {d.source}, port : {d.port}, notes : {d.notes}]
    BY <1>5
  <2> HIDE DEF d
  <2>3. QED
    BY <1>5, <2>1, <2>2 DEF d
<1> HIDE DEF Whole
<1>6. \E base, notes : Whole(base) /\ Detect!detect_tree(t) = [base EXCEPT !.notes = notes]
  BY <1>2, <1>3, <1>4 DEF Detect!detect_tree
<1>7. Whole(Detect!detect_tree(t))
  BY <1>5, <1>6
<1>8. QED
  BY <1>7 DEF Whole

\* Nothing after the detection changes the plan.
LEMMA DetectStep ==
    ASSUME Detect!DetectInv, Detect!DetectNext
    PROVE  Detect!DetectInv'
<1>1. CASE Detect!Inspect
  <2>1. CASE Detect!Recognised(s1)
    <3>1. s4' = Detect!detect_tree(s1)
      BY <1>1, <2>1 DEF Detect!Inspect
    <3> HIDE DEF Detect!detect_tree
    <3>2. QED
      BY <3>1, DetectedPlan DEF Detect!DetectInv
  <2>2. CASE ~Detect!Recognised(s1)
    BY <1>1, <2>2 DEF Detect!Inspect, Detect!DetectInv
  <2>3. QED
    BY <2>1, <2>2
<1>2. CASE Detect!AutoStore \/ Detect!OpenWizard \/ Detect!SaveReviewed
  BY <1>2 DEF Detect!AutoStore, Detect!OpenWizard, Detect!SaveReviewed, Detect!DetectInv
<1>3. CASE Detect!Correct
  <2> DEFINE Typed(d) ==
                 d \in [profile : {d.profile}, prefetch : {d.prefetch}, build : {d.build},
                        says : {d.says}, source : {d.source}, port : {d.port},
                        notes : {d.notes}]
  <2>1. Typed(s4) /\ <<s4.prefetch, s4.build>> \in Detect!Plans /\ s3' = s3
    BY <1>3 DEF Detect!Correct, Detect!DetectInv
  <2>2. \/ s4' = [s4 EXCEPT !.says = {"port", "loopback"}, !.source = "declared"]
        \/ s4' = [s4 EXCEPT !.port = "random"]
    BY <1>3 DEF Detect!Correct
  <2>3. s4'.prefetch = s4.prefetch /\ s4'.build = s4.build
    BY <2>1, <2>2
  <2>4. Typed(s4')
    BY <2>1, <2>2
  <2>5. QED
    BY <2>1, <2>3, <2>4 DEF Detect!DetectInv
<1>4. QED
  BY <1>1, <1>2, <1>3 DEF Detect!DetectNext

\* An offline build finds what it needs, and the manifest check lets run what
\* the detector proposes for the host phase, whatever tree there is
\* (detect.rs, manifest.rs).
THEOREM DetectSafety == PartsSpec => []OfflineBuildProvided
<1> DEFINE Inv == part = "detect" => Detect!DetectInv
<1>1. PartsInit => Inv
  BY DEF PartsInit, Detect!DetectInit, Detect!DetectInv
<1>2. Inv /\ [PartsNext]_partVars => Inv'
  <2> SUFFICES ASSUME Inv, [PartsNext]_partVars, part' = "detect" PROVE Detect!DetectInv'
    OBVIOUS
  <2>1. CASE PartsNext
    BY <2>1, DetectStep DEF PartsNext
  <2>2. CASE UNCHANGED partVars
    BY <2>2 DEF partVars, slots, Detect!DetectInv
  <2>3. QED
    BY <2>1, <2>2
<1>3. Inv => OfflineBuildProvided
  <2> SUFFICES ASSUME Detect!DetectInv
               PROVE  Detect!OfflineBuildProvided /\ Detect!HostStepsAccepted
    BY DEF OfflineBuildProvided
  <2>1. CASE s3 \in {"detected", "stored"}
    <3>1. <<s4.prefetch, s4.build>> \in Detect!Plans
      BY <2>1 DEF Detect!DetectInv
    <3>2. /\ Detect!Provided(s4)
          /\ \A s \in Detect!ToSet(s4.prefetch) : Detect!validate_prefetch_step(s)
      BY <3>1, PlansProvide
    <3>3. Detect!build_manifest_faults(s4) \cap {"prefetch", "tools"} = {}
      BY <3>2
      DEF Detect!build_manifest_faults, Detect!step_faults, Detect!run_faults,
          Detect!manifest_tools
    <3>4. QED
      BY <3>2, <3>3 DEF Detect!OfflineBuildProvided, Detect!HostStepsAccepted
  <2>2. CASE s3 \notin {"detected", "stored"}
    BY <2>2 DEF Detect!OfflineBuildProvided, Detect!HostStepsAccepted
  <2>3. QED
    BY <2>1, <2>2
<1>4. QED
  BY <1>1, <1>2, <1>3, PTL DEF PartsSpec

(***************************************************************************)
(* EgressPolicy.                                                           *)
(***************************************************************************)

\* The beat of a host that reads as blocked is a blocked one.
LEMMA BlockedBeat ==
    ASSUME s11.beats \in Seq(Egress!Range(s11.beats)), NEW h, Egress!Beat(h) = "blocked"
    PROVE  \E i \in DOMAIN s11.beats : s11.beats[i].status = "blocked"
<1> DEFINE seen == {i \in DOMAIN s11.beats : s11.beats[i].host = h}
<1>1. seen # {} /\ s11.beats[Egress!Min(seen)].status = "blocked"
  BY DEF Egress!Beat
<1>2. seen \subseteq Nat /\ seen \subseteq DOMAIN s11.beats
  OBVIOUS
<1> HIDE DEF seen
<1>3. Egress!Min(seen) \in seen
  BY <1>1, <1>2, LeastNumber DEF Egress!Min
<1>4. QED
  BY <1>1, <1>2, <1>3

\* A beat added to a probe is the last; the others stay.
LEMMA BeatAdded ==
    ASSUME NEW beats, beats \in Seq(Egress!Range(beats)), NEW b
    PROVE  LET longer == Append(beats, b) IN
           /\ longer \in Seq(Egress!Range(longer))
           /\ DOMAIN longer = DOMAIN beats \cup {Len(beats) + 1}
           /\ \A i \in DOMAIN beats : longer[i] = beats[i]
           /\ longer[Len(beats) + 1] = b
<1> DEFINE S == Egress!Range(beats) \cup {b}
           longer == Append(beats, b)
<1>1. beats \in Seq(S) /\ b \in S /\ Len(beats) \in Nat /\ DOMAIN beats = 1 .. Len(beats)
  OBVIOUS
<1> HIDE DEF S
<1>2. /\ longer \in Seq(S) /\ Len(longer) = Len(beats) + 1
      /\ \A i \in 1 .. Len(beats) : longer[i] = beats[i]
      /\ longer[Len(beats) + 1] = b
  BY <1>1, AppendProperties
<1> HIDE DEF longer
<1>3. DOMAIN longer = 1 .. Len(beats) + 1 /\ Len(longer) \in Nat
  BY <1>1, <1>2
<1>4. DOMAIN longer = DOMAIN beats \cup {Len(beats) + 1}
  BY <1>1, <1>3
<1>5. longer \in Seq(Egress!Range(longer))
  <2>1. longer = [i \in 1 .. Len(longer) |-> longer[i]]
    BY <1>2
  <2>2. \A i \in 1 .. Len(longer) : longer[i] \in Egress!Range(longer)
    BY <1>2, <1>3 DEF Egress!Range
  <2>3. longer \in [1 .. Len(longer) -> Egress!Range(longer)]
    BY <2>1, <2>2
  <2>4. QED
    BY <1>3, <2>3
<1>6. QED
  BY <1>1, <1>2, <1>4, <1>5 DEF longer

\* One more beat: a refusal is the filter's, or owns up to a want of addresses.
LEMMA BeatStep ==
    ASSUME Egress!EgressInv, Egress!ProbeBeat
    PROVE  Egress!EgressInv'
<1> DEFINE h == Egress!Probed[Len(s11.beats) + 1]
<1>1. PICK status \in Egress!probe_host(h) :
         s11' = [s11 EXCEPT !.beats =
                   Append(@, [host |-> h, status |-> status, starved |-> s10])]
  BY DEF Egress!ProbeBeat
<1> DEFINE b == [host |-> h, status |-> status, starved |-> s10]
           beats == s11.beats
<1> HIDE DEF h
<1>2. /\ s11 \in [stage : {"idle", "probe", "done"}, control : {s11.control},
                  list : {s11.list}, beats : {s11.beats}]
      /\ beats \in Seq(Egress!Range(beats))
      /\ Egress!BlockedIsFiltered /\ Egress!LockedIsProved
      /\ UNCHANGED <<s9, s12>>
  BY DEF Egress!EgressInv, Egress!CheckTyped, Egress!ProbeBeat
<1>3. b.status = "blocked" => s9 \/ b.starved
  BY <1>1 DEF Egress!probe_host
<1>4. /\ s11' \in [stage : {"idle", "probe", "done"}, control : {s11.control},
                   list : {s11.list}, beats : {Append(beats, b)}]
      /\ s11'.control = s11.control /\ s11'.beats = Append(beats, b)
  BY ONLY <1>1, <1>2
<1> HIDE DEF b
<1>5. /\ s11'.beats \in Seq(Egress!Range(s11'.beats))
      /\ DOMAIN s11'.beats = DOMAIN beats \cup {Len(beats) + 1}
      /\ \A i \in DOMAIN beats : s11'.beats[i] = beats[i]
      /\ s11'.beats[Len(beats) + 1] = b
  BY <1>2, <1>4, BeatAdded
<1>6. Egress!CheckTyped'
  <2>1. s11' \in [stage : {"idle", "probe", "done"}, control : {s11'.control},
                  list : {s11'.list}, beats : {s11'.beats}]
    BY ONLY <1>4
  <2>2. QED
    BY <1>5, <2>1 DEF Egress!CheckTyped
<1>7. Egress!BlockedIsFiltered'
  BY <1>2, <1>3, <1>5 DEF Egress!BlockedIsFiltered
<1>8. Egress!LockedIsProved'
  BY <1>2, <1>4, <1>5 DEF Egress!LockedIsProved
<1>9. QED
  BY <1>6, <1>7, <1>8 DEF Egress!EgressInv

\* The deploy, the user and the network leave the verdict's reasons alone.
LEMMA EgressStep ==
    ASSUME Egress!EgressInv, Egress!EgressNext
    PROVE  Egress!EgressInv'
<1>1. /\ s11 \in [stage : {"idle", "probe", "done"}, control : {s11.control},
                  list : {s11.list}, beats : {s11.beats}]
      /\ s11.beats \in Seq(Egress!Range(s11.beats))
      /\ Egress!CheckTyped /\ Egress!BlockedIsFiltered /\ Egress!LockedIsProved
  BY DEF Egress!EgressInv, Egress!CheckTyped
<1>2. ASSUME UNCHANGED <<s9, s11, s12>> PROVE Egress!EgressInv'
  BY <1>2 DEF Egress!EgressInv, Egress!CheckTyped, Egress!BlockedIsFiltered,
     Egress!LockedIsProved
<1>3. CASE Egress!StartCheck
  <2>1. s12' \in {"none", "unverified"} /\ UNCHANGED s9
    BY <1>3 DEF Egress!StartCheck
  <2>2. Egress!LockedIsProved'
    BY <2>1 DEF Egress!LockedIsProved
  <2>3. CASE UNCHANGED s11
    <3>1. Egress!CheckTyped' /\ Egress!BlockedIsFiltered'
      BY <1>1, <2>1, <2>3 DEF Egress!CheckTyped, Egress!BlockedIsFiltered
    <3>2. QED
      BY <2>2, <3>1 DEF Egress!EgressInv
  <2>4. CASE s11' = [stage |-> "probe", control |-> Egress!control_host(s2),
                     list |-> s2, beats |-> <<>>]
    <3>1. /\ s11' \in [stage : {"idle", "probe", "done"}, control : {s11'.control},
                       list : {s11'.list}, beats : {s11'.beats}]
          /\ s11'.beats = <<>>
      BY ONLY <2>4
    <3>2. Egress!CheckTyped' /\ Egress!BlockedIsFiltered'
      BY <3>1 DEF Egress!CheckTyped, Egress!BlockedIsFiltered
    <3>3. QED
      BY <2>2, <3>2 DEF Egress!EgressInv
  <2>5. QED
    BY <1>3, <2>3, <2>4 DEF Egress!StartCheck
<1>4. CASE Egress!Interpret
  <2>1. PICK loopback \in BOOLEAN : s12' = Egress!interpret_probe(loopback)
    BY <1>4 DEF Egress!Interpret
  <2>2. s11' = [s11 EXCEPT !.stage = "done"] /\ UNCHANGED s9
    BY <1>4 DEF Egress!Interpret
  <2>3. /\ s11' \in [stage : {"idle", "probe", "done"}, control : {s11.control},
                     list : {s11.list}, beats : {s11.beats}]
        /\ s11'.control = s11.control /\ s11'.beats = s11.beats /\ s11'.list = s11.list
    BY ONLY <1>1, <2>2
  <2>4. Egress!CheckTyped' /\ Egress!BlockedIsFiltered'
    BY <1>1, <2>2, <2>3 DEF Egress!CheckTyped, Egress!BlockedIsFiltered
  <2>5. ASSUME s12' = "enforced", s11.control # Egress!NoControl
        PROVE  s9 \/ \E i \in DOMAIN s11.beats : s11.beats[i].starved
    <3>1. Egress!Beat(s11.control) = "blocked"
      BY <2>1, <2>5 DEF Egress!interpret_probe
    <3>2. QED
      BY <1>1, <3>1, BlockedBeat DEF Egress!BlockedIsFiltered
  <2>6. Egress!LockedIsProved'
    BY <2>2, <2>3, <2>5 DEF Egress!LockedIsProved
  <2>7. QED
    BY <2>4, <2>6 DEF Egress!EgressInv
<1>5. CASE \/ Egress!DetectPlan \/ Egress!FilterOne \/ Egress!ResolveAll
           \/ Egress!CreateUnit \/ Egress!Starve
  BY <1>2, <1>5 DEF Egress!DetectPlan, Egress!FilterOne, Egress!ResolveAll,
     Egress!CreateUnit, Egress!Starve
<1>6. QED
  BY <1>3, <1>4, <1>5, BeatStep DEF Egress!EgressNext

\* "Blocked, filter enforced" is never said of a filter the kernel does not
\* enforce, whatever lists, hosts and answers there are, but in the two cases
\* the probe cannot tell (egress.rs interpret_probe).
THEOREM LockSeenSafety == PartsSpec => []LockedIsProved
<1> DEFINE Inv == part = "egress" => Egress!EgressInv
<1>1. PartsInit => Inv
  <2>1. ASSUME Egress!EgressInit PROVE Egress!EgressInv
    <3>1. s11 = [stage |-> "idle", control |-> Egress!NoControl, list |-> <<>>,
                 beats |-> <<>>] /\ s12 = "none"
      BY <2>1 DEF Egress!EgressInit, Egress!NoCheck
    <3>2. /\ s11 \in [stage : {"idle", "probe", "done"}, control : {s11.control},
                      list : {s11.list}, beats : {s11.beats}]
          /\ s11.beats = <<>>
      BY ONLY <3>1
    <3>3. QED
      BY <3>1, <3>2 DEF Egress!EgressInv, Egress!CheckTyped, Egress!BlockedIsFiltered,
         Egress!LockedIsProved
  <2>2. QED
    BY <2>1 DEF PartsInit
<1>2. Inv /\ [PartsNext]_partVars => Inv'
  <2>1. ASSUME Inv, PartsNext PROVE Inv'
    BY <2>1, EgressStep DEF PartsNext
  <2>2. ASSUME Inv, UNCHANGED partVars PROVE Inv'
    BY <2>2 DEF partVars, slots, Egress!EgressInv, Egress!CheckTyped,
                Egress!BlockedIsFiltered, Egress!LockedIsProved
  <2>3. QED
    BY <2>1, <2>2
<1>3. Inv => LockedIsProved
  BY DEF Egress!EgressInv, LockedIsProved
<1>4. QED
  BY <1>1, <1>2, <1>3, PTL DEF PartsSpec

\* A set's size is the same seen from the part's module.
LEMMA EgressSizes ==
    ASSUME NEW S
    PROVE  Egress!Cardinality(S) = Cardinality(S)
BY DEF Cardinality, Egress!Cardinality

\* The order of the hosts is total, and their places are one each of 1 .. n.
LEMMA PlacesFill ==
    ASSUME NEW es \in Seq(Egress!Engines)
    PROVE  LET D == Egress!Declared(es)
               n == Cardinality(D) IN
           /\ D \subseteq 1 .. Len(es) /\ n \in Nat
           /\ \A i, j \in D : i = j \/ Egress!Ahead(es, i, j) \/ Egress!Ahead(es, j, i)
           /\ \A i, j \in D : Egress!Ahead(es, i, j) => Egress!Place(es, i) < Egress!Place(es, j)
           /\ \A i \in D : Egress!Place(es, i) \in 1 .. n
           /\ \A k \in 1 .. n : \E i \in D : Egress!Place(es, i) = k
<1> DEFINE D == Egress!Declared(es)
           n == Cardinality(D)
           A(i) == {j \in D : Egress!Ahead(es, j, i)}
<1>1. D \subseteq 1 .. Len(es) /\ Len(es) \in Nat
  BY DEF Egress!Declared
<1>2. IsFiniteSet(D) /\ n \in Nat
  <2>1. IsFiniteSet(1 .. Len(es))
    BY <1>1, FS_Interval
  <2>2. IsFiniteSet(D)
    BY <1>1, <2>1, FS_Subset
  <2>3. QED
    BY <2>2, FS_CardinalityType
<1>3. D \subseteq Nat
  BY <1>1
<1>4. \A i \in D : Egress!Place(es, i) = Cardinality(A(i)) + 1
  BY EgressSizes DEF Egress!Place
<1> HIDE DEF D
<1>5. \A i, j \in D : i = j \/ Egress!Ahead(es, i, j) \/ Egress!Ahead(es, j, i)
  BY <1>3 DEF Egress!Ahead
<1>6. \A i \in D : i \notin A(i)
  BY <1>3 DEF Egress!Ahead
<1>7. \A i, j \in D : Egress!Ahead(es, i, j) => A(i) \cup {i} \subseteq A(j)
  <2>1. ASSUME NEW i \in D, NEW j \in D, NEW x \in D,
               Egress!Ahead(es, x, i), Egress!Ahead(es, i, j)
        PROVE  Egress!Ahead(es, x, j)
    BY <1>3, <2>1 DEF Egress!Ahead
  <2>2. QED
    BY <2>1
<1>8. \A i \in D : IsFiniteSet(A(i)) /\ Cardinality(A(i)) \in Nat
  <2>1. \A i \in D : A(i) \in SUBSET D
    OBVIOUS
  <2> HIDE DEF A
  <2>2. QED
    BY <1>2, <2>1, FS_Subset, FS_CardinalityType
<1>9. \A i \in D : A(i) \cup {i} \subseteq D
  OBVIOUS
<1> HIDE DEF A
<1>10. \A i \in D : Cardinality(A(i) \cup {i}) = Cardinality(A(i)) + 1
  BY <1>6, <1>8, FS_AddElement
<1>11. ASSUME NEW i \in D PROVE Egress!Place(es, i) \in 1 .. n
  <2>1. Cardinality(A(i) \cup {i}) <= n
    BY <1>2, <1>9, FS_Subset
  <2>2. QED
    BY <1>2, <1>4, <1>8, <1>10, <2>1
<1>12. ASSUME NEW i \in D, NEW j \in D, Egress!Ahead(es, i, j)
       PROVE  Egress!Place(es, i) < Egress!Place(es, j)
  <2>1. Cardinality(A(i) \cup {i}) <= Cardinality(A(j))
    <3>1. A(i) \cup {i} \in SUBSET A(j) /\ IsFiniteSet(A(j))
      BY <1>7, <1>8, <1>12
    <3>2. QED
      BY <3>1, FS_Subset
  <2>2. QED
    BY <1>4, <1>8, <1>10, <2>1
<1>13. ASSUME NEW k \in 1 .. n PROVE \E i \in D : Egress!Place(es, i) = k
  <2> DEFINE f == [i \in D |-> Egress!Place(es, i)]
             T == 1 .. n
  <2>1. f \in [D -> T]
    BY <1>11
  <2>2. \A i, j \in D : f[i] = f[j] => i = j
    <3>1. \A i, j \in D : Egress!Place(es, i) = Egress!Place(es, j) => i = j
      BY <1>5, <1>11, <1>12
    <3>2. QED
      BY <3>1
  <2>3. IsFiniteSet(T) /\ Cardinality(T) = n
    BY <1>2, FS_Interval
  <2> HIDE DEF T, f
  <2>4. f \in Injection(D, T)
    BY <2>1, <2>2 DEF Injection, IsInjective
  <2> HIDE DEF n
  <2>5. f \in Surjection(D, T)
    BY <2>3, <2>4, FS_Injection DEF n
  <2>6. \E i \in D : f[i] = k
    BY <2>5 DEF Surjection, T
  <2>7. QED
    BY <2>6 DEF f
<1>14. QED
  BY <1>1, <1>2, <1>5, <1>11, <1>12, <1>13 DEF D

\* What the cap leaves out comes after all that it keeps.
LEMMA CapSpares ==
    ASSUME NEW es \in Seq(Egress!Engines)
    PROVE  LET wanted == {es[i].host : i \in {j \in DOMAIN es : ~es[j].off}}
               kept == Egress!ToSet(Egress!detect_egress(es)) IN
           /\ kept \subseteq wanted
           /\ (wanted \ kept) \cap Core # {} => kept \subseteq Core
<1> DEFINE D == Egress!Declared(es)
           n == Cardinality(D)
           last == IF n < MaxHosts THEN n ELSE MaxHosts
           at(k) == CHOOSE i \in D : Egress!Place(es, i) = k
           plan == Egress!detect_egress(es)
           wanted == {es[i].host : i \in {j \in DOMAIN es : ~es[j].off}}
<1>1. /\ D \subseteq 1 .. Len(es) /\ n \in Nat
      /\ \A i, j \in D : i = j \/ Egress!Ahead(es, i, j) \/ Egress!Ahead(es, j, i)
      /\ \A i, j \in D : Egress!Ahead(es, i, j) => Egress!Place(es, i) < Egress!Place(es, j)
      /\ \A i \in D : Egress!Place(es, i) \in 1 .. n
      /\ \A k \in 1 .. n : \E i \in D : Egress!Place(es, i) = k
  BY PlacesFill
<1>2. last \in Nat /\ \A k \in 1 .. last : k \in 1 .. n
  BY <1>1, EgressAssumption
<1>3. plan = [k \in 1 .. last |-> es[at(k)].host]
  BY EgressSizes DEF Egress!detect_egress
<1>4. \A k \in 1 .. last : at(k) \in D /\ Egress!Place(es, at(k)) = k
  BY <1>1, <1>2
<1> HIDE DEF at, plan, last
<1>5. \A h \in Egress!ToSet(plan) : \E k \in 1 .. last : h = es[at(k)].host
  BY <1>3 DEF Egress!ToSet
<1>6. \A k \in 1 .. last : es[at(k)].host \in Egress!ToSet(plan)
  BY <1>3 DEF Egress!ToSet
<1>7. \A i \in D : i \in DOMAIN es /\ ~es[i].off
  BY DEF Egress!Declared
<1>8. Egress!ToSet(plan) \subseteq wanted
  BY <1>4, <1>5, <1>7
<1>9. ASSUME NEW h \in wanted PROVE \E i \in D : es[i].host = h
  <2> DEFINE T == {i \in 1 .. Len(es) : ~es[i].off /\ es[i].host = h}
  <2>1. T \subseteq Nat /\ T # {}
    OBVIOUS
  <2>2. PICK i \in T : \A m \in T : i <= m
    <3> HIDE DEF T
    <3>1. QED
      BY <2>1, LeastNumber
  <2>3. \A j \in 1 .. i - 1 : j \in 1 .. Len(es) /\ ~(i <= j)
    OBVIOUS
  <2>4. \A j \in 1 .. i - 1 : ~es[j].off => es[j].host # es[i].host
    BY <2>2, <2>3
  <2>5. i \in D
    BY <2>4 DEF Egress!Declared
  <2>6. QED
    BY <2>5
<1>10. ASSUME NEW c \in (wanted \ Egress!ToSet(plan)) \cap Core, NEW h \in Egress!ToSet(plan)
       PROVE  h \in Core
  <2>1. PICK i \in D : es[i].host = c
    BY <1>9
  <2>2. PICK k \in 1 .. last : h = es[at(k)].host
    BY <1>5
  <2> DEFINE j == at(k)
  <2>3. j \in D /\ Egress!Place(es, j) = k /\ es[j].host = h
    BY <1>4, <2>2
  <2> HIDE DEF j
  <2>4. ~(Egress!Place(es, i) <= last)
    <3>1. SUFFICES ASSUME Egress!Place(es, i) <= last PROVE FALSE
      OBVIOUS
    <3> DEFINE m == Egress!Place(es, i)
    <3>2. m \in 1 .. last
      BY <1>1, <1>2, <3>1
    <3>3. at(m) \in D /\ Egress!Place(es, at(m)) = m
      BY <1>4, <3>2
    <3> HIDE DEF m
    <3>4. at(m) = i
      BY <1>1, <3>3 DEF m
    <3>5. QED
      BY <1>6, <2>1, <3>2, <3>4
  <2>5. i # j /\ ~Egress!Ahead(es, i, j)
    BY <1>1, <1>2, <2>1, <2>3, <2>4
  <2>6. Egress!Ahead(es, j, i)
    BY <1>1, <2>1, <2>3, <2>5
  <2>7. QED
    BY <2>1, <2>3, <2>6 DEF Egress!Ahead
<1>11. QED
  BY <1>8, <1>10 DEF plan

\* For any settings and any cap, a general engine is left out only for general
\* engines, and nothing that the file switched off is opened
\* (egress_detect.rs detect_egress).
THEOREM CapSafety == PartsSpec => []CoreSurvivesTheCap
<1> DEFINE Inv == part = "egress" => Egress!PlanIsDetected
<1>1. PartsInit => Inv
  <2> SUFFICES ASSUME Egress!EgressInit PROVE Egress!PlanIsDetected
    BY DEF PartsInit
  <2>1. s1 \in Seq(Egress!Engines)
    <3>1. \A n \in 0 .. MaxEngines : [1 .. n -> Egress!Engines] \subseteq Seq(Egress!Engines)
      BY EgressAssumption
    <3>2. CASE s1 \in Egress!Settings
      BY <3>1, <3>2 DEF Egress!Settings
    <3>3. CASE s1 = <<>>
      BY <3>3
    <3>4. QED
      BY <3>2, <3>3 DEF Egress!EgressInit
  <2>2. QED
    BY <2>1 DEF Egress!EgressInit, Egress!PlanIsDetected
<1>2. Inv /\ [PartsNext]_partVars => Inv'
  <2> SUFFICES ASSUME Inv, [PartsNext]_partVars, part' = "egress" PROVE Egress!PlanIsDetected'
    OBVIOUS
  <2>1. CASE PartsNext
    <3>1. Egress!PlanIsDetected /\ Egress!EgressNext
      BY <2>1 DEF PartsNext
    <3>2. s1' = s1 /\ s4' \in {s4, <<>>, Egress!detect_egress(s1)}
      BY <3>1
      DEF Egress!EgressNext, Egress!DetectPlan, Egress!FilterOne, Egress!ResolveAll,
          Egress!CreateUnit, Egress!StartCheck, Egress!ProbeBeat, Egress!Interpret,
          Egress!Starve
    <3>3. QED
      BY <3>1, <3>2 DEF Egress!PlanIsDetected
  <2>2. CASE UNCHANGED partVars
    BY <2>2 DEF partVars, slots, Egress!PlanIsDetected
  <2>3. QED
    BY <2>1, <2>2
<1>3. Inv => CoreSurvivesTheCap
  <2> SUFFICES ASSUME Egress!PlanIsDetected, s4 # <<>> PROVE Egress!CoreSurvivesTheCap
    BY DEF CoreSurvivesTheCap, Egress!CoreSurvivesTheCap
  <2>1. s4 = Egress!detect_egress(s1) /\ s1 \in Seq(Egress!Engines)
    BY DEF Egress!PlanIsDetected
  <2>2. QED
    BY <2>1, CapSpares DEF Egress!CoreSurvivesTheCap
<1>4. QED
  BY <1>1, <1>2, <1>3, PTL DEF PartsSpec

(***************************************************************************)
(* RecordFiles.                                                            *)
(***************************************************************************)
\* A set's size is the same seen from the part's module.
LEMMA RecordSizes ==
    ASSUME NEW S
    PROVE  Records!Cardinality(S) = Cardinality(S)
BY DEF Cardinality, Records!Cardinality

\* How many processes are at one of some steps, when p goes on to w.
LEMMA DoingChanges ==
    ASSUME s4 \in [Procs -> Records!Works], NEW ops, NEW p \in Procs,
           NEW w \in Records!Works, s4' = [s4 EXCEPT ![p] = w]
    PROVE  /\ Cardinality(Records!Doing(ops)) \in Nat
           /\ Cardinality(Records!Doing(ops)') \in Nat
           /\ Cardinality(Records!Doing(ops)) <= Cardinality(Procs)
           /\ Cardinality(Records!Doing(ops)') <= Cardinality(Procs)
           /\ w.op \notin ops =>
                 Cardinality(Records!Doing(ops)') <= Cardinality(Records!Doing(ops))
           /\ s4[p].op \in ops =>
                 Cardinality(Records!Doing(ops)') <= Cardinality(Records!Doing(ops))
           /\ s4[p].op \in ops /\ w.op \notin ops =>
                 Cardinality(Records!Doing(ops)') = Cardinality(Records!Doing(ops)) - 1
<1> DEFINE A == Records!Doing(ops)
           B == Records!Doing(ops)'
<1>1. IsFiniteSet(Procs)
  BY RecordsAssumption
<1>2. A \subseteq Procs /\ B \subseteq Procs
  BY DEF Records!Doing
<1>3. /\ w.op \notin ops => B = A \ {p}
      /\ w.op \in ops => B = A \cup {p}
      /\ p \in A <=> s4[p].op \in ops
  BY DEF Records!Doing
<1> HIDE DEF A, B
<1>4. /\ IsFiniteSet(A) /\ Cardinality(A) <= Cardinality(Procs)
      /\ Cardinality(B) <= Cardinality(Procs)
      /\ Cardinality(A) \in Nat /\ Cardinality(B) \in Nat
  BY <1>1, <1>2, FS_Subset, FS_CardinalityType
<1>5. Cardinality(A \ {p}) = IF p \in A THEN Cardinality(A) - 1 ELSE Cardinality(A)
  BY <1>4, FS_RemoveElement
<1>6. p \in A => A \cup {p} = A
  OBVIOUS
<1>7. /\ w.op \notin ops => Cardinality(B) <= Cardinality(A)
      /\ s4[p].op \in ops => Cardinality(B) <= Cardinality(A)
      /\ s4[p].op \in ops /\ w.op \notin ops => Cardinality(B) = Cardinality(A) - 1
  <2>1. CASE w.op \notin ops
    <3>1. Cardinality(B) = IF p \in A THEN Cardinality(A) - 1 ELSE Cardinality(A)
      BY <1>3, <1>5, <2>1
    <3>2. QED
      BY <1>3, <1>4, <2>1, <3>1
  <2>2. CASE w.op \in ops /\ p \in A
    <3>1. B = A
      BY <1>3, <1>6, <2>2
    <3>2. QED
      BY <1>4, <2>2, <3>1
  <2>3. CASE w.op \in ops /\ p \notin A
    BY <1>3, <2>3
  <2>4. QED
    BY <2>1, <2>2, <2>3
<1>8. QED
  BY <1>4, <1>7 DEF A, B

\* One process more is doing something, at most, when one turns to it.
LEMMA DoingGrows ==
    ASSUME s4 \in [Procs -> Records!Works], NEW p \in Procs, NEW w \in Records!Works,
           s4' = [s4 EXCEPT ![p] = w], NEW ops
    PROVE  /\ Cardinality(Records!Doing(ops)) \in Nat
           /\ Cardinality(Records!Doing(ops)') \in Nat
           /\ Cardinality(Records!Doing(ops)') <= Cardinality(Records!Doing(ops)) + 1
<1> DEFINE A == Records!Doing(ops)
           B == {q \in Procs : s4'[q].op \in ops}
<1>1. /\ IsFiniteSet(Procs) /\ A \subseteq Procs /\ B \subseteq Procs
      /\ Records!Doing(ops)' = B /\ B \subseteq A \cup {p}
  BY RecordsAssumption DEF Records!Doing
<1> HIDE DEF A, B
<1>2. /\ IsFiniteSet(A) /\ Cardinality(A) \in Nat
      /\ IsFiniteSet(A \cup {p}) /\ Cardinality(A \cup {p}) \in Nat
      /\ Cardinality(A \cup {p}) <= Cardinality(A) + 1
  BY <1>1, FS_Subset, FS_AddElement, FS_CardinalityType
<1>3. Cardinality(B) \in Nat /\ Cardinality(B) <= Cardinality(A \cup {p})
  BY <1>1, <1>2, FS_Subset, FS_CardinalityType
<1>4. QED
  BY <1>1, <1>2, <1>3 DEF A

\* What a process at one of its steps carries, and what it becomes at the next.
LEMMA WorkForms ==
    ASSUME NEW x \in Records!Works
    PROVE  /\ x.op \in {"idle", "store", "synced", "rotate", "append", "cut", "refill", "add"}
           /\ x.op \in {"store", "synced"} =>
                 /\ x.new \in SUBSET Procs
                 /\ [x EXCEPT !.op = "synced"] = [op |-> "synced", new |-> x.new]
           /\ x.op \in {"rotate", "append"} =>
                 /\ x.line \in Nat
                 /\ [x EXCEPT !.op = "append"] = [op |-> "append", line |-> x.line]
           /\ x.op \in {"cut", "refill", "add"} =>
                 /\ x.line \in Nat /\ x.tail \in Seq(Nat)
                 /\ [x EXCEPT !.op = "refill"] =
                       [op |-> "refill", line |-> x.line, tail |-> x.tail]
                 /\ [x EXCEPT !.op = "add"] =
                       [op |-> "add", line |-> x.line, tail |-> x.tail]
<1>1. CASE x \in [op : {"idle"}]
  BY <1>1
<1>2. CASE x \in [op : {"store", "synced"}, new : SUBSET Procs]
  BY <1>2
<1>3. CASE x \in [op : {"rotate", "append"}, line : Nat]
  BY <1>3
<1>4. CASE x \in [op : {"cut", "refill", "add"}, line : Nat, tail : Seq(Nat)]
  BY <1>4
<1>5. QED
  BY <1>1, <1>2, <1>3, <1>4 DEF Records!Works

\* Work of each form is work.
LEMMA WorksBuilt ==
    /\ Records!Idle \in Records!Works /\ Records!Idle.op = "idle"
    /\ \A x \in SUBSET Procs : \A op \in {"store", "synced"} :
          [op |-> op, new |-> x] \in Records!Works
    /\ \A n \in Nat : \A op \in {"rotate", "append"} :
          [op |-> op, line |-> n] \in Records!Works
    /\ \A n \in Nat, t \in Seq(Nat) : \A op \in {"cut", "refill", "add"} :
          [op |-> op, line |-> n, tail |-> t] \in Records!Works
BY DEF Records!Works, Records!Idle

\* The logs are left alone, by a process that goes on to nothing they count.
LEMMA RoomKept ==
    ASSUME Records!RecTyped, Records!RoomLeft, NEW p \in Procs, NEW w \in Records!Works,
           s4' = [s4 EXCEPT ![p] = w], w.op \notin {"append", "cut", "refill", "add"},
           UNCHANGED <<s5, s6, s8>>
    PROVE  Records!RoomLeft'
<1> DEFINE N == Cardinality(Procs)
           A == Cardinality(Records!Doing({"append"}))
           B == Cardinality(Records!Doing({"append"})')
           C == Cardinality(Records!Doing({"refill", "add"}))
           D == Cardinality(Records!Doing({"refill", "add"})')
<1>1. s4 \in [Procs -> Records!Works]
  BY DEF Records!RecTyped
<1>2. A \in Nat /\ B \in Nat /\ B <= A
  BY <1>1, DoingChanges
<1>3. C \in Nat /\ D \in Nat /\ D <= C
  BY <1>1, DoingChanges
<1>4. /\ Len(s5.live) \in Nat /\ Len(s6) \in Nat /\ Rotate \in Nat /\ N \in Nat
      /\ s8.live \in Nat /\ s8.crash \in Nat
  BY RecordsAssumption, FS_CardinalityType DEF Records!RecTyped
<1>5. /\ Len(s5.live) + A <= Rotate + N - 1 + s8.live
      /\ Len(s6) + C <= Rotate + N + s8.crash
      /\ Len(s5.old) <= Rotate + N - 1 + s8.old
  BY RecordSizes DEF Records!RoomLeft
<1>6. \A q \in Procs : s4'[q].op \in {"cut", "refill", "add"} => Len(s4'[q].tail) <= KeepCrash
  BY <1>1 DEF Records!RoomLeft
<1> HIDE DEF A, B, C, D, N
<1>7. Len(s5.live) + B <= Rotate + N - 1 + s8.live
  BY ONLY <1>2, <1>4, <1>5
<1>8. Len(s6) + D <= Rotate + N + s8.crash
  BY ONLY <1>3, <1>4, <1>5
<1>9. QED
  BY <1>5, <1>6, <1>7, <1>8, RecordSizes DEF Records!RoomLeft, B, D, N

\* A write of the registry is renamed whole or not at all.
LEMMA RecordsState ==
    ASSUME Records!RecInv, NEW p \in Procs,
           Records!Load(p) \/ Records!WriteTemp(p) \/ Records!Rename(p)
             \/ Records!WriteFails(p)
    PROVE  Records!RecInv'
<1> DEFINE Texts == (SUBSET Procs) \cup {Records!Torn, Records!NoTemp}
<1>1. /\ Records!RecTyped /\ Records!SyncedWhole /\ Records!RoomLeft
      /\ s4 \in [Procs -> Records!Works] /\ s4[p] \in Records!Works
      /\ s3 \in [Procs -> Texts] /\ s2 \subseteq Procs
      /\ UNCHANGED <<s5, s6, s7, s8>>
  BY DEF Records!RecInv, Records!RecTyped, Records!SyncedWhole, Records!Load,
         Records!WriteTemp, Records!Rename, Records!WriteFails
<1>2. ASSUME NEW w \in Records!Works, s4' = [s4 EXCEPT ![p] = w],
             w.op \notin {"append", "cut", "refill", "add"},
             s3' \in [Procs -> Texts], s2' \subseteq Procs,
             \A q \in Procs \ {p} : s3'[q] = s3[q],
             w.op = "synced" => s3'[p] = w.new
      PROVE  Records!RecInv'
  <2>1. Records!RecTyped'
    BY <1>1, <1>2 DEF Records!RecTyped
  <2>2. Records!SyncedWhole'
    BY <1>1, <1>2 DEF Records!SyncedWhole
  <2>3. Records!RoomLeft'
    BY <1>1, <1>2, RoomKept
  <2>4. QED
    BY <2>1, <2>2, <2>3 DEF Records!RecInv
<1> HIDE DEF Texts
<1>3. CASE Records!Load(p)
  <2>1. PICK change \in {s2 \cup {p}, s2 \ {p}} :
           s4' = [s4 EXCEPT ![p] = [op |-> "store", new |-> change]]
    BY <1>3 DEF Records!Load
  <2>2. change \in SUBSET Procs
    BY <1>1
  <2>3. [op |-> "store", new |-> change] \in Records!Works
    BY <2>2, WorksBuilt
  <2>4. UNCHANGED <<s2, s3>>
    BY <1>3 DEF Records!Load
  <2>5. QED
    BY <1>1, <1>2, <2>1, <2>3, <2>4
<1>4. CASE Records!WriteTemp(p)
  <2>1. s4[p].op = "store" /\ s4[p].new \in SUBSET Procs /\ UNCHANGED s2
    BY <1>1, <1>4, WorkForms DEF Records!WriteTemp
  <2>2. CASE s3' = [s3 EXCEPT ![p] = Records!Torn] /\ UNCHANGED s4
    <3>1. s4' = [s4 EXCEPT ![p] = s4[p]]
      BY <1>1, <2>2
    <3>2. s3' \in [Procs -> Texts]
      BY <1>1, <2>2 DEF Texts
    <3>3. QED
      BY <1>1, <1>2, <2>1, <2>2, <3>1, <3>2
  <2>3. CASE /\ s3' = [s3 EXCEPT ![p] = s4[p].new]
             /\ s4' = [s4 EXCEPT ![p].op = "synced"]
    <3> DEFINE w == [op |-> "synced", new |-> s4[p].new]
    <3>1. s4' = [s4 EXCEPT ![p] = w]
      BY <1>1, <2>1, <2>3, WorkForms
    <3>2. w \in Records!Works
      BY <2>1, WorksBuilt
    <3>3. s3' \in [Procs -> Texts] /\ s3'[p] = w.new
      BY <1>1, <2>1, <2>3 DEF Texts
    <3>4. w.op = "synced" /\ (\A q \in Procs \ {p} : s3'[q] = s3[q])
      BY <1>1, <2>3
    <3> HIDE DEF w
    <3>5. QED
      BY <1>1, <1>2, <2>1, <3>1, <3>2, <3>3, <3>4
  <2>4. QED
    BY <1>4, <2>2, <2>3 DEF Records!WriteTemp
<1>5. CASE Records!Rename(p) \/ Records!WriteFails(p)
  <2>1. /\ s3' = [s3 EXCEPT ![p] = Records!NoTemp]
        /\ s4' = [s4 EXCEPT ![p] = Records!Idle]
        /\ (s2' = s2 \/ (s2' = s3[p] /\ s4[p].op = "synced"))
    BY <1>5 DEF Records!Rename, Records!WriteFails
  <2>2. s4[p].op = "synced" => s4[p].new \in SUBSET Procs /\ s3[p] = s4[p].new
    BY <1>1, WorkForms DEF Records!SyncedWhole
  <2>3. s2' \subseteq Procs
    BY <1>1, <2>1, <2>2
  <2>4. s3' \in [Procs -> Texts]
    BY <1>1, <2>1 DEF Texts
  <2>5. QED
    BY <1>1, <1>2, <2>1, <2>3, <2>4, WorksBuilt
<1>6. QED
  BY <1>3, <1>4, <1>5

\* What fits goes on to, whoever finishes, and one more does when a cut has
\* failed; after a look at the size there is room for a line of everybody.
LEMMA Room ==
    ASSUME NEW len \in Nat, NEW a \in Nat, NEW b \in Nat, NEW bound \in Nat,
           NEW n \in Nat, NEW m \in Nat
    PROVE  /\ len + a <= bound + n - 1 + m =>
              (/\ b <= a => (len + b <= bound + n - 1 + m)
               /\ b <= a + 1 => (len + b <= bound + n - 1 + (m + 1)))
           /\ len + a <= bound + n + m =>
              (/\ b <= a => (len + b <= bound + n + m)
               /\ b <= a + 1 => (len + b <= bound + n + (m + 1)))
           /\ b <= n =>
              (/\ len < bound => (len + b <= bound + n - 1 + m)
               /\ len <= bound => (len + b <= bound + n + m))
OBVIOUS

\* The network log is cut before it grows past the bound.
LEMMA RecordsNet ==
    ASSUME Records!RecInv, NEW p \in Procs,
           Records!StatNet(p) \/ Records!RotateNet(p) \/ Records!RotateFails(p)
             \/ Records!AppendNet(p)
    PROVE  Records!RecInv'
<1> DEFINE N == Cardinality(Procs)
           A == Cardinality(Records!Doing({"append"}))
           B == Cardinality(Records!Doing({"append"})')
           C == Cardinality(Records!Doing({"refill", "add"}))
           D == Cardinality(Records!Doing({"refill", "add"})')
<1>1. /\ Records!RecTyped /\ Records!SyncedWhole /\ Records!RoomLeft
      /\ s4 \in [Procs -> Records!Works] /\ s4[p] \in Records!Works
      /\ s5.live \in Seq(Nat) /\ s5.old \in Seq(Nat) /\ s6 \in Seq(Nat)
      /\ s7 \in [net : Nat, crash : Nat]
      /\ s8 \in [live : Nat, old : Nat, crash : Nat]
      /\ UNCHANGED <<s2, s3, s6>> /\ s8'.crash = s8.crash
  BY DEF Records!RecInv, Records!RecTyped, Records!StatNet, Records!RotateNet,
         Records!RotateFails, Records!AppendNet
<1>2. /\ Len(s5.live) + A <= Rotate + N - 1 + s8.live
      /\ Len(s5.old) <= Rotate + N - 1 + s8.old
      /\ Len(s6) + C <= Rotate + N + s8.crash
  BY <1>1, RecordSizes DEF Records!RoomLeft
<1>3. /\ Rotate \in Nat /\ Rotate > 0 /\ N \in Nat
      /\ s8.live \in Nat /\ s8.old \in Nat /\ s8.crash \in Nat
      /\ Len(s5.live) \in Nat /\ Len(s5.old) \in Nat /\ Len(s6) \in Nat
  BY <1>1, RecordsAssumption, FS_CardinalityType
<1>4. ASSUME NEW w \in Records!Works, s4' = [s4 EXCEPT ![p] = w],
             w.op \in {"idle", "append", "rotate"},
             s5'.live \in Seq(Nat), s5'.old \in Seq(Nat),
             Len(s5'.live) + B <= Rotate + N - 1 + s8'.live,
             Len(s5'.old) <= Rotate + N - 1 + s8'.old,
             s7' \in [net : Nat, crash : Nat],
             s8' \in [live : Nat, old : Nat, crash : Nat]
      PROVE  Records!RecInv'
  <2>1. Records!RecTyped'
    BY <1>1, <1>4 DEF Records!RecTyped
  <2>2. Records!SyncedWhole'
    BY <1>1, <1>4 DEF Records!SyncedWhole
  <2>3. C \in Nat /\ D \in Nat /\ D <= C
    BY <1>1, <1>4, DoingChanges
  <2>4. Len(s6') + D <= Rotate + N + s8'.crash
    <3>1. Len(s6) + D <= Rotate + N + s8.crash
      BY <1>2, <1>3, <2>3, Room
    <3>2. s6' = s6 /\ s8'.crash = s8.crash
      BY <1>1
    <3>3. QED
      BY <3>1, <3>2
  <2>5. \A q \in Procs : s4'[q].op \in {"cut", "refill", "add"} => Len(s4'[q].tail) <= KeepCrash
    BY <1>1, <1>4 DEF Records!RoomLeft
  <2>6. Records!RoomLeft'
    BY <1>4, <2>4, <2>5, RecordSizes DEF Records!RoomLeft
  <2>7. QED
    BY <2>1, <2>2, <2>6 DEF Records!RecInv
<1> HIDE DEF N
<1>5. CASE Records!StatNet(p)
  <2> DEFINE w == [op |-> IF Len(s5.live) >= Rotate THEN "rotate" ELSE "append",
                   line |-> s7.net + 1]
  <2>1. /\ s4' = [s4 EXCEPT ![p] = w] /\ UNCHANGED <<s5, s8>>
        /\ s7' = [s7 EXCEPT !.net = s7.net + 1]
    BY <1>5 DEF Records!StatNet
  <2> HIDE DEF w
  <2>2. s7' \in [net : Nat, crash : Nat] /\ s7.net + 1 \in Nat
    <3>1. s7 \in [net : Nat, crash : Nat]
      BY <1>1
    <3>2. s7.net \in Nat /\ s7.crash \in Nat
      BY ONLY <3>1
    <3>3. s7' \in [net : Nat, crash : Nat]
      BY ONLY <2>1, <3>1, <3>2
    <3>4. QED
      BY <3>2, <3>3
  <2>3. w \in Records!Works
    BY <2>2, WorksBuilt DEF w
  <2>4. /\ w.op \in {"append", "rotate"}
        /\ w.op = "append" => Len(s5.live) < Rotate
    BY <1>3 DEF w
  <2>5. B \in Nat /\ B <= N /\ A \in Nat /\ (w.op # "append" => B <= A)
    BY <1>1, <2>1, <2>3, DoingChanges DEF N
  <2>6. Len(s5.live) + B <= Rotate + N - 1 + s8.live
    <3>1. CASE w.op = "append"
      BY <1>3, <2>4, <2>5, <3>1, Room
    <3>2. CASE w.op # "append"
      BY <1>2, <1>3, <2>5, <3>2, Room
    <3>3. QED
      BY <3>1, <3>2
  <2>7. QED
    BY <1>1, <1>2, <1>4, <2>1, <2>2, <2>3, <2>4, <2>6 DEF N
<1>6. CASE Records!RotateNet(p)
  <2> DEFINE w == [op |-> "append", line |-> s4[p].line]
  <2>1. s4[p].op = "rotate" /\ UNCHANGED s7
    BY <1>6 DEF Records!RotateNet
  <2>2. s4' = [s4 EXCEPT ![p] = w] /\ w \in Records!Works
    BY <1>1, <1>6, <2>1, WorkForms, WorksBuilt DEF Records!RotateNet
  <2>3. CASE s5.live = <<>>
    <3>1. UNCHANGED <<s5, s8>> /\ Len(s5.live) = 0
      BY <1>6, <2>3 DEF Records!RotateNet
    <3>2. B \in Nat /\ B <= N
      BY <1>1, <2>2, DoingChanges DEF N
    <3>3. Len(s5'.live) + B <= Rotate + N - 1 + s8'.live
      BY <1>3, <3>1, <3>2
    <3>4. QED
      BY <1>1, <1>2, <1>4, <2>1, <2>2, <3>1, <3>3 DEF N
  <2>4. CASE s5.live # <<>>
    <3>1. /\ s5' = [live |-> <<>>, old |-> s5.live]
          /\ s8' = [s8 EXCEPT !.old = s8.live, !.live = 0]
      BY <1>6, <2>4 DEF Records!RotateNet
    <3>2. /\ s8'.live = 0 /\ s8'.old = s8.live
          /\ s8' \in [live : Nat, old : Nat, crash : Nat]
      BY <1>1, <1>3, <3>1
    <3>3. /\ s5'.live = <<>> /\ s5'.old = s5.live /\ Len(s5'.live) = 0
          /\ s5'.live \in Seq(Nat) /\ s5'.old \in Seq(Nat)
      BY <1>1, <3>1
    <3>4. A \in Nat /\ B \in Nat /\ B <= N
      BY <1>1, <2>2, DoingChanges DEF N
    <3>5. Len(s5'.live) + B <= Rotate + N - 1 + s8'.live
      BY <1>3, <3>2, <3>3, <3>4
    <3>6. Len(s5'.old) <= Rotate + N - 1 + s8'.old
      BY <1>2, <1>3, <3>2, <3>3, <3>4
    <3>7. QED
      BY <1>1, <1>4, <2>1, <2>2, <3>2, <3>3, <3>5, <3>6 DEF N
  <2>5. QED
    BY <2>3, <2>4
<1>8. CASE Records!RotateFails(p)
  <2> DEFINE w == [op |-> "append", line |-> s4[p].line]
  <2>1. /\ s4[p].op = "rotate" /\ UNCHANGED <<s5, s7>>
        /\ s8' = [s8 EXCEPT !.live = s8.live + 1]
    BY <1>8 DEF Records!RotateFails
  <2>2. s4' = [s4 EXCEPT ![p] = w] /\ w \in Records!Works
    BY <1>1, <1>8, <2>1, WorkForms, WorksBuilt DEF Records!RotateFails
  <2>3. w.op = "append"
    OBVIOUS
  <2> HIDE DEF w
  <2>4. /\ s8'.live = s8.live + 1 /\ s8'.old = s8.old
        /\ s8' \in [live : Nat, old : Nat, crash : Nat]
    <3>1. s8 \in [live : Nat, old : Nat, crash : Nat] /\ s8.live + 1 \in Nat
      BY <1>1, <1>3
    <3>2. QED
      BY ONLY <2>1, <3>1
  <2>5. A \in Nat /\ B \in Nat /\ B <= A + 1
    BY <1>1, <2>2, DoingGrows
  <2>6. Len(s5'.live) + B <= Rotate + N - 1 + s8'.live
    <3>1. s5'.live = s5.live
      BY <2>1
    <3>2. Len(s5.live) + B <= Rotate + N - 1 + (s8.live + 1)
      BY <1>2, <1>3, <2>5, Room
    <3>3. QED
      BY <2>4, <3>1, <3>2
  <2>7. QED
    BY <1>1, <1>2, <1>4, <2>1, <2>2, <2>3, <2>4, <2>6 DEF N
<1>7. CASE Records!AppendNet(p)
  <2>1. /\ s4[p].op = "append" /\ UNCHANGED <<s7, s8>>
        /\ s4' = [s4 EXCEPT ![p] = Records!Idle]
        /\ s5' = [s5 EXCEPT !.live = Append(s5.live, s4[p].line)]
    BY <1>7 DEF Records!AppendNet
  <2>2. s4[p].line \in Nat
    BY <1>1, <2>1, WorkForms
  <2>3. /\ s5'.live = Append(s5.live, s4[p].line) /\ s5'.old = s5.old
    BY <1>1, <2>1 DEF Records!RecTyped
  <2>4. /\ s5'.live \in Seq(Nat) /\ s5'.old \in Seq(Nat)
        /\ Len(s5'.live) = Len(s5.live) + 1
    BY <1>1, <2>2, <2>3
  <2>5. A \in Nat /\ B \in Nat /\ B = A - 1
    BY <1>1, <2>1, WorksBuilt, DoingChanges
  <2>6. /\ Len(s5'.live) + B <= Rotate + N - 1 + s8.live
        /\ Len(s5'.old) <= Rotate + N - 1 + s8.old
    BY <1>2, <1>3, <2>3, <2>4, <2>5
  <2>7. QED
    BY <1>1, <1>4, <2>1, <2>4, <2>6, WorksBuilt DEF N
<1>9. QED
  BY <1>5, <1>6, <1>7, <1>8

\* What is left of a file from one of its lines on.
LEMMA RestOf ==
    ASSUME NEW c \in Seq(Nat), NEW m \in Nat \ {0}
    PROVE  /\ SubSeq(c, m, Len(c)) \in Seq(Nat)
           /\ Len(SubSeq(c, m, Len(c))) = IF m <= Len(c) THEN Len(c) - m + 1 ELSE 0
<1>1. Len(c) \in Int /\ m \in Int /\ (\A i \in m .. Len(c) : c[i] \in Nat)
  OBVIOUS
<1>2. QED
  BY <1>1, SubSeqProperties

\* A cut is refilled with at most the lines it keeps, whatever was added since.
LEMMA Refilled ==
    ASSUME NEW t \in Seq(Nat), NEW c \in Seq(Nat)
    PROVE  /\ t \o SubSeq(c, Len(t) + 1, Len(c)) \in Seq(Nat)
           /\ Len(t \o SubSeq(c, Len(t) + 1, Len(c))) \in {Len(t), Len(c)}
<1> DEFINE r == SubSeq(c, Len(t) + 1, Len(c))
<1>1. Len(t) \in Nat /\ Len(c) \in Nat /\ Len(t) + 1 \in Nat \ {0}
  OBVIOUS
<1>2. /\ r \in Seq(Nat)
      /\ Len(r) = IF Len(t) + 1 <= Len(c) THEN Len(c) - (Len(t) + 1) + 1 ELSE 0
  BY <1>1, RestOf
<1> HIDE DEF r
<1>3. t \o r \in Seq(Nat) /\ Len(t \o r) = Len(t) + Len(r)
  BY <1>2, ConcatProperties
<1>4. Len(t \o r) \in {Len(t), Len(c)}
  BY <1>1, <1>2, <1>3
<1>5. QED
  BY <1>3, <1>4 DEF r

\* The lines a reader keeps of the crash log are lines of it, few enough.
LEMMA TailKept ==
    ASSUME NEW c \in Seq(Nat), NEW t,
           t = SubSeq(c, IF Len(c) > KeepCrash THEN Len(c) - KeepCrash + 1 ELSE 1, Len(c))
    PROVE  t \in Seq(Nat) /\ Len(t) <= KeepCrash
<1> DEFINE m == IF Len(c) > KeepCrash THEN Len(c) - KeepCrash + 1 ELSE 1
<1>1. /\ Len(c) \in Nat /\ KeepCrash \in Nat
      /\ t = SubSeq(c, m, Len(c)) /\ m \in Nat \ {0}
  BY RecordsAssumption
<1>2. m = IF Len(c) > KeepCrash THEN Len(c) - KeepCrash + 1 ELSE 1
  OBVIOUS
<1> HIDE DEF m
<1>3. t \in Seq(Nat) /\ Len(t) = IF m <= Len(c) THEN Len(c) - m + 1 ELSE 0
  BY <1>1, RestOf
<1>4. QED
  BY <1>1, <1>2, <1>3

\* The crash log is cut before it grows past the bound, for a line that was
\* decided on a longer file is counted as written.
LEMMA RecordsCrash ==
    ASSUME Records!RecInv, NEW p \in Procs,
           Records!ReadCrash(p) \/ Records!CutCrash(p) \/ Records!CutFails(p)
             \/ Records!RefillCrash(p) \/ Records!AddCrash(p)
    PROVE  Records!RecInv'
<1> DEFINE N == Cardinality(Procs)
           A == Cardinality(Records!Doing({"append"}))
           B == Cardinality(Records!Doing({"append"})')
           C == Cardinality(Records!Doing({"refill", "add"}))
           D == Cardinality(Records!Doing({"refill", "add"})')
<1>1. /\ Records!RecTyped /\ Records!SyncedWhole /\ Records!RoomLeft
      /\ s4 \in [Procs -> Records!Works] /\ s4[p] \in Records!Works
      /\ s5.live \in Seq(Nat) /\ s5.old \in Seq(Nat) /\ s6 \in Seq(Nat)
      /\ s7 \in [net : Nat, crash : Nat]
      /\ s8 \in [live : Nat, old : Nat, crash : Nat]
      /\ UNCHANGED <<s2, s3, s5>> /\ s8'.live = s8.live /\ s8'.old = s8.old
  BY DEF Records!RecInv, Records!RecTyped, Records!ReadCrash, Records!CutCrash,
         Records!CutFails, Records!RefillCrash, Records!AddCrash
<1>2. /\ Len(s5.live) + A <= Rotate + N - 1 + s8.live
      /\ Len(s5.old) <= Rotate + N - 1 + s8.old
      /\ Len(s6) + C <= Rotate + N + s8.crash
      /\ s4[p].op \in {"cut", "refill", "add"} => Len(s4[p].tail) <= KeepCrash
  BY <1>1, RecordSizes DEF Records!RoomLeft
<1>3. /\ Rotate \in Nat /\ N \in Nat /\ KeepCrash \in Nat /\ KeepCrash <= Rotate
      /\ s8.live \in Nat /\ s8.old \in Nat /\ s8.crash \in Nat
      /\ Len(s5.live) \in Nat /\ Len(s5.old) \in Nat /\ Len(s6) \in Nat
  BY <1>1, RecordsAssumption, FS_CardinalityType
<1>4. ASSUME NEW w \in Records!Works, s4' = [s4 EXCEPT ![p] = w],
             w.op \in {"idle", "cut", "refill", "add"},
             w.op # "idle" => Len(w.tail) <= KeepCrash,
             s6' \in Seq(Nat), Len(s6') + D <= Rotate + N + s8'.crash,
             s7' \in [net : Nat, crash : Nat],
             s8' \in [live : Nat, old : Nat, crash : Nat]
      PROVE  Records!RecInv'
  <2>1. Records!RecTyped'
    BY <1>1, <1>4 DEF Records!RecTyped
  <2>2. Records!SyncedWhole'
    BY <1>1, <1>4 DEF Records!SyncedWhole
  <2>3. A \in Nat /\ B \in Nat /\ B <= A
    BY <1>1, <1>4, DoingChanges
  <2>4. /\ Len(s5'.live) + B <= Rotate + N - 1 + s8'.live
        /\ Len(s5'.old) <= Rotate + N - 1 + s8'.old
    <3>1. Len(s5.live) + B <= Rotate + N - 1 + s8.live
      BY <1>2, <1>3, <2>3, Room
    <3>2. s5' = s5 /\ s8'.live = s8.live /\ s8'.old = s8.old
      BY <1>1
    <3>3. QED
      BY <1>2, <3>1, <3>2
  <2>5. \A q \in Procs : s4'[q].op \in {"cut", "refill", "add"} => Len(s4'[q].tail) <= KeepCrash
    BY <1>1, <1>4 DEF Records!RoomLeft
  <2>6. Records!RoomLeft'
    BY <1>4, <2>4, <2>5, RecordSizes DEF Records!RoomLeft
  <2>7. QED
    BY <2>1, <2>2, <2>6 DEF Records!RecInv
<1> HIDE DEF N
<1>5. CASE Records!ReadCrash(p)
  <2> DEFINE t == SubSeq(s6, IF Len(s6) > KeepCrash THEN Len(s6) - KeepCrash + 1 ELSE 1,
                         Len(s6))
             w == [op |-> IF Len(s6) > Rotate THEN "cut" ELSE "add",
                   line |-> s7.crash + 1, tail |-> t]
  <2>1. /\ s4' = [s4 EXCEPT ![p] = w] /\ UNCHANGED <<s6, s8>>
        /\ s7' = [s7 EXCEPT !.crash = s7.crash + 1]
    BY <1>5 DEF Records!ReadCrash
  <2> HIDE DEF t, w
  <2>2. s7' \in [net : Nat, crash : Nat] /\ s7.crash + 1 \in Nat
    <3>1. s7 \in [net : Nat, crash : Nat]
      BY <1>1
    <3>2. s7.net \in Nat /\ s7.crash \in Nat
      BY ONLY <3>1
    <3>3. s7' \in [net : Nat, crash : Nat]
      BY ONLY <2>1, <3>1, <3>2
    <3>4. QED
      BY <3>2, <3>3
  <2>3. t \in Seq(Nat) /\ Len(t) <= KeepCrash
    BY <1>1, TailKept DEF t
  <2>4. w \in Records!Works
    BY <2>2, <2>3, WorksBuilt DEF w
  <2>5. /\ w.op \in {"cut", "add"} /\ w.tail = t
        /\ w.op = "add" => Len(s6) <= Rotate
    BY <1>3 DEF w
  <2>6. D \in Nat /\ D <= N /\ C \in Nat /\ (w.op = "cut" => D <= C)
    BY <1>1, <2>1, <2>4, DoingChanges DEF N
  <2>7. Len(s6') + D <= Rotate + N + s8'.crash
    <3>1. s6' = s6 /\ s8'.crash = s8.crash
      BY <2>1
    <3>2. CASE w.op = "add"
      BY <1>3, <2>5, <2>6, <3>1, <3>2, Room
    <3>3. CASE w.op = "cut"
      BY <1>2, <1>3, <2>6, <3>1, <3>3, Room
    <3>4. QED
      BY <2>5, <3>2, <3>3
  <2>8. QED
    BY <1>1, <1>4, <2>1, <2>2, <2>3, <2>4, <2>5, <2>7 DEF N
<1>6. CASE Records!CutCrash(p)
  <2> DEFINE w == [op |-> "refill", line |-> s4[p].line, tail |-> s4[p].tail]
  <2>1. /\ s4[p].op = "cut" /\ s6' = <<>> /\ UNCHANGED s7
        /\ s8' = [s8 EXCEPT !.crash = 0]
    BY <1>6 DEF Records!CutCrash
  <2>2. s4' = [s4 EXCEPT ![p] = w] /\ w \in Records!Works
    BY <1>1, <1>6, <2>1, WorkForms, WorksBuilt DEF Records!CutCrash
  <2>3. w.op = "refill" /\ w.tail = s4[p].tail
    OBVIOUS
  <2> HIDE DEF w
  <2>4. D \in Nat /\ D <= N
    BY <1>1, <2>2, DoingChanges DEF N
  <2>5. s8'.crash = 0 /\ s8' \in [live : Nat, old : Nat, crash : Nat]
    BY <1>1, <2>1
  <2>6. s6' \in Seq(Nat) /\ Len(s6') + D <= Rotate + N + s8'.crash
    BY <1>3, <2>1, <2>4, <2>5
  <2>7. QED
    BY <1>1, <1>2, <1>4, <2>1, <2>2, <2>3, <2>5, <2>6 DEF N
<1>7. CASE Records!RefillCrash(p)
  <2> DEFINE t == s4[p].tail
             w == [op |-> "add", line |-> s4[p].line, tail |-> t]
  <2>1. /\ s4[p].op = "refill" /\ UNCHANGED <<s7, s8>>
        /\ s6' \in {s6, t \o SubSeq(s6, Len(t) + 1, Len(s6))}
    BY <1>7 DEF Records!RefillCrash
  <2>2. s4' = [s4 EXCEPT ![p] = w] /\ w \in Records!Works /\ t \in Seq(Nat)
    BY <1>1, <1>7, <2>1, WorkForms, WorksBuilt DEF Records!RefillCrash
  <2>3. w.op = "add" /\ w.tail = t
    OBVIOUS
  <2>4. Len(t) \in Nat /\ Len(t) <= KeepCrash
    BY <1>2, <2>1, <2>2
  <2> HIDE DEF w, t
  <2>5. D \in Nat /\ D <= N /\ C \in Nat /\ D <= C
    BY <1>1, <2>1, <2>2, DoingChanges DEF N
  <2>6. s6' \in Seq(Nat) /\ Len(s6') \in {Len(t), Len(s6)}
    <3>1. s6 \in Seq(Nat) /\ t \in Seq(Nat)
      BY <1>1, <2>2
    <3>2. CASE s6' = s6
      BY ONLY <3>1, <3>2
    <3>3. CASE s6' = t \o SubSeq(s6, Len(t) + 1, Len(s6))
      BY ONLY <3>1, <3>3, Refilled
    <3>4. QED
      BY <2>1, <3>2, <3>3
  <2>7. Len(s6') + D <= Rotate + N + s8'.crash
    <3>1. s8'.crash = s8.crash
      BY <2>1
    <3>2. CASE Len(s6') = Len(t)
      <4>1. Len(t) <= Rotate
        BY <1>3, <2>4
      <4>2. QED
        BY <1>3, <2>4, <2>5, <3>1, <3>2, <4>1, Room
    <3>3. CASE Len(s6') = Len(s6)
      BY <1>2, <1>3, <2>5, <3>1, <3>3, Room
    <3>4. QED
      BY <2>6, <3>2, <3>3
  <2>8. QED
    BY <1>1, <1>4, <2>1, <2>2, <2>3, <2>4, <2>6, <2>7 DEF N
<1>8. CASE Records!AddCrash(p)
  <2>1. /\ s4[p].op = "add" /\ UNCHANGED <<s7, s8>>
        /\ s4' = [s4 EXCEPT ![p] = Records!Idle]
        /\ s6' = Append(s6, s4[p].line)
    BY <1>8 DEF Records!AddCrash
  <2>2. s4[p].line \in Nat
    BY <1>1, <2>1, WorkForms
  <2>3. s6' \in Seq(Nat) /\ Len(s6') = Len(s6) + 1
    BY <1>1, <2>1, <2>2
  <2>4. C \in Nat /\ D \in Nat /\ D = C - 1
    BY <1>1, <2>1, WorksBuilt, DoingChanges
  <2>5. Len(s6') + D <= Rotate + N + s8'.crash
    BY <1>2, <1>3, <2>1, <2>3, <2>4
  <2>6. QED
    BY <1>1, <1>4, <2>1, <2>3, <2>5, WorksBuilt DEF N
<1>9. CASE Records!CutFails(p)
  <2> DEFINE w == [op |-> "add", line |-> s4[p].line, tail |-> s4[p].tail]
  <2>1. /\ s4[p].op = "cut" /\ UNCHANGED <<s6, s7>>
        /\ s8' = [s8 EXCEPT !.crash = s8.crash + 1]
    BY <1>9 DEF Records!CutFails
  <2>2. s4' = [s4 EXCEPT ![p] = w] /\ w \in Records!Works
    BY <1>1, <1>9, <2>1, WorkForms, WorksBuilt DEF Records!CutFails
  <2>3. w.op = "add" /\ w.tail = s4[p].tail
    OBVIOUS
  <2> HIDE DEF w
  <2>4. s8'.crash = s8.crash + 1 /\ s8' \in [live : Nat, old : Nat, crash : Nat]
    <3>1. s8 \in [live : Nat, old : Nat, crash : Nat] /\ s8.crash + 1 \in Nat
      BY <1>1, <1>3
    <3>2. QED
      BY ONLY <2>1, <3>1
  <2>5. C \in Nat /\ D \in Nat /\ D <= C + 1
    BY <1>1, <2>2, DoingGrows
  <2>6. Len(s6') + D <= Rotate + N + s8'.crash
    <3>1. Len(s6) + D <= Rotate + N + (s8.crash + 1)
      BY <1>2, <1>3, <2>5, Room
    <3>2. QED
      BY <2>1, <2>4, <3>1
  <2>7. QED
    BY <1>1, <1>2, <1>4, <2>1, <2>2, <2>3, <2>4, <2>6 DEF N
<1>10. QED
  BY <1>5, <1>6, <1>7, <1>8, <1>9

\* Every step of the files keeps the invariant; a kill only forgets.
LEMMA RecordsStep ==
    ASSUME Records!RecInv, Records!RecNext
    PROVE  Records!RecInv'
<1>1. ASSUME NEW p \in Procs, Records!Killed(p) PROVE Records!RecInv'
  <2>1. /\ Records!RecTyped /\ Records!SyncedWhole /\ Records!RoomLeft
        /\ s4 \in [Procs -> Records!Works]
        /\ s4' = [s4 EXCEPT ![p] = Records!Idle]
        /\ UNCHANGED <<s2, s3, s5, s6, s7, s8>>
    BY <1>1 DEF Records!RecInv, Records!RecTyped, Records!Killed
  <2>2. Records!RecTyped'
    BY <2>1, WorksBuilt DEF Records!RecTyped
  <2>3. Records!SyncedWhole'
    BY <2>1, WorksBuilt DEF Records!SyncedWhole
  <2>4. Records!RoomLeft'
    BY <1>1, <2>1, WorksBuilt, RoomKept
  <2>5. QED
    BY <2>2, <2>3, <2>4 DEF Records!RecInv
<1>2. QED
  BY <1>1, RecordsState, RecordsNet, RecordsCrash DEF Records!RecNext

\* A new installation has no log and no registry.
LEMMA RecordsStart ==
    ASSUME Records!RecInit
    PROVE  Records!RecInv
<1>1. /\ s2 = {} /\ s3 = [p \in Procs |-> Records!NoTemp]
      /\ s4 = [p \in Procs |-> Records!Idle]
      /\ s5 = [live |-> <<>>, old |-> <<>>] /\ s6 = <<>>
      /\ s7 = [net |-> 0, crash |-> 0]
      /\ s8 = [live |-> 0, old |-> 0, crash |-> 0]
  BY DEF Records!RecInit
<1>2. Records!RecTyped
  BY <1>1, WorksBuilt DEF Records!RecTyped
<1>3. Records!SyncedWhole
  BY <1>1, WorksBuilt DEF Records!SyncedWhole
<1>4. /\ Records!Doing({"append"}) = {} /\ Records!Doing({"refill", "add"}) = {}
      /\ \A q \in Procs : s4[q].op \notin {"cut", "refill", "add"}
  BY <1>1, WorksBuilt DEF Records!Doing
<1>5. Cardinality({}) = 0
  BY FS_EmptySet
<1>6. Rotate \in Nat \ {0} /\ Cardinality(Procs) \in Nat
  BY RecordsAssumption, FS_CardinalityType
<1>7. Len(s5.live) = 0 /\ Len(s5.old) = 0 /\ Len(s6) = 0
  BY <1>1
<1>8. Records!RoomLeft
  <2>1. /\ Records!Cardinality(Records!Doing({"append"})) = 0
        /\ Records!Cardinality(Records!Doing({"refill", "add"})) = 0
        /\ Records!Cardinality(Procs) \in Nat
    BY <1>4, <1>5, <1>6, RecordSizes
  <2>2. QED
    BY <1>1, <1>4, <1>6, <1>7, <2>1 DEF Records!RoomLeft
<1>9. QED
  BY <1>2, <1>3, <1>8 DEF Records!RecInv

\* However many processes append, cut and are killed at once, a log exceeds the
\* size it is cut at by no more than one line of each and one for each cut that
\* has failed since the last that worked, and the registry is never met half
\* written (atomic.rs write_atomic, netlog.rs, crashlog.rs).
THEOREM RecordsSafety == PartsSpec => []LogsStaySmall
<1> DEFINE Inv == part = "records" => Records!RecInv
<1>1. PartsInit => Inv
  BY RecordsStart DEF PartsInit
<1>2. Inv /\ [PartsNext]_partVars => Inv'
  <2>1. ASSUME Inv, PartsNext PROVE Inv'
    BY <2>1, RecordsStep DEF PartsNext
  <2>2. ASSUME Inv, UNCHANGED partVars PROVE Inv'
    BY <2>2 DEF partVars, slots, Records!RecInv, Records!RecTyped, Records!SyncedWhole,
                Records!RoomLeft, Records!Doing
  <2>3. QED
    BY <2>1, <2>2
<1>3. Inv => LogsStaySmall
  <2>1. ASSUME Records!RecInv PROVE Records!RegistryNeverTorn
    BY <2>1, RecordsAssumption DEF Records!RecInv, Records!SyncedWhole,
       Records!RegistryNeverTorn, Records!Torn
  <2>2. ASSUME Records!RecInv PROVE Records!LogsStaySmall
    <3>1. /\ Records!RecTyped /\ Records!RoomLeft
          /\ s4 \in [Procs -> Records!Works]
      BY <2>2 DEF Records!RecInv, Records!RecTyped
    <3>2. /\ IsFiniteSet(Procs) /\ Cardinality(Procs) \in Nat /\ Rotate \in Nat
      BY RecordsAssumption, FS_CardinalityType
    <3>3. \A ops : /\ IsFiniteSet(Records!Doing(ops))
                   /\ Cardinality(Records!Doing(ops)) \in Nat
      <4>1. \A ops : Records!Doing(ops) \subseteq Procs
        BY DEF Records!Doing
      <4>2. QED
        BY <3>2, <4>1, FS_Subset, FS_CardinalityType
    <3>4. /\ Len(s5.live) \in Nat /\ Len(s6) \in Nat
          /\ s8.live \in Nat /\ s8.crash \in Nat
      BY <3>1 DEF Records!RecTyped
    <3>5. /\ Len(s5.live) <= Rotate + Cardinality(Procs) - 1 + s8.live
          /\ Len(s6) <= Rotate + Cardinality(Procs) + s8.crash
      <4>1. /\ Len(s5.live) + Cardinality(Records!Doing({"append"}))
                 <= Rotate + Cardinality(Procs) - 1 + s8.live
            /\ Len(s6) + Cardinality(Records!Doing({"refill", "add"}))
                 <= Rotate + Cardinality(Procs) + s8.crash
        BY <3>1, RecordSizes DEF Records!RoomLeft
      <4> DEFINE A == Cardinality(Records!Doing({"append"}))
                 C == Cardinality(Records!Doing({"refill", "add"}))
      <4>2. A \in Nat /\ C \in Nat
        BY <3>3
      <4> HIDE DEF A, C
      <4>3. QED
        BY <3>2, <3>4, <4>1, <4>2 DEF A, C
    <3>6. Len(s5.old) <= Rotate + Cardinality(Procs) - 1 + s8.old
      BY <3>1, RecordSizes DEF Records!RoomLeft
    <3>7. QED
      BY <3>5, <3>6, RecordSizes DEF Records!LogsStaySmall
  <2>3. QED
    BY <2>1, <2>2 DEF LogsStaySmall
<1>4. QED
  BY <1>1, <1>2, <1>3, PTL DEF PartsSpec
=============================================================================
