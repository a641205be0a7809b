------------------------- MODULE GraphDrawingProofs -------------------------
(***************************************************************************)
(* Segments next to each other differ in colour, and the picture refers to *)
(* segments only, for every repository, however many groups, lanes, shared *)
(* commits and segments it has.                                            *)
(*                                                                         *)
(* Sound is the inductive invariant.  Its part Placing is that of the      *)
(* colours (ColourAssignmentProofs); Counting and Underway say that the    *)
(* pass for segments and the drawing begin a segment at the same rows, so  *)
(* that every number drawn is that of a segment.                           *)
(* MainSound adds how far along main the rows have come: MainAt says that  *)
(* the lines so far either lead to main's own commit, or show main from it *)
(* down to where the next line goes on.                                    *)
(* RepairsImprove needs Taken: every segment has a colour once it has had  *)
(* its turn, so a turn that finds none is the first.                       *)
(* LanesAreTraced rests on the order of the rows: shared_ancestry goes     *)
(* through them depth first and from the left, so a lane that waits for    *)
(* its next row passes all rows between at their left.  Follows says what  *)
(* the eye meets, GroupIsTraced that from every row it comes to the row    *)
(* below on the same lane; Woven says that the picture is made of the rows *)
(* of every group, one after the other (PictureAt, FinishedIn).            *)
(***************************************************************************)
EXTENDS GraphDrawing, ColourAssignmentProofs

----------------------------------------------------------------------------
(* Sorting.                                                                *)

\* The elements of a set in their order.
SortedBy(q, R, S) ==
    /\ q = [i \in 1..Cardinality(S) |-> q[i]]
    /\ \A i \in DOMAIN q : q[i] \in S /\ Rank(R, S, q[i]) = i - 1

\* Sorting neither loses nor repeats an element, and puts them in order.
LEMMA SortedIs ==
  ASSUME NEW S, IsFiniteSet(S), NEW R, Orders(R, S), NEW q, SortedBy(q, R, S)
  PROVE  /\ q \in Seq(S) /\ Len(q) = Cardinality(S)
         /\ \A x \in S : \E i \in DOMAIN q : q[i] = x
         /\ \A i, j \in DOMAIN q : i < j => <<q[i], q[j]>> \in R
<1>1. Cardinality(S) \in Nat
  BY FS_CardinalityType
<1>2. q \in Seq(S) /\ Len(q) = Cardinality(S)
  BY <1>1 DEF SortedBy
<1>3. ASSUME NEW x \in S PROVE \E i \in DOMAIN q : q[i] = x
  <2> DEFINE i == Rank(R, S, x) + 1
  <2>1. Rank(R, S, x) \in 0..(Cardinality(S) - 1)
    BY RankGrows
  <2>2. i \in DOMAIN q
    BY <1>1, <2>1 DEF SortedBy
  <2>3. q[i] \in S /\ Rank(R, S, q[i]) = Rank(R, S, x)
    BY <2>1, <2>2 DEF SortedBy
  <2>4. q[i] = x
    BY <2>3, RankGrows
  <2> QED
    BY <2>2, <2>4
<1>4. ASSUME NEW i \in DOMAIN q, NEW j \in DOMAIN q, i < j PROVE <<q[i], q[j]>> \in R
  <2>1. /\ q[i] \in S /\ q[j] \in S /\ Rank(R, S, q[i]) = i - 1 /\ Rank(R, S, q[j]) = j - 1
        /\ i \in Int /\ j \in Int
    BY <1>1 DEF SortedBy
  <2>2. ~(Rank(R, S, q[j]) < Rank(R, S, q[i])) /\ q[i] # q[j]
    BY <1>4, <2>1
  <2> QED
    BY <2>1, <2>2, RankGrows DEF Orders
<1> QED
  BY <1>2, <1>3, <1>4

\* Finite sets of integers have a greatest and a least element.
LEMMA MaxIs ==
  ASSUME NEW S \in SUBSET Int, IsFiniteSet(S), S # {}
  PROVE  Max(S) \in S /\ \A y \in S : Max(S) >= y
<1> DEFINE R == {p \in S \X S : p[1] > p[2]}
<1>1. \A x, y \in S : <<x, y>> \in R <=> x > y
  OBVIOUS
<1>2. Orders(R, S)
  <2> HIDE DEF R
  <2> QED BY <1>1 DEF Orders
<1>3. PICK x \in S : \A y \in S \ {x} : <<x, y>> \in R
  <2> HIDE DEF R
  <2> QED BY <1>2, FirstExists
<1>4. ASSUME NEW y \in S PROVE x >= y
  <2>1. x \in Int /\ y \in Int /\ (x = y \/ <<x, y>> \in R)
    BY <1>3
  <2> HIDE DEF R
  <2> QED BY <1>1, <2>1
<1> QED
  BY <1>4 DEF Max

\* The least of some numbers.
LEMMA MinIs ==
  ASSUME NEW S \in SUBSET Int, IsFiniteSet(S), S # {}
  PROVE  Min(S) \in S /\ \A y \in S : Min(S) <= y
<1> DEFINE R == {p \in S \X S : p[1] < p[2]}
<1>1. \A x, y \in S : <<x, y>> \in R <=> x < y
  OBVIOUS
<1>2. Orders(R, S)
  <2> HIDE DEF R
  <2> QED BY <1>1 DEF Orders
<1>3. PICK x \in S : \A y \in S \ {x} : <<x, y>> \in R
  <2> HIDE DEF R
  <2> QED BY <1>2, FirstExists
<1>4. ASSUME NEW y \in S PROVE x <= y
  <2>1. x \in Int /\ y \in Int /\ (x = y \/ <<x, y>> \in R)
    BY <1>3
  <2> HIDE DEF R
  <2> QED BY <1>1, <2>1
<1> QED
  BY <1>4 DEF Min

----------------------------------------------------------------------------
(* From the pairs seen beside each other to neighbours.                    *)

\* What is known of the pairs: both have been started, and nothing is its own
\* neighbour; no segment has neighbours yet.
Linking ==
    /\ segments \in Seq(Segment)
    /\ \A s \in Ids : segments[s].neighbours = {}
    /\ \A e \in edges : e \subseteq Ids

\* link_segments leaves every segment without a colour and every load zero.
LEMMA LinkPlaces ==
  ASSUME Linking, Fresh, LinkSegments
  PROVE  Placing'
<1>1. /\ segments' = [s \in Ids |->
                        [segments[s] EXCEPT !.neighbours = (UNION {e \in edges : s \in e}) \ {s}]]
      /\ colours' = [s \in Ids |-> Uncoloured]
      /\ budget' = MapThenSumSet(Weight, Ids) \div 5
      /\ turns' = [i \in Ids |->
                     CHOOSE s \in Ids : Cardinality({t \in Ids : Precedes(t, s)}) = i - 1]
      /\ UNCHANGED <<colourLoad, familyLoad, placed>>
  BY DEF LinkSegments, NewAssignment
<1>2. Segmented
  BY DEF Linking, Segmented
<1>3. /\ Ids = 1..Len(segments) /\ Len(segments) \in Nat
      /\ \A s \in Ids : segments[s] \in Segment
  BY <1>2, SegmentedIs DEF Segmented, Ids
<1> DEFINE near(s) == (UNION {e \in edges : s \in e}) \ {s}
<1>4. \A s \in Ids : near(s) \subseteq Ids \ {s}
  BY DEF Linking
<1>5. ASSUME NEW s \in Ids
      PROVE  segments'[s] \in Segment /\ segments'[s].neighbours = near(s)
  <2> DEFINE n == near(s)
  <2>1. n \in SUBSET Nat
    <3>1. n \subseteq Ids /\ Ids \subseteq Nat
      BY <1>3, <1>4
    <3> HIDE DEF n
    <3> QED BY <3>1
  <2>2. segments'[s] = [segments[s] EXCEPT !.neighbours = n]
    BY <1>1
  <2> HIDE DEF n
  <2>3. segments[s] \in Segment
    BY <1>3
  <2>4. segments'[s] \in Segment /\ segments'[s].neighbours = n
    BY <2>1, <2>2, <2>3 DEF Segment
  <2> QED
    BY <2>4 DEF n
<1>6. segments' \in Seq(Segment) /\ Ids' = Ids
  <2>1. DOMAIN segments' = 1..Len(segments)
    BY <1>1, <1>3
  <2>2. \A s \in 1..Len(segments) : segments'[s] \in Segment
    BY <1>3, <1>5
  <2>3. segments' = [s \in 1..Len(segments) |-> segments'[s]]
    BY <1>1, <1>3
  <2>4. segments' \in Seq(Segment)
    BY <1>3, <2>2, <2>3
  <2> QED
    BY <1>3, <2>1, <2>4 DEF Ids
<1>7. Segmented'
  BY <1>4, <1>5, <1>6 DEF Segmented
<1>8. Mutual'
  <2>1. \A s, t \in Ids : t \in near(s) => s \in near(t)
    OBVIOUS
  <2> HIDE DEF near
  <2> QED
    BY <1>5, <1>6, <2>1 DEF Mutual
<1>9. \A s \in Ids : colours'[s] = Uncoloured
  BY <1>1
<1>10. Apart'
  BY <1>6, <1>9 DEF Apart
<1>11. Loaded'
  <2>1. \A c \in Palette : Worn(c)' = {}
    BY <1>6, <1>9, PaletteIs DEF Worn
  <2>2. \A f : WornIn(f)' = {}
    BY <1>6, <1>9 DEF WornIn
  <2>3. \A c \in Palette : colourLoad'[c] = 0
    BY <1>1 DEF Fresh
  <2>4. \A f \in Families : familyLoad'[f] = 0
    BY <1>1 DEF Fresh
  <2> QED
    BY <2>1, <2>2, <2>3, <2>4, SumEmpty DEF Loaded
<1>12. Colouring'
  <2>1. colourLoad' \in [Palette -> Int] /\ familyLoad' \in [Families -> Int]
    BY <1>1 DEF Fresh
  <2>2. colours' \in [Ids' -> Palette \cup {Uncoloured}]
    BY <1>1, <1>6
  <2>3. budget' \in Int
    <3> DEFINE total == SumOver(Weights, Ids)
    <3>1. Ids \in SUBSET Ids
      OBVIOUS
    <3>2. budget' = total \div 5 /\ total \in Int
      <4>1. IsFiniteSet(Ids) /\ \A t \in Ids : Weights[t] \in Nat \ {0}
        BY <1>2, <3>1, WeightSum
      <4>2. \A t \in Ids : Weights[t] \in Int
        BY <4>1
      <4>3. total \in Int
        BY <4>1, <4>2, SumType
      <4>4. MapThenSumSet(Weight, Ids) = total
        BY <1>2, <3>1, WeightSum
      <4> QED
        BY <1>1, <4>3, <4>4
    <3> HIDE DEF total
    <3> QED
      BY <3>2
  <2> QED
    BY <1>7, <2>1, <2>2, <2>3 DEF Colouring
<1>13. turns' \in [Ids' -> Ids'] /\ placed' \in Nat
  BY <1>1, <1>2, <1>6, TurnsExist DEF Fresh
<1> QED
  BY <1>8, <1>10, <1>11, <1>12, <1>13 DEF Placing

----------------------------------------------------------------------------
(* The rows of a group.                                                    *)

\* The lanes of a group, as far as their ancestry goes.
Lanelike(lanes) ==
    /\ lanes \in Seq(ToSet(lanes))
    /\ \A i \in DOMAIN lanes :
        IsSequence(lanes[i].points) /\ IsSequence(lanes[i].rewritten)

\* The commits a lane is drawn with, and whether an entry stands for one.
StandsFor(entry, lane) ==
    /\ entry.rewritten \in BOOLEAN
    /\ entry.position \in DOMAIN (IF entry.rewritten THEN lane.rewritten ELSE lane.points)

\* Reversing keeps the length, and an entry keeps its position.
LEMMA NumberedIs ==
  ASSUME NEW commits, IsSequence(commits), NEW moved \in BOOLEAN
  PROVE  /\ Len(commits) \in Nat
         /\ Numbered(commits, moved) = [i \in 1..Len(commits) |-> Numbered(commits, moved)[i]]
         /\ \A i \in 1..Len(commits) :
              /\ Numbered(commits, moved)[i].rewritten = moved
              /\ Numbered(commits, moved)[i].position \in DOMAIN commits
<1> DEFINE up == [i \in DOMAIN commits |->
                     [content |-> commits[i], rewritten |-> moved, position |-> i]]
           E == {up[i] : i \in DOMAIN commits}
           n == Len(commits)
<1>1. n \in Nat /\ DOMAIN commits = 1..n
  BY DEF IsSequence
<1>2. up \in Seq(E) /\ Len(up) = n
  <2>1. DOMAIN up = 1..n /\ \A i \in 1..n : up[i] \in E
    BY <1>1
  <2>2. up = [i \in 1..n |-> up[i]]
    BY <1>1
  <2> HIDE DEF up, E, n
  <2> QED
    BY <1>1, <2>1, <2>2
<1>3. Numbered(commits, moved) = [i \in 1..n |-> up[(n - i) + 1]]
  BY <1>2 DEF Numbered, Reverse
<1>4. ASSUME NEW i \in 1..n
      PROVE  /\ Numbered(commits, moved)[i].rewritten = moved
             /\ Numbered(commits, moved)[i].position \in DOMAIN commits
  <2>1. (n - i) + 1 \in 1..n
    BY <1>1
  <2>2. Numbered(commits, moved)[i] = up[(n - i) + 1]
    BY <1>3
  <2>3. \A k \in 1..n : up[k].rewritten = moved /\ up[k].position = k
    BY <1>1
  <2> HIDE DEF up
  <2> QED
    BY <1>1, <2>1, <2>2, <2>3
<1> QED
  BY <1>1, <1>3, <1>4

\* A function on a range of numbers is a sequence.
LEMMA SequenceFrom ==
  ASSUME NEW V, NEW n \in Nat, NEW s, DOMAIN s = 1..n, s = [k \in 1..n |-> s[k]],
         \A k \in 1..n : s[k] \in V
  PROVE  s \in Seq(V) /\ Len(s) = n
OBVIOUS

\* The contents of a lane are its points and its rewritten commits.
LEMMA ContentsIs ==
  ASSUME NEW lane, IsSequence(lane.points), IsSequence(lane.rewritten)
  PROVE  /\ Len(Contents(lane)) \in Nat
         /\ Contents(lane) = [i \in 1..Len(Contents(lane)) |-> Contents(lane)[i]]
         /\ \A i \in 1..Len(Contents(lane)) : StandsFor(Contents(lane)[i], lane)
<1> DEFINE a == Numbered(lane.rewritten, TRUE)
           b == Numbered(lane.points, FALSE)
           m == Len(lane.rewritten)
           n == Len(lane.points)
           E == {a[i] : i \in 1..m} \cup {b[i] : i \in 1..n}
<1>1. /\ m \in Nat /\ a = [i \in 1..m |-> a[i]]
      /\ \A i \in 1..m : a[i].rewritten = TRUE /\ a[i].position \in DOMAIN lane.rewritten
  <2>1. TRUE \in BOOLEAN
    OBVIOUS
  <2> QED
    BY <2>1, NumberedIs
<1>2. /\ n \in Nat /\ b = [i \in 1..n |-> b[i]]
      /\ \A i \in 1..n : b[i].rewritten = FALSE /\ b[i].position \in DOMAIN lane.points
  <2>1. FALSE \in BOOLEAN
    OBVIOUS
  <2> QED
    BY <2>1, NumberedIs
<1> HIDE DEF m, n, a, b
<1>3. a \in Seq(E) /\ Len(a) = m /\ b \in Seq(E) /\ Len(b) = n
  <2>1. \A i \in 1..m : a[i] \in E
    OBVIOUS
  <2>2. \A i \in 1..n : b[i] \in E
    OBVIOUS
  <2> HIDE DEF E
  <2>3. DOMAIN a = 1..m /\ DOMAIN b = 1..n
    BY <1>1, <1>2
  <2> QED
    BY <1>1, <1>2, <2>1, <2>2, <2>3, SequenceFrom
<1>4. Contents(lane) = a \o b
  BY DEF Contents, a, b
<1> DEFINE c == a \o b
<1>5. /\ Len(c) = m + n /\ c \in Seq(E)
      /\ \A i \in 1..(m + n) : c[i] = IF i <= m THEN a[i] ELSE b[i - m]
  <2> HIDE DEF E
  <2> QED BY <1>3
<1>b. \A i \in 1..(m + n) : c[i] = IF i <= m THEN a[i] ELSE b[i - m]
  BY <1>5
<1> HIDE DEF c
<1>6. ASSUME NEW i \in 1..(m + n) PROVE StandsFor(c[i], lane)
  <2>1. CASE i <= m
    <3>1. i \in 1..m /\ c[i] = a[i]
      <4>1. c[i] = IF i <= m THEN a[i] ELSE b[i - m]
        BY <1>b
      <4>2. i \in Int /\ 1 <= i
        BY <1>1, <1>2
      <4> QED
        BY <1>1, <2>1, <4>1, <4>2
    <3>2. c[i].rewritten = TRUE /\ c[i].position \in DOMAIN lane.rewritten
      BY <1>1, <3>1
    <3> QED
      BY <3>2 DEF StandsFor
  <2>2. CASE i > m
    <3>1. i - m \in 1..n /\ c[i] = b[i - m]
      <4>1. c[i] = b[i - m]
        BY <1>1, <1>b, <2>2
      <4> QED
        BY <1>1, <1>2, <2>2, <4>1
    <3>2. c[i].rewritten = FALSE /\ c[i].position \in DOMAIN lane.points
      BY <1>2, <3>1
    <3> QED
      BY <3>2 DEF StandsFor
  <2> QED
    BY <1>1, <1>2, <2>1, <2>2
<1>7. c = [i \in 1..Len(c) |-> c[i]] /\ Len(c) \in Nat
  BY <1>1, <1>2, <1>5
<1>8. Contents(lane) = c
  BY <1>4 DEF c
<1> QED
  BY <1>5, <1>6, <1>7, <1>8

\* The path of a lane, and the identities on the paths of a group.
Identities(lanes) ==
    UNION {{PathOf(lanes[i])[k] : k \in DOMAIN PathOf(lanes[i])} : i \in DOMAIN lanes}

\* The path of a lane has an identity for each of its contents.
LEMMA PathIs ==
  ASSUME NEW lanes, Lanelike(lanes), NEW i \in DOMAIN lanes
  PROVE  /\ PathOf(lanes[i]) \in Seq(Identities(lanes))
         /\ Len(PathOf(lanes[i])) = Len(Contents(lanes[i]))
<1> DEFINE lane == lanes[i]
           c == Contents(lane)
           p == PathOf(lane)
<1>1. Len(c) \in Nat /\ c = [k \in 1..Len(c) |-> c[k]]
  BY ContentsIs DEF Lanelike
<1>2. p = [k \in 1..Len(c) |-> Identity(c[k])]
  BY <1>1 DEF PathOf
<1>3. DOMAIN p = 1..Len(c) /\ p = [k \in 1..Len(c) |-> p[k]]
  BY <1>2
<1>4. \A k \in DOMAIN p : p[k] \in Identities(lanes)
  BY DEF Identities
<1> HIDE DEF p, c
<1>5. p \in Seq(Identities(lanes)) /\ Len(p) = Len(c)
  BY <1>1, <1>3, <1>4
<1> QED
  BY <1>5 DEF p, c

\* A prefix, element by element.
LEMMA PrefixIs ==
  ASSUME NEW X, NEW s \in Seq(X), NEW t \in Seq(X)
  PROVE  IsPrefix(s, t) <=> Len(s) <= Len(t) /\ \A k \in 1..Len(s) : s[k] = t[k]
<1>1. Len(s) \in Nat /\ Len(t) \in Nat
  OBVIOUS
<1>2. SubSeq(s, 1, Len(s)) = s
  OBVIOUS
<1>3. CASE Len(s) <= Len(t)
  <2>1. /\ DOMAIN SubSeq(t, 1, Len(s)) = 1..Len(s)
        /\ \A k \in 1..Len(s) : SubSeq(t, 1, Len(s))[k] = t[k]
    BY <1>1, <1>3
  <2>2. SubSeq(t, 1, Len(s)) = [k \in 1..Len(s) |-> t[k]]
    BY <1>1, <1>3
  <2>3. s = [k \in 1..Len(s) |-> s[k]]
    OBVIOUS
  <2>4. s = SubSeq(t, 1, Len(s)) <=> \A k \in 1..Len(s) : s[k] = t[k]
    BY <2>1, <2>2, <2>3
  <2> QED
    BY <1>2, <1>3, <2>4 DEF IsPrefix
<1> QED
  BY <1>1, <1>3 DEF IsPrefix

\* The rows of a group are its nodes.
LEMMA NodesAre ==
  ASSUME NEW lanes, Lanelike(lanes)
  PROVE  /\ Nodes(lanes) \subseteq Seq(Identities(lanes)) \ {<<>>}
         /\ \A n \in Nodes(lanes) : \E i \in DOMAIN lanes : IsPrefix(n, PathOf(lanes[i]))
         /\ IsFiniteSet(Nodes(lanes))
<1> DEFINE X == Identities(lanes)
           path(i) == PathOf(lanes[i])
<1>0. IsFiniteSet(DOMAIN lanes)
  <2>1. DOMAIN lanes = 1..Len(lanes) /\ Len(lanes) \in Nat
    BY DEF Lanelike
  <2> QED
    BY <2>1, FS_Interval
<1>1. ASSUME NEW i \in DOMAIN lanes PROVE path(i) \in Seq(X)
  BY PathIs
<1>2. ASSUME NEW n \in Nodes(lanes)
      PROVE  n \in Seq(X) /\ n # <<>> /\ \E i \in DOMAIN lanes : IsPrefix(n, path(i))
  <2>1. PICK i \in DOMAIN lanes : n \in Prefixes(path(i))
    BY DEF Nodes
  <2>2. path(i) \in Seq(X)
    BY <1>1
  <2> DEFINE p == path(i)
  <2>3. PICK l \in 0..Len(p) : n = SubSeq(p, 1, l)
    BY <2>1 DEF Prefixes
  <2> HIDE DEF p, X
  <2>4. p \in Seq(X)
    BY <2>2 DEF p
  <2>5. n \in Seq(X) /\ Len(n) = l /\ \A k \in 1..Len(n) : n[k] = p[k]
    BY <2>3, <2>4
  <2>6. IsPrefix(n, p)
    <3>1. Len(n) <= Len(p)
      BY <2>3, <2>4, <2>5
    <3>2. \A k \in 1..Len(n) : n[k] = p[k]
      BY <2>5
    <3> QED
      BY <2>4, <2>5, <3>1, <3>2, PrefixIs
  <2>7. n # <<>>
    BY DEF Nodes
  <2> QED
    BY <2>5, <2>6, <2>7 DEF p, X
<1>3. IsFiniteSet(Nodes(lanes))
  <2> DEFINE cut == [i \in DOMAIN lanes |-> Prefixes(path(i))]
             cuts == {cut[i] : i \in DOMAIN lanes}
  <2>1. IsFiniteSet(cuts)
    <3>1. DOMAIN cut = DOMAIN lanes
      OBVIOUS
    <3> HIDE DEF cut
    <3> QED
      BY <1>0, ImageIsFinite
  <2>2. ASSUME NEW i \in DOMAIN lanes PROVE IsFiniteSet(cut[i])
    <3> DEFINE p == path(i)
               to == [l \in 0..Len(p) |-> SubSeq(p, 1, l)]
    <3>1. Len(p) \in Nat
      BY <1>1
    <3>2. IsFiniteSet(0..Len(p))
      BY <3>1, FS_Interval
    <3>3. cut[i] = {to[l] : l \in 0..Len(p)}
      BY DEF Prefixes
    <3> HIDE DEF to, p, cut
    <3> QED
      BY <3>2, <3>3, ImageIsFinite
  <2>3. IsFiniteSet(UNION cuts)
    <3>1. \A T \in cuts : IsFiniteSet(T)
      <4> HIDE DEF cut
      <4> QED BY <2>2
    <3> HIDE DEF cuts
    <3> QED
      BY <2>1, <3>1, FS_UNION
  <2>4. Nodes(lanes) \in SUBSET UNION cuts
    BY DEF Nodes
  <2> HIDE DEF cuts
  <2> QED
    BY <2>3, <2>4, FS_Subset
<1> QED
  BY <1>2, <1>3

\* A group is lanes whose paths are sequences of identities.
Through(lanes, n) == {i \in DOMAIN lanes : IsPrefix(n, PathOf(lanes[i]))}

\* A place belongs to the first lane whose path goes through it.
LEMMA LaneOfIs ==
  ASSUME NEW lanes, Lanelike(lanes), NEW n, Through(lanes, n) # {}
  PROVE  /\ LaneOf(lanes, n) \in DOMAIN lanes /\ IsPrefix(n, PathOf(lanes[LaneOf(lanes, n)]))
         /\ \A i \in DOMAIN lanes : IsPrefix(n, PathOf(lanes[i])) => LaneOf(lanes, n) <= i
         /\ DOMAIN lanes \subseteq Nat
<1> DEFINE S == Through(lanes, n)
<1>1. DOMAIN lanes = 1..Len(lanes) /\ Len(lanes) \in Nat
  BY DEF Lanelike
<1>2. S \in SUBSET Int /\ S \in SUBSET (1..Len(lanes)) /\ S # {}
  BY <1>1 DEF Through
<1>3. IsFiniteSet(S)
  <2>1. IsFiniteSet(1..Len(lanes))
    BY <1>1, FS_Interval
  <2> HIDE DEF S
  <2> QED BY <1>2, <2>1, FS_Subset
<1>4. Min(S) \in S /\ \A y \in S : Min(S) <= y
  <2> HIDE DEF S
  <2> QED BY <1>2, <1>3, MinIs
<1>5. LaneOf(lanes, n) = Min(S)
  BY DEF LaneOf, Through
<1> QED
  BY <1>1, <1>4, <1>5 DEF Through

\* Every node has a lane.
LEMMA NodeLane ==
  ASSUME NEW lanes, Lanelike(lanes), NEW n \in Nodes(lanes)
  PROVE  /\ LaneOf(lanes, n) \in DOMAIN lanes /\ IsPrefix(n, PathOf(lanes[LaneOf(lanes, n)]))
         /\ \A i \in DOMAIN lanes : IsPrefix(n, PathOf(lanes[i])) => LaneOf(lanes, n) <= i
         /\ n \in Seq(Identities(lanes)) /\ Len(n) \in Nat /\ Len(n) > 0
<1>1. Through(lanes, n) # {}
  BY NodesAre DEF Through
<1>2. n \in Seq(Identities(lanes)) /\ n # <<>>
  BY NodesAre
<1>3. Len(n) \in Nat /\ Len(n) # 0
  BY <1>2
<1> QED
  BY <1>1, <1>2, <1>3, LaneOfIs

\* Prefixes of one sequence.
LEMMA PrefixFacts ==
  ASSUME NEW X
  PROVE  /\ \A s, t, u \in Seq(X) : IsPrefix(s, t) /\ IsPrefix(t, u) => IsPrefix(s, u)
         /\ \A s, t, u \in Seq(X) :
              IsPrefix(s, u) /\ IsPrefix(t, u) /\ Len(s) <= Len(t) => IsPrefix(s, t)
         /\ \A s, t \in Seq(X) : IsPrefix(s, t) /\ Len(t) <= Len(s) => s = t
         /\ \A s \in Seq(X) : IsPrefix(s, s) /\ IsPrefix(<<>>, s)
         /\ \A s, t \in Seq(X) : IsPrefix(s, t) => Len(s) <= Len(t)
<1>1. ASSUME NEW s \in Seq(X), NEW t \in Seq(X), NEW u \in Seq(X), IsPrefix(s, t), IsPrefix(t, u)
      PROVE  IsPrefix(s, u)
  <2>1. /\ Len(s) <= Len(t) /\ \A k \in 1..Len(s) : s[k] = t[k]
        /\ Len(t) <= Len(u) /\ \A k \in 1..Len(t) : t[k] = u[k]
    BY <1>1, PrefixIs
  <2>2. Len(s) \in Nat /\ Len(t) \in Nat /\ Len(u) \in Nat
    OBVIOUS
  <2>3. Len(s) <= Len(u) /\ \A k \in 1..Len(s) : s[k] = u[k]
    BY <2>1, <2>2
  <2> QED
    BY <2>3, PrefixIs
<1>2. ASSUME NEW s \in Seq(X), NEW t \in Seq(X), NEW u \in Seq(X), IsPrefix(s, u), IsPrefix(t, u),
             Len(s) <= Len(t)
      PROVE  IsPrefix(s, t)
  <2>1. /\ \A k \in 1..Len(s) : s[k] = u[k]
        /\ \A k \in 1..Len(t) : t[k] = u[k]
    BY <1>2, PrefixIs
  <2>2. Len(s) \in Nat /\ Len(t) \in Nat
    OBVIOUS
  <2>3. \A k \in 1..Len(s) : s[k] = t[k]
    BY <1>2, <2>1, <2>2
  <2> QED
    BY <1>2, <2>3, PrefixIs
<1>3. ASSUME NEW s \in Seq(X), NEW t \in Seq(X), IsPrefix(s, t), Len(t) <= Len(s)
      PROVE  s = t
  <2>1. Len(s) <= Len(t) /\ \A k \in 1..Len(s) : s[k] = t[k]
    BY <1>3, PrefixIs
  <2>2. Len(s) = Len(t) /\ Len(s) \in Nat
    BY <1>3, <2>1
  <2> QED
    BY <2>1, <2>2
<1>4. ASSUME NEW s \in Seq(X) PROVE IsPrefix(s, s) /\ IsPrefix(<<>>, s)
  <2>1. Len(s) \in Nat /\ <<>> \in Seq(X) /\ Len(<<>>) = 0
    OBVIOUS
  <2>2. IsPrefix(s, s)
    BY <2>1, PrefixIs
  <2>3. Len(<<>>) <= Len(s) /\ \A k \in 1..Len(<<>>) : <<>>[k] = s[k]
    BY <2>1
  <2>4. IsPrefix(<<>>, s)
    BY <2>1, <2>3, PrefixIs
  <2> QED
    BY <2>2, <2>4
<1>5. \A s, t \in Seq(X) : IsPrefix(s, t) => Len(s) <= Len(t)
  BY PrefixIs
<1> QED
  BY <1>1, <1>2, <1>3, <1>4, <1>5

\* The nodes of a group, and the base below them.
Places(lanes) == Nodes(lanes) \cup {<<>>}

\* The rows right above one.
Upper(lanes, node) == {n \in Nodes(lanes) : Len(n) = Len(node) + 1 /\ IsPrefix(node, n)}

\* They are put in order by their lanes, and none is left out.
LEMMA AboveIs ==
  ASSUME NEW lanes, Lanelike(lanes), NEW node \in Places(lanes)
  PROVE  /\ RowsAbove(lanes, node) \in Seq(Upper(lanes, node))
         /\ \A n \in Upper(lanes, node) :
              \E k \in DOMAIN RowsAbove(lanes, node) : RowsAbove(lanes, node)[k] = n
         /\ \A j, k \in DOMAIN RowsAbove(lanes, node) :
              j < k => LaneOf(lanes, RowsAbove(lanes, node)[j]) < LaneOf(lanes, RowsAbove(lanes, node)[k])
         /\ Len(RowsAbove(lanes, node)) = Cardinality(Upper(lanes, node))
<1> DEFINE S == Upper(lanes, node)
           R == {p \in S \X S : LaneOf(lanes, p[1]) < LaneOf(lanes, p[2])}
           q == RowsAbove(lanes, node)
<1>1. IsFiniteSet(S)
  <2>1. S \in SUBSET Nodes(lanes)
    BY DEF Upper
  <2> HIDE DEF S
  <2> QED
    BY <2>1, NodesAre, FS_Subset
<1>2. ASSUME NEW n \in S
      PROVE  /\ n \in Seq(Identities(lanes)) /\ Len(n) = Len(node) + 1 /\ Len(n) \in Nat
             /\ LaneOf(lanes, n) \in DOMAIN lanes /\ LaneOf(lanes, n) \in Nat
             /\ IsPrefix(n, PathOf(lanes[LaneOf(lanes, n)]))
  <2>1. n \in Nodes(lanes) /\ Len(n) = Len(node) + 1
    BY DEF Upper
  <2>2. DOMAIN lanes \subseteq Nat
    BY DEF Lanelike
  <2> QED
    BY <2>1, <2>2, NodeLane
<1>3. ASSUME NEW m \in S, NEW n \in S, LaneOf(lanes, m) = LaneOf(lanes, n) PROVE m = n
  <2> DEFINE X == Identities(lanes)
             p == PathOf(lanes[LaneOf(lanes, m)])
  <2>1. p \in Seq(X)
    BY <1>2, PathIs
  <2>2. m \in Seq(X) /\ n \in Seq(X) /\ Len(m) = Len(n) /\ IsPrefix(m, p) /\ IsPrefix(n, p) /\ Len(m) \in Nat
    BY <1>2, <1>3
  <2> HIDE DEF X, p
  <2>3. IsPrefix(m, n)
    BY <2>1, <2>2, PrefixFacts
  <2> QED
    BY <2>2, <2>3, PrefixFacts
<1>4. \A m, n \in S : <<m, n>> \in R <=> LaneOf(lanes, m) < LaneOf(lanes, n)
  OBVIOUS
<1>5. Orders(R, S)
  <2>1. \A n \in S : LaneOf(lanes, n) \in Int
    BY <1>2
  <2> HIDE DEF R, S
  <2>2. \A m, n \in S : m # n => LaneOf(lanes, m) < LaneOf(lanes, n) \/ LaneOf(lanes, n) < LaneOf(lanes, m)
    BY <1>3, <2>1
  <2>3. \A l, m, n \in S : LaneOf(lanes, l) < LaneOf(lanes, m) /\ LaneOf(lanes, m) < LaneOf(lanes, n)
                              => LaneOf(lanes, l) < LaneOf(lanes, n)
    BY <2>1
  <2>4. \A n \in S : ~(LaneOf(lanes, n) < LaneOf(lanes, n))
    BY <2>1
  <2> QED
    BY <1>4, <2>2, <2>3, <2>4 DEF Orders
<1>6. q = [i \in 1..Cardinality(S) |->
              CHOOSE x \in S : Cardinality({y \in S : LaneOf(lanes, y) < LaneOf(lanes, x)}) = i - 1]
  BY DEF RowsAbove, Sorted, Upper
<1>7. \A x \in S : Rank(R, S, x) = Cardinality({y \in S : LaneOf(lanes, y) < LaneOf(lanes, x)})
  <2>1. \A x \in S : {y \in S : <<y, x>> \in R} = {y \in S : LaneOf(lanes, y) < LaneOf(lanes, x)}
    OBVIOUS
  <2> HIDE DEF R, S
  <2> QED
    BY <2>1 DEF Rank
<1> HIDE DEF R, S, q
<1>8. ASSUME NEW i \in 1..Cardinality(S) PROVE q[i] \in S /\ Rank(R, S, q[i]) = i - 1
  <2>1. \E x \in S : Rank(R, S, x) = i - 1
    BY <1>1, <1>5, RankExists
  <2>2. \E x \in S : Cardinality({y \in S : LaneOf(lanes, y) < LaneOf(lanes, x)}) = i - 1
    BY <1>7, <2>1
  <2>3. q[i] = CHOOSE x \in S : Cardinality({y \in S : LaneOf(lanes, y) < LaneOf(lanes, x)}) = i - 1
    BY <1>6
  <2>4. q[i] \in S /\ Cardinality({y \in S : LaneOf(lanes, y) < LaneOf(lanes, q[i])}) = i - 1
    BY <2>2, <2>3
  <2> QED
    BY <1>7, <2>4
<1>9. SortedBy(q, R, S)
  <2> DEFINE e(i) == CHOOSE x \in S :
                        Cardinality({y \in S : LaneOf(lanes, y) < LaneOf(lanes, x)}) = i - 1
  <2>1. q = [i \in 1..Cardinality(S) |-> e(i)]
    BY <1>6
  <2> HIDE DEF e
  <2>2. DOMAIN q = 1..Cardinality(S) /\ q = [i \in 1..Cardinality(S) |-> q[i]]
    BY <2>1
  <2> QED
    BY <1>8, <2>2 DEF SortedBy
<1>10. /\ q \in Seq(S) /\ Len(q) = Cardinality(S)
       /\ \A x \in S : \E i \in DOMAIN q : q[i] = x
       /\ \A i, j \in DOMAIN q : i < j => <<q[i], q[j]>> \in R
  BY <1>1, <1>5, <1>9, SortedIs
<1>11. \A i \in DOMAIN q : q[i] \in S
  BY <1>10
<1>12. \A i, j \in DOMAIN q : i < j => LaneOf(lanes, q[i]) < LaneOf(lanes, q[j])
  BY <1>4, <1>10, <1>11
<1> QED
  BY <1>10, <1>12 DEF q, S

----------------------------------------------------------------------------
(* Sequences put one after the other.                                      *)

\* Where each element of a concatenation comes from: a sequence and a position
\* in it, in order, and nothing is left out.
Comes(at, flat, seqs, count) ==
    /\ DOMAIN at = DOMAIN flat
    /\ \A i \in DOMAIN flat :
        /\ at[i] = <<at[i][1], at[i][2]>>
        /\ at[i][1] \in 1..count /\ at[i][2] \in DOMAIN seqs[at[i][1]]
        /\ flat[i] = seqs[at[i][1]][at[i][2]]
    /\ \A i, j \in DOMAIN flat :
        i < j => at[i][1] < at[j][1] \/ (at[i][1] = at[j][1] /\ at[i][2] < at[j][2])
    /\ \A k \in 1..count : \A p \in DOMAIN seqs[k] : \E i \in DOMAIN flat : at[i] = <<k, p>>

\* One more sequence.
LEMMA ComesMore ==
  ASSUME NEW T, NEW seqs, NEW n \in Nat, seqs[n + 1] \in Seq(T), NEW flat \in Seq(T),
         NEW at, Comes(at, flat, seqs, n)
  PROVE  \E to : Comes(to, flat \o seqs[n + 1], seqs, n + 1)
<1> DEFINE s == seqs[n + 1]
           m == Len(flat)
           new == flat \o s
           to == [i \in 1..(m + Len(s)) |-> IF i <= m THEN at[i] ELSE <<n + 1, i - m>>]
<1>1. /\ m \in Nat /\ Len(s) \in Nat /\ DOMAIN flat = 1..m /\ DOMAIN s = 1..Len(s)
      /\ DOMAIN new = 1..(m + Len(s))
      /\ \A i \in 1..(m + Len(s)) : new[i] = IF i <= m THEN flat[i] ELSE s[i - m]
  OBVIOUS
<1> DEFINE all == 1..(m + Len(s))
<1>a. /\ all \subseteq Nat /\ DOMAIN to = all
      /\ \A i \in 1..m : i \in all /\ to[i] = at[i]
      /\ \A i \in all : i > m => to[i] = <<n + 1, i - m>> /\ i - m \in 1..Len(s)
  BY <1>1
<1>b. /\ \A i \in 1..m : new[i] = flat[i]
      /\ \A i \in all : i > m => new[i] = s[i - m]
      /\ \A i \in all : i <= m => i \in 1..m
      /\ DOMAIN new = all
  BY <1>1
<1>c. \A i \in 1..m :
        /\ at[i] = <<at[i][1], at[i][2]>>
        /\ at[i][1] \in 1..n /\ at[i][2] \in DOMAIN seqs[at[i][1]]
        /\ flat[i] = seqs[at[i][1]][at[i][2]]
  BY <1>1 DEF Comes
<1> HIDE DEF new, m, to, all
<1>2. ASSUME NEW i \in all
      PROVE  /\ to[i] = <<to[i][1], to[i][2]>>
             /\ to[i][1] \in 1..(n + 1) /\ to[i][2] \in DOMAIN seqs[to[i][1]]
             /\ new[i] = seqs[to[i][1]][to[i][2]]
  <2>1. CASE i <= m
    <3>1. i \in 1..m /\ to[i] = at[i] /\ new[i] = flat[i]
      BY <1>a, <1>b, <2>1
    <3>2. at[i][1] \in 1..(n + 1)
      BY <1>c, <3>1
    <3> QED
      BY <1>c, <3>1, <3>2
  <2>2. CASE i > m
    <3>1. to[i] = <<n + 1, i - m>> /\ i - m \in 1..Len(s) /\ new[i] = s[i - m]
      BY <1>a, <1>b, <2>2
    <3>2. to[i][1] = n + 1 /\ to[i][2] = i - m
      BY <3>1
    <3>3. n + 1 \in 1..(n + 1)
      OBVIOUS
    <3> QED
      BY <1>1, <3>1, <3>2, <3>3
  <2>3. i \in Nat /\ m \in Nat
    BY <1>1, <1>a
  <2> QED
    BY <2>1, <2>2, <2>3
<1>3. ASSUME NEW i \in all, NEW j \in all, i < j
      PROVE  to[i][1] < to[j][1] \/ (to[i][1] = to[j][1] /\ to[i][2] < to[j][2])
  <2>0. i \in Nat /\ j \in Nat /\ m \in Nat
    BY <1>1, <1>a
  <2>1. CASE j <= m
    <3>1. i \in 1..m /\ j \in 1..m
      BY <1>3, <1>b, <2>0, <2>1
    <3>2. to[i] = at[i] /\ to[j] = at[j]
      BY <1>a, <3>1
    <3>3. at[i][1] < at[j][1] \/ (at[i][1] = at[j][1] /\ at[i][2] < at[j][2])
      BY <1>1, <1>3, <3>1 DEF Comes
    <3> QED
      BY <3>2, <3>3
  <2>2. CASE i <= m /\ m < j
    <3>1. i \in 1..m /\ to[i] = at[i] /\ to[j] = <<n + 1, j - m>>
      BY <1>a, <1>b, <2>0, <2>2
    <3>2. to[j][1] = n + 1
      BY <3>1
    <3>3. at[i][1] \in 1..n
      BY <1>c, <3>1
    <3> QED
      BY <3>1, <3>2, <3>3
  <2>3. CASE m < i
    <3>1. to[i] = <<n + 1, i - m>> /\ to[j] = <<n + 1, j - m>>
      BY <1>3, <1>a, <2>0, <2>3
    <3>2. to[i][1] = to[j][1] /\ to[i][2] = i - m /\ to[j][2] = j - m
      BY <3>1
    <3> QED
      BY <1>3, <2>0, <3>2
  <2> QED
    BY <2>0, <2>1, <2>2, <2>3
<1>4. ASSUME NEW k \in 1..(n + 1), NEW p \in DOMAIN seqs[k]
      PROVE  \E i \in all : to[i] = <<k, p>>
  <2>1. CASE k <= n
    <3>1. k \in 1..n
      BY <2>1
    <3>2. PICK i \in 1..m : at[i] = <<k, p>>
      BY <1>1, <3>1 DEF Comes
    <3> QED
      BY <1>a, <3>2
  <2>2. CASE k = n + 1
    <3>1. p \in 1..Len(s)
      BY <1>1, <2>2
    <3> DEFINE i == m + p
    <3>2. i \in all /\ i > m /\ i - m = p
      BY <1>1, <3>1 DEF all
    <3> HIDE DEF i
    <3>3. to[i] = <<k, p>>
      BY <1>a, <2>2, <3>2
    <3> QED
      BY <3>2, <3>3
  <2> QED
    BY <2>1, <2>2
<1>7. Comes(to, new, seqs, n + 1)
  BY <1>2, <1>3, <1>4, <1>a, <1>b DEF Comes
<1> QED
  BY <1>7 DEF new

\* What FlattenSeq gives.
LEMMA FlattenIs ==
  ASSUME NEW T, NEW seqs \in Seq(Seq(T))
  PROVE  /\ FlattenSeq(seqs) \in Seq(T)
         /\ \E at : Comes(at, FlattenSeq(seqs), seqs, Len(seqs))
<1> DEFINE n == Len(seqs)
<1>1. n \in Nat /\ DOMAIN seqs = 1..n /\ \A i \in 1..n : seqs[i] \in Seq(T)
  OBVIOUS
<1>2. CASE n = 0
  <2>1. FlattenSeq(seqs) = <<>> /\ seqs = <<>>
    BY <1>2 DEF FlattenSeq
  <2>2. Comes(<<>>, <<>>, seqs, n)
    <3>1. DOMAIN <<>> = {} /\ 1..n = {}
      BY <1>2
    <3> QED
      BY <3>1 DEF Comes
  <2> QED
    BY <2>1, <2>2
<1>3. CASE n # 0
  <2> DEFINE D == 1..n
             V == Seq(T)
             rank == [i \in D |-> i]
             Value(i, f) == IF i = 1 THEN seqs[i] ELSE f[i - 1] \o seqs[i]
             F == [x \in D \X [D -> V] |-> Value(x[1], x[2])]
             Is(f) == f = [i \in D |-> IF i = 1 THEN seqs[i] ELSE f[i - 1] \o seqs[i]]
             flatten == CHOOSE f : Is(f)
  <2>1. rank \in [D -> Nat] /\ \A i \in D : rank[i] < n + 1
    BY <1>1
  <2>2. \A i \in D, f \in [D -> V] : F[<<i, f>>] = Value(i, f)
    <3> HIDE DEF Value
    <3> QED OBVIOUS
  <2>3. F \in [D \X [D -> V] -> V]
    <3>1. ASSUME NEW i \in D, NEW f \in [D -> V] PROVE Value(i, f) \in V
      <4>1. CASE i = 1
        BY <1>1, <4>1
      <4>2. CASE i # 1
        <5>1. i - 1 \in D
          BY <1>1, <4>2
        <5>2. f[i - 1] \in Seq(T) /\ seqs[i] \in Seq(T)
          BY <1>1, <5>1
        <5> QED
          BY <4>2, <5>2
      <4> QED
        BY <4>1, <4>2
    <3> HIDE DEF Value, V
    <3> QED
      BY <3>1
  <2>4. ASSUME NEW i \in D, NEW f \in [D -> V], NEW g \in [D -> V],
               \A j \in D : rank[j] < rank[i] => f[j] = g[j]
        PROVE  F[<<i, f>>] = F[<<i, g>>]
    <3>1. Value(i, f) = Value(i, g)
      <4>1. CASE i = 1
        BY <4>1
      <4>2. CASE i # 1
        <5>1. i - 1 \in D /\ rank[i - 1] < rank[i]
          BY <1>1, <4>2
        <5>2. f[i - 1] = g[i - 1]
          <6> HIDE DEF rank
          <6> QED BY <2>4, <5>1
        <5> QED
          BY <4>2, <5>2
      <4> QED
        BY <4>1, <4>2
    <3> HIDE DEF F, Value
    <3> QED
      BY <2>2, <3>1
  <2>5. PICK f \in [D -> V] : \A i \in D : f[i] = F[<<i, f>>]
    <3>1. Recursion(D, V, F, rank)
      <4>1. <<>> \in V
        OBVIOUS
      <4>2. n + 1 \in Nat
        BY <1>1
      <4> HIDE DEF D, V, F, rank, n
      <4> QED
        BY <2>1, <2>3, <2>4, <4>1, <4>2 DEF Recursion
    <3>2. Solvable(D, V, F)
      <4> HIDE DEF D, V, F, rank
      <4> QED
        BY <3>1, SolvedByRank
    <3> QED
      BY <3>2 DEF Solvable
  <2>6. Is(f)
    <3>1. \A i \in D : f[i] = Value(i, f)
      <4> HIDE DEF F, Value, D
      <4> QED BY <2>2, <2>5
    <3> QED
      BY <3>1
  <2>7. Is(flatten)
    <3> HIDE DEF Is
    <3> QED BY <2>6
  <2>8. FlattenSeq(seqs) = flatten[n]
    BY <1>3 DEF FlattenSeq
  <2>9. \A i \in D : flatten[i] = IF i = 1 THEN seqs[i] ELSE flatten[i - 1] \o seqs[i]
    <3> HIDE DEF flatten
    <3> QED BY <2>7
  <2> HIDE DEF flatten
  <2> DEFINE Good(i) == flatten[i] \in Seq(T) /\ \E at : Comes(at, flatten[i], seqs, i)
             bad == {i \in 1..n : ~Good(i)}
  <2>10. bad = {}
    <3> SUFFICES ASSUME bad # {} PROVE FALSE
      OBVIOUS
    <3>1. bad \in SUBSET Nat
      BY <1>1
    <3>2. PICK i \in bad : \A j \in bad : i <= j
      <4> HIDE DEF bad
      <4> QED BY <3>1, LeastNatural
    <3>3. i \in 1..n /\ ~Good(i)
      BY <3>2
    <3>4. i # 1
      <4> SUFFICES ASSUME i = 1 PROVE Good(1)
        BY <3>3
      <4>1. flatten[1] = seqs[1] /\ seqs[1] \in Seq(T)
        BY <1>1, <1>3, <2>9
      <4> DEFINE at == [p \in DOMAIN seqs[1] |-> <<1, p>>]
      <4>2. Comes(at, seqs[1], seqs, 1)
        <5>1. \A p \in DOMAIN seqs[1] : at[p] = <<1, p>> /\ at[p][1] = 1 /\ at[p][2] = p
          OBVIOUS
        <5>2. DOMAIN at = DOMAIN seqs[1] /\ \A k \in 1..1 : k = 1
          OBVIOUS
        <5>3. \A p \in DOMAIN seqs[1] : at[p] = <<at[p][1], at[p][2]>>
          OBVIOUS
        <5> HIDE DEF at
        <5>4. \A p \in DOMAIN seqs[1] : \E e \in DOMAIN seqs[1] : at[e] = <<1, p>>
          BY <5>1
        <5>5. \A p \in DOMAIN seqs[1] : at[p][1] \in 1..1 /\ at[p][2] \in DOMAIN seqs[at[p][1]]
          BY <5>1
        <5>6. \A k \in 1..1 : \A p \in DOMAIN seqs[k] : \E e \in DOMAIN seqs[1] : at[e] = <<k, p>>
          BY <5>2, <5>4
        <5> QED
          BY <5>1, <5>2, <5>3, <5>5, <5>6 DEF Comes
      <4> QED
        BY <4>1, <4>2
    <3> DEFINE h == i - 1
    <3>5. h \in 1..n /\ h \in Nat /\ i = h + 1 /\ h \notin bad
      <4>1. h \in 1..n /\ h \in Nat /\ i = h + 1 /\ ~(i <= h)
        BY <1>1, <3>3, <3>4
      <4> HIDE DEF bad, h
      <4> QED
        BY <3>2, <4>1
    <3>6. Good(h)
      BY <3>5
    <3>7. flatten[i] = flatten[h] \o seqs[i] /\ seqs[i] \in Seq(T)
      BY <1>1, <2>9, <3>3, <3>4
    <3> HIDE DEF h
    <3>8. flatten[i] \in Seq(T)
      BY <3>6, <3>7
    <3>9. \E at : Comes(at, flatten[i], seqs, i)
      BY <3>5, <3>6, <3>7, ComesMore
    <3> QED
      BY <3>3, <3>8, <3>9
  <2>11. n \in 1..n
    BY <1>1, <1>3
  <2>12. Good(n)
    <3> HIDE DEF Good
    <3> QED BY <2>10, <2>11
  <2> QED
    BY <2>8, <2>12
<1> QED
  BY <1>2, <1>3

----------------------------------------------------------------------------
(* The order of the rows.                                                  *)

\* The rows above a place, each once and after the rows above it, those above one
\* row together.
Traverses(q, lanes, node) ==
    /\ q \in Seq(Nodes(lanes))
    /\ \A i \in DOMAIN q : IsPrefix(node, q[i])
    /\ \A m \in Nodes(lanes) : IsPrefix(node, m) => \E i \in DOMAIN q : q[i] = m
    /\ \A i, j \in DOMAIN q : i < j => ~IsPrefix(q[i], q[j])
    /\ \A i, j, k \in DOMAIN q : i < j /\ j < k /\ IsPrefix(q[k], q[i]) => IsPrefix(q[k], q[j])

\* The row right above a place on the way to a node above it.
LEMMA StepUp ==
  ASSUME NEW lanes, Lanelike(lanes), NEW node \in Places(lanes), NEW m \in Nodes(lanes),
         IsPrefix(node, m), Len(m) > Len(node)
  PROVE  \E a \in Upper(lanes, node) : IsPrefix(a, m)
<1> DEFINE X == Identities(lanes)
<1>0. /\ node \in Seq(X) /\ Len(node) \in Nat
      /\ \A n \in Nodes(lanes) : n \in Seq(X) /\ Len(n) \in Nat
  <2>1. \A n \in Nodes(lanes) : n \in Seq(X)
    BY NodesAre
  <2>2. <<>> \in Seq(X)
    OBVIOUS
  <2> HIDE DEF X
  <2>3. node \in Seq(X)
    BY <2>1, <2>2 DEF Places
  <2>4. \A n \in Seq(X) : Len(n) \in Nat
    OBVIOUS
  <2> QED
    BY <2>1, <2>3, <2>4
<1> DEFINE l == Len(node) + 1
           a == SubSeq(m, 1, l)
<1>1. m \in Seq(X) /\ l \in 1..Len(m) /\ Len(m) \in Nat
  BY <1>0
<1>2. a \in Seq(X) /\ Len(a) = l /\ \A k \in 1..l : a[k] = m[k]
  <2> HIDE DEF X, l
  <2> QED BY <1>1
<1>3. IsPrefix(a, m)
  <2>1. Len(a) <= Len(m)
    BY <1>1, <1>2
  <2> HIDE DEF a, X
  <2> QED BY <1>1, <1>2, <2>1, PrefixIs
<1>4. PICK lane \in DOMAIN lanes : IsPrefix(m, PathOf(lanes[lane]))
  BY NodesAre
<1> DEFINE p == PathOf(lanes[lane])
<1>5. p \in Seq(X) /\ IsPrefix(a, p)
  <2>1. p \in Seq(X)
    BY PathIs
  <2> HIDE DEF a, X, p
  <2>2. IsPrefix(m, p)
    BY <1>4 DEF p
  <2> QED
    BY <1>1, <1>2, <1>3, <2>1, <2>2, PrefixFacts
<1>6. a \in Prefixes(p)
  <2>1. l \in 0..Len(p)
    <3>1. Len(a) <= Len(p) /\ Len(p) \in Nat
      <4> HIDE DEF a, p, X
      <4> QED BY <1>2, <1>5, PrefixFacts
    <3> HIDE DEF a, p
    <3> QED
      BY <1>1, <1>2, <3>1
  <2>2. a = SubSeq(p, 1, l)
    <3>1. SubSeq(a, 1, Len(a)) = SubSeq(p, 1, Len(a))
      BY <1>5 DEF IsPrefix
    <3>2. SubSeq(a, 1, Len(a)) = a
      <4> HIDE DEF a, X
      <4> QED BY <1>2
    <3> HIDE DEF a, p
    <3> QED
      BY <1>2, <3>1, <3>2
  <2> QED
    BY <2>1, <2>2 DEF Prefixes
<1>7. a # <<>>
  <2> HIDE DEF a
  <2> QED BY <1>1, <1>2
<1>8. a \in Nodes(lanes)
  <2> HIDE DEF a
  <2> QED BY <1>6, <1>7 DEF Nodes
<1>9. IsPrefix(node, a)
  <2> HIDE DEF a, X
  <2>1. Len(node) <= Len(a)
    BY <1>0, <1>2
  <2> QED
    BY <1>0, <1>1, <1>2, <1>3, <2>1, PrefixFacts
<1>10. a \in Upper(lanes, node)
  <2> HIDE DEF a
  <2> QED BY <1>2, <1>8, <1>9 DEF Upper
<1> HIDE DEF a
<1> QED
  BY <1>3, <1>10

\* The rows of the rows above a place, one after the other.
LEMMA JoinedTraversals ==
  ASSUME NEW lanes, Lanelike(lanes), NEW node \in Places(lanes),
         NEW above, above = RowsAbove(lanes, node),
         NEW qs, \A k \in DOMAIN above : Traverses(qs[k], lanes, above[k]),
         NEW path \in Seq(Nodes(lanes)), NEW at, Comes(at, path, qs, Len(above))
  PROVE  /\ \A i \in DOMAIN path : IsPrefix(node, path[i]) /\ Len(path[i]) > Len(node)
         /\ \A m \in Nodes(lanes) :
              IsPrefix(node, m) /\ Len(m) > Len(node) => \E i \in DOMAIN path : path[i] = m
         /\ \A i, j \in DOMAIN path : i < j => ~IsPrefix(path[i], path[j])
         /\ \A i, j, k \in DOMAIN path :
              i < j /\ j < k /\ IsPrefix(path[k], path[i]) => IsPrefix(path[k], path[j])
<1> DEFINE X == Identities(lanes)
           count == Len(above)
<1>0. DOMAIN path \subseteq Nat
  OBVIOUS
<1>1. /\ node \in Seq(X) /\ Len(node) \in Nat
      /\ \A n \in Nodes(lanes) : n \in Seq(X) /\ Len(n) \in Nat
  <2>1. \A n \in Nodes(lanes) : n \in Seq(X)
    BY NodesAre
  <2>2. <<>> \in Seq(X)
    OBVIOUS
  <2> HIDE DEF X
  <2>3. node \in Seq(X)
    BY <2>1, <2>2 DEF Places
  <2>4. \A n \in Seq(X) : Len(n) \in Nat
    OBVIOUS
  <2> QED
    BY <2>1, <2>3, <2>4
<1>2. /\ count \in Nat /\ DOMAIN above = 1..count
      /\ \A k \in 1..count : above[k] \in Nodes(lanes) /\ Len(above[k]) = Len(node) + 1
                             /\ IsPrefix(node, above[k])
      /\ \A n \in Upper(lanes, node) : \E k \in 1..count : above[k] = n
      /\ \A j, k \in 1..count : above[j] = above[k] => j = k
  <2>1. above \in Seq(Upper(lanes, node))
    BY AboveIs
  <2>2. count \in Nat /\ DOMAIN above = 1..count /\ \A k \in 1..count : above[k] \in Upper(lanes, node)
    BY <2>1
  <2>3. \A j, k \in 1..count : j < k => LaneOf(lanes, above[j]) < LaneOf(lanes, above[k])
    BY <2>2, AboveIs
  <2>4. \A n \in Upper(lanes, node) : \E k \in 1..count : above[k] = n
    BY <2>2, AboveIs
  <2>5. ASSUME NEW j \in 1..count, NEW k \in 1..count, above[j] = above[k] PROVE j = k
    <3>1. LaneOf(lanes, above[j]) \in Nat
      <4>1. above[j] \in Nodes(lanes)
        BY <2>2 DEF Upper
      <4>2. LaneOf(lanes, above[j]) \in DOMAIN lanes /\ DOMAIN lanes \subseteq Nat
        BY <4>1, NodeLane DEF Lanelike
      <4> QED
        BY <4>2
    <3>2. ~(j < k) /\ ~(k < j)
      BY <2>3, <2>5, <3>1
    <3> QED
      BY <2>2, <3>2
  <2> HIDE DEF count
  <2> QED
    BY <2>2, <2>4, <2>5 DEF Upper
<1>3. ASSUME NEW i \in DOMAIN path
      PROVE  /\ at[i] = <<at[i][1], at[i][2]>>
             /\ at[i][1] \in 1..count /\ at[i][2] \in DOMAIN qs[at[i][1]]
             /\ path[i] = qs[at[i][1]][at[i][2]]
             /\ above[at[i][1]] \in Nodes(lanes) /\ Len(above[at[i][1]]) = Len(node) + 1
             /\ IsPrefix(node, above[at[i][1]])
             /\ Traverses(qs[at[i][1]], lanes, above[at[i][1]])
             /\ IsPrefix(above[at[i][1]], path[i])
             /\ path[i] \in Nodes(lanes)
  <2>1. /\ at[i] = <<at[i][1], at[i][2]>>
        /\ at[i][1] \in 1..count /\ at[i][2] \in DOMAIN qs[at[i][1]]
        /\ path[i] = qs[at[i][1]][at[i][2]]
    BY DEF Comes
  <2> DEFINE k == at[i][1]
  <2>2. k \in 1..count
    BY <2>1
  <2> HIDE DEF k
  <2>3. /\ above[k] \in Nodes(lanes) /\ Len(above[k]) = Len(node) + 1 /\ IsPrefix(node, above[k])
        /\ Traverses(qs[k], lanes, above[k])
    BY <1>2, <2>2
  <2>4. IsPrefix(above[k], path[i])
    BY <2>1, <2>3 DEF Traverses, k
  <2>5. path[i] \in Nodes(lanes)
    OBVIOUS
  <2> QED
    BY <2>1, <2>3, <2>4, <2>5 DEF k
<1>4. ASSUME NEW i \in DOMAIN path PROVE IsPrefix(node, path[i]) /\ Len(path[i]) > Len(node)
  <2> DEFINE a == above[at[i][1]]
  <2>1. /\ a \in Seq(X) /\ Len(a) = Len(node) + 1 /\ IsPrefix(node, a) /\ IsPrefix(a, path[i])
        /\ path[i] \in Seq(X)
    BY <1>1, <1>3
  <2> HIDE DEF a, X
  <2>2. IsPrefix(node, path[i]) /\ Len(a) <= Len(path[i])
    BY <1>1, <2>1, PrefixFacts
  <2>3. Len(path[i]) \in Nat
    BY <2>1
  <2> QED
    BY <1>1, <2>1, <2>2, <2>3
\* Which of the rows above the place a node belongs to.
<1>5. ASSUME NEW n \in Nodes(lanes), NEW j \in 1..count, NEW k \in 1..count,
             IsPrefix(above[j], n), IsPrefix(above[k], n)
      PROVE  j = k
  <2>1. above[j] \in Seq(X) /\ above[k] \in Seq(X) /\ Len(above[j]) = Len(above[k]) /\ n \in Seq(X)
    BY <1>1, <1>2
  <2>2. Len(above[j]) \in Nat
    BY <1>1, <1>2
  <2> HIDE DEF X
  <2>3. IsPrefix(above[j], above[k])
    BY <1>5, <2>1, <2>2, PrefixFacts
  <2>4. above[j] = above[k]
    BY <2>1, <2>2, <2>3, PrefixFacts
  <2> QED
    BY <1>2, <2>4
<1>6. ASSUME NEW m \in Nodes(lanes), IsPrefix(node, m), Len(m) > Len(node)
      PROVE  \E i \in DOMAIN path : path[i] = m
  <2>11. PICK k \in 1..count : IsPrefix(above[k], m)
    <3>1. PICK a \in Upper(lanes, node) : IsPrefix(a, m)
      BY <1>6, StepUp
    <3> QED
      BY <1>2, <3>1
  <2>12. PICK r \in DOMAIN qs[k] : qs[k][r] = m
    BY <1>2, <2>11 DEF Traverses
  <2>13. PICK i \in DOMAIN path : at[i] = <<k, r>>
    BY <2>12 DEF Comes
  <2>14. path[i] = m
    BY <1>3, <2>12, <2>13
  <2> QED
    BY <2>14
<1>7. ASSUME NEW i \in DOMAIN path, NEW j \in DOMAIN path, i < j PROVE ~IsPrefix(path[i], path[j])
  <2> SUFFICES ASSUME IsPrefix(path[i], path[j]) PROVE FALSE
    OBVIOUS
  <2>1. at[i][1] = at[j][1]
    <3>1. IsPrefix(above[at[i][1]], path[j])
      <4>1. /\ above[at[i][1]] \in Seq(X) /\ path[i] \in Seq(X) /\ path[j] \in Seq(X)
            /\ IsPrefix(above[at[i][1]], path[i])
        BY <1>1, <1>3
      <4> HIDE DEF X
      <4> QED
        BY <4>1, PrefixFacts
    <3> QED
      BY <1>3, <1>5, <3>1
  <2>2. at[i][2] < at[j][2]
    <3>1. at[i][1] < at[j][1] \/ (at[i][1] = at[j][1] /\ at[i][2] < at[j][2])
      BY <1>7 DEF Comes
    <3>2. at[i][1] \in 1..count
      BY <1>3
    <3> QED
      BY <1>2, <2>1, <3>1, <3>2
  <2> DEFINE k == at[i][1]
  <2>3. /\ at[i][2] \in DOMAIN qs[k] /\ at[j][2] \in DOMAIN qs[k]
        /\ path[i] = qs[k][at[i][2]] /\ path[j] = qs[k][at[j][2]]
        /\ Traverses(qs[k], lanes, above[k])
    BY <1>3, <2>1
  <2> HIDE DEF k
  <2> QED
    BY <2>2, <2>3 DEF Traverses
<1>8. ASSUME NEW i \in DOMAIN path, NEW j \in DOMAIN path, NEW k \in DOMAIN path,
             i < j, j < k, IsPrefix(path[k], path[i])
      PROVE  IsPrefix(path[k], path[j])
  <2> DEFINE b == at[k][1]
  <2>1. at[i][1] = b
    <3>1. IsPrefix(above[at[k][1]], path[i])
      <4>1. /\ above[at[k][1]] \in Seq(X) /\ path[i] \in Seq(X) /\ path[k] \in Seq(X)
            /\ IsPrefix(above[at[k][1]], path[k])
        BY <1>1, <1>3
      <4> HIDE DEF X
      <4> QED
        BY <1>8, <4>1, PrefixFacts
    <3> QED
      BY <1>3, <1>5, <3>1
  <2>2. /\ at[i][1] < at[j][1] \/ (at[i][1] = at[j][1] /\ at[i][2] < at[j][2])
        /\ at[j][1] < at[k][1] \/ (at[j][1] = at[k][1] /\ at[j][2] < at[k][2])
    BY <1>8 DEF Comes
  <2>3. at[i][1] \in Int /\ at[j][1] \in Int /\ at[k][1] \in Int
    BY <1>3
  <2>4. at[j][1] = b /\ at[i][2] < at[j][2] /\ at[j][2] < at[k][2]
    BY <2>1, <2>2, <2>3
  <2>5. /\ at[i][2] \in DOMAIN qs[b] /\ at[j][2] \in DOMAIN qs[b] /\ at[k][2] \in DOMAIN qs[b]
        /\ path[i] = qs[b][at[i][2]] /\ path[j] = qs[b][at[j][2]] /\ path[k] = qs[b][at[k][2]]
        /\ Traverses(qs[b], lanes, above[b])
    <3>1. /\ at[i][2] \in DOMAIN qs[b] /\ path[i] = qs[b][at[i][2]]
      BY <1>3, <2>1
    <3>2. /\ at[j][2] \in DOMAIN qs[b] /\ path[j] = qs[b][at[j][2]]
      BY <1>3, <2>4
    <3>3. /\ at[k][2] \in DOMAIN qs[b] /\ path[k] = qs[b][at[k][2]] /\ Traverses(qs[b], lanes, above[b])
      BY <1>3
    <3> QED
      BY <3>1, <3>2, <3>3
  <2> HIDE DEF b
  <2> QED
    BY <1>8, <2>4, <2>5 DEF Traverses
<1> QED
  BY <1>4, <1>6, <1>7, <1>8

\* The rows of the nodes of a group.
RowSet(lanes) == {Row(lanes, n) : n \in Nodes(lanes)}

\* The rows of some places.
RowsOfPath(lanes, q) == [i \in DOMAIN q |-> Row(lanes, q[i])]

\* The recursion of shared_ancestry.
Ordered(lanes, upTo) ==
    upTo = [node \in Nodes(lanes) \cup {<<>>} |->
              FlattenSeq([k \in DOMAIN RowsAbove(lanes, node) |-> upTo[RowsAbove(lanes, node)[k]]])
              \o IF node = <<>> THEN <<>> ELSE <<Row(lanes, node)>>]

\* No node is longer than some length.
LEMMA NodesBounded ==
  ASSUME NEW lanes, Lanelike(lanes)
  PROVE  \E bound \in Nat : \A node \in Places(lanes) : Len(node) \in Nat /\ Len(node) <= bound
<1> DEFINE N == Nodes(lanes)
           long == [n \in N |-> Len(n)]
           lengths == {long[n] : n \in N} \cup {0}
<1>1. \A n \in N : Len(n) \in Nat
  BY NodeLane
<1>2. IsFiniteSet({long[n] : n \in N})
  <2>1. IsFiniteSet(N)
    BY NodesAre
  <2> HIDE DEF long, N
  <2> QED
    BY <2>1, ImageIsFinite
<1>3. IsFiniteSet(lengths) /\ lengths # {}
  <2> HIDE DEF long, N
  <2> QED
    BY <1>2, FS_AddElement
<1>4. lengths \in SUBSET Int /\ lengths \subseteq Nat
  BY <1>1
<1>5. \A n \in N : Len(n) \in lengths
  OBVIOUS
<1> HIDE DEF lengths, N
<1>6. Max(lengths) \in lengths /\ \A l \in lengths : Max(lengths) >= l
  BY <1>3, <1>4, MaxIs
<1>7. Max(lengths) \in Nat
  BY <1>4, <1>6
<1>8. \A n \in N : Len(n) \in Nat /\ Len(n) <= Max(lengths)
  BY <1>1, <1>5, <1>6, <1>7
<1>9. Len(<<>>) = 0
  OBVIOUS
<1> QED
  BY <1>7, <1>8, <1>9 DEF Places, N

\* The recursion has a solution, and SharedAncestry takes one.
LEMMA AncestrySolved ==
  ASSUME NEW lanes, Lanelike(lanes)
  PROVE  \E upTo \in [Places(lanes) -> Seq(RowSet(lanes))] :
           Ordered(lanes, upTo) /\ SharedAncestry(lanes).rows = upTo[<<>>]
<1> DEFINE D == Places(lanes)
           T == RowSet(lanes)
           V == Seq(T)
<1>b. PICK bound \in Nat : \A node \in D : Len(node) \in Nat /\ Len(node) <= bound
  BY NodesBounded
<1> DEFINE rank == [node \in D |-> bound - Len(node)]
           Beneath(node, f) ==
               FlattenSeq([k \in DOMAIN RowsAbove(lanes, node) |-> f[RowsAbove(lanes, node)[k]]])
           Own(node) == IF node = <<>> THEN <<>> ELSE <<Row(lanes, node)>>
           Value(node, f) == Beneath(node, f) \o Own(node)
           F == [x \in D \X [D -> V] |-> Value(x[1], x[2])]
           chosen == CHOOSE f : Ordered(lanes, f)
<1>1. ASSUME NEW node \in D
      PROVE  /\ RowsAbove(lanes, node) \in Seq(Upper(lanes, node))
             /\ \A k \in DOMAIN RowsAbove(lanes, node) :
                  RowsAbove(lanes, node)[k] \in D /\ rank[RowsAbove(lanes, node)[k]] < rank[node]
  <2> DEFINE above == RowsAbove(lanes, node)
  <2>1. above \in Seq(Upper(lanes, node))
    BY AboveIs
  <2>2. \A k \in DOMAIN above : above[k] \in Upper(lanes, node)
    <3> HIDE DEF above
    <3> QED BY <2>1
  <2>3. \A k \in DOMAIN above : above[k] \in D /\ Len(above[k]) = Len(node) + 1
    BY <2>2 DEF Upper, Places
  <2> HIDE DEF above
  <2>4. ASSUME NEW k \in DOMAIN above PROVE rank[above[k]] < rank[node]
    <3>1. above[k] \in D /\ Len(above[k]) = Len(node) + 1 /\ Len(node) \in Nat
      BY <1>b, <2>3
    <3> QED
      BY <3>1
  <2> QED
    BY <2>1, <2>3, <2>4 DEF above
<1>2. rank \in [D -> Nat] /\ \A node \in D : rank[node] < bound + 1
  BY <1>b
<1>3. ASSUME NEW node \in D, NEW f \in [D -> V]
      PROVE  Value(node, f) \in V
  <2> DEFINE above == RowsAbove(lanes, node)
             seqs == [k \in DOMAIN above |-> f[above[k]]]
  <2>1. above \in Seq(Upper(lanes, node)) /\ \A k \in DOMAIN above : above[k] \in D
    BY <1>1
  <2>2. seqs \in Seq(Seq(T))
    <3>1. Len(above) \in Nat /\ DOMAIN above = 1..Len(above)
      <4> HIDE DEF above
      <4> QED BY <2>1
    <3>2. \A k \in 1..Len(above) : f[above[k]] \in Seq(T)
      <4> HIDE DEF above
      <4> QED BY <2>1, <3>1
    <3> HIDE DEF above, V, D, T
    <3> QED
      BY <3>1, <3>2
  <2>3. Beneath(node, f) \in Seq(T)
    <3> HIDE DEF T, seqs
    <3>1. FlattenSeq(seqs) \in Seq(T)
      BY <2>2, FlattenIs
    <3> QED
      BY <3>1 DEF seqs
  <2>4. Own(node) \in Seq(T)
    <3>1. CASE node = <<>>
      <4>1. Own(node) = <<>>
        BY <3>1
      <4> HIDE DEF Own, T
      <4> QED
        BY <4>1
    <3>2. CASE node # <<>>
      <4>1. Row(lanes, node) \in T
        BY <3>2 DEF RowSet, Places
      <4>2. Own(node) = <<Row(lanes, node)>>
        BY <3>2
      <4> HIDE DEF Own, T
      <4> QED
        BY <4>1, <4>2
    <3> QED
      BY <3>1, <3>2
  <2> HIDE DEF Beneath, Own, T
  <2> QED
    BY <2>3, <2>4
<1>4. ASSUME NEW node \in D, NEW f \in [D -> V], NEW g \in [D -> V],
             \A e \in D : rank[e] < rank[node] => f[e] = g[e]
      PROVE  Value(node, f) = Value(node, g)
  <2> DEFINE above == RowsAbove(lanes, node)
  <2>1. \A k \in DOMAIN above : above[k] \in D /\ rank[above[k]] < rank[node]
    BY <1>1
  <2>2. \A k \in DOMAIN above : f[above[k]] = g[above[k]]
    <3> HIDE DEF above, rank, D, V
    <3> QED BY <1>4, <2>1
  <2>3. [k \in DOMAIN above |-> f[above[k]]] = [k \in DOMAIN above |-> g[above[k]]]
    <3> HIDE DEF above
    <3> QED BY <2>2
  <2>4. Beneath(node, f) = Beneath(node, g)
    BY <2>3
  <2> HIDE DEF Beneath, Own
  <2> QED
    BY <2>4
<1>5. \A node \in D, f \in [D -> V] : F[<<node, f>>] = Value(node, f)
  <2> HIDE DEF Value, D, V
  <2> QED OBVIOUS
<1>6. F \in [D \X [D -> V] -> V]
  <2> HIDE DEF Value, D, V
  <2> QED BY <1>3
<1>7. PICK f \in [D -> V] : \A node \in D : f[node] = F[<<node, f>>]
  <2>1. Recursion(D, V, F, rank)
    <3>1. <<>> \in V /\ bound + 1 \in Nat
      BY <1>b
    <3>2. ASSUME NEW c \in D, NEW f \in [D -> V], NEW g \in [D -> V],
                 \A d \in D : rank[d] < rank[c] => f[d] = g[d]
          PROVE  F[<<c, f>>] = F[<<c, g>>]
      <4> HIDE DEF D, V, F, Value, rank
      <4> QED BY <1>4, <1>5, <3>2
    <3> HIDE DEF D, V, F, rank
    <3> QED
      BY <1>2, <1>6, <3>1, <3>2 DEF Recursion
  <2>2. Solvable(D, V, F)
    <3> HIDE DEF D, V, F, rank
    <3> QED BY <2>1, SolvedByRank
  <2> HIDE DEF D, V, F
  <2> QED
    BY <2>2 DEF Solvable
<1>8. Ordered(lanes, f)
  <2>1. \A node \in D : f[node] = Value(node, f)
    <3> HIDE DEF F, Value, D, V
    <3> QED BY <1>5, <1>7
  <2>2. f = [node \in D |-> Value(node, f)]
    <3> HIDE DEF Value, D, V
    <3> QED BY <1>7, <2>1
  <2> QED
    BY <2>2 DEF Ordered, Places
<1>9. Ordered(lanes, chosen)
  BY <1>8
<1>10. SharedAncestry(lanes).rows = chosen[<<>>]
  BY DEF SharedAncestry, Ordered
<1> HIDE DEF chosen
<1>11. chosen = [node \in D |-> Value(node, chosen)]
  BY <1>9 DEF Ordered, Places
<1> DEFINE bad == {node \in D : chosen[node] \notin V}
<1>12. bad = {}
  <2> SUFFICES ASSUME bad # {} PROVE FALSE
    OBVIOUS
  <2> DEFINE ranks == {rank[node] : node \in bad}
  <2>1. ranks \in SUBSET Nat /\ ranks # {}
    BY <1>2
  <2>2. PICK r \in ranks : \A t \in ranks : r <= t
    <3> HIDE DEF ranks
    <3> QED BY <2>1, LeastNatural
  <2>3. PICK node \in bad : \A other \in bad : rank[node] <= rank[other]
    <3> HIDE DEF bad, rank
    <3> QED BY <2>2
  <2>4. node \in D /\ chosen[node] \notin V
    BY <2>3
  <2> DEFINE above == RowsAbove(lanes, node)
             g == [e \in D |-> IF e \in bad THEN <<>> ELSE chosen[e]]
  <2>5. g \in [D -> V]
    <3>1. <<>> \in V
      OBVIOUS
    <3> HIDE DEF D, V
    <3> QED BY <3>1
  <2>6. ASSUME NEW k \in DOMAIN above PROVE g[above[k]] = chosen[above[k]]
    <3>1. above[k] \in D /\ rank[above[k]] < rank[node]
      BY <1>1, <2>4
    <3>2. rank[above[k]] \in Nat /\ rank[node] \in Nat
      BY <1>2, <2>4, <3>1
    <3>3. above[k] \notin bad
      <4> HIDE DEF bad, rank, above
      <4> QED BY <2>3, <3>1, <3>2
    <3> HIDE DEF bad, D, above
    <3> QED
      BY <3>1, <3>3
  <2>7. Value(node, g) = Value(node, chosen)
    <3>1. [k \in DOMAIN above |-> g[above[k]]] = [k \in DOMAIN above |-> chosen[above[k]]]
      <4> HIDE DEF above, g
      <4> QED BY <2>6
    <3> HIDE DEF g
    <3>2. Beneath(node, g) = Beneath(node, chosen)
      BY <3>1
    <3> HIDE DEF Beneath, Own
    <3> QED
      BY <3>2
  <2>8. Value(node, g) \in V
    <3> HIDE DEF Value, g, V, D
    <3> QED BY <1>3, <2>4, <2>5
  <2>9. chosen[node] = Value(node, chosen)
    <3> HIDE DEF Value, D
    <3> QED BY <1>11, <2>4
  <2> HIDE DEF Value, V
  <2> QED
    BY <2>4, <2>7, <2>8, <2>9
<1>13. chosen \in [D -> V]
  <2>1. DOMAIN chosen = D
    <3> HIDE DEF Value, D
    <3> QED BY <1>11
  <2>2. chosen = [node \in D |-> chosen[node]]
    <3> HIDE DEF Value, D
    <3> QED BY <1>11
  <2>3. \A node \in D : chosen[node] \in V
    BY <1>12
  <2> HIDE DEF D, V
  <2> QED
    BY <2>2, <2>3
<1> QED
  BY <1>9, <1>10, <1>13

\* A row is in a lane, and its commit is one of the lane's.
Fits(r, lanes) ==
    /\ r.lane \in DOMAIN lanes
    /\ StandsFor(r, lanes[r.lane])

\* The row of a node is one of its lane's contents.
LEMMA RowsFit ==
  ASSUME NEW lanes, Lanelike(lanes), NEW r \in RowSet(lanes)
  PROVE  Fits(r, lanes)
<1>1. PICK n \in Nodes(lanes) : r = Row(lanes, n)
  BY DEF RowSet
<1> DEFINE l == LaneOf(lanes, n)
           X == Identities(lanes)
<1>2. l \in DOMAIN lanes /\ IsPrefix(n, PathOf(lanes[l])) /\ n \in Seq(X) /\ Len(n) \in Nat /\ Len(n) > 0
  BY NodeLane
<1>3. PathOf(lanes[l]) \in Seq(X) /\ Len(PathOf(lanes[l])) = Len(Contents(lanes[l]))
  BY <1>2, PathIs
<1>4. Len(n) <= Len(PathOf(lanes[l]))
  <2> HIDE DEF X, l
  <2> QED
    BY <1>2, <1>3, PrefixIs
<1>5. IsSequence(lanes[l].points) /\ IsSequence(lanes[l].rewritten)
  BY <1>2 DEF Lanelike
<1>6. Len(Contents(lanes[l])) \in Nat /\ \A i \in 1..Len(Contents(lanes[l])) : StandsFor(Contents(lanes[l])[i], lanes[l])
  BY <1>5, ContentsIs
<1>7. StandsFor(Contents(lanes[l])[Len(n)], lanes[l])
  BY <1>2, <1>3, <1>4, <1>6
<1>8. /\ r.lane = l /\ r.position = Contents(lanes[l])[Len(n)].position
      /\ r.rewritten = Contents(lanes[l])[Len(n)].rewritten
  BY <1>1 DEF Row
<1> QED
  BY <1>2, <1>7, <1>8 DEF Fits, StandsFor

----------------------------------------------------------------------------
(* The order of lanes and groups.                                          *)

\* What is known of a group.
GroupLike(g) ==
    /\ DOMAIN g = {"base", "distance", "lanes"}
    /\ g.base \in Int /\ g.distance \in Int /\ IsSequence(g.lanes)
    /\ \A lane \in ToSet(g.lanes) : IsLane(lane)

\* The set of the elements of a sequence is finite.
LEMMA ElementsAreFinite ==
  ASSUME NEW s, IsSequence(s)
  PROVE  IsFiniteSet(ToSet(s)) /\ \A i \in DOMAIN s : s[i] \in ToSet(s)
<1>1. Len(s) \in Nat /\ DOMAIN s = 1..Len(s)
  BY DEF IsSequence
<1>2. IsFiniteSet(1..Len(s))
  BY <1>1, FS_Interval
<1>3. IsFiniteSet({s[i] : i \in 1..Len(s)})
  BY <1>2, ImageIsFinite
<1> QED
  BY <1>1, <1>3 DEF ToSet

\* A sequence over a set is one over its own elements.
LEMMA OverIts ==
  ASSUME NEW S, NEW s \in Seq(S)
  PROVE  IsSequence(s) /\ ToSet(s) \subseteq S
<1>1. Len(s) \in Nat /\ DOMAIN s = 1..Len(s) /\ \A i \in 1..Len(s) : s[i] \in S
  OBVIOUS
<1>2. s = [i \in 1..Len(s) |-> s[i]]
  BY <1>1
<1>3. \A i \in 1..Len(s) : s[i] \in ToSet(s)
  BY <1>1 DEF ToSet
<1>4. s \in Seq(ToSet(s))
  BY <1>1, <1>2, <1>3
<1> QED
  BY <1>1, <1>4 DEF IsSequence, ToSet

\* By time, then by head: a strict order of lanes with heads of their own.
LEMMA LaneBeforeOrders ==
  ASSUME NEW S, \A lane \in S : IsLane(lane),
         \A a, b \in S : a.points[1].oid = b.points[1].oid => a = b
  PROVE  Orders({p \in S \X S : LaneBefore(p[1], p[2])}, S)
<1> DEFINE R == {p \in S \X S : LaneBefore(p[1], p[2])}
<1>1. \A a, b \in S : <<a, b>> \in R <=> LaneBefore(a, b)
  OBVIOUS
<1>2. \A a \in S : Head1(a) \in Int /\ a.time \in Int
  BY DEF IsLane, Head1
<1>3. \A a, b \in S : Head1(a) = Head1(b) => a = b
  BY DEF Head1
<1> HIDE DEF R
<1>4. ASSUME NEW a \in S PROVE <<a, a>> \notin R
  BY <1>1, <1>2 DEF LaneBefore
<1>5. ASSUME NEW a \in S, NEW b \in S, a # b PROVE <<a, b>> \in R \/ <<b, a>> \in R
  <2>1. Head1(a) # Head1(b)
    BY <1>3, <1>5
  <2> QED
    BY <1>1, <1>2, <2>1 DEF LaneBefore
<1>6. ASSUME NEW a \in S, NEW b \in S, NEW c \in S, <<a, b>> \in R, <<b, c>> \in R
      PROVE  <<a, c>> \in R
  <2>1. LaneBefore(a, b) /\ LaneBefore(b, c)
    BY <1>1, <1>6
  <2>2. LaneBefore(a, c)
    BY <1>2, <2>1 DEF LaneBefore
  <2> QED
    BY <1>1, <2>2
<1> QED
  BY <1>4, <1>5, <1>6 DEF Orders, R

\* ordered_lanes puts all lanes of a group in order.
LEMMA OrderedLanesIs ==
  ASSUME NEW lanes, IsSequence(lanes), \A lane \in ToSet(lanes) : IsLane(lane),
         \A a, b \in ToSet(lanes) : a.points[1].oid = b.points[1].oid => a = b
  PROVE  /\ OrderedLanes(lanes) \in Seq(ToSet(lanes))
         /\ Len(OrderedLanes(lanes)) = Cardinality(ToSet(lanes))
         /\ \A lane \in ToSet(lanes) : \E i \in DOMAIN OrderedLanes(lanes) : OrderedLanes(lanes)[i] = lane
         /\ \A i, j \in DOMAIN OrderedLanes(lanes) :
              i < j => OrderedLanes(lanes)[i] # OrderedLanes(lanes)[j]
<1> DEFINE S == ToSet(lanes)
           R == {p \in S \X S : LaneBefore(p[1], p[2])}
           e(i) == CHOOSE x \in S : Cardinality({y \in S : LaneBefore(y, x)}) = i - 1
           q == OrderedLanes(lanes)
<1>1. IsFiniteSet(S) /\ Orders(R, S)
  BY LaneBeforeOrders, ElementsAreFinite
<1>2. q = [i \in 1..Cardinality(S) |-> e(i)]
  BY DEF OrderedLanes, Sorted
<1>3. \A x \in S : {y \in S : <<y, x>> \in R} = {y \in S : LaneBefore(y, x)}
  OBVIOUS
<1>4. \A x \in S : Rank(R, S, x) = Cardinality({y \in S : LaneBefore(y, x)})
  <2> HIDE DEF R, S
  <2> QED BY <1>3 DEF Rank
<1>5. ASSUME NEW i \in 1..Cardinality(S) PROVE e(i) \in S /\ Rank(R, S, e(i)) = i - 1
  <2> HIDE DEF R, S
  <2>1. \E x \in S : Rank(R, S, x) = i - 1
    BY <1>1, RankExists
  <2>2. \E x \in S : Cardinality({y \in S : LaneBefore(y, x)}) = i - 1
    BY <1>4, <2>1
  <2>3. e(i) \in S /\ Cardinality({y \in S : LaneBefore(y, e(i))}) = i - 1
    BY <2>2
  <2> QED
    BY <1>4, <2>3
<1> HIDE DEF R, S, e, q
<1>6. SortedBy(q, R, S)
  <2>1. DOMAIN q = 1..Cardinality(S) /\ q = [i \in 1..Cardinality(S) |-> q[i]]
    BY <1>2
  <2> QED
    BY <1>2, <1>5, <2>1 DEF SortedBy
<1>7. /\ q \in Seq(S) /\ Len(q) = Cardinality(S)
      /\ \A x \in S : \E i \in DOMAIN q : q[i] = x
      /\ \A i, j \in DOMAIN q : i < j => <<q[i], q[j]>> \in R
  BY <1>1, <1>6, SortedIs
<1>8. \A i, j \in DOMAIN q : i < j => q[i] # q[j]
  <2>1. \A i \in DOMAIN q : q[i] \in S
    BY <1>7
  <2> QED
    BY <1>1, <1>7, <2>1 DEF Orders
<1> QED
  BY <1>7, <1>8 DEF q, S

\* A group whose lanes have heads of their own.
Proper(g) ==
    /\ GroupLike(g)
    /\ \A a, b \in ToSet(g.lanes) : a.points[1].oid = b.points[1].oid => a = b

\* A group with its lanes in order.
InOrder(g) == [g EXCEPT !.lanes = OrderedLanes(g.lanes)]

\* Ordering the lanes of a group keeps all else of it.
LEMMA InOrderIs ==
  ASSUME NEW g, Proper(g)
  PROVE  /\ GroupLike(InOrder(g)) /\ InOrder(g).base = g.base /\ InOrder(g).distance = g.distance
         /\ InOrder(g).lanes = OrderedLanes(g.lanes)
<1> DEFINE h == InOrder(g)
<1>1. DOMAIN g = {"base", "distance", "lanes"}
  BY DEF Proper, GroupLike
<1>2. /\ DOMAIN h = {"base", "distance", "lanes"} /\ h.base = g.base /\ h.distance = g.distance
      /\ h.lanes = OrderedLanes(g.lanes)
  BY <1>1 DEF InOrder
<1>3. OrderedLanes(g.lanes) \in Seq(ToSet(g.lanes))
  BY OrderedLanesIs DEF Proper, GroupLike
<1>4. IsSequence(h.lanes) /\ ToSet(h.lanes) \subseteq ToSet(g.lanes)
  BY <1>2, <1>3, OverIts
<1> QED
  BY <1>2, <1>4 DEF Proper, GroupLike

\* A group with or without lanes has a time.
LEMMA GroupTimeIs ==
  ASSUME NEW lanes, IsSequence(lanes), \A lane \in ToSet(lanes) : IsLane(lane)
  PROVE  GroupTime(lanes) \in Int
<1> DEFINE times == {lanes[i].time : i \in DOMAIN lanes}
           all == {lane.time : lane \in ToSet(lanes)}
<1>1. IsFiniteSet(ToSet(lanes)) /\ \A i \in DOMAIN lanes : lanes[i] \in ToSet(lanes)
  BY ElementsAreFinite
<1>2. \A lane \in ToSet(lanes) : lane.time \in Int
  BY DEF IsLane
<1>3. times \in SUBSET Int
  BY <1>1, <1>2
<1>4. IsFiniteSet(times)
  <2>1. Len(lanes) \in Nat /\ DOMAIN lanes = 1..Len(lanes)
    BY DEF IsSequence
  <2>2. IsFiniteSet(DOMAIN lanes)
    BY <2>1, FS_Interval
  <2> DEFINE f == [i \in DOMAIN lanes |-> lanes[i].time]
  <2>3. IsFiniteSet({f[i] : i \in DOMAIN lanes})
    <3> HIDE DEF f
    <3> QED BY <2>2, ImageIsFinite
  <2>4. {f[i] : i \in DOMAIN lanes} = times
    OBVIOUS
  <2> QED
    BY <2>3, <2>4
<1>5. CASE lanes = <<>>
  BY <1>5 DEF GroupTime, LastTime
<1>6. CASE lanes # <<>>
  <2>1. times # {}
    <3>1. 1 \in DOMAIN lanes
      BY <1>6 DEF IsSequence
    <3> QED
      BY <3>1
  <2>2. Max(times) \in Int /\ Min(times) \in Int
    <3> HIDE DEF times
    <3>1. Max(times) \in times /\ Min(times) \in times
      BY <1>3, <1>4, <2>1, MaxIs, MinIs
    <3> QED
      BY <1>3, <3>1
  <2>3. GroupTime(lanes) = IF order = "Newest" THEN -Max(times) ELSE Min(times)
    BY <1>6 DEF GroupTime
  <2> HIDE DEF times
  <2> QED
    BY <2>2, <2>3
<1> QED
  BY <1>5, <1>6

\* The order of groups: a strict order of groups with bases of their own.
LEMMA GroupsOrder ==
  ASSUME NEW S, \A g \in S : GroupLike(g), \A g, h \in S : g.base = h.base => g = h
  PROVE  Orders({p \in S \X S : LexLess(GroupKey(p[1]), GroupKey(p[2]))}, S)
<1> DEFINE R == {p \in S \X S : LexLess(GroupKey(p[1]), GroupKey(p[2]))}
           key == [g \in S |-> GroupKey(g)]
<1>1. ASSUME NEW g \in S
      PROVE  DOMAIN GroupKey(g) = 1..4 /\ \A i \in 1..4 : GroupKey(g)[i] \in Int
  <2>1. GroupTime(g.lanes) \in Int
    BY GroupTimeIs DEF GroupLike
  <2>2. g.base \in Int /\ g.distance \in Int
    BY DEF GroupLike
  <2> QED
    BY <2>1, <2>2 DEF GroupKey
<1>2. \A g \in S : DOMAIN key[g] = 1..4 /\ \A i \in 1..4 : key[g][i] \in Int
  BY <1>1
<1>3. ASSUME NEW g \in S, NEW h \in S, g # h PROVE \E i \in 1..4 : key[g][i] # key[h][i]
  <2>1. key[g][4] = g.base /\ key[h][4] = h.base
    BY DEF GroupKey
  <2>2. key[g][4] # key[h][4]
    BY <1>3, <2>1
  <2> HIDE DEF key
  <2> QED
    BY <2>2
<1>4. \A g, h \in S : <<g, h>> \in R <=> LexLess(key[g], key[h])
  OBVIOUS
<1> HIDE DEF key, R
<1>5. 4 \in Nat
  OBVIOUS
<1>6. Orders(R, S)
  BY <1>2, <1>3, <1>4, <1>5, LexOrders
<1> QED
  BY <1>6 DEF R

\* Groups in the order of lane_group_key.
SortedGroups(S) == Sorted(S, LAMBDA g, h : LexLess(GroupKey(g), GroupKey(h)))

\* lane_group_key puts all groups in order.
LEMMA SortedGroupsIs ==
  ASSUME NEW S, IsFiniteSet(S), \A g \in S : GroupLike(g),
         \A g, h \in S : g.base = h.base => g = h
  PROVE  /\ SortedGroups(S) \in Seq(S) /\ Len(SortedGroups(S)) = Cardinality(S)
         /\ \A g \in S : \E i \in DOMAIN SortedGroups(S) : SortedGroups(S)[i] = g
         /\ \A i, j \in DOMAIN SortedGroups(S) :
              i < j => LexLess(GroupKey(SortedGroups(S)[i]), GroupKey(SortedGroups(S)[j]))
<1> DEFINE R == {p \in S \X S : LexLess(GroupKey(p[1]), GroupKey(p[2]))}
           e(i) == CHOOSE x \in S : Cardinality({y \in S : LexLess(GroupKey(y), GroupKey(x))}) = i - 1
           q == SortedGroups(S)
<1>1. Orders(R, S)
  BY GroupsOrder
<1>2. q = [i \in 1..Cardinality(S) |-> e(i)]
  BY DEF SortedGroups, Sorted
<1>3. \A x \in S : {y \in S : <<y, x>> \in R} = {y \in S : LexLess(GroupKey(y), GroupKey(x))}
  OBVIOUS
<1>4. \A x \in S : Rank(R, S, x) = Cardinality({y \in S : LexLess(GroupKey(y), GroupKey(x))})
  <2> HIDE DEF R
  <2> QED BY <1>3 DEF Rank
<1>a. \A x, y \in S : <<x, y>> \in R => LexLess(GroupKey(x), GroupKey(y))
  OBVIOUS
<1>5. ASSUME NEW i \in 1..Cardinality(S) PROVE e(i) \in S /\ Rank(R, S, e(i)) = i - 1
  <2> HIDE DEF R
  <2>1. \E x \in S : Rank(R, S, x) = i - 1
    BY <1>1, RankExists
  <2>2. \E x \in S : Cardinality({y \in S : LexLess(GroupKey(y), GroupKey(x))}) = i - 1
    BY <1>4, <2>1
  <2>3. e(i) \in S /\ Cardinality({y \in S : LexLess(GroupKey(y), GroupKey(e(i)))}) = i - 1
    BY <2>2
  <2> QED
    BY <1>4, <2>3
<1> HIDE DEF R, e, q
<1>6. SortedBy(q, R, S)
  <2>1. DOMAIN q = 1..Cardinality(S) /\ q = [i \in 1..Cardinality(S) |-> q[i]]
    BY <1>2
  <2> QED
    BY <1>2, <1>5, <2>1 DEF SortedBy
<1>7. /\ q \in Seq(S) /\ Len(q) = Cardinality(S)
      /\ \A x \in S : \E i \in DOMAIN q : q[i] = x
      /\ \A i, j \in DOMAIN q : i < j => <<q[i], q[j]>> \in R
  BY <1>1, <1>6, SortedIs
<1>8. \A i \in DOMAIN q : q[i] \in S
  BY <1>7
<1>9. \A i, j \in DOMAIN q : i < j => LexLess(GroupKey(q[i]), GroupKey(q[j]))
  BY <1>7, <1>8, <1>a
<1> QED
  BY <1>7, <1>9 DEF q

\* What is drawn, before and after it is put in order.
Given ==
    /\ IsSequence(groups)
    /\ \A g \in ToSet(groups) : Proper(g)
    /\ \A g, h \in ToSet(groups) : g.base = h.base => g = h

\* The groups once they are in order, with their rows.
Arranged ==
    /\ IsSequence(groups)
    /\ \A g \in ToSet(groups) : GroupLike(g)
    /\ prepared = [g \in DOMAIN groups |-> SharedAncestry(groups[g].lanes)]

\* sort_groups and shared_ancestry.
LEMMA ArrangeIs ==
  ASSUME Given, Arrange
  PROVE  Arranged'
<1> DEFINE S == {InOrder(g) : g \in ToSet(groups)}
           q == SortedGroups(S)
<1>1. groups' = q /\ prepared' = [g \in DOMAIN q |-> SharedAncestry(q[g].lanes)]
  BY DEF Arrange, SortedGroups, InOrder
<1>2. IsFiniteSet(S)
  <2> DEFINE f == [g \in ToSet(groups) |-> InOrder(g)]
  <2>1. IsFiniteSet(ToSet(groups))
    BY ElementsAreFinite DEF Given
  <2>2. IsFiniteSet({f[g] : g \in ToSet(groups)})
    <3> HIDE DEF f
    <3> QED BY <2>1, ImageIsFinite
  <2>3. {f[g] : g \in ToSet(groups)} = S
    OBVIOUS
  <2> QED
    BY <2>2, <2>3
<1>3. \A h \in S : GroupLike(h)
  BY InOrderIs DEF Given
<1>4. ASSUME NEW h \in S, NEW k \in S, h.base = k.base PROVE h = k
  <2>1. PICK g \in ToSet(groups) : h = InOrder(g)
    OBVIOUS
  <2>2. PICK f \in ToSet(groups) : k = InOrder(f)
    OBVIOUS
  <2>3. h.base = g.base /\ k.base = f.base
    BY <2>1, <2>2, InOrderIs DEF Given
  <2>4. g = f
    BY <1>4, <2>3 DEF Given
  <2> QED
    BY <2>1, <2>2, <2>4
<1> HIDE DEF S
<1>5. q \in Seq(S)
  BY <1>2, <1>3, <1>4, SortedGroupsIs
<1> HIDE DEF q
<1>6. IsSequence(q) /\ ToSet(q) \subseteq S
  BY <1>5, OverIts
<1>7. \A g \in ToSet(q) : GroupLike(g)
  BY <1>3, <1>6
<1>8. \A x, y : x = y => (IsSequence(x) <=> IsSequence(y)) /\ (ToSet(x) = ToSet(y))
  OBVIOUS
<1>9. IsSequence(groups') /\ ToSet(groups') = ToSet(q)
  BY <1>1, <1>6, <1>8
<1>10. prepared' = [g \in DOMAIN groups' |-> SharedAncestry(groups'[g].lanes)]
  <2>1. \A x, y : x = y => [g \in DOMAIN x |-> SharedAncestry(x[g].lanes)]
                            = [g \in DOMAIN y |-> SharedAncestry(y[g].lanes)]
    OBVIOUS
  <2> QED
    BY <1>1, <2>1
<1>11. \A g : GroupLike(g)' <=> GroupLike(g)
  BY DEF GroupLike, IsSequence, IsLane
<1> QED
  BY <1>7, <1>9, <1>10, <1>11 DEF Arranged

----------------------------------------------------------------------------
(* The segments.                                                           *)

\* The rows of a group are in its lanes.
LEMMA RowsAreFit ==
  ASSUME Arranged, NEW g \in DOMAIN groups
  PROVE  /\ Rows(g) \in Seq(RowSet(Lanes(g))) /\ Len(Rows(g)) \in Nat
         /\ \A i \in 1..Len(Rows(g)) : Rows(g)[i] \in RowSet(Lanes(g)) /\ Fits(Rows(g)[i], Lanes(g))
         /\ Lanelike(Lanes(g)) /\ \A lane \in ToSet(Lanes(g)) : IsLane(lane)
<1> DEFINE lanes == groups[g].lanes
<1>1. groups[g] \in ToSet(groups)
  BY ElementsAreFinite DEF Arranged
<1>2. IsSequence(lanes) /\ \A lane \in ToSet(lanes) : IsLane(lane)
  BY <1>1 DEF Arranged, GroupLike
<1>3. Lanelike(lanes)
  <2>1. \A i \in DOMAIN lanes : lanes[i] \in ToSet(lanes)
    BY <1>2, ElementsAreFinite
  <2> QED
    BY <1>2, <2>1 DEF Lanelike, IsSequence, IsLane
<1>4. Rows(g) = SharedAncestry(lanes).rows
  BY DEF Rows, Arranged
<1>5. PICK upTo \in [Places(lanes) -> Seq(RowSet(lanes))] : SharedAncestry(lanes).rows = upTo[<<>>]
  BY <1>3, AncestrySolved
<1>6. upTo[<<>>] \in Seq(RowSet(lanes))
  BY DEF Places
<1>7. Rows(g) \in Seq(RowSet(lanes))
  BY <1>4, <1>5, <1>6
<1> HIDE DEF lanes
<1>8. Len(Rows(g)) \in Nat /\ \A i \in 1..Len(Rows(g)) : Rows(g)[i] \in RowSet(lanes)
  BY <1>7
<1>9. \A r \in RowSet(lanes) : Fits(r, lanes)
  BY <1>3, RowsFit
<1> QED
  BY <1>2, <1>3, <1>7, <1>8, <1>9 DEF lanes, Lanes

\* Footprints and names.
LEMMA FootprintIs ==
  ASSUME Arranged, NEW g \in DOMAIN groups, NEW i \in 1..Len(Rows(g)),
         NEW r, r = Rows(g)[i], NEW commit, commit = Commit(g, r)
  PROVE  /\ Footprint(r, commit) \in Nat \ {0}
         /\ Names(r, commit) \subseteq Nat \ {0} /\ IsFiniteSet(Names(r, commit))
<1> DEFINE lanes == Lanes(g)
           names == Names(r, commit)
<1>1. Fits(r, lanes) /\ Lanelike(lanes) /\ \A lane \in ToSet(lanes) : IsLane(lane)
  BY RowsAreFit
<1>2. DOMAIN Width \subseteq Nat \ {0} /\ Width \in [DOMAIN Width -> Nat]
  BY DrawingAssumption
<1>3. names \subseteq DOMAIN Width /\ IsFiniteSet(names)
  <2>1. CASE r.rewritten
    BY <2>1, FS_EmptySet DEF Names
  <2>2. CASE ~r.rewritten
    <3>1. r.lane \in DOMAIN lanes /\ r.position \in DOMAIN lanes[r.lane].points
      BY <1>1, <2>2 DEF Fits, StandsFor
    <3>2. lanes[r.lane] \in ToSet(lanes)
      BY <3>1 DEF ToSet
    <3>3. IsLane(lanes[r.lane])
      BY <1>1, <3>2
    <3>4. commit = lanes[r.lane].points[r.position]
      BY <2>2 DEF Commit, Bound
    <3>5. commit \in ToSet(lanes[r.lane].points)
      BY <3>1, <3>4 DEF ToSet
    <3>6. names = commit.names
      BY <2>2 DEF Names
    <3> QED
      BY <3>3, <3>5, <3>6 DEF IsLane
  <2> QED
    BY <2>1, <2>2
<1>4. Footprint(r, commit) = 1 + SumOver(Width, names)
  BY DEF Footprint, SumOver
<1>5. SumOver(Width, names) \in Nat
  <2>1. \A n \in names : Width[n] \in Nat
    BY <1>2, <1>3
  <2> HIDE DEF names
  <2> QED
    BY <1>3, <2>1, SumOfNaturals
<1> QED
  BY <1>2, <1>3, <1>4, <1>5

\* The identity of a segment is a number.
LEMMA IdentifiedIs ==
  ASSUME NEW identity \in Nat, NEW names, names \subseteq Nat \ {0}, IsFiniteSet(names)
  PROVE  Identified(identity, names) \in Nat
<1> DEFINE known == names \cup ({identity} \ {NoName})
<1>1. IsFiniteSet({identity}) /\ IsFiniteSet({identity} \ {NoName})
  BY FS_Singleton, FS_Difference
<1>2. IsFiniteSet(known)
  BY <1>1, FS_Union
<1>3. \A n \in known : n \in Nat
  OBVIOUS
<1>4. Identified(identity, names) = IF known = {} THEN NoName ELSE Min(known)
  BY DEF Identified
<1> HIDE DEF known
<1>5. CASE known = {}
  BY <1>4, <1>5 DEF NoName
<1>6. CASE known # {}
  <2>1. known \in SUBSET Int
    BY <1>3
  <2>2. Min(known) \in known
    BY <1>2, <1>6, <2>1, MinIs
  <2> QED
    BY <1>3, <1>4, <1>6, <2>2
<1> QED
  BY <1>5, <1>6

\* Beside a lane there are segments of active lanes.
LEMMA BesideIs ==
  ASSUME NEW I, NEW now, IsFiniteSet(DOMAIN now), DOMAIN now \subseteq Nat,
         \A l \in DOMAIN now : now[l] \in I, NEW lane
  PROVE  \A e \in Beside(lane, now) : e \subseteq I
<1> DEFINE left == {l \in DOMAIN now : l < lane}
           right == {l \in DOMAIN now : l > lane}
           ends == (IF left = {} THEN {} ELSE {Max(left)}) \cup (IF right = {} THEN {} ELSE {Min(right)})
           near == {now[l] : l \in ends}
<1>1. left \in SUBSET (DOMAIN now) /\ right \in SUBSET (DOMAIN now)
  OBVIOUS
<1>2. IsFiniteSet(left) /\ IsFiniteSet(right) /\ left \in SUBSET Int /\ right \in SUBSET Int
  <2> HIDE DEF left, right
  <2> QED BY <1>1, FS_Subset
<1>3. Beside(lane, now) = IF lane \in DOMAIN now THEN {{now[lane], n} : n \in near}
                          ELSE IF left # {} /\ right # {} THEN {near} ELSE {}
  BY DEF Beside
<1> HIDE DEF left, right
<1>4. ends \subseteq DOMAIN now
  <2>1. left # {} => Max(left) \in left
    BY <1>2, MaxIs
  <2>2. right # {} => Min(right) \in right
    BY <1>2, MinIs
  <2> QED
    BY <1>1, <2>1, <2>2
<1>5. near \subseteq I
  <2> HIDE DEF ends
  <2> QED BY <1>4
<1> HIDE DEF near
<1> QED
  BY <1>3, <1>5

\* The pass over the rows, before neighbours are known.
Tracing ==
    /\ Linking /\ Fresh
    /\ \A e \in edges : Cardinality(e) = 2
    /\ group \in Nat \ {0} /\ row \in Nat \ {0}
    /\ IsFiniteSet(DOMAIN active) /\ DOMAIN active \subseteq Nat
    /\ \A l \in DOMAIN active : active[l] \in Ids
    /\ previous \in Ids \cup {NoSegment}

\* The next group keeps what the pass has found.
LEMMA VisitGroupKeeps ==
  ASSUME Tracing, VisitGroup
  PROVE  Tracing'
<1>1. /\ group' = group + 1 /\ row' = 1 /\ active' = <<>>
      /\ UNCHANGED <<edges, previous, segments, colourLoad, familyLoad, placed>>
  BY DEF VisitGroup, colourVars
<1>2. Linking' /\ Fresh' /\ Ids' = Ids
  BY <1>1 DEF Tracing, Linking, Fresh, Ids
<1>3. DOMAIN active' = {}
  BY <1>1
<1> QED
  BY <1>1, <1>2, <1>3, FS_EmptySet DEF Tracing

\* What a new segment makes neighbours are segments.
LEMMA MetIs ==
  ASSUME NEW I, NEW now, IsFiniteSet(DOMAIN now), DOMAIN now \subseteq Nat,
         \A l \in DOMAIN now : now[l] \in I, NEW lane, NEW joined, NEW segment \in I,
         \A l \in DOMAIN active : active[l] \in I
  PROVE  \A e \in Met(lane, joined, now, segment) : e \subseteq I
<1>1. \A l : \A e \in Beside(l, now) : e \subseteq I
  BY BesideIs
<1>2. \A l \in joined \cap DOMAIN active : {active[l], segment} \subseteq I
  OBVIOUS
<1> QED
  BY <1>1, <1>2 DEF Met

\* What a row adds to its segment.
LEMMA NewSegmentIs ==
  ASSUME NEW old, DOMAIN old = {"weight", "identity", "neighbours"},
         old.weight \in Nat, old.identity \in Nat, old.neighbours = {},
         NEW footprint \in Nat \ {0}, NEW identity \in Nat,
         NEW new, new = [old EXCEPT !.weight = @ + footprint, !.identity = identity]
  PROVE  new \in Segment /\ new.neighbours = {} /\ new.weight = old.weight + footprint
<1>1. /\ DOMAIN new = {"weight", "identity", "neighbours"} /\ new.weight = old.weight + footprint
      /\ new.identity = identity /\ new.neighbours = {}
  OBVIOUS
<1>2. new = [weight |-> new.weight, identity |-> new.identity, neighbours |-> new.neighbours]
  <2>1. new = [x \in {"weight", "identity", "neighbours"} |-> new[x]]
    OBVIOUS
  <2> QED
    BY <2>1
<1>3. new.weight \in Nat \ {0} /\ new.identity \in Nat /\ new.neighbours \in SUBSET Nat
  BY <1>1
<1> QED
  BY <1>1, <1>2, <1>3 DEF Segment

\* A row starts a segment, or goes on with that of its lane.
Starts == LET r == Rows(group)[row] IN r.lane \notin DOMAIN active \/ Joined(r) # {}

\* A row adds at most one segment, and it does so where the pass starts one.
LEMMA VisitRowKeeps ==
  ASSUME Arranged, Tracing, VisitRow
  PROVE  Tracing' /\ Len(segments') = (IF Starts THEN Len(segments) + 1 ELSE Len(segments))
<1> DEFINE r == Rows(group)[row]
           commit == Commit(group, r)
           starts == r.lane \notin DOMAIN active \/ Joined(r) # {}
           segment == IF starts THEN Len(segments) + 1 ELSE active[r.lane]
           now == [l \in {r.lane} \cup (DOMAIN active \ Joined(r)) |->
                      IF l = r.lane THEN segment ELSE active[l]]
           old == IF starts THEN [weight |-> 0, identity |-> NoName, neighbours |-> {}]
                            ELSE segments[segment]
           new == [old EXCEPT !.weight = @ + Footprint(r, commit),
                              !.identity = Identified(@, Names(r, commit))]
           met == IF starts THEN Met(r.lane, Joined(r), now, segment) ELSE {}
           after == IF previous = NoSegment THEN {} ELSE {{previous, segment}}
           n == Len(segments)
<1>1. /\ active' = now /\ edges' = edges \cup Pairs(met \cup after) /\ previous' = segment
      /\ segments' = IF starts THEN Append(segments, new) ELSE [segments EXCEPT ![segment] = new]
      /\ row' = row + 1 /\ group' = group
      /\ UNCHANGED <<colourLoad, familyLoad, placed>>
  BY DEF VisitRow
<1>2. group \in DOMAIN groups /\ row \in 1..Len(Rows(group))
  <2>1. group <= Len(groups) /\ row <= Len(Rows(group)) /\ group \in Nat \ {0} /\ row \in Nat \ {0}
    BY DEF VisitRow, Tracing
  <2>2. DOMAIN groups = 1..Len(groups) /\ Len(groups) \in Nat
    BY DEF Arranged, IsSequence
  <2>3. group \in DOMAIN groups
    BY <2>1, <2>2
  <2>4. Len(Rows(group)) \in Nat
    BY <2>3, RowsAreFit
  <2> QED
    BY <2>1, <2>3, <2>4
<1>3. /\ Footprint(r, commit) \in Nat \ {0}
      /\ Names(r, commit) \subseteq Nat \ {0} /\ IsFiniteSet(Names(r, commit))
  BY <1>2, FootprintIs
<1>4. r.lane \in Nat
  <2>1. Fits(r, Lanes(group)) /\ Lanelike(Lanes(group))
    BY <1>2, RowsAreFit
  <2> QED
    BY <2>1 DEF Fits, Lanelike
<1>5. /\ n \in Nat /\ Ids = 1..n /\ \A s \in Ids : segments[s] \in Segment /\ segments[s].neighbours = {}
      /\ segments \in Seq(Segment)
  BY DEF Tracing, Linking, Ids
<1>6. \A l \in DOMAIN active : active[l] \in Ids
  BY DEF Tracing
<1>7. ~starts => segment \in Ids
  BY <1>6
<1>8. new \in Segment /\ new.neighbours = {}
  <2>1. DOMAIN old = {"weight", "identity", "neighbours"} /\ old.weight \in Nat /\ old.identity \in Nat
        /\ old.neighbours = {}
    <3>1. CASE starts
      <4>1. old = [weight |-> 0, identity |-> NoName, neighbours |-> {}]
        BY <3>1
      <4> HIDE DEF old
      <4> QED
        BY <4>1 DEF NoName
    <3>2. CASE ~starts
      <4>1. old \in Segment /\ old.neighbours = {}
        BY <1>5, <1>7, <3>2
      <4> HIDE DEF old
      <4> QED
        BY <4>1 DEF Segment
    <3> QED
      BY <3>1, <3>2
  <2> DEFINE footprint == Footprint(r, commit)
             names == Names(r, commit)
  <2> HIDE DEF old, footprint, names
  <2>2. new = [old EXCEPT !.weight = @ + footprint, !.identity = Identified(old.identity, names)]
    BY <2>1 DEF footprint, names
  <2>3. Identified(old.identity, names) \in Nat
    BY <1>3, <2>1, IdentifiedIs DEF names
  <2>4. footprint \in Nat \ {0}
    BY <1>3 DEF footprint
  <2> HIDE DEF new
  <2> QED
    BY <2>1, <2>2, <2>3, <2>4, NewSegmentIs
<1> HIDE DEF new
<1>9. /\ segments' \in Seq(Segment) /\ Ids' = 1..Len(segments')
      /\ Len(segments') = (IF starts THEN n + 1 ELSE n)
      /\ \A s \in Ids' : segments'[s].neighbours = {}
  <2>1. CASE starts
    <3>1. segments' = Append(segments, new)
      BY <1>1, <2>1
    <3>2. /\ segments' \in Seq(Segment) /\ Len(segments') = n + 1
          /\ \A s \in 1..(n + 1) : segments'[s] = IF s = n + 1 THEN new ELSE segments[s]
      BY <1>5, <1>8, <3>1
    <3>3. Ids' = 1..(n + 1)
      BY <3>2 DEF Ids
    <3> QED
      BY <1>5, <1>8, <2>1, <3>2, <3>3
  <2>2. CASE ~starts
    <3>1. segments' = [segments EXCEPT ![segment] = new]
      BY <1>1, <2>2
    <3>2. segment \in Ids
      BY <1>7, <2>2
    <3> HIDE DEF segment, starts
    <3>3. DOMAIN segments' = 1..n /\ \A s \in 1..n : segments'[s] = IF s = segment THEN new ELSE segments[s]
      BY <1>5, <3>1, <3>2 DEF Ids
    <3>4. \A s \in 1..n : segments'[s] \in Segment /\ segments'[s].neighbours = {}
      BY <1>5, <1>8, <3>3
    <3>5. segments' = [s \in 1..n |-> segments'[s]]
      BY <1>5, <3>1, <3>3 DEF Ids
    <3>6. segments' \in Seq(Segment) /\ Len(segments') = n
      BY <1>5, <3>3, <3>4, <3>5
    <3> QED
      BY <2>2, <3>3, <3>4, <3>6 DEF Ids
  <2> QED
    BY <2>1, <2>2
<1>10. Ids \subseteq Ids' /\ segment \in Ids'
  BY <1>5, <1>7, <1>9
<1>11. /\ IsFiniteSet(DOMAIN now) /\ DOMAIN now \subseteq Nat
       /\ \A l \in DOMAIN now : now[l] \in Ids'
  <2>1. IsFiniteSet(DOMAIN active) /\ DOMAIN active \subseteq Nat
    BY DEF Tracing
  <2>2. IsFiniteSet(DOMAIN active \ Joined(r)) /\ IsFiniteSet({r.lane})
    BY <2>1, FS_Difference, FS_Singleton
  <2>3. IsFiniteSet({r.lane} \cup (DOMAIN active \ Joined(r)))
    BY <2>2, FS_Union
  <2> HIDE DEF segment
  <2> QED
    BY <1>4, <1>6, <1>10, <2>1, <2>3
<1>12. \A l \in DOMAIN active : active[l] \in Ids'
  BY <1>6, <1>10
<1>13. \A e \in met \cup after : e \subseteq Ids'
  <2>1. \A e \in met : e \subseteq Ids'
    <3> HIDE DEF now, segment, r, starts
    <3>1. \A e \in Met(r.lane, Joined(r), now, segment) : e \subseteq Ids'
      BY <1>10, <1>11, <1>12, MetIs
    <3> QED
      BY <3>1
  <2>2. previous # NoSegment => previous \in Ids
    BY DEF Tracing
  <2>3. \A e \in after : e \subseteq Ids'
    <3> HIDE DEF segment
    <3> QED BY <1>10, <2>2
  <2> HIDE DEF met, after
  <2> QED
    BY <2>1, <2>3
<1>14. \A e \in edges' : e \subseteq Ids' /\ Cardinality(e) = 2
  <2>1. \A e \in edges : e \subseteq Ids /\ Cardinality(e) = 2
    BY DEF Tracing, Linking
  <2> HIDE DEF met, after
  <2> QED
    BY <1>1, <1>10, <1>13, <2>1 DEF Pairs
<1>15. Linking'
  BY <1>9, <1>14 DEF Linking
<1>16. Fresh'
  BY <1>1 DEF Tracing, Fresh
<1>17. group' \in Nat \ {0} /\ row' \in Nat \ {0}
  BY <1>1 DEF Tracing
<1>18. Tracing'
  <2>1. IsFiniteSet(DOMAIN active') /\ DOMAIN active' \subseteq Nat /\ \A l \in DOMAIN active' : active'[l] \in Ids'
    <3> HIDE DEF now
    <3> QED BY <1>1, <1>11
  <2>2. previous' \in Ids' \cup {NoSegment}
    <3> HIDE DEF segment
    <3> QED BY <1>1, <1>10
  <2> QED
    BY <1>14, <1>15, <1>16, <1>17, <2>1, <2>2 DEF Tracing
<1>19. starts <=> Starts
  BY DEF Starts
<1> QED
  BY <1>9, <1>18, <1>19

\* Sequences of rows of sequences of places.
RowsOver(seqs, qs, count, lanes) ==
    \A k \in 1..count : qs[k] \in Seq(Nodes(lanes)) /\ seqs[k] = RowsOfPath(lanes, qs[k])

\* One sequence of rows that consists of those of several sequences of places.
RowsTogether(at, flat, qs, count, lanes) ==
    \E path \in Seq(Nodes(lanes)) : Comes(at, path, qs, count) /\ flat = RowsOfPath(lanes, path)

\* The rows of places put together are rows of the places put together.
LEMMA JoinedRows ==
  ASSUME NEW lanes, NEW count \in Nat, NEW qs, NEW seqs, RowsOver(seqs, qs, count, lanes),
         NEW flat, IsSequence(flat), NEW at, Comes(at, flat, seqs, count)
  PROVE  RowsTogether(at, flat, qs, count, lanes)
<1> DEFINE path == [i \in DOMAIN flat |-> qs[at[i][1]][at[i][2]]]
           N == Nodes(lanes)
<1>1. \A k \in 1..count : DOMAIN seqs[k] = DOMAIN qs[k] /\ \A p \in DOMAIN qs[k] : seqs[k][p] = Row(lanes, qs[k][p])
  BY DEF RowsOfPath, RowsOver
<1>2. ASSUME NEW i \in DOMAIN flat
      PROVE  /\ at[i] = <<at[i][1], at[i][2]>> /\ at[i][1] \in 1..count
             /\ at[i][2] \in DOMAIN qs[at[i][1]] /\ path[i] \in N
             /\ flat[i] = Row(lanes, path[i]) /\ path[i] = qs[at[i][1]][at[i][2]]
  <2>1. /\ at[i] = <<at[i][1], at[i][2]>> /\ at[i][1] \in 1..count
        /\ at[i][2] \in DOMAIN seqs[at[i][1]] /\ flat[i] = seqs[at[i][1]][at[i][2]]
    BY DEF Comes
  <2>2. at[i][2] \in DOMAIN qs[at[i][1]] /\ flat[i] = Row(lanes, qs[at[i][1]][at[i][2]])
    BY <1>1, <2>1
  <2>3. \A k \in 1..count : \A p \in DOMAIN qs[k] : qs[k][p] \in N
    <3>1. \A k \in 1..count : qs[k] \in Seq(N)
      BY DEF RowsOver
    <3> HIDE DEF N
    <3> QED
      BY <3>1
  <2>4. qs[at[i][1]][at[i][2]] \in N
    BY <2>1, <2>2, <2>3
  <2> QED
    BY <2>1, <2>2, <2>4
<1>3. Len(flat) \in Nat /\ DOMAIN flat = 1..Len(flat) /\ DOMAIN path = DOMAIN flat
  BY DEF IsSequence
<1>4. path \in Seq(N)
  <2>1. path = [i \in 1..Len(flat) |-> path[i]] /\ \A i \in 1..Len(flat) : path[i] \in N
    BY <1>2, <1>3
  <2> HIDE DEF path, N
  <2> QED
    BY <1>3, <2>1
<1>5. flat = RowsOfPath(lanes, path)
  <2>1. flat = [i \in DOMAIN flat |-> flat[i]]
    BY DEF IsSequence
  <2> HIDE DEF path
  <2> QED
    BY <1>2, <1>3, <2>1 DEF RowsOfPath
<1>6. Comes(at, path, qs, count)
  <2>1. /\ DOMAIN at = DOMAIN flat
        /\ \A i, j \in DOMAIN flat :
             i < j => at[i][1] < at[j][1] \/ (at[i][1] = at[j][1] /\ at[i][2] < at[j][2])
        /\ \A k \in 1..count : \A p \in DOMAIN seqs[k] : \E i \in DOMAIN flat : at[i] = <<k, p>>
    BY DEF Comes
  <2> HIDE DEF path
  <2>2. \A k \in 1..count : \A p \in DOMAIN qs[k] : \E i \in DOMAIN path : at[i] = <<k, p>>
    BY <1>1, <1>3, <2>1
  <2>3. \A i \in DOMAIN path :
          /\ at[i] = <<at[i][1], at[i][2]>>
          /\ at[i][1] \in 1..count /\ at[i][2] \in DOMAIN qs[at[i][1]]
          /\ path[i] = qs[at[i][1]][at[i][2]]
    BY <1>2, <1>3
  <2> QED
    BY <1>3, <2>1, <2>2, <2>3 DEF Comes
<1> HIDE DEF path
<1> QED
  BY <1>4, <1>5, <1>6 DEF RowsTogether

\* A place after the rows above it.
LEMMA PlaceLast ==
  ASSUME NEW lanes, Lanelike(lanes), NEW node \in Nodes(lanes), NEW path \in Seq(Nodes(lanes)),
         \A i \in DOMAIN path : IsPrefix(node, path[i]) /\ Len(path[i]) > Len(node),
         \A m \in Nodes(lanes) :
           IsPrefix(node, m) /\ Len(m) > Len(node) => \E i \in DOMAIN path : path[i] = m,
         \A i, j \in DOMAIN path : i < j => ~IsPrefix(path[i], path[j]),
         \A i, j, k \in DOMAIN path :
           i < j /\ j < k /\ IsPrefix(path[k], path[i]) => IsPrefix(path[k], path[j])
  PROVE  /\ Traverses(Append(path, node), lanes, node)
         /\ RowsOfPath(lanes, Append(path, node)) = RowsOfPath(lanes, path) \o <<Row(lanes, node)>>
<1> DEFINE n == Len(path)
           q == Append(path, node)
           N == Nodes(lanes)
           X == Identities(lanes)
<1>1. /\ n \in Nat /\ DOMAIN path = 1..n /\ DOMAIN q = 1..(n + 1) /\ q[n + 1] = node
      /\ \A i \in 1..n : q[i] = path[i]
  OBVIOUS
<1>2. q \in Seq(N)
  OBVIOUS
<1>3. \A m \in N : m \in Seq(X) /\ Len(m) \in Nat
  BY NodeLane
<1>4. IsPrefix(node, node)
  BY <1>3, PrefixFacts
<1> HIDE DEF q
<1>5. \A i \in DOMAIN q : IsPrefix(node, q[i])
  BY <1>1, <1>4
<1>6. ASSUME NEW m \in N, IsPrefix(node, m) PROVE \E i \in DOMAIN q : q[i] = m
  <2>1. CASE Len(m) > Len(node)
    BY <1>1, <1>6, <2>1
  <2>2. CASE ~(Len(m) > Len(node))
    <3>1. Len(m) <= Len(node) /\ m \in Seq(X) /\ node \in Seq(X)
      BY <1>3, <2>2
    <3>2. m = node
      <4> HIDE DEF X
      <4> QED BY <1>6, <3>1, PrefixFacts
    <3> QED
      BY <1>1, <3>2
  <2> QED
    BY <2>1, <2>2
<1>7. ASSUME NEW i \in DOMAIN q, NEW j \in DOMAIN q, i < j PROVE ~IsPrefix(q[i], q[j])
  <2>1. i \in 1..n
    BY <1>1, <1>7
  <2>2. CASE j = n + 1
    <3>1. q[i] \in Nodes(lanes) /\ Len(q[i]) > Len(node) /\ q[j] = node
      BY <1>1, <2>1, <2>2
    <3>2. q[i] \in Seq(X) /\ node \in Seq(X) /\ Len(q[i]) \in Nat /\ Len(node) \in Nat
      BY <1>3, <3>1
    <3>3. ~(Len(q[i]) <= Len(node))
      BY <3>1, <3>2
    <3> HIDE DEF X
    <3> QED
      BY <3>1, <3>2, <3>3, PrefixFacts
  <2>3. CASE j # n + 1
    <3>1. j \in 1..n
      BY <1>1, <2>3
    <3> QED
      BY <1>1, <1>7, <2>1, <3>1
  <2> QED
    BY <2>2, <2>3
<1>8. ASSUME NEW i \in DOMAIN q, NEW j \in DOMAIN q, NEW k \in DOMAIN q, i < j, j < k,
             IsPrefix(q[k], q[i])
      PROVE  IsPrefix(q[k], q[j])
  <2>1. i \in 1..n /\ j \in 1..n
    BY <1>1, <1>8
  <2>2. CASE k = n + 1
    BY <1>1, <1>5, <2>2
  <2>3. CASE k # n + 1
    <3>1. k \in 1..n
      BY <1>1, <2>3
    <3> QED
      BY <1>1, <1>8, <2>1, <3>1
  <2> QED
    BY <2>2, <2>3
<1>9. Traverses(q, lanes, node)
  BY <1>2, <1>5, <1>6, <1>7, <1>8 DEF Traverses
<1>10. RowsOfPath(lanes, q) = RowsOfPath(lanes, path) \o <<Row(lanes, node)>>
  <2> DEFINE S == {Row(lanes, m) : m \in N}
             rows == RowsOfPath(lanes, path)
             both == RowsOfPath(lanes, q)
  <2>1. rows = [i \in 1..n |-> Row(lanes, path[i])] /\ both = [i \in 1..(n + 1) |-> Row(lanes, q[i])]
    BY <1>1 DEF RowsOfPath
  <2>2. \A i \in 1..n : path[i] \in N
    BY <1>1
  <2>3. rows \in Seq(S) /\ Len(rows) = n /\ \A i \in 1..n : rows[i] = Row(lanes, q[i])
    <3>1. \A i \in 1..n : Row(lanes, path[i]) \in S
      BY <2>2
    <3> HIDE DEF S
    <3> QED
      BY <1>1, <2>1, <3>1
  <2>4. Row(lanes, node) \in S /\ Row(lanes, node) = Row(lanes, q[n + 1])
    BY <1>1
  <2> HIDE DEF rows, S, both
  <2> QED
    BY <1>1, <2>1, <2>3, <2>4 DEF rows, both
<1> QED
  BY <1>9, <1>10 DEF q

\* What is above a row has no lane before that of the row.
LEMMA LaneAbove ==
  ASSUME NEW lanes, Lanelike(lanes), NEW m \in Nodes(lanes), NEW n \in Nodes(lanes), IsPrefix(m, n)
  PROVE  LaneOf(lanes, m) <= LaneOf(lanes, n)
<1> DEFINE X == Identities(lanes)
           p == PathOf(lanes[LaneOf(lanes, n)])
<1>1. /\ m \in Seq(X) /\ n \in Seq(X) /\ LaneOf(lanes, n) \in DOMAIN lanes /\ IsPrefix(n, p)
      /\ \A i \in DOMAIN lanes : IsPrefix(m, PathOf(lanes[i])) => LaneOf(lanes, m) <= i
  BY NodeLane
<1>2. p \in Seq(X)
  BY <1>1, PathIs
<1>3. IsPrefix(m, p)
  <2> HIDE DEF X, p
  <2> QED BY <1>1, <1>2, PrefixFacts
<1> QED
  BY <1>1, <1>3

\* Two nodes of which the second is above all that the first is right above.
Astride(m, n) == Len(n) >= Len(m) /\ \A k \in 1..(Len(m) - 1) : n[k] = m[k]

\* Before a row is reached, what is drawn above it comes from the left to the right.
LeftFirst(q, lanes) ==
    \A i, j \in DOMAIN q :
        i < j /\ Astride(q[i], q[j]) => LaneOf(lanes, q[i]) < LaneOf(lanes, q[j])

\* The traversals of the rows above a place, one after the other.
LEMMA JoinedLeft ==
  ASSUME NEW lanes, Lanelike(lanes), NEW node \in Places(lanes),
         NEW above, above = RowsAbove(lanes, node),
         NEW qs, \A k \in DOMAIN above : Traverses(qs[k], lanes, above[k]) /\ LeftFirst(qs[k], lanes),
         NEW path \in Seq(Nodes(lanes)), NEW at, Comes(at, path, qs, Len(above))
  PROVE  LeftFirst(path, lanes)
<1> DEFINE X == Identities(lanes)
<1>1. /\ above \in Seq(Upper(lanes, node))
      /\ \A j, k \in DOMAIN above : j < k => LaneOf(lanes, above[j]) < LaneOf(lanes, above[k])
      /\ DOMAIN above = 1..Len(above) /\ Len(above) \in Nat
  <2>1. above \in Seq(Upper(lanes, node))
    BY AboveIs
  <2>2. \A j, k \in DOMAIN above : j < k => LaneOf(lanes, above[j]) < LaneOf(lanes, above[k])
    BY AboveIs
  <2> QED
    BY <2>1, <2>2
<1>2. \A k \in DOMAIN above : above[k] \in Nodes(lanes) /\ Len(above[k]) = Len(node) + 1
  <2>1. \A k \in DOMAIN above : above[k] \in Upper(lanes, node)
    BY <1>1
  <2> QED
    BY <2>1 DEF Upper
<1>3. ASSUME NEW n \in Nodes(lanes)
      PROVE  n \in Seq(X) /\ Len(n) \in Nat /\ LaneOf(lanes, n) \in Nat /\ Len(n) > 0
  <2>1. n \in Seq(X) /\ Len(n) \in Nat /\ LaneOf(lanes, n) \in DOMAIN lanes /\ Len(n) > 0
    BY NodeLane
  <2> QED
    BY <2>1 DEF Lanelike
<1>4. ASSUME NEW i \in DOMAIN path
      PROVE  /\ at[i][1] \in DOMAIN above /\ at[i][2] \in DOMAIN qs[at[i][1]]
             /\ path[i] = qs[at[i][1]][at[i][2]] /\ path[i] \in Nodes(lanes)
             /\ IsPrefix(above[at[i][1]], path[i])
  <2>1. /\ at[i][1] \in DOMAIN above /\ at[i][2] \in DOMAIN qs[at[i][1]]
        /\ path[i] = qs[at[i][1]][at[i][2]]
    BY <1>1 DEF Comes
  <2>2. path[i] \in Nodes(lanes)
    OBVIOUS
  <2>3. Traverses(qs[at[i][1]], lanes, above[at[i][1]])
    BY <2>1
  <2> QED
    BY <2>1, <2>2, <2>3 DEF Traverses
<1> SUFFICES ASSUME NEW i \in DOMAIN path, NEW j \in DOMAIN path, i < j, Astride(path[i], path[j])
             PROVE  LaneOf(lanes, path[i]) < LaneOf(lanes, path[j])
  BY DEF LeftFirst
<1> DEFINE a == at[i][1]
           b == at[j][1]
<1>5. /\ a \in DOMAIN above /\ b \in DOMAIN above /\ path[i] \in Nodes(lanes) /\ path[j] \in Nodes(lanes)
      /\ IsPrefix(above[a], path[i]) /\ IsPrefix(above[b], path[j])
      /\ a < b \/ (a = b /\ at[i][2] < at[j][2])
  <2>1. a < b \/ (a = b /\ at[i][2] < at[j][2])
    BY DEF Comes
  <2> QED
    BY <1>4, <2>1
<1>6. CASE a = b
  <2>1. LeftFirst(qs[a], lanes) /\ at[i][2] < at[j][2]
    <3>1. a \in Int
      BY <1>1, <1>5
    <3> QED
      BY <1>5, <1>6, <3>1
  <2>2. /\ at[i][2] \in DOMAIN qs[a] /\ path[i] = qs[a][at[i][2]]
        /\ at[j][2] \in DOMAIN qs[a] /\ path[j] = qs[a][at[j][2]]
    BY <1>4, <1>6
  <2> HIDE DEF a
  <2> QED
    BY <2>1, <2>2 DEF LeftFirst
<1>7. CASE a # b
  <2>1. a < b
    BY <1>5, <1>7
  <2> HIDE DEF a, b
  <2>2. /\ above[a] \in Nodes(lanes) /\ above[b] \in Nodes(lanes) /\ Len(above[a]) = Len(above[b])
        /\ LaneOf(lanes, above[a]) < LaneOf(lanes, above[b])
    BY <1>1, <1>2, <1>5, <2>1
  <2>3. /\ above[a] \in Seq(X) /\ above[b] \in Seq(X) /\ path[i] \in Seq(X) /\ path[j] \in Seq(X)
        /\ Len(above[a]) \in Nat /\ Len(path[i]) \in Nat /\ Len(path[j]) \in Nat
        /\ LaneOf(lanes, above[a]) \in Nat /\ LaneOf(lanes, above[b]) \in Nat
        /\ LaneOf(lanes, path[j]) \in Nat
    BY <1>3, <1>5, <2>2
  <2> HIDE DEF X
  <2>4. Len(above[a]) <= Len(path[i])
    BY <1>5, <2>3, PrefixFacts
  <2>5. Len(path[i]) = Len(above[a])
    <3> SUFFICES ASSUME Len(path[i]) # Len(above[a]) PROVE FALSE
      OBVIOUS
    <3>1. Len(above[a]) <= Len(path[i]) - 1 /\ Len(above[a]) <= Len(path[j])
      BY <2>3, <2>4 DEF Astride
    <3>2. \A k \in 1..Len(above[a]) : path[j][k] = path[i][k] /\ above[a][k] = path[i][k]
      <4>1. \A k \in 1..Len(above[a]) : k \in 1..(Len(path[i]) - 1)
        BY <2>3, <3>1
      <4>2. \A k \in 1..Len(above[a]) : path[j][k] = path[i][k]
        BY <4>1 DEF Astride
      <4>3. \A k \in 1..Len(above[a]) : above[a][k] = path[i][k]
        <5> HIDE DEF Astride
        <5> QED BY <1>5, <2>3, PrefixIs
      <4> QED
        BY <4>2, <4>3
    <3>3. IsPrefix(above[a], path[j])
      <4> DEFINE s == above[a]
                 t == path[j]
      <4>1. Len(s) <= Len(t) /\ \A k \in 1..Len(s) : s[k] = t[k]
        BY <3>1, <3>2
      <4>2. s \in Seq(X) /\ t \in Seq(X)
        BY <2>3
      <4> HIDE DEF s, t
      <4> QED
        BY <4>1, <4>2, PrefixIs DEF s, t
    <3>4. IsPrefix(above[a], above[b])
      BY <1>5, <2>2, <2>3, <3>3, PrefixFacts
    <3>5. above[a] = above[b]
      BY <2>2, <2>3, <3>4, PrefixFacts
    <3> QED
      BY <2>2, <2>3, <3>5
  <2>6. path[i] = above[a]
    BY <1>5, <2>3, <2>5, PrefixFacts
  <2>7. LaneOf(lanes, above[b]) <= LaneOf(lanes, path[j])
    BY <1>5, <2>2, LaneAbove
  <2> QED
    BY <2>2, <2>3, <2>6, <2>7
<1> QED
  BY <1>6, <1>7

\* A place after the rows above it.
LEMMA PlaceLeft ==
  ASSUME NEW lanes, Lanelike(lanes), NEW node \in Nodes(lanes), NEW path \in Seq(Nodes(lanes)),
         \A i \in DOMAIN path : Len(path[i]) > Len(node), LeftFirst(path, lanes)
  PROVE  LeftFirst(Append(path, node), lanes)
<1> DEFINE n == Len(path)
           q == Append(path, node)
<1>1. /\ n \in Nat /\ DOMAIN path = 1..n /\ DOMAIN q = 1..(n + 1) /\ q[n + 1] = node
      /\ \A i \in 1..n : q[i] = path[i]
  OBVIOUS
<1> HIDE DEF q
<1> SUFFICES ASSUME NEW i \in DOMAIN q, NEW j \in DOMAIN q, i < j, Astride(q[i], q[j])
             PROVE  LaneOf(lanes, q[i]) < LaneOf(lanes, q[j])
  BY DEF LeftFirst, q
<1>2. i \in 1..n
  BY <1>1
<1>3. CASE j = n + 1
  <2>1. q[i] = path[i] /\ Len(path[i]) > Len(node) /\ q[j] = node /\ path[i] \in Nodes(lanes)
    BY <1>1, <1>2, <1>3
  <2>2. Len(path[i]) \in Nat /\ Len(node) \in Nat
    BY <2>1, NodeLane
  <2>3. Len(node) >= Len(path[i])
    BY <2>1 DEF Astride
  <2> QED
    BY <2>1, <2>2, <2>3
<1>4. CASE j # n + 1
  <2>1. j \in 1..n
    BY <1>1, <1>4
  <2> QED
    BY <1>1, <1>2, <2>1 DEF LeftFirst
<1> QED
  BY <1>3, <1>4

\* The rows of a group are those of a traversal of its nodes, from the left.
LEMMA RowsAre ==
  ASSUME NEW lanes, Lanelike(lanes)
  PROVE  \E q : /\ Traverses(q, lanes, <<>>) /\ LeftFirst(q, lanes)
              /\ SharedAncestry(lanes).rows = RowsOfPath(lanes, q)
<1> DEFINE D == Places(lanes)
           T == RowSet(lanes)
           N == Nodes(lanes)
<1>1. PICK upTo \in [D -> Seq(T)] : Ordered(lanes, upTo) /\ SharedAncestry(lanes).rows = upTo[<<>>]
  BY AncestrySolved
<1>b. PICK bound \in Nat : \A node \in D : Len(node) \in Nat /\ Len(node) <= bound
  BY NodesBounded
<1> DEFINE Good(node) == \E q : /\ Traverses(q, lanes, node) /\ LeftFirst(q, lanes)
                              /\ upTo[node] = RowsOfPath(lanes, q)
           bad == {node \in D : ~Good(node)}
           rank == [node \in D |-> bound - Len(node)]
<1>2. bad = {}
  <2> SUFFICES ASSUME bad # {} PROVE FALSE
    OBVIOUS
  <2> DEFINE ranks == {rank[node] : node \in bad}
  <2>1. ranks \in SUBSET Nat /\ ranks # {}
    BY <1>b
  <2>2. PICK r \in ranks : \A t \in ranks : r <= t
    <3> HIDE DEF ranks
    <3> QED BY <2>1, LeastNatural
  <2>3. PICK node \in bad : \A other \in bad : rank[node] <= rank[other]
    <3> HIDE DEF bad, rank
    <3> QED BY <2>2
  <2>4. node \in D /\ ~Good(node)
    BY <2>3
  <2> DEFINE above == RowsAbove(lanes, node)
             count == Len(above)
             qs == [k \in 1..count |->
                      CHOOSE q : /\ Traverses(q, lanes, above[k]) /\ LeftFirst(q, lanes)
                                 /\ upTo[above[k]] = RowsOfPath(lanes, q)]
             seqs == [k \in DOMAIN above |-> upTo[above[k]]]
             flat == FlattenSeq(seqs)
  <2>5. above \in Seq(Upper(lanes, node))
    BY <2>4, AboveIs
  <2>6. count \in Nat /\ DOMAIN above = 1..count /\ \A k \in 1..count : above[k] \in Upper(lanes, node)
    <3> HIDE DEF above
    <3> QED BY <2>5
  <2> HIDE DEF count
  <2>7. ASSUME NEW k \in 1..count
        PROVE  above[k] \in D /\ Good(above[k])
    <3>1. above[k] \in D /\ Len(above[k]) = Len(node) + 1
      BY <2>6 DEF Upper, Places
    <3>2. Len(node) \in Nat /\ Len(above[k]) \in Nat /\ Len(above[k]) <= bound
      BY <1>b, <2>4, <3>1
    <3>3. rank[above[k]] < rank[node] /\ rank[above[k]] \in Int /\ rank[node] \in Int
      <4> HIDE DEF above
      <4> QED BY <1>b, <2>4, <3>1, <3>2
    <3>4. above[k] \notin bad
      <4> HIDE DEF bad, rank, above
      <4> QED BY <2>3, <3>3
    <3> HIDE DEF Good, D, above
    <3> QED
      BY <3>1, <3>4
  <2>8. ASSUME NEW k \in 1..count
        PROVE  /\ Traverses(qs[k], lanes, above[k]) /\ LeftFirst(qs[k], lanes)
               /\ upTo[above[k]] = RowsOfPath(lanes, qs[k])
               /\ qs[k] \in Seq(N)
    <3>1. \E q : /\ Traverses(q, lanes, above[k]) /\ LeftFirst(q, lanes)
                 /\ upTo[above[k]] = RowsOfPath(lanes, q)
      BY <2>7
    <3> HIDE DEF above
    <3>2. /\ Traverses(qs[k], lanes, above[k]) /\ LeftFirst(qs[k], lanes)
          /\ upTo[above[k]] = RowsOfPath(lanes, qs[k])
      BY <3>1
    <3> QED
      BY <3>2 DEF Traverses
  <2>9. \A k \in 1..count : seqs[k] = RowsOfPath(lanes, qs[k]) /\ seqs[k] \in Seq(T)
    <3>1. \A k \in 1..count : seqs[k] = upTo[above[k]]
      BY <2>6
    <3>2. \A k \in 1..count : upTo[above[k]] \in Seq(T)
      <4> HIDE DEF above, D, T
      <4> QED BY <2>7
    <3> HIDE DEF seqs, qs, above
    <3> QED
      BY <2>8, <3>1, <3>2
  <2>10. seqs \in Seq(Seq(T)) /\ Len(seqs) = count
    <3>1. seqs = [k \in 1..count |-> seqs[k]]
      BY <2>6
    <3>2. DOMAIN seqs = 1..count
      BY <2>6
    <3>3. \A k \in 1..count : seqs[k] \in Seq(T)
      BY <2>9
    <3> DEFINE V == Seq(T)
    <3> HIDE DEF seqs, V
    <3>4. count \in Nat
      BY <2>6
    <3>5. \A k \in 1..count : seqs[k] \in V
      BY <3>3 DEF V
    <3>6. seqs \in Seq(V) /\ Len(seqs) = count
      BY <3>1, <3>2, <3>4, <3>5, SequenceFrom
    <3> QED
      BY <3>6 DEF V
  <2>11. flat \in Seq(T) /\ \E at : Comes(at, flat, seqs, count)
    <3> HIDE DEF seqs, T
    <3> QED BY <2>10, FlattenIs
  <2>12. upTo[node] = flat \o IF node = <<>> THEN <<>> ELSE <<Row(lanes, node)>>
    BY <1>1, <2>4 DEF Ordered, Places
  <2> HIDE DEF flat, seqs, qs, T
  <2>13. PICK at : Comes(at, flat, seqs, count)
    BY <2>11
  <2>14. PICK path \in Seq(N) : Comes(at, path, qs, count) /\ flat = RowsOfPath(lanes, path)
    <3>1. RowsOver(seqs, qs, count, lanes)
      BY <2>8, <2>9 DEF RowsOver
    <3>2. count \in Nat /\ IsSequence(flat)
      BY <2>6, <2>11, OverIts
    <3>3. RowsTogether(at, flat, qs, count, lanes)
      BY <2>13, <3>1, <3>2, JoinedRows
    <3> QED
      BY <3>3 DEF RowsTogether
  <2>15. /\ \A i \in DOMAIN path : IsPrefix(node, path[i]) /\ Len(path[i]) > Len(node)
         /\ \A m \in N : IsPrefix(node, m) /\ Len(m) > Len(node) => \E i \in DOMAIN path : path[i] = m
         /\ \A i, j \in DOMAIN path : i < j => ~IsPrefix(path[i], path[j])
         /\ \A i, j, k \in DOMAIN path :
              i < j /\ j < k /\ IsPrefix(path[k], path[i]) => IsPrefix(path[k], path[j])
         /\ LeftFirst(path, lanes)
    <3>1. node \in Places(lanes) /\ above = RowsAbove(lanes, node) /\ path \in Seq(Nodes(lanes))
      BY <2>4
    <3>2. \A k \in DOMAIN above : Traverses(qs[k], lanes, above[k]) /\ LeftFirst(qs[k], lanes)
      BY <2>6, <2>8
    <3>3. Comes(at, path, qs, Len(above))
      BY <2>14 DEF count
    <3> HIDE DEF above
    <3>4. LeftFirst(path, lanes)
      BY <3>1, <3>2, <3>3, JoinedLeft
    <3>5. \A k \in DOMAIN above : Traverses(qs[k], lanes, above[k])
      BY <3>2
    <3>6. /\ \A i \in DOMAIN path : IsPrefix(node, path[i]) /\ Len(path[i]) > Len(node)
          /\ \A m \in N : IsPrefix(node, m) /\ Len(m) > Len(node) => \E i \in DOMAIN path : path[i] = m
          /\ \A i, j \in DOMAIN path : i < j => ~IsPrefix(path[i], path[j])
          /\ \A i, j, k \in DOMAIN path :
               i < j /\ j < k /\ IsPrefix(path[k], path[i]) => IsPrefix(path[k], path[j])
      BY <3>1, <3>3, <3>5, JoinedTraversals
    <3> QED
      BY <3>4, <3>6
  <2>16. CASE node = <<>>
    <3>1. upTo[node] = flat
      BY <2>11, <2>12, <2>16
    <3>2. \A m \in N : m \in Seq(Identities(lanes)) /\ Len(m) \in Nat /\ Len(m) > 0
      BY NodeLane
    <3>3. \A m \in N : IsPrefix(<<>>, m) /\ Len(m) > Len(<<>>)
      BY <3>2, PrefixFacts
    <3>4. Traverses(path, lanes, node)
      BY <2>14, <2>15, <2>16, <3>3 DEF Traverses
    <3> QED
      BY <2>4, <2>14, <2>15, <3>1, <3>4
  <2>17. CASE node # <<>>
    <3>1. node \in Nodes(lanes)
      BY <2>4, <2>17 DEF Places
    <3>2. /\ Traverses(Append(path, node), lanes, node)
          /\ RowsOfPath(lanes, Append(path, node)) = RowsOfPath(lanes, path) \o <<Row(lanes, node)>>
      BY <2>15, <3>1, PlaceLast
    <3>3. upTo[node] = flat \o <<Row(lanes, node)>>
      BY <2>12, <2>17
    <3>4. LeftFirst(Append(path, node), lanes)
      BY <2>15, <3>1, PlaceLeft
    <3> QED
      BY <2>4, <2>14, <3>2, <3>3, <3>4
  <2> QED
    BY <2>16, <2>17
<1>3. <<>> \in D
  BY DEF Places
<1>4. Good(<<>>)
  <2> HIDE DEF Good, D
  <2> QED BY <1>2, <1>3
<1> QED
  BY <1>1, <1>4

\* A lane that has been above a row of its path leads into it: it is that of one
\* of the rows right above.
LEMMA LaneComesBack ==
  ASSUME NEW lanes, Lanelike(lanes), NEW q, Traverses(q, lanes, <<>>),
         NEW i \in DOMAIN q, NEW j \in DOMAIN q, i < j, LaneOf(lanes, q[i]) = LaneOf(lanes, q[j])
  PROVE  LaneOf(lanes, q[j]) \in ToSet(LanesAbove(lanes, q[j]))
<1> DEFINE X == Identities(lanes)
           l == LaneOf(lanes, q[j])
           p == PathOf(lanes[l])
           m == q[i]
           node == q[j]
<1>1. m \in Nodes(lanes) /\ node \in Nodes(lanes) /\ ~IsPrefix(m, node)
  BY DEF Traverses
<1>2. /\ m \in Seq(X) /\ node \in Seq(X) /\ Len(m) \in Nat /\ Len(node) \in Nat
      /\ l \in DOMAIN lanes /\ IsPrefix(m, p) /\ IsPrefix(node, p)
  BY <1>1, NodeLane
<1>3. p \in Seq(X)
  BY <1>2, PathIs
<1>4. IsPrefix(node, m) /\ Len(m) > Len(node)
  <2> HIDE DEF m, node, p, X
  <2>1. ~(Len(m) <= Len(node))
    BY <1>1, <1>2, <1>3, PrefixFacts
  <2> QED
    BY <1>2, <1>3, <2>1, PrefixFacts
<1>5. PICK a \in Upper(lanes, node) : IsPrefix(a, m)
  BY <1>1, <1>4, StepUp DEF Places
<1>6. a \in Nodes(lanes) /\ IsPrefix(node, a)
  BY DEF Upper
<1>7. /\ a \in Seq(X) /\ LaneOf(lanes, a) \in DOMAIN lanes
      /\ IsPrefix(a, PathOf(lanes[LaneOf(lanes, a)]))
      /\ \A k \in DOMAIN lanes : IsPrefix(a, PathOf(lanes[k])) => LaneOf(lanes, a) <= k
  BY <1>6, NodeLane
<1>8. LaneOf(lanes, a) <= l
  <2>1. IsPrefix(a, p)
    <3> HIDE DEF p, m, X
    <3> QED BY <1>2, <1>3, <1>5, <1>7, PrefixFacts
  <2> QED
    BY <1>2, <1>7, <2>1
<1>9. l <= LaneOf(lanes, a)
  <2>1. PathOf(lanes[LaneOf(lanes, a)]) \in Seq(X)
    BY <1>7, PathIs
  <2>2. IsPrefix(node, PathOf(lanes[LaneOf(lanes, a)]))
    <3> HIDE DEF X, node
    <3> QED BY <1>2, <1>6, <1>7, <2>1, PrefixFacts
  <2> QED
    BY <1>1, <1>7, <2>2, NodeLane
<1>10. LaneOf(lanes, a) = l
  <2>1. l \in Nat /\ LaneOf(lanes, a) \in Nat
    BY <1>2, <1>7 DEF Lanelike
  <2> HIDE DEF l
  <2> QED
    BY <1>8, <1>9, <2>1
<1>11. PICK k \in DOMAIN RowsAbove(lanes, node) : RowsAbove(lanes, node)[k] = a
  BY <1>1, AboveIs DEF Places
<1>12. k \in DOMAIN LanesAbove(lanes, node) /\ LanesAbove(lanes, node)[k] = l
  BY <1>10, <1>11 DEF LanesAbove
<1> QED
  BY <1>12 DEF ToSet

----------------------------------------------------------------------------
(* The rows that start a segment.                                          *)

\* The lanes that are active when a row is reached: those of rows above it that
\* have not ended since.
Alive(g, n) ==
    {Rows(g)[j].lane : j \in {i \in 1..(n - 1) :
        \A k \in (i + 1)..(n - 1) : Rows(g)[i].lane \notin Joined(Rows(g)[k])}}

\* A segment begins where a lane is not yet active and where lanes join.
Begins(g, n) == Rows(g)[n].lane \notin Alive(g, n) \/ Joined(Rows(g)[n]) # {}

\* A row makes its lane active and ends those it joins.
LEMMA AliveNext ==
  ASSUME NEW g, NEW n \in Nat \ {0}
  PROVE  /\ Alive(g, n + 1) = {Rows(g)[n].lane} \cup (Alive(g, n) \ Joined(Rows(g)[n]))
         /\ Alive(g, 1) = {} /\ Alive(g, 0) = {}
<1> DEFINE lane(i) == Rows(g)[i].lane
           joined(i) == Joined(Rows(g)[i])
<1>1. \A l, m : l \in Alive(g, m) <=>
        \E i \in 1..(m - 1) : l = lane(i) /\ \A k \in (i + 1)..(m - 1) : l \notin joined(k)
  BY DEF Alive
<1> HIDE DEF lane, joined
<1>2. ASSUME NEW l, l \in Alive(g, n + 1) PROVE l \in {lane(n)} \cup (Alive(g, n) \ joined(n))
  <2>1. PICK i \in 1..n : l = lane(i) /\ \A k \in (i + 1)..n : l \notin joined(k)
    BY <1>1, <1>2
  <2>2. CASE i = n
    BY <2>1, <2>2
  <2>3. CASE i # n
    <3>1. i \in 1..(n - 1) /\ n \in (i + 1)..n /\ (i + 1)..(n - 1) \subseteq (i + 1)..n
      BY <2>3
    <3>2. l \notin joined(n) /\ \A k \in (i + 1)..(n - 1) : l \notin joined(k)
      BY <2>1, <3>1
    <3> QED
      BY <1>1, <2>1, <3>1, <3>2
  <2> QED
    BY <2>2, <2>3
<1>3. ASSUME NEW l \in {lane(n)} \cup (Alive(g, n) \ joined(n)) PROVE l \in Alive(g, n + 1)
  <2>0. (n + 1) - 1 = n
    OBVIOUS
  <2>1. CASE l = lane(n)
    <3>1. n \in 1..n /\ (n + 1)..n = {}
      OBVIOUS
    <3> QED
      BY <1>1, <2>0, <2>1, <3>1
  <2>2. CASE l \in Alive(g, n) /\ l \notin joined(n)
    <3>1. PICK i \in 1..(n - 1) : l = lane(i) /\ \A k \in (i + 1)..(n - 1) : l \notin joined(k)
      BY <1>1, <2>2
    <3>2. i \in 1..n /\ \A k \in (i + 1)..n : k = n \/ k \in (i + 1)..(n - 1)
      OBVIOUS
    <3>3. \A k \in (i + 1)..n : l \notin joined(k)
      BY <2>2, <3>1, <3>2
    <3> QED
      BY <1>1, <2>0, <3>1, <3>2, <3>3
  <2> QED
    BY <2>1, <2>2
<1>4. Alive(g, 1) = {} /\ Alive(g, 0) = {}
  <2>1. 1..(1 - 1) = {} /\ 1..(0 - 1) = {}
    OBVIOUS
  <2> QED
    BY <1>1, <2>1
<1>5. Alive(g, n + 1) = {lane(n)} \cup (Alive(g, n) \ joined(n))
  BY <1>2, <1>3
<1> QED
  BY <1>4, <1>5 DEF lane, joined

\* Where several lanes end, the lane of the row is one of them if it is active: the
\* drawing starts a segment exactly where the colouring does.
LEMMA BeginsAre ==
  ASSUME Arranged, NEW g \in DOMAIN groups, NEW n \in 1..Len(Rows(g))
  PROVE  Begins(g, n) <=> Rows(g)[n].lane \notin Alive(g, n) \ Joined(Rows(g)[n])
<1> DEFINE lanes == Lanes(g)
<1>1. Lanelike(lanes) /\ Len(Rows(g)) \in Nat
  BY RowsAreFit
<1>2. PICK q : Traverses(q, lanes, <<>>) /\ SharedAncestry(lanes).rows = RowsOfPath(lanes, q)
  BY <1>1, RowsAre
<1>3. Rows(g) = RowsOfPath(lanes, q)
  BY <1>2 DEF Arranged, Rows, Lanes
<1>4. DOMAIN q = 1..Len(Rows(g))
  <2>1. DOMAIN Rows(g) = 1..Len(Rows(g))
    BY RowsAreFit
  <2>2. DOMAIN RowsOfPath(lanes, q) = DOMAIN q
    BY DEF RowsOfPath
  <2> QED
    BY <1>3, <2>1, <2>2
<1>5. \A i \in 1..Len(Rows(g)) : Rows(g)[i] = Row(lanes, q[i])
  BY <1>3, <1>4 DEF RowsOfPath
<1>6. \A i \in 1..Len(Rows(g)) : /\ Rows(g)[i].lane = LaneOf(lanes, q[i])
                                 /\ Rows(g)[i].children = LanesAbove(lanes, q[i])
  <2>1. \A m : Row(lanes, m).lane = LaneOf(lanes, m) /\ Row(lanes, m).children = LanesAbove(lanes, m)
    BY DEF Row
  <2> QED
    BY <1>5, <2>1
<1> SUFFICES ASSUME Rows(g)[n].lane \in Alive(g, n), Joined(Rows(g)[n]) # {}
             PROVE  Rows(g)[n].lane \in Joined(Rows(g)[n])
  BY DEF Begins
<1>7. PICK i \in 1..(n - 1) : Rows(g)[i].lane = Rows(g)[n].lane
  BY DEF Alive
<1>8. i \in 1..Len(Rows(g)) /\ i < n
  BY <1>1
<1>9. LaneOf(lanes, q[n]) \in ToSet(LanesAbove(lanes, q[n]))
  <2>1. i \in DOMAIN q /\ n \in DOMAIN q /\ LaneOf(lanes, q[i]) = LaneOf(lanes, q[n])
    BY <1>4, <1>6, <1>7, <1>8
  <2> HIDE DEF lanes
  <2> QED
    BY <1>1, <1>2, <1>8, <2>1, LaneComesBack
<1> QED
  BY <1>6, <1>9 DEF Joined

----------------------------------------------------------------------------
(* Their number.                                                           *)

\* The rows that start a segment, and those among them before a row.
Beginnings ==
    {p \in Nat \X Nat : /\ p[1] \in DOMAIN groups /\ IsConnected(p[1])
                        /\ p[2] \in 1..Len(Rows(p[1])) /\ Begins(p[1], p[2])}

\* The beginnings above a row.
BegunBefore(g, n) == {p \in Beginnings : p[1] < g \/ (p[1] = g /\ p[2] < n)}

\* One row more.
LEMMA BegunNext ==
  ASSUME NEW g \in DOMAIN groups, IsSequence(groups), IsConnected(g), NEW n \in 1..Len(Rows(g)),
         Len(Rows(g)) \in Nat, IsFiniteSet(BegunBefore(g, n))
  PROVE  /\ IsFiniteSet(BegunBefore(g, n + 1))
         /\ Cardinality(BegunBefore(g, n + 1)) =
              Cardinality(BegunBefore(g, n)) + (IF Begins(g, n) THEN 1 ELSE 0)
<1>1. n \in Nat /\ g \in Nat
  BY DEF IsSequence
<1>2. \A p \in Beginnings : p = <<p[1], p[2]>> /\ p[1] \in Nat /\ p[2] \in Nat
  BY DEF Beginnings
<1>3. <<g, n>> \notin BegunBefore(g, n)
  BY <1>1 DEF BegunBefore
<1>4. <<g, n>> \in Beginnings <=> Begins(g, n)
  BY <1>1 DEF Beginnings
<1>5. BegunBefore(g, n + 1) = BegunBefore(g, n) \cup (IF Begins(g, n) THEN {<<g, n>>} ELSE {})
  <2>1. \A p \in Beginnings : p[1] = g /\ p[2] < n + 1 <=> p = <<g, n>> \/ (p[1] = g /\ p[2] < n)
    BY <1>1, <1>2
  <2> QED
    BY <1>1, <1>2, <1>4, <2>1 DEF BegunBefore
<1>6. Cardinality(BegunBefore(g, n)) \in Nat
  BY FS_CardinalityType
<1>7. CASE Begins(g, n)
  <2>1. BegunBefore(g, n + 1) = BegunBefore(g, n) \cup {<<g, n>>}
    BY <1>5, <1>7
  <2> QED
    BY <1>3, <1>6, <1>7, <2>1, FS_AddElement
<1>8. CASE ~Begins(g, n)
  <2>1. BegunBefore(g, n + 1) = BegunBefore(g, n)
    BY <1>5, <1>8
  <2> QED
    BY <1>6, <1>8, <2>1
<1> QED
  BY <1>7, <1>8

\* A group whose rows have been seen, or that has none that count.
LEMMA BegunAcross ==
  ASSUME IsSequence(groups), NEW g \in DOMAIN groups, NEW n \in Nat,
         ~IsConnected(g) \/ (Len(Rows(g)) \in Nat /\ n > Len(Rows(g)))
  PROVE  /\ BegunBefore(g + 1, 0) = BegunBefore(g, n)
         /\ BegunBefore(g + 1, 1) = BegunBefore(g, n)
<1>1. g \in Nat
  BY DEF IsSequence
<1>2. \A p \in Beginnings : p[1] \in Nat /\ p[2] \in Nat /\ p[2] >= 1
  BY DEF Beginnings
<1>3. \A p \in Beginnings : p[1] = g => p[2] < n
  BY DEF Beginnings
<1>4. \A p \in Beginnings : /\ (p[1] < g + 1 <=> p[1] < g \/ p[1] = g)
                            /\ ~(p[2] < 0) /\ ~(p[2] < 1)
  BY <1>1, <1>2
<1> QED
  BY <1>3, <1>4 DEF BegunBefore

\* The first row, and the last.
LEMMA BegunEnds ==
  ASSUME IsSequence(groups)
  PROVE  /\ BegunBefore(1, 1) = {} /\ BegunBefore(1, 0) = {}
         /\ \A g \in Nat : BegunBefore(g, 0) = BegunBefore(g, 1)
         /\ \A g \in Nat : g > Len(groups) => \A n \in Nat : BegunBefore(g, n) = Beginnings
         /\ \A g, n : BegunBefore(g, n) \subseteq Beginnings
<1>1. \A p \in Beginnings : p[1] \in 1..Len(groups) /\ p[2] \in Nat /\ p[2] >= 1
  BY DEF Beginnings, IsSequence
<1>2. Len(groups) \in Nat
  BY DEF IsSequence
<1>3. \A p \in Beginnings : p[1] \in Nat /\ ~(p[1] < 1) /\ ~(p[2] < 1) /\ ~(p[2] < 0)
  BY <1>1, <1>2
<1>4. BegunBefore(1, 1) = {} /\ BegunBefore(1, 0) = {}
  BY <1>3 DEF BegunBefore
<1>5. \A g \in Nat : BegunBefore(g, 0) = BegunBefore(g, 1)
  BY <1>3 DEF BegunBefore
<1>6. \A g \in Nat : g > Len(groups) => \A p \in Beginnings : p[1] < g
  BY <1>1, <1>2
<1> QED
  BY <1>4, <1>5, <1>6 DEF BegunBefore

\* What the drawing reads stays the same once it is in order.
LEMMA Unmoved ==
  ASSUME groups' = groups, prepared' = prepared
  PROVE  /\ Beginnings' = Beginnings
         /\ \A g, n : group' = g /\ row' = n =>
              Alive(group, row)' = Alive(g, n) /\ BegunBefore(group, row)' = BegunBefore(g, n)
<1>1. \A g, n : Begins(g, n)' <=> Begins(g, n)
  BY DEF Begins, Alive, Rows, Joined
<1>2. Beginnings' = Beginnings
  BY <1>1 DEF Beginnings, IsConnected, Rows
<1>3. ASSUME NEW g, NEW n, group' = g, row' = n PROVE Alive(group, row)' = Alive(g, n)
  BY <1>3 DEF Alive, Rows, Joined
<1>4. ASSUME NEW g, NEW n, group' = g, row' = n PROVE BegunBefore(group, row)' = BegunBefore(g, n)
  BY <1>2, <1>4 DEF BegunBefore
<1> QED
  BY <1>2, <1>3, <1>4

\* Every segment so far has been begun by a row so far, and the active lanes are
\* those of the rows so far.
Counting ==
    /\ DOMAIN active = Alive(group, row)
    /\ IsFiniteSet(BegunBefore(group, row))
    /\ Len(segments) = Cardinality(BegunBefore(group, row))
    /\ colours = <<>>

\* There are as many segments as beginnings.
Counted ==
    /\ IsFiniteSet(Beginnings)
    /\ Len(segments) = Cardinality(Beginnings)

\* A row keeps the count of beginnings.
LEMMA VisitRowCounts ==
  ASSUME Arranged, Tracing, Counting, VisitRow
  PROVE  Counting'
<1> DEFINE g == group
           n == row
           r == Rows(g)[n]
<1>1. group \in DOMAIN groups /\ IsSequence(groups) /\ row \in 1..Len(Rows(group)) /\ IsConnected(group)
      /\ Len(Rows(group)) \in Nat /\ row \in Nat \ {0}
  <2>1. group <= Len(groups) /\ row <= Len(Rows(group)) /\ group \in Nat \ {0} /\ row \in Nat \ {0}
        /\ IsConnected(group)
    BY DEF VisitRow, Tracing
  <2>2. IsSequence(groups) /\ DOMAIN groups = 1..Len(groups) /\ Len(groups) \in Nat
    BY DEF Arranged, IsSequence
  <2>3. group \in DOMAIN groups
    BY <2>1, <2>2
  <2>4. Len(Rows(group)) \in Nat
    BY <2>3, RowsAreFit
  <2> QED
    BY <2>1, <2>2, <2>3, <2>4
<1>2. /\ groups' = groups /\ prepared' = prepared /\ group' = g /\ row' = n + 1 /\ colours' = colours
      /\ DOMAIN active' = {r.lane} \cup (DOMAIN active \ Joined(r))
  BY DEF VisitRow, inputVars
<1>3. Alive(group, row)' = Alive(g, n + 1) /\ BegunBefore(group, row)' = BegunBefore(g, n + 1)
  BY <1>2, Unmoved
<1>4. DOMAIN active' = Alive(g, n + 1)
  <2>1. Alive(g, n + 1) = {Rows(g)[n].lane} \cup (Alive(g, n) \ Joined(Rows(g)[n]))
    BY <1>1, AliveNext
  <2> QED
    BY <1>2, <2>1 DEF Counting
<1>5. Len(segments') = (IF Begins(g, n) THEN Len(segments) + 1 ELSE Len(segments))
  <2>1. Starts <=> Begins(g, n)
    BY DEF Starts, Begins, Counting
  <2>2. Len(segments') = (IF Starts THEN Len(segments) + 1 ELSE Len(segments))
    BY VisitRowKeeps
  <2> QED
    BY <2>1, <2>2
<1>6. /\ IsFiniteSet(BegunBefore(g, n + 1))
      /\ Cardinality(BegunBefore(g, n + 1)) =
           Cardinality(BegunBefore(g, n)) + (IF Begins(g, n) THEN 1 ELSE 0)
  BY <1>1, BegunNext DEF Counting
<1>7. Len(segments) = Cardinality(BegunBefore(g, n)) /\ Len(segments) \in Nat /\ colours = <<>>
  BY DEF Counting, Tracing, Linking
<1>8. Len(segments') = Cardinality(BegunBefore(g, n + 1))
  BY <1>5, <1>6, <1>7
<1> HIDE DEF g, n, r
<1> QED
  BY <1>2, <1>3, <1>4, <1>6, <1>7, <1>8 DEF Counting

\* The next group keeps the count of beginnings.
LEMMA VisitGroupCounts ==
  ASSUME Arranged, Tracing, Counting, VisitGroup
  PROVE  Counting'
<1> DEFINE g == group
<1>1. group \in DOMAIN groups /\ IsSequence(groups) /\ row \in Nat
      /\ (~IsConnected(group) \/ (Len(Rows(group)) \in Nat /\ row > Len(Rows(group))))
  <2>1. group <= Len(groups) /\ group \in Nat \ {0} /\ row \in Nat \ {0}
        /\ (~IsConnected(group) \/ row > Len(Rows(group)))
    BY DEF VisitGroup, Tracing
  <2>2. IsSequence(groups) /\ DOMAIN groups = 1..Len(groups) /\ Len(groups) \in Nat
    BY DEF Arranged, IsSequence
  <2>3. group \in DOMAIN groups
    BY <2>1, <2>2
  <2>4. Len(Rows(group)) \in Nat
    BY <2>3, RowsAreFit
  <2> QED
    BY <2>1, <2>2, <2>3, <2>4
<1>2. /\ groups' = groups /\ prepared' = prepared /\ group' = g + 1 /\ row' = 1 /\ colours' = colours
      /\ active' = <<>> /\ segments' = segments
  BY DEF VisitGroup, inputVars, colourVars
<1>3. Alive(group, row)' = Alive(g + 1, 1) /\ BegunBefore(group, row)' = BegunBefore(g + 1, 1)
  BY <1>2, Unmoved
<1>4. DOMAIN active' = {} /\ Alive(g + 1, 1) = {}
  <2>1. 1 \in Nat \ {0}
    OBVIOUS
  <2> QED
    BY <1>2, <2>1, AliveNext
<1>5. BegunBefore(g + 1, 1) = BegunBefore(group, row)
  BY <1>1, BegunAcross
<1> HIDE DEF g
<1> QED
  BY <1>2, <1>3, <1>4, <1>5 DEF Counting

\* After the last group every beginning has been counted.
LEMMA LinkCounts ==
  ASSUME Arranged, Tracing, Counting, LinkSegments
  PROVE  Counted' /\ (\A e \in edges' : e \subseteq Ids' /\ Cardinality(e) = 2)
<1>1. /\ groups' = groups /\ prepared' = prepared /\ edges' = edges /\ DOMAIN segments' = Ids
      /\ segments' = [s \in Ids |->
                      [segments[s] EXCEPT !.neighbours = (UNION {e \in edges : s \in e}) \ {s}]]
  BY DEF LinkSegments, inputVars, topologyVars
<1>2. Ids = 1..Len(segments) /\ Len(segments) \in Nat
  BY DEF Tracing, Linking, Ids
<1>3. Len(segments') = Len(segments) /\ Ids' = Ids
  BY <1>1, <1>2 DEF Ids
<1>4. BegunBefore(group, row) = Beginnings
  <2>1. group > Len(groups) /\ group \in Nat /\ row \in Nat /\ IsSequence(groups)
    BY DEF LinkSegments, Tracing, Arranged
  <2> QED
    BY <2>1, BegunEnds
<1>5. Beginnings' = Beginnings
  BY <1>1, Unmoved
<1>6. Counted'
  BY <1>3, <1>4, <1>5 DEF Counting, Counted
<1>7. \A e \in edges' : e \subseteq Ids' /\ Cardinality(e) = 2
  BY <1>1, <1>3 DEF Tracing, Linking
<1> QED
  BY <1>6, <1>7

----------------------------------------------------------------------------
(* The picture.                                                            *)

\* A line, and lines, whose cells are numbered up to n.
CellsFit(p, n) ==
    \A l \in DOMAIN p.cells : p.cells[l].glyph \in Glyphs /\ p.cells[l].colour \in 0..n

\* A picture with at most n colours.
Painting(lines, n) == IsSequence(lines) /\ \A i \in DOMAIN lines : CellsFit(lines[i], n)

\* Two pictures below each other are one.
LEMMA PaintingJoins ==
  ASSUME NEW m \in Nat, NEW n \in Nat, m <= n, NEW a, Painting(a, m), NEW b, Painting(b, n)
  PROVE  Painting(a \o b, n)
<1> DEFINE S == {p \in ToSet(a) \cup ToSet(b) : CellsFit(p, n)}
<1>1. \A p : CellsFit(p, m) => CellsFit(p, n)
  BY DEF CellsFit
<1>2. a \in Seq(S) /\ b \in Seq(S)
  <2>1. /\ Len(a) \in Nat /\ DOMAIN a = 1..Len(a) /\ a = [i \in 1..Len(a) |-> a[i]]
        /\ Len(b) \in Nat /\ DOMAIN b = 1..Len(b) /\ b = [i \in 1..Len(b) |-> b[i]]
    BY DEF Painting, IsSequence
  <2>2. (\A i \in 1..Len(a) : a[i] \in S) /\ (\A i \in 1..Len(b) : b[i] \in S)
    BY <1>1, <2>1 DEF Painting, ToSet
  <2> HIDE DEF S
  <2> QED
    BY <2>1, <2>2
<1>3. a \o b \in Seq(S)
  <2> HIDE DEF S
  <2> QED BY <1>2
<1>4. IsSequence(a \o b) /\ ToSet(a \o b) \subseteq S
  <2> HIDE DEF S
  <2> QED BY <1>3, OverIts
<1>5. \A i \in DOMAIN (a \o b) : (a \o b)[i] \in S
  <2> HIDE DEF S
  <2> QED BY <1>3
<1> QED
  BY <1>4, <1>5 DEF Painting

\* A picture of one line.
LEMMA PaintingOne ==
  ASSUME NEW p, NEW n, CellsFit(p, n)
  PROVE  Painting(<<p>>, n)
<1>1. <<p>> \in Seq({p}) /\ \A i \in DOMAIN <<p>> : <<p>>[i] = p
  OBVIOUS
<1> QED
  BY <1>1, OverIts DEF Painting

\* The empty picture.
LEMMA PaintingNone == \A n : Painting(<<>>, n)
<1>1. <<>> \in Seq({}) /\ DOMAIN <<>> = {}
  OBVIOUS
<1> QED
  BY <1>1, OverIts DEF Painting

\* Lines without cells.
LEMMA BareLine ==
  ASSUME NEW kind, NEW spine, NEW label
  PROVE  \A n : CellsFit(Line(kind, spine, <<>>, label), n) /\ Painting(<<Line(kind, spine, <<>>, label)>>, n)
<1>1. Line(kind, spine, <<>>, label).cells = <<>>
  BY DEF Line
<1>2. DOMAIN <<>> = {}
  OBVIOUS
<1>3. \A n : CellsFit(Line(kind, spine, <<>>, label), n)
  BY <1>1, <1>2 DEF CellsFit
<1> QED
  BY <1>3, PaintingOne

\* What stands above a group has no coloured cells.
LEMMA PreludePaints ==
  ASSUME NEW n \in Nat, NEW g
  PROVE  Painting(Prelude(g), n)
<1> DEFINE distance == groups[g].distance
           space == <<TopSpacer(distance = 0 /\ Lanes(g) # <<>>)>>
           tip == IF distance > 0 THEN <<MainTip>> ELSE <<>>
           top == IF started THEN <<>> ELSE space \o tip
           gap == IF distance > drawn
                  THEN <<Line("gap", "dotted", <<>>, [count |-> distance - drawn, name |-> historyName])>>
                  ELSE <<>>
<1>1. Prelude(g) = top \o gap
  BY DEF Prelude
<1>2. Painting(space, n)
  BY BareLine DEF TopSpacer
<1>3. Painting(tip, n)
  BY BareLine, PaintingNone DEF MainTip
<1>4. Painting(gap, n)
  BY BareLine, PaintingNone
<1> HIDE DEF space, tip, gap
<1>5. Painting(space \o tip, n)
  BY <1>2, <1>3, PaintingJoins
<1>6. Painting(top, n)
  BY <1>5, PaintingNone
<1> HIDE DEF top
<1> QED
  BY <1>1, <1>4, <1>6, PaintingJoins

\* The cells of the three kinds of rows that have some.
LEMMA CellsAre ==
  ASSUME NEW n, NEW D, NEW lanes \in [D -> 0..n]
  PROVE  /\ \A kind, spine, label, children :
              CellsFit(Line(kind, spine, JunctionCells(children, lanes), label), n)
         /\ \A r, commit, spine, lane, visible :
              CellsFit(CommitRow(r, commit, spine, RowCells(lane, visible, lanes)), n)
         /\ \A kind, spine, label, roots :
              CellsFit(Line(kind, spine, TrunkCells(roots, lanes), label), n)
<1>1. /\ \A kind, spine, cells, label : Line(kind, spine, cells, label).cells = cells
      /\ \A r, commit, spine, cells : CommitRow(r, commit, spine, cells).cells = cells
  BY DEF Line, CommitRow
<1>2. ASSUME NEW children, NEW l \in DOMAIN JunctionCells(children, lanes)
      PROVE  JunctionCells(children, lanes)[l].glyph \in Glyphs /\ JunctionCells(children, lanes)[l].colour \in 0..n
  <2>1. l \in D
    BY DEF JunctionCells
  <2> QED
    BY <2>1 DEF JunctionCells, Glyphs
<1>3. ASSUME NEW lane, NEW visible, NEW l \in DOMAIN RowCells(lane, visible, lanes)
      PROVE  RowCells(lane, visible, lanes)[l].glyph \in Glyphs /\ RowCells(lane, visible, lanes)[l].colour \in 0..n
  <2>1. l \in D
    BY DEF RowCells
  <2> QED
    BY <2>1 DEF RowCells, Glyphs
<1>4. ASSUME NEW roots, NEW l \in DOMAIN TrunkCells(roots, lanes)
      PROVE  TrunkCells(roots, lanes)[l].glyph \in Glyphs /\ TrunkCells(roots, lanes)[l].colour \in 0..n
  <2> DEFINE last == IF roots = {} THEN 1 ELSE Max(roots)
  <2>1. l \in D
    BY DEF TrunkCells
  <2>2. TrunkCells(roots, lanes)[l] =
            [colour |-> lanes[l], glyph |-> CASE l > last -> "blank" [] l = last -> "end"
                                              [] l \in roots /\ l < last -> "tee" [] OTHER -> "dash"]
    BY <2>1 DEF TrunkCells
  <2> HIDE DEF last
  <2> QED
    BY <2>1, <2>2 DEF Glyphs
<1> QED
  BY <1>1, <1>2, <1>3, <1>4 DEF CellsFit

\* As many segments have been begun by the drawing as by the colouring at the same
\* row, and the lanes of the group have their numbers.
NumberedSoFar ==
    /\ group \in Nat \ {0} /\ row \in Nat
    /\ nextColour = Cardinality(BegunBefore(group, row)) + 1
    /\ Painting(picture, nextColour - 1)

\* The lanes drawn in a group are those that the pass had active at this row.
Opened ==
    row # 0 =>
        /\ group \in DOMAIN groups /\ IsConnected(group)
        /\ shown = Alive(group, row)
        /\ laneColours \in [DOMAIN Lanes(group) -> 0..(nextColour - 1)]

\* What holds while the picture is drawn.
Underway == Arranged /\ Counted /\ NumberedSoFar /\ Opened

\* What no step of the drawing changes.
Still ==
    /\ groups' = groups /\ prepared' = prepared /\ segments' = segments

\* The groups and the segments stay while the picture is drawn.
LEMMA StillKeeps ==
  ASSUME Arranged, Counted, Still
  PROVE  Arranged' /\ Counted' /\ Beginnings' = Beginnings
<1>1. groups' = groups /\ prepared' = prepared /\ segments' = segments
  BY DEF Still
<1>2. Arranged'
  BY <1>1 DEF Arranged, GroupLike, IsSequence, IsLane
<1>3. Beginnings' = Beginnings
  BY <1>1, Unmoved
<1> QED
  BY <1>1, <1>2, <1>3 DEF Counted

\* How many segments have been begun.
LEMMA BegunIsFinite ==
  ASSUME Arranged, Counted, NEW g, NEW n
  PROVE  /\ IsFiniteSet(BegunBefore(g, n)) /\ Cardinality(BegunBefore(g, n)) \in Nat
         /\ Cardinality(BegunBefore(g, n)) <= Len(segments) /\ Len(segments) \in Nat
<1>1. BegunBefore(g, n) \in SUBSET Beginnings
  BY BegunEnds DEF Arranged
<1>2. IsFiniteSet(Beginnings) /\ Len(segments) = Cardinality(Beginnings)
  BY DEF Counted
<1>3. IsFiniteSet(BegunBefore(g, n)) /\ Cardinality(BegunBefore(g, n)) <= Cardinality(Beginnings)
  BY <1>1, <1>2, FS_Subset
<1> QED
  BY <1>2, <1>3, FS_CardinalityType

\* A group that is drawn has rows.
LEMMA GroupIs ==
  ASSUME Arranged, NumberedSoFar, group <= Len(groups)
  PROVE  /\ group \in DOMAIN groups /\ IsSequence(groups)
         /\ Rows(group) \in Seq(RowSet(Lanes(group))) /\ Len(Rows(group)) \in Nat
<1>1. group \in Nat \ {0} /\ IsSequence(groups) /\ DOMAIN groups = 1..Len(groups) /\ Len(groups) \in Nat
  BY DEF Arranged, NumberedSoFar, IsSequence
<1>2. group \in DOMAIN groups
  BY <1>1
<1> QED
  BY <1>1, <1>2, RowsAreFit

\* A group that is opened has no lane yet.
LEMMA OpenGroupDraws ==
  ASSUME Underway, OpenGroup
  PROVE  Underway'
<1> DEFINE g == group
<1>1. /\ Still /\ group' = g /\ row' = 1 /\ nextColour' = nextColour /\ row = 0
      /\ picture' = picture \o Prelude(g) /\ shown' = {} /\ laneColours' = [l \in DOMAIN Lanes(g) |-> 0]
      /\ group <= Len(groups) /\ IsConnected(group)
  BY DEF OpenGroup, Still, inputVars, colourVars
<1>2. group \in DOMAIN groups /\ group \in Nat \ {0} /\ IsSequence(groups)
  BY <1>1, GroupIs DEF Underway, NumberedSoFar
<1>3. Arranged' /\ Counted'
  BY <1>1, StillKeeps DEF Underway
<1>4. BegunBefore(group, row)' = BegunBefore(g, 1) /\ Alive(group, row)' = Alive(g, 1)
  BY <1>1, Unmoved DEF Still
<1>5. BegunBefore(g, 1) = BegunBefore(group, row)
  BY <1>1, <1>2, BegunEnds
<1>6. nextColour - 1 \in Nat /\ nextColour \in Nat
  BY BegunIsFinite DEF Underway, NumberedSoFar
<1>7. Painting(picture', nextColour - 1)
  <2>1. Painting(picture, nextColour - 1) /\ Painting(Prelude(g), nextColour - 1)
    BY <1>6, PreludePaints DEF Underway, NumberedSoFar
  <2>2. nextColour - 1 <= nextColour - 1
    BY <1>6
  <2> QED
    BY <1>1, <1>6, <2>1, <2>2, PaintingJoins
<1>8. NumberedSoFar'
  <2>1. \A x, n : x = picture' => (Painting(picture', n) <=> Painting(x, n))
    OBVIOUS
  <2>2. nextColour' = Cardinality(BegunBefore(group, row)') + 1
    BY <1>1, <1>4, <1>5 DEF Underway, NumberedSoFar
  <2>3. Painting(picture, nextColour - 1)'
    BY <1>1, <1>7 DEF Painting, CellsFit, IsSequence, Glyphs
  <2> QED
    BY <1>1, <1>2, <2>2, <2>3 DEF NumberedSoFar
<1>9. Opened'
  <2>1. Alive(g, 1) = {}
    <3>1. 1 \in Nat \ {0}
      OBVIOUS
    <3> QED
      BY <3>1, AliveNext
  <2>2. (DOMAIN Lanes(group))' = DOMAIN Lanes(g) /\ (IsConnected(group) => IsConnected(group)')
    BY <1>1 DEF Lanes, IsConnected, Still
  <2>3. laneColours' \in [DOMAIN Lanes(g) -> 0..(nextColour' - 1)]
    BY <1>1, <1>6
  <2>4. group' \in DOMAIN groups'
    BY <1>1, <1>2 DEF Still
  <2> QED
    BY <1>1, <1>4, <2>1, <2>2, <2>3, <2>4 DEF Opened
<1> QED
  BY <1>3, <1>8, <1>9 DEF Underway

\* A row takes a new number exactly where the pass began a segment.
LEMMA DrawRowDraws ==
  ASSUME Underway, DrawRow
  PROVE  Underway'
<1> DEFINE g == group
           n == row
           r == Rows(g)[n]
           left == shown \ Joined(r)
           lanes == IF r.lane \in left THEN laneColours ELSE [laneColours EXCEPT ![r.lane] = nextColour]
           junction == IF Joined(r) = {} THEN <<>>
                       ELSE <<Line("junction", MainSpine(g), JunctionCells(Joined(r), laneColours), {})>>
           line == CommitRow(r, Commit(g, r), RowSpine(g, n), RowCells(r.lane, shown', lanes))
           old == nextColour - 1
           new == nextColour' - 1
<1>1. /\ Still /\ group' = g /\ row' = n + 1
      /\ nextColour' = (IF r.lane \in left THEN nextColour ELSE nextColour + 1)
      /\ picture' = Append(picture \o junction, line) /\ shown' = left \cup {r.lane}
      /\ laneColours' = lanes
      /\ group <= Len(groups) /\ IsConnected(group) /\ row \in 1..Len(Rows(group))
  BY DEF DrawRow, Still, inputVars, colourVars
<1>2. /\ group \in DOMAIN groups /\ group \in Nat \ {0} /\ IsSequence(groups)
      /\ Len(Rows(group)) \in Nat /\ row \in Nat \ {0}
  BY <1>1, GroupIs DEF Underway, NumberedSoFar
<1>3. Arranged' /\ Counted'
  BY <1>1, StillKeeps DEF Underway
<1>4. BegunBefore(group, row)' = BegunBefore(g, n + 1) /\ Alive(group, row)' = Alive(g, n + 1)
  BY <1>1, Unmoved DEF Still
<1>5. nextColour = Cardinality(BegunBefore(g, n)) + 1 /\ Cardinality(BegunBefore(g, n)) \in Nat
      /\ IsFiniteSet(BegunBefore(g, n))
  BY BegunIsFinite DEF Underway, NumberedSoFar
<1>6. shown = Alive(g, n) /\ laneColours \in [DOMAIN Lanes(g) -> 0..old]
  BY <1>2 DEF Underway, Opened
<1>7. Begins(g, n) <=> r.lane \notin left
  BY <1>1, <1>2, <1>6, BeginsAre DEF Underway
<1>8. nextColour' = Cardinality(BegunBefore(g, n + 1)) + 1
  <2>1. Cardinality(BegunBefore(g, n + 1)) =
          Cardinality(BegunBefore(g, n)) + (IF Begins(g, n) THEN 1 ELSE 0)
    BY <1>1, <1>2, <1>5, BegunNext
  <2> HIDE DEF g, n, r, left
  <2> QED
    BY <1>1, <1>5, <1>7, <2>1
<1>9. shown' = Alive(g, n + 1)
  BY <1>1, <1>2, <1>6, AliveNext
<1>10. old \in Nat /\ new \in Nat /\ old <= new /\ (r.lane \notin left => nextColour \in 0..new)
  <2> HIDE DEF r, left
  <2> QED BY <1>1, <1>5
<1>11. r.lane \in DOMAIN Lanes(g)
  BY <1>1, <1>2, RowsAreFit DEF Underway, Fits
<1>12. laneColours \in [DOMAIN Lanes(g) -> 0..new] /\ lanes \in [DOMAIN Lanes(g) -> 0..new]
  <2>1. laneColours \in [DOMAIN Lanes(g) -> 0..new]
    <3>1. 0..old \subseteq 0..new
      BY <1>10
    <3> HIDE DEF old, new
    <3> QED
      BY <1>6, <3>1
  <2> HIDE DEF new, r, left
  <2> QED
    BY <1>10, <1>11, <2>1
<1> HIDE DEF lanes, left, old, new
<1>13. Painting(picture', new)
  <2>1. Painting(junction, new)
    <3>1. CellsFit(Line("junction", MainSpine(g), JunctionCells(Joined(r), laneColours), {}), new)
      BY <1>12, CellsAre
    <3> QED
      BY <3>1, PaintingOne, PaintingNone
  <2>2. Painting(<<line>>, new)
    <3>1. CellsFit(line, new)
      BY <1>12, CellsAre
    <3> HIDE DEF line
    <3> QED
      BY <3>1, PaintingOne
  <2> HIDE DEF junction, line
  <2>3. Painting(picture, old)
    BY DEF Underway, NumberedSoFar, old
  <2>4. Painting(picture \o junction, new)
    BY <1>10, <2>1, <2>3, PaintingJoins
  <2>5. new <= new
    BY <1>10
  <2>6. Painting((picture \o junction) \o <<line>>, new)
    BY <1>10, <2>2, <2>4, <2>5, PaintingJoins
  <2>7. picture' = (picture \o junction) \o <<line>>
    <3> DEFINE all == picture \o junction
    <3>1. all \in Seq(ToSet(all))
      BY <2>4 DEF Painting, IsSequence
    <3>2. picture' = Append(all, line)
      BY <1>1
    <3> HIDE DEF all
    <3>3. Append(all, line) = all \o <<line>>
      BY <3>1
    <3> QED
      BY <3>2, <3>3 DEF all
  <2> QED
    BY <2>6, <2>7
<1>14. NumberedSoFar'
  <2>1. nextColour' = Cardinality(BegunBefore(group, row)') + 1
    BY <1>4, <1>8
  <2>2. Painting(picture, nextColour - 1)'
    BY <1>13 DEF Painting, CellsFit, IsSequence, Glyphs, new
  <2>3. group' \in Nat \ {0} /\ row' \in Nat
    BY <1>1, <1>2
  <2> QED
    BY <2>1, <2>2, <2>3 DEF NumberedSoFar
<1>15. Opened'
  <2>1. (DOMAIN Lanes(group))' = DOMAIN Lanes(g) /\ IsConnected(group)'
    BY <1>1 DEF Lanes, IsConnected, Still
  <2>2. laneColours' \in [DOMAIN Lanes(g) -> 0..(nextColour' - 1)]
    BY <1>1, <1>12 DEF new
  <2>3. group' \in DOMAIN groups'
    BY <1>1, <1>2 DEF Still
  <2> QED
    BY <1>4, <1>9, <2>1, <2>2, <2>3 DEF Opened
<1> QED
  BY <1>3, <1>14, <1>15 DEF Underway

\* A picture of two lines.
LEMMA PaintingTwo ==
  ASSUME NEW p, NEW r, NEW n, CellsFit(p, n), CellsFit(r, n)
  PROVE  Painting(<<p, r>>, n)
<1>1. <<p, r>> \in Seq({p, r})
  OBVIOUS
<1>2. DOMAIN <<p, r>> = 1..2 /\ <<p, r>>[1] = p /\ <<p, r>>[2] = r
  OBVIOUS
<1>3. \A i \in DOMAIN <<p, r>> : CellsFit(<<p, r>>[i], n)
  BY <1>2
<1> QED
  BY <1>1, <1>3, OverIts DEF Painting

\* The picture of the next state.
LEMMA PaintingNext ==
  ASSUME NEW n, Painting(picture', n), nextColour' - 1 = n
  PROVE  Painting(picture, nextColour - 1)'
BY DEF Painting, CellsFit, IsSequence, Glyphs

\* The line of a base ends its lanes.
LEMMA DrawTrunkDraws ==
  ASSUME Underway, DrawTrunk
  PROVE  Underway'
<1> DEFINE g == group
           n == row
           names == IF groups[group].distance = 0 THEN MainNames ELSE References(groups[group].base)
           line == Line("trunk", "node", TrunkCells(ToSet(prepared[group].roots), laneColours), names)
           top == nextColour - 1
<1>1. /\ Still /\ group' = g + 1 /\ row' = 0 /\ nextColour' = nextColour
      /\ picture' = Append(picture, line)
      /\ group <= Len(groups) /\ row = Len(Rows(group)) + 1
  BY DEF DrawTrunk, Still, inputVars, colourVars
<1>2. /\ group \in DOMAIN groups /\ group \in Nat \ {0} /\ IsSequence(groups)
      /\ Len(Rows(group)) \in Nat /\ row \in Nat \ {0}
  BY <1>1, GroupIs DEF Underway, NumberedSoFar
<1>3. Arranged' /\ Counted'
  BY <1>1, StillKeeps DEF Underway
<1>4. BegunBefore(group, row)' = BegunBefore(g + 1, 0)
  BY <1>1, Unmoved DEF Still
<1>5. BegunBefore(g + 1, 0) = BegunBefore(g, n)
  <2>1. n \in Nat /\ n > Len(Rows(g))
    BY <1>1, <1>2
  <2> QED
    BY <1>2, <2>1, BegunAcross
<1>6. top \in Nat /\ top <= top
  BY BegunIsFinite DEF Underway, NumberedSoFar
<1>7. Painting(picture', top)
  <2>1. Painting(picture, top)
    BY DEF Underway, NumberedSoFar
  <2>2. laneColours \in [DOMAIN Lanes(g) -> 0..top]
    BY <1>2 DEF Underway, Opened
  <2> HIDE DEF top
  <2>3. CellsFit(line, top)
    BY <2>2, CellsAre
  <2> HIDE DEF line
  <2>4. Painting(picture \o <<line>>, top)
    BY <1>6, <2>1, <2>3, PaintingOne, PaintingJoins
  <2>5. picture' = picture \o <<line>>
    <3>1. picture \in Seq(ToSet(picture))
      BY <2>1 DEF Painting, IsSequence
    <3>2. Append(picture, line) = picture \o <<line>>
      BY <3>1
    <3> QED
      BY <1>1, <3>2
  <2> QED
    BY <2>4, <2>5
<1>8. NumberedSoFar'
  <2>1. nextColour' = Cardinality(BegunBefore(group, row)') + 1
    BY <1>1, <1>4, <1>5 DEF Underway, NumberedSoFar
  <2>2. Painting(picture, nextColour - 1)'
    BY <1>1, <1>7, PaintingNext
  <2> QED
    BY <1>1, <1>2, <2>1, <2>2 DEF NumberedSoFar
<1>9. Opened'
  BY <1>1 DEF Opened
<1> QED
  BY <1>3, <1>8, <1>9 DEF Underway

\* The rows of a group without connection to main.
OrphanPoints(g) == FlattenSeq([l \in DOMAIN Lanes(g) |-> Lanes(g)[l].points])

OrphanRows(g) ==
    [i \in DOMAIN OrphanPoints(g) |-> Line("orphan", "dotted", <<>>, <<FALSE, OrphanPoints(g)[i]>>)]

\* They are a picture.
LEMMA OrphanRowsAre ==
  ASSUME Arranged, NEW g \in DOMAIN groups
  PROVE  IsSequence(OrphanRows(g))
<1> DEFINE lanes == Lanes(g)
           seqs == [l \in DOMAIN Lanes(g) |-> Lanes(g)[l].points]
           points == OrphanPoints(g)
           rest == OrphanRows(g)
           T == UNION {ToSet(lanes[l].points) : l \in DOMAIN lanes}
<1>1. Lanelike(lanes)
  BY RowsAreFit
<1>2. Len(lanes) \in Nat /\ DOMAIN lanes = 1..Len(lanes)
  BY <1>1 DEF Lanelike
<1>3. ASSUME NEW l \in 1..Len(lanes) PROVE seqs[l] \in Seq(T)
  <2>1. seqs[l] = lanes[l].points /\ IsSequence(lanes[l].points)
    BY <1>1, <1>2 DEF Lanelike
  <2>2. ToSet(lanes[l].points) \subseteq T
    BY <1>2
  <2> DEFINE s == lanes[l].points
  <2>3. s \in Seq(ToSet(s)) /\ ToSet(s) \subseteq T
    BY <2>1, <2>2 DEF IsSequence
  <2> HIDE DEF s, T
  <2>4. s \in Seq(T)
    BY <2>3
  <2> QED
    BY <2>1, <2>4 DEF s
<1>4. seqs \in Seq(Seq(T))
  <2>1. DOMAIN seqs = 1..Len(lanes) /\ seqs = [l \in 1..Len(lanes) |-> seqs[l]]
    BY <1>2
  <2> DEFINE V == Seq(T)
  <2>2. \A l \in 1..Len(lanes) : seqs[l] \in V
    BY <1>3
  <2> HIDE DEF seqs, V
  <2> QED
    BY <1>2, <2>1, <2>2, SequenceFrom DEF V
<1>5. points \in Seq(T)
  <2>1. points = FlattenSeq(seqs)
    BY DEF OrphanPoints
  <2> HIDE DEF seqs, T, points
  <2> QED BY <1>4, <2>1, FlattenIs
<1> HIDE DEF points, T
<1>6. Len(points) \in Nat /\ DOMAIN points = 1..Len(points)
  BY <1>5
<1> DEFINE S == {rest[i] : i \in DOMAIN rest}
<1>7. DOMAIN rest = 1..Len(points) /\ rest = [i \in 1..Len(points) |-> rest[i]]
      /\ \A i \in 1..Len(points) : rest[i] \in S
  BY <1>6 DEF OrphanRows, points
<1> HIDE DEF rest, S
<1>8. rest \in Seq(S)
  BY <1>6, <1>7, SequenceFrom
<1>9. IsSequence(rest)
  BY <1>8, OverIts
<1> QED
  BY <1>9 DEF rest

\* A group without connection to main takes no number.
LEMMA DrawOrphansDraws ==
  ASSUME Underway, DrawOrphans
  PROVE  Underway'
<1> DEFINE g == group
           seqs == [l \in DOMAIN Lanes(group) |-> Lanes(group)[l].points]
           points == FlattenSeq(seqs)
           begin == IF started THEN <<>> ELSE <<TopSpacer(FALSE), MainTip>>
           rest == [i \in DOMAIN points |-> Line("orphan", "dotted", <<>>, <<FALSE, points[i]>>)]
           top == nextColour - 1
<1>1. /\ Still /\ group' = g + 1 /\ row' = row /\ nextColour' = nextColour
      /\ picture' = picture \o begin \o rest
      /\ group <= Len(groups) /\ ~IsConnected(group)
  BY DEF DrawOrphans, Still, inputVars, colourVars
<1>2. /\ group \in DOMAIN groups /\ group \in Nat \ {0} /\ IsSequence(groups) /\ row = 0
  <2>1. group \in DOMAIN groups /\ group \in Nat \ {0} /\ IsSequence(groups)
    BY <1>1, GroupIs DEF Underway, NumberedSoFar
  <2> QED
    BY <1>1, <2>1 DEF Underway, Opened
<1>3. Arranged' /\ Counted'
  BY <1>1, StillKeeps DEF Underway
<1>4. BegunBefore(group, row)' = BegunBefore(g + 1, 0)
  BY <1>1, <1>2, Unmoved DEF Still
<1>5. BegunBefore(g + 1, 0) = BegunBefore(g, row)
  <2>1. 0 \in Nat
    OBVIOUS
  <2> QED
    BY <1>1, <1>2, <2>1, BegunAcross
<1>6. top \in Nat /\ top <= top
  BY BegunIsFinite DEF Underway, NumberedSoFar
<1>7. Painting(rest, top)
  <2>1. IsSequence(rest)
    BY <1>2, OrphanRowsAre DEF Underway, OrphanRows, OrphanPoints
  <2>2. \A i \in DOMAIN rest : rest[i].cells = <<>>
    BY DEF Line
  <2>3. DOMAIN <<>> = {}
    OBVIOUS
  <2> HIDE DEF rest
  <2> QED
    BY <2>1, <2>2, <2>3 DEF Painting, CellsFit
<1>8. Painting(begin, top)
  <2>1. CellsFit(TopSpacer(FALSE), top) /\ CellsFit(MainTip, top)
    BY BareLine DEF TopSpacer, MainTip
  <2> HIDE DEF top
  <2> QED
    BY <2>1, PaintingTwo, PaintingNone
<1>9. Painting(picture', top)
  <2>1. Painting(picture, top)
    BY DEF Underway, NumberedSoFar
  <2> HIDE DEF top, begin, rest
  <2>2. Painting(picture \o begin, top)
    BY <1>6, <1>8, <2>1, PaintingJoins
  <2>3. Painting((picture \o begin) \o rest, top)
    BY <1>6, <1>7, <2>2, PaintingJoins
  <2> QED
    BY <1>1, <2>3
<1>10. NumberedSoFar'
  <2>1. nextColour' = Cardinality(BegunBefore(group, row)') + 1
    BY <1>1, <1>4, <1>5 DEF Underway, NumberedSoFar
  <2>2. Painting(picture, nextColour - 1)'
    BY <1>1, <1>9, PaintingNext
  <2> QED
    BY <1>1, <1>2, <2>1, <2>2 DEF NumberedSoFar
<1>11. Opened'
  BY <1>1, <1>2 DEF Opened
<1> QED
  BY <1>3, <1>10, <1>11 DEF Underway

\* The last line takes no number.
LEMMA FinishDraws ==
  ASSUME Underway, Finish
  PROVE  Underway'
<1> DEFINE first == IF groups = <<>> THEN <<TopSpacer(FALSE), MainTip>> ELSE picture
           top == nextColour - 1
<1>1. /\ Still /\ group' = group /\ row' = row /\ nextColour' = nextColour /\ shown' = shown
      /\ laneColours' = laneColours /\ picture' = first \o <<OmittedPast>>
  BY DEF Finish, Still, inputVars, colourVars, passVars
<1>2. Arranged' /\ Counted'
  BY <1>1, StillKeeps DEF Underway
<1>3. BegunBefore(group, row)' = BegunBefore(group, row) /\ Alive(group, row)' = Alive(group, row)
  BY <1>1, Unmoved DEF Still
<1>4. top \in Nat /\ top <= top
  BY BegunIsFinite DEF Underway, NumberedSoFar
<1>5. Painting(first, top)
  <2>1. CellsFit(TopSpacer(FALSE), top) /\ CellsFit(MainTip, top)
    BY BareLine DEF TopSpacer, MainTip
  <2>2. Painting(picture, top)
    BY DEF Underway, NumberedSoFar
  <2> HIDE DEF top
  <2> QED
    BY <2>1, <2>2, PaintingTwo
<1>6. Painting(picture', top)
  <2> HIDE DEF top, first
  <2>1. Painting(<<OmittedPast>>, top)
    BY BareLine DEF OmittedPast
  <2>2. Painting(first \o <<OmittedPast>>, top)
    BY <1>4, <1>5, <2>1, PaintingJoins
  <2> QED
    BY <1>1, <2>2
<1>7. NumberedSoFar'
  <2>1. nextColour' = Cardinality(BegunBefore(group, row)') + 1
    BY <1>1, <1>3 DEF Underway, NumberedSoFar
  <2>2. Painting(picture, nextColour - 1)'
    BY <1>1, <1>6, PaintingNext
  <2>3. group' \in Nat \ {0} /\ row' \in Nat
    BY <1>1 DEF Underway, NumberedSoFar
  <2> QED
    BY <2>1, <2>2, <2>3 DEF NumberedSoFar
<1>8. Opened'
  <2>1. (DOMAIN Lanes(group))' = DOMAIN Lanes(group) /\ (IsConnected(group) => IsConnected(group)')
    BY <1>1 DEF Lanes, IsConnected, Still
  <2> QED
    BY <1>1, <1>3, <2>1 DEF Underway, Opened, Still
<1> QED
  BY <1>2, <1>7, <1>8 DEF Underway

\* A pair of segments next to each other.
Edged == \A e \in edges : e \subseteq Ids /\ Cardinality(e) = 2

\* What the drawing rests on, from the order of the groups to the last row.
Sound ==
    /\ pc \in {"arrange", "segments", "colours", "draw", "done"}
    /\ pc = "arrange" => /\ Given /\ Tracing /\ segments = <<>> /\ colours = <<>>
                         /\ group = 1 /\ row = 1 /\ active = <<>>
    /\ pc = "segments" => Arranged /\ Tracing /\ Counting
    /\ pc = "colours" => Arranged /\ Edged /\ Placing /\ Counted /\ group = 1 /\ row = 0
    /\ pc \in {"draw", "done"} =>
        Underway /\ Edged /\ Segmented /\ Mutual /\ Apart /\ Coloured
    /\ pc \in {"arrange", "segments", "colours"} => picture = <<>> /\ nextColour = 1

\* The head of a lane is on it, so a head has one lane.
LEMMA HeadsDiffer ==
  ASSUME NEW lanes, Together(lanes), \A lane \in lanes : IsLane(lane)
  PROVE  /\ \A a \in lanes : 1 \in DOMAIN a.points /\ a.points[1] \in ToSet(a.points)
         /\ \A a, b \in lanes : a.points[1].oid = b.points[1].oid => a = b
<1>1. ASSUME NEW a \in lanes PROVE 1 \in DOMAIN a.points /\ a.points[1] \in ToSet(a.points)
  <2>1. IsSequence(a.points) /\ a.points # <<>>
    BY DEF IsLane
  <2>2. 1 \in DOMAIN a.points
    BY <2>1 DEF IsSequence
  <2> QED
    BY <2>2 DEF ToSet
<1> QED
  BY <1>1 DEF Together

\* Every repository has groups that can be put in order.
LEMMA InitSound == Init => Sound
<1> SUFFICES ASSUME Init PROVE Sound
  OBVIOUS
<1>1. PICK repository \in Repositories : groups = repository.groups
  BY DEF Init
<1>2. /\ IsSequence(repository.groups)
      /\ \A g \in ToSet(repository.groups) : Proper(g)
      /\ \A g, h \in ToSet(repository.groups) : g.base = h.base => g = h
  <2>1. /\ IsSequence(repository.groups)
        /\ \A g, h \in ToSet(repository.groups) : g.base = h.base => g = h
    BY DrawingAssumption
  <2>2. ASSUME NEW g \in ToSet(repository.groups) PROVE Proper(g)
    <3>1. /\ DOMAIN g = {"base", "distance", "lanes"}
          /\ g.base \in Int /\ g.distance \in Nat \cup {Orphaned} /\ IsSequence(g.lanes)
          /\ \A lane \in ToSet(g.lanes) : IsLane(lane)
          /\ Together(ToSet(g.lanes))
      BY <2>2, DrawingAssumption
    <3>2. \A a, b \in ToSet(g.lanes) : a.points[1].oid = b.points[1].oid => a = b
      BY <3>1, HeadsDiffer
    <3> QED
      BY <3>1, <3>2 DEF Proper, GroupLike, Orphaned
  <2> QED
    BY <2>1, <2>2
<1>3. Given
  BY <1>1, <1>2 DEF Given
<1>4. /\ group = 1 /\ row = 1 /\ active = <<>> /\ edges = {} /\ previous = NoSegment
      /\ segments = <<>> /\ colours = <<>> /\ pc = "arrange" /\ picture = <<>> /\ nextColour = 1
      /\ Fresh
  BY DEF Init, InitColours, Fresh
<1>5. Linking
  BY <1>4 DEF Linking, Ids
<1>6. DOMAIN active = {}
  BY <1>4
<1>7. Tracing
  BY <1>4, <1>5, <1>6, FS_EmptySet DEF Tracing
<1> QED
  BY <1>3, <1>4, <1>7 DEF Sound

\* Ordering the groups.
LEMMA ArrangeSound ==
  ASSUME Sound, Arrange
  PROVE  Sound'
<1>1. /\ Given /\ Tracing /\ segments = <<>> /\ colours = <<>> /\ group = 1 /\ row = 1
      /\ active = <<>> /\ picture = <<>> /\ nextColour = 1 /\ pc' = "segments"
  BY DEF Arrange, Sound
<1>2. Arranged'
  BY <1>1, ArrangeIs
<1>3. /\ UNCHANGED <<group, row, active, edges, previous, picture, nextColour>>
      /\ UNCHANGED <<segments, colours, colourLoad, familyLoad, placed>>
  BY DEF Arrange, passVars, topologyVars, colourVars, drawingVars
<1>4. Linking' /\ Fresh' /\ Ids' = Ids
  BY <1>1, <1>3 DEF Tracing, Linking, Fresh, Ids
<1>5. Tracing'
  BY <1>1, <1>3, <1>4 DEF Tracing
<1>6. Counting'
  <2>1. Alive(group, row)' = {} /\ BegunBefore(group, row)' = {}
    <3>1. group' = 1 /\ row' = 1 /\ IsSequence(groups)'
      BY <1>1, <1>2, <1>3 DEF Arranged
    <3>2. \A n \in 1..(row' - 1) : FALSE
      BY <3>1
    <3>3. Alive(group, row)' = {}
      BY <3>2 DEF Alive
    <3>4. \A p \in Beginnings' : p[1] \in 1..Len(groups') /\ p[2] \in 1..Len(Rows(p[1])') /\ p[1] \in Nat /\ p[2] \in Nat
      BY <3>1 DEF Beginnings, IsSequence
    <3>5. \A p \in Beginnings' : ~(p[1] < 1) /\ ~(p[2] < 1)
      <4>1. ASSUME NEW p \in Beginnings' PROVE ~(p[1] < 1) /\ ~(p[2] < 1)
        <5>1. \A m : \A k \in 1..m : k >= 1
          OBVIOUS
        <5> QED
          BY <3>4, <5>1
      <4> QED
        BY <4>1
    <3>6. BegunBefore(group, row)' = {}
      BY <3>1, <3>5 DEF BegunBefore
    <3> QED
      BY <3>3, <3>6
  <2>2. DOMAIN active' = {} /\ Len(segments') = 0
    BY <1>1, <1>3
  <2> QED
    BY <1>1, <1>3, <2>1, <2>2, FS_EmptySet DEF Counting
<1> QED
  BY <1>1, <1>2, <1>3, <1>5, <1>6 DEF Sound

\* A step of the pass for segments.
LEMMA SegmentsSound ==
  ASSUME Sound, VisitRow \/ VisitGroup
  PROVE  Sound'
<1>1. /\ pc = "segments" /\ pc' = "segments" /\ UNCHANGED inputVars
      /\ picture' = picture /\ nextColour' = nextColour
  BY DEF VisitRow, VisitGroup, drawingVars
<1>2. Arranged /\ Tracing /\ Counting /\ picture = <<>> /\ nextColour = 1
  BY <1>1 DEF Sound
<1>3. Tracing'
  BY <1>2, VisitRowKeeps, VisitGroupKeeps
<1>4. Counting'
  BY <1>2, VisitRowCounts, VisitGroupCounts
<1>5. Arranged'
  <2>1. groups' = groups /\ prepared' = prepared
    BY <1>1 DEF inputVars
  <2> QED
    BY <1>2, <2>1 DEF Arranged, GroupLike, IsSequence, IsLane
<1> QED
  BY <1>1, <1>2, <1>3, <1>4, <1>5 DEF Sound

\* The step from segments to colours.
LEMMA LinkSound ==
  ASSUME Sound, LinkSegments
  PROVE  Sound'
<1>1. /\ pc = "segments" /\ pc' = "colours" /\ UNCHANGED inputVars /\ group' = 1 /\ row' = 0
      /\ picture' = picture /\ nextColour' = nextColour
  BY DEF LinkSegments, drawingVars
<1>2. Arranged /\ Tracing /\ Counting /\ picture = <<>> /\ nextColour = 1
  BY <1>1 DEF Sound
<1>3. Placing'
  BY <1>2, LinkPlaces DEF Tracing
<1>4. Counted' /\ Edged'
  BY <1>2, LinkCounts DEF Edged
<1>5. Arranged'
  <2>1. groups' = groups /\ prepared' = prepared
    BY <1>1 DEF inputVars
  <2> QED
    BY <1>2, <2>1 DEF Arranged, GroupLike, IsSequence, IsLane
<1> QED
  BY <1>1, <1>2, <1>3, <1>4, <1>5 DEF Sound

\* Colours leave the groups, the pairs and the number of segments alone.
LEMMA ColoursSound ==
  ASSUME Sound, Colour \/ Shade
  PROVE  Sound'
<1>1. /\ pc = "colours" /\ UNCHANGED <<groups, prepared, edges, segments, group, row, picture, nextColour>>
  BY DEF Colour, Shade, Place, PreferReadableShades, inputVars, passVars, topologyVars, drawingVars
<1>2. /\ Arranged /\ Edged /\ Placing /\ Counted /\ group = 1 /\ row = 0
      /\ picture = <<>> /\ nextColour = 1
  BY <1>1 DEF Sound
<1>3. Arranged' /\ Counted'
  BY <1>1, <1>2, StillKeeps DEF Still
<1>4. Edged'
  BY <1>1, <1>2 DEF Edged, Ids
<1>5. CASE Colour
  <2>1. pc' = "colours" /\ Place
    BY <1>1, <1>5 DEF Colour
  <2>2. Placing'
    BY <1>2, <2>1, PlaceKeeps
  <2> QED
    BY <1>1, <1>2, <1>3, <1>4, <2>1, <2>2 DEF Sound
<1>6. CASE Shade
  <2>1. pc' = "draw" /\ PreferReadableShades
    BY <1>6 DEF Shade
  <2>2. Segmented' /\ Mutual' /\ Apart' /\ Coloured'
    BY <1>2, <2>1, ShadeKeeps DEF Coloured
  <2>3. Underway'
    <3>1. BegunBefore(group, row)' = BegunBefore(1, 0) /\ BegunBefore(1, 0) = {}
      BY <1>1, <1>2, Unmoved, BegunEnds DEF Arranged
    <3>2. nextColour' = Cardinality(BegunBefore(group, row)') + 1
      BY <1>1, <1>2, <3>1, FS_EmptySet
    <3>3. Painting(picture, nextColour - 1)'
      BY <1>1, <1>2, PaintingNone, PaintingNext
    <3>4. NumberedSoFar' /\ Opened'
      BY <1>1, <1>2, <3>2, <3>3 DEF NumberedSoFar, Opened
    <3> QED
      BY <1>3, <3>4 DEF Underway
  <2> QED
    BY <1>4, <2>1, <2>2, <2>3 DEF Sound
<1> QED
  BY <1>5, <1>6

\* A step of the drawing.
LEMMA DrawingSound ==
  ASSUME Sound, OpenGroup \/ DrawRow \/ DrawTrunk \/ DrawOrphans \/ Finish
  PROVE  Sound'
<1>1. pc = "draw" /\ pc' \in {"draw", "done"} /\ segments' = segments /\ colours' = colours /\ edges' = edges
  BY DEF OpenGroup, DrawRow, DrawTrunk, DrawOrphans, Finish, colourVars, topologyVars
<1>2. Underway /\ Edged /\ Segmented /\ Mutual /\ Apart /\ Coloured
  BY <1>1 DEF Sound
<1>3. Underway'
  BY <1>2, OpenGroupDraws, DrawRowDraws, DrawTrunkDraws, DrawOrphansDraws, FinishDraws
<1>4. Edged' /\ Segmented' /\ Mutual' /\ Apart' /\ Coloured'
  BY <1>1, <1>2 DEF Edged, Segmented, Mutual, Apart, Coloured, Crowded, Ids
<1> QED
  BY <1>1, <1>3, <1>4 DEF Sound

\* A step that changes nothing.
LEMMA StutterSound ==
  ASSUME Sound, UNCHANGED vars
  PROVE  Sound'
<1>1. /\ UNCHANGED <<groups, prepared, group, row, active, edges, previous, pc>>
      /\ UNCHANGED <<segments, colours, colourLoad, familyLoad, budget, turns, placed>>
      /\ UNCHANGED <<shown, laneColours, nextColour, picture>>
  BY DEF vars, inputVars, passVars, topologyVars, colourVars, drawingVars
<1>2. Given => Given'
  BY <1>1 DEF Given, Proper, GroupLike, IsSequence, IsLane
<1>3. Tracing => Tracing'
  BY <1>1 DEF Tracing, Linking, Fresh, Ids
<1>4. Arranged => Arranged'
  BY <1>1 DEF Arranged, GroupLike, IsSequence, IsLane
<1>5. /\ Beginnings' = Beginnings /\ Alive(group, row)' = Alive(group, row)
      /\ BegunBefore(group, row)' = BegunBefore(group, row)
  BY <1>1, Unmoved
<1>6. (Counting => Counting') /\ (Counted => Counted')
  BY <1>1, <1>5 DEF Counting, Counted
<1>7. Placing => Placing'
  <2>1. Weights' = Weights
    BY <1>1 DEF Weights, Ids, Weight
  <2>2. (\A c : Worn(c)' = Worn(c)) /\ (\A f : WornIn(f)' = WornIn(f))
    BY <1>1 DEF Worn, WornIn, Ids
  <2>3. Segmented' = Segmented /\ Mutual' = Mutual /\ Apart' = Apart
    BY <1>1 DEF Segmented, Mutual, Apart, Crowded, Ids
  <2>4. Loaded' = Loaded
    BY <1>1, <2>1, <2>2 DEF Loaded
  <2>5. Colouring' = Colouring
    BY <1>1, <2>3 DEF Colouring, Ids
  <2> QED
    BY <1>1, <2>3, <2>4, <2>5 DEF Placing, Ids
<1>8. /\ Edged => Edged'
      /\ Segmented /\ Mutual /\ Apart /\ Coloured => Segmented' /\ Mutual' /\ Apart' /\ Coloured'
  BY <1>1 DEF Edged, Segmented, Mutual, Apart, Coloured, Crowded, Ids
<1>9. Underway => Underway'
  <2>1. Painting(picture, nextColour - 1) => Painting(picture, nextColour - 1)'
    BY <1>1, PaintingNext
  <2>2. NumberedSoFar => NumberedSoFar'
    BY <1>1, <1>5, <2>1 DEF NumberedSoFar
  <2>3. Opened => Opened'
    BY <1>1, <1>5 DEF Opened, IsConnected, Lanes
  <2> QED
    BY <1>4, <1>6, <2>2, <2>3 DEF Underway
<1> QED
  BY <1>1, <1>2, <1>3, <1>4, <1>6, <1>7, <1>8, <1>9 DEF Sound

\* Sound is inductive.
LEMMA NextSound ==
  ASSUME Sound, [Next]_vars
  PROVE  Sound'
BY ArrangeSound, SegmentsSound, LinkSound, ColoursSound, DrawingSound, StutterSound DEF Next

\* What the drawing rests on gives neighbours different colours.
LEMMA SoundDiffers == Sound => NeighboursDiffer
<1> SUFFICES ASSUME Sound, pc # "segments" PROVE
        \A s \in Ids : \A t \in segments[s].neighbours :
            colours[s] = colours[t] /\ colours[s] # Uncoloured =>
                \E u \in {s, t} : Cardinality(segments[u].neighbours) >= Len(Family)
  BY DEF NeighboursDiffer
<1>1. CASE pc = "arrange"
  BY <1>1 DEF Sound, Ids
<1>2. CASE pc \in {"colours", "draw", "done"}
  <2>1. Apart
    BY <1>2 DEF Sound, Placing
  <2> QED
    BY <2>1 DEF Apart, Crowded
<1> QED
  BY <1>1, <1>2 DEF Sound

\* What the drawing rests on types every variable.
LEMMA SoundTyped == Sound => TypeOK
<1> SUFFICES ASSUME Sound PROVE TypeOK
  OBVIOUS
<1>1. pc \in {"arrange", "segments", "colours", "draw", "done"}
  BY DEF Sound
<1>2. \A e \in edges : e \subseteq Ids /\ Cardinality(e) = 2
  BY <1>1 DEF Sound, Tracing, Linking, Edged
<1>3. \A s \in Ids : segments[s].weight > 0 /\ segments[s].neighbours \subseteq Ids \ {s}
  <2>1. Segmented
    <3>1. CASE pc \in {"arrange", "segments"}
      BY <3>1 DEF Sound, Tracing, Linking, Segmented
    <3>2. CASE pc \in {"colours", "draw", "done"}
      BY <3>2 DEF Sound, Placing, Colouring
    <3> QED
      BY <1>1, <3>1, <3>2
  <2> QED
    BY <2>1, SegmentedIs DEF Weight
<1>4. colours \in [DOMAIN colours -> Palette \cup {Uncoloured}]
  <2>1. CASE pc \in {"arrange", "segments"}
    <3>1. colours = <<>>
      BY <2>1 DEF Sound, Counting
    <3> QED
      BY <3>1
  <2>2. CASE pc \in {"colours", "draw", "done"}
    BY <2>2 DEF Sound, Placing, Colouring, Coloured
  <2> QED
    BY <1>1, <2>1, <2>2
<1>5. ASSUME pc = "colours"
      PROVE  /\ \A c \in Palette : colourLoad[c] = MapThenSumSet(Weight, {s \in Ids : colours[s] = c})
             /\ \A f \in Families :
                  familyLoad[f] = MapThenSumSet(Weight,
                      {s \in Ids : colours[s] # Uncoloured /\ Family[colours[s]] = f})
  <2>1. Loaded /\ Segmented
    BY <1>5 DEF Sound, Placing, Colouring
  <2>2. \A S \in SUBSET Ids : MapThenSumSet(Weight, S) = SumOver(Weights, S)
    BY <2>1, WeightSum
  <2>3. \A c : Worn(c) \in SUBSET Ids /\ Worn(c) = {s \in Ids : colours[s] = c}
    BY DEF Worn
  <2>4. \A f : WornIn(f) \in SUBSET Ids
                /\ WornIn(f) = {s \in Ids : colours[s] # Uncoloured /\ Family[colours[s]] = f}
    BY DEF WornIn
  <2>5. ASSUME NEW c \in Palette
        PROVE  colourLoad[c] = MapThenSumSet(Weight, {s \in Ids : colours[s] = c})
    BY <2>1, <2>2, <2>3 DEF Loaded
  <2>6. ASSUME NEW f \in Families
        PROVE  familyLoad[f] = MapThenSumSet(Weight,
                   {s \in Ids : colours[s] # Uncoloured /\ Family[colours[s]] = f})
    BY <2>1, <2>2, <2>4 DEF Loaded
  <2> QED
    BY <2>5, <2>6
<1>6. ASSUME NEW i \in DOMAIN picture, NEW l \in DOMAIN picture[i].cells
      PROVE  picture[i].cells[l].glyph \in Glyphs /\ picture[i].cells[l].colour \in Numbers
  <2>1. CASE pc \in {"arrange", "segments", "colours"}
    BY <2>1 DEF Sound
  <2>2. CASE pc \in {"draw", "done"}
    <3>1. Arranged /\ Counted /\ NumberedSoFar
      BY <2>2 DEF Sound, Underway
    <3> DEFINE begun == Cardinality(BegunBefore(group, row))
    <3>2. begun \in Nat /\ begun <= Len(segments) /\ Len(segments) \in Nat
      BY <3>1, BegunIsFinite
    <3>3. nextColour = begun + 1 /\ Painting(picture, nextColour - 1)
      BY <3>1 DEF NumberedSoFar
    <3>4. 0..(nextColour - 1) \subseteq Numbers
      <4> HIDE DEF begun
      <4> QED BY <3>2, <3>3 DEF Numbers
    <3> QED
      BY <3>3, <3>4 DEF Painting, CellsFit
  <2> QED
    BY <1>1, <2>1, <2>2
<1> QED
  BY <1>1, <1>2, <1>3, <1>4, <1>5, <1>6 DEF TypeOK

\* Every variable of the colouring and of the drawing keeps its type; every
\* number of a cell that the renderer writes is that of a segment, so that
\* the lookup of its colour succeeds.
THEOREM DrawingIsTyped == Spec => []TypeOK
<1>1. Sound /\ [Next]_vars => Sound'
  BY NextSound
<1> QED
  BY InitSound, SoundTyped, <1>1, PTL DEF Spec

\* Two segments next to each other have different colours after every placement
\* and every exchange of shades, unless one has as many neighbours as there are
\* colours (ColorAssignment::assign).
THEOREM NeighboursAreApart == Spec => []NeighboursDiffer
<1>1. Sound /\ [Next]_vars => Sound'
  BY NextSound
<1> QED
  BY InitSound, SoundDiffers, <1>1, PTL DEF Spec

----------------------------------------------------------------------------
(* Main in the picture.                                                   *)

\* A picture and what is drawn below it.
Extends(whole, lines, more) ==
    /\ IsSequence(whole) /\ IsSequence(lines) /\ IsSequence(more)
    /\ Len(lines) \in Nat /\ Len(more) \in Nat /\ Len(whole) = Len(lines) + Len(more)
    /\ DOMAIN lines = 1..Len(lines) /\ DOMAIN more = 1..Len(more) /\ DOMAIN whole = 1..Len(whole)
    /\ \A i \in 1..Len(lines) : whole[i] = lines[i]
    /\ \A i \in 1..Len(more) : whole[Len(lines) + i] = more[i]

\* Drawing below.
LEMMA ExtendIs ==
  ASSUME NEW lines, IsSequence(lines), NEW more, IsSequence(more)
  PROVE  Extends(lines \o more, lines, more)
<1> DEFINE S == ToSet(lines) \cup ToSet(more)
<1>1. lines \in Seq(ToSet(lines)) /\ more \in Seq(ToSet(more))
  BY DEF IsSequence
<1>2. lines \in Seq(S) /\ more \in Seq(S)
  BY <1>1
<1> HIDE DEF S
<1>3. lines \o more \in Seq(S)
  BY <1>2
<1>4. IsSequence(lines \o more)
  BY <1>3, OverIts
<1> QED
  BY <1>2, <1>4 DEF Extends

\* One line below.
LEMMA ExtendOne ==
  ASSUME NEW lines, IsSequence(lines), NEW p
  PROVE  Extends(Append(lines, p), lines, <<p>>) /\ Append(lines, p) = lines \o <<p>>
<1>1. IsSequence(<<p>>)
  <2>1. <<p>> \in Seq({p})
    OBVIOUS
  <2> QED BY <2>1, OverIts
<1>2. lines \in Seq(ToSet(lines))
  BY DEF IsSequence
<1>3. Append(lines, p) = lines \o <<p>>
  BY <1>2
<1> QED
  BY <1>1, <1>3, ExtendIs

\* Main's own commit.
IsTip(p) == p.kind = "tip" \/ (p.kind = "trunk" /\ groups[p.group].distance = 0)

Tips(lines) == {i \in DOMAIN lines : IsTip(lines[i])}

Bases(lines) == {i \in DOMAIN lines : lines[i].kind = "trunk"}

Gaps(lines) == {i \in DOMAIN lines : lines[i].kind = "gap"}

Named(lines) == {i \in Tips(lines) \cup Bases(lines) : lines[i].label # {}}

GapCount(lines) == [i \in DOMAIN lines |-> lines[i].label.count]

LeftOut(lines, n) == SumOver(GapCount(lines), {k \in Gaps(lines) : k < n})

\* Main begins at line t.
BeginsAt(lines, t) ==
    /\ t \in DOMAIN lines /\ IsTip(lines[t]) /\ lines[t].label # {}
    /\ \A i \in DOMAIN lines : IsTip(lines[i]) => i = t
    /\ \A i \in DOMAIN lines :
        IF i > t THEN lines[i].spine # "blank"
        ELSE i = t \/ lines[i].spine = (IF i = t - 1 THEN "dotted" ELSE "blank")
    /\ \A k \in Gaps(lines) : k > t

\* Main is whole down to here: so much of it has been left out, and a gap below
\* would have this name.
WholeTo(lines, total, name) ==
    /\ IsSequence(lines)
    /\ \E t : BeginsAt(lines, t)
    /\ \A k \in Gaps(lines) : lines[k].label.count \in Int
    /\ \A i \in Bases(lines) : groups[lines[i].group].distance = LeftOut(lines, i)
    /\ \A k \in Gaps(lines) :
        lines[k].label.name \in lines[Max({i \in Named(lines) : i < k})].label
    /\ LeftOut(lines, Len(lines) + 1) = total
    /\ name \in lines[Max(Named(lines))].label

\* A line that is only beside main.
Plain(p) == p.spine # "blank" /\ p.kind \notin {"tip", "trunk", "gap"}

\* The numbers of the lines are finite sets of integers.
LEMMA LinesAreFinite ==
  ASSUME NEW lines, IsSequence(lines)
  PROVE  /\ DOMAIN lines = 1..Len(lines) /\ Len(lines) \in Nat
         /\ \A S \in SUBSET DOMAIN lines : IsFiniteSet(S) /\ S \in SUBSET Int
<1>1. DOMAIN lines = 1..Len(lines) /\ Len(lines) \in Nat
  BY DEF IsSequence
<1>2. IsFiniteSet(1..Len(lines))
  BY <1>1, FS_Interval
<1>3. \A S \in SUBSET DOMAIN lines : IsFiniteSet(S) /\ S \in SUBSET Int
  BY <1>1, <1>2, FS_Subset
<1> QED
  BY <1>1, <1>3

\* What is left out above a line does not depend on what is below.
LEMMA LeftOutStays ==
  ASSUME NEW whole, NEW lines, NEW more, Extends(whole, lines, more),
         \A k \in Gaps(lines) : lines[k].label.count \in Int,
         NEW n \in 1..(Len(lines) + 1)
  PROVE  LeftOut(whole, n) = LeftOut(lines, n)
<1> DEFINE S == {k \in Gaps(lines) : k < n}
<1>1. {k \in Gaps(whole) : k < n} = S
  BY DEF Extends, Gaps
<1>2. S \in SUBSET DOMAIN lines
  BY DEF Gaps
<1>3. IsFiniteSet(S)
  <2> HIDE DEF S
  <2> QED BY <1>2, LinesAreFinite DEF Extends
<1>4. \A k \in S : GapCount(lines)[k] \in Int /\ GapCount(whole)[k] = GapCount(lines)[k]
  BY DEF Gaps, GapCount, Extends
<1> HIDE DEF S
<1>5. SumOver(GapCount(lines), S) = SumOver(GapCount(whole), S)
  BY <1>3, <1>4, SumSame
<1> QED
  BY <1>1, <1>5 DEF LeftOut, S

\* Of the lines below, those that are not plain.
LEMMA KindsStay ==
  ASSUME NEW whole, NEW lines, NEW more, Extends(whole, lines, more)
  PROVE  /\ \A i \in DOMAIN lines : i \in DOMAIN whole /\ whole[i] = lines[i]
         /\ \A i \in DOMAIN whole \ DOMAIN lines :
               i > Len(lines) /\ i - Len(lines) \in DOMAIN more /\ whole[i] = more[i - Len(lines)]
         /\ DOMAIN lines \subseteq Nat /\ DOMAIN whole \subseteq Nat /\ DOMAIN lines = 1..Len(lines)
         /\ Len(lines) \in Nat
BY DEF Extends

\* Where main begins stays.
LEMMA BeginStays ==
  ASSUME NEW whole, NEW lines, NEW more, Extends(whole, lines, more), NEW t, BeginsAt(lines, t),
         \A i \in DOMAIN more : more[i].spine # "blank" /\ ~IsTip(more[i])
  PROVE  BeginsAt(whole, t)
<1>1. /\ \A i \in DOMAIN lines : i \in DOMAIN whole /\ whole[i] = lines[i]
      /\ \A i \in DOMAIN whole \ DOMAIN lines : i > Len(lines) /\ whole[i].spine # "blank" /\ ~IsTip(whole[i])
      /\ DOMAIN lines \subseteq Nat /\ DOMAIN whole \subseteq Nat /\ DOMAIN lines = 1..Len(lines)
      /\ Len(lines) \in Nat
  BY KindsStay
<1>2. t \in DOMAIN lines /\ t <= Len(lines) /\ t \in Nat
  BY <1>1 DEF BeginsAt
<1>3. t \in DOMAIN whole /\ IsTip(whole[t]) /\ whole[t].label # {}
  BY <1>1, <1>2 DEF BeginsAt
<1>4. \A i \in DOMAIN whole : IsTip(whole[i]) => i = t
  BY <1>1 DEF BeginsAt
<1>5. \A k \in Gaps(whole) : k > t
  BY <1>1, <1>2 DEF BeginsAt, Gaps
<1>6. ASSUME NEW i \in DOMAIN whole
      PROVE  IF i > t THEN whole[i].spine # "blank"
             ELSE i = t \/ whole[i].spine = (IF i = t - 1 THEN "dotted" ELSE "blank")
  <2>1. CASE i \in DOMAIN lines
    BY <1>1, <2>1 DEF BeginsAt
  <2>2. CASE i \notin DOMAIN lines
    BY <1>1, <1>2, <2>2
  <2> QED
    BY <2>1, <2>2
<1> QED
  BY <1>3, <1>4, <1>5, <1>6 DEF BeginsAt

\* Plain lines below main leave it whole.
LEMMA WholePlain ==
  ASSUME NEW whole, NEW lines, NEW more, Extends(whole, lines, more), NEW total, NEW name,
         WholeTo(lines, total, name), \A i \in DOMAIN more : Plain(more[i])
  PROVE  WholeTo(whole, total, name)
<1>1. /\ \A i \in DOMAIN lines : i \in DOMAIN whole /\ whole[i] = lines[i]
      /\ \A i \in DOMAIN whole \ DOMAIN lines : i > Len(lines) /\ Plain(whole[i])
      /\ DOMAIN lines \subseteq Nat /\ DOMAIN whole \subseteq Nat /\ DOMAIN lines = 1..Len(lines)
      /\ Len(lines) \in Nat
  BY KindsStay
<1>2. /\ Tips(whole) = Tips(lines) /\ Bases(whole) = Bases(lines) /\ Gaps(whole) = Gaps(lines)
      /\ Tips(lines) \subseteq DOMAIN lines /\ Bases(lines) \subseteq DOMAIN lines
      /\ Gaps(lines) \subseteq DOMAIN lines
  BY <1>1 DEF Tips, Bases, Gaps, IsTip, Plain
<1>3. Named(whole) = Named(lines)
  BY <1>1, <1>2 DEF Named
<1>4. PICK t : BeginsAt(lines, t)
  BY DEF WholeTo
<1>5. BeginsAt(whole, t)
  <2>1. \A i \in DOMAIN more : more[i].spine # "blank" /\ ~IsTip(more[i])
    BY DEF Plain, IsTip
  <2> QED
    BY <1>4, <2>1, BeginStays
<1>6. \A n \in 1..(Len(lines) + 1) : LeftOut(whole, n) = LeftOut(lines, n)
  BY LeftOutStays DEF WholeTo
<1>7. LeftOut(whole, Len(whole) + 1) = LeftOut(whole, Len(lines) + 1)
  <2>1. \A k \in Gaps(lines) : k < Len(whole) + 1 /\ k < Len(lines) + 1
    BY <1>1, <1>2 DEF Extends
  <2>2. {k \in Gaps(whole) : k < Len(whole) + 1} = {k \in Gaps(whole) : k < Len(lines) + 1}
    BY <1>2, <2>1
  <2> QED
    BY <2>2 DEF LeftOut
<1>8. \A i \in Named(lines) : i \in DOMAIN lines
  BY <1>2 DEF Named
<1>9. Max(Named(lines)) \in DOMAIN lines
  <2>1. t \in Named(lines)
    BY <1>4 DEF Named, BeginsAt, Tips
  <2>2. Named(lines) \in SUBSET DOMAIN lines
    BY <1>8
  <2>3. IsFiniteSet(Named(lines)) /\ Named(lines) \in SUBSET Int
    BY <2>2, LinesAreFinite DEF WholeTo
  <2> QED
    BY <2>1, <2>2, <2>3, MaxIs
<1>10. ASSUME NEW k \in Gaps(lines)
       PROVE  Max({i \in Named(lines) : i < k}) \in DOMAIN lines
  <2> DEFINE N == {i \in Named(lines) : i < k}
  <2>1. t \in N
    BY <1>4 DEF Named, BeginsAt, Tips
  <2>2. N \in SUBSET DOMAIN lines
    BY <1>8
  <2>3. IsFiniteSet(N) /\ N \in SUBSET Int
    <3> HIDE DEF N
    <3> QED BY <2>2, LinesAreFinite DEF WholeTo
  <2> HIDE DEF N
  <2>4. Max(N) \in N
    BY <2>1, <2>3, MaxIs
  <2>5. Max(N) \in DOMAIN lines
    BY <2>2, <2>4
  <2> QED
    BY <2>5 DEF N
<1>11. IsSequence(whole)
  BY DEF Extends
<1>12. \A k \in Gaps(whole) : whole[k].label.count \in Int
  BY <1>1, <1>2 DEF WholeTo
<1>13. \A i \in Bases(whole) : groups[whole[i].group].distance = LeftOut(whole, i)
  <2>1. \A i \in Bases(lines) : i \in 1..(Len(lines) + 1)
    BY <1>1, <1>2
  <2> QED
    BY <1>1, <1>2, <1>6, <2>1 DEF WholeTo
<1>14. \A k \in Gaps(whole) : whole[k].label.name \in whole[Max({i \in Named(whole) : i < k})].label
  BY <1>1, <1>2, <1>3, <1>10 DEF WholeTo
<1>15. name \in whole[Max(Named(whole))].label
  BY <1>1, <1>3, <1>9 DEF WholeTo
<1>16. LeftOut(whole, Len(whole) + 1) = total
  <2>1. Len(lines) + 1 \in 1..(Len(lines) + 1)
    BY <1>1
  <2> QED
    BY <1>6, <1>7, <2>1 DEF WholeTo
<1> QED
  BY <1>5, <1>11, <1>12, <1>13, <1>14, <1>15, <1>16 DEF WholeTo

\* A gap has a line with names above it.
LEMMA NamedIs ==
  ASSUME NEW lines, NEW total, NEW name, WholeTo(lines, total, name)
  PROVE  /\ Named(lines) \in SUBSET DOMAIN lines /\ Max(Named(lines)) \in DOMAIN lines
         /\ \A k \in Gaps(lines) : Max({i \in Named(lines) : i < k}) \in DOMAIN lines
<1>1. PICK t : BeginsAt(lines, t)
  BY DEF WholeTo
<1>2. \A i \in Named(lines) : i \in DOMAIN lines
  BY DEF Named, Tips, Bases
<1>3. t \in Named(lines)
  BY <1>1 DEF Named, BeginsAt, Tips
<1>4. \A N \in SUBSET Named(lines) : t \in N => Max(N) \in DOMAIN lines
  <2> TAKE N \in SUBSET Named(lines)
  <2> SUFFICES ASSUME t \in N PROVE Max(N) \in DOMAIN lines
    OBVIOUS
  <2>1. N \in SUBSET DOMAIN lines
    BY <1>2
  <2>2. IsFiniteSet(N) /\ N \in SUBSET Int
    BY <2>1, LinesAreFinite DEF WholeTo
  <2>3. Max(N) \in N
    BY <2>2, MaxIs
  <2> QED
    BY <2>1, <2>3
<1>5. \A k \in Gaps(lines) : t \in {i \in Named(lines) : i < k}
  BY <1>1, <1>3 DEF BeginsAt
<1>6. \A k : {i \in Named(lines) : i < k} \in SUBSET Named(lines)
  OBVIOUS
<1> QED
  BY <1>2, <1>3, <1>4, <1>5, <1>6

\* A line below has the greatest number.
OneMore(whole, lines, p, m) ==
    /\ DOMAIN whole = DOMAIN lines \cup {m} /\ whole[m] = p /\ Len(whole) = m
    /\ \A i \in DOMAIN lines : whole[i] = lines[i] /\ i < m /\ i \in Nat /\ i \in 1..m
    /\ Len(lines) \in Nat /\ m \notin DOMAIN lines /\ m \in Nat /\ m \in 1..m
    /\ IsSequence(whole) /\ IsSequence(lines) /\ m = Len(lines) + 1

\* One line below.
LEMMA OneBelow ==
  ASSUME NEW whole, NEW lines, NEW p, Extends(whole, lines, <<p>>)
  PROVE  OneMore(whole, lines, p, Len(lines) + 1)
<1>1. Len(<<p>>) = 1 /\ <<p>>[1] = p
  OBVIOUS
<1>2. /\ Len(lines) \in Nat /\ DOMAIN lines = 1..Len(lines) /\ Len(whole) = Len(lines) + 1
      /\ DOMAIN whole = 1..(Len(lines) + 1) /\ IsSequence(whole) /\ IsSequence(lines)
  BY <1>1 DEF Extends
<1>3. whole[Len(lines) + 1] = p /\ \A i \in 1..Len(lines) : whole[i] = lines[i]
  BY <1>1 DEF Extends
<1> QED
  BY <1>2, <1>3 DEF OneMore

\* What is left out above the line below is all of it.
LEMMA LeftOutAll ==
  ASSUME NEW whole, NEW lines, NEW p, Extends(whole, lines, <<p>>),
         NEW total, NEW name, WholeTo(lines, total, name), p.kind # "gap"
  PROVE  LeftOut(whole, Len(whole) + 1) = total
<1> DEFINE m == Len(lines) + 1
<1>1. OneMore(whole, lines, p, m)
  BY OneBelow
<1>2. {k \in Gaps(whole) : k < Len(whole) + 1} = {k \in Gaps(whole) : k < m}
  <2> HIDE DEF m
  <2>1. \A k \in Gaps(whole) : k \in DOMAIN lines
    BY <1>1 DEF Gaps, OneMore
  <2>2. m \in Nat
    BY <1>1 DEF m, OneMore
  <2> QED
    BY <1>1, <2>1, <2>2 DEF OneMore
<1>3. LeftOut(whole, m) = LeftOut(lines, m)
  BY <1>1, LeftOutStays DEF WholeTo, OneMore
<1> QED
  BY <1>2, <1>3 DEF LeftOut, WholeTo

\* A gap of the right name adds what it leaves out.
LEMMA WholeGap ==
  ASSUME NEW whole, NEW lines, NEW p, Extends(whole, lines, <<p>>),
         NEW total, NEW name, WholeTo(lines, total, name),
         p.kind = "gap", p.spine # "blank", p.label.count \in Int, p.label.name = name
  PROVE  WholeTo(whole, total + p.label.count, name)
<1> DEFINE m == Len(lines) + 1
<1>1. OneMore(whole, lines, p, m)
  BY OneBelow
<1> HIDE DEF m
<1>2. /\ Tips(whole) = Tips(lines) /\ Bases(whole) = Bases(lines) /\ Gaps(whole) = Gaps(lines) \cup {m}
      /\ Tips(lines) \subseteq DOMAIN lines /\ Bases(lines) \subseteq DOMAIN lines
      /\ Gaps(lines) \subseteq DOMAIN lines
  BY <1>1 DEF Tips, Bases, Gaps, IsTip, OneMore
<1>3. Named(whole) = Named(lines)
  BY <1>1, <1>2 DEF Named, OneMore
<1>4. PICK t : BeginsAt(lines, t)
  BY DEF WholeTo
<1>5. BeginsAt(whole, t)
  <2>1. \A i \in DOMAIN <<p>> : <<p>>[i].spine # "blank" /\ ~IsTip(<<p>>[i])
    <3>1. \A i \in DOMAIN <<p>> : <<p>>[i] = p
      OBVIOUS
    <3> QED BY <3>1 DEF IsTip
  <2> QED
    BY <1>4, <2>1, BeginStays
<1>6. \A n \in 1..m : LeftOut(whole, n) = LeftOut(lines, n)
  BY LeftOutStays DEF WholeTo, m
<1>7. LeftOut(whole, Len(whole) + 1) = total + p.label.count
  <2> DEFINE S == {k \in Gaps(whole) : k < m}
             T == {k \in Gaps(whole) : k < Len(whole) + 1}
             f == GapCount(whole)
  <2>1. T = S \cup {m} /\ m \notin S
    <3>1. \A k \in Gaps(lines) : k < m /\ k < m + 1 /\ k # m
      BY <1>1, <1>2 DEF OneMore
    <3>2. m < m + 1 /\ ~(m < m)
      BY <1>1 DEF OneMore
    <3> QED
      BY <1>1, <1>2, <3>1, <3>2 DEF OneMore
  <2>2. IsFiniteSet(S)
    <3>1. S \in SUBSET DOMAIN whole
      BY DEF Gaps
    <3> HIDE DEF S
    <3> QED BY <1>1, <3>1, LinesAreFinite DEF OneMore
  <2>3. \A k \in S \cup {m} : f[k] \in Int
    <3>1. \A k \in Gaps(lines) : f[k] \in Int
      BY <1>1, <1>2 DEF GapCount, WholeTo, OneMore
    <3>2. f[m] \in Int
      BY <1>1 DEF GapCount, OneMore
    <3> QED
      BY <1>1, <1>2, <3>1, <3>2 DEF OneMore
  <2>4. f[m] = p.label.count
    BY <1>1 DEF GapCount, OneMore
  <2>5. LeftOut(whole, m) = total
    BY <1>1, <1>6 DEF WholeTo, m, OneMore
  <2>6. LeftOut(whole, m) = SumOver(f, S) /\ LeftOut(whole, Len(whole) + 1) = SumOver(f, T)
    BY DEF LeftOut
  <2> HIDE DEF S, f, T
  <2>7. SumOver(f, S \cup {m}) = f[m] + SumOver(f, S)
    BY <2>1, <2>2, <2>3, SumAdd
  <2>8. SumOver(f, S) \in Int
    BY <2>2, <2>3, SumType
  <2> QED
    BY <2>1, <2>4, <2>5, <2>6, <2>7, <2>8
<1>8. /\ Named(lines) \in SUBSET DOMAIN lines /\ Max(Named(lines)) \in DOMAIN lines
      /\ \A k \in Gaps(lines) : Max({i \in Named(lines) : i < k}) \in DOMAIN lines
  BY NamedIs
<1>12. \A k \in Gaps(whole) : whole[k].label.count \in Int
  BY <1>1, <1>2 DEF WholeTo, OneMore
<1>13. \A i \in Bases(whole) : groups[whole[i].group].distance = LeftOut(whole, i)
  <2>1. \A i \in Bases(lines) : i \in 1..m
    BY <1>1, <1>2 DEF OneMore
  <2> QED
    BY <1>1, <1>2, <1>6, <2>1 DEF WholeTo, OneMore
<1>14. \A k \in Gaps(whole) : whole[k].label.name \in whole[Max({i \in Named(whole) : i < k})].label
  <2>1. ASSUME NEW k \in Gaps(lines)
        PROVE  whole[k].label.name \in whole[Max({i \in Named(whole) : i < k})].label
    BY <1>1, <1>2, <1>3, <1>8 DEF WholeTo, OneMore
  <2>2. {i \in Named(whole) : i < m} = Named(lines)
    BY <1>1, <1>3, <1>8 DEF OneMore
  <2>3. whole[m].label.name \in whole[Max({i \in Named(whole) : i < m})].label
    BY <1>1, <1>8, <2>2 DEF WholeTo, OneMore
  <2> QED
    BY <1>2, <2>1, <2>3
<1>15. name \in whole[Max(Named(whole))].label
  BY <1>1, <1>3, <1>8 DEF WholeTo, OneMore
<1> QED
  BY <1>1, <1>5, <1>7, <1>12, <1>13, <1>14, <1>15 DEF WholeTo, OneMore

\* A base at the distance that has been left out; it may name what comes below.
LEMMA WholeBase ==
  ASSUME NEW whole, NEW lines, NEW p, Extends(whole, lines, <<p>>),
         NEW total, NEW name, WholeTo(lines, total, name),
         p.kind = "trunk", p.spine # "blank", ~IsTip(p), groups[p.group].distance = total,
         NEW new, IF p.label = {} THEN new = name ELSE new \in p.label
  PROVE  WholeTo(whole, total, new)
<1> DEFINE m == Len(lines) + 1
<1>1. OneMore(whole, lines, p, m)
  BY OneBelow
<1> HIDE DEF m
<1>2. /\ Tips(whole) = Tips(lines) /\ Bases(whole) = Bases(lines) \cup {m} /\ Gaps(whole) = Gaps(lines)
      /\ Tips(lines) \subseteq DOMAIN lines /\ Bases(lines) \subseteq DOMAIN lines
      /\ Gaps(lines) \subseteq DOMAIN lines
  BY <1>1 DEF Tips, Bases, Gaps, OneMore
<1>3. Named(whole) = IF p.label = {} THEN Named(lines) ELSE Named(lines) \cup {m}
  BY <1>1, <1>2 DEF Named, OneMore
<1>4. PICK t : BeginsAt(lines, t)
  BY DEF WholeTo
<1>5. BeginsAt(whole, t)
  <2>1. \A i \in DOMAIN <<p>> : <<p>>[i].spine # "blank" /\ ~IsTip(<<p>>[i])
    <3>1. \A i \in DOMAIN <<p>> : <<p>>[i] = p
      OBVIOUS
    <3> QED BY <3>1
  <2> QED
    BY <1>4, <2>1, BeginStays
<1>6. \A n \in 1..m : LeftOut(whole, n) = LeftOut(lines, n)
  BY LeftOutStays DEF WholeTo, m
<1>7. LeftOut(whole, Len(whole) + 1) = total
  BY LeftOutAll
<1>8. /\ Named(lines) \in SUBSET DOMAIN lines /\ Max(Named(lines)) \in DOMAIN lines
      /\ \A k \in Gaps(lines) : Max({i \in Named(lines) : i < k}) \in DOMAIN lines
  BY NamedIs
<1>12. \A k \in Gaps(whole) : whole[k].label.count \in Int
  BY <1>1, <1>2 DEF WholeTo, OneMore
<1>13. \A i \in Bases(whole) : groups[whole[i].group].distance = LeftOut(whole, i)
  <2>1. \A i \in Bases(lines) : i \in 1..m
    BY <1>1, <1>2 DEF OneMore
  <2>2. LeftOut(whole, m) = total
    BY <1>1, <1>6 DEF WholeTo, m, OneMore
  <2> QED
    BY <1>1, <1>2, <1>6, <2>1, <2>2 DEF WholeTo, OneMore
<1>14. \A k \in Gaps(whole) : whole[k].label.name \in whole[Max({i \in Named(whole) : i < k})].label
  <2> TAKE k \in Gaps(whole)
  <2>1. k \in Gaps(lines) /\ k < m
    BY <1>1, <1>2 DEF OneMore
  <2>2. {i \in Named(whole) : i < k} = {i \in Named(lines) : i < k}
    <3>1. k \in Nat /\ ~(m < k)
      BY <1>1, <1>2, <2>1 DEF OneMore
    <3> QED BY <1>3, <3>1
  <2> QED
    BY <1>1, <1>2, <1>8, <2>1, <2>2 DEF WholeTo, OneMore
<1>15. new \in whole[Max(Named(whole))].label
  <2>1. CASE p.label = {}
    BY <1>1, <1>3, <1>8, <2>1 DEF WholeTo, OneMore
  <2>2. CASE p.label # {}
    <3> DEFINE N == Named(lines) \cup {m}
    <3>1. N \in SUBSET DOMAIN whole
      BY <1>1, <1>8 DEF OneMore
    <3>2. IsFiniteSet(N) /\ N \in SUBSET Int /\ N # {}
      <4>1. N # {}
        OBVIOUS
      <4> HIDE DEF N
      <4> QED BY <1>1, <3>1, <4>1, LinesAreFinite DEF OneMore
    <3>3. \A i \in N : i <= m /\ i \in Nat
      BY <1>1, <1>8 DEF OneMore
    <3>4. m \in N
      OBVIOUS
    <3> HIDE DEF N
    <3>5. Max(N) \in N /\ Max(N) >= m
      BY <3>2, <3>4, MaxIs
    <3>6. Max(N) = m
      BY <1>1, <3>3, <3>5 DEF OneMore
    <3> QED
      BY <1>1, <1>3, <2>2, <3>6 DEF N, OneMore
  <2> QED
    BY <2>1, <2>2
<1> QED
  BY <1>1, <1>5, <1>7, <1>12, <1>13, <1>14, <1>15 DEF WholeTo, OneMore

\* What stands above main: blank, and then the line that leads to it.
Heralds(lines, leads) ==
    /\ IsSequence(lines)
    /\ \A i \in DOMAIN lines :
        /\ lines[i].kind \notin {"tip", "trunk", "gap"}
        /\ lines[i].spine = IF leads /\ i = Len(lines) THEN "dotted" ELSE "blank"

\* Main's own commit below the line that leads to it.
LEMMA WholeFirst ==
  ASSUME NEW whole, NEW lines, NEW p, Extends(whole, lines, <<p>>), Heralds(lines, TRUE),
         IsTip(p), NEW name \in p.label
  PROVE  WholeTo(whole, 0, name)
<1> DEFINE m == Len(lines) + 1
<1>1. OneMore(whole, lines, p, m)
  BY OneBelow
<1>2. m - 1 = Len(lines)
  BY <1>1 DEF OneMore
<1> HIDE DEF m
<1>3. \A i \in DOMAIN lines : ~IsTip(whole[i]) /\ whole[i].kind \notin {"trunk", "gap"}
  BY <1>1 DEF OneMore, Heralds, IsTip
<1>4. whole[m] = p /\ m \in DOMAIN whole /\ DOMAIN whole = DOMAIN lines \cup {m} /\ p.kind # "gap"
  BY <1>1 DEF OneMore, IsTip
<1>5. /\ Gaps(whole) = {} /\ Bases(whole) \subseteq {m} /\ Tips(whole) = {m} /\ Named(whole) = {m}
  BY <1>3, <1>4 DEF Gaps, Bases, Tips, Named
<1>6. BeginsAt(whole, m)
  <2>1. ASSUME NEW i \in DOMAIN whole
        PROVE  IF i > m THEN whole[i].spine # "blank"
               ELSE i = m \/ whole[i].spine = (IF i = m - 1 THEN "dotted" ELSE "blank")
    <3>1. CASE i = m
      BY <1>1, <3>1 DEF OneMore
    <3>2. CASE i \in DOMAIN lines
      <4>1. ~(i > m) /\ whole[i] = lines[i]
        BY <1>1, <3>2 DEF OneMore
      <4> QED
        BY <1>2, <3>2, <4>1 DEF Heralds
    <3> QED
      BY <1>4, <3>1, <3>2
  <2> QED
    BY <1>3, <1>4, <1>5, <2>1 DEF BeginsAt
<1>7. \A n : LeftOut(whole, n) = 0
  <2>1. \A n : {k \in Gaps(whole) : k < n} = {}
    BY <1>5
  <2> QED
    BY <2>1, SumEmpty DEF LeftOut
<1>8. \A i \in Bases(whole) : groups[whole[i].group].distance = LeftOut(whole, i)
  BY <1>4, <1>5, <1>7 DEF IsTip, Bases
<1>9. Max(Named(whole)) = m
  <2>1. IsFiniteSet({m}) /\ {m} \in SUBSET Int /\ {m} # {}
    <3>1. IsFiniteSet({m})
      BY FS_Singleton
    <3>2. m \in Int
      BY <1>1 DEF OneMore
    <3> QED BY <3>1, <3>2
  <2>2. Max({m}) \in {m}
    BY <2>1, MaxIs
  <2> QED
    BY <1>5, <2>2
<1> QED
  BY <1>1, <1>4, <1>5, <1>6, <1>7, <1>8, <1>9 DEF WholeTo, OneMore

\* More lines above main.
LEMMA HeraldsMore ==
  ASSUME NEW whole, NEW lines, NEW more, Extends(whole, lines, more), Heralds(lines, FALSE),
         Len(more) > 0
  PROVE  /\ Heralds(more, TRUE) => Heralds(whole, TRUE)
         /\ Heralds(more, FALSE) => Heralds(whole, FALSE)
<1>1. ASSUME NEW leads, Heralds(more, leads), NEW i \in DOMAIN whole
      PROVE  /\ whole[i].kind \notin {"tip", "trunk", "gap"}
             /\ whole[i].spine = IF leads /\ i = Len(whole) THEN "dotted" ELSE "blank"
  <2>1. CASE i \in DOMAIN lines
    <3>1. whole[i] = lines[i] /\ i # Len(whole)
      BY <2>1 DEF Extends
    <3> QED
      BY <2>1, <3>1 DEF Heralds
  <2>2. CASE i \notin DOMAIN lines
    <3> DEFINE k == i - Len(lines)
    <3>1. k \in DOMAIN more /\ whole[i] = more[k] /\ (i = Len(whole) <=> k = Len(more))
      BY <2>2 DEF Extends
    <3> HIDE DEF k
    <3> QED
      BY <1>1, <3>1 DEF Heralds
  <2> QED
    BY <2>1, <2>2
<1>2. IsSequence(whole)
  BY DEF Extends
<1> QED
  BY <1>1, <1>2 DEF Heralds

\* The first of the names at a commit is one of them.
LEMMA FirstReferenceIs ==
  ASSUME IsSequence(main.refs), NEW oid, References(oid) # {}
  PROVE  FirstReference(oid) \in References(oid)
<1> DEFINE S == {j \in DOMAIN main.refs : main.refs[j].oid = oid}
<1>1. S \in SUBSET DOMAIN main.refs /\ S # {}
  BY DEF References
<1> HIDE DEF S
<1>2. IsFiniteSet(S) /\ S \in SUBSET Int
  BY <1>1, LinesAreFinite
<1>3. Min(S) \in S
  BY <1>1, <1>2, MinIs
<1> QED
  BY <1>3 DEF S, References, FirstReference

\* How far along main a group begins, and that main's own commit is at 0.
Reckoned(g) ==
    /\ g.distance \in Nat \cup {Orphaned}
    /\ g.distance = 0 => g.base = main.oid

\* Groups in the order of their bases along main, orphans last; only the first may
\* begin at main's own commit.
Along ==
    /\ \A i \in DOMAIN groups : Reckoned(groups[i])
    /\ \A i, j \in DOMAIN groups : i < j /\ groups[j].distance # Orphaned =>
        /\ groups[i].distance # Orphaned /\ groups[i].distance <= groups[j].distance
        /\ groups[j].distance # 0

\* lane_group_key goes along main, and then come the orphans.
LEMMA KeysFollow ==
  ASSUME NEW g, NEW h, GroupLike(g), GroupLike(h), LexLess(GroupKey(g), GroupKey(h)),
         Reckoned(g), Reckoned(h), h.distance # Orphaned
  PROVE  g.distance # Orphaned /\ g.distance <= h.distance
<1> DEFINE a == GroupKey(g)
           b == GroupKey(h)
<1>1. /\ DOMAIN a = 1..4 /\ a[1] = (IF g.distance = Orphaned THEN 1 ELSE 0) /\ b[1] = 0
      /\ a[2] = (IF g.distance = Orphaned THEN 0 ELSE g.distance) /\ b[2] = h.distance
  BY DEF GroupKey
<1>2. LexLess(a, b)
  OBVIOUS
<1>3. g.distance \in Nat \cup {Orphaned} /\ h.distance \in Nat
  BY DEF Reckoned
<1> HIDE DEF a, b
<1>4. PICK i \in 1..4 : a[i] < b[i] /\ \A j \in 1..(i - 1) : a[j] = b[j]
  BY <1>1, <1>2 DEF LexLess
<1>5. CASE i = 1
  <2>1. a[1] < b[1]
    BY <1>4, <1>5
  <2> QED
    BY <1>1, <2>1
<1>6. CASE i = 2
  <2>1. a[2] < b[2] /\ a[1] = b[1]
    BY <1>4, <1>6
  <2> QED
    BY <1>1, <1>3, <2>1
<1>7. CASE i > 2
  <2>1. a[2] = b[2] /\ a[1] = b[1]
    BY <1>4, <1>7
  <2> QED
    BY <1>1, <1>3, <2>1
<1> QED
  BY <1>5, <1>6, <1>7

\* sort_groups: the groups lie along main.
LEMMA ArrangeAlong ==
  ASSUME Given, \A g \in ToSet(groups) : Reckoned(g), Arrange
  PROVE  Along'
<1> DEFINE S == {InOrder(g) : g \in ToSet(groups)}
           q == SortedGroups(S)
<1>1. groups' = q /\ main' = main
  BY DEF Arrange, SortedGroups, InOrder
<1>2. IsFiniteSet(S)
  <2> DEFINE f == [g \in ToSet(groups) |-> InOrder(g)]
  <2>1. IsFiniteSet(ToSet(groups))
    BY ElementsAreFinite DEF Given
  <2>2. IsFiniteSet({f[g] : g \in ToSet(groups)})
    <3> HIDE DEF f
    <3> QED BY <2>1, ImageIsFinite
  <2>3. {f[g] : g \in ToSet(groups)} = S
    OBVIOUS
  <2> QED
    BY <2>2, <2>3
<1>3. \A h \in S : GroupLike(h) /\ Reckoned(h)
  BY InOrderIs DEF Given, Reckoned
<1>4. ASSUME NEW h \in S, NEW k \in S, h.base = k.base PROVE h = k
  <2>1. PICK g \in ToSet(groups) : h = InOrder(g)
    OBVIOUS
  <2>2. PICK f \in ToSet(groups) : k = InOrder(f)
    OBVIOUS
  <2>3. h.base = g.base /\ k.base = f.base
    BY <2>1, <2>2, InOrderIs DEF Given
  <2>4. g = f
    BY <1>4, <2>3 DEF Given
  <2> QED
    BY <2>1, <2>2, <2>4
<1> HIDE DEF S
<1>5. /\ q \in Seq(S)
      /\ \A i, j \in DOMAIN q : i < j => LexLess(GroupKey(q[i]), GroupKey(q[j]))
  BY <1>2, <1>3, <1>4, SortedGroupsIs
<1>6. \A i, j \in DOMAIN q : i < j => q[i] # q[j]
  <2> SUFFICES ASSUME NEW i \in DOMAIN q, NEW j \in DOMAIN q, i < j, q[i] = q[j] PROVE FALSE
    OBVIOUS
  <2> DEFINE b == GroupKey(q[i])
  <2>1. LexLess(b, b)
    <3> HIDE DEF q
    <3> QED BY <1>5
  <2>2. \E k \in 1..4 : b[k] < b[k]
    BY <2>1 DEF LexLess, GroupKey
  <2>3. GroupLike(q[i])
    <3> HIDE DEF q
    <3> QED BY <1>3, <1>5
  <2>4. \A k \in 1..4 : b[k] \in Int
    <3>1. GroupTime(q[i].lanes) \in Int
      BY <2>3, GroupTimeIs DEF GroupLike
    <3> HIDE DEF q
    <3> QED BY <2>3, <3>1 DEF GroupKey, GroupLike
  <2> HIDE DEF b
  <2> QED
    BY <2>2, <2>4
<1> HIDE DEF q
<1>7. \A i \in DOMAIN q : GroupLike(q[i]) /\ Reckoned(q[i]) /\ q[i] \in S
  BY <1>3, <1>5
<1>8. ASSUME NEW i \in DOMAIN q, NEW j \in DOMAIN q, i < j, q[j].distance # Orphaned
      PROVE  q[i].distance # Orphaned /\ q[i].distance <= q[j].distance /\ q[j].distance # 0
  <2>1. q[i].distance # Orphaned /\ q[i].distance <= q[j].distance
    BY <1>5, <1>7, <1>8, KeysFollow
  <2>2. q[j].distance # 0
    <3> SUFFICES ASSUME q[j].distance = 0 PROVE FALSE
      OBVIOUS
    <3>1. q[i].distance = 0
      BY <1>7, <2>1 DEF Reckoned
    <3>2. q[i].base = q[j].base
      BY <1>7, <3>1 DEF Reckoned
    <3>3. q[i] = q[j]
      BY <1>4, <1>7, <3>2
    <3> QED
      BY <1>6, <1>8, <3>3
  <2> QED
    BY <2>1, <2>2
<1> QED
  BY <1>1, <1>7, <1>8 DEF Along, Reckoned

\* An entry of a lane, counted from the base: rewritten commits come first.
Entry(lane, i) ==
    IF i <= Len(lane.rewritten)
    THEN [content |-> lane.rewritten[Len(lane.rewritten) - i + 1], rewritten |-> TRUE,
          position |-> Len(lane.rewritten) - i + 1]
    ELSE [content |-> lane.points[Len(lane.rewritten) + Len(lane.points) - i + 1],
          rewritten |-> FALSE, position |-> Len(lane.rewritten) + Len(lane.points) - i + 1]

\* What a lane shows, entry by entry.
LEMMA ContentsListed ==
  ASSUME NEW lane, IsSequence(lane.points), IsSequence(lane.rewritten)
  PROVE  /\ Len(lane.rewritten) \in Nat /\ Len(lane.points) \in Nat
         /\ DOMAIN lane.rewritten = 1..Len(lane.rewritten) /\ DOMAIN lane.points = 1..Len(lane.points)
         /\ Len(Contents(lane)) = Len(lane.rewritten) + Len(lane.points)
         /\ \A i \in 1..Len(Contents(lane)) : Contents(lane)[i] = Entry(lane, i)
<1> DEFINE m == Len(lane.rewritten)
           n == Len(lane.points)
           numbered(commits, moved) ==
               [i \in 1..Len(commits) |-> [content |-> commits[Len(commits) - i + 1],
                    rewritten |-> moved, position |-> Len(commits) - i + 1]]
           a == numbered(lane.rewritten, TRUE)
           b == numbered(lane.points, FALSE)
           E == {a[i] : i \in 1..m} \cup {b[i] : i \in 1..n}
<1>1. m \in Nat /\ n \in Nat /\ DOMAIN lane.rewritten = 1..m /\ DOMAIN lane.points = 1..n
  BY DEF IsSequence
<1>2. ASSUME NEW commits, Len(commits) \in Nat, DOMAIN commits = 1..Len(commits), NEW moved
      PROVE  Numbered(commits, moved) = numbered(commits, moved)
  <2> DEFINE s == [i \in DOMAIN commits |-> [content |-> commits[i], rewritten |-> moved, position |-> i]]
  <2>1. Len(s) = Len(commits)
    BY <1>2
  <2>2. Numbered(commits, moved) = [i \in 1..Len(commits) |-> s[Len(commits) - i + 1]]
    BY <2>1 DEF Numbered, Reverse
  <2>3. \A i \in 1..Len(commits) : Len(commits) - i + 1 \in DOMAIN commits
    BY <1>2
  <2> QED
    BY <2>2, <2>3
<1>3. Contents(lane) = a \o b
  <2>1. Contents(lane) = Numbered(lane.rewritten, TRUE) \o Numbered(lane.points, FALSE)
    BY DEF Contents
  <2>2. Numbered(lane.rewritten, TRUE) = a /\ Numbered(lane.points, FALSE) = b
    <3> HIDE DEF numbered
    <3> QED BY <1>1, <1>2
  <2> HIDE DEF a, b
  <2> QED
    BY <2>1, <2>2
<1>4. DOMAIN a = 1..m /\ a = [i \in 1..m |-> a[i]] /\ DOMAIN b = 1..n /\ b = [i \in 1..n |-> b[i]]
  OBVIOUS
<1>5. \A i \in 1..m : a[i] = Entry(lane, i)
  BY <1>1 DEF Entry
<1>6. \A i \in (m + 1)..(m + n) : b[i - m] = Entry(lane, i)
  <2> TAKE i \in (m + 1)..(m + n)
  <2>1. i - m \in 1..n /\ ~(i <= m) /\ n - (i - m) + 1 = m + n - i + 1
    <3> HIDE DEF m, n
    <3> QED BY <1>1
  <2> QED
    BY <2>1 DEF Entry
<1> HIDE DEF a, b
<1>7. a \in Seq(E) /\ Len(a) = m /\ b \in Seq(E) /\ Len(b) = n
  <2>1. \A i \in 1..m : a[i] \in E
    OBVIOUS
  <2>2. \A i \in 1..n : b[i] \in E
    OBVIOUS
  <2> HIDE DEF E, m, n
  <2> QED
    BY <1>1, <1>4, <2>1, <2>2, SequenceFrom
<1> HIDE DEF E, m, n
<1>8. /\ Len(a \o b) = m + n
      /\ \A i \in 1..(m + n) : (a \o b)[i] = IF i <= m THEN a[i] ELSE b[i - m]
  BY <1>7
<1>9. ASSUME NEW i \in 1..(m + n) PROVE (a \o b)[i] = Entry(lane, i)
  <2>1. i \in 1..m \/ i \in (m + 1)..(m + n)
    BY <1>1
  <2>2. i \in 1..m => i <= m
    BY <1>1
  <2>3. i \in (m + 1)..(m + n) => ~(i <= m)
    BY <1>1
  <2> QED
    BY <1>5, <1>6, <1>8, <2>1, <2>2, <2>3
<1> QED
  BY <1>1, <1>3, <1>8, <1>9 DEF m, n

\* Every beginning of a path is a row.
LEMMA BeginningsOfPaths ==
  ASSUME NEW lanes, Lanelike(lanes), NEW i \in DOMAIN lanes, NEW l \in 1..Len(Contents(lanes[i]))
  PROVE  /\ SubSeq(PathOf(lanes[i]), 1, l) \in Nodes(lanes)
         /\ Len(SubSeq(PathOf(lanes[i]), 1, l)) = l
         /\ IsPrefix(SubSeq(PathOf(lanes[i]), 1, l), PathOf(lanes[i]))
<1> DEFINE p == PathOf(lanes[i])
           n == SubSeq(p, 1, l)
           X == Identities(lanes)
<1>1. p \in Seq(X) /\ Len(p) = Len(Contents(lanes[i])) /\ Len(p) \in Nat
  BY PathIs
<1>2. l \in 1..Len(p)
  BY <1>1
<1>3. n \in Prefixes(p)
  BY <1>1, <1>2 DEF Prefixes
<1> HIDE DEF X
<1>4. n \in Seq(X) /\ Len(n) = l /\ \A k \in 1..l : n[k] = p[k]
  <2> HIDE DEF p
  <2> QED BY <1>1, <1>2
<1>5. IsPrefix(n, p)
  <2> HIDE DEF p, n
  <2> QED BY <1>1, <1>2, <1>4, PrefixIs
<1>6. n # <<>>
  <2> HIDE DEF n
  <2> QED BY <1>2, <1>4
<1> QED
  BY <1>3, <1>4, <1>5, <1>6 DEF Nodes

\* A group has rows exactly if it has lanes.
LEMMA RowsIfLanes ==
  ASSUME Arranged, NEW g \in DOMAIN groups
  PROVE  Len(Rows(g)) = 0 <=> Lanes(g) = <<>>
<1> DEFINE lanes == Lanes(g)
<1>1. Lanelike(lanes) /\ \A lane \in ToSet(lanes) : IsLane(lane)
  BY RowsAreFit
<1>2. Rows(g) = SharedAncestry(lanes).rows
  BY DEF Arranged, Rows, Lanes
<1> HIDE DEF lanes
<1>3. PICK q : Traverses(q, lanes, <<>>) /\ SharedAncestry(lanes).rows = RowsOfPath(lanes, q)
  BY <1>1, RowsAre
<1>4. q \in Seq(Nodes(lanes)) /\ DOMAIN q = 1..Len(q) /\ Len(q) \in Nat
  BY <1>3 DEF Traverses
<1>5. Len(Rows(g)) = Len(q)
  <2>1. RowsOfPath(lanes, q) = [i \in 1..Len(q) |-> Row(lanes, q[i])]
    BY <1>4 DEF RowsOfPath
  <2> QED
    BY <1>2, <1>3, <1>4, <2>1
<1>6. ASSUME Len(q) = 0, lanes # <<>> PROVE FALSE
  <2>1. lanes \in Seq(ToSet(lanes)) /\ Len(lanes) \in Nat /\ DOMAIN lanes = 1..Len(lanes)
    BY <1>1 DEF Lanelike
  <2>2. Len(lanes) # 0
    BY <1>6, <2>1
  <2>3. 1 \in DOMAIN lanes
    BY <2>1, <2>2
  <2> DEFINE path == PathOf(lanes[1])
  <2>4. path \in Seq(Identities(lanes)) /\ Len(path) = Len(Contents(lanes[1]))
    BY <1>1, <2>3, PathIs
  <2>5. IsLane(lanes[1])
    BY <1>1, <2>3 DEF ToSet
  <2>6. Len(path) > 0
    <3> DEFINE lane == lanes[1]
    <3>1. IsSequence(lane.points) /\ IsSequence(lane.rewritten) /\ lane.points # <<>>
      BY <2>5 DEF IsLane
    <3> HIDE DEF lane
    <3>2. Len(Contents(lane)) = Len(lane.rewritten) + Len(lane.points)
      BY <3>1, ContentsListed
    <3>3. Len(lane.points) \in Nat /\ Len(lane.points) # 0 /\ Len(lane.rewritten) \in Nat
      <4>1. lane.points \in Seq(ToSet(lane.points)) /\ lane.rewritten \in Seq(ToSet(lane.rewritten))
        BY <3>1 DEF IsSequence
      <4> QED BY <3>1, <4>1
    <3>4. Len(Contents(lane)) > 0
      <4>1. \A x, y \in Nat : y # 0 => x + y > 0
        OBVIOUS
      <4> HIDE DEF path
      <4> QED BY <3>2, <3>3, <4>1
    <3> QED
      BY <2>4, <3>4 DEF lane
  <2>7. PICK n \in Nodes(lanes) : TRUE
    <3>1. 1 \in 1..Len(Contents(lanes[1]))
      <4> HIDE DEF path
      <4> QED BY <2>4, <2>6
    <3> QED BY <1>1, <2>3, <3>1, BeginningsOfPaths
  <2>8. n \in Seq(Identities(lanes)) /\ IsPrefix(<<>>, n)
    <3>1. n \in Seq(Identities(lanes))
      BY <1>1, NodesAre
    <3> QED BY <3>1, PrefixFacts
  <2>9. \E i \in DOMAIN q : q[i] = n
    BY <1>3, <2>8 DEF Traverses
  <2> QED
    BY <1>4, <1>6, <2>9
<1>7. ASSUME lanes = <<>> PROVE Len(q) = 0
  <2>1. Nodes(lanes) = {}
    BY <1>7 DEF Nodes
  <2>2. q \in Seq({})
    BY <1>4, <2>1
  <2> QED
    BY <2>2
<1> QED
  BY <1>5, <1>6, <1>7 DEF lanes

\* Nothing before or after a sequence leaves it as it is; so does one element.
LEMMA JoinNone ==
  ASSUME NEW s, IsSequence(s)
  PROVE  <<>> \o s = s /\ s \o <<>> = s
<1>1. s \in Seq(ToSet(s)) /\ <<>> \in Seq(ToSet(s))
  BY DEF IsSequence
<1> QED
  BY <1>1

\* A picture of one line is a sequence.
LEMMA OneLine ==
  ASSUME NEW p
  PROVE  /\ IsSequence(<<p>>) /\ Len(<<p>>) = 1 /\ DOMAIN <<p>> = 1..1
         /\ \A i \in DOMAIN <<p>> : <<p>>[i] = p
<1>1. <<p>> \in Seq({p}) /\ Len(<<p>>) = 1 /\ DOMAIN <<p>> = 1..1 /\ <<p>>[1] = p
  OBVIOUS
<1>2. \A i \in 1..1 : i = 1
  OBVIOUS
<1>3. IsSequence(<<p>>)
  BY <1>1, OverIts
<1> QED
  BY <1>1, <1>2, <1>3

\* The empty picture is one.
LEMMA NoLine == IsSequence(<<>>) /\ Len(<<>>) = 0 /\ DOMAIN <<>> = {}
<1>1. <<>> \in Seq({}) /\ Len(<<>>) = 0 /\ DOMAIN <<>> = {}
  OBVIOUS
<1>2. IsSequence(<<>>)
  BY <1>1, OverIts
<1> QED
  BY <1>1, <1>2

\* The rows of this group lead to main's own commit.
LeadsIn(g, r) == r # 0 /\ groups[g].distance = 0

\* How far main has been drawn when this row is the next.
MainAt(lines, g, r, begun, along, name) ==
    /\ r # 0 => begun
    /\ ~begun => g = 1 /\ lines = <<>> /\ along = 0 /\ name \in MainNames
    /\ begun /\ r = 0 => g > 1
    /\ along \in Nat
    /\ \A j \in DOMAIN groups : j >= g /\ IsConnected(j) => along <= groups[j].distance
    /\ LeadsIn(g, r) => name \in MainNames /\ Heralds(lines, r > Len(Rows(g)))
    /\ begun /\ ~LeadsIn(g, r) =>
        WholeTo(lines, IF r # 0 THEN groups[g].distance ELSE along, name)

\* What main rests on while it is drawn.
MainUnderway ==
    /\ Underway /\ Along /\ IsSequence(main.refs)
    /\ MainAt(picture, group, row, started, drawn, historyName)

\* What is left out above a group, and what it is called.
GapLine(g) == Line("gap", "dotted", <<>>, [count |-> groups[g].distance - drawn, name |-> historyName])

GapLines(g) == IF groups[g].distance > drawn THEN <<GapLine(g)>> ELSE <<>>

\* Main down to the next group.
LEMMA WholeToGroup ==
  ASSUME NEW g, NEW lines, WholeTo(lines, drawn, historyName), drawn \in Nat,
         groups[g].distance \in Nat, drawn <= groups[g].distance
  PROVE  WholeTo(lines \o GapLines(g), groups[g].distance, historyName)
<1> DEFINE distance == groups[g].distance
           p == GapLine(g)
<1>1. IsSequence(lines)
  BY DEF WholeTo
<1>2. CASE distance > drawn
  <2>1. Extends(lines \o <<p>>, lines, <<p>>)
    <3> HIDE DEF p
    <3> QED BY <1>1, OneLine, ExtendIs
  <2>2. p.kind = "gap" /\ p.spine # "blank" /\ p.label.count \in Int /\ p.label.name = historyName
    BY DEF GapLine, Line
  <2>3. drawn + p.label.count = distance
    BY DEF GapLine, Line
  <2> HIDE DEF p
  <2>4. WholeTo(lines \o <<p>>, drawn + p.label.count, historyName)
    BY <2>1, <2>2, WholeGap
  <2> QED
    BY <1>2, <2>3, <2>4 DEF GapLines, p
<1>3. CASE ~(distance > drawn)
  <2>1. GapLines(g) = <<>> /\ distance = drawn
    BY <1>3 DEF GapLines
  <2> QED
    BY <1>1, <2>1, JoinNone
<1> QED
  BY <1>2, <1>3

\* render_lane_groups begins with a connected group.
LEMMA MainOpens ==
  ASSUME MainUnderway, OpenGroup
  PROVE  MainAt(picture', group', row', started', drawn', historyName')
<1> DEFINE g == group
           distance == groups[g].distance
<1>1. /\ g \in DOMAIN groups /\ IsSequence(groups) /\ distance \in Nat /\ Len(Rows(g)) \in Nat
      /\ IsConnected(g) /\ DOMAIN groups = 1..Len(groups) /\ g \in Nat
  <2>1. g \in DOMAIN groups /\ IsSequence(groups) /\ Len(Rows(g)) \in Nat /\ IsConnected(g)
    BY GroupIs DEF MainUnderway, Underway, OpenGroup
  <2>2. distance \in Nat
    BY <2>1 DEF MainUnderway, Along, Reckoned, IsConnected
  <2> QED
    BY <2>1, <2>2 DEF IsSequence
<1>2. /\ row = 0 /\ row' = 1 /\ group' = g /\ started' = TRUE /\ drawn' = drawn
      /\ historyName' = historyName /\ picture' = picture \o Prelude(g)
  BY DEF OpenGroup
<1>3. /\ drawn \in Nat /\ drawn <= distance
      /\ \A j \in DOMAIN groups : j >= g /\ IsConnected(j) => drawn <= groups[j].distance
  BY <1>1 DEF MainUnderway, MainAt
<1>4. IsSequence(GapLines(g))
  BY OneLine, NoLine DEF GapLines
<1>5. CASE started
  <2>1. g > 1
    BY <1>2, <1>5 DEF MainUnderway, MainAt
  <2>2. distance # 0
    <3>1. 1 \in DOMAIN groups /\ 1 < g
      BY <1>1, <2>1
    <3> QED
      BY <1>1, <3>1 DEF MainUnderway, Along, IsConnected
  <2>3. Prelude(g) = GapLines(g)
    BY <1>4, <1>5, JoinNone DEF Prelude, GapLines, GapLine
  <2>4. WholeTo(picture, drawn, historyName)
    BY <1>2, <1>5 DEF MainUnderway, MainAt, LeadsIn
  <2>5. WholeTo(picture', distance, historyName)
    BY <1>1, <1>2, <1>3, <2>3, <2>4, WholeToGroup
  <2> QED
    BY <1>2, <1>3, <2>2, <2>5 DEF MainAt, LeadsIn
<1>6. CASE ~started
  <2> DEFINE leads == ~(distance = 0 /\ Lanes(g) # <<>>)
             space == TopSpacer(distance = 0 /\ Lanes(g) # <<>>)
  <2>1. picture = <<>> /\ drawn = 0 /\ historyName \in MainNames
    BY <1>6 DEF MainUnderway, MainAt
  <2>2. Heralds(<<space>>, leads)
    <3>1. space.kind = "spacer" /\ space.spine = IF leads THEN "dotted" ELSE "blank"
      BY DEF TopSpacer, Line
    <3> HIDE DEF space, leads
    <3> QED BY <3>1, OneLine DEF Heralds
  <2>3. CASE distance = 0
    <3>1. GapLines(g) = <<>>
      BY <2>1, <2>3 DEF GapLines
    <3>2. Prelude(g) = <<space>>
      <4>1. Prelude(g) = (<<space>> \o <<>>) \o GapLines(g)
        BY <1>6, <2>3 DEF Prelude, GapLines, GapLine
      <4> HIDE DEF space
      <4> QED BY <3>1, <4>1, OneLine, JoinNone
    <3>3. picture' = <<space>>
      <4> HIDE DEF space
      <4> QED BY <1>2, <2>1, <3>2, OneLine, JoinNone
    <3>4. leads <=> 1 > Len(Rows(g))
      <4>1. Len(Rows(g)) = 0 <=> Lanes(g) = <<>>
        BY <1>1, RowsIfLanes DEF MainUnderway, Underway
      <4> QED
        BY <1>1, <2>3, <4>1
    <3>5. Heralds(picture', 1 > Len(Rows(g)))
      <4> HIDE DEF space, leads
      <4> QED BY <2>2, <3>3, <3>4 DEF Heralds
    <3> QED
      BY <1>2, <1>3, <2>1, <2>3, <3>5 DEF MainAt, LeadsIn
  <2>4. CASE distance # 0
    <3>1. Prelude(g) = (<<space>> \o <<MainTip>>) \o GapLines(g)
      BY <1>1, <1>6, <2>4 DEF Prelude, GapLines, GapLine
    <3> DEFINE top == <<space>> \o <<MainTip>>
    <3>2. WholeTo(top, 0, historyName)
      <4>1. Heralds(<<space>>, TRUE)
        BY <2>2, <2>4
      <4>2. Extends(top, <<space>>, <<MainTip>>)
        <5> HIDE DEF space
        <5> QED BY OneLine, ExtendIs
      <4>3. IsTip(MainTip) /\ historyName \in MainTip.label
        BY <2>1 DEF IsTip, MainTip, Line
      <4> HIDE DEF space, top
      <4> QED
        BY <4>1, <4>2, <4>3, WholeFirst
    <3>3. picture' = top \o GapLines(g)
      <4>1. IsSequence(top \o GapLines(g))
        <5>1. IsSequence(top)
          BY <3>2 DEF WholeTo
        <5> HIDE DEF top
        <5> QED BY <1>4, <5>1, ExtendIs DEF Extends
      <4> QED
        BY <1>2, <2>1, <3>1, <4>1, JoinNone
    <3> HIDE DEF top
    <3>4. WholeTo(picture', distance, historyName)
      BY <1>1, <1>3, <2>1, <3>2, <3>3, WholeToGroup
    <3> QED
      BY <1>2, <1>3, <2>4, <3>4 DEF MainAt, LeadsIn
  <2> QED
    BY <2>3, <2>4
<1> QED
  BY <1>5, <1>6

\* A row and the junction above it go on with main.
LEMMA MainRows ==
  ASSUME MainUnderway, DrawRow
  PROVE  MainAt(picture', group', row', started', drawn', historyName')
<1> DEFINE g == group
           r == Rows(group)[row]
           joins == Line("junction", MainSpine(group), JunctionCells(Joined(r), laneColours), {})
           junction == IF Joined(r) = {} THEN <<>> ELSE <<joins>>
           left == shown \ Joined(r)
           lanes == IF r.lane \in left THEN laneColours ELSE [laneColours EXCEPT ![r.lane] = nextColour]
           p == CommitRow(r, Commit(group, r), RowSpine(group, row), RowCells(r.lane, shown', lanes))
           above == picture \o junction
<1>1. /\ g \in DOMAIN groups /\ Len(Rows(g)) \in Nat /\ IsConnected(g)
      /\ row \in 1..Len(Rows(g)) /\ row \in Nat /\ row # 0
  BY GroupIs DEF MainUnderway, Underway, DrawRow
<1>2. /\ row' = row + 1 /\ group' = g /\ started' = started /\ drawn' = drawn
      /\ historyName' = historyName /\ picture' = Append(above, p)
  BY DEF DrawRow
<1>3. IsSequence(picture)
  BY DEF MainUnderway, Underway, NumberedSoFar, Painting
<1>4. IsSequence(junction) /\ \A i \in DOMAIN junction : junction[i] = joins
  <2> HIDE DEF joins
  <2> QED BY OneLine, NoLine
<1>5. Extends(above, picture, junction) /\ IsSequence(above)
  <2> HIDE DEF junction
  <2> QED BY <1>3, <1>4, ExtendIs DEF Extends
<1>6. joins.kind = "junction" /\ joins.spine = MainSpine(g)
  BY DEF Line
<1>7. p.kind = "commit" /\ p.spine = RowSpine(g, row)
  BY DEF CommitRow
<1> HIDE DEF p, joins
<1>8. Extends(picture', above, <<p>>)
  <2> HIDE DEF above
  <2> QED BY <1>2, <1>5, ExtendOne
<1>9. started
  BY <1>1 DEF MainUnderway, MainAt
<1>10. CASE groups[g].distance = 0
  <2>1. MainSpine(g) = "blank" /\ RowSpine(g, row) = IF row = Len(Rows(g)) THEN "dotted" ELSE "blank"
    BY <1>10 DEF MainSpine, RowSpine
  <2>2. Heralds(picture, FALSE) /\ historyName \in MainNames
    BY <1>1, <1>10 DEF MainUnderway, MainAt, LeadsIn, Heralds
  <2>3. Heralds(above, FALSE)
    <3>1. CASE junction = <<>>
      <4> HIDE DEF junction
      <4> QED BY <1>3, <2>2, <3>1, JoinNone
    <3>2. CASE junction # <<>>
      <4>1. Len(junction) = 1
        BY <3>2, OneLine
      <4>2. Heralds(junction, FALSE)
        <5> HIDE DEF junction
        <5> QED BY <1>4, <1>6, <2>1 DEF Heralds
      <4>3. Len(junction) > 0
        BY <4>1
      <4> HIDE DEF junction, above
      <4> QED BY <1>5, <2>2, <4>2, <4>3, HeraldsMore
    <3> QED
      BY <3>1, <3>2
  <2>5. /\ Heralds(<<p>>, TRUE) => Heralds(picture', TRUE)
        /\ Heralds(<<p>>, FALSE) => Heralds(picture', FALSE)
    <3>1. Len(<<p>>) > 0
      OBVIOUS
    <3> HIDE DEF above
    <3> QED BY <1>8, <2>3, <3>1, HeraldsMore
  <2>6. Heralds(picture', row + 1 > Len(Rows(g)))
    <3>1. CASE row = Len(Rows(g))
      <4>1. Heralds(<<p>>, TRUE)
        BY <1>7, <2>1, <3>1, OneLine DEF Heralds
      <4>2. Heralds(picture', TRUE)
        BY <2>5, <4>1
      <4>3. row + 1 > Len(Rows(g))
        BY <1>1, <3>1
      <4> QED
        BY <4>2, <4>3 DEF Heralds
    <3>2. CASE row # Len(Rows(g))
      <4>1. Heralds(<<p>>, FALSE)
        BY <1>7, <2>1, <3>2, OneLine DEF Heralds
      <4>2. Heralds(picture', FALSE)
        BY <2>5, <4>1
      <4>3. ~(row + 1 > Len(Rows(g)))
        BY <1>1, <3>2
      <4> QED
        BY <4>2, <4>3 DEF Heralds
    <3> QED
      BY <3>1, <3>2
  <2> QED
    BY <1>1, <1>2, <1>9, <1>10, <2>2, <2>6 DEF MainUnderway, MainAt, LeadsIn
<1>11. CASE groups[g].distance # 0
  <2>1. MainSpine(g) = "line" /\ RowSpine(g, row) = "line"
    BY <1>11 DEF MainSpine, RowSpine
  <2> DEFINE distance == groups[g].distance
  <2>2. WholeTo(picture, distance, historyName)
    BY <1>1, <1>9, <1>11 DEF MainUnderway, MainAt, LeadsIn
  <2>3. \A i \in DOMAIN junction : Plain(junction[i])
    BY <1>4, <1>6, <2>1 DEF Plain
  <2>4. WholeTo(above, distance, historyName)
    <3> HIDE DEF above, junction, distance
    <3> QED BY <1>5, <2>2, <2>3, WholePlain
  <2>5. \A i \in DOMAIN <<p>> : Plain(<<p>>[i])
    BY <1>7, <2>1, OneLine DEF Plain
  <2>6. WholeTo(picture', distance, historyName)
    <3> HIDE DEF above, distance
    <3> QED BY <1>8, <2>4, <2>5, WholePlain
  <2> QED
    BY <1>1, <1>2, <1>9, <1>11, <2>6 DEF MainUnderway, MainAt, LeadsIn
<1> QED
  BY <1>10, <1>11

\* render_group ends with the base, which may name the gap below it.
LEMMA MainBases ==
  ASSUME MainUnderway, DrawTrunk
  PROVE  MainAt(picture', group', row', started', drawn', historyName')
<1> DEFINE g == group
           distance == groups[group].distance
           base == groups[group].base
           names == IF distance = 0 THEN MainNames ELSE References(base)
           p == Line("trunk", "node", TrunkCells(ToSet(prepared[group].roots), laneColours), names)
           new == IF References(base) = {} THEN historyName ELSE FirstReference(base)
<1>1. /\ g \in DOMAIN groups /\ Len(Rows(g)) \in Nat /\ IsConnected(g)
      /\ row = Len(Rows(g)) + 1 /\ row \in Nat /\ row # 0 /\ distance \in Nat /\ g \in Nat /\ g >= 1
  <2>1. /\ g \in DOMAIN groups /\ Len(Rows(g)) \in Nat /\ IsConnected(g) /\ IsSequence(groups)
        /\ row = Len(Rows(g)) + 1
    BY GroupIs DEF MainUnderway, Underway, DrawTrunk
  <2>2. distance \in Nat
    BY <2>1 DEF MainUnderway, Along, Reckoned, IsConnected
  <2>3. row \in Nat /\ row # 0
    BY <2>1
  <2> QED
    BY <2>1, <2>2, <2>3 DEF IsSequence
<1>2. /\ row' = 0 /\ group' = g + 1 /\ started' = started /\ drawn' = distance
      /\ historyName' = new /\ picture' = Append(picture, p)
  BY DEF DrawTrunk
<1>3. IsSequence(picture)
  BY DEF MainUnderway, Underway, NumberedSoFar, Painting
<1>4. p.kind = "trunk" /\ p.spine = "node" /\ p.label = names /\ p.group = g
  BY DEF Line
<1> HIDE DEF p
<1>5. Extends(picture', picture, <<p>>)
  BY <1>2, <1>3, ExtendOne
<1>6. started
  BY <1>1 DEF MainUnderway, MainAt
<1>7. References(base) # {} => FirstReference(base) \in References(base)
  <2> HIDE DEF base
  <2> QED BY FirstReferenceIs DEF MainUnderway
<1>8. WholeTo(picture', distance, new)
  <2>1. CASE distance = 0
    <3>1. Heralds(picture, TRUE) /\ historyName \in MainNames
      <4>1. row > Len(Rows(g))
        BY <1>1
      <4> QED
        BY <1>1, <2>1, <4>1 DEF MainUnderway, MainAt, LeadsIn, Heralds
    <3>2. base = main.oid
      BY <1>1, <2>1 DEF MainUnderway, Along, Reckoned
    <3>3. new \in MainNames
      BY <1>7, <3>1, <3>2 DEF MainNames
    <3>4. IsTip(p) /\ new \in p.label
      BY <1>4, <2>1, <3>3 DEF IsTip
    <3> HIDE DEF new
    <3>5. WholeTo(picture', 0, new)
      BY <1>5, <3>1, <3>4, WholeFirst
    <3> QED
      BY <2>1, <3>5
  <2>2. CASE distance # 0
    <3>1. WholeTo(picture, distance, historyName)
      BY <1>1, <1>6, <2>2 DEF MainUnderway, MainAt, LeadsIn
    <3>2. ~IsTip(p) /\ groups[p.group].distance = distance
      BY <1>4, <2>2 DEF IsTip
    <3>3. IF p.label = {} THEN new = historyName ELSE new \in p.label
      BY <1>4, <1>7, <2>2
    <3> HIDE DEF new, distance
    <3> QED
      BY <1>4, <1>5, <3>1, <3>2, <3>3, WholeBase
  <2> QED
    BY <2>1, <2>2
<1>9. \A j \in DOMAIN groups : j >= g + 1 /\ IsConnected(j) => distance <= groups[j].distance
  <2> SUFFICES ASSUME NEW j \in DOMAIN groups, j >= g + 1, IsConnected(j)
               PROVE  distance <= groups[j].distance
    OBVIOUS
  <2>1. g < j
    <3>1. DOMAIN groups \subseteq Nat
      BY DEF MainUnderway, Underway, Arranged, IsSequence
    <3> QED BY <1>1, <3>1
  <2> QED
    BY <1>1, <2>1 DEF MainUnderway, Along, IsConnected
<1> HIDE DEF new, distance
<1> QED
  BY <1>1, <1>2, <1>6, <1>8, <1>9 DEF MainAt, LeadsIn

\* Main alone: the row that leads to it, and its own.
LEMMA MainAlone ==
  ASSUME NEW name \in MainNames
  PROVE  WholeTo(<<TopSpacer(FALSE), MainTip>>, 0, name)
<1> DEFINE space == TopSpacer(FALSE)
           tip == MainTip
<1>1. space.kind = "spacer" /\ space.spine = "dotted"
  BY DEF TopSpacer, Line
<1>2. IsTip(tip) /\ name \in tip.label
  BY DEF IsTip, MainTip, Line
<1> HIDE DEF space, tip
<1>3. Heralds(<<space>>, TRUE)
  BY <1>1, OneLine DEF Heralds
<1>4. Extends(<<space, tip>>, <<space>>, <<tip>>)
  <2>1. <<space, tip>> \in Seq({space, tip})
    OBVIOUS
  <2>2. IsSequence(<<space, tip>>)
    BY <2>1, OverIts
  <2>3. /\ Len(<<space, tip>>) = 2 /\ <<space, tip>>[1] = space /\ <<space, tip>>[2] = tip
        /\ DOMAIN <<space, tip>> = 1..2 /\ <<space>>[1] = space /\ <<tip>>[1] = tip
    OBVIOUS
  <2>4. \A i \in 1..1 : i = 1
    OBVIOUS
  <2>5. Len(<<space>>) = 1 /\ Len(<<tip>>) = 1
    OBVIOUS
  <2> QED
    BY <2>2, <2>3, <2>4, <2>5, OneLine DEF Extends
<1>5. WholeTo(<<space, tip>>, 0, name)
  BY <1>2, <1>3, <1>4, WholeFirst
<1> QED
  BY <1>5 DEF space, tip

\* render_orphaned_group draws below main, and begins main where nothing else has.
LEMMA MainOrphans ==
  ASSUME MainUnderway, DrawOrphans
  PROVE  MainAt(picture', group', row', started', drawn', historyName')
<1> DEFINE g == group
           begin == IF started THEN <<>> ELSE <<TopSpacer(FALSE), MainTip>>
           rest == OrphanRows(g)
           above == picture \o begin
<1>1. /\ group' = g + 1 /\ row' = row /\ started' = TRUE /\ drawn' = drawn
      /\ historyName' = historyName /\ picture' = above \o rest
      /\ group <= Len(groups) /\ ~IsConnected(group)
  BY DEF DrawOrphans, OrphanRows, OrphanPoints
<1>2. /\ group \in DOMAIN groups /\ group \in Nat /\ group >= 1 /\ row = 0 /\ IsSequence(groups)
  <2>1. group \in DOMAIN groups /\ IsSequence(groups)
    BY <1>1, GroupIs DEF MainUnderway, Underway
  <2>2. row = 0
    BY <1>1 DEF MainUnderway, Underway, Opened
  <2> QED
    BY <2>1, <2>2 DEF IsSequence
<1>3. IsSequence(picture)
  BY DEF MainUnderway, Underway, NumberedSoFar, Painting
<1>4. drawn \in Nat
  BY DEF MainUnderway, MainAt
<1>5. WholeTo(above, drawn, historyName)
  <2>1. CASE started
    <3>1. WholeTo(picture, drawn, historyName)
      BY <1>2, <2>1 DEF MainUnderway, MainAt, LeadsIn
    <3> QED
      BY <1>3, <2>1, <3>1, JoinNone
  <2>2. CASE ~started
    <3>1. picture = <<>> /\ drawn = 0 /\ historyName \in MainNames
      BY <2>2 DEF MainUnderway, MainAt
    <3> DEFINE alone == <<TopSpacer(FALSE), MainTip>>
    <3>2. WholeTo(alone, 0, historyName)
      BY <3>1, MainAlone
    <3>3. above = <<>> \o alone
      BY <2>2, <3>1
    <3> HIDE DEF alone, above
    <3>4. above = alone
      BY <3>2, <3>3, JoinNone DEF WholeTo
    <3> QED
      BY <3>1, <3>2, <3>4
  <2> QED
    BY <2>1, <2>2
<1>6. IsSequence(rest) /\ \A i \in DOMAIN rest : Plain(rest[i])
  <2>1. IsSequence(rest)
    BY <1>2, OrphanRowsAre DEF MainUnderway, Underway
  <2>2. \A i \in DOMAIN rest : Plain(rest[i])
    BY DEF OrphanRows, Plain, Line
  <2> QED
    BY <2>1, <2>2
<1> HIDE DEF above, rest
<1>7. WholeTo(picture', drawn, historyName)
  <2>1. Extends(picture', above, rest)
    BY <1>1, <1>5, <1>6, ExtendIs DEF WholeTo
  <2> QED
    BY <1>5, <1>6, <2>1, WholePlain
<1>8. \A j \in DOMAIN groups : j >= g + 1 /\ IsConnected(j) => drawn <= groups[j].distance
  <2>1. DOMAIN groups \subseteq Nat
    BY <1>2 DEF IsSequence
  <2>2. \A j \in DOMAIN groups : j >= g + 1 => j >= g
    BY <1>2, <2>1
  <2> QED
    BY <2>2 DEF MainUnderway, MainAt
<1> QED
  BY <1>1, <1>2, <1>4, <1>7, <1>8 DEF MainAt, LeadsIn

\* Main is whole, and what follows is its past.
MainEnded ==
    /\ \E total, name : WholeTo(picture, total, name)
    /\ picture[Len(picture)].kind = "past"

\* The end of main.
LEMMA MainEnds ==
  ASSUME MainUnderway, Finish
  PROVE  /\ \E total, name : WholeTo(picture', total, name)
         /\ picture'[Len(picture')].kind = "past"
<1> DEFINE first == IF groups = <<>> THEN <<TopSpacer(FALSE), MainTip>> ELSE picture
<1>1. picture' = first \o <<OmittedPast>> /\ group > Len(groups)
  BY DEF Finish
<1>2. IsSequence(groups) /\ DOMAIN groups = 1..Len(groups) /\ Len(groups) \in Nat
  BY DEF MainUnderway, Underway, Arranged, IsSequence
<1>3. \E total, name : WholeTo(first, total, name)
  <2>1. CASE groups = <<>>
    <3>1. PICK name \in MainNames : TRUE
      BY DEF MainNames
    <3> QED
      BY <2>1, <3>1, MainAlone
  <2>2. CASE groups # <<>>
    <3>1. Len(groups) # 0 /\ Len(groups) >= 1
      BY <1>2, <2>2 DEF IsSequence
    <3>2. row = 0
      BY <1>1, <1>2 DEF MainUnderway, Underway, Opened, NumberedSoFar
    <3>3. started
      BY <1>1, <1>2, <3>1 DEF MainUnderway, MainAt
    <3>4. WholeTo(picture, drawn, historyName)
      BY <3>2, <3>3 DEF MainUnderway, MainAt, LeadsIn
    <3> QED
      BY <2>2, <3>4
  <2> QED
    BY <2>1, <2>2
<1>4. PICK total, name : WholeTo(first, total, name)
  BY <1>3
<1> DEFINE past == OmittedPast
<1>5. past.kind = "past" /\ Plain(past)
  BY DEF OmittedPast, Line, Plain
<1> HIDE DEF first, past
<1>6. picture' = first \o <<past>>
  BY <1>1 DEF past
<1>7. Extends(picture', first, <<past>>)
  BY <1>4, <1>6, OneLine, ExtendIs DEF WholeTo
<1>8. WholeTo(picture', total, name)
  BY <1>4, <1>5, <1>7, OneLine, WholePlain
<1>9. picture'[Len(picture')] = past
  BY <1>7, OneBelow DEF OneMore
<1> QED
  BY <1>5, <1>8, <1>9

\* What is known of main from the order of the groups to the last row.
MainSound ==
    /\ IsSequence(main.refs)
    /\ pc = "arrange" => \A g \in ToSet(groups) : Reckoned(g)
    /\ pc # "arrange" => Along
    /\ pc \in {"arrange", "segments", "colours"} =>
        ~started /\ drawn = 0 /\ historyName \in MainNames
    /\ pc = "draw" => MainAt(picture, group, row, started, drawn, historyName)
    /\ pc = "done" => MainEnded

\* Main of every repository.
LEMMA InitMain == Init => MainSound
<1> SUFFICES ASSUME Init PROVE MainSound
  OBVIOUS
<1>1. PICK repository \in Repositories : groups = repository.groups /\ main = repository.main
  BY DEF Init
<1>2. IsSequence(main.refs) /\ \A g \in ToSet(groups) : Reckoned(g)
  BY <1>1, DrawingAssumption DEF Reckoned
<1>3. /\ ~started /\ drawn = 0 /\ pc = "arrange"
      /\ historyName = IF References(main.oid) = {} THEN main.name ELSE FirstReference(main.oid)
  BY DEF Init
<1>4. historyName \in MainNames
  <2> DEFINE oid == main.oid
  <2>1. References(oid) # {} => FirstReference(oid) \in References(oid)
    <3> HIDE DEF oid
    <3> QED BY <1>2, FirstReferenceIs
  <2> QED
    BY <1>3, <2>1 DEF MainNames
<1> QED
  BY <1>2, <1>3, <1>4 DEF MainSound

\* What depends only on the groups and on main.
Settled == groups' = groups /\ prepared' = prepared /\ main' = main

\* A picture is judged as before.
LEMMA WholeNext ==
  ASSUME Settled, NEW total, NEW name
  PROVE  WholeTo(picture', total, name) <=> WholeTo(picture, total, name)'
<1>1. \A n : LeftOut(picture', n) = LeftOut(picture, n)'
  BY DEF LeftOut, GapCount, Gaps
<1> QED
  BY <1>1 DEF Settled, WholeTo, BeginsAt, Named, Tips, Bases, Gaps, IsTip, IsSequence

\* How far main has been drawn is judged as before.
LEMMA MainAtNext ==
  ASSUME Settled, IsSequence(main.refs), Along
  PROVE  /\ MainAt(picture', group', row', started', drawn', historyName')
              => MainAt(picture, group, row, started, drawn, historyName)'
         /\ (\E total, name : WholeTo(picture', total, name)) /\ picture'[Len(picture')].kind = "past"
              => MainEnded'
         /\ Along' /\ IsSequence(main.refs)' /\ MainNames' = MainNames
<1>1. Along' /\ IsSequence(main.refs)' /\ MainNames' = MainNames
  BY DEF Settled, Along, Reckoned, IsSequence, MainNames, References
<1>2. ASSUME MainAt(picture', group', row', started', drawn', historyName')
      PROVE  MainAt(picture, group, row, started, drawn, historyName)'
  <2>1. LeadsIn(group', row') <=> LeadsIn(group, row)'
    BY DEF LeadsIn, Settled
  <2>2. LeadsIn(group', row') =>
          historyName' \in MainNames' /\ Heralds(picture, row > Len(Rows(group)))'
    BY <1>1, <1>2 DEF MainAt, Settled, Heralds, Rows, IsSequence
  <2>3. ASSUME started', ~LeadsIn(group', row')
        PROVE  WholeTo(picture, IF row # 0 THEN groups[group].distance ELSE drawn, historyName)'
    <3> DEFINE total == IF row' # 0 THEN groups[group'].distance ELSE drawn'
               name == historyName'
    <3>1. WholeTo(picture', total, name)
      BY <1>2, <2>3 DEF MainAt
    <3>2. \A n : LeftOut(picture', n) = LeftOut(picture, n)'
      BY DEF LeftOut, GapCount, Gaps
    <3>3. total = (IF row # 0 THEN groups[group].distance ELSE drawn)'
      BY DEF Settled
    <3> HIDE DEF total
    <3> QED
      BY <3>1, <3>2, <3>3 DEF Settled, WholeTo, BeginsAt, Named, Tips, Bases, Gaps, IsTip, IsSequence
  <2>4. \A j \in DOMAIN groups' : j >= group' /\ IsConnected(j)' => drawn' <= groups'[j].distance
    BY <1>2 DEF MainAt, Settled, IsConnected
  <2> QED
    BY <1>1, <1>2, <2>1, <2>2, <2>3, <2>4 DEF MainAt
<1>3. ASSUME NEW total, NEW name, WholeTo(picture', total, name), picture'[Len(picture')].kind = "past"
      PROVE  MainEnded'
  BY <1>3, WholeNext DEF MainEnded
<1> QED
  BY <1>1, <1>2, <1>3

\* Ordering the groups puts them along main.
LEMMA ArrangeMain ==
  ASSUME Sound, MainSound, Arrange
  PROVE  MainSound'
<1>1. /\ pc = "arrange" /\ pc' = "segments" /\ main' = main /\ started' = started /\ drawn' = drawn
      /\ historyName' = historyName
  BY DEF Arrange, drawingVars
<1>2. Along'
  BY <1>1, ArrangeAlong DEF Sound, MainSound
<1>3. MainNames' = MainNames /\ IsSequence(main.refs)'
  BY <1>1 DEF MainNames, References, MainSound, IsSequence
<1> QED
  BY <1>1, <1>2, <1>3 DEF MainSound

\* Until the rows are drawn, main is not begun.
LEMMA BeforeMain ==
  ASSUME Sound, MainSound, VisitRow \/ VisitGroup \/ LinkSegments \/ Colour \/ Shade
  PROVE  MainSound'
<1>1. /\ pc \in {"segments", "colours"} /\ pc' \in {"segments", "colours", "draw"} /\ Settled
      /\ started' = started /\ drawn' = drawn /\ historyName' = historyName /\ picture' = picture
  BY DEF VisitRow, VisitGroup, LinkSegments, Colour, Shade, inputVars, drawingVars, Settled
<1>2. Along' /\ MainNames' = MainNames /\ IsSequence(main.refs)'
  BY <1>1, MainAtNext DEF MainSound
<1>3. CASE pc' # "draw"
  BY <1>1, <1>2, <1>3 DEF MainSound
<1>4. CASE pc' = "draw"
  <2>1. Shade
    BY <1>4 DEF VisitRow, VisitGroup, LinkSegments, Colour
  <2>2. pc = "colours" /\ group' = group /\ row' = row
    BY <2>1 DEF Shade, passVars
  <2>3. group' = 1 /\ row' = 0 /\ picture' = <<>> /\ IsSequence(groups) /\ Along
    BY <1>1, <2>2 DEF Sound, Arranged, MainSound
  <2>4. ~started' /\ drawn' = 0 /\ historyName' \in MainNames
    BY <1>1 DEF MainSound
  <2>5. \A j \in DOMAIN groups : IsConnected(j) => 0 <= groups[j].distance
    BY <2>3 DEF Along, Reckoned, IsConnected
  <2>6. MainAt(picture', group', row', started', drawn', historyName')
    BY <2>3, <2>4, <2>5 DEF MainAt, LeadsIn
  <2>7. MainAt(picture, group, row, started, drawn, historyName)'
    BY <1>1, <2>6, MainAtNext DEF MainSound
  <2> QED
    BY <1>1, <1>2, <1>4, <2>7 DEF MainSound
<1> QED
  BY <1>3, <1>4

\* Main is drawn on.
LEMMA DrawingMain ==
  ASSUME Sound, MainSound, OpenGroup \/ DrawRow \/ DrawTrunk \/ DrawOrphans \/ Finish
  PROVE  MainSound'
<1>1. pc = "draw" /\ Settled
  BY DEF OpenGroup, DrawRow, DrawTrunk, DrawOrphans, Finish, inputVars, Settled
<1>2. MainUnderway
  BY <1>1 DEF Sound, MainSound, MainUnderway
<1>3. Along' /\ IsSequence(main.refs)'
  BY <1>1, MainAtNext DEF MainSound
<1>4. CASE OpenGroup \/ DrawRow \/ DrawTrunk \/ DrawOrphans
  <2>1. pc' = "draw"
    BY <1>1, <1>4 DEF OpenGroup, DrawRow, DrawTrunk, DrawOrphans
  <2>2. MainAt(picture', group', row', started', drawn', historyName')
    BY <1>2, <1>4, MainOpens, MainRows, MainBases, MainOrphans
  <2>3. MainAt(picture, group, row, started, drawn, historyName)'
    BY <1>1, <2>2, MainAtNext DEF MainSound
  <2> QED
    BY <1>3, <2>1, <2>3 DEF MainSound
<1>5. CASE Finish
  <2>1. pc' = "done"
    BY <1>5 DEF Finish
  <2>2. MainEnded'
    BY <1>1, <1>2, <1>5, MainEnds, MainAtNext DEF MainSound
  <2> QED
    BY <1>3, <2>1, <2>2 DEF MainSound
<1> QED
  BY <1>4, <1>5

\* A step that changes nothing.
LEMMA StutterMain ==
  ASSUME MainSound, UNCHANGED vars
  PROVE  MainSound'
<1>1. /\ UNCHANGED <<groups, prepared, main, group, row, pc>>
      /\ UNCHANGED <<started, drawn, historyName, picture>>
  BY DEF vars, inputVars, passVars, drawingVars
<1>2. Settled
  BY <1>1 DEF Settled
<1>3. MainSound => IsSequence(main.refs)' /\ (pc' = "arrange" => \A g \in ToSet(groups') : Reckoned(g)')
  BY <1>1 DEF MainSound, Reckoned, IsSequence
<1>4. pc' # "arrange" => Along'
  BY <1>1, <1>2, MainAtNext DEF MainSound
<1>5. MainNames' = MainNames
  BY <1>1 DEF MainNames, References
<1>6. pc' = "draw" => MainAt(picture, group, row, started, drawn, historyName)'
  BY <1>1, <1>2, MainAtNext DEF MainSound
<1>7. pc' = "done" => MainEnded'
  BY <1>1, <1>2, MainAtNext DEF MainSound, MainEnded
<1> QED
  BY <1>1, <1>3, <1>4, <1>5, <1>6, <1>7 DEF MainSound

\* What is known of main is kept by every step.
LEMMA NextMain ==
  ASSUME Sound, MainSound, [Next]_vars
  PROVE  MainSound'
BY ArrangeMain, BeforeMain, DrawingMain, StutterMain DEF Next

\* The counts of gaps add up.
LEMMA CountSum ==
  ASSUME NEW lines, NEW S, IsFiniteSet(S), S \subseteq DOMAIN lines,
         \A k \in S : lines[k].label.count \in Int
  PROVE  MapThenSumSet(LAMBDA k : lines[k].label.count, S) = SumOver(GapCount(lines), S)
<1> DEFINE f == GapCount(lines)
           Is(it) == it = [r \in SUBSET S |-> IF r = {} THEN 0
                             ELSE lines[CHOOSE x \in r : TRUE].label.count
                                  + it[r \ {CHOOSE x \in r : TRUE}]]
           total == CHOOSE it : Is(it)
<1>1. MapThenSumSet(LAMBDA k : lines[k].label.count, S) = total[S]
  BY DEF MapThenSumSet, MapThenFoldSet
<1>2. \A t \in S : f[t] = lines[t].label.count /\ f[t] \in Int
  BY DEF GapCount
<1>4. \A it : Is(it) <=> PartialSums(it, f, S)
  <2>1. \A r \in SUBSET S : r # {} => lines[CHOOSE x \in r : TRUE].label.count = f[CHOOSE x \in r : TRUE]
    BY <1>2
  <2> DEFINE w(it) == [r \in SUBSET S |-> IF r = {} THEN 0
                        ELSE lines[CHOOSE x \in r : TRUE].label.count + it[r \ {CHOOSE x \in r : TRUE}]]
             v(it) == [r \in SUBSET S |-> IF r = {} THEN 0
                        ELSE f[CHOOSE x \in r : TRUE] + it[r \ {CHOOSE x \in r : TRUE}]]
  <2>2. ASSUME NEW it PROVE w(it) = v(it)
    <3> HIDE DEF f
    <3> QED BY <2>1
  <2>3. \A it : (Is(it) <=> it = w(it)) /\ (PartialSums(it, f, S) <=> it = v(it))
    <3> HIDE DEF f
    <3> QED BY DEF PartialSums
  <2> HIDE DEF Is, w, v
  <2> QED
    BY <2>2, <2>3
<1>5. PartialSums(CHOOSE it : PartialSums(it, f, S), f, S)
  <2> HIDE DEF f
  <2> QED BY <1>2, PartialSumsExist
<1>6. PartialSums(total, f, S)
  <2> HIDE DEF Is, f
  <2> QED BY <1>4, <1>5
<1>7. SumOver(f, S) = total[S]
  <2> HIDE DEF total, f
  <2> QED BY <1>2, <1>6, SumSolved
<1> QED
  BY <1>1, <1>7

\* When everything has been drawn, main is whole.
LEMMA MainWasDrawn ==
  ASSUME MainEnded
  PROVE  MainIsWhole
<1> DEFINE tips == {i \in DOMAIN picture :
                        \/ picture[i].kind = "tip"
                        \/ picture[i].kind = "trunk" /\ groups[picture[i].group].distance = 0}
           tip == CHOOSE i \in tips : TRUE
           bases == {i \in DOMAIN picture : picture[i].kind = "trunk"}
           gaps == {i \in DOMAIN picture : picture[i].kind = "gap"}
           named == {i \in {tip} \cup bases : picture[i].label # {}}
<1>1. PICK total, name : WholeTo(picture, total, name)
  BY DEF MainEnded
<1>2. PICK t : BeginsAt(picture, t)
  BY <1>1 DEF WholeTo
<1>3. tips = Tips(picture) /\ bases = Bases(picture) /\ gaps = Gaps(picture)
  BY DEF Tips, IsTip, Bases, Gaps
<1>4. tips = {t} /\ t \in DOMAIN picture
  BY <1>2, <1>3 DEF BeginsAt, Tips
<1>5. tip = t
  BY <1>4
<1>6. Cardinality(tips) = 1
  BY <1>4, FS_Singleton
<1>7. named = Named(picture)
  BY <1>3, <1>4, <1>5 DEF Named
<1>8. ASSUME NEW i \in DOMAIN picture
      PROVE  IF i > tip THEN picture[i].spine # "blank"
             ELSE i = tip \/ picture[i].spine = (IF i = tip - 1 THEN "dotted" ELSE "blank")
  BY <1>2, <1>5 DEF BeginsAt
<1>9. ASSUME NEW i \in bases
      PROVE  groups[picture[i].group].distance =
                 MapThenSumSet(LAMBDA k : picture[k].label.count, {k \in gaps : k < i})
  <2> DEFINE S == {k \in gaps : k < i}
  <2>1. S \subseteq DOMAIN picture /\ S = {k \in Gaps(picture) : k < i}
    BY <1>3
  <2>2. IsFiniteSet(S)
    <3> HIDE DEF S
    <3> QED BY <1>1, <2>1, LinesAreFinite DEF WholeTo
  <2>3. \A k \in S : picture[k].label.count \in Int
    BY <1>1, <2>1 DEF WholeTo
  <2>4. MapThenSumSet(LAMBDA k : picture[k].label.count, S) = SumOver(GapCount(picture), S)
    <3> HIDE DEF S
    <3> QED BY <2>1, <2>2, <2>3, CountSum
  <2>5. SumOver(GapCount(picture), S) = LeftOut(picture, i)
    BY <2>1 DEF LeftOut
  <2>6. groups[picture[i].group].distance = LeftOut(picture, i)
    BY <1>1, <1>3 DEF WholeTo
  <2> QED
    BY <2>4, <2>5, <2>6
<1>10. ASSUME NEW k \in gaps
       PROVE  picture[k].label.name \in picture[Max({i \in named : i < k})].label
  BY <1>1, <1>3, <1>7 DEF WholeTo
<1>11. picture[Len(picture)].kind = "past"
  BY DEF MainEnded
<1> QED
  BY <1>6, <1>8, <1>9, <1>10, <1>11 DEF MainIsWhole

\* Main is drawn once and in one piece, what is left out above a base adds up to
\* its distance, and a gap has the name of the last ref drawn above it: for every
\* number of groups at every distance, with rows above main's own commit or not
\* (TrunkRenderer, render_lane_groups).
THEOREM MainDrawnWhole == Spec => []MainIsWhole
<1>1. Init => Sound /\ MainSound
  BY InitSound, InitMain
<1>2. Sound /\ MainSound /\ [Next]_vars => (Sound /\ MainSound)'
  BY NextSound, NextMain
<1>3. MainSound => MainIsWhole
  BY MainWasDrawn DEF MainSound, MainIsWhole, Done
<1> QED
  BY <1>1, <1>2, <1>3, PTL DEF Spec

----------------------------------------------------------------------------
(* A repair never worsens the objective.                                   *)

\* Every segment has a turn, and has a colour once it has had it.
Taken ==
    pc = "colours" =>
        /\ \A s \in Ids : \E i \in Ids : turns[i] = s
        /\ \A i \in Ids : i <= placed => colours[turns[i]] # Uncoloured

\* A step that places a segment keeps to the turns.
LEMMA ColourTakes ==
  ASSUME Sound, Taken, Colour
  PROVE  Taken'
<1>1. /\ pc = "colours" /\ Place /\ Placing
      /\ \A s \in Ids : \E i \in Ids : turns[i] = s
      /\ \A i \in Ids : i <= placed => colours[turns[i]] # Uncoloured
  BY DEF Colour, Sound, Taken
<1>2. /\ placed < Passes * Len(segments) /\ colours' = [colours EXCEPT ![Turn] = BestColour(Turn)]
      /\ placed' = placed + 1 /\ UNCHANGED <<segments, turns>> /\ Ids' = Ids
  BY <1>1 DEF Place, Ids
<1>3. /\ Colouring /\ colours \in [Ids -> Palette \cup {Uncoloured}] /\ Turn \in Ids
      /\ turns \in [Ids -> Ids] /\ placed \in Nat
      /\ Ids = 1..Len(segments) /\ Len(segments) \in Nat
  BY <1>1, <1>2, TurnIs, SegmentedIs DEF Placing, Colouring
<1>4. BestColour(Turn) # Uncoloured
  BY <1>3, BestIs, PaletteIs
<1>5. ASSUME NEW i \in Ids, i <= placed + 1 PROVE colours'[turns[i]] # Uncoloured
  <2>1. turns[i] \in Ids
    BY <1>3
  <2>2. CASE i <= placed
    <3>1. colours[turns[i]] # Uncoloured
      BY <1>1, <2>2
    <3> QED
      BY <1>2, <1>3, <1>4, <2>1, <3>1
  <2>3. CASE i = placed + 1
    <3>1. placed % Len(segments) = placed
      BY <1>3, <2>3
    <3>2. Turn = turns[i]
      BY <2>3, <3>1 DEF Turn
    <3> QED
      BY <1>2, <1>3, <1>4, <3>2
  <2> QED
    BY <1>3, <1>5, <2>2, <2>3
<1> QED
  BY <1>1, <1>2, <1>5 DEF Taken

\* Turns are given out with the neighbours.
LEMMA LinkTakes ==
  ASSUME Sound, LinkSegments
  PROVE  Taken'
<1>1. Linking /\ Fresh /\ Segmented
  BY DEF Sound, Tracing, LinkSegments, Linking, Segmented
<1>2. /\ turns' = [i \in Ids |->
                     CHOOSE s \in Ids : Cardinality({t \in Ids : Precedes(t, s)}) = i - 1]
      /\ placed' = 0
      /\ segments' = [s \in Ids |->
                        [segments[s] EXCEPT !.neighbours = (UNION {e \in edges : s \in e}) \ {s}]]
  BY <1>1 DEF LinkSegments, NewAssignment, Fresh
<1>3. Ids' = Ids
  BY <1>2 DEF Ids
<1>4. \A s \in Ids : \E i \in Ids : turns'[i] = s
  BY <1>1, <1>2, TurnsReachAll
<1>5. \A i \in Ids : ~(i <= 0)
  BY <1>1, SegmentedIs
<1> QED
  BY <1>2, <1>3, <1>4, <1>5 DEF Taken

\* Every segment that has had its turn has a colour: inductive.
LEMMA NextTaken ==
  ASSUME Sound, Taken, [Next]_vars
  PROVE  Taken'
<1>1. CASE Colour
  BY <1>1, ColourTakes
<1>2. CASE LinkSegments
  BY <1>2, LinkTakes
<1>3. CASE Shade
  BY <1>3 DEF Shade, Taken
<1>4. CASE Arrange \/ VisitRow \/ VisitGroup \/ OpenGroup \/ DrawRow \/ DrawTrunk \/ DrawOrphans \/ Finish
  <2>1. pc' # "colours"
    BY <1>4 DEF Arrange, VisitRow, VisitGroup, OpenGroup, DrawRow, DrawTrunk, DrawOrphans, Finish
  <2> QED
    BY <2>1 DEF Taken
<1>5. CASE UNCHANGED vars
  <2>1. UNCHANGED <<pc, segments, colours, turns, placed>>
    BY <1>5 DEF vars, colourVars
  <2> QED
    BY <2>1 DEF Taken, Ids
<1> QED
  BY <1>1, <1>2, <1>3, <1>4, <1>5 DEF Next

\* A repair, which looks at one segment, makes the objective of all segments
\* better whenever it changes a colour, and the exchange of shades leaves all but
\* the preferences as they are: for every number of segments, their weights and
\* neighbours (Assignment::repair, prefer_readable_shades).
THEOREM RepairsImprove == Spec => RepairsNeverWorsen
<1> DEFINE Repaired ==
             pc = "colours" /\ placed >= Len(segments) /\ colours' # colours =>
                 LET before == Objective
                     after == Objective'
                 IN  IF pc' = "colours" THEN LexLess(after, before)
                                        ELSE \A i \in 1..6 : before[i] = after[i]
<1>1. Init => Sound /\ Taken
  BY InitSound DEF Init, Taken
<1>2. Sound /\ Taken /\ [Next]_vars => (Sound /\ Taken)'
  BY NextSound, NextTaken
<1>3. Sound /\ Taken /\ [Next]_vars => [Repaired]_vars
  <2> SUFFICES ASSUME Sound, Taken, Next,
                      pc = "colours", placed >= Len(segments), colours' # colours
               PROVE  IF pc' = "colours" THEN LexLess(Objective', Objective)
                      ELSE \A i \in 1..6 : Objective[i] = Objective'[i]
    BY DEF vars
  <2>1. Placing /\ \A i \in Ids : i <= placed => colours[turns[i]] # Uncoloured
    BY DEF Sound, Taken
  <2>2. CASE Colour
    <3>1. Place /\ pc' = "colours" /\ placed < Passes * Len(segments)
      BY <2>2 DEF Colour, Place
    <3>2. Turn \in Ids
      BY <2>1, <3>1, TurnIs
    <3>3. PICK i \in Ids : Turn = turns[i]
      BY <3>2 DEF Taken
    <3>4. i <= placed
      <4>1. Segmented /\ placed \in Nat
        BY <2>1 DEF Placing, Colouring
      <4>2. Ids = 1..Len(segments) /\ Len(segments) \in Nat
        BY <4>1, SegmentedIs
      <4> QED
        BY <4>1, <4>2
    <3>5. colours[Turn] # Uncoloured
      BY <2>1, <3>3, <3>4
    <3> QED
      BY <2>1, <3>1, <3>5, PlaceImproves
  <2>3. CASE Shade
    <3>1. PreferReadableShades /\ pc' = "draw"
      BY <2>3 DEF Shade
    <3>2. \A j \in 1..6 : Objective'[j] = Objective[j]
      BY <2>1, <3>1, ShadesPermute
    <3> QED
      BY <3>1, <3>2
  <2>4. pc = "colours" => Colour \/ Shade
    BY DEF Next, Arrange, VisitRow, VisitGroup, LinkSegments, OpenGroup, DrawRow, DrawTrunk, DrawOrphans, Finish
  <2> QED
    BY <2>2, <2>3, <2>4
<1> QED
  BY <1>1, <1>2, <1>3, PTL DEF Spec, RepairsNeverWorsen

----------------------------------------------------------------------------
(* A traversal goes from a row to the one below it.                        *)

\* A traversal of all rows of some lanes, from the left.
Traversal(q, lanes) == Lanelike(lanes) /\ Traverses(q, lanes, <<>>) /\ LeftFirst(q, lanes)

\* The row below another one; below the lowest rows is the base.
IsBelow(q, i, j) ==
    IF j \in DOMAIN q THEN Len(q[i]) = Len(q[j]) + 1 /\ IsPrefix(q[j], q[i])
                      ELSE j = Len(q) + 1 /\ Len(q[i]) = 1

\* What a traversal consists of.
LEMMA TraversalIs ==
  ASSUME NEW lanes, NEW q, Traversal(q, lanes)
  PROVE  /\ Lanelike(lanes) /\ DOMAIN q = 1..Len(q) /\ Len(q) \in Nat
         /\ \A i \in DOMAIN q :
              /\ q[i] \in Nodes(lanes) /\ q[i] \in Seq(Identities(lanes)) /\ q[i] \in Places(lanes)
              /\ Len(q[i]) \in Nat \ {0} /\ LaneOf(lanes, q[i]) \in DOMAIN lanes
              /\ LaneOf(lanes, q[i]) \in Nat
         /\ \A i, j \in DOMAIN q : q[i] = q[j] => i = j
         /\ \A n \in Nodes(lanes) : \E i \in DOMAIN q : q[i] = n
<1> DEFINE X == Identities(lanes)
<1>1. Lanelike(lanes) /\ q \in Seq(Nodes(lanes))
  BY DEF Traversal, Traverses
<1>2. DOMAIN q = 1..Len(q) /\ Len(q) \in Nat /\ \A i \in DOMAIN q : q[i] \in Nodes(lanes)
  BY <1>1
<1>3. ASSUME NEW i \in DOMAIN q
      PROVE  /\ q[i] \in Nodes(lanes) /\ q[i] \in Seq(X) /\ q[i] \in Places(lanes)
             /\ Len(q[i]) \in Nat \ {0} /\ LaneOf(lanes, q[i]) \in DOMAIN lanes
             /\ LaneOf(lanes, q[i]) \in Nat
  <2>1. q[i] \in Nodes(lanes) /\ q[i] \in Places(lanes)
    BY <1>2 DEF Places
  <2>2. q[i] \in Seq(X) /\ Len(q[i]) \in Nat /\ Len(q[i]) > 0 /\ LaneOf(lanes, q[i]) \in DOMAIN lanes
    BY <1>1, <2>1, NodeLane
  <2> QED
    BY <1>1, <2>1, <2>2 DEF Lanelike
<1>4. ASSUME NEW i \in DOMAIN q, NEW j \in DOMAIN q, q[i] = q[j] PROVE i = j
  <2>1. IsPrefix(q[i], q[j]) /\ IsPrefix(q[j], q[i])
    <3> HIDE DEF X
    <3> QED BY <1>3, <1>4, PrefixFacts
  <2>2. ~(i < j) /\ ~(j < i)
    BY <2>1 DEF Traversal, Traverses
  <2> QED
    BY <1>2, <2>2
<1>5. ASSUME NEW n \in Nodes(lanes) PROVE \E i \in DOMAIN q : q[i] = n
  <2>1. IsPrefix(<<>>, n)
    <3>1. n \in Seq(X)
      BY <1>1, NodeLane
    <3> HIDE DEF X
    <3> QED
      BY <3>1, PrefixFacts
  <2> QED
    BY <2>1 DEF Traversal, Traverses
<1> QED
  BY <1>1, <1>2, <1>3, <1>4, <1>5

\* Every beginning of a node is a node.
LEMMA NodeBelow ==
  ASSUME NEW lanes, Lanelike(lanes), NEW n \in Nodes(lanes), NEW l \in 1..Len(n)
  PROVE  /\ SubSeq(n, 1, l) \in Nodes(lanes) /\ Len(SubSeq(n, 1, l)) = l /\ IsPrefix(SubSeq(n, 1, l), n)
         /\ SubSeq(n, 1, l) = SubSeq(PathOf(lanes[LaneOf(lanes, n)]), 1, l)
<1> DEFINE X == Identities(lanes)
           i == LaneOf(lanes, n)
           p == PathOf(lanes[i])
           m == SubSeq(p, 1, l)
<1>1. n \in Seq(X) /\ Len(n) \in Nat /\ i \in DOMAIN lanes /\ IsPrefix(n, p)
  BY NodeLane
<1>2. p \in Seq(X) /\ Len(p) = Len(Contents(lanes[i])) /\ Len(p) \in Nat
  BY <1>1, PathIs
<1>3. Len(n) <= Len(p) /\ \A k \in 1..Len(n) : n[k] = p[k]
  <2> HIDE DEF X, p
  <2> QED BY <1>1, <1>2, PrefixIs
<1>4. l \in 1..Len(Contents(lanes[i]))
  BY <1>1, <1>2, <1>3
<1>5. m \in Nodes(lanes) /\ Len(m) = l
  BY <1>1, <1>4, BeginningsOfPaths
<1>6. SubSeq(n, 1, l) = m
  <2> HIDE DEF p, X
  <2>1. DOMAIN SubSeq(n, 1, l) = 1..l /\ \A k \in 1..l : SubSeq(n, 1, l)[k] = n[k]
    BY <1>1
  <2>2. DOMAIN m = 1..l /\ \A k \in 1..l : m[k] = p[k]
    BY <1>2, <1>1, <1>3
  <2>3. SubSeq(n, 1, l) \in Seq(X) /\ m \in Seq(X)
    BY <1>1, <1>2, <1>3
  <2>4. \A k \in 1..l : SubSeq(n, 1, l)[k] = m[k]
    BY <1>1, <1>3, <2>1, <2>2
  <2> QED
    BY <2>1, <2>2, <2>3, <2>4
<1>7. IsPrefix(m, n)
  <2> HIDE DEF p, X
  <2>1. m \in Seq(X) /\ \A k \in 1..l : m[k] = n[k]
    BY <1>1, <1>2, <1>3
  <2>2. Len(m) <= Len(n)
    BY <1>1, <1>5
  <2> HIDE DEF m
  <2> QED
    BY <1>1, <1>5, <2>1, <2>2, PrefixIs
<1> QED
  BY <1>5, <1>6, <1>7

\* Every row has one below it, and what is drawn in between is to its right.
LEMMA HasBelow ==
  ASSUME NEW lanes, NEW q, Traversal(q, lanes), NEW i \in DOMAIN q
  PROVE  \E j \in 1..(Len(q) + 1) : IsBelow(q, i, j)
<1>1. CASE Len(q[i]) = 1
  <2>1. DOMAIN q = 1..Len(q) /\ Len(q) \in Nat
    BY TraversalIs
  <2>2. \A n \in Nat : n + 1 \in 1..(n + 1) /\ n + 1 \notin 1..n
    OBVIOUS
  <2>3. Len(q) + 1 \in 1..(Len(q) + 1) /\ Len(q) + 1 \notin DOMAIN q
    BY <2>1, <2>2
  <2>4. IsBelow(q, i, Len(q) + 1)
    BY <1>1, <2>3 DEF IsBelow
  <2> QED
    BY <2>3, <2>4
<1>2. CASE Len(q[i]) # 1
  <2> DEFINE m == SubSeq(q[i], 1, Len(q[i]) - 1)
  <2>1. q[i] \in Nodes(lanes) /\ Len(q[i]) - 1 \in 1..Len(q[i]) /\ Lanelike(lanes)
    <3>1. q[i] \in Nodes(lanes) /\ Len(q[i]) \in Nat \ {0} /\ Lanelike(lanes)
      BY TraversalIs
    <3>2. \A n \in Nat \ {0} : n # 1 => n - 1 \in 1..n
      OBVIOUS
    <3> QED
      BY <1>2, <3>1, <3>2
  <2>2. m \in Nodes(lanes) /\ Len(m) = Len(q[i]) - 1 /\ IsPrefix(m, q[i])
    BY <2>1, NodeBelow
  <2> HIDE DEF m
  <2>3. PICK j \in DOMAIN q : q[j] = m
    BY <2>2, TraversalIs
  <2>4. j \in 1..(Len(q) + 1) /\ Len(q[i]) = Len(q[j]) + 1
    BY <2>2, <2>3, TraversalIs
  <2> QED
    BY <2>2, <2>3, <2>4 DEF IsBelow
<1> QED
  BY <1>1, <1>2

\* What comes between a row and the one below it is to the right of it.
LEMMA UntilBelow ==
  ASSUME NEW lanes, NEW q, Traversal(q, lanes), NEW i \in DOMAIN q, NEW j, IsBelow(q, i, j)
  PROVE  /\ j \in 1..(Len(q) + 1) /\ i < j
         /\ \A k \in DOMAIN q : i < k /\ k < j => LaneOf(lanes, q[i]) < LaneOf(lanes, q[k])
<1> DEFINE X == Identities(lanes)
<1>1. j \in 1..(Len(q) + 1) /\ i < j
  <2>1. CASE j \in DOMAIN q
    <3>1. IsPrefix(q[j], q[i]) /\ Len(q[i]) = Len(q[j]) + 1
      BY <2>1 DEF IsBelow
    <3>2. ~(j < i)
      BY <2>1, <3>1 DEF Traversal, Traverses
    <3>3. j # i
      BY <3>1, TraversalIs
    <3> QED
      BY <2>1, <3>2, <3>3, TraversalIs
  <2>2. CASE j \notin DOMAIN q
    BY <2>2, TraversalIs DEF IsBelow
  <2> QED
    BY <2>1, <2>2
<1>2. ASSUME NEW k \in DOMAIN q, i < k, k < j PROVE Astride(q[i], q[k])
  <2>1. CASE j \in DOMAIN q
    <3>1. IsPrefix(q[j], q[i]) /\ Len(q[i]) = Len(q[j]) + 1
      BY <2>1 DEF IsBelow
    <3>2. IsPrefix(q[j], q[k])
      BY <1>2, <2>1, <3>1 DEF Traversal, Traverses
    <3>3. q[j] \in Seq(X) /\ q[i] \in Seq(X) /\ q[k] \in Seq(X) /\ Len(q[j]) \in Nat /\ Len(q[k]) \in Nat
      BY <2>1, TraversalIs
    <3>4. q[j] # q[k]
      <4>1. j # k
        BY <1>2, <2>1, TraversalIs
      <4> QED
        BY <2>1, <4>1, TraversalIs
    <3> HIDE DEF X
    <3>5. Len(q[k]) > Len(q[j])
      BY <3>2, <3>3, <3>4, PrefixFacts
    <3>6. \A l \in 1..Len(q[j]) : q[j][l] = q[i][l] /\ q[j][l] = q[k][l]
      <4> DEFINE m == q[j]
                 n == q[i]
                 o == q[k]
      <4>1. m \in Seq(X) /\ n \in Seq(X) /\ o \in Seq(X) /\ IsPrefix(m, n) /\ IsPrefix(m, o)
        BY <3>1, <3>2, <3>3
      <4> HIDE DEF m, n, o
      <4>2. \A l \in 1..Len(m) : m[l] = n[l]
        BY <4>1, PrefixIs
      <4>3. \A l \in 1..Len(m) : m[l] = o[l]
        BY <4>1, PrefixIs
      <4> QED
        BY <4>2, <4>3 DEF m, n, o
    <3>7. Len(q[k]) >= Len(q[i]) /\ Len(q[i]) - 1 = Len(q[j])
      BY <3>1, <3>3, <3>5
    <3> QED
      BY <3>6, <3>7 DEF Astride
  <2>2. CASE j \notin DOMAIN q
    <3>1. Len(q[i]) = 1 /\ Len(q[k]) \in Nat \ {0}
      BY <2>2, TraversalIs DEF IsBelow
    <3> QED
      BY <3>1 DEF Astride
  <2> QED
    BY <2>1, <2>2
<1>3. LeftFirst(q, lanes)
  BY DEF Traversal
<1>4. ASSUME NEW k \in DOMAIN q, i < k, k < j PROVE LaneOf(lanes, q[i]) < LaneOf(lanes, q[k])
  BY <1>2, <1>3, <1>4 DEF LeftFirst
<1> QED
  BY <1>1, <1>4

----------------------------------------------------------------------------
(* The lanes of a group and the rows they share.                          *)

\* The rows of a group are those of a traversal.
RowsFrom(q, g) == Traversal(q, Lanes(g)) /\ Rows(g) = RowsOfPath(Lanes(g), q)

\* Every group has a traversal.
LEMMA GroupTraversal ==
  ASSUME Arranged, NEW g \in DOMAIN groups
  PROVE  \E q : RowsFrom(q, g)
<1>1. Lanelike(Lanes(g))
  BY RowsAreFit
<1>2. PICK q : /\ Traverses(q, Lanes(g), <<>>) /\ LeftFirst(q, Lanes(g))
               /\ SharedAncestry(Lanes(g)).rows = RowsOfPath(Lanes(g), q)
  BY <1>1, RowsAre
<1>3. Rows(g) = RowsOfPath(Lanes(g), q)
  BY <1>2 DEF Arranged, Rows, Lanes
<1> QED
  BY <1>1, <1>2, <1>3 DEF RowsFrom, Traversal

\* The lanes right above a place.
LanesUpon(lanes, node) == {LaneOf(lanes, u) : u \in Upper(lanes, node)}

\* They are the children of its row, which joins them if they are several.
LEMMA ChildrenAre ==
  ASSUME NEW lanes, Lanelike(lanes), NEW node \in Places(lanes)
  PROVE  /\ ToSet(LanesAbove(lanes, node)) = LanesUpon(lanes, node)
         /\ Len(LanesAbove(lanes, node)) \in Nat
         /\ ~(Len(LanesAbove(lanes, node)) > 1) => \A u, v \in Upper(lanes, node) : u = v
<1> DEFINE above == RowsAbove(lanes, node)
           up == LanesAbove(lanes, node)
<1>1. /\ above \in Seq(Upper(lanes, node))
      /\ \A n \in Upper(lanes, node) : \E k \in DOMAIN above : above[k] = n
  BY AboveIs
<1>2. up = [k \in DOMAIN above |-> LaneOf(lanes, above[k])]
  BY DEF LanesAbove
<1> HIDE DEF above, up
<1>3. DOMAIN above = 1..Len(above) /\ Len(above) \in Nat /\ \A k \in DOMAIN above : above[k] \in Upper(lanes, node)
  BY <1>1
<1>4. ToSet(up) = LanesUpon(lanes, node)
  BY <1>1, <1>2, <1>3 DEF ToSet, LanesUpon
<1>5. Len(up) = Len(above)
  BY <1>2, <1>3
<1>6. ASSUME ~(Len(above) > 1), NEW u \in Upper(lanes, node), NEW v \in Upper(lanes, node) PROVE u = v
  <2>1. PICK k \in DOMAIN above : above[k] = u
    BY <1>1
  <2>2. PICK l \in DOMAIN above : above[l] = v
    BY <1>1
  <2>3. k = l
    BY <1>3, <1>6
  <2> QED
    BY <2>1, <2>2, <2>3
<1> QED
  BY <1>3, <1>4, <1>5, <1>6 DEF up

\* A row as the walk has it.
LEMMA RowIs ==
  ASSUME Arranged, NEW g \in DOMAIN groups, NEW q, RowsFrom(q, g)
  PROVE  /\ DOMAIN q = 1..Len(Rows(g)) /\ Len(q) = Len(Rows(g)) /\ Len(Rows(g)) \in Nat
         /\ \A k \in DOMAIN q :
              /\ Rows(g)[k] = Row(Lanes(g), q[k]) /\ Rows(g)[k].lane = LaneOf(Lanes(g), q[k])
              /\ Joined(Rows(g)[k]) = {} => \A u, v \in Upper(Lanes(g), q[k]) : u = v
              /\ Joined(Rows(g)[k]) # {} => Joined(Rows(g)[k]) = LanesUpon(Lanes(g), q[k])
              /\ Joined(Rows(g)[k]) \subseteq LanesUpon(Lanes(g), q[k])
<1> DEFINE lanes == Lanes(g)
<1>1. Traversal(q, lanes) /\ Rows(g) = RowsOfPath(lanes, q)
  BY DEF RowsFrom
<1>2. Lanelike(lanes) /\ DOMAIN q = 1..Len(q) /\ Len(q) \in Nat /\ \A k \in DOMAIN q : q[k] \in Places(lanes)
  BY <1>1, TraversalIs
<1>3. DOMAIN Rows(g) = DOMAIN q /\ \A k \in DOMAIN q : Rows(g)[k] = Row(lanes, q[k])
  BY <1>1 DEF RowsOfPath
<1>4. DOMAIN Rows(g) = 1..Len(Rows(g)) /\ Len(Rows(g)) \in Nat
  BY RowsAreFit
<1>5. Len(q) = Len(Rows(g))
  BY <1>2, <1>3, <1>4
<1>6. ASSUME NEW k \in DOMAIN q
      PROVE  /\ Rows(g)[k].lane = LaneOf(lanes, q[k])
             /\ Joined(Rows(g)[k]) = {} => \A u, v \in Upper(lanes, q[k]) : u = v
             /\ Joined(Rows(g)[k]) # {} => Joined(Rows(g)[k]) = LanesUpon(lanes, q[k])
             /\ Joined(Rows(g)[k]) \subseteq LanesUpon(lanes, q[k])
  <2> DEFINE up == LanesAbove(lanes, q[k])
  <2>1. Rows(g)[k].lane = LaneOf(lanes, q[k]) /\ Rows(g)[k].children = up
    BY <1>3 DEF Row
  <2>2. /\ ToSet(up) = LanesUpon(lanes, q[k]) /\ Len(up) \in Nat
        /\ ~(Len(up) > 1) => \A u, v \in Upper(lanes, q[k]) : u = v
    BY <1>2, ChildrenAre
  <2>3. Joined(Rows(g)[k]) = IF Len(up) > 1 THEN ToSet(up) ELSE {}
    BY <2>1 DEF Joined
  <2>4. Len(up) > 1 => ToSet(up) # {}
    <3>1. up = [l \in DOMAIN RowsAbove(lanes, q[k]) |-> LaneOf(lanes, RowsAbove(lanes, q[k])[l])]
      BY DEF LanesAbove
    <3>2. RowsAbove(lanes, q[k]) \in Seq(Upper(lanes, q[k]))
      BY <1>2, AboveIs
    <3>3. DOMAIN up = 1..Len(RowsAbove(lanes, q[k])) /\ Len(RowsAbove(lanes, q[k])) \in Nat
      BY <3>1, <3>2
    <3>4. Len(up) = Len(RowsAbove(lanes, q[k]))
      BY <3>3, <3>1
    <3> HIDE DEF up
    <3>5. Len(up) > 1 => 1 \in DOMAIN up
      BY <3>3, <3>4
    <3> QED
      BY <3>5 DEF ToSet
  <2> HIDE DEF up
  <2> QED
    BY <2>1, <2>2, <2>3, <2>4
<1> QED
  BY <1>2, <1>3, <1>4, <1>5, <1>6

\* No lane is a part of another one.
Separate(lanes) ==
    /\ Lanelike(lanes)
    /\ \A i, j \in DOMAIN lanes : IsPrefix(PathOf(lanes[i]), PathOf(lanes[j])) => i = j

\* The lane of a row comes from above, unless it begins there.
LEMMA LaneFromAbove ==
  ASSUME NEW lanes, Separate(lanes), NEW node \in Nodes(lanes), Upper(lanes, node) # {}
  PROVE  LaneOf(lanes, node) \in LanesUpon(lanes, node)
<1> DEFINE X == Identities(lanes)
           l == LaneOf(lanes, node)
           p == PathOf(lanes[l])
<1>1. Lanelike(lanes)
  BY DEF Separate
<1>2. PICK u \in Upper(lanes, node) : TRUE
  OBVIOUS
<1>3. u \in Nodes(lanes) /\ Len(u) = Len(node) + 1 /\ IsPrefix(node, u)
  BY DEF Upper
<1> DEFINE r == PathOf(lanes[LaneOf(lanes, u)])
<1>4. /\ node \in Seq(X) /\ Len(node) \in Nat /\ l \in DOMAIN lanes /\ IsPrefix(node, p)
      /\ u \in Seq(X) /\ Len(u) \in Nat /\ LaneOf(lanes, u) \in DOMAIN lanes /\ IsPrefix(u, r)
  BY <1>1, <1>3, NodeLane
<1>5. p \in Seq(X) /\ Len(p) \in Nat /\ Len(p) = Len(Contents(lanes[l])) /\ r \in Seq(X)
  BY <1>1, <1>4, PathIs
<1>6. CASE Len(p) <= Len(node)
  <2>1. p = node /\ IsPrefix(p, r)
    <3> HIDE DEF X, p, r
    <3>1. node = p
      BY <1>4, <1>5, <1>6, PrefixFacts
    <3>2. IsPrefix(node, r)
      BY <1>3, <1>4, <1>5, PrefixFacts
    <3> QED
      BY <3>1, <3>2
  <2>2. l = LaneOf(lanes, u)
    BY <1>4, <2>1 DEF Separate
  <2>3. IsPrefix(u, node)
    BY <1>4, <2>1, <2>2
  <2>4. Len(u) <= Len(node)
    <3> HIDE DEF X
    <3> QED BY <1>4, <2>3, PrefixFacts
  <2> QED
    BY <1>3, <1>4, <2>4
<1>7. CASE ~(Len(p) <= Len(node))
  <2> DEFINE n == Len(node) + 1
             w == SubSeq(p, 1, n)
  <2>1. n \in 1..Len(Contents(lanes[l]))
    BY <1>4, <1>5, <1>7
  <2>2. w \in Nodes(lanes) /\ Len(w) = n /\ IsPrefix(w, p)
    BY <1>1, <1>4, <2>1, BeginningsOfPaths
  <2> HIDE DEF w, p, X
  <2>3. w \in Seq(X)
    BY <1>1, <2>2, NodeLane DEF X
  <2>4. IsPrefix(node, w)
    BY <1>4, <1>5, <2>2, <2>3, PrefixFacts
  <2>5. w \in Upper(lanes, node)
    BY <2>2, <2>4 DEF Upper
  <2>6. LaneOf(lanes, w) <= l /\ LaneOf(lanes, w) \in DOMAIN lanes
    BY <1>1, <1>4, <2>2, NodeLane DEF p
  <2>7. l <= LaneOf(lanes, w)
    BY <1>1, <2>2, <2>4, LaneAbove
  <2>8. LaneOf(lanes, w) = l
    <3>1. l \in Nat /\ LaneOf(lanes, w) \in Nat
      BY <1>1, <1>4, <2>6 DEF Lanelike
    <3> HIDE DEF l
    <3> QED
      BY <2>6, <2>7, <3>1
  <2> QED
    BY <2>5, <2>8 DEF LanesUpon
<1> QED
  BY <1>6, <1>7

\* A lane that is drawn goes on down to the row below.
LEMMA WaitsBelow ==
  ASSUME Arranged, NEW g \in DOMAIN groups, NEW q, RowsFrom(q, g),
         NEW i \in DOMAIN q, NEW j, IsBelow(q, i, j), NEW m \in (i + 1)..j
  PROVE  LaneOf(Lanes(g), q[i]) \in Alive(g, m)
<1> DEFINE lanes == Lanes(g)
           l == LaneOf(lanes, q[i])
<1>1. Traversal(q, lanes)
  BY DEF RowsFrom
<1>2. /\ j \in 1..(Len(q) + 1) /\ i < j
      /\ \A k \in DOMAIN q : i < k /\ k < j => l < LaneOf(lanes, q[k])
  BY <1>1, UntilBelow
<1>3. /\ Lanelike(lanes) /\ DOMAIN q = 1..Len(q) /\ Len(q) \in Nat
      /\ \A k \in DOMAIN q : q[k] \in Nodes(lanes) /\ LaneOf(lanes, q[k]) \in Nat
  BY <1>1, TraversalIs
<1>4. /\ i \in 1..(m - 1) /\ Rows(g)[i].lane = l
      /\ \A k \in (i + 1)..(m - 1) : k \in DOMAIN q /\ i < k /\ k < j
  BY <1>2, <1>3, RowIs
<1>5. ASSUME NEW k \in DOMAIN q, i < k, k < j PROVE l \notin Joined(Rows(g)[k])
  <2>1. l < LaneOf(lanes, q[k])
    BY <1>2, <1>5
  <2>2. ASSUME NEW c \in Joined(Rows(g)[k]) PROVE LaneOf(lanes, q[k]) <= c /\ c \in Nat
    <3>1. PICK u \in Upper(lanes, q[k]) : c = LaneOf(lanes, u)
      BY <2>2, RowIs DEF LanesUpon
    <3>2. u \in Nodes(lanes) /\ IsPrefix(q[k], u)
      BY DEF Upper
    <3>3. LaneOf(lanes, q[k]) <= LaneOf(lanes, u)
      BY <1>3, <3>2, LaneAbove
    <3>4. LaneOf(lanes, u) \in Nat
      BY <1>3, <3>2, NodeLane DEF Lanelike
    <3> QED
      BY <3>1, <3>3, <3>4
  <2> QED
    BY <1>3, <2>1, <2>2
<1>6. \A k \in (i + 1)..(m - 1) : Rows(g)[i].lane \notin Joined(Rows(g)[k])
  BY <1>4, <1>5
<1> QED
  BY <1>4, <1>6 DEF Alive

\* A lane that is drawn waits for a row that is still to come.
LEMMA AliveWaits ==
  ASSUME Arranged, NEW g \in DOMAIN groups, Separate(Lanes(g)), NEW q, RowsFrom(q, g),
         NEW m \in 1..(Len(q) + 1), NEW l \in Alive(g, m)
  PROVE  \E i \in DOMAIN q : /\ i < m /\ LaneOf(Lanes(g), q[i]) = l
                             /\ \E j \in 1..(Len(q) + 1) : IsBelow(q, i, j) /\ m <= j
<1> DEFINE lanes == Lanes(g)
           S == {i \in DOMAIN q : i < m /\ LaneOf(lanes, q[i]) = l}
<1>1. Traversal(q, lanes)
  BY DEF RowsFrom
<1>2. /\ Lanelike(lanes) /\ DOMAIN q = 1..Len(q) /\ Len(q) \in Nat
      /\ \A k \in DOMAIN q : q[k] \in Nodes(lanes) /\ LaneOf(lanes, q[k]) \in Nat
  BY <1>1, TraversalIs
<1>3. PICK o \in 1..(m - 1) :
        l = Rows(g)[o].lane /\ \A k \in (o + 1)..(m - 1) : l \notin Joined(Rows(g)[k])
  BY DEF Alive
<1>4. o \in S
  BY <1>2, <1>3, RowIs
<1>5. PICK i \in S : \A k \in S : k <= i
  <2>1. S \in SUBSET Nat /\ S # {} /\ \A k \in S : k <= m
    BY <1>2, <1>4
  <2>2. m \in Nat
    BY <1>2
  <2> HIDE DEF S
  <2> QED
    BY <2>1, <2>2, GreatestNatural
<1>6. i \in DOMAIN q /\ i < m /\ LaneOf(lanes, q[i]) = l
  OBVIOUS
<1>7. PICK j \in 1..(Len(q) + 1) : IsBelow(q, i, j)
  BY <1>1, <1>6, HasBelow
<1>8. i < j
  BY <1>1, <1>6, <1>7, UntilBelow
<1>9. ASSUME j < m PROVE FALSE
  <2>1. j \in DOMAIN q /\ j \in (o + 1)..(m - 1)
    BY <1>2, <1>3, <1>4, <1>5, <1>8, <1>9
  <2>2. q[i] \in Upper(lanes, q[j])
    BY <1>2, <1>6, <1>7, <2>1 DEF IsBelow, Upper
  <2>3. l \in LanesUpon(lanes, q[j])
    BY <1>6, <2>2 DEF LanesUpon
  <2>4. Joined(Rows(g)[j]) = {}
    BY <1>3, <2>1, <2>3, RowIs
  <2>5. \A u \in Upper(lanes, q[j]) : u = q[i]
    BY <2>1, <2>2, <2>4, RowIs
  <2>6. LaneOf(lanes, q[j]) \in LanesUpon(lanes, q[j])
    BY <1>2, <2>1, <2>2, LaneFromAbove
  <2>7. LaneOf(lanes, q[j]) = l
    BY <1>6, <2>5, <2>6 DEF LanesUpon
  <2>8. j \in S
    BY <1>9, <2>1, <2>7
  <2> QED
    BY <1>2, <1>5, <1>6, <1>8, <2>1, <2>8
<1>10. m <= j
  BY <1>2, <1>7, <1>9
<1> QED
  BY <1>6, <1>7, <1>10

\* The lanes that end in a junction come from above; one of them, the first, is that of the row.
LEMMA JoinedAre ==
  ASSUME Arranged, NEW g \in DOMAIN groups, Separate(Lanes(g)), NEW q, RowsFrom(q, g),
         NEW k \in DOMAIN q
  PROVE  /\ \A c \in Joined(Rows(g)[k]) :
              /\ c \in Alive(g, k) /\ c \in DOMAIN Lanes(g) /\ Rows(g)[k].lane <= c
         /\ Joined(Rows(g)[k]) # {} => Rows(g)[k].lane \in Joined(Rows(g)[k])
<1> DEFINE lanes == Lanes(g)
           joined == Joined(Rows(g)[k])
<1>1. Traversal(q, lanes)
  BY DEF RowsFrom
<1>2. /\ Lanelike(lanes) /\ DOMAIN q = 1..Len(q) /\ Len(q) \in Nat
      /\ \A i \in DOMAIN q : q[i] \in Nodes(lanes) /\ LaneOf(lanes, q[i]) \in Nat
      /\ \A n \in Nodes(lanes) : \E i \in DOMAIN q : q[i] = n
  BY <1>1, TraversalIs
<1>3. /\ Rows(g)[k].lane = LaneOf(lanes, q[k]) /\ joined \subseteq LanesUpon(lanes, q[k])
      /\ joined # {} => joined = LanesUpon(lanes, q[k])
  BY RowIs
<1> HIDE DEF joined
<1>4. ASSUME NEW c \in joined
      PROVE  c \in Alive(g, k) /\ c \in DOMAIN lanes /\ LaneOf(lanes, q[k]) <= c
  <2>1. PICK u \in Upper(lanes, q[k]) : c = LaneOf(lanes, u)
    BY <1>3, <1>4 DEF LanesUpon
  <2>2. u \in Nodes(lanes) /\ Len(u) = Len(q[k]) + 1 /\ IsPrefix(q[k], u)
    BY DEF Upper
  <2>3. PICK i \in DOMAIN q : q[i] = u
    BY <1>2, <2>2
  <2>4. IsBelow(q, i, k)
    BY <2>2, <2>3 DEF IsBelow
  <2>5. i < k
    BY <1>1, <2>4, UntilBelow
  <2>6. k \in (i + 1)..k
    BY <1>2, <2>3, <2>5
  <2>7. c \in Alive(g, k)
    BY <2>1, <2>3, <2>4, <2>6, WaitsBelow
  <2>8. LaneOf(lanes, q[k]) <= c
    BY <1>2, <2>1, <2>2, LaneAbove
  <2>9. c \in DOMAIN lanes
    BY <1>2, <2>1, <2>2, NodeLane
  <2> QED
    BY <2>7, <2>8, <2>9
<1>5. joined # {} => LaneOf(lanes, q[k]) \in joined
  <2>1. joined # {} => Upper(lanes, q[k]) # {}
    BY <1>3 DEF LanesUpon
  <2> QED
    BY <1>2, <1>3, <2>1, LaneFromAbove
<1> QED
  BY <1>3, <1>4, <1>5 DEF joined

\* A lane that passes a row without ending in it is to the left of it.
LEMMA PassesLeft ==
  ASSUME Arranged, NEW g \in DOMAIN groups, Separate(Lanes(g)), NEW q, RowsFrom(q, g),
         NEW k \in DOMAIN q, NEW l \in Alive(g, k), l \notin Joined(Rows(g)[k]), l # Rows(g)[k].lane
  PROVE  l < Rows(g)[k].lane
<1> DEFINE lanes == Lanes(g)
<1>1. Traversal(q, lanes)
  BY DEF RowsFrom
<1>2. /\ Lanelike(lanes) /\ DOMAIN q = 1..Len(q) /\ Len(q) \in Nat
      /\ \A i \in DOMAIN q : q[i] \in Nodes(lanes)
  BY <1>1, TraversalIs
<1>3. Rows(g)[k].lane = LaneOf(lanes, q[k])
  BY RowIs
<1>a. Joined(Rows(g)[k]) = {} \/ Joined(Rows(g)[k]) = LanesUpon(lanes, q[k])
  BY RowIs
<1>4. k \in 1..(Len(q) + 1)
  BY <1>2
<1>5. PICK i \in DOMAIN q : /\ i < k /\ LaneOf(lanes, q[i]) = l
                            /\ \E j \in 1..(Len(q) + 1) : IsBelow(q, i, j) /\ k <= j
  BY <1>4, AliveWaits
<1>6. PICK j \in 1..(Len(q) + 1) : IsBelow(q, i, j) /\ k <= j
  BY <1>5
<1>7. CASE j # k
  <2>1. k < j
    BY <1>2, <1>6, <1>7
  <2> QED
    BY <1>1, <1>3, <1>5, <1>6, <2>1, UntilBelow
<1>8. CASE j = k
  <2>1. q[i] \in Upper(lanes, q[k])
    BY <1>2, <1>6, <1>8 DEF IsBelow, Upper
  <2>2. l \in LanesUpon(lanes, q[k])
    BY <1>5, <2>1 DEF LanesUpon
  <2>3. Joined(Rows(g)[k]) = {}
    BY <1>a, <2>2
  <2>4. \A u \in Upper(lanes, q[k]) : u = q[i]
    BY <2>1, <2>3, RowIs
  <2>5. LaneOf(lanes, q[k]) \in LanesUpon(lanes, q[k])
    BY <1>2, <2>1, LaneFromAbove
  <2>6. LaneOf(lanes, q[k]) = l
    BY <1>5, <2>4, <2>5 DEF LanesUpon
  <2> QED
    BY <1>3, <2>6
<1> QED
  BY <1>7, <1>8

\* The lanes that reach the base are those drawn above it.
LEMMA RootsAre ==
  ASSUME Arranged, NEW g \in DOMAIN groups, Separate(Lanes(g)), NEW q, RowsFrom(q, g)
  PROVE  /\ ToSet(prepared[g].roots) = LanesUpon(Lanes(g), <<>>)
         /\ \A c \in ToSet(prepared[g].roots) : c \in Alive(g, Len(q) + 1) /\ c \in DOMAIN Lanes(g)
         /\ DOMAIN Lanes(g) # {} /\ (\A l \in DOMAIN Lanes(g) : Len(Contents(Lanes(g)[l])) > 0)
              => ToSet(prepared[g].roots) # {}
<1> DEFINE lanes == Lanes(g)
           roots == ToSet(prepared[g].roots)
<1>1. Traversal(q, lanes)
  BY DEF RowsFrom
<1>2. /\ Lanelike(lanes) /\ DOMAIN q = 1..Len(q) /\ Len(q) \in Nat
      /\ \A n \in Nodes(lanes) : \E i \in DOMAIN q : q[i] = n
  BY <1>1, TraversalIs
<1>3. roots = LanesUpon(lanes, <<>>)
  <2>1. prepared[g].roots = LanesAbove(lanes, <<>>)
    BY DEF Arranged, SharedAncestry, Lanes
  <2>2. <<>> \in Places(lanes)
    BY DEF Places
  <2> QED
    BY <1>2, <2>1, <2>2, ChildrenAre
<1> HIDE DEF roots
<1>4. ASSUME NEW c \in roots PROVE c \in Alive(g, Len(q) + 1) /\ c \in DOMAIN lanes
  <2>1. PICK u \in Upper(lanes, <<>>) : c = LaneOf(lanes, u)
    BY <1>3, <1>4 DEF LanesUpon
  <2>2. u \in Nodes(lanes) /\ Len(u) = 1
    BY DEF Upper
  <2>3. PICK i \in DOMAIN q : q[i] = u
    BY <1>2, <2>2
  <2>4. IsBelow(q, i, Len(q) + 1)
    BY <1>2, <2>2, <2>3 DEF IsBelow
  <2>5. Len(q) + 1 \in (i + 1)..(Len(q) + 1)
    BY <1>2, <2>3
  <2> QED
    BY <1>2, <2>1, <2>2, <2>3, <2>4, <2>5, WaitsBelow, NodeLane
<1>5. ASSUME NEW l \in DOMAIN lanes, Len(Contents(lanes[l])) > 0 PROVE roots # {}
  <2> DEFINE m == SubSeq(PathOf(lanes[l]), 1, 1)
  <2>1. 1 \in 1..Len(Contents(lanes[l]))
    <3>1. Len(Contents(lanes[l])) \in Nat
      BY <1>2, <1>5, ContentsIs DEF Lanelike
    <3> QED
      BY <1>5, <3>1
  <2>2. m \in Nodes(lanes) /\ Len(m) = 1
    BY <1>2, <2>1, BeginningsOfPaths
  <2> HIDE DEF m
  <2>3. IsPrefix(<<>>, m)
    <3>1. m \in Seq(Identities(lanes))
      BY <1>2, <2>2, NodeLane
    <3> QED
      BY <3>1, PrefixFacts
  <2>4. m \in Upper(lanes, <<>>)
    BY <2>2, <2>3 DEF Upper
  <2> QED
    BY <1>3, <2>4 DEF LanesUpon
<1> QED
  BY <1>3, <1>4, <1>5 DEF roots

----------------------------------------------------------------------------
(* How a lane reads.                                                      *)

\* An entry as it is shown, and what is read from an entry of a lane down.
Mark(entry) == <<entry.rewritten, entry.content>>

Reading(lane, m) == [i \in 1..m |-> Mark(Contents(lane)[m - i + 1])]

\* An entry is one of the commits of its list.
LEMMA EntryIs ==
  ASSUME NEW lane, IsSequence(lane.points), IsSequence(lane.rewritten),
         NEW i \in 1..Len(Contents(lane))
  PROVE  /\ Contents(lane)[i] = Entry(lane, i) /\ Entry(lane, i).rewritten \in BOOLEAN
         /\ Entry(lane, i).content \in
              ToSet(IF Entry(lane, i).rewritten THEN lane.rewritten ELSE lane.points)
         /\ Entry(lane, i).content =
              IF Entry(lane, i).rewritten THEN lane.rewritten[Entry(lane, i).position]
                                          ELSE lane.points[Entry(lane, i).position]
<1> DEFINE m == Len(lane.rewritten)
           n == Len(lane.points)
<1>1. /\ m \in Nat /\ n \in Nat /\ DOMAIN lane.rewritten = 1..m /\ DOMAIN lane.points = 1..n
      /\ i \in 1..(m + n) /\ Contents(lane)[i] = Entry(lane, i)
  BY ContentsListed
<1>2. CASE i <= m
  <2>1. m - i + 1 \in 1..m
    <3> HIDE DEF m, n
    <3> QED BY <1>1, <1>2
  <2> QED
    BY <1>1, <1>2, <2>1 DEF Entry, ToSet
<1>3. CASE ~(i <= m)
  <2>1. m + n - i + 1 \in 1..n
    <3> HIDE DEF m, n
    <3> QED BY <1>1, <1>3
  <2> QED
    BY <1>1, <1>3, <2>1 DEF Entry, ToSet
<1> QED
  BY <1>2, <1>3

\* The path of a lane, entry by entry.
LEMMA PathListed ==
  ASSUME NEW lanes, Lanelike(lanes), NEW i \in DOMAIN lanes
  PROVE  /\ Len(Contents(lanes[i])) \in Nat /\ Len(PathOf(lanes[i])) = Len(Contents(lanes[i]))
         /\ PathOf(lanes[i]) \in Seq(Identities(lanes))
         /\ \A m \in 1..Len(Contents(lanes[i])) :
              PathOf(lanes[i])[m] = Identity(Contents(lanes[i])[m])
<1>1. IsSequence(lanes[i].points) /\ IsSequence(lanes[i].rewritten)
  BY DEF Lanelike
<1> DEFINE c == Contents(lanes[i])
<1>2. Len(c) \in Nat /\ c = [m \in 1..Len(c) |-> c[m]]
  BY <1>1, ContentsIs
<1>3. DOMAIN c = 1..Len(c)
  <2> HIDE DEF c
  <2> QED BY <1>2
<1>4. PathOf(lanes[i]) = [m \in DOMAIN c |-> Identity(c[m])]
  BY DEF PathOf
<1> HIDE DEF c
<1>5. \A m \in 1..Len(c) : PathOf(lanes[i])[m] = Identity(c[m])
  BY <1>3, <1>4
<1> QED
  BY <1>2, <1>5, PathIs DEF c

\* Entries that are one row show the same commit.
LEMMA SameMark ==
  ASSUME NEW lanes, Lanelike(lanes), Together(ToSet(lanes)),
         NEW i \in DOMAIN lanes, NEW j \in DOMAIN lanes,
         NEW m \in 1..Len(Contents(lanes[i])), NEW n \in 1..Len(Contents(lanes[j])),
         Identity(Contents(lanes[i])[m]) = Identity(Contents(lanes[j])[n])
  PROVE  Mark(Contents(lanes[i])[m]) = Mark(Contents(lanes[j])[n])
<1> DEFINE a == lanes[i]
           b == lanes[j]
           x == Contents(a)[m]
           y == Contents(b)[n]
<1>1. /\ a \in ToSet(lanes) /\ b \in ToSet(lanes)
      /\ IsSequence(a.points) /\ IsSequence(a.rewritten)
      /\ IsSequence(b.points) /\ IsSequence(b.rewritten)
  BY DEF Lanelike, ToSet
<1>2. /\ x.rewritten \in BOOLEAN /\ x.content \in ToSet(IF x.rewritten THEN a.rewritten ELSE a.points)
      /\ y.rewritten \in BOOLEAN /\ y.content \in ToSet(IF y.rewritten THEN b.rewritten ELSE b.points)
  <2> HIDE DEF a, b
  <2> QED
    BY <1>1, EntryIs DEF a, b
<1> HIDE DEF a, b, x, y
<1>3. /\ x.content.oid = y.content.oid
      /\ (IF x.rewritten THEN {x.content.replacement} ELSE {})
           = (IF y.rewritten THEN {y.content.replacement} ELSE {})
  BY DEF Identity, a, b, x, y
<1>4. x.rewritten = y.rewritten
  BY <1>2, <1>3
<1>5. x.rewritten => x.content.replacement = y.content.replacement
  BY <1>3, <1>4
<1>6. x.content = y.content
  BY <1>1, <1>2, <1>3, <1>4, <1>5 DEF Together
<1> QED
  BY <1>4, <1>6 DEF Mark, x, y, a, b

\* Lanes whose heads are on no other lane are no parts of each other.
LEMMA SeparateIs ==
  ASSUME NEW lanes, Lanelike(lanes), Together(ToSet(lanes)), \A lane \in ToSet(lanes) : IsLane(lane),
         \A i, j \in DOMAIN lanes : lanes[i] = lanes[j] => i = j
  PROVE  Separate(lanes) /\ \A i \in DOMAIN lanes : Len(Contents(lanes[i])) > 0
<1>1. ASSUME NEW i \in DOMAIN lanes
      PROVE  /\ Len(Contents(lanes[i])) > 0 /\ Len(Contents(lanes[i])) \in Nat
             /\ Contents(lanes[i])[Len(Contents(lanes[i]))].content = lanes[i].points[1]
             /\ ~Contents(lanes[i])[Len(Contents(lanes[i]))].rewritten
  <2> DEFINE a == lanes[i]
             m == Len(a.rewritten)
             n == Len(a.points)
             x == Len(Contents(a))
  <2>1. IsSequence(a.points) /\ IsSequence(a.rewritten) /\ a.points # <<>>
    BY DEF Lanelike, ToSet, IsLane
  <2>2. m \in Nat /\ n \in Nat /\ x = m + n /\ \A k \in 1..x : Contents(a)[k] = Entry(a, k)
    BY <2>1, ContentsListed
  <2>3. n # 0
    BY <2>1 DEF IsSequence
  <2>4. x \in 1..x /\ ~(x <= m) /\ m + n - x + 1 = 1 /\ x > 0 /\ x \in Nat
    <3> HIDE DEF m, n, x
    <3> QED BY <2>2, <2>3
  <2>5. Contents(a)[x] = Entry(a, x)
    BY <2>2, <2>4
  <2>6. Entry(a, x).content = a.points[1] /\ ~Entry(a, x).rewritten
    BY <2>4 DEF Entry
  <2> QED
    BY <2>4, <2>5, <2>6
<1>2. ASSUME NEW i \in DOMAIN lanes, NEW j \in DOMAIN lanes, IsPrefix(PathOf(lanes[i]), PathOf(lanes[j]))
      PROVE  i = j
  <2> DEFINE X == Identities(lanes)
             p == PathOf(lanes[i])
             r == PathOf(lanes[j])
             m == Len(Contents(lanes[i]))
             x == Contents(lanes[i])[m]
             y == Contents(lanes[j])[m]
  <2>1. /\ p \in Seq(X) /\ r \in Seq(X) /\ Len(p) = m /\ m \in Nat /\ m > 0
        /\ Len(r) = Len(Contents(lanes[j])) /\ Len(r) \in Nat
    BY <1>1, PathListed
  <2>2. m <= Len(r) /\ p[m] = r[m]
    <3>1. m \in 1..m
      <4> HIDE DEF m
      <4> QED BY <2>1
    <3> HIDE DEF m, p, r, X
    <3>2. Len(p) <= Len(r) /\ \A k \in 1..Len(p) : p[k] = r[k]
      BY <1>2, <2>1, PrefixIs DEF p, r
    <3> QED
      BY <2>1, <3>1, <3>2
  <2>3. m \in 1..Len(Contents(lanes[i])) /\ m \in 1..Len(Contents(lanes[j]))
    <3>1. \A k, n \in Nat : k > 0 /\ k <= n => k \in 1..n /\ k \in 1..k
      OBVIOUS
    <3> HIDE DEF r
    <3> QED
      BY <2>1, <2>2, <3>1
  <2>4. Identity(x) = Identity(y)
    BY <2>2, <2>3, PathListed
  <2>5. Mark(x) = Mark(y)
    BY <2>3, <2>4, SameMark
  <2>6. x.content = y.content /\ x.rewritten = y.rewritten
    BY <2>5 DEF Mark
  <2>7. y.content = lanes[i].points[1] /\ ~y.rewritten
    BY <1>1, <2>6
  <2>8. y.content \in ToSet(lanes[j].points)
    <3>1. IsSequence(lanes[j].points) /\ IsSequence(lanes[j].rewritten)
      BY DEF Lanelike
    <3>2. y.content \in ToSet(IF y.rewritten THEN lanes[j].rewritten ELSE lanes[j].points)
      <4> HIDE DEF m
      <4> QED BY <2>3, <3>1, EntryIs
    <3> QED
      BY <2>7, <3>2
  <2>9. lanes[i] \in ToSet(lanes) /\ lanes[j] \in ToSet(lanes)
    BY DEF ToSet
  <2>10. lanes[i] = lanes[j]
    BY <2>7, <2>8, <2>9 DEF Together
  <2> QED
    BY <2>10
<1> QED
  BY <1>1, <1>2 DEF Separate

\* One entry more.
LEMMA ReadingMore ==
  ASSUME NEW lane, NEW m \in Nat
  PROVE  /\ Reading(lane, m + 1) = <<Mark(Contents(lane)[m + 1])>> \o Reading(lane, m)
         /\ Reading(lane, 0) = <<>>
<1> DEFINE mark(i) == Mark(Contents(lane)[i])
           a == Reading(lane, m + 1)
           b == Reading(lane, m)
           S == {mark(i) : i \in 1..(m + 1)}
<1>1. a = [i \in 1..(m + 1) |-> mark(m + 1 - i + 1)] /\ b = [i \in 1..m |-> mark(m - i + 1)]
  BY DEF Reading
<1>2. Reading(lane, 0) = <<>>
  BY DEF Reading
<1> HIDE DEF a, b, mark
<1>3. \A i \in 1..(m + 1) : m + 1 - i + 1 \in 1..(m + 1)
  OBVIOUS
<1>4. \A i \in 1..m : m - i + 1 \in 1..(m + 1)
  OBVIOUS
<1>5. (\A i \in 1..(m + 1) : mark(m + 1 - i + 1) \in S) /\ (\A i \in 1..m : mark(m - i + 1) \in S)
  BY <1>3, <1>4
<1>6. 1..(m + 1) # {} /\ mark(m + 1) \in S
  BY <1>3
<1> HIDE DEF S
<1>7. a \in Seq(S) /\ b \in Seq(S) /\ Len(a) = m + 1 /\ Len(b) = m /\ <<mark(m + 1)>> \in Seq(S)
  BY <1>1, <1>5, <1>6
<1>8. \A i \in 1..(m + 1) : a[i] = (<<mark(m + 1)>> \o b)[i]
  <2> TAKE i \in 1..(m + 1)
  <2>1. CASE i = 1
    <3>1. m + 1 - 1 + 1 = m + 1 /\ 1 \in 1..(m + 1)
      OBVIOUS
    <3>2. a[1] = mark(m + 1)
      BY <1>1, <3>1
    <3>3. (<<mark(m + 1)>> \o b)[1] = mark(m + 1)
      BY <1>7
    <3> QED
      BY <2>1, <3>2, <3>3
  <2>2. CASE i # 1
    <3>1. i - 1 \in 1..m /\ m - (i - 1) + 1 = m + 1 - i + 1
      BY <2>2
    <3>2. a[i] = mark(m + 1 - i + 1) /\ b[i - 1] = mark(m + 1 - i + 1)
      BY <1>1, <3>1
    <3>3. (<<mark(m + 1)>> \o b)[i] = b[i - 1]
      BY <1>7, <2>2, <3>1
    <3> QED
      BY <3>2, <3>3
  <2> QED
    BY <2>1, <2>2
<1>9. <<mark(m + 1)>> \o b \in Seq(S) /\ Len(<<mark(m + 1)>> \o b) = m + 1
  BY <1>7
<1>10. a = <<mark(m + 1)>> \o b
  BY <1>7, <1>8, <1>9
<1> QED
  BY <1>2, <1>10 DEF a, b, mark

\* Paths that agree read the same.
LEMMA SameReading ==
  ASSUME NEW lanes, Lanelike(lanes), Together(ToSet(lanes)),
         NEW i \in DOMAIN lanes, NEW j \in DOMAIN lanes,
         NEW m \in Nat, m <= Len(Contents(lanes[i])), m <= Len(Contents(lanes[j])),
         \A k \in 1..m : PathOf(lanes[i])[k] = PathOf(lanes[j])[k]
  PROVE  Reading(lanes[i], m) = Reading(lanes[j], m)
<1>1. Len(Contents(lanes[i])) \in Nat /\ Len(Contents(lanes[j])) \in Nat
  BY PathListed
<1>2. ASSUME NEW k \in 1..m PROVE Mark(Contents(lanes[i])[k]) = Mark(Contents(lanes[j])[k])
  <2>1. k \in 1..Len(Contents(lanes[i])) /\ k \in 1..Len(Contents(lanes[j]))
    BY <1>1
  <2>2. Identity(Contents(lanes[i])[k]) = Identity(Contents(lanes[j])[k])
    BY <2>1, PathListed
  <2> QED
    BY <2>1, <2>2, SameMark
<1>3. \A k \in 1..m : m - k + 1 \in 1..m
  OBVIOUS
<1> QED
  BY <1>2, <1>3 DEF Reading

\* What is read tells the path.
LEMMA ReadingTells ==
  ASSUME NEW lanes, Lanelike(lanes), NEW i \in DOMAIN lanes, NEW j \in DOMAIN lanes,
         NEW m \in Nat, m <= Len(Contents(lanes[i])), NEW n \in Nat, n <= Len(Contents(lanes[j])),
         Reading(lanes[i], m) = Reading(lanes[j], n)
  PROVE  m = n /\ \A k \in 1..m : PathOf(lanes[i])[k] = PathOf(lanes[j])[k]
<1>1. Len(Contents(lanes[i])) \in Nat /\ Len(Contents(lanes[j])) \in Nat
  BY PathListed
<1>2. m = n
  <2>1. DOMAIN Reading(lanes[i], m) = 1..m /\ DOMAIN Reading(lanes[j], n) = 1..n
    BY DEF Reading
  <2>2. 1..m = 1..n
    BY <2>1
  <2>3. (m \in 1..m \/ m = 0) /\ (n \in 1..n \/ n = 0)
    OBVIOUS
  <2> QED
    BY <2>2, <2>3
<1>3. ASSUME NEW k \in 1..m PROVE PathOf(lanes[i])[k] = PathOf(lanes[j])[k]
  <2> DEFINE x == Contents(lanes[i])[k]
             y == Contents(lanes[j])[k]
  <2>1. m - k + 1 \in 1..m /\ m - (m - k + 1) + 1 = k
    OBVIOUS
  <2>2. Reading(lanes[i], m)[m - k + 1] = Mark(x) /\ Reading(lanes[j], m)[m - k + 1] = Mark(y)
    BY <2>1 DEF Reading
  <2>3. Mark(x) = Mark(y)
    BY <1>2, <2>2
  <2>4. Identity(x) = Identity(y)
    BY <2>3 DEF Mark, Identity
  <2>5. k \in 1..Len(Contents(lanes[i])) /\ k \in 1..Len(Contents(lanes[j]))
    BY <1>1, <1>2
  <2> QED
    BY <2>4, <2>5, PathListed
<1> QED
  BY <1>2, <1>3

\* From its head down a lane reads as it should.
LEMMA ReadingWhole ==
  ASSUME NEW lane, IsSequence(lane.points), IsSequence(lane.rewritten)
  PROVE  Reading(lane, Len(Contents(lane))) = Shown(lane)
<1> DEFINE m == Len(lane.rewritten)
           n == Len(lane.points)
           a == [i \in DOMAIN lane.points |-> <<FALSE, lane.points[i]>>]
           b == [i \in DOMAIN lane.rewritten |-> <<TRUE, lane.rewritten[i]>>]
           S == {a[i] : i \in 1..n} \cup {b[i] : i \in 1..m}
           r == Reading(lane, m + n)
<1>1. /\ m \in Nat /\ n \in Nat /\ DOMAIN lane.rewritten = 1..m /\ DOMAIN lane.points = 1..n
      /\ Len(Contents(lane)) = m + n
      /\ \A i \in 1..(m + n) : Contents(lane)[i] = Entry(lane, i)
  BY ContentsListed
<1>2. DOMAIN a = 1..n /\ DOMAIN b = 1..m
  BY <1>1
<1>3. \A i \in 1..n : a[i] = <<FALSE, lane.points[i]>>
  BY <1>1
<1>4. \A i \in 1..m : b[i] = <<TRUE, lane.rewritten[i]>>
  BY <1>1
<1>5. a = [i \in 1..n |-> a[i]] /\ b = [i \in 1..m |-> b[i]]
  BY <1>1
<1>6. Shown(lane) = a \o b
  BY DEF Shown
<1>7. (\A i \in 1..n : a[i] \in S) /\ (\A i \in 1..m : b[i] \in S)
  OBVIOUS
<1> HIDE DEF a, b
<1>8. a \in Seq(S) /\ Len(a) = n /\ b \in Seq(S) /\ Len(b) = m
  <2> HIDE DEF S, m, n
  <2> QED BY <1>1, <1>2, <1>5, <1>7, SequenceFrom
<1>9. ASSUME NEW i \in 1..(m + n) PROVE r[i] = IF i <= n THEN a[i] ELSE b[i - n]
  <2> DEFINE k == m + n - i + 1
  <2>1. k \in 1..(m + n) /\ (i <= n => ~(k <= m) /\ m + n - k + 1 = i /\ i \in 1..n)
        /\ (~(i <= n) => k <= m /\ m - k + 1 = i - n /\ i - n \in 1..m)
    <3> HIDE DEF m, n
    <3> QED BY <1>1
  <2>2. r[i] = Mark(Entry(lane, k))
    <3>1. r[i] = Mark(Contents(lane)[k])
      <4>1. r = [x \in 1..(m + n) |-> Mark(Contents(lane)[m + n - x + 1])]
        BY DEF Reading
      <4> HIDE DEF r
      <4> QED BY <4>1
    <3>2. Contents(lane)[k] = Entry(lane, k)
      <4> HIDE DEF k, m, n
      <4> QED BY <1>1, <2>1
    <3> QED
      BY <3>1, <3>2
  <2>3. CASE i <= n
    <3>1. Entry(lane, k).content = lane.points[i] /\ Entry(lane, k).rewritten = FALSE
      BY <2>1, <2>3 DEF Entry
    <3> HIDE DEF k, r, m, n
    <3> QED
      BY <1>3, <2>1, <2>2, <2>3, <3>1 DEF Mark
  <2>4. CASE ~(i <= n)
    <3>1. Entry(lane, k).content = lane.rewritten[i - n] /\ Entry(lane, k).rewritten = TRUE
      BY <2>1, <2>4 DEF Entry
    <3> HIDE DEF k, r, m, n
    <3> QED
      BY <1>4, <2>1, <2>2, <2>4, <3>1 DEF Mark
  <2> QED
    BY <2>3, <2>4
<1>10. DOMAIN r = 1..(m + n) /\ r = [i \in 1..(m + n) |-> r[i]]
  BY DEF Reading
<1> HIDE DEF r, S, m, n
<1>11. r = a \o b
  <2>1. /\ a \o b \in Seq(S) /\ Len(a \o b) = m + n
        /\ \A i \in 1..(m + n) : (a \o b)[i] = IF i <= n THEN a[i] ELSE b[i - n]
    BY <1>1, <1>8
  <2>2. \A i \in 1..(m + n) : r[i] = (a \o b)[i]
    BY <1>9, <2>1
  <2>3. DOMAIN (a \o b) = 1..(m + n)
    BY <2>1
  <2>4. a \o b = [i \in 1..(m + n) |-> (a \o b)[i]]
    <3> DEFINE s == a \o b
    <3>1. s \in Seq(S) /\ DOMAIN s = 1..(m + n)
      BY <2>1, <2>3
    <3> HIDE DEF s
    <3>2. s = [i \in 1..(m + n) |-> s[i]]
      BY <3>1
    <3> QED BY <3>2 DEF s
  <2> QED
    BY <1>10, <2>2, <2>4
<1> QED
  BY <1>1, <1>6, <1>11 DEF r, m, n

\* The commit that a row shows.
LEMMA RowReads ==
  ASSUME Arranged, NEW g \in DOMAIN groups, NEW q, RowsFrom(q, g), NEW k \in DOMAIN q
  PROVE  /\ <<Rows(g)[k].rewritten, Commit(g, Rows(g)[k])>>
              = Mark(Contents(Lanes(g)[LaneOf(Lanes(g), q[k])])[Len(q[k])])
         /\ Len(q[k]) \in 1..Len(Contents(Lanes(g)[LaneOf(Lanes(g), q[k])]))
<1> DEFINE lanes == Lanes(g)
           l == LaneOf(lanes, q[k])
           n == Len(q[k])
<1>1. Traversal(q, lanes)
  BY DEF RowsFrom
<1>2. /\ Lanelike(lanes) /\ q[k] \in Nodes(lanes) /\ n \in Nat \ {0} /\ l \in DOMAIN lanes
      /\ q[k] \in Seq(Identities(lanes))
  BY <1>1, TraversalIs
<1>3. n \in 1..Len(Contents(lanes[l]))
  <2>1. IsPrefix(q[k], PathOf(lanes[l]))
    BY <1>2, NodeLane
  <2>2. PathOf(lanes[l]) \in Seq(Identities(lanes)) /\ Len(PathOf(lanes[l])) = Len(Contents(lanes[l]))
        /\ Len(Contents(lanes[l])) \in Nat
    BY <1>2, PathListed
  <2>3. n <= Len(PathOf(lanes[l]))
    <3> DEFINE X == Identities(lanes)
               p == PathOf(lanes[l])
               m == q[k]
    <3>1. m \in Seq(X) /\ p \in Seq(X) /\ IsPrefix(m, p)
      BY <1>2, <2>1, <2>2
    <3> HIDE DEF X, p, m
    <3>2. Len(m) <= Len(p)
      BY <3>1, PrefixFacts
    <3> QED
      BY <3>2 DEF p, m
  <2> QED
    BY <1>2, <2>2, <2>3
<1>4. IsSequence(lanes[l].points) /\ IsSequence(lanes[l].rewritten)
  BY <1>2 DEF Lanelike
<1> DEFINE e == Contents(lanes[l])[n]
<1>5. /\ Rows(g)[k].rewritten = e.rewritten /\ Rows(g)[k].lane = l
      /\ Rows(g)[k].position = e.position
  <2>1. Rows(g)[k] = Row(lanes, q[k])
    BY RowIs
  <2> QED
    BY <2>1 DEF Row
<1>6. e.content = IF e.rewritten THEN lanes[l].rewritten[e.position] ELSE lanes[l].points[e.position]
  <2> HIDE DEF l, n
  <2> QED BY <1>3, <1>4, EntryIs
<1>7. Commit(g, Rows(g)[k]) = e.content
  BY <1>5, <1>6 DEF Commit, Bound
<1> QED
  BY <1>3, <1>5, <1>7 DEF Mark

----------------------------------------------------------------------------
(* The lines that stand for a row.                                        *)

\* The segment that a lane has below a row, by number; 0 is none.
Started(g, k, l) == {j \in 1..k : Rows(g)[j].lane = l /\ Begins(g, j)}

Paint(g, k, l) ==
    IF Started(g, k, l) = {} THEN 0 ELSE Cardinality(BegunBefore(g, Max(Started(g, k, l)))) + 1

\* The glyphs of a junction and of a base.
JunctionGlyph(children, visible, l) ==
    LET first == Min(children)
        last == Max(children)
    IN  CASE l = first -> "fork"
          [] l = last /\ l # first -> "end"
          [] l \in children \ {first, last} -> "tee"
          [] l \in (first..last) \ children -> "dash"
          [] l \in visible \ (first..last) -> "line"
          [] OTHER -> "blank"

TrunkGlyph(roots, l) ==
    LET last == IF roots = {} THEN 1 ELSE Max(roots)
    IN  CASE l > last -> "blank"
          [] l = last -> "end"
          [] l \in roots /\ l < last -> "tee"
          [] OTHER -> "dash"

\* The lines of a row, of the junction above it, and of a base.
CommitLine(p, g, k) ==
    /\ p.kind = "commit" /\ p.label = <<Rows(g)[k].rewritten, Commit(g, Rows(g)[k])>>
    /\ DOMAIN p.cells = DOMAIN Lanes(g)
    /\ \A l \in DOMAIN Lanes(g) :
        /\ Glyph(p, l) = IF l = Rows(g)[k].lane THEN "commit"
                         ELSE IF l \in Alive(g, k + 1) THEN "line" ELSE "blank"
        /\ p.cells[l].colour = Paint(g, k, l)

JunctionLine(p, g, k) ==
    /\ p.kind = "junction" /\ DOMAIN p.cells = DOMAIN Lanes(g)
    /\ \A l \in DOMAIN Lanes(g) :
        /\ Glyph(p, l) = JunctionGlyph(Joined(Rows(g)[k]), Alive(g, k), l)
        /\ p.cells[l].colour = Paint(g, k - 1, l)

TrunkLine(p, g) ==
    /\ p.kind = "trunk" /\ DOMAIN p.cells = DOMAIN Lanes(g)
    /\ \A l \in DOMAIN Lanes(g) : Glyph(p, l) = TrunkGlyph(ToSet(prepared[g].roots), l)

\* How many lines a row takes, and the first rows of a group one below the other.
Height(g, k) == IF Joined(Rows(g)[k]) = {} THEN 1 ELSE 2

Listed(lines, g, n, at) ==
    /\ at \in [0..n -> Nat]
    /\ \A k \in 1..n :
        /\ at[k] = at[k - 1] + Height(g, k)
        /\ CommitLine(lines[at[k]], g, k)
        /\ Joined(Rows(g)[k]) # {} => JunctionLine(lines[at[k] - 1], g, k)

\* All rows of a group, and its base.
Complete(rows, g, at) ==
    /\ Listed(rows, g, Len(Rows(g)), at) /\ at[0] = 0
    /\ Len(rows) = at[Len(Rows(g))] + 1 /\ DOMAIN rows = 1..Len(rows)
    /\ TrunkLine(rows[Len(rows)], g)

\* Rows further down are on lines further down.
LEMMA LinesRise ==
  ASSUME NEW lines, NEW g, NEW n \in Nat, NEW at, Listed(lines, g, n, at),
         NEW i \in 0..n, NEW j \in 0..n, i < j
  PROVE  at[i] < at[j] /\ at[i] \in Nat /\ at[j] \in Nat
<1> DEFINE S == {k \in (i + 1)..n : at[k] <= at[i]}
<1>1. \A k \in 0..n : at[k] \in Nat
  BY DEF Listed
<1>2. \A k \in 1..n : at[k] = at[k - 1] + Height(g, k) /\ Height(g, k) \in {1, 2}
  BY DEF Listed, Height
<1>3. S = {}
  <2> SUFFICES ASSUME S # {} PROVE FALSE
    OBVIOUS
  <2>1. S \in SUBSET Nat
    OBVIOUS
  <2>2. PICK k \in S : \A m \in S : k <= m
    <3> HIDE DEF S
    <3> QED BY <2>1, LeastNatural
  <2>3. k \in (i + 1)..n /\ at[k] <= at[i] /\ k \in 1..n /\ k - 1 \in 0..n
    OBVIOUS
  <2>4. at[k - 1] < at[k] /\ at[k] \in Nat /\ at[k - 1] \in Nat /\ at[i] \in Nat
    BY <1>1, <1>2, <2>3
  <2>5. k - 1 \notin S
    BY <2>2, <2>3
  <2>6. CASE k - 1 = i
    BY <2>3, <2>4, <2>6
  <2>7. CASE k - 1 # i
    <3>1. k - 1 \in (i + 1)..n
      BY <2>3, <2>7
    <3>2. ~(at[k - 1] <= at[i])
      BY <2>5, <3>1
    <3> QED
      BY <2>3, <2>4, <3>2
  <2> QED
    BY <2>6, <2>7
<1>4. j \in (i + 1)..n
  OBVIOUS
<1>5. ~(at[j] <= at[i])
  BY <1>3, <1>4
<1> QED
  BY <1>1, <1>5

\* Every line belongs to a row.
LEMMA EveryLine ==
  ASSUME NEW lines, NEW g, NEW n \in Nat, NEW at, Listed(lines, g, n, at),
         NEW i \in (at[0] + 1)..at[n]
  PROVE  \E k \in 1..n : i = at[k] \/ (i = at[k] - 1 /\ Joined(Rows(g)[k]) # {})
<1> DEFINE S == {k \in 0..n : i <= at[k]}
<1>1. (\A k \in 0..n : at[k] \in Nat) /\ 0 \in 0..n /\ n \in 0..n
  BY DEF Listed
<1>2. i \in Nat /\ n \in S
  BY <1>1
<1>3. PICK k \in S : \A m \in S : k <= m
  <2>1. S \in SUBSET Nat /\ S # {}
    BY <1>2
  <2> HIDE DEF S
  <2> QED BY <2>1, LeastNatural
<1>4. k \in 0..n /\ i <= at[k] /\ 0 \notin S
  BY <1>1
<1>5. k \in 1..n /\ k - 1 \in 0..n /\ k - 1 \notin S
  BY <1>3, <1>4
<1>6. ~(i <= at[k - 1])
  BY <1>5
<1>7. at[k] = at[k - 1] + Height(g, k)
  BY <1>5 DEF Listed
<1>8. at[k] \in Nat /\ at[k - 1] \in Nat
  BY <1>1, <1>5
<1>9. CASE Joined(Rows(g)[k]) = {}
  <2>1. at[k] = at[k - 1] + 1
    BY <1>7, <1>9 DEF Height
  <2> QED
    BY <1>2, <1>4, <1>5, <1>6, <1>8, <2>1
<1>10. CASE Joined(Rows(g)[k]) # {}
  <2>1. at[k] = at[k - 1] + 2
    BY <1>7, <1>10 DEF Height
  <2>2. i = at[k] \/ i = at[k] - 1
    BY <1>2, <1>4, <1>6, <1>8, <2>1
  <2> QED
    BY <1>5, <1>10, <2>2
<1> QED
  BY <1>9, <1>10

\* The lanes of a group, what is drawn of it, and the order of its rows.
Readable(rows, g, at, q) ==
    /\ Arranged /\ g \in DOMAIN groups /\ Separate(Lanes(g)) /\ RowsFrom(q, g)
    /\ \A l \in DOMAIN Lanes(g) : Len(Contents(Lanes(g)[l])) > 0
    /\ Complete(rows, g, at)

\* The first and the last of the lanes that end in a junction.
LEMMA JunctionEnds ==
  ASSUME Arranged, NEW g \in DOMAIN groups, Separate(Lanes(g)), NEW q, RowsFrom(q, g),
         NEW k \in DOMAIN q, Joined(Rows(g)[k]) # {}
  PROVE  LET children == Joined(Rows(g)[k])
         IN  /\ Min(children) = Rows(g)[k].lane /\ Rows(g)[k].lane \in children
             /\ Max(children) \in children /\ \A c \in children : c <= Max(children)
             /\ children \subseteq Nat \ {0} /\ children \subseteq DOMAIN Lanes(g)
<1> DEFINE children == Joined(Rows(g)[k])
           l == Rows(g)[k].lane
<1>1. /\ \A c \in children : c \in DOMAIN Lanes(g) /\ l <= c
      /\ l \in children
  BY JoinedAre
<1>2. DOMAIN Lanes(g) = 1..Len(Lanes(g)) /\ Len(Lanes(g)) \in Nat
  BY DEF Separate, Lanelike
<1>3. IsFiniteSet(1..Len(Lanes(g)))
  BY <1>2, FS_Interval
<1> HIDE DEF children, l
<1>4. children \in SUBSET (1..Len(Lanes(g)))
  BY <1>1, <1>2
<1>5. IsFiniteSet(children) /\ children \in SUBSET Int /\ children # {}
  <2>1. IsFiniteSet(children)
    BY <1>3, <1>4, FS_Subset
  <2> QED
    BY <1>1, <1>4, <2>1
<1>6. Min(children) \in children /\ \A c \in children : Min(children) <= c
  BY <1>5, MinIs
<1>7. Max(children) \in children /\ \A c \in children : c <= Max(children)
  BY <1>5, MaxIs
<1>8. Min(children) = l
  <2> DEFINE m == Min(children)
  <2>1. m \in Int /\ l \in Int /\ m <= l /\ l <= m
    BY <1>1, <1>5, <1>6
  <2> HIDE DEF m
  <2>2. m = l
    BY <2>1
  <2> QED
    BY <2>2 DEF m
<1> QED
  BY <1>1, <1>4, <1>7, <1>8 DEF children, l

\* What a junction shows: it leads every lane that ends in it to that of the row.
Leads(p, g, k, l) ==
    /\ l = Rows(g)[k].lane => Glyph(p, l) = "fork"
    /\ l \in Joined(Rows(g)[k]) /\ l # Rows(g)[k].lane =>
         Glyph(p, l) \in {"tee", "end"} /\ LedTo(p, l) = Rows(g)[k].lane
    /\ l \in Alive(g, k) /\ l \notin Joined(Rows(g)[k]) =>
         Glyph(p, l) = "line" /\ l < Rows(g)[k].lane
    /\ Glyph(p, l) \in {"fork", "tee", "end"} => l \in Joined(Rows(g)[k])
    /\ Glyph(p, l) = "line" => l \in Alive(g, k) \ Joined(Rows(g)[k])
    /\ Glyph(p, l) # "commit" /\ p.kind # "trunk"

LEMMA JunctionShows ==
  ASSUME Arranged, NEW g \in DOMAIN groups, Separate(Lanes(g)), NEW q, RowsFrom(q, g),
         NEW k \in DOMAIN q, Joined(Rows(g)[k]) # {}, NEW p, JunctionLine(p, g, k),
         NEW l \in DOMAIN Lanes(g)
  PROVE  Leads(p, g, k, l)
<1> DEFINE children == Joined(Rows(g)[k])
           visible == Alive(g, k)
           first == Rows(g)[k].lane
           last == Max(children)
           n == Len(Lanes(g))
<1>1. /\ Min(children) = first /\ first \in children /\ last \in children
      /\ \A c \in children : c <= last /\ first <= c
      /\ children \subseteq Nat \ {0} /\ children \subseteq DOMAIN Lanes(g)
  <2>1. \A c \in children : first <= c
    BY JoinedAre
  <2> HIDE DEF children, first
  <2> QED
    BY <2>1, JunctionEnds DEF children, first
<1>2. ASSUME NEW c \in visible, c \notin children PROVE c < first
  <2>1. c # first
    BY <1>1, <1>2
  <2> QED
    BY <1>2, <2>1, PassesLeft
<1>3. DOMAIN Lanes(g) = 1..n /\ n \in Nat
  BY DEF Separate, Lanelike
<1>4. \A c \in 1..n : Glyph(p, c) = JunctionGlyph(children, visible, c)
  BY <1>3 DEF JunctionLine
<1>5. p.kind = "junction"
  BY DEF JunctionLine
<1> HIDE DEF children, visible, first, n
<1>6. ASSUME NEW c \in 1..n
      PROVE  Glyph(p, c) = CASE c = first -> "fork"
                             [] c = last /\ c # first -> "end"
                             [] c \in children \ {first, last} -> "tee"
                             [] c \in (first..last) \ children -> "dash"
                             [] c \in visible \ (first..last) -> "line"
                             [] OTHER -> "blank"
  BY <1>1, <1>4 DEF JunctionGlyph
<1> HIDE DEF last
<1>7. first \in Nat \ {0} /\ last \in Nat /\ first \in 1..n /\ l \in 1..n /\ first <= last
  <2>1. first \in 1..n /\ l \in 1..n /\ last \in 1..n
    BY <1>1, <1>3
  <2> QED
    BY <1>1, <1>3, <2>1
<1>14. /\ Glyph(p, first) = "fork"
       /\ \A c \in 1..n : c \in children /\ c # first => Glyph(p, c) \in {"tee", "end"}
       /\ \A c \in 1..n : c \in first..last /\ c # first /\ c # last => Glyph(p, c) \in {"dash", "tee"}
       /\ \A c \in 1..n : Glyph(p, c) = "fork" => c = first
       /\ \A c \in 1..n : Glyph(p, c) \in {"fork", "tee", "end"} => c \in children
       /\ \A c \in 1..n : c \in visible /\ c \notin first..last => Glyph(p, c) = "line"
       /\ \A c \in 1..n : Glyph(p, c) = "line" => c \in visible \ (first..last)
  <2> DEFINE R == first..last
             G(c) == Glyph(p, c)
  <2>1. ASSUME NEW c \in 1..n
        PROVE  G(c) = CASE c = first -> "fork"
                        [] c = last /\ c # first -> "end"
                        [] c \in children \ {first, last} -> "tee"
                        [] c \in R \ children -> "dash"
                        [] c \in visible \ R -> "line"
                        [] OTHER -> "blank"
    BY <1>6
  <2>2. first \in R /\ last \in R /\ children \subseteq R
    BY <1>1, <1>7
  <2> DEFINE N == 1..n
  <2>3. first \in N
    BY <1>7
  <2>4. \A c \in N : G(c) = CASE c = first -> "fork"
                        [] c = last /\ c # first -> "end"
                        [] c \in children \ {first, last} -> "tee"
                        [] c \in R \ children -> "dash"
                        [] c \in visible \ R -> "line"
                        [] OTHER -> "blank"
    BY <2>1
  <2> HIDE DEF R, G, N
  <2>5. ASSUME NEW c \in N
        PROVE  /\ c = first => G(c) = "fork"
               /\ c \in children /\ c # first => G(c) \in {"tee", "end"}
               /\ c \in R /\ c # first /\ c # last => G(c) \in {"dash", "tee"}
               /\ G(c) = "fork" => c = first
               /\ G(c) \in {"fork", "tee", "end"} => c \in children
               /\ c \in visible /\ c \notin R => G(c) = "line"
               /\ G(c) = "line" => c \in visible \ R
    <3>0. G(c) = CASE c = first -> "fork"
                   [] c = last /\ c # first -> "end"
                   [] c \in children \ {first, last} -> "tee"
                   [] c \in R \ children -> "dash"
                   [] c \in visible \ R -> "line"
                   [] OTHER -> "blank"
      BY <2>4
    <3>1. c = first => G(c) = "fork"
      BY <1>1, <2>2, <3>0
    <3>2. c = last /\ c # first => G(c) = "end"
      BY <1>1, <2>2, <3>0
    <3>3. c \in children \ {first, last} => G(c) = "tee"
      BY <1>1, <2>2, <3>0
    <3>4. c \in R \ children => G(c) = "dash"
      BY <1>1, <2>4
    <3>5. c \in visible \ R => G(c) = "line"
      BY <2>2, <2>4
    <3>6. c \notin R /\ c \notin visible => G(c) = "blank"
      BY <2>2, <2>4
    <3> QED
      BY <1>1, <2>2, <3>1, <3>2, <3>3, <3>4, <3>5, <3>6
  <2>6. G(first) = "fork"
    BY <2>3, <2>5
  <2> QED
    BY <2>5, <2>6 DEF R, G, N
<1>8. l = first => Glyph(p, l) = "fork"
  BY <1>14
<1>9. ASSUME l \in children, l # first PROVE Glyph(p, l) \in {"tee", "end"} /\ LedTo(p, l) = first
  <2>1. Glyph(p, l) \in {"tee", "end"}
    BY <1>7, <1>9, <1>14
  <2>2. first < l /\ l \in Nat /\ l <= last /\ l <= n
    BY <1>1, <1>3, <1>7, <1>9
  <2>3. first \in 1..(l - 1) /\ Glyph(p, first) = "fork"
    BY <1>7, <1>14, <2>2
  <2>4. ASSUME NEW j \in (first + 1)..(l - 1) PROVE Glyph(p, j) \in {"dash", "tee"}
    <3>1. j \in Nat /\ first < j /\ j < l
      BY <1>7, <2>2
    <3>2. n \in Nat
      BY <1>3
    <3>3. j \in 1..n /\ j # first /\ j # last /\ j \in first..last
      BY <1>7, <2>2, <3>1, <3>2
    <3> QED
      BY <1>14, <3>3
  <2>5. ASSUME NEW j \in 1..(l - 1), Glyph(p, j) = "fork" PROVE j = first
    <3>1. j \in 1..n
      BY <1>3, <2>2
    <3> QED
      BY <1>14, <2>5, <3>1
  <2> DEFINE S == {0} \cup {j \in 1..(l - 1) : /\ Glyph(p, j) = "fork"
                                     /\ \A i \in (j + 1)..(l - 1) : Glyph(p, i) \in {"dash", "tee"}}
  <2>6. S = {0, first}
    BY <2>3, <2>4, <2>5
  <2>7. LedTo(p, l) = Max(S)
    BY DEF LedTo
  <2> HIDE DEF S
  <2>8. S \in SUBSET Int /\ S # {} /\ IsFiniteSet(S)
    <3>1. IsFiniteSet({0, first})
      <4>1. {0, first} \in SUBSET (0..first) /\ 0 \in Int /\ first \in Int
        BY <1>7
      <4>2. IsFiniteSet(0..first)
        BY <4>1, FS_Interval
      <4> QED
        BY <4>1, <4>2, FS_Subset
    <3> QED
      BY <1>7, <2>6, <3>1
  <2>9. Max(S) \in S /\ \A y \in S : Max(S) >= y
    BY <2>8, MaxIs
  <2>10. Max(S) = first
    <3> DEFINE m == Max(S)
    <3>1. m \in {0, first} /\ m >= first
      BY <2>6, <2>9
    <3> HIDE DEF m
    <3>2. m = first
      BY <1>7, <3>1
    <3> QED
      BY <3>2 DEF m
  <2> QED
    BY <2>1, <2>7, <2>10
<1>10. ASSUME l \in visible, l \notin children PROVE Glyph(p, l) = "line" /\ l < first
  <2>1. l < first /\ l \in 1..n
    BY <1>2, <1>3, <1>10
  <2>2. l # first /\ l # last /\ l \notin first..last
    BY <1>1, <1>7, <1>10, <2>1
  <2> QED
    BY <1>10, <1>14, <2>1, <2>2
<1>11. Glyph(p, l) \in {"fork", "tee", "end"} => l \in children
  BY <1>7, <1>14
<1>12. Glyph(p, l) = "line" => l \in visible \ children
  <2>1. Glyph(p, l) = "line" => l \in visible \ (first..last)
    BY <1>7, <1>14
  <2>2. \A c \in children : c \in first..last
    BY <1>1, <1>7
  <2> QED
    BY <2>1, <2>2
<1>13. Glyph(p, l) # "commit"
  BY <1>6, <1>7
<1> QED
  BY <1>5, <1>8, <1>9, <1>10, <1>11, <1>12, <1>13 DEF Leads, children, visible, first

\* What a base shows: exactly the lanes that reach it end on it.
LEMMA TrunkShows ==
  ASSUME Arranged, NEW g \in DOMAIN groups, Separate(Lanes(g)), NEW q, RowsFrom(q, g),
         \A l \in DOMAIN Lanes(g) : Len(Contents(Lanes(g)[l])) > 0,
         NEW p, TrunkLine(p, g), NEW l \in DOMAIN Lanes(g)
  PROVE  /\ Glyph(p, l) \in {"tee", "end"} <=> l \in ToSet(prepared[g].roots)
         /\ Glyph(p, l) \notin {"commit", "line", "fork"}
         /\ l \in ToSet(prepared[g].roots) => l \in Alive(g, Len(q) + 1)
<1> DEFINE roots == ToSet(prepared[g].roots)
           n == Len(Lanes(g))
<1>1. DOMAIN Lanes(g) = 1..n /\ n \in Nat
  BY DEF Separate, Lanelike
<1>2. (\A c \in roots : c \in Alive(g, Len(q) + 1) /\ c \in DOMAIN Lanes(g)) /\ roots # {}
  BY RootsAre
<1>3. Glyph(p, l) = TrunkGlyph(roots, l)
  BY DEF TrunkLine
<1> HIDE DEF roots
<1>4. roots \in SUBSET (1..n) /\ roots \in SUBSET Int
  BY <1>1, <1>2
<1>5. IsFiniteSet(roots)
  <2>1. IsFiniteSet(1..n)
    BY <1>1, FS_Interval
  <2> QED
    BY <1>4, <2>1, FS_Subset
<1>6. Max(roots) \in roots /\ \A c \in roots : Max(roots) >= c
  BY <1>2, <1>4, <1>5, MaxIs
<1> DEFINE last == Max(roots)
<1>7. Glyph(p, l) = CASE l > last -> "blank" [] l = last -> "end"
                      [] l \in roots /\ l < last -> "tee" [] OTHER -> "dash"
  BY <1>2, <1>3 DEF TrunkGlyph
<1>8. last \in 1..n /\ l \in 1..n /\ last \in roots /\ \A c \in roots : c <= last
  BY <1>1, <1>4, <1>6
<1> HIDE DEF last
<1>9. Glyph(p, l) \in {"tee", "end"} <=> l \in roots
  BY <1>1, <1>4, <1>7, <1>8
<1>10. Glyph(p, l) \notin {"commit", "line", "fork"}
  BY <1>7
<1> QED
  BY <1>2, <1>9, <1>10 DEF roots

----------------------------------------------------------------------------
(* The eye.                                                                *)

\* Where the eye goes on from lane at[2] of line at[1].
Beyond(rows, at, f) ==
    LET p == rows[at[1]]
        l == at[2]
    IN  CASE Glyph(p, l) = "commit" -> <<p.label>> \o f[<<at[1] + 1, l>>]
          [] Glyph(p, l) \in {"line", "fork"} -> f[<<at[1] + 1, l>>]
          [] Glyph(p, l) \in {"tee", "end"} -> f[<<at[1] + 1, LedTo(p, l)>>]
          [] OTHER -> <<Broken>>

EyeStep(rows, at, f) ==
    IF at[2] = 0 \/ at[1] > Len(rows) THEN <<Broken>>
    ELSE IF rows[at[1]].kind = "trunk"
    THEN IF Glyph(rows[at[1]], at[2]) \in {"tee", "end"} THEN <<>> ELSE <<Broken>>
    ELSE Beyond(rows, at, f)

\* The eye follows lanes down.
Spots(rows, count) == (1..(Len(rows) + 1)) \X (0..count)

Follows(f, rows, count) == f = [at \in Spots(rows, count) |-> EyeStep(rows, at, f)]

\* The recursion of Followed has a solution, and Followed is one.
LEMMA FollowedIs ==
  ASSUME NEW g, Len(Drawn(g)) \in Nat, Len(Lanes(g)) \in Nat
  PROVE  Follows(Followed(g), Drawn(g), Len(Lanes(g)))
<1> DEFINE rows == Drawn(g)
           n == Len(rows)
           count == Len(Lanes(g))
           D == Spots(rows, count)
           W == {rows[i].label : i \in 1..n} \cup {Broken}
           V == Seq(W)
           rank == [at \in D |-> n + 1 - at[1]]
           F == [x \in D \X [D -> V] |-> EyeStep(rows, x[1], x[2])]
<1>1. n \in Nat /\ count \in Nat
  OBVIOUS
<1>2. Followed(g) = CHOOSE f : Follows(f, rows, count)
  BY DEF Followed, Follows, EyeStep, Beyond, Spots
<1>3. ASSUME NEW at \in D
      PROVE  /\ at = <<at[1], at[2]>> /\ at[1] \in 1..(n + 1) /\ at[2] \in 0..count
             /\ at[1] <= n => <<at[1] + 1, at[2]>> \in D
             /\ at[1] <= n => <<at[1] + 1, LedTo(rows[at[1]], at[2])>> \in D
  <2>1. at = <<at[1], at[2]>> /\ at[1] \in 1..(n + 1) /\ at[2] \in 0..count
    BY DEF Spots
  <2> DEFINE p == rows[at[1]]
             l == at[2]
             S == {0} \cup {k \in 1..(l - 1) : /\ Glyph(p, k) = "fork"
                                     /\ \A j \in (k + 1)..(l - 1) : Glyph(p, j) \in {"dash", "tee"}}
  <2>2. LedTo(p, l) = Max(S)
    BY DEF LedTo
  <2>3. S \in SUBSET (0..l) /\ l \in Nat /\ S # {}
    BY <1>1, <2>1
  <2>4. Max(S) \in S
    <3> HIDE DEF S, l
    <3>1. IsFiniteSet(0..l)
      BY <2>3, FS_Interval
    <3>2. S \in SUBSET Int
      BY <2>3
    <3>3. IsFiniteSet(S)
      BY <2>3, <3>1, FS_Subset
    <3> QED
      BY <2>3, <3>2, <3>3, MaxIs
  <2>5. LedTo(p, l) \in 0..count
    <3> HIDE DEF S, count
    <3> QED BY <1>1, <2>1, <2>2, <2>3, <2>4
  <2>6. at[1] <= n => at[1] + 1 \in 1..(n + 1)
    <3>1. at[1] \in 1..(n + 1)
      BY <2>1
    <3> HIDE DEF n
    <3> QED BY <1>1, <3>1
  <2> HIDE DEF n, count
  <2> QED
    BY <2>1, <2>5, <2>6 DEF Spots, n, count
<1>4. ASSUME NEW at \in D, NEW f \in [D -> V] PROVE EyeStep(rows, at, f) \in V
  <2> DEFINE p == rows[at[1]]
             l == at[2]
  <2>1. <<Broken>> \in V /\ <<>> \in V
    <3>1. Broken \in W
      OBVIOUS
    <3> HIDE DEF W
    <3> QED BY <3>1
  <2>2. CASE l = 0 \/ at[1] > n
    BY <2>1, <2>2 DEF EyeStep
  <2>3. CASE ~(l = 0 \/ at[1] > n)
    <3>1. at[1] \in 1..n /\ at[1] <= n
      <4>1. at[1] \in 1..(n + 1)
        BY <1>3
      <4> HIDE DEF n
      <4> QED BY <1>1, <2>3, <4>1
    <3>2. <<p.label>> \in V
      <4>1. p.label \in W
        BY <3>1
      <4> HIDE DEF W, p
      <4> QED BY <4>1
    <3>3. f[<<at[1] + 1, l>>] \in V /\ f[<<at[1] + 1, LedTo(p, l)>>] \in V
      <4> HIDE DEF D, V
      <4> QED BY <1>3, <3>1
    <3>4. <<p.label>> \o f[<<at[1] + 1, l>>] \in V
      <4> HIDE DEF W, p, l
      <4> QED BY <3>2, <3>3
    <3>5. Beyond(rows, at, f) \in V
      <4> HIDE DEF V, D
      <4> QED BY <2>1, <3>3, <3>4 DEF Beyond
    <3> HIDE DEF V, D
    <3> QED BY <2>1, <2>3, <3>5 DEF EyeStep
  <2> QED
    BY <2>2, <2>3
<1>5. ASSUME NEW at \in D, NEW f \in [D -> V], NEW h \in [D -> V],
             \A d \in D : rank[d] < rank[at] => f[d] = h[d]
      PROVE  EyeStep(rows, at, f) = EyeStep(rows, at, h)
  <2>1. CASE at[2] = 0 \/ at[1] > n
    BY <2>1 DEF EyeStep
  <2>2. CASE ~(at[2] = 0 \/ at[1] > n)
    <3>1. at[1] <= n /\ at[1] \in Nat
      <4>1. at[1] \in 1..(n + 1)
        BY <1>3
      <4> HIDE DEF n
      <4> QED BY <1>1, <2>2, <4>1
    <3>2. \A l : <<at[1] + 1, l>> \in D => f[<<at[1] + 1, l>>] = h[<<at[1] + 1, l>>]
      <4> TAKE l
      <4> HAVE <<at[1] + 1, l>> \in D
      <4>1. <<at[1] + 1, l>>[1] = at[1] + 1
        OBVIOUS
      <4>2. rank[<<at[1] + 1, l>>] = n + 1 - (at[1] + 1) /\ rank[at] = n + 1 - at[1]
        <5> HIDE DEF D, n
        <5> QED BY <4>1
      <4>3. rank[<<at[1] + 1, l>>] < rank[at]
        <5> HIDE DEF rank, n
        <5> QED BY <1>1, <3>1, <4>2
      <4> HIDE DEF D, rank
      <4> QED BY <1>5, <4>3
    <3>3. Beyond(rows, at, f) = Beyond(rows, at, h)
      <4> HIDE DEF D, n
      <4> QED BY <1>3, <3>1, <3>2 DEF Beyond
    <3> QED
      BY <3>3 DEF EyeStep
  <2> QED
    BY <2>1, <2>2
<1>6. \A x \in D \X [D -> V] : F[x] = EyeStep(rows, x[1], x[2])
  <2> HIDE DEF D, V, rows
  <2> QED OBVIOUS
<1>7. \A at \in D : \A f \in [D -> V] : F[<<at, f>>] = EyeStep(rows, at, f)
  <2> TAKE at \in D
  <2> TAKE f \in [D -> V]
  <2>1. <<at, f>> \in D \X [D -> V] /\ <<at, f>>[1] = at /\ <<at, f>>[2] = f
    <3> HIDE DEF D, V
    <3> QED OBVIOUS
  <2> HIDE DEF F, D, V, rows
  <2> QED BY <1>6, <2>1
<1>8. Recursion(D, V, F, rank)
  <2>1. rank \in [D -> Nat] /\ \A at \in D : rank[at] < n + 1
    <3>1. \A at \in D : n + 1 - at[1] \in Nat /\ n + 1 - at[1] < n + 1
      <4> TAKE at \in D
      <4>1. at[1] \in 1..(n + 1)
        BY <1>3
      <4> HIDE DEF n
      <4> QED BY <1>1, <4>1
    <3> HIDE DEF D, n
    <3> QED BY <3>1
  <2>2. F \in [D \X [D -> V] -> V]
    <3>1. \A x \in D \X [D -> V] : EyeStep(rows, x[1], x[2]) \in V
      <4> HIDE DEF D, V
      <4> QED BY <1>4
    <3> HIDE DEF D, V, rows
    <3> QED BY <3>1
  <2>3. <<>> \in V /\ n + 1 \in Nat
    BY <1>1
  <2> HIDE DEF D, V, F, rank, n, rows
  <2>4. \A at \in D : \A f, h \in [D -> V] :
          (\A d \in D : rank[d] < rank[at] => f[d] = h[d]) => F[<<at, f>>] = F[<<at, h>>]
    BY <1>5, <1>7
  <2> QED
    BY <2>1, <2>2, <2>3, <2>4 DEF Recursion
<1>9. PICK f \in [D -> V] : \A at \in D : f[at] = F[<<at, f>>]
  <2>1. Solvable(D, V, F)
    <3> HIDE DEF D, V, F, rank
    <3> QED BY <1>8, SolvedByRank
  <2> QED
    BY <2>1 DEF Solvable
<1>10. Follows(f, rows, count)
  <2>1. \A at \in D : f[at] = EyeStep(rows, at, f)
    <3> HIDE DEF D, V, F, rows
    <3> QED BY <1>7, <1>9
  <2>2. f = [at \in D |-> f[at]]
    <3> HIDE DEF D, V, F
    <3> QED BY <1>9
  <2> HIDE DEF V, F, rows
  <2>3. f = [at \in D |-> EyeStep(rows, at, f)]
    <3> HIDE DEF D
    <3> QED BY <2>1, <2>2
  <2> QED
    BY <2>3 DEF Follows
<1> QED
  <2> HIDE DEF rows, count
  <2>1. Follows(CHOOSE h : Follows(h, rows, count), rows, count)
    BY <1>10
  <2> QED
    BY <1>2, <2>1 DEF rows, count

----------------------------------------------------------------------------
(* The eye goes down to the row below.                                    *)

\* The lines of one row.
RowLines(rows, g, at, k) ==
    /\ CommitLine(rows[at[k]], g, k) /\ at[k] \in 1..(Len(rows) - 1)
    /\ Joined(Rows(g)[k]) = {} => at[k] = at[k - 1] + 1
    /\ Joined(Rows(g)[k]) # {} =>
         /\ at[k] = at[k - 1] + 2 /\ JunctionLine(rows[at[k] - 1], g, k)
         /\ at[k] - 1 \in 1..(Len(rows) - 1)

\* What the rows and lines of a readable group are.
LEMMA Lines ==
  ASSUME NEW rows, NEW g, NEW at, NEW q, Readable(rows, g, at, q)
  PROVE  /\ DOMAIN q = 1..Len(q) /\ Len(q) \in Nat /\ Len(Rows(g)) = Len(q)
         /\ DOMAIN Lanes(g) = 1..Len(Lanes(g)) /\ Len(Lanes(g)) \in Nat
         /\ at[0] = 0 /\ (\A k \in 0..Len(q) : at[k] \in Nat)
         /\ DOMAIN rows = 1..Len(rows) /\ Len(rows) \in Nat /\ Len(rows) = at[Len(q)] + 1
         /\ TrunkLine(rows[Len(rows)], g) /\ Listed(rows, g, Len(q), at)
         /\ \A k \in DOMAIN q :
              /\ Rows(g)[k].lane = LaneOf(Lanes(g), q[k]) /\ Rows(g)[k].lane \in DOMAIN Lanes(g)
              /\ RowLines(rows, g, at, k)
<1>1. RowsFrom(q, g) /\ Arranged /\ g \in DOMAIN groups /\ Separate(Lanes(g)) /\ Complete(rows, g, at)
  BY DEF Readable
<1>2. /\ DOMAIN q = 1..Len(q) /\ Len(q) \in Nat /\ Len(Rows(g)) = Len(q)
      /\ \A k \in DOMAIN q : Rows(g)[k].lane = LaneOf(Lanes(g), q[k])
  <2>1. DOMAIN q = 1..Len(Rows(g)) /\ Len(q) = Len(Rows(g)) /\ Len(Rows(g)) \in Nat
    BY <1>1, RowIs
  <2>2. \A k \in DOMAIN q : Rows(g)[k].lane = LaneOf(Lanes(g), q[k])
    BY <1>1, RowIs
  <2> QED
    BY <2>1, <2>2
<1>3. \A k \in DOMAIN q : LaneOf(Lanes(g), q[k]) \in DOMAIN Lanes(g)
  BY <1>1, TraversalIs DEF RowsFrom
<1>4. DOMAIN Lanes(g) = 1..Len(Lanes(g)) /\ Len(Lanes(g)) \in Nat
  BY <1>1 DEF Separate, Lanelike
<1>5. /\ at[0] = 0 /\ Len(rows) = at[Len(q)] + 1 /\ DOMAIN rows = 1..Len(rows)
      /\ TrunkLine(rows[Len(rows)], g) /\ Listed(rows, g, Len(q), at)
  BY <1>1, <1>2 DEF Complete
<1> DEFINE n == Len(q)
<1> HIDE DEF n
<1>6. n \in Nat /\ Listed(rows, g, n, at) /\ Len(rows) = at[n] + 1
  BY <1>2, <1>5 DEF n
<1>7. (\A k \in 0..n : at[k] \in Nat) /\ Len(rows) \in Nat
  BY <1>6 DEF Listed
<1>8. ASSUME NEW k \in 1..n
      PROVE  RowLines(rows, g, at, k)
  <2>1. at[k] = at[k - 1] + Height(g, k) /\ CommitLine(rows[at[k]], g, k)
    BY <1>6 DEF Listed
  <2>2. Joined(Rows(g)[k]) # {} => JunctionLine(rows[at[k] - 1], g, k)
    BY <1>6 DEF Listed
  <2>3. k - 1 \in 0..n /\ k \in 0..n /\ n \in 0..n
    BY <1>6
  <2>4. at[k] \in Nat /\ at[k - 1] \in Nat /\ at[n] \in Nat
    BY <1>7, <2>3
  <2>5. at[k] <= at[n]
    <3>1. CASE k = n
      BY <2>4, <3>1
    <3>2. CASE k # n
      <4>1. k < n
        BY <1>6, <3>2
      <4>2. at[k] < at[n]
        BY <1>6, <2>3, <4>1, LinesRise
      <4> QED
        BY <2>4, <4>2
    <3> QED
      BY <3>1, <3>2
  <2>6. Height(g, k) = IF Joined(Rows(g)[k]) = {} THEN 1 ELSE 2
    BY DEF Height
  <2>7. CASE Joined(Rows(g)[k]) = {}
    <3>1. at[k] = at[k - 1] + 1
      BY <2>1, <2>6, <2>7
    <3>2. at[k] \in 1..(Len(rows) - 1)
      BY <1>6, <2>4, <2>5, <3>1
    <3> QED
      BY <2>1, <2>7, <3>1, <3>2 DEF RowLines
  <2>8. CASE Joined(Rows(g)[k]) # {}
    <3>1. at[k] = at[k - 1] + 2
      BY <2>1, <2>6, <2>8
    <3>2. at[k] \in 1..(Len(rows) - 1) /\ at[k] - 1 \in 1..(Len(rows) - 1)
      <4> DEFINE a == at[k - 1]
                 b == at[k]
                 c == at[n]
      <4>1. a \in Nat /\ b \in Nat /\ c \in Nat /\ b = a + 2 /\ b <= c /\ Len(rows) = c + 1
        BY <1>6, <2>4, <2>5, <3>1
      <4> HIDE DEF a, b, c
      <4>2. b \in 1..(Len(rows) - 1) /\ b - 1 \in 1..(Len(rows) - 1)
        BY <4>1
      <4> QED
        BY <4>2 DEF b
    <3> QED
      BY <2>1, <2>2, <2>8, <3>1, <3>2 DEF RowLines
  <2> QED
    BY <2>7, <2>8
<1> QED
  BY <1>2, <1>3, <1>4, <1>5, <1>7, <1>8 DEF n

\* Where the eye goes on from a line.
Eye(f, rows, i, l) ==
    /\ rows[i].kind # "trunk" /\ Glyph(rows[i], l) = "commit" =>
         f[<<i, l>>] = <<rows[i].label>> \o f[<<i + 1, l>>]
    /\ rows[i].kind # "trunk" /\ Glyph(rows[i], l) \in {"line", "fork"} => f[<<i, l>>] = f[<<i + 1, l>>]
    /\ rows[i].kind # "trunk" /\ Glyph(rows[i], l) \in {"tee", "end"} =>
         f[<<i, l>>] = f[<<i + 1, LedTo(rows[i], l)>>]
    /\ rows[i].kind = "trunk" /\ Glyph(rows[i], l) \in {"tee", "end"} => f[<<i, l>>] = <<>>

LEMMA EyeSees ==
  ASSUME NEW rows, NEW count \in Nat, NEW f, Follows(f, rows, count), Len(rows) \in Nat,
         NEW i \in 1..Len(rows), NEW l \in 1..count
  PROVE  Eye(f, rows, i, l)
<1> DEFINE at == <<i, l>>
<1>1. at \in Spots(rows, count) /\ at[1] = i /\ at[2] = l
  BY DEF Spots
<1>2. f[at] = EyeStep(rows, at, f)
  <2>1. f = [p \in Spots(rows, count) |-> EyeStep(rows, p, f)]
    BY DEF Follows
  <2> HIDE DEF at
  <2> QED
    BY <1>1, <2>1
<1>3. i <= Len(rows) /\ l # 0 /\ ~(i > Len(rows))
  OBVIOUS
<1> HIDE DEF at
<1>4. CASE rows[i].kind = "trunk"
  <2>1. Glyph(rows[i], l) \in {"tee", "end"} => f[at] = <<>>
    BY <1>1, <1>2, <1>3, <1>4 DEF EyeStep
  <2> QED
    BY <1>4, <2>1 DEF Eye, at
<1>5. CASE rows[i].kind # "trunk"
  <2>1. f[at] = Beyond(rows, at, f)
    BY <1>1, <1>2, <1>3, <1>5 DEF EyeStep
  <2>2. f[at] = CASE Glyph(rows[i], l) = "commit" -> <<rows[i].label>> \o f[<<i + 1, l>>]
                  [] Glyph(rows[i], l) \in {"line", "fork"} -> f[<<i + 1, l>>]
                  [] Glyph(rows[i], l) \in {"tee", "end"} -> f[<<i + 1, LedTo(rows[i], l)>>]
                  [] OTHER -> <<Broken>>
    BY <1>1, <2>1 DEF Beyond
  <2> DEFINE G == Glyph(rows[i], l)
             A == <<rows[i].label>> \o f[<<i + 1, l>>]
             B == f[<<i + 1, l>>]
             C == f[<<i + 1, LedTo(rows[i], l)>>]
             d == f[at]
  <2>3. d = CASE G = "commit" -> A [] G \in {"line", "fork"} -> B [] G \in {"tee", "end"} -> C
              [] OTHER -> <<Broken>>
    BY <2>2
  <2> HIDE DEF G, A, B, C, d
  <2>4. (G = "commit" => d = A) /\ (G \in {"line", "fork"} => d = B) /\ (G \in {"tee", "end"} => d = C)
    BY <2>3
  <2> QED
    BY <1>5, <2>4 DEF Eye, at, G, A, B, C, d
<1> QED
  BY <1>4, <1>5

\* A lane that waits for a row further down is a line in the rows between.
LEMMA LinesBetween ==
  ASSUME NEW rows, NEW g, NEW at, NEW q, Readable(rows, g, at, q),
         NEW i \in DOMAIN q, NEW j, IsBelow(q, i, j), NEW m \in DOMAIN q, i < m, m < j
  PROVE  LET l == Rows(g)[i].lane
         IN  /\ Glyph(rows[at[m]], l) = "line"
             /\ Joined(Rows(g)[m]) # {} => Glyph(rows[at[m] - 1], l) = "line"
<1> DEFINE l == Rows(g)[i].lane
           k == Rows(g)[m].lane
<1>1. RowsFrom(q, g) /\ Arranged /\ g \in DOMAIN groups /\ Separate(Lanes(g))
  BY DEF Readable
<1>2. Traversal(q, Lanes(g))
  BY <1>1 DEF RowsFrom
<1>3. /\ l = LaneOf(Lanes(g), q[i]) /\ k = LaneOf(Lanes(g), q[m]) /\ l \in DOMAIN Lanes(g)
      /\ k \in DOMAIN Lanes(g) /\ DOMAIN Lanes(g) = 1..Len(Lanes(g))
      /\ DOMAIN q = 1..Len(q) /\ Len(q) \in Nat
      /\ CommitLine(rows[at[m]], g, m)
  BY Lines DEF RowLines
<1>4. Joined(Rows(g)[m]) # {} => JunctionLine(rows[at[m] - 1], g, m)
  BY Lines DEF RowLines
<1>5. j \in 1..(Len(q) + 1) /\ LaneOf(Lanes(g), q[i]) < LaneOf(Lanes(g), q[m])
  BY <1>2, UntilBelow
<1>6. l < k /\ l # k
  BY <1>3, <1>5
<1>7. m \in (i + 1)..j /\ m + 1 \in (i + 1)..j
  BY <1>3, <1>5
<1>8. l \in Alive(g, m) /\ l \in Alive(g, m + 1)
  <2>1. \A x \in (i + 1)..j : LaneOf(Lanes(g), q[i]) \in Alive(g, x)
    BY <1>1, WaitsBelow
  <2> QED
    BY <1>3, <1>7, <2>1
<1> HIDE DEF l, k
<1>9. Glyph(rows[at[m]], l) = "line"
  BY <1>3, <1>6, <1>8 DEF CommitLine, k
<1>10. ASSUME Joined(Rows(g)[m]) # {} PROVE Glyph(rows[at[m] - 1], l) = "line"
  <2>1. l \notin Joined(Rows(g)[m])
    <3>1. \A c \in Joined(Rows(g)[m]) : k <= c
      BY <1>1, JoinedAre DEF k
    <3> QED
      BY <1>3, <1>6, <3>1
  <2>2. JunctionLine(rows[at[m] - 1], g, m)
    BY <1>4, <1>10
  <2> DEFINE p == rows[at[m] - 1]
  <2>3. JunctionLine(p, g, m)
    BY <2>2
  <2> HIDE DEF p
  <2>4. Leads(p, g, m, l)
    BY <1>1, <1>3, <1>10, <2>3, JunctionShows
  <2> QED
    BY <1>8, <2>1, <2>4 DEF Leads, p
<1> QED
  BY <1>9, <1>10 DEF l

\* What the eye sees from rows[i] on, with a lane.
Eyed(f, rows, g, at, q) == Readable(rows, g, at, q) /\ Follows(f, rows, Len(Lanes(g)))

LEMMA EyeOn ==
  ASSUME NEW f, NEW rows, NEW g, NEW at, NEW q, Eyed(f, rows, g, at, q),
         NEW i \in 1..Len(rows), NEW l \in DOMAIN Lanes(g)
  PROVE  Eye(f, rows, i, l)
<1>1. Readable(rows, g, at, q) /\ Follows(f, rows, Len(Lanes(g)))
  BY DEF Eyed
<1>2. Len(rows) \in Nat /\ Len(Lanes(g)) \in Nat /\ l \in 1..Len(Lanes(g))
  BY <1>1, Lines
<1> QED
  BY <1>1, <1>2, EyeSees

\* The eye falls from a row to the line above the row that is below it.
LEMMA Falls ==
  ASSUME NEW f, NEW rows, NEW g, NEW at, NEW q, Eyed(f, rows, g, at, q),
         NEW i \in DOMAIN q, NEW j \in 1..(Len(q) + 1), IsBelow(q, i, j), i < j
  PROVE  f[<<at[i] + 1, Rows(g)[i].lane>>] = f[<<at[j - 1] + 1, Rows(g)[i].lane>>]
<1> DEFINE l == Rows(g)[i].lane
           S == {m \in (i + 1)..j : f[<<at[i] + 1, l>>] # f[<<at[m - 1] + 1, l>>]}
<1>1. Readable(rows, g, at, q)
  BY DEF Eyed
<1>2. DOMAIN q = 1..Len(q) /\ Len(q) \in Nat /\ l \in DOMAIN Lanes(g) /\ \A k \in 0..Len(q) : at[k] \in Nat
  BY <1>1, Lines
<1>3. S = {}
  <2> SUFFICES ASSUME S # {} PROVE FALSE
    OBVIOUS
  <2>1. S \in SUBSET Nat
    BY <1>2
  <2>2. PICK m \in S : \A x \in S : m <= x
    <3> HIDE DEF S
    <3> QED BY <2>1, LeastNatural
  <2>3. m \in (i + 1)..j /\ f[<<at[i] + 1, l>>] # f[<<at[m - 1] + 1, l>>]
    OBVIOUS
  <2>4. m - 1 \notin S /\ m \in Nat /\ i \in Nat
    BY <1>2, <2>2, <2>3
  <2>5. m # i + 1
    <3> SUFFICES ASSUME m = i + 1 PROVE FALSE
      OBVIOUS
    <3>1. m - 1 = i
      BY <2>4
    <3>2. at[m - 1] = at[i]
      BY <3>1
    <3> QED BY <2>3, <3>2
  <2>6. m - 1 \in (i + 1)..j
    BY <1>2, <2>3, <2>4, <2>5
  <2>7. f[<<at[i] + 1, l>>] = f[<<at[(m - 1) - 1] + 1, l>>]
    BY <2>4, <2>6
  <2> DEFINE r == m - 1
  <2>8. r \in DOMAIN q /\ i < r /\ r < j /\ r - 1 \in 0..Len(q)
    BY <1>2, <2>3, <2>4, <2>5
  <2> HIDE DEF r
  <2>9. /\ Glyph(rows[at[r]], l) = "line"
        /\ Joined(Rows(g)[r]) # {} => Glyph(rows[at[r] - 1], l) = "line"
    BY <1>1, <2>8, LinesBetween
  <2>10. RowLines(rows, g, at, r) /\ Len(rows) \in Nat
    BY <1>1, <2>8, Lines
  <2> HIDE DEF l
  <2>11. f[<<at[r], l>>] = f[<<at[r] + 1, l>>]
    <3>1. at[r] \in 1..Len(rows) /\ rows[at[r]].kind # "trunk"
      BY <2>10 DEF RowLines, CommitLine
    <3>2. Eye(f, rows, at[r], l)
      BY <1>2, <3>1, EyeOn
    <3> QED
      BY <2>9, <3>1, <3>2 DEF Eye
  <2>12. f[<<at[r - 1] + 1, l>>] = f[<<at[r] + 1, l>>]
    <3>1. CASE Joined(Rows(g)[r]) = {}
      BY <2>10, <2>11, <3>1 DEF RowLines
    <3>2. CASE Joined(Rows(g)[r]) # {}
      <4> DEFINE k == at[r] - 1
      <4>1. k \in 1..Len(rows) /\ rows[k].kind # "trunk" /\ Glyph(rows[k], l) = "line"
        BY <2>9, <2>10, <3>2 DEF RowLines, JunctionLine
      <4>2. k + 1 = at[r] /\ k = at[r - 1] + 1
        <5>1. at[r - 1] \in Nat
          BY <1>2, <2>8
        <5> DEFINE a == at[r]
                   b == at[r - 1]
        <5>2. a = b + 2 /\ b \in Nat
          BY <2>10, <3>2, <5>1 DEF RowLines
        <5>3. a - 1 + 1 = a /\ a - 1 = b + 1
          <6> HIDE DEF a, b
          <6> QED BY <5>2
        <5> QED BY <5>3
      <4> HIDE DEF k
      <4>3. Eye(f, rows, k, l)
        BY <1>2, <4>1, EyeOn
      <4>4. f[<<k, l>>] = f[<<k + 1, l>>]
        BY <4>1, <4>3 DEF Eye
      <4> QED
        BY <2>11, <4>2, <4>4
    <3> QED
      BY <3>1, <3>2
  <2> QED
    BY <2>3, <2>7, <2>12 DEF r
<1>4. j \in (i + 1)..j
  BY <1>2
<1> QED
  BY <1>3, <1>4

\* The eye lands on the row below.
LEMMA Lands ==
  ASSUME NEW f, NEW rows, NEW g, NEW at, NEW q, Eyed(f, rows, g, at, q),
         NEW i \in DOMAIN q, NEW j \in DOMAIN q, IsBelow(q, i, j)
  PROVE  f[<<at[j - 1] + 1, Rows(g)[i].lane>>] = f[<<at[j], Rows(g)[j].lane>>]
<1> DEFINE l == Rows(g)[i].lane
           k == Rows(g)[j].lane
           lanes == Lanes(g)
<1>1. Readable(rows, g, at, q)
  BY DEF Eyed
<1>2. RowsFrom(q, g) /\ Arranged /\ g \in DOMAIN groups /\ Separate(Lanes(g)) /\ Traversal(q, Lanes(g))
  BY <1>1 DEF Readable, RowsFrom
<1>3. /\ DOMAIN q = 1..Len(q) /\ Len(q) \in Nat /\ l \in DOMAIN lanes /\ k \in DOMAIN lanes
      /\ l = LaneOf(lanes, q[i]) /\ k = LaneOf(lanes, q[j]) /\ RowLines(rows, g, at, j)
      /\ \A x \in 0..Len(q) : at[x] \in Nat
      /\ Len(rows) \in Nat
  BY <1>1, Lines
<1>4. q[i] \in Nodes(lanes) /\ q[j] \in Nodes(lanes) /\ q[i] \in Upper(lanes, q[j])
  <2>1. q[i] \in Nodes(lanes) /\ q[j] \in Nodes(lanes)
    BY <1>2, TraversalIs
  <2> QED
    BY <2>1 DEF IsBelow, Upper
<1>5. at[j - 1] \in Nat /\ at[j] \in Nat
  <2>1. j - 1 \in 0..Len(q) /\ j \in 0..Len(q)
    BY <1>3
  <2> QED
    BY <1>3, <2>1
<1> HIDE DEF l, k, lanes
<1>6. CASE Joined(Rows(g)[j]) = {}
  <2>1. \A u, v \in Upper(lanes, q[j]) : u = v
    BY <1>2, <1>6, RowIs DEF lanes
  <2>2. k \in LanesUpon(lanes, q[j])
    BY <1>2, <1>3, <1>4, LaneFromAbove DEF lanes
  <2>3. PICK u \in Upper(lanes, q[j]) : k = LaneOf(lanes, u)
    BY <2>2 DEF LanesUpon
  <2>4. k = l
    BY <1>3, <1>4, <2>1, <2>3
  <2>5. at[j] = at[j - 1] + 1
    BY <1>3, <1>6 DEF RowLines
  <2> QED
    BY <2>4, <2>5 DEF l, k
<1>7. CASE Joined(Rows(g)[j]) # {}
  <2>1. l \in Joined(Rows(g)[j])
    <3>1. Joined(Rows(g)[j]) = LanesUpon(lanes, q[j])
      BY <1>2, <1>7, RowIs DEF lanes
    <3> QED
      BY <1>3, <1>4, <3>1 DEF LanesUpon
  <2> DEFINE y == at[j] - 1
             p == rows[y]
  <2>2. /\ JunctionLine(p, g, j) /\ y \in 1..Len(rows) /\ y + 1 = at[j] /\ y = at[j - 1] + 1
    <3>1. at[j] = at[j - 1] + 2 /\ JunctionLine(p, g, j) /\ y \in 1..(Len(rows) - 1)
      BY <1>3, <1>7 DEF RowLines
    <3> DEFINE a == at[j]
               b == at[j - 1]
    <3>2. a = b + 2 /\ b \in Nat /\ a \in Nat
      BY <1>5, <3>1
    <3>3. a - 1 + 1 = a /\ a - 1 = b + 1
      <4> HIDE DEF a, b
      <4> QED BY <3>2
    <3>4. y \in 1..Len(rows)
      BY <1>3, <3>1
    <3> QED
      BY <3>1, <3>3, <3>4
  <2> HIDE DEF y, p
  <2>3. p.kind # "trunk"
    BY <2>2 DEF JunctionLine
  <2>4. Eye(f, rows, y, l)
    BY <1>3, <2>2, EyeOn DEF lanes
  <2>5. /\ l = k => Glyph(p, l) = "fork"
        /\ l # k => Glyph(p, l) \in {"tee", "end"} /\ LedTo(p, l) = k
    <3>1. l \in DOMAIN Lanes(g)
      BY <1>3 DEF lanes
    <3>2. Leads(p, g, j, l)
      BY <1>2, <1>7, <2>2, <3>1, JunctionShows
    <3> QED
      BY <2>1, <3>2 DEF Leads, k
  <2>6. f[<<y, l>>] = f[<<y + 1, k>>]
    <3>1. CASE l = k
      BY <2>3, <2>4, <2>5, <3>1 DEF Eye, p
    <3>2. CASE l # k
      BY <2>3, <2>4, <2>5, <3>2 DEF Eye, p
    <3> QED
      BY <3>1, <3>2
  <2> QED
    BY <2>2, <2>6 DEF l, k
<1> QED
  BY <1>6, <1>7

\* Above the base it rests.
LEMMA RestsOn ==
  ASSUME NEW f, NEW rows, NEW g, NEW at, NEW q, Eyed(f, rows, g, at, q),
         NEW i \in DOMAIN q, IsBelow(q, i, Len(q) + 1)
  PROVE  f[<<at[Len(q)] + 1, Rows(g)[i].lane>>] = <<>>
<1> DEFINE l == Rows(g)[i].lane
           lanes == Lanes(g)
<1>1. Readable(rows, g, at, q)
  BY DEF Eyed
<1>2. RowsFrom(q, g) /\ Arranged /\ g \in DOMAIN groups /\ Separate(Lanes(g)) /\ Traversal(q, Lanes(g))
      /\ \A x \in DOMAIN Lanes(g) : Len(Contents(Lanes(g)[x])) > 0
  BY <1>1 DEF Readable, RowsFrom
<1>3. /\ DOMAIN q = 1..Len(q) /\ Len(q) \in Nat /\ l \in DOMAIN lanes /\ l = LaneOf(lanes, q[i])
      /\ Len(rows) = at[Len(q)] + 1 /\ TrunkLine(rows[Len(rows)], g) /\ Len(rows) \in Nat
      /\ \A x \in 0..Len(q) : at[x] \in Nat
  BY <1>1, Lines
<1>4. l \in ToSet(prepared[g].roots)
  <2>1. q[i] \in Nodes(lanes) /\ q[i] \in Seq(Identities(lanes))
    BY <1>2, TraversalIs
  <2>2. Len(q) + 1 \notin DOMAIN q
    BY <1>3
  <2>3. Len(q[i]) = 1
    BY <2>2 DEF IsBelow
  <2>4. IsPrefix(<<>>, q[i])
    <3> DEFINE n == q[i]
               X == Identities(lanes)
    <3>1. n \in Seq(X)
      BY <2>1
    <3> HIDE DEF n, X
    <3>2. IsPrefix(<<>>, n)
      BY <3>1, PrefixFacts
    <3> QED BY <3>2 DEF n
  <2>5. q[i] \in Upper(lanes, <<>>)
    BY <2>1, <2>3, <2>4 DEF Upper
  <2>6. l \in LanesUpon(lanes, <<>>)
    BY <1>3, <2>5 DEF LanesUpon
  <2>7. ToSet(prepared[g].roots) = LanesUpon(Lanes(g), <<>>)
    BY <1>2, RootsAre
  <2> QED
    BY <2>6, <2>7
<1> HIDE DEF l, lanes
<1>5. at[Len(q)] \in Nat
  BY <1>3
<1> DEFINE y == Len(rows)
           p == rows[y]
<1>6. y \in 1..Len(rows) /\ y = at[Len(q)] + 1 /\ TrunkLine(p, g)
  BY <1>3, <1>5
<1> HIDE DEF y, p
<1>7. Eye(f, rows, y, l)
  BY <1>3, <1>6, EyeOn DEF lanes
<1>8. Glyph(p, l) \in {"tee", "end"} /\ p.kind = "trunk"
  <2>1. Glyph(p, l) \in {"tee", "end"} <=> l \in ToSet(prepared[g].roots)
    BY <1>2, <1>3, <1>6, TrunkShows DEF lanes
  <2> QED
    BY <1>4, <1>6, <2>1 DEF TrunkLine
<1> QED
  BY <1>6, <1>7, <1>8 DEF Eye, p, l

\* A row is the beginning of the path of its lane.
LEMMA RowOnPath ==
  ASSUME NEW lanes, NEW q, Traversal(q, lanes), NEW i \in DOMAIN q
  PROVE  /\ LaneOf(lanes, q[i]) \in DOMAIN lanes /\ Len(q[i]) \in Nat \ {0}
         /\ Len(q[i]) <= Len(Contents(lanes[LaneOf(lanes, q[i])]))
         /\ \A k \in 1..Len(q[i]) : q[i][k] = PathOf(lanes[LaneOf(lanes, q[i])])[k]
<1>1. Lanelike(lanes) /\ q[i] \in Nodes(lanes) /\ Len(q[i]) \in Nat \ {0}
  BY TraversalIs
<1> DEFINE n == q[i]
           X == Identities(lanes)
           l == LaneOf(lanes, n)
           path == PathOf(lanes[l])
<1>2. l \in DOMAIN lanes /\ IsPrefix(n, path) /\ n \in Seq(X)
  BY <1>1, NodeLane
<1>3. path \in Seq(X) /\ Len(path) = Len(Contents(lanes[l]))
  BY <1>1, <1>2, PathIs
<1>4. Len(n) <= Len(path) /\ \A k \in 1..Len(n) : n[k] = path[k]
  <2> HIDE DEF n, X, path
  <2> QED BY <1>2, <1>3, PrefixIs
<1> QED
  BY <1>1, <1>2, <1>3, <1>4

\* Below a row the eye reads what its lane has below it.
Reads(f, g, at, q, k) ==
    f[<<at[k], Rows(g)[k].lane>>] = Reading(Lanes(g)[Rows(g)[k].lane], Len(q[k]))

LEMMA ReadsOn ==
  ASSUME NEW f, NEW rows, NEW g, NEW at, NEW q, Eyed(f, rows, g, at, q), Together(ToSet(Lanes(g))),
         NEW i \in DOMAIN q, \A k \in DOMAIN q : i < k => Reads(f, g, at, q, k)
  PROVE  Reads(f, g, at, q, i)
<1> DEFINE l == Rows(g)[i].lane
           lanes == Lanes(g)
           lane == lanes[l]
<1>1. Readable(rows, g, at, q)
  BY DEF Eyed
<1>2. RowsFrom(q, g) /\ Arranged /\ g \in DOMAIN groups /\ Separate(lanes) /\ Traversal(q, lanes)
      /\ Lanelike(lanes)
  BY <1>1 DEF Readable, RowsFrom, Separate
<1>3. /\ DOMAIN q = 1..Len(q) /\ Len(q) \in Nat /\ l \in DOMAIN lanes /\ l = LaneOf(lanes, q[i])
      /\ RowLines(rows, g, at, i) /\ Len(rows) \in Nat
  BY <1>1, Lines
<1>4. PICK j \in 1..(Len(q) + 1) : IsBelow(q, i, j)
  BY <1>2, HasBelow
<1>5. i < j
  BY <1>2, <1>4, UntilBelow
<1>6. Len(q[i]) \in 1..Len(Contents(lane)) /\ rows[at[i]].label = Mark(Contents(lane)[Len(q[i])])
  <2>1. /\ <<Rows(g)[i].rewritten, Commit(g, Rows(g)[i])>> = Mark(Contents(lane)[Len(q[i])])
        /\ Len(q[i]) \in 1..Len(Contents(lane))
    BY <1>2, <1>3, RowReads
  <2>2. rows[at[i]].label = <<Rows(g)[i].rewritten, Commit(g, Rows(g)[i])>>
    BY <1>3 DEF RowLines, CommitLine
  <2> QED
    BY <2>1, <2>2
<1>7. f[<<at[i], l>>] = <<rows[at[i]].label>> \o f[<<at[i] + 1, l>>]
  <2>1. /\ rows[at[i]].kind # "trunk" /\ at[i] \in 1..Len(rows) /\ Glyph(rows[at[i]], l) = "commit"
    BY <1>3 DEF RowLines, CommitLine
  <2>2. Eye(f, rows, at[i], l)
    BY <1>3, <2>1, EyeOn
  <2> QED
    BY <2>1, <2>2 DEF Eye
<1>8. f[<<at[i] + 1, l>>] = f[<<at[j - 1] + 1, l>>]
  BY <1>4, <1>5, Falls
<1> DEFINE m == Len(q[i]) - 1
<1>9. m \in Nat /\ m + 1 = Len(q[i])
  <2>1. Len(q[i]) \in Nat \ {0}
    BY <1>2, RowOnPath
  <2> QED
    BY <2>1
<1>10. f[<<at[j - 1] + 1, l>>] = Reading(lane, m)
  <2>1. CASE j \in DOMAIN q
    <3> DEFINE k == Rows(g)[j].lane
    <3>1. f[<<at[j - 1] + 1, l>>] = f[<<at[j], k>>]
      BY <1>4, <2>1, Lands
    <3>2. f[<<at[j], k>>] = Reading(lanes[k], Len(q[j]))
      BY <1>3, <1>5, <2>1 DEF Reads
    <3>3. Len(q[i]) = Len(q[j]) + 1 /\ IsPrefix(q[j], q[i])
      BY <1>4, <2>1 DEF IsBelow
    <3>4. k = LaneOf(lanes, q[j])
      BY <1>1, <2>1, Lines
    <3>5. /\ k \in DOMAIN lanes /\ Len(q[j]) \in Nat \ {0} /\ Len(q[j]) <= Len(Contents(lanes[k]))
          /\ \A x \in 1..Len(q[j]) : q[j][x] = PathOf(lanes[k])[x]
      BY <1>2, <2>1, <3>4, RowOnPath
    <3>6. /\ Len(q[i]) \in Nat \ {0} /\ Len(q[i]) <= Len(Contents(lane))
          /\ \A x \in 1..Len(q[i]) : q[i][x] = PathOf(lane)[x]
      BY <1>2, <1>3, RowOnPath
    <3>7. Len(q[j]) = m
      BY <1>9, <3>3, <3>5
    <3>8. \A x \in 1..Len(q[j]) : q[j][x] = q[i][x]
      <4> DEFINE X == Identities(lanes)
                 u == q[j]
                 v == q[i]
      <4>1. u \in Seq(X) /\ v \in Seq(X) /\ IsPrefix(u, v)
        BY <1>2, <2>1, <3>3, TraversalIs
      <4> HIDE DEF X, u, v
      <4>2. \A x \in 1..Len(u) : u[x] = v[x]
        BY <4>1, PrefixIs
      <4> QED
        BY <4>2 DEF u, v
    <3>9. \A x \in 1..m : PathOf(lanes[k])[x] = PathOf(lanes[l])[x]
      <4> DEFINE big == Len(q[i])
                 N == 1..big
                 M == 1..m
      <4>1. M \subseteq N
        <5>1. big = m + 1 /\ m \in Nat
          BY <1>9
        <5> HIDE DEF big, m
        <5> QED BY <5>1
      <4>2. \A x \in M : q[j][x] = PathOf(lanes[k])[x] /\ q[j][x] = q[i][x]
        BY <3>5, <3>7, <3>8
      <4>3. \A x \in N : q[i][x] = PathOf(lanes[l])[x]
        BY <3>6
      <4> HIDE DEF M, N
      <4>4. \A x \in M : PathOf(lanes[k])[x] = PathOf(lanes[l])[x]
        BY <4>1, <4>2, <4>3
      <4> QED
        BY <4>4 DEF M
    <3>10. m <= Len(Contents(lanes[k])) /\ m <= Len(Contents(lanes[l]))
      <4>1. m <= Len(Contents(lanes[k]))
        BY <3>5, <3>7
      <4>2. Len(Contents(lanes[l])) \in Nat
        BY <1>2, <1>3, PathListed
      <4> QED
        BY <1>6, <1>9, <4>1, <4>2
    <3> HIDE DEF m, k, l
    <3>11. Reading(lanes[k], m) = Reading(lanes[l], m)
      BY <1>2, <1>3, <1>9, <3>5, <3>9, <3>10, SameReading
    <3> QED
      BY <3>1, <3>2, <3>7, <3>11
  <2>2. CASE j \notin DOMAIN q
    <3>1. j = Len(q) + 1 /\ Len(q[i]) = 1
      BY <1>4, <2>2 DEF IsBelow
    <3>2. j - 1 = Len(q) /\ m = 0
      BY <1>3, <3>1
    <3>3. f[<<at[Len(q)] + 1, l>>] = <<>>
      BY <1>4, <3>1, RestsOn
    <3>4. Reading(lane, 0) = <<>>
      BY ReadingMore
    <3> HIDE DEF m, l
    <3> QED
      BY <3>2, <3>3, <3>4
  <2> QED
    BY <2>1, <2>2
<1>11. Reading(lane, m + 1) = <<Mark(Contents(lane)[m + 1])>> \o Reading(lane, m)
  BY <1>9, ReadingMore
<1> HIDE DEF m, l, lane
<1>12. f[<<at[i], l>>] = Reading(lane, Len(q[i]))
  BY <1>6, <1>7, <1>8, <1>9, <1>10, <1>11
<1> QED
  BY <1>12 DEF Reads, l, lane, lanes

LEMMA ReadsAll ==
  ASSUME NEW f, NEW rows, NEW g, NEW at, NEW q, Eyed(f, rows, g, at, q), Together(ToSet(Lanes(g)))
  PROVE  \A k \in DOMAIN q : Reads(f, g, at, q, k)
<1> DEFINE S == {k \in DOMAIN q : ~Reads(f, g, at, q, k)}
<1>1. DOMAIN q = 1..Len(q) /\ Len(q) \in Nat
  BY Lines DEF Eyed
<1>2. S \in SUBSET (1..Len(q)) /\ IsFiniteSet(1..Len(q))
  BY <1>1, FS_Interval
<1>3. S = {}
  <2> SUFFICES ASSUME S # {} PROVE FALSE
    OBVIOUS
  <2>1. IsFiniteSet(S)
    BY <1>2, FS_Subset
  <2>2. S \in SUBSET Int
    BY <1>1, <1>2
  <2>3. PICK i \in S : \A k \in S : i >= k
    <3> HIDE DEF S
    <3>1. Max(S) \in S /\ \A k \in S : Max(S) >= k
      BY <2>1, <2>2, MaxIs
    <3> QED BY <3>1
  <2>4. i \in DOMAIN q /\ ~Reads(f, g, at, q, i)
    OBVIOUS
  <2>5. \A k \in DOMAIN q : i < k => Reads(f, g, at, q, k)
    <3> TAKE k \in DOMAIN q
    <3> HAVE i < k
    <3>1. ~(i >= k)
      BY <1>1, <2>4
    <3> QED
      BY <2>3, <3>1
  <2> QED
    BY <2>4, <2>5, ReadsOn
<1> QED
  BY <1>3

----------------------------------------------------------------------------
(* A group that is drawn as a whole reads as its lanes do.                *)

\* Every line is a row, a junction above one, or the base.
LEMMA WhichLine ==
  ASSUME NEW rows, NEW g, NEW at, NEW q, Readable(rows, g, at, q), NEW i \in DOMAIN rows
  PROVE  \/ i = Len(rows)
         \/ \E k \in DOMAIN q : i = at[k] \/ (i = at[k] - 1 /\ Joined(Rows(g)[k]) # {})
<1> DEFINE n == Len(q)
<1>1. /\ DOMAIN q = 1..n /\ n \in Nat /\ Listed(rows, g, n, at) /\ at[0] = 0 /\ at[n] \in Nat
      /\ DOMAIN rows = 1..Len(rows) /\ Len(rows) \in Nat /\ Len(rows) = at[n] + 1
  <2>1. /\ DOMAIN q = 1..n /\ n \in Nat /\ Listed(rows, g, n, at) /\ at[0] = 0
        /\ DOMAIN rows = 1..Len(rows) /\ Len(rows) \in Nat /\ Len(rows) = at[n] + 1
        /\ \A k \in 0..n : at[k] \in Nat
    BY Lines
  <2>2. n \in 0..n
    BY <2>1
  <2> QED
    BY <2>1, <2>2
<1> HIDE DEF n
<1>2. CASE i # Len(rows)
  <2>1. i \in (at[0] + 1)..at[n]
    BY <1>1, <1>2
  <2>2. \E k \in 1..n : i = at[k] \/ (i = at[k] - 1 /\ Joined(Rows(g)[k]) # {})
    <3>1. n \in Nat /\ Listed(rows, g, n, at)
      BY <1>1
    <3> QED
      BY <2>1, <3>1, EveryLine
  <2> QED
    BY <1>1, <2>2
<1> QED
  BY <1>2

\* The topmost row of a lane is its head.
LEMMA HeadRow ==
  ASSUME NEW rows, NEW g, NEW at, NEW q, Readable(rows, g, at, q), NEW l \in DOMAIN Lanes(g)
  PROVE  \E k \in DOMAIN q :
           /\ Rows(g)[k].lane = l /\ Len(q[k]) = Len(Contents(Lanes(g)[l]))
           /\ \A m \in DOMAIN q : Rows(g)[m].lane = l => k <= m
<1> DEFINE lanes == Lanes(g)
           path == PathOf(lanes[l])
           X == Identities(lanes)
           size == Len(Contents(lanes[l]))
<1>1. RowsFrom(q, g) /\ Separate(lanes) /\ Lanelike(lanes) /\ Traversal(q, lanes) /\ size > 0
  BY DEF Readable, RowsFrom, Separate
<1>2. path \in Seq(X) /\ Len(path) = size /\ size \in Nat
  BY <1>1, PathListed
<1>3. /\ DOMAIN q = 1..Len(q) /\ Len(q) \in Nat
      /\ \A k \in DOMAIN q : Rows(g)[k].lane = LaneOf(lanes, q[k])
  BY Lines
<1>4. path \in Nodes(lanes)
  <2> DEFINE part == SubSeq(path, 1, size)
  <2>1. size \in 1..size
    BY <1>1, <1>2
  <2>2. part \in Nodes(lanes) /\ Len(part) = size /\ IsPrefix(part, path)
    BY <1>1, <2>1, BeginningsOfPaths
  <2>3. part \in Seq(X)
    BY <1>1, <2>2, NodeLane
  <2> HIDE DEF part, path, X, size
  <2>4. part = path
    BY <1>2, <2>2, <2>3, PrefixFacts
  <2> QED
    BY <2>2, <2>4
<1>5. PICK k \in DOMAIN q : q[k] = path
  BY <1>1, <1>4, TraversalIs
<1>6. LaneOf(lanes, path) = l
  <2>1. LaneOf(lanes, path) \in DOMAIN lanes /\ IsPrefix(path, PathOf(lanes[LaneOf(lanes, path)]))
    BY <1>1, <1>4, NodeLane
  <2> QED
    BY <1>1, <2>1 DEF Separate
<1>7. ASSUME NEW m \in DOMAIN q, Rows(g)[m].lane = l PROVE k <= m
  <2>1. q[m] \in Nodes(lanes) /\ LaneOf(lanes, q[m]) = l
    BY <1>1, <1>3, <1>7, TraversalIs
  <2>2. IsPrefix(q[m], path)
    BY <1>1, <2>1, NodeLane
  <2>3. ~(m < k)
    <3>1. m < k => ~IsPrefix(q[m], q[k])
      BY <1>1, <1>5, <1>7 DEF Traversal, Traverses
    <3> QED
      BY <1>5, <2>2, <3>1
  <2> QED
    BY <1>3, <2>3
<1> QED
  BY <1>2, <1>3, <1>5, <1>6, <1>7

\* The rows in which a lane has its commits.
Commits(rows, l) ==
    {i \in DOMAIN rows : rows[i].kind = "commit" /\ Glyph(rows[i], l) = "commit"}

LEMMA CommitsAre ==
  ASSUME NEW rows, NEW g, NEW at, NEW q, Readable(rows, g, at, q), NEW l \in DOMAIN Lanes(g)
  PROVE  /\ \A k \in DOMAIN q : Rows(g)[k].lane = l => at[k] \in Commits(rows, l)
         /\ \A i \in Commits(rows, l) : \E k \in DOMAIN q : i = at[k] /\ Rows(g)[k].lane = l
<1>1. /\ \A k \in DOMAIN q : RowLines(rows, g, at, k)
      /\ TrunkLine(rows[Len(rows)], g) /\ DOMAIN rows = 1..Len(rows) /\ Len(rows) \in Nat
  BY Lines
<1>2. ASSUME NEW k \in DOMAIN q, Rows(g)[k].lane = l PROVE at[k] \in Commits(rows, l)
  <2>1. RowLines(rows, g, at, k)
    BY <1>1
  <2>2. CommitLine(rows[at[k]], g, k) /\ at[k] \in 1..Len(rows)
    BY <1>1, <2>1 DEF RowLines
  <2>3. rows[at[k]].kind = "commit" /\ Glyph(rows[at[k]], l) = "commit"
    BY <1>2, <2>2 DEF CommitLine
  <2> QED
    BY <1>1, <2>2, <2>3 DEF Commits
<1>3. ASSUME NEW i \in Commits(rows, l)
      PROVE  \E k \in DOMAIN q : i = at[k] /\ Rows(g)[k].lane = l
  <2>1. i \in DOMAIN rows /\ rows[i].kind = "commit" /\ Glyph(rows[i], l) = "commit"
    BY DEF Commits
  <2>2. i # Len(rows)
    BY <1>1, <2>1 DEF TrunkLine
  <2>3. PICK k \in DOMAIN q : i = at[k] \/ (i = at[k] - 1 /\ Joined(Rows(g)[k]) # {})
    BY <2>1, <2>2, WhichLine
  <2>4. i = at[k]
    <3>1. CASE i = at[k] - 1 /\ Joined(Rows(g)[k]) # {}
      <4>1. JunctionLine(rows[at[k] - 1], g, k)
        BY <1>1, <3>1 DEF RowLines
      <4>2. rows[i].kind = "junction"
        BY <3>1, <4>1 DEF JunctionLine
      <4> QED
        BY <2>1, <4>2
    <3> QED
      BY <2>3, <3>1
  <2>5. CommitLine(rows[i], g, k)
    BY <1>1, <2>4 DEF RowLines
  <2>6. Rows(g)[k].lane = l
    BY <2>1, <2>5 DEF CommitLine
  <2> QED
    BY <2>4, <2>6
<1> QED
  BY <1>2, <1>3

\* From its topmost commit the eye reads a lane.
LEMMA LaneIsRead ==
  ASSUME NEW f, NEW rows, NEW g, NEW at, NEW q, Eyed(f, rows, g, at, q), Together(ToSet(Lanes(g))),
         NEW l \in DOMAIN Lanes(g)
  PROVE  Commits(rows, l) # {} /\ f[<<Min(Commits(rows, l)), l>>] = Shown(Lanes(g)[l])
<1>1. Readable(rows, g, at, q)
  BY DEF Eyed
<1>2. PICK k \in DOMAIN q :
           /\ Rows(g)[k].lane = l /\ Len(q[k]) = Len(Contents(Lanes(g)[l]))
           /\ \A m \in DOMAIN q : Rows(g)[m].lane = l => k <= m
  BY <1>1, HeadRow
<1> DEFINE S == Commits(rows, l)
<1>3. at[k] \in S /\ \A i \in S : \E m \in DOMAIN q : i = at[m] /\ Rows(g)[m].lane = l
  BY <1>1, <1>2, CommitsAre
<1>4. /\ DOMAIN q = 1..Len(q) /\ Len(q) \in Nat /\ Listed(rows, g, Len(q), at)
      /\ DOMAIN rows = 1..Len(rows) /\ Len(rows) \in Nat /\ \A m \in 0..Len(q) : at[m] \in Nat
  <2>1. DOMAIN q = 1..Len(q) /\ Len(q) \in Nat /\ Listed(rows, g, Len(q), at)
    BY <1>1, Lines
  <2>2. DOMAIN rows = 1..Len(rows) /\ Len(rows) \in Nat
    BY <1>1, Lines
  <2>3. \A m \in 0..Len(q) : at[m] \in Nat
    BY <1>1, Lines
  <2> QED
    BY <2>1, <2>2, <2>3
<1>5. S \in SUBSET (1..Len(rows)) /\ IsFiniteSet(1..Len(rows))
  BY <1>4, FS_Interval DEF Commits
<1>6. \A i \in S : at[k] <= i /\ i \in Nat
  <2> TAKE i \in S
  <2>1. PICK m \in DOMAIN q : i = at[m] /\ Rows(g)[m].lane = l
    BY <1>3
  <2>2. k <= m /\ m \in 0..Len(q) /\ k \in 0..Len(q)
    BY <1>2, <1>4, <2>1
  <2>3. at[k] \in Nat /\ at[m] \in Nat
    BY <1>4, <2>2
  <2>4. CASE k = m
    BY <2>1, <2>3, <2>4
  <2>5. CASE k # m
    <3>1. k < m
      BY <2>2, <2>5
    <3>2. at[k] < at[m]
      BY <1>4, <2>2, <3>1, LinesRise
    <3> QED
      BY <2>1, <2>3, <3>2
  <2> QED
    BY <2>4, <2>5
<1> HIDE DEF S
<1>7. IsFiniteSet(S) /\ S \in SUBSET Int
  <2>1. IsFiniteSet(S)
    BY <1>5, FS_Subset
  <2> QED
    BY <1>5, <2>1
<1>8. Min(S) = at[k]
  <2> DEFINE a == Min(S)
             b == at[k]
  <2>1. a \in S /\ \A i \in S : a <= i
    BY <1>3, <1>7, MinIs
  <2>2. a <= b /\ b <= a /\ a \in Int /\ b \in Int
    BY <1>3, <1>6, <1>7, <2>1
  <2> HIDE DEF a, b
  <2>3. a = b
    BY <2>2
  <2> QED
    BY <2>3 DEF a, b
<1>9. Reads(f, g, at, q, k)
  BY ReadsAll
<1>10. Reading(Lanes(g)[l], Len(Contents(Lanes(g)[l]))) = Shown(Lanes(g)[l])
  <2>1. Lanelike(Lanes(g))
    BY <1>1 DEF Readable, Separate
  <2>2. IsSequence(Lanes(g)[l].points) /\ IsSequence(Lanes(g)[l].rewritten)
    BY <2>1 DEF Lanelike
  <2> QED
    BY <2>2, ReadingWhole
<1> QED
  BY <1>2, <1>3, <1>8, <1>9, <1>10 DEF Reads, S

\* A lane that is active above a row was so in the row before.
LEMMA HangsFrom ==
  ASSUME NEW rows, NEW g, NEW at, NEW q, Readable(rows, g, at, q),
         NEW k \in 1..(Len(q) + 1), NEW l \in Alive(g, k), l \in DOMAIN Lanes(g)
  PROVE  at[k - 1] \in Nat \ {0} /\ Glyph(rows[at[k - 1]], l) \in {"commit", "line"}
<1>1. /\ DOMAIN q = 1..Len(q) /\ Len(q) \in Nat
      /\ \A m \in DOMAIN q : RowLines(rows, g, at, m)
      /\ Len(rows) \in Nat
  BY Lines
<1>2. k # 1
  <2>1. Alive(g, 1) = {}
    BY AliveNext
  <2> QED
    BY <2>1
<1> DEFINE m == k - 1
<1>3. m \in DOMAIN q /\ m + 1 = k
  BY <1>1, <1>2
<1> HIDE DEF m
<1>4. CommitLine(rows[at[m]], g, m) /\ at[m] \in Nat \ {0}
  BY <1>1, <1>3 DEF RowLines
<1>5. Glyph(rows[at[m]], l) \in {"commit", "line"}
  BY <1>3, <1>4 DEF CommitLine
<1> QED
  BY <1>4, <1>5 DEF m

\* Nothing hangs in the air.
LEMMA NothingHangs ==
  ASSUME NEW rows, NEW g, NEW at, NEW q, Readable(rows, g, at, q),
         NEW i \in DOMAIN rows, NEW l \in DOMAIN Lanes(g),
         Glyph(rows[i], l) \in {"line", "fork", "tee", "end"}
  PROVE  i > 1 /\ Glyph(rows[i - 1], l) \in {"commit", "line", "fork"}
<1>1. /\ Arranged /\ g \in DOMAIN groups /\ Separate(Lanes(g)) /\ RowsFrom(q, g)
      /\ \A x \in DOMAIN Lanes(g) : Len(Contents(Lanes(g)[x])) > 0
  BY DEF Readable
<1>2. /\ DOMAIN q = 1..Len(q) /\ Len(q) \in Nat
      /\ \A k \in DOMAIN q : RowLines(rows, g, at, k)
      /\ TrunkLine(rows[Len(rows)], g) /\ Len(rows) = at[Len(q)] + 1 /\ Len(rows) \in Nat
      /\ \A k \in 0..Len(q) : at[k] \in Nat
  BY Lines
<1>3. ASSUME NEW k \in 1..(Len(q) + 1), l \in Alive(g, k), i = at[k - 1] + 1
      PROVE  i > 1 /\ Glyph(rows[i - 1], l) \in {"commit", "line", "fork"}
  <2> DEFINE a == at[k - 1]
  <2>1. a \in Nat \ {0} /\ Glyph(rows[a], l) \in {"commit", "line"} /\ i = a + 1
    BY <1>3, HangsFrom
  <2> HIDE DEF a
  <2>2. i > 1 /\ i - 1 = a
    BY <2>1
  <2> QED
    BY <2>1, <2>2
<1>4. CASE i = Len(rows)
  <2>1. TrunkLine(rows[i], g)
    BY <1>2, <1>4
  <2>2. l \in Alive(g, Len(q) + 1)
    BY <1>1, <2>1, TrunkShows
  <2>3. Len(q) + 1 \in 1..(Len(q) + 1) /\ (Len(q) + 1) - 1 = Len(q)
    BY <1>2
  <2> QED
    BY <1>2, <1>3, <1>4, <2>2, <2>3
<1>5. ASSUME NEW k \in DOMAIN q, i = at[k] - 1, Joined(Rows(g)[k]) # {}
      PROVE  i > 1 /\ Glyph(rows[i - 1], l) \in {"commit", "line", "fork"}
  <2>1. RowLines(rows, g, at, k)
    BY <1>2
  <2>2. JunctionLine(rows[i], g, k) /\ at[k] = at[k - 1] + 2
    BY <1>5, <2>1 DEF RowLines
  <2>3. Leads(rows[i], g, k, l)
    BY <1>1, <1>5, <2>2, JunctionShows
  <2>4. l \in Alive(g, k)
    <3>1. Glyph(rows[i], l) = "line" => l \in Alive(g, k)
      BY <2>3 DEF Leads
    <3>2. Glyph(rows[i], l) \in {"fork", "tee", "end"} => l \in Joined(Rows(g)[k])
      BY <2>3 DEF Leads
    <3>3. \A c \in Joined(Rows(g)[k]) : c \in Alive(g, k)
      BY <1>1, JoinedAre
    <3> QED
      BY <3>1, <3>2, <3>3
  <2>5. k \in 1..(Len(q) + 1) /\ i = at[k - 1] + 1
    <3>1. k - 1 \in 0..Len(q) /\ k \in 1..(Len(q) + 1)
      BY <1>2
    <3> DEFINE a == at[k - 1]
               b == at[k]
    <3>2. a \in Nat /\ b = a + 2 /\ i = b - 1
      BY <1>2, <1>5, <2>2, <3>1
    <3> HIDE DEF a, b
    <3>3. i = a + 1
      BY <3>2
    <3> QED
      BY <3>1, <3>3 DEF a
  <2> QED
    BY <1>3, <2>4, <2>5
<1>6. ASSUME NEW k \in DOMAIN q, i = at[k]
      PROVE  i > 1 /\ Glyph(rows[i - 1], l) \in {"commit", "line", "fork"}
  <2>1. RowLines(rows, g, at, k)
    BY <1>2
  <2>2. CommitLine(rows[i], g, k)
    BY <1>6, <2>1 DEF RowLines
  <2>3. l # Rows(g)[k].lane /\ l \in Alive(g, k + 1)
    BY <2>2 DEF CommitLine
  <2>4. l \in Alive(g, k) /\ l \notin Joined(Rows(g)[k])
    <3>1. k \in Nat \ {0}
      BY <1>2
    <3>2. Alive(g, k + 1) = {Rows(g)[k].lane} \cup (Alive(g, k) \ Joined(Rows(g)[k]))
      BY <3>1, AliveNext
    <3> QED
      BY <2>3, <3>2
  <2>5. k \in 1..(Len(q) + 1)
    BY <1>2
  <2>6. CASE Joined(Rows(g)[k]) = {}
    <3>1. i = at[k - 1] + 1
      BY <1>6, <2>1, <2>6 DEF RowLines
    <3> QED
      BY <1>3, <2>4, <2>5, <3>1
  <2>7. CASE Joined(Rows(g)[k]) # {}
    <3> DEFINE y == at[k] - 1
               p == rows[y]
    <3>1. JunctionLine(p, g, k) /\ y \in 1..(Len(rows) - 1) /\ y = i - 1
      BY <1>6, <2>1, <2>7 DEF RowLines
    <3> HIDE DEF y, p
    <3>2. Leads(p, g, k, l)
      BY <1>1, <2>7, <3>1, JunctionShows
    <3>3. Glyph(p, l) = "line"
      BY <2>4, <3>2 DEF Leads
    <3>4. at[k] \in 1..(Len(rows) - 1)
      BY <2>1 DEF RowLines
    <3>5. i > 1
      BY <1>2, <1>6, <3>1, <3>4
    <3> QED
      BY <3>1, <3>3, <3>5 DEF p
  <2> QED
    BY <2>6, <2>7
<1> QED
  BY <1>4, <1>5, <1>6, WhichLine

\* Two rows are not read alike.
LEMMA RowsReadApart ==
  ASSUME NEW f, NEW rows, NEW g, NEW at, NEW q, Eyed(f, rows, g, at, q), Together(ToSet(Lanes(g))),
         NEW k \in DOMAIN q, NEW m \in DOMAIN q,
         f[<<at[k], Rows(g)[k].lane>>] = f[<<at[m], Rows(g)[m].lane>>]
  PROVE  k = m
<1> DEFINE lanes == Lanes(g)
           i == LaneOf(lanes, q[k])
           j == LaneOf(lanes, q[m])
           u == q[k]
           v == q[m]
           X == Identities(lanes)
<1>1. Readable(rows, g, at, q)
  BY DEF Eyed
<1>2. Lanelike(lanes) /\ Traversal(q, lanes)
  BY <1>1 DEF Readable, RowsFrom, Separate
<1>3. Rows(g)[k].lane = i /\ Rows(g)[m].lane = j
  BY <1>1, Lines
<1>4. Reads(f, g, at, q, k) /\ Reads(f, g, at, q, m)
  BY ReadsAll
<1>5. Reading(lanes[i], Len(u)) = Reading(lanes[j], Len(v))
  BY <1>3, <1>4 DEF Reads
<1>6. /\ i \in DOMAIN lanes /\ Len(u) \in Nat \ {0} /\ Len(u) <= Len(Contents(lanes[i]))
      /\ \A x \in 1..Len(u) : u[x] = PathOf(lanes[i])[x]
  BY <1>2, RowOnPath
<1>7. /\ j \in DOMAIN lanes /\ Len(v) \in Nat \ {0} /\ Len(v) <= Len(Contents(lanes[j]))
      /\ \A x \in 1..Len(v) : v[x] = PathOf(lanes[j])[x]
  BY <1>2, RowOnPath
<1>8. u \in Seq(X) /\ v \in Seq(X) /\ (u = v => k = m)
  BY <1>2, TraversalIs
<1> HIDE DEF u, v, i, j, lanes, X
<1>9. Len(u) = Len(v) /\ \A x \in 1..Len(u) : PathOf(lanes[i])[x] = PathOf(lanes[j])[x]
  BY <1>2, <1>5, <1>6, <1>7, ReadingTells
<1>10. \A x \in 1..Len(u) : u[x] = v[x]
  BY <1>6, <1>7, <1>9
<1>11. u = v
  BY <1>8, <1>9, <1>10
<1> QED
  BY <1>8, <1>11

\* What is to be shown of one group.
Traced(rows, f, g) ==
    LET lowest == {c \in (DOMAIN rows) \X (DOMAIN Lanes(g)) : c[1] \in Commits(rows, c[2])}
    IN  /\ \A l \in DOMAIN Lanes(g) :
               Commits(rows, l) # {} /\ f[<<Min(Commits(rows, l)), l>>] = Shown(Lanes(g)[l])
        /\ \A i \in DOMAIN rows : \A l \in DOMAIN Lanes(g) :
               Glyph(rows[i], l) \in {"line", "fork", "tee", "end"} =>
                   i > 1 /\ Glyph(rows[i - 1], l) \in {"commit", "line", "fork"}
        /\ \A a, b \in lowest : a # b => f[a] # f[b]

LEMMA GroupIsTraced ==
  ASSUME NEW f, NEW rows, NEW g, NEW at, NEW q, Eyed(f, rows, g, at, q), Together(ToSet(Lanes(g)))
  PROVE  Traced(rows, f, g)
<1> DEFINE lowest == {c \in (DOMAIN rows) \X (DOMAIN Lanes(g)) : c[1] \in Commits(rows, c[2])}
<1>1. Readable(rows, g, at, q)
  BY DEF Eyed
<1>2. \A l \in DOMAIN Lanes(g) :
        Commits(rows, l) # {} /\ f[<<Min(Commits(rows, l)), l>>] = Shown(Lanes(g)[l])
  BY LaneIsRead
<1>3. \A i \in DOMAIN rows : \A l \in DOMAIN Lanes(g) :
        Glyph(rows[i], l) \in {"line", "fork", "tee", "end"} =>
            i > 1 /\ Glyph(rows[i - 1], l) \in {"commit", "line", "fork"}
  BY <1>1, NothingHangs
<1>4. \A c \in lowest : \E k \in DOMAIN q : c = <<at[k], Rows(g)[k].lane>>
  <2> TAKE c \in lowest
  <2>1. c = <<c[1], c[2]>> /\ c[2] \in DOMAIN Lanes(g) /\ c[1] \in Commits(rows, c[2])
    OBVIOUS
  <2>2. PICK k \in DOMAIN q : c[1] = at[k] /\ Rows(g)[k].lane = c[2]
    BY <1>1, <2>1, CommitsAre
  <2> QED
    BY <2>1, <2>2
<1>5. ASSUME NEW a \in lowest, NEW b \in lowest, f[a] = f[b] PROVE a = b
  <2> HIDE DEF lowest
  <2>1. PICK k \in DOMAIN q : a = <<at[k], Rows(g)[k].lane>>
    BY <1>4
  <2>2. PICK m \in DOMAIN q : b = <<at[m], Rows(g)[m].lane>>
    BY <1>4
  <2>3. k = m
    BY <1>5, <2>1, <2>2, RowsReadApart
  <2> QED
    BY <2>1, <2>2, <2>3
<1> HIDE DEF lowest
<1>6. \A a, b \in lowest : a # b => f[a] # f[b]
  BY <1>5
<1> QED
  BY <1>2, <1>3, <1>6 DEF Traced, lowest

\* The lines of the rows lie between those of the first and the last.
LEMMA LinesWithin ==
  ASSUME NEW lines, NEW g, NEW n \in Nat, NEW at, Listed(lines, g, n, at), NEW k \in 0..n
  PROVE  at[0] <= at[k] /\ at[k] <= at[n] /\ at[k] \in Nat /\ at[0] \in Nat /\ at[n] \in Nat
<1>1. at[k] \in Nat /\ at[0] \in Nat /\ at[n] \in Nat /\ 0 \in 0..n /\ n \in 0..n
  <2>1. 0 \in 0..n /\ n \in 0..n
    OBVIOUS
  <2> QED
    BY <2>1 DEF Listed
<1>2. at[0] <= at[k]
  <2>1. CASE k = 0
    BY <1>1, <2>1
  <2>2. CASE k # 0
    <3>1. 0 < k
      BY <2>2
    <3>2. at[0] < at[k]
      BY <1>1, <3>1, LinesRise
    <3> QED
      BY <1>1, <3>2
  <2> QED
    BY <2>1, <2>2
<1>3. at[k] <= at[n]
  <2>1. CASE k = n
    BY <1>1, <2>1
  <2>2. CASE k # n
    <3>1. k < n
      BY <2>2
    <3>2. at[k] < at[n]
      BY <1>1, <3>1, LinesRise
    <3> QED
      BY <1>1, <3>2
  <2> QED
    BY <2>1, <2>2
<1> QED
  BY <1>1, <1>2, <1>3

\* Lines that are drawn stay.
LEMMA ListedStays ==
  ASSUME NEW whole, NEW lines, NEW more, Extends(whole, lines, more),
         NEW g, NEW n \in Nat, NEW at, Listed(lines, g, n, at), at[n] <= Len(lines)
  PROVE  Listed(whole, g, n, at)
<1>1. Len(lines) \in Nat /\ \A i \in 1..Len(lines) : whole[i] = lines[i]
  BY DEF Extends
<1>2. ASSUME NEW k \in 1..n
      PROVE  /\ at[k] = at[k - 1] + Height(g, k)
             /\ CommitLine(whole[at[k]], g, k)
             /\ Joined(Rows(g)[k]) # {} => JunctionLine(whole[at[k] - 1], g, k)
  <2>1. /\ at[k] = at[k - 1] + Height(g, k)
        /\ CommitLine(lines[at[k]], g, k)
        /\ Joined(Rows(g)[k]) # {} => JunctionLine(lines[at[k] - 1], g, k)
    BY DEF Listed
  <2>2. k \in 0..n /\ k - 1 \in 0..n
    OBVIOUS
  <2>3. at[k] \in Nat /\ at[k - 1] \in Nat /\ at[k] <= at[n] /\ at[n] \in Nat
    BY <2>2, LinesWithin
  <2>4. at[k] \in 1..Len(lines)
    <3>1. Height(g, k) \in {1, 2}
      BY DEF Height
    <3> QED
      BY <1>1, <2>1, <2>3, <3>1
  <2>5. Joined(Rows(g)[k]) # {} => at[k] - 1 \in 1..Len(lines)
    <3> SUFFICES ASSUME Joined(Rows(g)[k]) # {} PROVE at[k] - 1 \in 1..Len(lines)
      OBVIOUS
    <3>1. Height(g, k) = 2
      BY DEF Height
    <3> QED
      BY <1>1, <2>1, <2>3, <2>4, <3>1
  <2>6. whole[at[k]] = lines[at[k]]
    BY <1>1, <2>4
  <2>7. Joined(Rows(g)[k]) # {} => whole[at[k] - 1] = lines[at[k] - 1]
    BY <1>1, <2>5
  <2> QED
    BY <2>1, <2>6, <2>7
<1>3. at \in [0..n -> Nat]
  BY DEF Listed
<1> QED
  BY <1>2, <1>3 DEF Listed

\* The next row.
LEMMA ListedNext ==
  ASSUME NEW lines, NEW g, NEW n \in Nat \ {0}, NEW at, Listed(lines, g, n - 1, at),
         NEW end, end = at[n - 1] + Height(g, n), CommitLine(lines[end], g, n),
         Joined(Rows(g)[n]) # {} => JunctionLine(lines[end - 1], g, n)
  PROVE  \E to : Listed(lines, g, n, to) /\ to[0] = at[0] /\ to[n] = end
<1> DEFINE to == [k \in 0..n |-> IF k = n THEN end ELSE at[k]]
<1>1. \A k \in 0..(n - 1) : to[k] = at[k] /\ at[k] \in Nat
  BY DEF Listed
<1>2. to[n] = end /\ n - 1 \in 0..(n - 1) /\ 0 \in 0..(n - 1)
  OBVIOUS
<1>3. end \in Nat
  <2>1. Height(g, n) \in Nat /\ at[n - 1] \in Nat
    BY <1>1, <1>2 DEF Height
  <2> QED
    BY <2>1
<1>4. to \in [0..n -> Nat]
  <2>1. \A k \in 0..n : k \in 0..(n - 1) \/ k = n
    OBVIOUS
  <2>2. \A k \in 0..n : to[k] \in Nat
    BY <1>1, <1>2, <1>3, <2>1
  <2>3. to = [k \in 0..n |-> to[k]]
    OBVIOUS
  <2> QED
    BY <2>2, <2>3
<1> HIDE DEF to
<1>5. ASSUME NEW k \in 1..n
      PROVE  /\ to[k] = to[k - 1] + Height(g, k)
             /\ CommitLine(lines[to[k]], g, k)
             /\ Joined(Rows(g)[k]) # {} => JunctionLine(lines[to[k] - 1], g, k)
  <2>1. CASE k = n
    <3>1. k - 1 = n - 1
      BY <2>1
    <3>2. to[k - 1] = at[n - 1]
      BY <1>1, <1>2, <3>1
    <3> QED
      BY <1>2, <2>1, <3>2
  <2>2. CASE k # n
    <3>1. k \in 1..(n - 1) /\ k - 1 \in 0..(n - 1) /\ k \in 0..(n - 1)
      BY <2>2
    <3>2. /\ at[k] = at[k - 1] + Height(g, k)
          /\ CommitLine(lines[at[k]], g, k)
          /\ Joined(Rows(g)[k]) # {} => JunctionLine(lines[at[k] - 1], g, k)
      BY <3>1 DEF Listed
    <3>3. to[k] = at[k] /\ to[k - 1] = at[k - 1]
      BY <1>1, <3>1
    <3> QED
      BY <3>2, <3>3
  <2> QED
    BY <2>1, <2>2
<1>6. Listed(lines, g, n, to)
  BY <1>4, <1>5 DEF Listed
<1> QED
  BY <1>1, <1>2, <1>6

\* Lines of the rows of a group.
RowKinds == {"commit", "junction", "trunk"}

Of(p, h) == p.group = h /\ p.kind \in RowKinds

Bare(lines) == IsSequence(lines) /\ \A i \in DOMAIN lines : lines[i].kind \notin RowKinds

LEMMA PartStays ==
  ASSUME NEW whole, NEW lines, NEW more, Extends(whole, lines, more), NEW h,
         \A i \in DOMAIN more : ~Of(more[i], h)
  PROVE  Part(whole, h) = Part(lines, h)
<1>1. \A i \in DOMAIN lines : i \in DOMAIN whole /\ whole[i] = lines[i]
  BY KindsStay
<1>2. \A i \in DOMAIN whole \ DOMAIN lines : i - Len(lines) \in DOMAIN more /\ whole[i] = more[i - Len(lines)]
  BY KindsStay
<1>3. Part(whole, h) = {i \in DOMAIN whole : Of(whole[i], h)}
      /\ Part(lines, h) = {i \in DOMAIN lines : Of(lines[i], h)}
  BY DEF Part, Of, RowKinds
<1>4. \A i \in DOMAIN whole \ DOMAIN lines : ~Of(whole[i], h)
  BY <1>2
<1> QED
  BY <1>1, <1>3, <1>4

LEMMA PartMore ==
  ASSUME NEW whole, NEW lines, NEW p, Extends(whole, lines, <<p>>), NEW h, Of(p, h)
  PROVE  Part(whole, h) = Part(lines, h) \cup {Len(lines) + 1}
<1> DEFINE m == Len(lines) + 1
<1>1. /\ DOMAIN whole = DOMAIN lines \cup {m} /\ whole[m] = p
      /\ \A i \in DOMAIN lines : whole[i] = lines[i]
  BY OneBelow DEF OneMore
<1>3. Part(whole, h) = {i \in DOMAIN whole : Of(whole[i], h)}
      /\ Part(lines, h) = {i \in DOMAIN lines : Of(lines[i], h)}
  BY DEF Part, Of, RowKinds
<1> HIDE DEF m
<1>4. Part(whole, h) = Part(lines, h) \cup {m}
  BY <1>1, <1>3
<1> QED
  BY <1>4 DEF m

\* A group that is drawn as a whole.
FinishedIn(lines, h) ==
    LET n == Len(Rows(h))
    IN  \E at : /\ Listed(lines, h, n, at) /\ at[n] + 1 \in DOMAIN lines
                /\ Part(lines, h) = (at[0] + 1)..(at[n] + 1)
                /\ TrunkLine(lines[at[n] + 1], h)

LEMMA FinishedStays ==
  ASSUME NEW whole, NEW lines, NEW more, Extends(whole, lines, more), NEW h,
         \A i \in DOMAIN more : ~Of(more[i], h), Len(Rows(h)) \in Nat, FinishedIn(lines, h)
  PROVE  FinishedIn(whole, h)
<1> DEFINE n == Len(Rows(h))
<1>1. PICK at : /\ Listed(lines, h, n, at) /\ at[n] + 1 \in DOMAIN lines
                /\ Part(lines, h) = (at[0] + 1)..(at[n] + 1)
                /\ TrunkLine(lines[at[n] + 1], h)
  BY DEF FinishedIn
<1> HIDE DEF n
<1>2. n \in Nat
  BY DEF n
<1>3. /\ DOMAIN lines = 1..Len(lines) /\ Len(lines) \in Nat
      /\ \A i \in DOMAIN lines : i \in DOMAIN whole /\ whole[i] = lines[i]
  BY KindsStay DEF Extends
<1>4. n \in 0..n
  BY <1>2
<1>5. at[n] \in Nat
  BY <1>1, <1>2, <1>4, LinesWithin
<1>6. at[n] <= Len(lines)
  BY <1>1, <1>3, <1>5
<1>7. Listed(whole, h, n, at)
  BY <1>1, <1>2, <1>6, ListedStays
<1>8. Part(whole, h) = Part(lines, h)
  BY PartStays
<1> QED
  BY <1>1, <1>3, <1>7, <1>8 DEF FinishedIn, n

----------------------------------------------------------------------------
(* What a finished group looks like from its first line on.                *)

\* The lines of a group that is finished.
LEMMA DrawnIs ==
  ASSUME IsSequence(picture), NEW h, Len(Rows(h)) \in Nat, FinishedIn(picture, h)
  PROVE  \E at : Complete(Drawn(h), h, at)
<1> DEFINE n == Len(Rows(h))
           rows == Drawn(h)
<1>1. PICK to : /\ Listed(picture, h, n, to) /\ to[n] + 1 \in DOMAIN picture
                /\ Part(picture, h) = (to[0] + 1)..(to[n] + 1)
                /\ TrunkLine(picture[to[n] + 1], h)
  BY DEF FinishedIn
<1>2. DOMAIN picture = 1..Len(picture) /\ Len(picture) \in Nat /\ picture \in Seq(ToSet(picture))
  BY DEF IsSequence
<1> DEFINE a == to[0]
           b == to[n]
<1>3. rows = SubSeq(picture, Min((a + 1)..(b + 1)), Max((a + 1)..(b + 1)))
  BY <1>1 DEF Drawn
<1> HIDE DEF n, rows, a, b
<1>4. n \in Nat /\ Listed(picture, h, n, to) /\ b + 1 \in DOMAIN picture
  BY <1>1 DEF n, b
<1>5. a \in Nat /\ b \in Nat /\ a <= b /\ \A k \in 0..n : to[k] \in Nat /\ a <= to[k]
  <2>1. n \in 0..n
    BY <1>4
  <2>2. \A k \in 0..n : to[0] <= to[k] /\ to[k] \in Nat /\ to[0] \in Nat
    BY <1>4, LinesWithin
  <2> QED
    BY <2>1, <2>2 DEF a, b
<1>6. Min((a + 1)..(b + 1)) = a + 1 /\ Max((a + 1)..(b + 1)) = b + 1
  <2> DEFINE S == (a + 1)..(b + 1)
  <2>0. a \in Nat /\ b \in Nat /\ a <= b
    BY <1>5
  <2>1. S \in SUBSET Int /\ S # {} /\ a + 1 \in S /\ b + 1 \in S /\ \A x \in S : a + 1 <= x /\ x <= b + 1
    <3> DEFINE u == a + 1
               v == b + 1
    <3>1. u \in Int /\ v \in Int /\ u <= v
      BY <2>0
    <3> HIDE DEF u, v
    <3>2. u..v \in SUBSET Int /\ u \in u..v /\ v \in u..v /\ \A x \in u..v : u <= x /\ x <= v
      BY <3>1
    <3> QED
      BY <3>2 DEF u, v
  <2>2. IsFiniteSet(S)
    <3>1. a + 1 \in Int /\ b + 1 \in Int
      BY <1>5
    <3> QED
      BY <3>1, FS_Interval
  <2> HIDE DEF S
  <2>3. Min(S) \in S /\ \A x \in S : Min(S) <= x
    BY <2>1, <2>2, MinIs
  <2>4. Max(S) \in S /\ \A x \in S : Max(S) >= x
    BY <2>1, <2>2, MaxIs
  <2> DEFINE x == Min(S)
             y == Max(S)
  <2>5. x \in Int /\ y \in Int /\ x <= a + 1 /\ a + 1 <= x /\ y >= b + 1 /\ y <= b + 1
    BY <2>1, <2>3, <2>4
  <2> HIDE DEF x, y
  <2>6. x = a + 1 /\ y = b + 1
    BY <1>5, <2>5
  <2> QED
    BY <2>6 DEF x, y, S
<1>7. rows = SubSeq(picture, a + 1, b + 1)
  BY <1>3, <1>6
<1>8. /\ Len(rows) = (b - a) + 1 /\ DOMAIN rows = 1..((b - a) + 1)
      /\ \A i \in 1..((b - a) + 1) : rows[i] = picture[a + i]
  <2>1. a + 1 \in 1..Len(picture) /\ b + 1 \in 1..Len(picture) /\ a + 1 <= b + 1
    BY <1>2, <1>4, <1>5
  <2>2. DOMAIN rows = 1..(b + 1 - (a + 1) + 1) /\ Len(rows) = b + 1 - (a + 1) + 1
    BY <1>2, <1>5, <1>7, <2>1
  <2>3. b + 1 - (a + 1) + 1 = (b - a) + 1
    BY <1>5
  <2>4. \A i \in 1..(b + 1 - (a + 1) + 1) : rows[i] = picture[a + 1 + i - 1]
    BY <1>2, <1>5, <1>7, <2>1
  <2>5. \A i \in Int : a + 1 + i - 1 = a + i
    BY <1>5
  <2>6. Len(rows) = (b - a) + 1 /\ DOMAIN rows = 1..((b - a) + 1)
    BY <2>2, <2>3
  <2>7. ASSUME NEW i \in 1..((b - a) + 1) PROVE rows[i] = picture[a + i]
    <3>1. i \in 1..(b + 1 - (a + 1) + 1)
      BY <2>3
    <3>2. rows[i] = picture[a + 1 + i - 1]
      BY <2>4, <3>1
    <3>3. a + 1 + i - 1 = a + i
      BY <2>5
    <3> QED
      BY <3>2, <3>3
  <2> QED
    BY <2>6, <2>7
<1> DEFINE at == [k \in 0..n |-> to[k] - a]
<1>9. \A k \in 0..n : at[k] = to[k] - a /\ at[k] \in Nat
  BY <1>5
<1>10. at \in [0..n -> Nat]
  BY <1>9
<1>11. 0 \in 0..n /\ n \in 0..n
  BY <1>4
<1>12. at[0] = 0 /\ at[n] = b - a
  <2>1. at[0] = to[0] - a /\ at[n] = to[n] - a
    BY <1>9, <1>11
  <2>2. a - a = 0
    BY <1>5
  <2> QED
    BY <2>1, <2>2 DEF a, b
<1> HIDE DEF at
<1>13. ASSUME NEW k \in 1..n
       PROVE  /\ at[k] = at[k - 1] + Height(h, k)
              /\ CommitLine(rows[at[k]], h, k)
              /\ Joined(Rows(h)[k]) # {} => JunctionLine(rows[at[k] - 1], h, k)
  <2>1. /\ to[k] = to[k - 1] + Height(h, k)
        /\ CommitLine(picture[to[k]], h, k)
        /\ Joined(Rows(h)[k]) # {} => JunctionLine(picture[to[k] - 1], h, k)
    BY <1>4 DEF Listed
  <2>2. k \in 0..n /\ k - 1 \in 0..n
    BY <1>4
  <2>3. to[k] <= to[n] /\ to[k] \in Nat /\ to[k - 1] \in Nat /\ to[n] \in Nat /\ a <= to[k - 1]
    BY <1>4, <1>5, <2>2, LinesWithin
  <2>4. at[k] = to[k] - a /\ at[k - 1] = to[k - 1] - a
    BY <1>9, <2>2
  <2>5. Height(h, k) \in {1, 2} /\ (Joined(Rows(h)[k]) # {} => Height(h, k) = 2)
    BY DEF Height
  <2> DEFINE x == to[k]
             y == to[k - 1]
             m == at[k]
  <2>6. m = x - a /\ x = y + Height(h, k) /\ x \in Nat /\ y \in Nat /\ a <= y /\ x <= b
    BY <2>1, <2>3, <2>4 DEF b
  <2>7. at[k - 1] = y - a
    BY <2>4
  <2> HIDE DEF x, y, m
  <2>8. at[k - 1] + Height(h, k) = m
    BY <1>5, <2>5, <2>6, <2>7
  <2>9. m \in 1..((b - a) + 1) /\ a + m = x
    BY <1>5, <2>5, <2>6
  <2>10. rows[m] = picture[x]
    BY <1>8, <2>9
  <2>11. Joined(Rows(h)[k]) # {} => rows[m - 1] = picture[x - 1]
    <3> SUFFICES ASSUME Joined(Rows(h)[k]) # {} PROVE rows[m - 1] = picture[x - 1]
      OBVIOUS
    <3>1. Height(h, k) = 2
      BY <2>5
    <3> DEFINE z == m - 1
    <3>2. z \in 1..((b - a) + 1) /\ a + z = x - 1
      BY <1>5, <2>6, <3>1
    <3> HIDE DEF z
    <3>3. rows[z] = picture[x - 1]
      BY <1>8, <3>2
    <3> QED
      BY <3>3 DEF z
  <2> QED
    BY <2>1, <2>8, <2>10, <2>11 DEF m, x
<1>14. Listed(rows, h, n, at)
  BY <1>10, <1>13 DEF Listed
<1>15. TrunkLine(rows[Len(rows)], h)
  <2> DEFINE z == (b - a) + 1
  <2>1. z \in 1..((b - a) + 1) /\ a + z = b + 1
    BY <1>5
  <2> HIDE DEF z
  <2>2. rows[z] = picture[b + 1]
    BY <1>8, <2>1
  <2> QED
    BY <1>1, <1>8, <2>2 DEF b, z
<1> QED
  BY <1>8, <1>12, <1>14, <1>15 DEF Complete, rows, n

----------------------------------------------------------------------------
(* The picture grows by the rows of a group, one after the other.         *)

\* The segment of a lane changes where a row begins one.
LEMMA PaintNext ==
  ASSUME NEW g, NEW n \in Nat \ {0}, NEW l
  PROVE  /\ Paint(g, n, l) = IF Rows(g)[n].lane = l /\ Begins(g, n)
                             THEN Cardinality(BegunBefore(g, n)) + 1 ELSE Paint(g, n - 1, l)
         /\ Paint(g, 0, l) = 0
<1> DEFINE here == {j \in {n} : Rows(g)[j].lane = l /\ Begins(g, j)}
<1>1. Started(g, n, l) = Started(g, n - 1, l) \cup here
  <2>1. 1..n = 1..(n - 1) \cup {n}
    OBVIOUS
  <2> QED
    BY <2>1 DEF Started
<1>2. Started(g, 0, l) = {}
  <2>1. 1..0 = {}
    OBVIOUS
  <2> QED
    BY <2>1 DEF Started
<1>3. CASE Rows(g)[n].lane = l /\ Begins(g, n)
  <2> DEFINE S == Started(g, n, l)
  <2>1. n \in S /\ S \in SUBSET (1..n)
    BY <1>1, <1>3 DEF Started
  <2>2. IsFiniteSet(1..n)
    BY FS_Interval
  <2>3. IsFiniteSet(S) /\ S \in SUBSET Int
    <3> HIDE DEF S
    <3>1. IsFiniteSet(S)
      BY <2>1, <2>2, FS_Subset
    <3> QED
      BY <2>1, <3>1
  <2> HIDE DEF S
  <2>4. Max(S) \in S /\ \A x \in S : Max(S) >= x
    BY <2>1, <2>3, MaxIs
  <2> DEFINE m == Max(S)
  <2>5. m \in 1..n /\ m >= n
    BY <2>1, <2>4
  <2> HIDE DEF m
  <2>6. m = n
    BY <2>5
  <2>7. S # {}
    BY <2>1
  <2> QED
    BY <1>2, <1>3, <2>6, <2>7 DEF Paint, m, S
<1>4. CASE ~(Rows(g)[n].lane = l /\ Begins(g, n))
  <2>1. Started(g, n, l) = Started(g, n - 1, l)
    BY <1>1, <1>4
  <2> QED
    BY <1>2, <1>4, <2>1 DEF Paint
<1> QED
  BY <1>3, <1>4

\* The lines that are drawn of a row.
LEMMA JunctionDrawn ==
  ASSUME NEW g, NEW k, NEW tints, DOMAIN tints = DOMAIN Lanes(g), shown = Alive(g, k),
         \A l \in DOMAIN Lanes(g) : tints[l] = Paint(g, k - 1, l), NEW spine,
         NEW p, p = Line("junction", spine, JunctionCells(Joined(Rows(g)[k]), tints), {})
  PROVE  JunctionLine(p, g, k)
<1>1. p.kind = "junction" /\ p.cells = JunctionCells(Joined(Rows(g)[k]), tints)
  BY DEF Line
<1>2. DOMAIN p.cells = DOMAIN Lanes(g)
  BY <1>1 DEF JunctionCells
<1>3. ASSUME NEW l \in DOMAIN Lanes(g)
      PROVE  /\ p.cells[l].colour = tints[l]
             /\ p.cells[l].glyph = JunctionGlyph(Joined(Rows(g)[k]), shown, l)
  <2> DEFINE G == JunctionGlyph(Joined(Rows(g)[k]), shown, l)
  <2>1. p.cells[l] = [colour |-> tints[l], glyph |-> G]
    BY <1>1 DEF JunctionCells, JunctionGlyph
  <2> HIDE DEF G
  <2>2. p.cells[l].colour = tints[l] /\ p.cells[l].glyph = G
    BY <2>1
  <2> QED
    BY <2>2 DEF G
<1> QED
  BY <1>1, <1>2, <1>3 DEF JunctionLine, Glyph

LEMMA RowDrawn ==
  ASSUME NEW g, NEW k, NEW tints, DOMAIN tints = DOMAIN Lanes(g),
         \A l \in DOMAIN Lanes(g) : tints[l] = Paint(g, k, l), NEW spine,
         NEW visible, visible = Alive(g, k + 1), NEW p,
         p = CommitRow(Rows(g)[k], Commit(g, Rows(g)[k]), spine,
                       RowCells(Rows(g)[k].lane, visible, tints))
  PROVE  CommitLine(p, g, k)
<1>1. /\ p.kind = "commit" /\ p.cells = RowCells(Rows(g)[k].lane, visible, tints)
      /\ p.label = <<Rows(g)[k].rewritten, Commit(g, Rows(g)[k])>>
  BY DEF CommitRow
<1>2. DOMAIN p.cells = DOMAIN Lanes(g)
  BY <1>1 DEF RowCells
<1>3. ASSUME NEW l \in DOMAIN Lanes(g)
      PROVE  /\ p.cells[l].colour = tints[l]
             /\ p.cells[l].glyph = IF l = Rows(g)[k].lane THEN "commit"
                                   ELSE IF l \in visible THEN "line" ELSE "blank"
  BY <1>1 DEF RowCells
<1> QED
  BY <1>1, <1>2, <1>3 DEF CommitLine, Glyph

LEMMA TrunkDrawn ==
  ASSUME NEW g, NEW tints, DOMAIN tints = DOMAIN Lanes(g), NEW spine, NEW label, NEW p,
         p = Line("trunk", spine, TrunkCells(ToSet(prepared[g].roots), tints), label)
  PROVE  TrunkLine(p, g)
<1>1. p.kind = "trunk" /\ p.cells = TrunkCells(ToSet(prepared[g].roots), tints)
  BY DEF Line
<1>2. DOMAIN p.cells = DOMAIN Lanes(g)
  BY <1>1 DEF TrunkCells
<1>3. ASSUME NEW l \in DOMAIN Lanes(g)
      PROVE  p.cells[l].glyph = TrunkGlyph(ToSet(prepared[g].roots), l)
  <2> DEFINE G == TrunkGlyph(ToSet(prepared[g].roots), l)
  <2>1. p.cells[l] = [colour |-> tints[l], glyph |-> G]
    BY <1>1 DEF TrunkCells, TrunkGlyph
  <2> HIDE DEF G
  <2>2. p.cells[l].glyph = G
    BY <2>1
  <2> QED
    BY <2>2 DEF G
<1> QED
  BY <1>1, <1>2, <1>3 DEF TrunkLine, Glyph

\* The picture while group g is drawn, at row r.
OnlyTo(lines, g, r) ==
    /\ IsSequence(lines)
    /\ \A i \in DOMAIN lines : lines[i].kind \in RowKinds =>
        lines[i].group \in Nat /\ (lines[i].group < g \/ (lines[i].group = g /\ r # 0))

RowsSoFar(lines, g, r, tints) ==
    \E at : /\ Listed(lines, g, r - 1, at) /\ at[r - 1] = Len(lines)
            /\ Part(lines, g) = (at[0] + 1)..at[r - 1]
            /\ \A l \in DOMAIN Lanes(g) : tints[l] = Paint(g, r - 1, l)

PictureAt(lines, g, r, tints) ==
    /\ OnlyTo(lines, g, r)
    /\ \A h \in DOMAIN groups : h < g /\ IsConnected(h) => FinishedIn(lines, h)
    /\ r # 0 => RowsSoFar(lines, g, r, tints)

\* Lines of no row leave the groups as they are.
LEMMA BareBelow ==
  ASSUME Arranged, NEW whole, NEW lines, NEW more, Extends(whole, lines, more), Bare(more),
         NEW g \in Nat, OnlyTo(lines, g, 0),
         \A h \in DOMAIN groups : h < g /\ IsConnected(h) => FinishedIn(lines, h)
  PROVE  /\ OnlyTo(whole, g, 0)
         /\ \A h \in DOMAIN groups : h < g /\ IsConnected(h) => FinishedIn(whole, h)
         /\ Part(whole, g) = {}
<1>1. /\ \A i \in DOMAIN lines : whole[i] = lines[i]
      /\ \A i \in DOMAIN whole \ DOMAIN lines :
           i - Len(lines) \in DOMAIN more /\ whole[i] = more[i - Len(lines)]
  BY KindsStay
<1>2. \A i \in DOMAIN whole : whole[i].kind \in RowKinds => i \in DOMAIN lines
  BY <1>1 DEF Bare
<1>3. \A i \in DOMAIN whole : whole[i].kind \in RowKinds => whole[i].group \in Nat /\ whole[i].group < g
  BY <1>1, <1>2 DEF OnlyTo
<1>4. OnlyTo(whole, g, 0)
  BY <1>3 DEF OnlyTo, Extends
<1>5. \A h : \A i \in DOMAIN more : ~Of(more[i], h)
  BY DEF Bare, Of
<1>6. ASSUME NEW h \in DOMAIN groups, h < g, IsConnected(h) PROVE FinishedIn(whole, h)
  <2>1. Len(Rows(h)) \in Nat
    BY <1>6, RowsAreFit
  <2>2. FinishedIn(lines, h)
    BY <1>6
  <2> QED
    BY <1>5, <2>1, <2>2, FinishedStays
<1>7. Part(whole, g) = {}
  <2>1. \A i \in DOMAIN whole : ~(whole[i].group = g /\ whole[i].kind \in RowKinds)
    BY <1>3
  <2> QED
    BY <2>1 DEF Part, RowKinds
<1> QED
  BY <1>4, <1>6, <1>7

LEMMA BareJoins ==
  ASSUME NEW a, NEW b, Bare(a), Bare(b)
  PROVE  Bare(a \o b)
<1>1. Extends(a \o b, a, b)
  BY ExtendIs DEF Bare
<1> DEFINE whole == a \o b
<1> HIDE DEF whole
<1>2. Extends(whole, a, b)
  BY <1>1 DEF whole
<1>3. /\ \A i \in DOMAIN a : whole[i] = a[i]
      /\ \A i \in DOMAIN whole \ DOMAIN a : i - Len(a) \in DOMAIN b /\ whole[i] = b[i - Len(a)]
  BY <1>2, KindsStay
<1>4. Bare(whole)
  BY <1>2, <1>3 DEF Bare, Extends
<1> QED
  BY <1>4 DEF whole

LEMMA BareOne ==
  ASSUME NEW p, p.kind \notin RowKinds
  PROVE  Bare(<<p>>)
<1>1. IsSequence(<<p>>) /\ \A i \in DOMAIN <<p>> : <<p>>[i] = p
  BY OneLine
<1> HIDE DEF RowKinds
<1> QED
  BY <1>1 DEF Bare

LEMMA BareNone == Bare(<<>>)
BY NoLine DEF Bare

LEMMA BarePrelude ==
  ASSUME NEW g
  PROVE  Bare(Prelude(g)) /\ Bare(<<TopSpacer(FALSE), MainTip>>) /\ Bare(<<OmittedPast>>)
<1> DEFINE distance == groups[g].distance
           gap == Line("gap", "dotted", <<>>, [count |-> distance - drawn, name |-> historyName])
           top == TopSpacer(distance = 0 /\ Lanes(g) # <<>>)
           tip == IF distance > 0 THEN <<MainTip>> ELSE <<>>
           begin == IF started THEN <<>> ELSE <<top>> \o tip
           gaps == IF distance > drawn THEN <<gap>> ELSE <<>>
<1>1. gap.kind \notin RowKinds /\ top.kind \notin RowKinds /\ MainTip.kind \notin RowKinds
      /\ TopSpacer(FALSE).kind \notin RowKinds /\ OmittedPast.kind \notin RowKinds
  BY DEF Line, TopSpacer, MainTip, OmittedPast, RowKinds
<1>2. Prelude(g) = begin \o gaps
  BY DEF Prelude
<1> HIDE DEF gap, top
<1>3. Bare(<<top>>) /\ Bare(tip) /\ Bare(gaps) /\ Bare(<<MainTip>>) /\ Bare(<<TopSpacer(FALSE)>>)
      /\ Bare(<<OmittedPast>>)
  BY <1>1, BareOne, BareNone
<1>4. Bare(<<top>> \o tip)
  BY <1>3, BareJoins
<1>5. Bare(begin)
  BY <1>4, BareNone
<1> HIDE DEF begin, gaps
<1>6. Bare(begin \o gaps)
  BY <1>3, <1>5, BareJoins
<1>7. Bare(<<TopSpacer(FALSE), MainTip>>)
  <2> DEFINE a == TopSpacer(FALSE)
             b == MainTip
  <2>1. a.kind \notin RowKinds /\ b.kind \notin RowKinds
    BY <1>1
  <2> HIDE DEF a, b
  <2>2. <<a, b>> \in Seq({a, b}) /\ DOMAIN <<a, b>> = 1..2 /\ <<a, b>>[1] = a /\ <<a, b>>[2] = b
    OBVIOUS
  <2>3. IsSequence(<<a, b>>)
    BY <2>2, OverIts
  <2>4. \A i \in DOMAIN <<a, b>> : <<a, b>>[i] = a \/ <<a, b>>[i] = b
    BY <2>2
  <2>5. Bare(<<a, b>>)
    BY <2>1, <2>3, <2>4 DEF Bare
  <2> QED
    BY <2>5 DEF a, b
<1> QED
  BY <1>2, <1>3, <1>6, <1>7

\* A group that is opened has no row yet.
LEMMA PictureOpens ==
  ASSUME Underway, PictureAt(picture, group, row, laneColours), OpenGroup
  PROVE  PictureAt(picture', group', row', laneColours')
<1> DEFINE g == group
<1>1. /\ row = 0 /\ row' = 1 /\ group' = g /\ picture' = picture \o Prelude(g)
      /\ laneColours' = [l \in DOMAIN Lanes(g) |-> 0]
  BY DEF OpenGroup
<1>2. Arranged /\ IsSequence(picture) /\ g \in Nat
  BY DEF Underway, NumberedSoFar, Painting
<1>3. Bare(Prelude(g)) /\ IsSequence(Prelude(g))
  BY BarePrelude DEF Bare
<1>4. Extends(picture', picture, Prelude(g))
  BY <1>1, <1>2, <1>3, ExtendIs
<1>5. OnlyTo(picture, g, 0) /\ \A h \in DOMAIN groups : h < g /\ IsConnected(h) => FinishedIn(picture, h)
  BY <1>1 DEF PictureAt
<1>6. /\ OnlyTo(picture', g, 0) /\ Part(picture', g) = {}
      /\ \A h \in DOMAIN groups : h < g /\ IsConnected(h) => FinishedIn(picture', h)
  BY <1>2, <1>3, <1>4, <1>5, BareBelow
<1>7. RowsSoFar(picture', g, 1, laneColours')
  <2> DEFINE at == [k \in 0..0 |-> Len(picture')]
  <2>1. Len(picture') \in Nat /\ 1 - 1 = 0 /\ 0 \in 0..0 /\ (\A k \in 1..0 : FALSE)
    BY <1>4 DEF Extends
  <2>2. at \in [0..0 -> Nat] /\ at[0] = Len(picture')
    BY <2>1
  <2>3. Listed(picture', g, 0, at)
    <3> HIDE DEF at
    <3> QED BY <2>1, <2>2 DEF Listed
  <2>4. Part(picture', g) = (at[0] + 1)..at[0]
    <3> HIDE DEF at
    <3> QED BY <1>6, <2>1, <2>2
  <2>5. \A l \in DOMAIN Lanes(g) : laneColours'[l] = Paint(g, 0, l)
    <3>1. 1 \in Nat \ {0}
      OBVIOUS
    <3>2. \A l : Paint(g, 0, l) = 0
      BY <3>1, PaintNext
    <3> QED
      BY <1>1, <3>2
  <2> HIDE DEF at
  <2> QED
    BY <2>1, <2>2, <2>3, <2>4, <2>5 DEF RowsSoFar
<1>8. OnlyTo(picture', g, 1)
  BY <1>6 DEF OnlyTo
<1> QED
  BY <1>1, <1>6, <1>7, <1>8 DEF PictureAt

\* Lines of a group leave those before it as they are.
LEMMA FinishedBefore ==
  ASSUME Arranged, NEW whole, NEW lines, NEW more, Extends(whole, lines, more),
         NEW g \in Nat, \A i \in DOMAIN more : more[i].group = g,
         \A h \in DOMAIN groups : h < g /\ IsConnected(h) => FinishedIn(lines, h)
  PROVE  \A h \in DOMAIN groups : h < g /\ IsConnected(h) => FinishedIn(whole, h)
<1>1. ASSUME NEW h \in DOMAIN groups, h < g, IsConnected(h) PROVE FinishedIn(whole, h)
  <2>1. h # g
    <3>1. h \in Nat
      BY DEF Arranged, IsSequence
    <3> QED
      BY <1>1, <3>1
  <2>2. \A i \in DOMAIN more : ~Of(more[i], h)
    BY <2>1 DEF Of
  <2>3. Len(Rows(h)) \in Nat
    BY RowsAreFit
  <2>4. FinishedIn(lines, h)
    BY <1>1
  <2> QED
    BY <2>2, <2>3, <2>4, FinishedStays
<1> QED
  BY <1>1

\* Lines of the group at hand.
LEMMA OnlyMore ==
  ASSUME NEW whole, NEW lines, NEW more, Extends(whole, lines, more),
         NEW g \in Nat, NEW r, r # 0, \A i \in DOMAIN more : more[i].group = g, OnlyTo(lines, g, r)
  PROVE  OnlyTo(whole, g, r)
<1>1. /\ \A i \in DOMAIN lines : whole[i] = lines[i]
      /\ \A i \in DOMAIN whole \ DOMAIN lines :
           i - Len(lines) \in DOMAIN more /\ whole[i] = more[i - Len(lines)]
  BY KindsStay
<1>2. \A i \in DOMAIN whole : whole[i].kind \in RowKinds =>
        whole[i].group \in Nat /\ (whole[i].group < g \/ (whole[i].group = g /\ r # 0))
  BY <1>1 DEF OnlyTo
<1> QED
  BY <1>2 DEF OnlyTo, Extends

\* A base ends its group.
LEMMA PictureBases ==
  ASSUME Underway, PictureAt(picture, group, row, laneColours), DrawTrunk
  PROVE  PictureAt(picture', group', row', laneColours')
<1> DEFINE g == group
           n == Len(Rows(g))
           names == IF groups[group].distance = 0 THEN MainNames ELSE References(groups[group].base)
           p == Line("trunk", "node", TrunkCells(ToSet(prepared[group].roots), laneColours), names)
<1>1. /\ g \in DOMAIN groups /\ n \in Nat /\ g \in Nat /\ row = n + 1 /\ row # 0 /\ row \in Nat
      /\ Arranged /\ IsSequence(picture)
  <2>1. g \in DOMAIN groups /\ n \in Nat /\ row = n + 1
    BY GroupIs DEF Underway, DrawTrunk
  <2>2. g \in Nat /\ row \in Nat /\ Arranged /\ IsSequence(picture)
    BY DEF Underway, NumberedSoFar, Painting
  <2> HIDE DEF n
  <2> QED
    BY <2>1, <2>2
<1>2. row' = 0 /\ group' = g + 1 /\ picture' = Append(picture, p)
  BY DEF DrawTrunk
<1>3. DOMAIN laneColours = DOMAIN Lanes(g)
  BY <1>1 DEF Underway, Opened
<1>4. TrunkLine(p, g)
  BY <1>3, TrunkDrawn
<1>5. p.group = g /\ p.kind = "trunk" /\ Of(p, g)
  BY DEF Line, Of, RowKinds
<1> HIDE DEF p
<1>6. Extends(picture', picture, <<p>>) /\ (\A i \in DOMAIN <<p>> : <<p>>[i].group = g)
  BY <1>1, <1>2, <1>5, ExtendOne, OneLine
<1>7. OneMore(picture', picture, p, Len(picture) + 1)
  BY <1>6, OneBelow
<1>8. OnlyTo(picture, g, row) /\ \A h \in DOMAIN groups : h < g /\ IsConnected(h) => FinishedIn(picture, h)
  BY DEF PictureAt
<1>9. \A h \in DOMAIN groups : h < g /\ IsConnected(h) => FinishedIn(picture', h)
  BY <1>1, <1>6, <1>8, FinishedBefore
<1>10. OnlyTo(picture', g + 1, 0)
  <2>1. OnlyTo(picture', g, row)
    BY <1>1, <1>6, <1>8, OnlyMore
  <2>2. \A i \in DOMAIN picture' : picture'[i].kind \in RowKinds =>
          picture'[i].group \in Nat /\ picture'[i].group < g + 1
    BY <1>1, <2>1 DEF OnlyTo
  <2> QED
    BY <2>1, <2>2 DEF OnlyTo
<1>11. PICK at : /\ Listed(picture, g, n, at) /\ at[n] = Len(picture)
                 /\ Part(picture, g) = (at[0] + 1)..at[n]
  <2>1. row - 1 = n
    <3> HIDE DEF n
    <3> QED BY <1>1
  <2>2. RowsSoFar(picture, g, row, laneColours)
    BY <1>1 DEF PictureAt
  <2> QED
    BY <2>1, <2>2 DEF RowsSoFar
<1> HIDE DEF n
<1>12. Listed(picture', g, n, at)
  <2>1. at[n] <= Len(picture)
    BY <1>7, <1>11 DEF OneMore
  <2> QED
    BY <1>1, <1>6, <1>11, <2>1, ListedStays
<1>13. Part(picture', g) = (at[0] + 1)..(at[n] + 1)
  <2>1. Part(picture', g) = Part(picture, g) \cup {Len(picture) + 1}
    BY <1>5, <1>6, PartMore
  <2>2. at[0] \in Nat /\ at[n] \in Nat /\ at[0] <= at[n]
    <3>1. n \in 0..n
      BY <1>1
    <3> QED
      BY <1>1, <1>11, <3>1, LinesWithin
  <2> DEFINE a == at[0]
             b == at[n]
  <2>3. Part(picture', g) = ((a + 1)..b) \cup {b + 1}
    BY <1>11, <2>1
  <2> HIDE DEF a, b
  <2>4. a \in Nat /\ b \in Nat /\ a <= b
    BY <2>2 DEF a, b
  <2>5. ((a + 1)..b) \cup {b + 1} = (a + 1)..(b + 1)
    BY <2>4
  <2> QED
    BY <2>3, <2>5 DEF a, b
<1>14. FinishedIn(picture', g)
  <2>1. at[n] + 1 \in DOMAIN picture' /\ picture'[at[n] + 1] = p
    BY <1>7, <1>11 DEF OneMore
  <2> QED
    BY <1>4, <1>12, <1>13, <2>1 DEF FinishedIn, n
<1>15. \A h \in DOMAIN groups : h < g + 1 /\ IsConnected(h) => FinishedIn(picture', h)
  <2>1. \A h \in DOMAIN groups : h \in Nat
    BY <1>1 DEF Arranged, IsSequence
  <2>2. \A h \in DOMAIN groups : h < g + 1 => h < g \/ h = g
    BY <1>1, <2>1
  <2> QED
    BY <1>9, <1>14, <2>2
<1> QED
  BY <1>2, <1>10, <1>15 DEF PictureAt

\* Orphans and the beginning of main are no rows of a group.
LEMMA PictureOrphans ==
  ASSUME Underway, PictureAt(picture, group, row, laneColours), DrawOrphans
  PROVE  PictureAt(picture', group', row', laneColours')
<1> DEFINE g == group
           begin == IF started THEN <<>> ELSE <<TopSpacer(FALSE), MainTip>>
           rest == OrphanRows(g)
           more == begin \o rest
<1>1. /\ group' = g + 1 /\ row' = row /\ picture' = (picture \o begin) \o rest
      /\ group <= Len(groups) /\ ~IsConnected(group)
  BY DEF DrawOrphans, OrphanRows, OrphanPoints
<1>2. /\ g \in DOMAIN groups /\ g \in Nat /\ row = 0 /\ Arranged /\ IsSequence(picture)
  <2>1. g \in DOMAIN groups
    BY <1>1, GroupIs DEF Underway
  <2>2. row = 0
    BY <1>1 DEF Underway, Opened
  <2> QED
    BY <2>1, <2>2 DEF Underway, NumberedSoFar, Painting
<1>3. Bare(begin)
  BY BarePrelude, BareNone
<1>4. Bare(rest)
  <2>1. IsSequence(rest)
    BY <1>2, OrphanRowsAre DEF Underway
  <2>2. \A i \in DOMAIN rest : rest[i].kind = "orphan"
    BY DEF OrphanRows, Line
  <2> HIDE DEF rest
  <2> QED
    BY <2>1, <2>2 DEF Bare, RowKinds
<1> DEFINE above == picture \o begin
<1>5. Extends(above, picture, begin)
  <2> HIDE DEF begin
  <2> QED BY <1>2, <1>3, ExtendIs DEF Bare
<1>6. IsSequence(above)
  BY <1>5 DEF Extends
<1> HIDE DEF above, begin, rest
<1>7. Extends(picture', above, rest)
  BY <1>1, <1>4, <1>6, ExtendIs DEF Bare, above
<1>8. OnlyTo(picture, g, 0) /\ \A h \in DOMAIN groups : h < g /\ IsConnected(h) => FinishedIn(picture, h)
  BY <1>2 DEF PictureAt
<1>9. OnlyTo(above, g, 0) /\ \A h \in DOMAIN groups : h < g /\ IsConnected(h) => FinishedIn(above, h)
  BY <1>2, <1>3, <1>5, <1>8, BareBelow
<1>10. OnlyTo(picture', g, 0) /\ \A h \in DOMAIN groups : h < g /\ IsConnected(h) => FinishedIn(picture', h)
  BY <1>2, <1>4, <1>7, <1>9, BareBelow
<1>11. OnlyTo(picture', g + 1, 0)
  <2>1. \A i \in DOMAIN picture' : picture'[i].kind \in RowKinds =>
          picture'[i].group \in Nat /\ picture'[i].group < g + 1
    BY <1>2, <1>10 DEF OnlyTo
  <2> QED
    BY <1>10, <2>1 DEF OnlyTo
<1>12. \A h \in DOMAIN groups : h < g + 1 /\ IsConnected(h) => FinishedIn(picture', h)
  <2>1. \A h \in DOMAIN groups : h \in Nat
    BY <1>2 DEF Arranged, IsSequence
  <2>2. \A h \in DOMAIN groups : h < g + 1 => h < g \/ h = g
    BY <1>2, <2>1
  <2> QED
    BY <1>1, <1>10, <2>2
<1> QED
  BY <1>1, <1>2, <1>11, <1>12 DEF PictureAt

\* All connected groups have been drawn.
LEMMA PictureEnds ==
  ASSUME Underway, PictureAt(picture, group, row, laneColours), Finish
  PROVE  /\ IsSequence(picture')
         /\ \A h \in DOMAIN groups : IsConnected(h) => FinishedIn(picture', h)
<1> DEFINE first == IF groups = <<>> THEN <<TopSpacer(FALSE), MainTip>> ELSE picture
           past == <<OmittedPast>>
<1>1. picture' = first \o past /\ group > Len(groups)
  BY DEF Finish
<1>2. /\ Arranged /\ IsSequence(picture) /\ group \in Nat
      /\ Len(groups) \in Nat /\ DOMAIN groups = 1..Len(groups)
  <2>1. Arranged /\ IsSequence(picture) /\ group \in Nat
    BY DEF Underway, NumberedSoFar, Painting
  <2> QED
    BY <2>1 DEF Arranged, IsSequence
<1>3. row = 0
  BY <1>1, <1>2 DEF Underway, Opened
<1>4. Bare(past)
  BY BarePrelude
<1>5. CASE groups = <<>>
  <2>1. IsSequence(first)
    BY <1>5, BarePrelude DEF Bare
  <2> HIDE DEF first, past
  <2>2. IsSequence(picture')
    BY <1>1, <1>4, <2>1, ExtendIs DEF Extends, Bare
  <2>3. DOMAIN groups = {}
    BY <1>5
  <2> QED
    BY <2>2, <2>3
<1>6. CASE groups # <<>>
  <2>1. first = picture
    BY <1>6
  <2> HIDE DEF first, past
  <2>2. Extends(picture', picture, past)
    BY <1>1, <1>2, <1>4, <2>1, ExtendIs DEF Bare
  <2>3. OnlyTo(picture, group, 0)
        /\ \A h \in DOMAIN groups : h < group /\ IsConnected(h) => FinishedIn(picture, h)
    BY <1>3 DEF PictureAt
  <2>4. \A h \in DOMAIN groups : h < group /\ IsConnected(h) => FinishedIn(picture', h)
    BY <1>2, <1>4, <2>2, <2>3, BareBelow
  <2>5. \A h \in DOMAIN groups : h < group
    BY <1>1, <1>2
  <2> QED
    BY <2>2, <2>4, <2>5 DEF Extends
<1> QED
  BY <1>5, <1>6

\* A row and the junction above it are the next of their group.
LEMMA PictureRows ==
  ASSUME Underway, PictureAt(picture, group, row, laneColours), DrawRow
  PROVE  PictureAt(picture', group', row', laneColours')
<1> DEFINE g == group
           n == row
           r == Rows(g)[n]
           left == shown \ Joined(r)
           lanes == IF r.lane \in left THEN laneColours ELSE [laneColours EXCEPT ![r.lane] = nextColour]
           joins == Line("junction", MainSpine(g), JunctionCells(Joined(r), laneColours), {})
           junction == IF Joined(r) = {} THEN <<>> ELSE <<joins>>
           p == CommitRow(r, Commit(g, r), RowSpine(g, n), RowCells(r.lane, shown', lanes))
           above == picture \o junction
<1>1. /\ group' = g /\ row' = n + 1 /\ picture' = Append(above, p) /\ shown' = left \cup {r.lane}
      /\ laneColours' = lanes
      /\ group <= Len(groups) /\ IsConnected(group) /\ n \in 1..Len(Rows(g))
  BY DEF DrawRow
<1>2. /\ g \in DOMAIN groups /\ g \in Nat /\ Len(Rows(g)) \in Nat /\ n \in Nat \ {0} /\ n # 0
      /\ n - 1 \in Nat /\ Arranged /\ IsSequence(picture)
  <2>1. g \in DOMAIN groups /\ Len(Rows(g)) \in Nat
    BY <1>1, GroupIs DEF Underway
  <2>2. n \in Nat \ {0}
    BY <1>1, <2>1
  <2> QED
    BY <2>1, <2>2 DEF Underway, NumberedSoFar, Painting, Arranged, IsSequence
<1>3. shown = Alive(g, n) /\ DOMAIN laneColours = DOMAIN Lanes(g)
      /\ nextColour = Cardinality(BegunBefore(g, n)) + 1
  BY <1>2 DEF Underway, Opened, NumberedSoFar
<1>4. Begins(g, n) <=> r.lane \notin left
  BY <1>1, <1>2, <1>3, BeginsAre
<1>5. shown' = Alive(g, n + 1)
  BY <1>1, <1>2, <1>3, AliveNext
<1>6. PICK at : /\ Listed(picture, g, n - 1, at) /\ at[n - 1] = Len(picture)
                /\ Part(picture, g) = (at[0] + 1)..at[n - 1]
                /\ \A l \in DOMAIN Lanes(g) : laneColours[l] = Paint(g, n - 1, l)
  BY <1>2 DEF PictureAt, RowsSoFar
<1>7. DOMAIN lanes = DOMAIN Lanes(g) /\ \A l \in DOMAIN Lanes(g) : lanes[l] = Paint(g, n, l)
  <2>1. DOMAIN lanes = DOMAIN Lanes(g)
    BY <1>3
  <2>2. ASSUME NEW l \in DOMAIN Lanes(g) PROVE lanes[l] = Paint(g, n, l)
    <3>1. Paint(g, n, l) = IF r.lane = l /\ Begins(g, n)
                           THEN Cardinality(BegunBefore(g, n)) + 1 ELSE Paint(g, n - 1, l)
      BY <1>2, PaintNext
    <3>2. lanes[l] = IF r.lane = l /\ r.lane \notin left THEN nextColour ELSE laneColours[l]
      BY <1>3, <2>2
    <3> HIDE DEF lanes, left
    <3> QED
      BY <1>3, <1>4, <1>6, <3>1, <3>2
  <2> QED
    BY <2>1, <2>2
<1>8. CommitLine(p, g, n)
  <2> HIDE DEF lanes
  <2> QED BY <1>5, <1>7, RowDrawn
<1>9. Joined(r) # {} => JunctionLine(joins, g, n)
  BY <1>3, <1>6, JunctionDrawn
<1>10. p.group = g /\ Of(p, g) /\ joins.group = g /\ Of(joins, g)
  BY DEF Line, CommitRow, Of, RowKinds
<1> HIDE DEF p, joins, lanes, left
<1>11. IsSequence(junction) /\ \A i \in DOMAIN junction : junction[i] = joins /\ junction[i].group = g
  BY <1>10, OneLine, NoLine
<1>12. Extends(above, picture, junction) /\ IsSequence(above)
  <2> HIDE DEF junction
  <2> QED BY <1>2, <1>11, ExtendIs DEF Extends
<1> HIDE DEF above
<1>13. Extends(picture', above, <<p>>) /\ (\A i \in DOMAIN <<p>> : <<p>>[i].group = g)
  BY <1>1, <1>10, <1>12, ExtendOne, OneLine
<1>14. OneMore(picture', above, p, Len(above) + 1)
  BY <1>13, OneBelow
<1>15. OnlyTo(picture, g, n) /\ \A h \in DOMAIN groups : h < g /\ IsConnected(h) => FinishedIn(picture, h)
  BY DEF PictureAt
<1>16. \A h \in DOMAIN groups : h < g /\ IsConnected(h) => FinishedIn(picture', h)
  <2> HIDE DEF junction
  <2>1. \A h \in DOMAIN groups : h < g /\ IsConnected(h) => FinishedIn(above, h)
    BY <1>2, <1>11, <1>12, <1>15, FinishedBefore
  <2> QED
    BY <1>2, <1>13, <2>1, FinishedBefore
<1>17. OnlyTo(picture', g, n + 1)
  <2> HIDE DEF junction
  <2>1. OnlyTo(above, g, n)
    BY <1>2, <1>11, <1>12, <1>15, OnlyMore
  <2>2. OnlyTo(picture', g, n)
    BY <1>2, <1>13, <2>1, OnlyMore
  <2>3. n + 1 # 0
    BY <1>2
  <2> QED
    BY <1>2, <2>2, <2>3 DEF OnlyTo
<1>18. /\ Len(picture) \in Nat /\ at[0] \in Nat /\ at[0] <= at[n - 1] /\ Len(above) \in Nat
       /\ Len(above) = at[n - 1] + (IF Joined(r) = {} THEN 0 ELSE 1)
  <2>1. n - 1 \in 0..(n - 1)
    BY <1>2
  <2>2. at[0] \in Nat /\ at[0] <= at[n - 1]
    BY <1>2, <1>6, <2>1, LinesWithin
  <2>3. Len(picture) \in Nat /\ Len(above) = Len(picture) + Len(junction) /\ Len(above) \in Nat
    <3> HIDE DEF junction
    <3> QED BY <1>12 DEF Extends
  <2>4. Len(junction) = IF Joined(r) = {} THEN 0 ELSE 1
    BY OneLine, NoLine
  <2> HIDE DEF junction
  <2> QED
    BY <1>6, <2>2, <2>3, <2>4
<1> DEFINE end == Len(above) + 1
<1>19. end = at[n - 1] + Height(g, n)
  <2>1. Height(g, n) = IF Joined(r) = {} THEN 1 ELSE 2
    BY DEF Height
  <2> QED
    BY <1>6, <1>18, <2>1
<1>20. Listed(picture', g, n - 1, at)
  <2> HIDE DEF junction
  <2>1. at[n - 1] <= Len(picture) /\ at[n - 1] <= Len(above)
    BY <1>6, <1>18
  <2>2. Listed(above, g, n - 1, at)
    BY <1>2, <1>6, <1>12, <2>1, ListedStays
  <2> QED
    BY <1>2, <1>13, <2>1, <2>2, ListedStays
<1>21. CommitLine(picture'[end], g, n)
  BY <1>8, <1>14 DEF OneMore
<1>22. Joined(r) # {} => JunctionLine(picture'[end - 1], g, n)
  <2> SUFFICES ASSUME Joined(r) # {} PROVE JunctionLine(picture'[end - 1], g, n)
    OBVIOUS
  <2>1. junction = <<joins>>
    OBVIOUS
  <2> HIDE DEF junction
  <2>2. OneMore(above, picture, joins, Len(picture) + 1)
    BY <1>12, <2>1, OneBelow
  <2>3. end - 1 = Len(picture) + 1 /\ end - 1 = Len(above)
    BY <1>6, <1>18
  <2>4. above[end - 1] = joins /\ end - 1 \in DOMAIN above
    BY <2>2, <2>3 DEF OneMore
  <2>5. picture'[end - 1] = joins
    <3> HIDE DEF end
    <3> QED BY <1>14, <2>4 DEF OneMore
  <2> QED
    BY <1>9, <2>5
<1> HIDE DEF end
<1>23. PICK to : Listed(picture', g, n, to) /\ to[0] = at[0] /\ to[n] = end
  BY <1>2, <1>19, <1>20, <1>21, <1>22, ListedNext
<1>24. Part(picture', g) = (to[0] + 1)..to[n]
  <2>1. Part(picture', g) = Part(above, g) \cup {Len(above) + 1}
    BY <1>10, <1>13, PartMore
  <2> DEFINE a == at[0]
             b == at[n - 1]
             c == to[n]
  <2>2. a \in Nat /\ b \in Nat /\ a <= b /\ c = Len(above) + 1
        /\ Len(above) = (IF Joined(r) = {} THEN b ELSE b + 1)
    <3>1. at[n - 1] \in Nat
      BY <1>6, <1>18
    <3> QED
      BY <1>18, <1>23, <3>1 DEF end
  <2>3. Part(picture, g) = (a + 1)..b
    BY <1>6
  <2>4. Len(picture) = b
    BY <1>6
  <2> HIDE DEF a, b, c
  <2>5. CASE Joined(r) = {}
    <3>1. junction = <<>>
      BY <2>5
    <3>2. Part(above, g) = (a + 1)..b
      <4> HIDE DEF junction
      <4>1. \A i \in DOMAIN junction : ~Of(junction[i], g)
        BY <3>1, NoLine
      <4> QED
        BY <1>12, <2>3, <4>1, PartStays
    <3>3. ((a + 1)..b) \cup {b + 1} = (a + 1)..(b + 1)
      BY <2>2
    <3> QED
      BY <1>23, <2>1, <2>2, <2>5, <3>2, <3>3 DEF a, c
  <2>6. CASE Joined(r) # {}
    <3>1. junction = <<joins>>
      BY <2>6
    <3>2. Part(above, g) = ((a + 1)..b) \cup {b + 1}
      <4> HIDE DEF junction
      <4>1. Extends(above, picture, <<joins>>)
        BY <1>12, <3>1
      <4>2. Part(above, g) = Part(picture, g) \cup {Len(picture) + 1}
        BY <1>10, <4>1, PartMore
      <4> QED
        BY <2>3, <2>4, <4>2
    <3>3. ((a + 1)..b) \cup {b + 1} \cup {b + 2} = (a + 1)..(b + 2)
      BY <2>2
    <3>4. c = b + 2 /\ Len(above) + 1 = b + 2
      BY <2>2, <2>6
    <3> QED
      BY <1>23, <2>1, <3>2, <3>3, <3>4 DEF a, c
  <2> QED
    BY <2>5, <2>6
<1>25. RowsSoFar(picture', g, n + 1, lanes)
  <2>1. (n + 1) - 1 = n
    BY <1>2
  <2>2. to[n] = Len(picture')
    BY <1>14, <1>23 DEF OneMore, end
  <2> QED
    BY <1>7, <1>23, <1>24, <2>1, <2>2 DEF RowsSoFar
<1> QED
  BY <1>1, <1>16, <1>17, <1>25 DEF PictureAt

\* The lines of a row are judged as before.
LEMMA LinesNext ==
  ASSUME Settled, NEW g
  PROVE  /\ Len(Rows(g))' = Len(Rows(g)) /\ DOMAIN Lanes(g)' = DOMAIN Lanes(g)
         /\ \A k, l : Paint(g, k, l)' = Paint(g, k, l)
         /\ \A k : Height(g, k)' = Height(g, k)
         /\ \A i, k : CommitLine(picture[i], g, k)' <=> CommitLine(picture'[i], g, k)
         /\ \A i, k : JunctionLine(picture[i], g, k)' <=> JunctionLine(picture'[i], g, k)
         /\ \A i : TrunkLine(picture[i], g)' <=> TrunkLine(picture'[i], g)
         /\ Part(picture, g)' = Part(picture', g)
<1>1. Lanes(g)' = Lanes(g) /\ Rows(g)' = Rows(g) /\ \A r : Commit(g, r)' = Commit(g, r)
  BY DEF Settled, Lanes, Rows, Commit
<1>2. \A k : Alive(g, k)' = Alive(g, k) /\ Joined(Rows(g)[k])' = Joined(Rows(g)[k])
  BY <1>1 DEF Alive, Joined
<1>3. \A k : Begins(g, k)' <=> Begins(g, k)
  BY <1>1, <1>2 DEF Begins
<1>4. Beginnings' = Beginnings
  BY Unmoved DEF Settled
<1>5. \A n : BegunBefore(g, n)' = BegunBefore(g, n)
  BY <1>4 DEF BegunBefore
<1>6. \A k, l : Started(g, k, l)' = Started(g, k, l)
  BY <1>1, <1>3 DEF Started
<1>7. \A k, l : Paint(g, k, l)' = Paint(g, k, l)
  BY <1>5, <1>6 DEF Paint
<1>8. \A k : Height(g, k)' = Height(g, k)
  BY <1>2 DEF Height
<1>9. \A i, k : CommitLine(picture[i], g, k)' <=> CommitLine(picture'[i], g, k)
  BY <1>1, <1>2, <1>7 DEF CommitLine, Glyph
<1>10. \A i, k : JunctionLine(picture[i], g, k)' <=> JunctionLine(picture'[i], g, k)
  BY <1>1, <1>2, <1>7 DEF JunctionLine, Glyph
<1>11. \A i : TrunkLine(picture[i], g)' <=> TrunkLine(picture'[i], g)
  BY <1>1 DEF TrunkLine, Glyph, Settled
<1>12. Part(picture, g)' = Part(picture', g)
  BY DEF Part
<1> QED
  BY <1>1, <1>7, <1>8, <1>9, <1>10, <1>11, <1>12

LEMMA GroupsNext ==
  ASSUME Settled, NEW g
  PROVE  /\ \A n, at : Listed(picture, g, n, at)' <=> Listed(picture', g, n, at)
         /\ FinishedIn(picture, g)' <=> FinishedIn(picture', g)
<1>1. ASSUME NEW n, NEW at PROVE Listed(picture, g, n, at)' <=> Listed(picture', g, n, at)
  <2>1. \A k : (Joined(Rows(g)[k]) # {})' <=> Joined(Rows(g)[k]) # {}
    BY DEF Settled, Rows, Joined
  <2> QED
    BY <2>1, LinesNext DEF Listed
<1>2. FinishedIn(picture, g)' <=> FinishedIn(picture', g)
  BY <1>1, LinesNext DEF FinishedIn
<1> QED
  BY <1>1, <1>2

LEMMA PictureNext ==
  ASSUME Settled, PictureAt(picture', group', row', laneColours')
  PROVE  PictureAt(picture, group, row, laneColours)'
<1>1. OnlyTo(picture, group, row)'
  BY DEF PictureAt, OnlyTo, RowKinds, IsSequence
<1>2. \A h : FinishedIn(picture, h)' <=> FinishedIn(picture', h)
  BY GroupsNext
<1>3. \A h : IsConnected(h)' <=> IsConnected(h)
  BY DEF Settled, IsConnected
<1>4. \A h \in DOMAIN groups' : h < group' /\ IsConnected(h)' => FinishedIn(picture, h)'
  BY <1>2, <1>3 DEF PictureAt, Settled
<1>5. row' # 0 => RowsSoFar(picture, group, row, laneColours)'
  <2> SUFFICES ASSUME row' # 0 PROVE RowsSoFar(picture, group, row, laneColours)'
    OBVIOUS
  <2>1. RowsSoFar(picture', group', row', laneColours')
    BY DEF PictureAt
  <2> QED
    BY <2>1, GroupsNext, LinesNext DEF RowsSoFar
<1> QED
  BY <1>1, <1>4, <1>5 DEF PictureAt

----------------------------------------------------------------------------
(* Every connected group is drawn as a whole.                             *)

\* Lanes in order that are drawn together, each of them once.
WellKept(lanes) ==
    /\ Together(ToSet(lanes))
    /\ \A i, j \in DOMAIN lanes : lanes[i] = lanes[j] => i = j

\* Ordering the lanes keeps them together.
LEMMA InOrderKept ==
  ASSUME NEW g, Proper(g), Together(ToSet(g.lanes))
  PROVE  WellKept(InOrder(g).lanes)
<1> DEFINE s == OrderedLanes(g.lanes)
<1>1. InOrder(g).lanes = s
  BY InOrderIs
<1>2. s \in Seq(ToSet(g.lanes)) /\ \A i, j \in DOMAIN s : i < j => s[i] # s[j]
  BY OrderedLanesIs DEF Proper, GroupLike
<1> HIDE DEF s
<1>3. ToSet(s) \subseteq ToSet(g.lanes) /\ DOMAIN s \subseteq Nat
  BY <1>2, OverIts
<1>4. Together(ToSet(s))
  BY <1>3 DEF Together
<1>5. \A i, j \in DOMAIN s : s[i] = s[j] => i = j
  BY <1>2, <1>3
<1> QED
  BY <1>1, <1>4, <1>5 DEF WellKept

\* sort_groups and ordered_lanes keep the lanes of every group together.
LEMMA ArrangeKept ==
  ASSUME Given, \A g \in ToSet(groups) : Together(ToSet(g.lanes)), Arrange
  PROVE  \A g \in DOMAIN groups' : WellKept(Lanes(g)')
<1> DEFINE S == {InOrder(g) : g \in ToSet(groups)}
           q == SortedGroups(S)
<1>1. groups' = q
  BY DEF Arrange, SortedGroups, InOrder
<1>2. IsFiniteSet(S)
  <2> DEFINE f == [g \in ToSet(groups) |-> InOrder(g)]
  <2>1. IsFiniteSet(ToSet(groups))
    BY ElementsAreFinite DEF Given
  <2>2. IsFiniteSet({f[g] : g \in ToSet(groups)})
    <3> HIDE DEF f
    <3> QED BY <2>1, ImageIsFinite
  <2>3. {f[g] : g \in ToSet(groups)} = S
    OBVIOUS
  <2> QED
    BY <2>2, <2>3
<1>3. \A h \in S : GroupLike(h) /\ WellKept(h.lanes)
  BY InOrderIs, InOrderKept DEF Given
<1>4. ASSUME NEW h \in S, NEW k \in S, h.base = k.base PROVE h = k
  <2>1. PICK g \in ToSet(groups) : h = InOrder(g)
    OBVIOUS
  <2>2. PICK f \in ToSet(groups) : k = InOrder(f)
    OBVIOUS
  <2>3. h.base = g.base /\ k.base = f.base
    BY <2>1, <2>2, InOrderIs DEF Given
  <2>4. g = f
    BY <1>4, <2>3 DEF Given
  <2> QED
    BY <2>1, <2>2, <2>4
<1> HIDE DEF S
<1>5. q \in Seq(S)
  BY <1>2, <1>3, <1>4, SortedGroupsIs
<1> HIDE DEF q
<1>6. \A g \in DOMAIN q : q[g] \in S
  BY <1>5
<1>7. \A g \in DOMAIN groups' : Lanes(g)' = groups'[g].lanes
  BY DEF Lanes
<1> QED
  BY <1>1, <1>3, <1>6, <1>7

\* Every connected group has been drawn as a whole.
AllFinished ==
    /\ IsSequence(picture)
    /\ \A h \in DOMAIN groups : IsConnected(h) => FinishedIn(picture, h)

\* What is known of the rows from the order of the lanes to the last of them.
Woven ==
    /\ pc = "arrange" => \A g \in ToSet(groups) : Together(ToSet(g.lanes))
    /\ pc # "arrange" => \A g \in DOMAIN groups : WellKept(Lanes(g))
    /\ pc = "draw" => PictureAt(picture, group, row, laneColours)
    /\ pc = "done" => AllFinished

\* The lanes of every repository.
LEMMA InitWoven == Init => Woven
<1> SUFFICES ASSUME Init PROVE Woven
  OBVIOUS
<1>1. PICK repository \in Repositories : groups = repository.groups
  BY DEF Init
<1>2. \A g \in ToSet(groups) : Together(ToSet(g.lanes))
  BY <1>1, DrawingAssumption
<1>3. pc = "arrange"
  BY DEF Init
<1> QED
  BY <1>2, <1>3 DEF Woven

\* The lanes stay as they are ordered.
LEMMA KeptNext ==
  ASSUME Settled, \A g \in DOMAIN groups : WellKept(Lanes(g))
  PROVE  \A g \in DOMAIN groups' : WellKept(Lanes(g))'
<1>1. groups' = groups /\ \A g : Lanes(g)' = Lanes(g)
  BY DEF Settled, Lanes
<1> QED
  BY <1>1 DEF WellKept, Together

\* Until the rows are drawn, the picture is empty.
LEMMA BeforeWoven ==
  ASSUME Sound, Woven, VisitRow \/ VisitGroup \/ LinkSegments \/ Colour \/ Shade
  PROVE  Woven'
<1>1. /\ pc \in {"segments", "colours"} /\ pc' \in {"segments", "colours", "draw"} /\ Settled
      /\ picture' = picture
  BY DEF VisitRow, VisitGroup, LinkSegments, Colour, Shade, inputVars, drawingVars, Settled
<1>2. \A g \in DOMAIN groups' : WellKept(Lanes(g))'
  BY <1>1, KeptNext DEF Woven
<1>3. CASE pc' # "draw"
  BY <1>1, <1>2, <1>3 DEF Woven
<1>4. CASE pc' = "draw"
  <2>1. Shade
    BY <1>4 DEF VisitRow, VisitGroup, LinkSegments, Colour
  <2>2. pc = "colours" /\ group' = group /\ row' = row
    BY <2>1 DEF Shade, passVars
  <2>3. group' = 1 /\ row' = 0 /\ picture' = <<>> /\ IsSequence(groups)
    BY <1>1, <2>2 DEF Sound, Arranged
  <2>4. OnlyTo(picture', group', row')
    BY <2>3, NoLine DEF OnlyTo
  <2>5. \A h \in DOMAIN groups : ~(h < group')
    BY <2>3 DEF IsSequence
  <2>6. PictureAt(picture', group', row', laneColours')
    BY <2>3, <2>4, <2>5 DEF PictureAt
  <2>7. PictureAt(picture, group, row, laneColours)'
    BY <1>1, <2>6, PictureNext
  <2> QED
    BY <1>1, <1>2, <1>4, <2>7 DEF Woven
<1> QED
  BY <1>3, <1>4

\* The rows are drawn on.
LEMMA DrawingWoven ==
  ASSUME Sound, Woven, OpenGroup \/ DrawRow \/ DrawTrunk \/ DrawOrphans \/ Finish
  PROVE  Woven'
<1>1. pc = "draw" /\ Settled
  BY DEF OpenGroup, DrawRow, DrawTrunk, DrawOrphans, Finish, inputVars, Settled
<1>2. Underway /\ PictureAt(picture, group, row, laneColours)
  BY <1>1 DEF Sound, Woven
<1>3. \A g \in DOMAIN groups' : WellKept(Lanes(g))'
  BY <1>1, KeptNext DEF Woven
<1>4. CASE OpenGroup \/ DrawRow \/ DrawTrunk \/ DrawOrphans
  <2>1. pc' = "draw"
    BY <1>1, <1>4 DEF OpenGroup, DrawRow, DrawTrunk, DrawOrphans
  <2>2. PictureAt(picture', group', row', laneColours')
    BY <1>2, <1>4, PictureOpens, PictureRows, PictureBases, PictureOrphans
  <2>3. PictureAt(picture, group, row, laneColours)'
    BY <1>1, <2>2, PictureNext
  <2> QED
    BY <1>3, <2>1, <2>3 DEF Woven
<1>5. CASE Finish
  <2>1. pc' = "done"
    BY <1>5 DEF Finish
  <2>2. IsSequence(picture') /\ \A h \in DOMAIN groups : IsConnected(h) => FinishedIn(picture', h)
    BY <1>2, <1>5, PictureEnds
  <2>3. \A h : (IsConnected(h)' <=> IsConnected(h)) /\ (FinishedIn(picture, h)' <=> FinishedIn(picture', h))
    <3>1. \A h : IsConnected(h)' <=> IsConnected(h)
      BY <1>1 DEF Settled, IsConnected
    <3> QED
      BY <1>1, <3>1, GroupsNext
  <2>4. AllFinished'
    BY <1>1, <2>2, <2>3 DEF AllFinished, IsSequence, Settled
  <2> QED
    BY <1>3, <2>1, <2>4 DEF Woven
<1> QED
  BY <1>4, <1>5

\* A step that changes nothing.
LEMMA StutterWoven ==
  ASSUME Woven, UNCHANGED vars
  PROVE  Woven'
<1>1. UNCHANGED <<groups, prepared, main, group, row, pc, laneColours, picture>>
  BY DEF vars, inputVars, passVars, drawingVars
<1>2. Settled
  BY <1>1 DEF Settled
<1>3. pc' = "arrange" => \A g \in ToSet(groups') : Together(ToSet(g.lanes))'
  BY <1>1 DEF Woven, Together
<1>4. pc' # "arrange" => \A g \in DOMAIN groups' : WellKept(Lanes(g))'
  BY <1>1, <1>2, KeptNext DEF Woven
<1>5. pc' = "draw" => PictureAt(picture, group, row, laneColours)'
  BY <1>1, <1>2, PictureNext DEF Woven
<1>6. pc' = "done" => AllFinished'
  <2>1. \A h : (IsConnected(h)' <=> IsConnected(h)) /\ (FinishedIn(picture, h)' <=> FinishedIn(picture', h))
    <3>1. \A h : IsConnected(h)' <=> IsConnected(h)
      BY <1>1 DEF IsConnected
    <3> QED
      BY <1>2, <3>1, GroupsNext
  <2> QED
    BY <1>1, <2>1 DEF Woven, AllFinished, IsSequence
<1> QED
  BY <1>1, <1>3, <1>4, <1>5, <1>6 DEF Woven

\* What is known of the rows is kept by every step.
LEMMA NextWoven ==
  ASSUME Sound, Woven, [Next]_vars
  PROVE  Woven'
<1>1. CASE Arrange
  <2>1. pc = "arrange" /\ pc' = "segments"
    BY <1>1 DEF Arrange
  <2>2. \A g \in DOMAIN groups' : WellKept(Lanes(g)')
    BY <1>1, <2>1, ArrangeKept DEF Sound, Woven
  <2>3. \A g \in DOMAIN groups' : WellKept(Lanes(g))'
    BY <2>2 DEF WellKept, Together
  <2> QED
    BY <2>1, <2>3 DEF Woven
<1> QED
  BY <1>1, BeforeWoven, DrawingWoven, StutterWoven DEF Next

\* Every group that has been drawn can be read.
LEMMA DrawnIsTraced ==
  ASSUME Sound, Woven, pc = "done", NEW g \in DOMAIN groups, IsConnected(g)
  PROVE  Traced(Drawn(g), Followed(g), g)
<1>1. Arranged /\ IsSequence(picture) /\ FinishedIn(picture, g) /\ WellKept(Lanes(g))
  BY DEF Sound, Underway, Woven, AllFinished
<1>2. Lanelike(Lanes(g)) /\ (\A lane \in ToSet(Lanes(g)) : IsLane(lane)) /\ Len(Rows(g)) \in Nat
  BY <1>1, RowsAreFit
<1>3. Together(ToSet(Lanes(g))) /\ Separate(Lanes(g))
      /\ \A l \in DOMAIN Lanes(g) : Len(Contents(Lanes(g)[l])) > 0
  BY <1>1, <1>2, SeparateIs DEF WellKept
<1>4. PICK q : RowsFrom(q, g)
  BY <1>1, GroupTraversal
<1>5. PICK at : Complete(Drawn(g), g, at)
  BY <1>1, <1>2, DrawnIs
<1>6. Readable(Drawn(g), g, at, q)
  BY <1>1, <1>3, <1>4, <1>5 DEF Readable
<1>7. Len(Drawn(g)) \in Nat /\ Len(Lanes(g)) \in Nat
  <2>1. Len(Rows(g)) \in 0..Len(Rows(g))
    BY <1>2
  <2>2. at[Len(Rows(g))] \in Nat /\ Len(Drawn(g)) = at[Len(Rows(g))] + 1
    BY <1>5, <2>1 DEF Complete, Listed
  <2>3. Len(Lanes(g)) \in Nat
    BY <1>2 DEF Lanelike
  <2> QED
    BY <2>2, <2>3
<1>8. Follows(Followed(g), Drawn(g), Len(Lanes(g)))
  BY <1>7, FollowedIs
<1>9. Eyed(Followed(g), Drawn(g), g, at, q)
  BY <1>6, <1>8 DEF Eyed
<1> QED
  BY <1>3, <1>9, GroupIsTraced

LEMMA WovenTraces == Sound /\ Woven => DrawingTracesLanes
<1> SUFFICES ASSUME Sound, Woven, Done, NEW g \in DOMAIN groups, IsConnected(g)
             PROVE  LET rows == Drawn(g)
                        followed == Followed(g)
                        commits(l) == {i \in DOMAIN rows : rows[i].kind = "commit" /\ Glyph(rows[i], l) = "commit"}
                        lowest == {c \in (DOMAIN rows) \X (DOMAIN Lanes(g)) : c[1] \in commits(c[2])}
                    IN  /\ \A l \in DOMAIN Lanes(g) :
                               commits(l) # {} /\ followed[<<Min(commits(l)), l>>] = Shown(Lanes(g)[l])
                        /\ \A i \in DOMAIN rows : \A l \in DOMAIN Lanes(g) :
                               Glyph(rows[i], l) \in {"line", "fork", "tee", "end"} =>
                                   i > 1 /\ Glyph(rows[i - 1], l) \in {"commit", "line", "fork"}
                        /\ \A a, b \in lowest : a # b => followed[a] # followed[b]
  BY DEF DrawingTracesLanes
<1>1. Traced(Drawn(g), Followed(g), g)
  BY DrawnIsTraced DEF Done
<1> QED
  BY <1>1 DEF Traced, Commits

\* Whoever follows a lane of a finished picture down from its topmost commit meets
\* the commits of that lane and then its base, nothing hangs in the air, and no two
\* rows have the same path below them: render_group draws the rows of
\* shared_ancestry so that each lane reads as it is.
THEOREM LanesAreTraced == Spec => []DrawingTracesLanes
<1>1. Init => Sound /\ Woven
  BY InitSound, InitWoven
<1>2. Sound /\ Woven /\ [Next]_vars => Sound' /\ Woven'
  BY NextSound, NextWoven
<1>3. Sound /\ Woven => DrawingTracesLanes
  BY WovenTraces
<1> QED
  BY <1>1, <1>2, <1>3, PTL DEF Spec
=============================================================================
