------------------------- MODULE LaneAnalysisProofs -------------------------
(***************************************************************************)
(* The lanes and groups that the analysis finds are those the repository   *)
(* has, for every history, however many commits, merges and branches, on   *)
(* both backends and whatever they keep between queries.                   *)
(*                                                                         *)
(* The algorithms of src/src/backend/graph.rs come first: the boundary of  *)
(* a range proves merge bases, the bits it carries count descendants, and  *)
(* the summary of a corridor without merges is true to the commits it      *)
(* stands for.  A recursive function is unfolded through SolvedByRank, and *)
(* every induction is over the least commit for which a claim fails.       *)
(*                                                                         *)
(* Inv says that what the backend remembers is true of the repository and  *)
(* that each stage has selected what it should; LaneInv adds that every    *)
(* lane is exact and that nothing selected has been lost on the way.       *)
(*                                                                         *)
(* A snapshot is a Table of points.  No two positions of a Table lead down *)
(* the same way (WaysDiffer), adding to it leaves the ways it has          *)
(* (WaysKept), and Share adds the one way it is asked for or finds it      *)
(* (ShareIs); so any lanes come back from a snapshot (DecodeEncoded), as   *)
(* long as commit and count make out a point, as those of an analysis do.  *)
(***************************************************************************)
EXTENDS LaneAnalysis, FiniteSetTheorems, WellFoundedInduction, TLAPS

\* A nonempty set of numbers has a least member: the induction the proofs use.
LEMMA LeastNatural ==
  ASSUME NEW S \in SUBSET Nat, S # {}
  PROVE  \E n \in S : \A m \in S : n <= m
<1>1. PICK n \in S : \A m \in S : ~(<<m, n>> \in OpToRel(<, Nat))
  BY NatLessThanWellFounded, WFMin, Zenon
<1>2. \A m \in S : ~(m < n)
  BY <1>1 DEF OpToRel
<1> QED
  BY <1>2

\* A nonempty bounded set of numbers has a greatest member.
LEMMA GreatestNatural ==
  ASSUME NEW S \in SUBSET Nat, S # {}, NEW b \in Nat, \A s \in S : s <= b
  PROVE  \E n \in S : \A m \in S : m <= n
<1> DEFINE over == {k \in Nat : \A s \in S : s <= k}
<1>1. PICK k \in over : \A l \in over : k <= l
  BY LeastNatural
<1>2. CASE k \in S
  BY <1>2, <1>1
<1>3. CASE k \notin S
  <2>1. \A s \in S : s < k
    BY <1>3, <1>1
  <2>2. k - 1 \in Nat
    <3>1. PICK s \in S : s < k
      BY <2>1
    <3> QED
      BY <3>1
  <2>3. k - 1 \in over
    BY <2>1, <2>2
  <2> QED
    BY <2>3, <1>1
<1> QED
  BY <1>2, <1>3

\* Recursion over a rank: an equation that refers only to smaller ranks has a solution.
Recursion(D, V, F, rank) ==
    /\ V # {}
    /\ rank \in [D -> Nat]
    /\ \E bound \in Nat : \A c \in D : rank[c] < bound
    /\ F \in [D \X [D -> V] -> V]
    /\ \A c \in D : \A f, g \in [D -> V] :
          (\A d \in D : rank[d] < rank[c] => f[d] = g[d]) => F[<<c, f>>] = F[<<c, g>>]

\* The recursion has a solution.
Solvable(D, V, F) == \E f \in [D -> V] : \A c \in D : f[c] = F[<<c, f>>]

\* A recursion whose every value depends on values of smaller rank only has a
\* solution: what the recursive functions of graph.rs are unfolded with.
LEMMA SolvedByRank ==
  ASSUME NEW D, NEW V, NEW F, NEW rank, Recursion(D, V, F, rank)
  PROVE  Solvable(D, V, F)
<1> USE DEF Recursion, Solvable
<1>v. PICK v \in V : TRUE
  OBVIOUS
<1>b. PICK bound \in Nat : \A c \in D : rank[c] < bound
  OBVIOUS
<1> DEFINE Solves(f, n) == \A c \in D : rank[c] < n => f[c] = F[<<c, f>>]
           unsolved == {n \in Nat : \A f \in [D -> V] : ~Solves(f, n)}
<1>1. unsolved = {}
  <2> SUFFICES ASSUME unsolved # {} PROVE FALSE
    OBVIOUS
  <2>1. PICK n \in unsolved : \A m \in unsolved : n <= m
    BY LeastNatural
  <2>2. n # 0
    <3>1. [c \in D |-> v] \in [D -> V] /\ Solves([c \in D |-> v], 0)
      OBVIOUS
    <3> QED
      BY <3>1
  <2>3. n - 1 \in Nat /\ n - 1 \notin unsolved
    <3> HIDE DEF Solves
    <3> QED BY <2>1, <2>2
  <2>4. PICK f \in [D -> V] : Solves(f, n - 1)
    <3> HIDE DEF Solves
    <3> QED BY <2>3
  <2> DEFINE g == [c \in D |-> IF rank[c] < n - 1 THEN f[c] ELSE F[<<c, f>>]]
  <2>5. g \in [D -> V]
    OBVIOUS
  <2>6. Solves(g, n)
    <3> SUFFICES ASSUME NEW c \in D, rank[c] < n PROVE g[c] = F[<<c, g>>]
      OBVIOUS
    <3>1. \A d \in D : rank[d] < rank[c] => f[d] = g[d]
      BY n \in Nat
    <3>2. F[<<c, f>>] = F[<<c, g>>]
      <4> HIDE DEF g
      <4> QED BY <3>1, <2>5
    <3>3. g[c] = F[<<c, f>>]
      BY <2>4
    <3> QED
      BY <3>2, <3>3
  <2> QED
    <3> HIDE DEF Solves, g
    <3> QED BY <2>5, <2>6
<1>2. PICK f \in [D -> V] : Solves(f, bound)
  <2> HIDE DEF Solves
  <2> QED BY <1>1
<1> QED
  BY <1>2, <1>b

\* Finitely many commits, numbered after their parents.
IsHistory(h) ==
    /\ DOMAIN h \subseteq Nat \ {0}
    /\ \E n \in Nat : \A c \in DOMAIN h : c < n
    /\ \A c \in DOMAIN h : \A p \in h[c] : p < c /\ p \in DOMAIN h

\* The ancestors of a commit are itself and those of its parents.
LEMMA AncestryUnfolds ==
  ASSUME NEW h, IsHistory(h), NEW c \in DOMAIN h
  PROVE  Ancestry(h, c) = {c} \cup UNION {Ancestry(h, p) : p \in h[c]}
<1> DEFINE D == DOMAIN h
           V == SUBSET D
           rank == [d \in D |-> d]
           F == [x \in D \X [D -> V] |-> {x[1]} \cup UNION {x[2][p] : p \in h[x[1]]}]
           Is(f) == f = [d \in D |-> {d} \cup UNION {f[p] : p \in h[d]}]
           reach == CHOOSE f : Is(f)
<1>1. PICK n \in Nat : \A d \in D : rank[d] < n
  BY DEF IsHistory
<1>2. rank \in [D -> Nat]
  BY DEF IsHistory
<1>3. \A d \in D : \A f \in [D -> V] : F[<<d, f>>] = {d} \cup UNION {f[p] : p \in h[d]}
  OBVIOUS
<1>4. F \in [D \X [D -> V] -> V]
  BY DEF IsHistory
<1>5. \A d \in D : \A f, g \in [D -> V] :
         (\A e \in D : rank[e] < rank[d] => f[e] = g[e]) => F[<<d, f>>] = F[<<d, g>>]
  <2> SUFFICES ASSUME NEW d \in D, NEW f \in [D -> V], NEW g \in [D -> V],
                      \A e \in D : rank[e] < rank[d] => f[e] = g[e]
               PROVE  F[<<d, f>>] = F[<<d, g>>]
    OBVIOUS
  <2>1. \A p \in h[d] : f[p] = g[p]
    BY DEF IsHistory
  <2>2. {f[p] : p \in h[d]} = {g[p] : p \in h[d]}
    BY <2>1
  <2>3. F[<<d, f>>] = {d} \cup UNION {f[p] : p \in h[d]} /\ F[<<d, g>>] = {d} \cup UNION {g[p] : p \in h[d]}
    BY <1>3
  <2> QED
    BY <2>3, <2>2, Zenon
<1>6. PICK f \in [D -> V] : \A d \in D : f[d] = F[<<d, f>>]
  <2>1. Recursion(D, V, F, rank)
    <3>1. {} \in V
      OBVIOUS
    <3> HIDE DEF F, rank, D, V
    <3> QED
      BY <3>1, <1>1, <1>2, <1>4, <1>5 DEF Recursion
  <2>2. Solvable(D, V, F)
    <3> HIDE DEF F, rank, D, V
    <3> QED
      BY <2>1, SolvedByRank
  <2> QED
    BY <2>2 DEF Solvable
<1>7. Is(f)
  <2>1. \A d \in D : f[d] = {d} \cup UNION {f[p] : p \in h[d]}
    <3> HIDE DEF F
    <3> QED BY <1>3, <1>6
  <2> QED
    BY <2>1
<1>8. Is(reach)
  <2> HIDE DEF Is
  <2> QED BY <1>7
<1>9. \A d : Ancestry(h, d) = reach[d]
  BY DEF Ancestry
<1>10. \A d \in D : reach[d] = {d} \cup UNION {reach[p] : p \in h[d]}
  <2> HIDE DEF reach
  <2> QED BY <1>8
<1>11. \A p : p \in h[c] => Ancestry(h, p) = reach[p]
  BY <1>9
<1>12. {Ancestry(h, p) : p \in h[c]} = {reach[p] : p \in h[c]}
  <2> HIDE DEF reach
  <2> QED BY <1>11
<1> QED
  <2> HIDE DEF reach
  <2> QED BY <1>9, <1>10, <1>12

\* A commit reaches itself.
LEMMA AncestryReflexive ==
  ASSUME NEW h, IsHistory(h), NEW c \in DOMAIN h
  PROVE  c \in Ancestry(h, c)
BY AncestryUnfolds

\* A commit reaches what its parents reach.
LEMMA AncestryOfParent ==
  ASSUME NEW h, IsHistory(h), NEW c \in DOMAIN h, NEW p \in h[c]
  PROVE  Ancestry(h, p) \subseteq Ancestry(h, c)
BY AncestryUnfolds

\* What a commit reaches it reaches through a parent.
LEMMA AncestryByParent ==
  ASSUME NEW h, IsHistory(h), NEW c \in DOMAIN h, NEW x \in Ancestry(h, c), x # c
  PROVE  \E p \in h[c] : x \in Ancestry(h, p)
BY AncestryUnfolds

\* Ancestors are commits, numbered no higher than their descendant.
LEMMA AncestryBounded ==
  ASSUME NEW h, IsHistory(h), NEW c \in DOMAIN h, NEW x \in Ancestry(h, c)
  PROVE  x \in DOMAIN h /\ x <= c
<1> DEFINE Ok(d) == \A y \in Ancestry(h, d) : y \in DOMAIN h /\ y <= d
           bad == {d \in DOMAIN h : ~Ok(d)}
<1>1. bad = {}
  <2> SUFFICES ASSUME bad # {} PROVE FALSE
    OBVIOUS
  <2>1. bad \in SUBSET Nat
    BY DEF IsHistory
  <2>2. PICK d \in bad : \A e \in bad : d <= e
    <3> HIDE DEF bad
    <3> QED BY <2>1, LeastNatural
  <2>3. PICK y \in Ancestry(h, d) : ~(y \in DOMAIN h /\ y <= d)
    BY <2>2
  <2>4. y # d
    BY <2>1, <2>2, <2>3
  <2>5. PICK p \in h[d] : y \in Ancestry(h, p)
    BY <2>2, <2>4, AncestryByParent
  <2>6. p \in DOMAIN h /\ p < d
    BY <2>2, <2>5 DEF IsHistory
  <2>7. p \in bad
    BY <2>1, <2>2, <2>3, <2>5, <2>6 DEF IsHistory
  <2> QED
    BY <2>1, <2>2, <2>6, <2>7
<1> QED
  BY <1>1

\* What an ancestor reaches its descendant reaches.
LEMMA AncestryTransitive ==
  ASSUME NEW h, IsHistory(h), NEW c \in DOMAIN h, NEW y \in Ancestry(h, c)
  PROVE  Ancestry(h, y) \subseteq Ancestry(h, c)
<1> DEFINE Ok(d) == \A z \in Ancestry(h, d) : Ancestry(h, z) \subseteq Ancestry(h, d)
           bad == {d \in DOMAIN h : ~Ok(d)}
<1>1. bad = {}
  <2> SUFFICES ASSUME bad # {} PROVE FALSE
    OBVIOUS
  <2>1. bad \in SUBSET Nat
    BY DEF IsHistory
  <2>2. PICK d \in bad : \A e \in bad : d <= e
    <3> HIDE DEF bad
    <3> QED BY <2>1, LeastNatural
  <2>3. PICK z \in Ancestry(h, d) : ~(Ancestry(h, z) \subseteq Ancestry(h, d))
    BY <2>2
  <2>4. z # d
    BY <2>3
  <2>5. PICK p \in h[d] : z \in Ancestry(h, p)
    BY <2>2, <2>4, AncestryByParent
  <2>6. p \in DOMAIN h /\ p < d
    BY <2>2, <2>5 DEF IsHistory
  <2>7. p \notin bad
    BY <2>1, <2>2, <2>6 DEF IsHistory
  <2>8. Ancestry(h, z) \subseteq Ancestry(h, p)
    BY <2>5, <2>6, <2>7
  <2> QED
    BY <2>2, <2>3, <2>5, <2>8, AncestryOfParent
<1> QED
  BY <1>1

\* Two commits that reach each other are one.
LEMMA AncestryAntisymmetric ==
  ASSUME NEW h, IsHistory(h), NEW c \in DOMAIN h, NEW d \in DOMAIN h,
         c \in Ancestry(h, d), d \in Ancestry(h, c)
  PROVE  c = d
<1>1. c <= d /\ d <= c
  BY AncestryBounded
<1> QED
  BY <1>1 DEF IsHistory

\* The last step on the way from a commit to one of its ancestors.
LEMMA AncestryByChild ==
  ASSUME NEW h, IsHistory(h), NEW c \in DOMAIN h, NEW x \in Ancestry(h, c), x # c
  PROVE  \E d \in Ancestry(h, c) : x \in h[d]
<1> DEFINE Ok(e) == \A y \in Ancestry(h, e) : y # e => \E d \in Ancestry(h, e) : y \in h[d]
           bad == {e \in DOMAIN h : ~Ok(e)}
<1>1. bad = {}
  <2> SUFFICES ASSUME bad # {} PROVE FALSE
    OBVIOUS
  <2>1. bad \in SUBSET Nat
    BY DEF IsHistory
  <2>2. PICK e \in bad : \A f \in bad : e <= f
    <3> HIDE DEF bad
    <3> QED BY <2>1, LeastNatural
  <2>3. PICK y \in Ancestry(h, e) : y # e /\ \A d \in Ancestry(h, e) : y \notin h[d]
    BY <2>2
  <2>4. PICK p \in h[e] : y \in Ancestry(h, p)
    BY <2>2, <2>3, AncestryByParent
  <2>5. p \in DOMAIN h /\ p < e
    BY <2>2, <2>4 DEF IsHistory
  <2>6. p \notin bad
    BY <2>1, <2>2, <2>5 DEF IsHistory
  <2>7. y # p
    BY <2>2, <2>3, <2>4, AncestryReflexive
  <2>8. PICK d \in Ancestry(h, p) : y \in h[d]
    BY <2>4, <2>5, <2>6, <2>7
  <2> QED
    BY <2>2, <2>3, <2>4, <2>8, AncestryOfParent
<1> QED
  BY <1>1

----------------------------------------------------------------------------
\* Reachable from tips is what some tip reaches.
LEMMA ReachableIs ==
  ASSUME NEW h, NEW tips, NEW c
  PROVE  c \in Reachable(h, tips) <=> \E t \in tips : c \in Ancestry(h, t)
BY DEF Reachable

\* Every tip is reached from a tip that no other reaches.
LEMMA MaximalAbove ==
  ASSUME NEW h, IsHistory(h), NEW tips \in SUBSET DOMAIN h, NEW t \in tips
  PROVE  \E m \in Maximal(h, tips) : t \in Ancestry(h, m)
<1> DEFINE above == {u \in tips : t \in Ancestry(h, u)}
<1>1. PICK n \in Nat : \A c \in DOMAIN h : c < n
  BY DEF IsHistory
<1>2. above \in SUBSET Nat /\ \A u \in above : u <= n
  BY <1>1 DEF IsHistory
<1>3. t \in above
  BY AncestryReflexive
<1>4. PICK m \in above : \A u \in above : u <= m
  <2> HIDE DEF above
  <2> QED BY <1>2, <1>3, GreatestNatural
<1>5. \A u \in tips \ {m} : m \notin Ancestry(h, u)
  <2> SUFFICES ASSUME NEW u \in tips \ {m}, m \in Ancestry(h, u) PROVE FALSE
    OBVIOUS
  <2>1. u \in above
    BY <1>4, AncestryTransitive
  <2>2. m <= u
    BY AncestryBounded
  <2> QED
    BY <2>1, <2>2, <1>4, <1>2
<1> QED
  BY <1>4, <1>5 DEF Maximal

\* A range closed upwards finds the maximal tips by their parents alone.
LEMMA HeadsOfRange ==
  ASSUME NEW h, IsHistory(h), NEW trunk \in DOMAIN h, NEW tips \in SUBSET DOMAIN h,
         tips \cap Ancestry(h, trunk) = {}
  PROVE  LET nodes == Walk(h, tips, {trunk})
         IN  tips \ UNION {nodes[c] : c \in DOMAIN nodes} = Maximal(h, tips)
<1> DEFINE nodes == Walk(h, tips, {trunk})
<1>1. \A c : c \in DOMAIN nodes <=> c \notin Ancestry(h, trunk) /\ \E t \in tips : c \in Ancestry(h, t)
  BY DEF Walk, Reachable
<1>2. \A c \in DOMAIN nodes : nodes[c] = h[c]
  BY DEF Walk
<1> HIDE DEF nodes
<1>3. ASSUME NEW t \in tips, \A c \in DOMAIN nodes : t \notin nodes[c]
      PROVE  t \in Maximal(h, tips)
  <2> SUFFICES ASSUME NEW u \in tips \ {t}, t \in Ancestry(h, u) PROVE FALSE
    BY DEF Maximal
  <2>1. PICK d \in Ancestry(h, u) : t \in h[d]
    BY AncestryByChild
  <2>2. d \in DOMAIN h
    BY AncestryBounded
  <2>3. t \in Ancestry(h, d)
    BY <2>1, <2>2, AncestryOfParent, AncestryReflexive
  <2>4. d \notin Ancestry(h, trunk)
    BY <2>3, AncestryTransitive
  <2> QED
    BY <2>1, <2>4, <1>1, <1>2, <1>3
<1>4. ASSUME NEW t \in Maximal(h, tips), NEW c \in DOMAIN nodes, t \in nodes[c]
      PROVE  FALSE
  <2>1. PICK u \in tips : c \in Ancestry(h, u)
    BY <1>1
  <2>2. c \in DOMAIN h /\ c <= u
    BY <2>1, AncestryBounded
  <2>3. t \in h[c]
    BY <1>2, <1>4
  <2>4. t < c /\ t \in Ancestry(h, c)
    BY <2>2, <2>3, AncestryOfParent, AncestryReflexive DEF IsHistory
  <2>5. t \in Ancestry(h, u)
    BY <2>1, <2>4, AncestryTransitive
  <2>6. u # t
    BY <2>2, <2>4 DEF IsHistory
  <2> QED
    BY <2>5, <2>6 DEF Maximal
<1> QED
  BY <1>3, <1>4 DEF Maximal, nodes

----------------------------------------------------------------------------
(* Ranges.                                                                    *)

\* Finitely many commits of a history; parents may lie outside.
IsRange(nodes) ==
    /\ DOMAIN nodes \subseteq Nat
    /\ \E n \in Nat : \A c \in DOMAIN nodes : c < n
    /\ \A c \in DOMAIN nodes : \A p \in nodes[c] : p < c /\ p \in Nat

\* The commits of the tips that the hidden ones do not have.
IsOutside(h, nodes, tips, hidden) ==
    /\ IsRange(nodes)
    /\ DOMAIN nodes \subseteq DOMAIN h
    /\ \A c : c \in DOMAIN nodes <=>
          (\E t \in tips : c \in Ancestry(h, t)) /\ ~(\E t \in hidden : c \in Ancestry(h, t))
    /\ \A c \in DOMAIN nodes : nodes[c] = h[c]

\* A walk returns what its tips reach and the hidden commits do not.
LEMMA WalkIsOutside ==
  ASSUME NEW h, IsHistory(h), NEW tips \in SUBSET DOMAIN h, NEW hidden
  PROVE  IsOutside(h, Walk(h, tips, hidden), tips, hidden)
<1> DEFINE nodes == Walk(h, tips, hidden)
<1>1. /\ DOMAIN nodes = Reachable(h, tips) \ Reachable(h, hidden)
      /\ \A c \in DOMAIN nodes : nodes[c] = h[c]
  BY DEF Walk
<1> HIDE DEF nodes
<1>2. \A c : c \in DOMAIN nodes <=>
         (\E t \in tips : c \in Ancestry(h, t)) /\ ~(\E t \in hidden : c \in Ancestry(h, t))
  BY <1>1, ReachableIs
<1>3. DOMAIN nodes \subseteq DOMAIN h
  BY <1>2, AncestryBounded
<1>4. IsRange(nodes)
  BY <1>1, <1>3 DEF IsHistory, IsRange
<1> QED
  BY <1>1, <1>2, <1>3, <1>4 DEF nodes, IsOutside

\* The commits of the tips that main does not have.
IsAbove(h, nodes, tips, trunk) ==
    /\ IsRange(nodes)
    /\ DOMAIN nodes \subseteq DOMAIN h
    /\ \A c : c \in DOMAIN nodes <=>
          (\E t \in tips : c \in Ancestry(h, t)) /\ c \notin Ancestry(h, trunk)
    /\ \A c \in DOMAIN nodes : nodes[c] = h[c]

\* A walk that hides main alone is a range above main.
LEMMA WalkIsAbove ==
  ASSUME NEW h, IsHistory(h), NEW tips \in SUBSET DOMAIN h, NEW trunk
  PROVE  IsAbove(h, Walk(h, tips, {trunk}), tips, trunk)
<1> DEFINE nodes == Walk(h, tips, {trunk})
<1>1. IsOutside(h, nodes, tips, {trunk})
  BY WalkIsOutside
<1> HIDE DEF nodes
<1> QED
  BY <1>1 DEF IsAbove, IsOutside, nodes

\* Where the history of a commit leaves a range: through its own parents or
\* through those of its parents in the range (graph.rs:174).
LEMMA BoundaryUnfolds ==
  ASSUME NEW nodes, IsRange(nodes), NEW c \in DOMAIN nodes
  PROVE  Boundary(nodes)[c] = (nodes[c] \ DOMAIN nodes)
             \cup UNION {Boundary(nodes)[p] : p \in nodes[c] \cap DOMAIN nodes}
<1> DEFINE D == DOMAIN nodes
           V == SUBSET UNION {nodes[d] : d \in D}
           rank == [d \in D |-> d]
           Value(d, f) == (nodes[d] \ D) \cup UNION {f[p] : p \in nodes[d] \cap D}
           F == [x \in D \X [D -> V] |-> Value(x[1], x[2])]
           Is(f) == f = [d \in D |-> Value(d, f)]
           outside == CHOOSE f : Is(f)
<1>1. PICK n \in Nat : \A d \in D : rank[d] < n
  BY DEF IsRange
<1>2. rank \in [D -> Nat]
  BY DEF IsRange
<1>3. \A d \in D : \A f \in [D -> V] : F[<<d, f>>] = Value(d, f)
  OBVIOUS
<1>4. F \in [D \X [D -> V] -> V]
  <2> SUFFICES ASSUME NEW d \in D, NEW f \in [D -> V] PROVE Value(d, f) \in V
    OBVIOUS
  <2>1. \A p \in D : f[p] \in V
    OBVIOUS
  <2> QED
    BY <2>1
<1>5. \A d \in D : \A f, g \in [D -> V] :
         (\A e \in D : rank[e] < rank[d] => f[e] = g[e]) => F[<<d, f>>] = F[<<d, g>>]
  <2>1. ASSUME NEW d \in D, NEW f \in [D -> V], NEW g \in [D -> V],
               \A e \in D : rank[e] < rank[d] => f[e] = g[e]
        PROVE  Value(d, f) = Value(d, g)
    <3>1. \A p \in nodes[d] \cap D : f[p] = g[p]
      BY <2>1 DEF IsRange
    <3> QED
      BY <3>1
  <2> HIDE DEF F, Value
  <2> QED
    BY <2>1, <1>3
<1>6. PICK f \in [D -> V] : \A d \in D : f[d] = F[<<d, f>>]
  <2>1. Recursion(D, V, F, rank)
    <3>1. {} \in V
      OBVIOUS
    <3> HIDE DEF F, rank, D, V
    <3> QED
      BY <3>1, <1>1, <1>2, <1>4, <1>5 DEF Recursion
  <2>2. Solvable(D, V, F)
    <3> HIDE DEF F, rank, D, V
    <3> QED
      BY <2>1, SolvedByRank
  <2> QED
    BY <2>2 DEF Solvable
<1>7. Is(f)
  <2>1. \A d \in D : f[d] = Value(d, f)
    <3> HIDE DEF F, Value
    <3> QED BY <1>3, <1>6
  <2> QED
    BY <2>1
<1>8. Is(outside)
  <2> HIDE DEF Is
  <2> QED BY <1>7
<1>9. Boundary(nodes) = outside
  BY DEF Boundary
<1> QED
  <2> HIDE DEF outside
  <2> QED BY <1>8, <1>9

\* The boundary of a range above main is where histories enter that of main.
LEMMA BoundaryIsExit ==
  ASSUME NEW h, IsHistory(h), NEW trunk \in DOMAIN h, NEW tips \in SUBSET DOMAIN h,
         NEW nodes, IsAbove(h, nodes, tips, trunk), NEW c \in DOMAIN nodes
  PROVE  /\ Boundary(nodes)[c] \subseteq Ancestry(h, c) \cap Ancestry(h, trunk)
         /\ \A x \in Ancestry(h, c) \cap Ancestry(h, trunk) :
               \E p \in Boundary(nodes)[c] : x \in Ancestry(h, p)
<1> DEFINE out(d) == Boundary(nodes)[d]
           common(d) == Ancestry(h, d) \cap Ancestry(h, trunk)
           Ok(d) == /\ out(d) \subseteq common(d)
                    /\ \A x \in common(d) : \E p \in out(d) : x \in Ancestry(h, p)
           bad == {d \in DOMAIN nodes : ~Ok(d)}
<1>0. /\ IsRange(nodes) /\ DOMAIN nodes \subseteq DOMAIN h
      /\ \A d : d \in DOMAIN nodes <=>
            (\E t \in tips : d \in Ancestry(h, t)) /\ d \notin Ancestry(h, trunk)
      /\ \A d \in DOMAIN nodes : nodes[d] = h[d]
  BY DEF IsAbove
<1>1. \A d \in DOMAIN nodes : \A x : x \in out(d) <=>
         \/ x \in h[d] \ DOMAIN nodes
         \/ \E p \in h[d] \cap DOMAIN nodes : x \in out(p)
  BY <1>0, BoundaryUnfolds
<1> HIDE DEF out
<1>2. bad = {}
  <2> SUFFICES ASSUME bad # {} PROVE FALSE
    OBVIOUS
  <2>1. bad \in SUBSET Nat
    BY <1>0 DEF IsRange
  <2>2. PICK d \in bad : \A e \in bad : d <= e
    <3> HIDE DEF bad
    <3> QED BY <2>1, LeastNatural
  <2>3. \A p \in h[d] : p \in DOMAIN h /\ p < d /\ Ancestry(h, p) \subseteq Ancestry(h, d)
                          /\ p \in Ancestry(h, p)
    BY <2>2, <1>0, AncestryOfParent, AncestryReflexive DEF IsHistory
  <2>4. \A p \in h[d] \cap DOMAIN nodes : Ok(p)
    BY <2>1, <2>2, <2>3 DEF IsHistory
  <2>5. ASSUME NEW x \in out(d) PROVE x \in common(d)
    <3>1. CASE x \in h[d] \ DOMAIN nodes
      <4>1. PICK t \in tips : d \in Ancestry(h, t)
        BY <1>0, <2>2
      <4>2. x \in Ancestry(h, t)
        BY <4>1, <3>1, <2>3, AncestryTransitive
      <4>3. x \in Ancestry(h, trunk)
        BY <4>2, <3>1, <1>0
      <4> QED
        BY <4>3, <2>3, <3>1
    <3>2. CASE \E p \in h[d] \cap DOMAIN nodes : x \in out(p)
      BY <3>2, <2>3, <2>4
    <3> QED
      BY <3>1, <3>2, <1>1, <2>2
  <2>6. ASSUME NEW x \in common(d) PROVE \E p \in out(d) : x \in Ancestry(h, p)
    <3>1. x # d
      BY <1>0, <2>2
    <3>2. PICK q \in h[d] : x \in Ancestry(h, q)
      BY <3>1, <1>0, <2>2, AncestryByParent
    <3>3. CASE q \in DOMAIN nodes
      BY <3>2, <3>3, <2>4, <1>1, <2>2
    <3>4. CASE q \notin DOMAIN nodes
      BY <3>2, <3>4, <1>1, <2>2
    <3> QED
      BY <3>3, <3>4
  <2> QED
    BY <2>2, <2>5, <2>6
<1> QED
  <2> Ok(c)
    BY <1>2
  <2> QED
    BY DEF out

\* When all that two commits share is what one commit reaches, it is their
\* merge base.
LEMMA BestOfOneExit ==
  ASSUME NEW h, IsHistory(h), NEW a, NEW b, NEW p \in DOMAIN h,
         Ancestry(h, a) \cap Ancestry(h, b) = Ancestry(h, p)
  PROVE  BestBases(h, a, b) = {p}
<1> DEFINE common == Ancestry(h, p)
<1>1. BestBases(h, a, b) = Maximal(h, common)
  BY DEF BestBases
<1>2. p \in Maximal(h, common)
  <2> SUFFICES ASSUME NEW u \in common \ {p}, p \in Ancestry(h, u) PROVE FALSE
    BY AncestryReflexive DEF Maximal
  <2> QED
    BY AncestryBounded, AncestryAntisymmetric
<1>3. \A m \in Maximal(h, common) : m = p
  BY AncestryReflexive DEF Maximal
<1> QED
  BY <1>1, <1>2, <1>3

\* Unrelated commits have no merge base.
LEMMA BestOfNone ==
  ASSUME NEW h, NEW a, NEW b, Ancestry(h, a) \cap Ancestry(h, b) = {}
  PROVE  MergeBaseAnswers(h, a, b) = {NoCommit}
BY DEF MergeBaseAnswers, BestBases, Maximal

\* A bounded set of numbers is finite.
LEMMA BoundedIsFinite ==
  ASSUME NEW S \in SUBSET Nat, NEW n \in Nat, \A s \in S : s <= n
  PROVE  IsFiniteSet(S)
BY FS_BoundedSetOfNaturals

\* A complete range proves merge bases: what it says is one that Git may give.
LEMMA ProvenIsBest ==
  ASSUME NEW h, IsHistory(h), NEW trunk \in DOMAIN h, NEW tips \in SUBSET DOMAIN h,
         NEW nodes, IsAbove(h, nodes, tips, trunk), NEW c \in DOMAIN nodes,
         ProvenBases(nodes)[c] # Unproven
  PROVE  ProvenBases(nodes)[c] \in MergeBaseAnswers(h, trunk, c)
<1> DEFINE out == Boundary(nodes)[c]
           common == Ancestry(h, trunk) \cap Ancestry(h, c)
<1>0. DOMAIN nodes \subseteq DOMAIN h
  BY DEF IsAbove
<1>1. /\ out \subseteq common
      /\ \A x \in common : \E p \in out : x \in Ancestry(h, p)
  BY BoundaryIsExit
<1>2. ProvenBases(nodes)[c] = CASE out = {} -> NoCommit
                                [] Cardinality(out) = 1 -> CHOOSE p \in out : TRUE
                                [] OTHER -> Unproven
  BY DEF ProvenBases
<1>3. IsFiniteSet(out)
  <2>1. \A x \in out : x \in Nat /\ x <= trunk
    BY <1>1, AncestryBounded DEF IsHistory
  <2>2. trunk \in Nat
    BY DEF IsHistory
  <2> HIDE DEF out
  <2> QED
    BY <2>1, <2>2, BoundedIsFinite
<1> HIDE DEF out
<1>4. CASE out = {}
  <2>1. common = {}
    BY <1>1, <1>4
  <2>2. NoCommit \in MergeBaseAnswers(h, trunk, c)
    BY <2>1, BestOfNone
  <2> QED
    BY <2>2, <1>2, <1>4
<1>5. CASE out # {} /\ Cardinality(out) = 1
  <2>1. PICK p : out = {p}
    BY <1>3, <1>5, FS_Singleton
  <2>2. p \in DOMAIN h /\ p \in common
    BY <1>1, <2>1, AncestryBounded
  <2>3. common = Ancestry(h, p)
    <3>1. Ancestry(h, p) \subseteq common
      BY <2>2, <1>0, AncestryTransitive
    <3> QED
      BY <3>1, <1>1, <2>1
  <2>4. BestBases(h, trunk, c) = {p}
    BY <2>2, <2>3, BestOfOneExit
  <2>5. ProvenBases(nodes)[c] = p
    BY <1>2, <1>5, <2>1
  <2> QED
    BY <2>4, <2>5 DEF MergeBaseAnswers
<1> QED
  BY <1>2, <1>4, <1>5

----------------------------------------------------------------------------
(* Ranges without merges.                                                     *)

\* In a range without merges a parent is the only one.
LEMMA LinearParent ==
  ASSUME NEW nodes, IsRange(nodes), IsLinear(nodes), NEW c \in DOMAIN nodes,
         NEW p \in nodes[c]
  PROVE  nodes[c] = {p}
<1>1. IsFiniteSet(nodes[c])
  <2>1. c \in Nat /\ nodes[c] \in SUBSET Nat /\ \A q \in nodes[c] : q <= c
    BY DEF IsRange
  <2> QED
    BY <2>1, BoundedIsFinite
<1>2. Cardinality(nodes[c]) = 1
  BY <1>1, FS_EmptySet, FS_CardinalityType DEF IsLinear
<1> QED
  BY <1>1, <1>2, FS_Singleton

\* A point with the commits it adds.
PathLinks == [id : Nat, count : Nat]

\* The states linear_paths computes (PathState).
Paths == [base : Nat, links : Seq(PathLinks), gap : Nat]

\* A step up the corridor gives a path state (graph.rs:81).
LEMMA StepIsPath ==
  ASSUME NEW c \in Nat, NEW pts, NEW below \in Paths
  PROVE  Step(c, pts, below) \in Paths
<1>1. <<[id |-> c, count |-> below.gap + 1]>> \o below.links \in Seq(PathLinks)
  BY DEF Paths, PathLinks
<1> QED
  BY <1>1 DEF Paths, Step, PathState

\* What a commit of a range continues.
Below(nodes, pts, c) ==
    IF nodes[c] \cap DOMAIN nodes # {}
    THEN LinearPaths(nodes, pts)[CHOOSE p \in nodes[c] : TRUE]
    ELSE PathState(IF nodes[c] = {} THEN NoCommit ELSE CHOOSE p \in nodes[c] : TRUE, <<>>, 0)

\* The state of a commit is one step on from the state below it.
LEMMA LinearUnfolds ==
  ASSUME NEW nodes, IsRange(nodes), IsLinear(nodes), NEW pts
  PROVE  /\ LinearPaths(nodes, pts) \in [DOMAIN nodes -> Paths]
         /\ \A c \in DOMAIN nodes :
               LinearPaths(nodes, pts)[c] = Step(c, pts, Below(nodes, pts, c))
<1> DEFINE D == DOMAIN nodes
           V == Paths
           rank == [d \in D |-> d]
           Value(d, f) ==
               Step(d, pts,
                    IF nodes[d] \cap D # {}
                    THEN f[CHOOSE p \in nodes[d] : TRUE]
                    ELSE PathState(IF nodes[d] = {} THEN NoCommit
                                   ELSE CHOOSE p \in nodes[d] : TRUE, <<>>, 0))
           F == [x \in D \X [D -> V] |-> Value(x[1], x[2])]
           Is(f) == f = [d \in D |-> Value(d, f)]
           state == CHOOSE f : Is(f)
<1>1. PICK n \in Nat : \A d \in D : rank[d] < n
  BY DEF IsRange
<1>2. rank \in [D -> Nat]
  BY DEF IsRange
<1>3. \A d \in D : \A f \in [D -> V] : F[<<d, f>>] = Value(d, f)
  <2> HIDE DEF Value
  <2> QED OBVIOUS
<1>a. \A d \in D : nodes[d] # {} => (CHOOSE p \in nodes[d] : TRUE) \in nodes[d]
  OBVIOUS
<1>b. \A d \in D : nodes[d] \cap D # {} =>
         (CHOOSE p \in nodes[d] : TRUE) \in D /\ (CHOOSE p \in nodes[d] : TRUE) < d
  BY <1>a, LinearParent DEF IsRange
<1>4. F \in [D \X [D -> V] -> V]
  <2>1. ASSUME NEW d \in D, NEW f \in [D -> V] PROVE Value(d, f) \in V
    <3> DEFINE first == CHOOSE p \in nodes[d] : TRUE
    <3>1. CASE nodes[d] \cap D # {}
      <4>1. f[first] \in Paths
        BY <3>1, <1>b
      <4> QED
        BY <4>1, <3>1, StepIsPath DEF IsRange
    <3>2. CASE nodes[d] \cap D = {}
      <4>1. (IF nodes[d] = {} THEN NoCommit ELSE first) \in Nat
        BY <1>a DEF IsRange, NoCommit
      <4>2. PathState(IF nodes[d] = {} THEN NoCommit ELSE first, <<>>, 0) \in Paths
        BY <4>1 DEF PathState, Paths
      <4> QED
        BY <4>2, <3>2, StepIsPath DEF IsRange
    <3> QED
      BY <3>1, <3>2
  <2> HIDE DEF Value
  <2> QED
    BY <2>1
<1>5. \A d \in D : \A f, g \in [D -> V] :
         (\A e \in D : rank[e] < rank[d] => f[e] = g[e]) => F[<<d, f>>] = F[<<d, g>>]
  <2>1. ASSUME NEW d \in D, NEW f \in [D -> V], NEW g \in [D -> V],
               \A e \in D : rank[e] < rank[d] => f[e] = g[e]
        PROVE  Value(d, f) = Value(d, g)
    <3>1. CASE nodes[d] \cap D # {}
      <4>1. f[CHOOSE p \in nodes[d] : TRUE] = g[CHOOSE p \in nodes[d] : TRUE]
        BY <2>1, <3>1, <1>b
      <4> QED
        BY <4>1, <3>1
    <3>2. CASE nodes[d] \cap D = {}
      BY <3>2
    <3> QED
      BY <3>1, <3>2
  <2> HIDE DEF F, Value
  <2> QED
    BY <2>1, <1>3
<1>6. PICK f \in [D -> V] : \A d \in D : f[d] = F[<<d, f>>]
  <2>1. Recursion(D, V, F, rank)
    <3>1. PathState(0, <<>>, 0) \in V
      BY DEF Paths, PathState
    <3> HIDE DEF F, rank, D, V
    <3> QED
      BY <3>1, <1>1, <1>2, <1>4, <1>5 DEF Recursion
  <2>2. Solvable(D, V, F)
    <3> HIDE DEF F, rank, D, V
    <3> QED
      BY <2>1, SolvedByRank
  <2> QED
    BY <2>2 DEF Solvable
<1>7. Is(f)
  <2>1. \A d \in D : f[d] = Value(d, f)
    <3> HIDE DEF F, Value
    <3> QED BY <1>3, <1>6
  <2> HIDE DEF Value
  <2> QED
    BY <2>1
<1>8. Is(state)
  <2> HIDE DEF Is
  <2> QED BY <1>7
<1>9. LinearPaths(nodes, pts) = state
  BY DEF LinearPaths
<1>10. \A d \in D : state[d] = Value(d, state)
  <2> HIDE DEF state, Value
  <2> QED BY <1>8
<1>11. state \in [D -> Paths]
  <2> DEFINE bad == {d \in D : state[d] \notin Paths}
  <2>1. bad = {}
    <3> SUFFICES ASSUME bad # {} PROVE FALSE
      OBVIOUS
    <3>1. bad \in SUBSET Nat
      BY DEF IsRange
    <3>2. PICK d \in bad : \A e \in bad : d <= e
      <4> HIDE DEF bad
      <4> QED BY <3>1, LeastNatural
    <3> DEFINE g == [e \in D |-> IF e < d THEN state[e] ELSE PathState(0, <<>>, 0)]
    <3>3. g \in [D -> V]
      <4>1. PathState(0, <<>>, 0) \in V
        BY DEF Paths, PathState
      <4>2. \A e \in D : e < d => state[e] \in V
        <5> HIDE DEF state
        <5> QED BY <3>2, <3>1 DEF IsRange
      <4> HIDE DEF state
      <4> QED
        BY <4>1, <4>2
    <3>4. Value(d, g) \in V
      <4> HIDE DEF g, Value
      <4>1. F[<<d, g>>] \in V
        BY <1>4, <3>3
      <4> QED
        BY <4>1, <1>3, <3>3
    <3>5. Value(d, g) = Value(d, state)
      <4>1. CASE nodes[d] \cap D # {}
        <5>1. g[CHOOSE p \in nodes[d] : TRUE] = state[CHOOSE p \in nodes[d] : TRUE]
          <6> HIDE DEF state
          <6> QED BY <4>1, <1>b
        <5> QED
          BY <5>1, <4>1
      <4>2. CASE nodes[d] \cap D = {}
        BY <4>2
      <4> QED
        BY <4>1, <4>2
    <3> HIDE DEF state, Value, g
    <3> QED
      BY <3>2, <3>4, <3>5, <1>10
  <2>2. DOMAIN state = D
    <3> HIDE DEF state, Value
    <3> QED BY <1>8
  <2>3. state = [d \in D |-> state[d]]
    <3> HIDE DEF state, Value
    <3> QED BY <1>8
  <2> HIDE DEF state
  <2> QED
    BY <2>1, <2>2, <2>3
<1> QED
  <2> HIDE DEF state
  <2> QED BY <1>9, <1>10, <1>11 DEF Below

----------------------------------------------------------------------------
(* What lies between two commits.                                          *)

\* Of some finite sets one has the fewest members.
LEMMA SmallestSet ==
  ASSUME NEW bad, bad # {}, \A S \in bad : IsFiniteSet(S)
  PROVE  \E S \in bad : \A T \in bad : Cardinality(S) <= Cardinality(T)
<1> DEFINE sizes == {Cardinality(S) : S \in bad}
<1>1. sizes \in SUBSET Nat
  BY FS_CardinalityType
<1>2. PICK n \in sizes : \A m \in sizes : n <= m
  <2>1. sizes # {}
    OBVIOUS
  <2> HIDE DEF sizes
  <2> QED BY <1>1, <2>1, LeastNatural
<1> QED
  BY <1>2

\* Nothing lies between a commit and itself.
LEMMA BetweenSelf ==
  ASSUME NEW h, IsHistory(h), NEW c \in DOMAIN h
  PROVE  Between(h, c, c) = {}
<1>1. c # NoCommit
  BY DEF IsHistory, NoCommit
<1>2. \A x \in Ancestry(h, c) : c \in Ancestry(h, x) => x = c
  BY AncestryBounded, AncestryAntisymmetric
<1> QED
  BY <1>1, <1>2 DEF Between

\* One commit further along single parents.
LEMMA BetweenStep ==
  ASSUME NEW h, IsHistory(h), NEW c \in DOMAIN h, NEW p, h[c] = {p},
         NEW x, x = NoCommit \/ x \in Ancestry(h, p)
  PROVE  /\ Between(h, x, c) = {c} \cup Between(h, x, p)
         /\ c \notin Between(h, x, p)
<1>1. p \in DOMAIN h /\ p < c
  BY DEF IsHistory
<1>2. Ancestry(h, c) = {c} \cup Ancestry(h, p)
  BY AncestryUnfolds
<1>3. c \notin Ancestry(h, p)
  BY <1>1, AncestryBounded DEF IsHistory
<1>4. CASE x = NoCommit
  BY <1>2, <1>3, <1>4 DEF Between
<1>5. CASE x # NoCommit
  <2>1. x \in Ancestry(h, p) /\ x # c
    BY <1>5, <1>3
  <2>2. x \in Ancestry(h, c)
    BY <2>1, <1>2
  <2> QED
    BY <2>1, <2>2, <1>2, <1>3, <1>5 DEF Between
<1> QED
  BY <1>4, <1>5

\* Finitely many commits lie between two.
LEMMA BetweenIsFinite ==
  ASSUME NEW h, IsHistory(h), NEW c \in DOMAIN h, NEW x
  PROVE  /\ IsFiniteSet(Between(h, x, c))
         /\ Cardinality(Between(h, x, c)) \in Nat
         /\ Between(h, x, c) \subseteq Ancestry(h, c)
<1>1. Between(h, x, c) \subseteq Ancestry(h, c)
  BY DEF Between
<1>2. c \in Nat /\ \A y \in Between(h, x, c) : y \in Nat /\ y <= c
  BY <1>1, AncestryBounded DEF IsHistory
<1>3. IsFiniteSet(Between(h, x, c))
  BY <1>2, BoundedIsFinite
<1> QED
  BY <1>1, <1>3, FS_CardinalityType

\* A commit of a range descends from a base if a parent is it or descends from it.
LEMMA DescendantsUnfold ==
  ASSUME NEW nodes, IsRange(nodes), NEW base, NEW c \in DOMAIN nodes
  PROVE  c \in Descendants(nodes, base) <=>
            \E p \in nodes[c] : p = base \/ (p \in DOMAIN nodes /\ p \in Descendants(nodes, base))
<1> DEFINE D == DOMAIN nodes
           V == BOOLEAN
           rank == [d \in D |-> d]
           Value(d, f) == \E p \in nodes[d] : p = base \/ (p \in D /\ f[p])
           F == [x \in D \X [D -> V] |-> Value(x[1], x[2])]
           Is(f) == f = [d \in D |-> Value(d, f)]
           included == CHOOSE f : Is(f)
<1>1. PICK n \in Nat : \A d \in D : rank[d] < n
  BY DEF IsRange
<1>2. rank \in [D -> Nat]
  BY DEF IsRange
<1>3. \A d \in D : \A f \in [D -> V] : F[<<d, f>>] = Value(d, f)
  <2> HIDE DEF Value
  <2> QED OBVIOUS
<1>4. F \in [D \X [D -> V] -> V]
  OBVIOUS
<1>5. \A d \in D : \A f, g \in [D -> V] :
         (\A e \in D : rank[e] < rank[d] => f[e] = g[e]) => F[<<d, f>>] = F[<<d, g>>]
  <2>1. ASSUME NEW d \in D, NEW f \in [D -> V], NEW g \in [D -> V],
               \A e \in D : rank[e] < rank[d] => f[e] = g[e]
        PROVE  Value(d, f) = Value(d, g)
    <3>1. \A p \in nodes[d] \cap D : f[p] = g[p]
      BY <2>1 DEF IsRange
    <3> QED
      BY <3>1
  <2> HIDE DEF F, Value
  <2> QED
    BY <2>1, <1>3
<1>6. PICK f \in [D -> V] : \A d \in D : f[d] = F[<<d, f>>]
  <2>1. Recursion(D, V, F, rank)
    <3>1. TRUE \in V
      OBVIOUS
    <3> HIDE DEF F, rank, D, V
    <3> QED
      BY <3>1, <1>1, <1>2, <1>4, <1>5 DEF Recursion
  <2>2. Solvable(D, V, F)
    <3> HIDE DEF F, rank, D, V
    <3> QED
      BY <2>1, SolvedByRank
  <2> QED
    BY <2>2 DEF Solvable
<1>7. Is(f)
  <2>1. \A d \in D : f[d] = Value(d, f)
    <3> HIDE DEF F, Value
    <3> QED BY <1>3, <1>6
  <2> HIDE DEF Value
  <2> QED
    BY <2>1
<1>8. Is(included)
  <2> HIDE DEF Is
  <2> QED BY <1>7
<1>9. Descendants(nodes, base) = {d \in D : included[d]}
  BY DEF Descendants
<1>10. \A d \in D : included[d] = Value(d, included)
  <2> HIDE DEF included, Value
  <2> QED BY <1>8
<1> HIDE DEF included
<1> QED
  BY <1>9, <1>10

\* The walk hides what base reaches; the descendants of base within it are
\* all that lie between base and the tip.
LEMMA DescendantsAreBetween ==
  ASSUME NEW h, IsHistory(h), NEW head \in DOMAIN h, NEW base \in Ancestry(h, head)
  PROVE  Descendants(Walk(h, {head}, {base}), base) = Between(h, base, head)
<1> DEFINE nodes == Walk(h, {head}, {base})
           In(d) == d \in Descendants(nodes, base)
           Ok(d) == In(d) <=> base \in Ancestry(h, d)
           bad == {d \in DOMAIN nodes : ~Ok(d)}
<1>0. IsAbove(h, nodes, {head}, base)
  BY WalkIsAbove
<1>1. /\ IsRange(nodes) /\ DOMAIN nodes \subseteq DOMAIN h
      /\ \A d : d \in DOMAIN nodes <=> d \in Ancestry(h, head) /\ d \notin Ancestry(h, base)
      /\ \A d \in DOMAIN nodes : nodes[d] = h[d]
  <2> HIDE DEF nodes
  <2> QED BY <1>0 DEF IsAbove
<1> HIDE DEF nodes
<1>2. \A d \in DOMAIN nodes :
         In(d) <=> \E p \in h[d] : p = base \/ (p \in DOMAIN nodes /\ In(p))
  BY <1>1, DescendantsUnfold
<1>b. base \in DOMAIN h /\ base \in Ancestry(h, base)
  BY AncestryBounded, AncestryReflexive
<1> HIDE DEF In
<1>3. bad = {}
  <2> SUFFICES ASSUME bad # {} PROVE FALSE
    OBVIOUS
  <2>1. bad \in SUBSET Nat
    BY <1>1 DEF IsRange
  <2>2. PICK d \in bad : \A e \in bad : d <= e
    <3> HIDE DEF bad
    <3> QED BY <2>1, LeastNatural
  <2>3. \A p \in h[d] : /\ p \in DOMAIN h /\ p < d /\ Ancestry(h, p) \subseteq Ancestry(h, d)
                        /\ p \in Ancestry(h, p) /\ p \in Ancestry(h, head)
    BY <2>2, <1>1, AncestryOfParent, AncestryReflexive, AncestryTransitive DEF IsHistory
  <2>4. \A p \in h[d] \cap DOMAIN nodes : Ok(p)
    BY <2>1, <2>2, <2>3 DEF IsHistory
  <2>5. d # base
    BY <2>2, <1>1, <1>b
  <2>6. ASSUME In(d) PROVE base \in Ancestry(h, d)
    BY <2>6, <2>2, <1>2, <2>3, <2>4
  <2>7. ASSUME base \in Ancestry(h, d) PROVE In(d)
    <3>1. PICK p \in h[d] : base \in Ancestry(h, p)
      BY <2>7, <2>5, <2>2, <1>1, AncestryByParent
    <3>2. CASE p \in DOMAIN nodes
      BY <3>1, <3>2, <2>2, <2>4, <1>2
    <3>3. CASE p \notin DOMAIN nodes
      <4>1. p \in Ancestry(h, base)
        BY <3>3, <2>3, <1>1
      <4>2. p = base
        BY <4>1, <3>1, <1>b, <2>3, AncestryAntisymmetric
      <4> QED
        BY <4>2, <3>1, <2>2, <1>2
    <3> QED
      BY <3>2, <3>3
  <2> QED
    BY <2>2, <2>6, <2>7
<1>4. base # NoCommit
  BY <1>b DEF IsHistory, NoCommit
<1>5. Descendants(nodes, base) \subseteq DOMAIN nodes
  BY DEF Descendants
<1>6. ASSUME NEW c \in Between(h, base, head) PROVE c \in Descendants(nodes, base)
  <2>1. c \in Ancestry(h, head) /\ c # base /\ base \in Ancestry(h, c)
    BY <1>4 DEF Between
  <2>2. c \in DOMAIN h
    BY <2>1, AncestryBounded
  <2>3. c \notin Ancestry(h, base)
    BY <2>1, <2>2, <1>b, AncestryAntisymmetric
  <2> QED
    BY <2>1, <2>3, <1>1, <1>3 DEF In
<1>7. ASSUME NEW c \in Descendants(nodes, base) PROVE c \in Between(h, base, head)
  <2>1. c \in DOMAIN nodes /\ In(c)
    BY <1>5 DEF In
  <2>2. base \in Ancestry(h, c) /\ c # base
    BY <2>1, <1>3, <1>1, <1>b
  <2> QED
    BY <2>1, <2>2, <1>1, <1>4 DEF Between
<1> QED
  BY <1>6, <1>7 DEF nodes

\* No merge lies between the base and the head.
Unbranched(h, base, head) ==
    \A c \in Between(h, base, head) : Cardinality(h[c]) <= 1

\* A lane's base is an ancestor of its head, not the head itself, or none.
StartsBelow(h, base, head) ==
    base = NoCommit \/ (base \in Ancestry(h, head) /\ base # head)

\* Above a base below head lie the commits of head that reach it, head included.
LEMMA BetweenIs ==
  ASSUME NEW h, IsHistory(h), NEW head \in DOMAIN h, NEW base, StartsBelow(h, base, head), NEW c
  PROVE  /\ c \in Between(h, base, head) <=>
               c \in Ancestry(h, head) /\ (base = NoCommit \/ (c # base /\ base \in Ancestry(h, c)))
         /\ head \in Between(h, base, head)
<1>1. head \in Ancestry(h, head)
  BY AncestryReflexive
<1> QED
  BY <1>1 DEF Between, StartsBelow

\* The one commit on the way to head that has y as its parent.
FollowedBy(h, base, head, y, z) ==
    /\ z \in Between(h, base, head)
    /\ h[z] = {y} /\ y < z /\ y \in Nat /\ z \in Nat
    /\ Ancestry(h, z) = {z} \cup Ancestry(h, y)

\* The child of a commit on the way to head is on the way too.
LEMMA ChildIsBetween ==
  ASSUME NEW h, IsHistory(h), NEW head \in DOMAIN h, NEW base, StartsBelow(h, base, head),
         Unbranched(h, base, head), NEW y \in Between(h, base, head), y # head
  PROVE  \E z : FollowedBy(h, base, head, y, z)
<1>1. y \in Ancestry(h, head)
  BY DEF Between
<1>2. PICK z \in Ancestry(h, head) : y \in h[z]
  BY <1>1, AncestryByChild
<1>3. z \in DOMAIN h /\ y \in DOMAIN h /\ y < z /\ y \in Nat /\ z \in Nat
  <2>1. z \in DOMAIN h
    BY AncestryBounded
  <2> QED
    BY <2>1, <1>2 DEF IsHistory
<1>4. Ancestry(h, z) = {z} \cup UNION {Ancestry(h, p) : p \in h[z]}
  BY <1>3, AncestryUnfolds
<1>5. z \in Between(h, base, head)
  <2>1. CASE base = NoCommit
    BY <2>1, BetweenIs
  <2>2. CASE base # NoCommit
    <3>1. base \in Ancestry(h, y) /\ y # base
      BY <2>2, BetweenIs
    <3>2. base \in Ancestry(h, z)
      BY <3>1, <1>2, <1>4
    <3>3. base <= y
      BY <3>1, <1>3, AncestryBounded
    <3>4. base # z
      BY <3>3, <1>3
    <3> QED
      BY <3>2, <3>4, BetweenIs
  <2> QED
    BY <2>1, <2>2
<1>6. h[z] = {y}
  <2>1. Cardinality(h[z]) <= 1
    BY <1>5 DEF Unbranched
  <2>2. h[z] \in SUBSET Nat /\ \A p \in h[z] : p <= z
    BY <1>3 DEF IsHistory
  <2>3. IsFiniteSet(h[z])
    BY <2>2, <1>3, BoundedIsFinite
  <2>4. Cardinality(h[z]) # 0
    BY <2>3, <1>2, FS_EmptySet
  <2>5. Cardinality(h[z]) = 1
    BY <2>1, <2>3, <2>4, FS_CardinalityType
  <2>6. PICK x : h[z] = {x}
    BY <2>3, <2>5, FS_Singleton
  <2> QED
    BY <2>6, <1>2
<1>7. Ancestry(h, z) = {z} \cup Ancestry(h, y)
  BY <1>4, <1>6
<1> QED
  BY <1>3, <1>5, <1>6, <1>7 DEF FollowedBy

\* Without merges the commits on the way to head are a line.
LEMMA BetweenIsLine ==
  ASSUME NEW h, IsHistory(h), NEW head \in DOMAIN h, NEW base, StartsBelow(h, base, head),
         Unbranched(h, base, head), NEW x \in Between(h, base, head), NEW y \in Between(h, base, head)
  PROVE  x \in Ancestry(h, y) \/ y \in Ancestry(h, x)
<1> DEFINE bad == {d \in Between(h, base, head) : x \notin Ancestry(h, d) /\ d \notin Ancestry(h, x)}
<1>1. bad = {}
  <2> SUFFICES ASSUME bad # {} PROVE FALSE
    OBVIOUS
  <2>1. bad \in SUBSET Nat /\ head \in Nat /\ \A d \in bad : d <= head
    <3>1. \A d \in Between(h, base, head) : d \in Ancestry(h, head)
      BY DEF Between
    <3>2. \A d \in Ancestry(h, head) : d \in DOMAIN h /\ d <= head
      BY AncestryBounded
    <3> QED
      BY <3>1, <3>2 DEF IsHistory
  <2>2. PICK d \in bad : \A e \in bad : e <= d
    <3> HIDE DEF bad
    <3> QED BY <2>1, GreatestNatural
  <2>3. d \in Between(h, base, head) /\ x \notin Ancestry(h, d) /\ d \notin Ancestry(h, x)
    BY <2>2
  <2>4. d # head
    BY <2>3, BetweenIs
  <2>c. PICK z : FollowedBy(h, base, head, d, z)
    BY <2>3, <2>4, ChildIsBetween
  <2>5. z \in Between(h, base, head) /\ h[z] = {d} /\ d < z /\ d \in Nat /\ z \in Nat
        /\ Ancestry(h, z) = {z} \cup Ancestry(h, d)
    BY <2>c DEF FollowedBy
  <2>6. z \notin bad
    BY <2>2, <2>5
  <2>7. CASE x \in Ancestry(h, z)
    <3>1. x = z
      BY <2>3, <2>5, <2>7
    <3>2. d \in Ancestry(h, d)
      <4>1. d \in DOMAIN h
        BY <2>3, AncestryBounded DEF Between
      <4> QED
        BY <4>1, AncestryReflexive
    <3> QED
      BY <3>1, <3>2, <2>3, <2>5
  <2>8. CASE z \in Ancestry(h, x)
    <3>1. d \in Ancestry(h, z)
      <4>1. d \in DOMAIN h
        BY <2>3, AncestryBounded DEF Between
      <4> QED
        BY <4>1, <2>5, AncestryReflexive
    <3>2. x \in DOMAIN h
      BY AncestryBounded DEF Between
    <3>3. d \in Ancestry(h, x)
      BY <3>1, <3>2, <2>8, AncestryTransitive
    <3> QED
      BY <3>3, <2>3
  <2> QED
    BY <2>5, <2>6, <2>7, <2>8
<1> QED
  BY <1>1

\* A commit has finitely many ancestors.
LEMMA AncestryIsFinite ==
  ASSUME NEW h, IsHistory(h), NEW c \in DOMAIN h
  PROVE  IsFiniteSet(Ancestry(h, c)) /\ Cardinality(Ancestry(h, c)) \in Nat
<1>1. c \in Nat /\ \A x \in Ancestry(h, c) : x \in Nat /\ x <= c
  BY AncestryBounded DEF IsHistory
<1>2. IsFiniteSet(Ancestry(h, c))
  BY <1>1, BoundedIsFinite
<1> QED
  BY <1>2, FS_CardinalityType

\* Above main no commit has two parents.
Straight(h, m, head) ==
    \A c \in Ancestry(h, head) \ Ancestry(h, m) : Cardinality(h[c]) <= 1

\* Without merges above main, what a head shares with main is below each of its
\* commits above main.
LEMMA SharedBelow ==
  ASSUME NEW h, IsHistory(h), NEW m \in DOMAIN h, NEW head \in DOMAIN h, Straight(h, m, head),
         NEW t \in Ancestry(h, head), t \notin Ancestry(h, m)
  PROVE  Ancestry(h, m) \cap Ancestry(h, head) \subseteq Ancestry(h, t)
<1> DEFINE Open(d) == \E x \in Ancestry(h, m) \cap Ancestry(h, d) : x \notin Ancestry(h, t)
           bad == {d \in Ancestry(h, head) : t \in Ancestry(h, d) /\ Open(d)}
<1>1. bad = {}
  <2> SUFFICES ASSUME bad # {} PROVE FALSE
    OBVIOUS
  <2>1. bad \in SUBSET Nat
    BY AncestryBounded DEF IsHistory
  <2>2. PICK d \in bad : \A e \in bad : d <= e
    <3> HIDE DEF bad
    <3> QED BY <2>1, LeastNatural
  <2>3. d \in Ancestry(h, head) /\ d \in DOMAIN h /\ t \in Ancestry(h, d)
    BY <2>2, AncestryBounded
  <2>4. PICK x \in Ancestry(h, m) \cap Ancestry(h, d) : x \notin Ancestry(h, t)
    BY <2>2
  <2> HIDE DEF bad
  <2>5. d \notin Ancestry(h, m)
    BY <2>3, AncestryTransitive
  <2>6. PICK p \in h[d] : t \in Ancestry(h, p)
    BY <2>3, <2>4, AncestryByParent
  <2>7. p \in DOMAIN h /\ p < d /\ p \in Nat /\ d \in Nat
    BY <2>3, <2>6 DEF IsHistory
  <2>8. h[d] = {p}
    <3>1. Cardinality(h[d]) <= 1
      BY <2>3, <2>5 DEF Straight
    <3>2. h[d] \in SUBSET Nat /\ \A q \in h[d] : q <= d
      BY <2>3 DEF IsHistory
    <3>3. IsFiniteSet(h[d])
      BY <3>2, <2>7, BoundedIsFinite
    <3>4. Cardinality(h[d]) # 0
      BY <3>3, <2>6, FS_EmptySet
    <3>5. Cardinality(h[d]) = 1
      BY <3>1, <3>3, <3>4, FS_CardinalityType
    <3>6. PICK y : h[d] = {y}
      BY <3>3, <3>5, FS_Singleton
    <3> QED
      BY <3>6, <2>6
  <2>9. Ancestry(h, d) = {d} \cup Ancestry(h, p)
    BY <2>3, <2>8, AncestryUnfolds
  <2>10. x \in Ancestry(h, p)
    BY <2>4, <2>5, <2>9
  <2>11. p \in Ancestry(h, head)
    <3>1. p \in Ancestry(h, d)
      BY <2>7, <2>9, AncestryReflexive
    <3> QED
      BY <3>1, <2>3, AncestryTransitive
  <2>12. p \in bad
    BY <2>4, <2>6, <2>10, <2>11 DEF bad
  <2> QED
    BY <2>2, <2>7, <2>12
<1>2. head \in Ancestry(h, head)
  BY AncestryReflexive
<1> QED
  BY <1>1, <1>2

----------------------------------------------------------------------------
(* Counting descendants.                                                   *)

\* The bits a commit carries: below in DescendantCounts.
Carries(nodes, bases) ==
    CHOOSE below : below = [c \in DOMAIN nodes |->
        ((nodes[c] \cap bases) \ DOMAIN nodes)
            \cup UNION {below[p] \cup ({p} \cap bases) : p \in nodes[c] \cap DOMAIN nodes}]

\* The commits that carry the bit of a base.
Carriers(nodes, bases, b) == {c \in DOMAIN nodes : b \in Carries(nodes, bases)[c]}

\* The count of a base is the number of commits that carry its bit.
LEMMA CountsAreOfCarriers ==
  ASSUME NEW nodes, NEW bases, NEW b \in bases
  PROVE  DescendantCounts(nodes, bases)[b] =
             Cardinality(Carriers(nodes, bases, b))
BY DEF DescendantCounts, Carries, Carriers

\* A commit carries the bit of its parents and of what they carry.
LEMMA CarriesUnfolds ==
  ASSUME NEW nodes, IsRange(nodes), NEW bases, NEW c \in DOMAIN nodes, NEW b \in bases
  PROVE  b \in Carries(nodes, bases)[c] <=>
            \E p \in nodes[c] : p = b \/ (p \in DOMAIN nodes /\ b \in Carries(nodes, bases)[p])
<1> DEFINE D == DOMAIN nodes
           V == SUBSET bases
           rank == [d \in D |-> d]
           Value(d, f) == ((nodes[d] \cap bases) \ D)
                            \cup UNION {f[p] \cup ({p} \cap bases) : p \in nodes[d] \cap D}
           F == [x \in D \X [D -> V] |-> Value(x[1], x[2])]
           Is(f) == f = [d \in D |-> Value(d, f)]
           below == CHOOSE f : Is(f)
<1>1. PICK n \in Nat : \A d \in D : rank[d] < n
  BY DEF IsRange
<1>2. rank \in [D -> Nat]
  BY DEF IsRange
<1>3. \A d \in D : \A f \in [D -> V] : F[<<d, f>>] = Value(d, f)
  <2> HIDE DEF Value
  <2> QED OBVIOUS
<1>4. F \in [D \X [D -> V] -> V]
  <2>1. ASSUME NEW d \in D, NEW f \in [D -> V] PROVE Value(d, f) \in V
    <3>1. \A p \in D : f[p] \subseteq bases
      OBVIOUS
    <3> QED
      BY <3>1
  <2> HIDE DEF Value
  <2> QED
    BY <2>1
<1>5. \A d \in D : \A f, g \in [D -> V] :
         (\A e \in D : rank[e] < rank[d] => f[e] = g[e]) => F[<<d, f>>] = F[<<d, g>>]
  <2>1. ASSUME NEW d \in D, NEW f \in [D -> V], NEW g \in [D -> V],
               \A e \in D : rank[e] < rank[d] => f[e] = g[e]
        PROVE  Value(d, f) = Value(d, g)
    <3>1. \A p \in nodes[d] \cap D : f[p] = g[p]
      BY <2>1 DEF IsRange
    <3> QED
      BY <3>1
  <2> HIDE DEF F, Value
  <2> QED
    BY <2>1, <1>3
<1>6. PICK f \in [D -> V] : \A d \in D : f[d] = F[<<d, f>>]
  <2>1. Recursion(D, V, F, rank)
    <3>1. {} \in V
      OBVIOUS
    <3> HIDE DEF F, rank, D, V
    <3> QED
      BY <3>1, <1>1, <1>2, <1>4, <1>5 DEF Recursion
  <2>2. Solvable(D, V, F)
    <3> HIDE DEF F, rank, D, V
    <3> QED
      BY <2>1, SolvedByRank
  <2> QED
    BY <2>2 DEF Solvable
<1>7. Is(f)
  <2>1. \A d \in D : f[d] = Value(d, f)
    <3> HIDE DEF F, Value
    <3> QED BY <1>3, <1>6
  <2> HIDE DEF Value
  <2> QED
    BY <2>1
<1>8. Is(below)
  <2> HIDE DEF Is
  <2> QED BY <1>7
<1>9. Carries(nodes, bases) = below
  BY DEF Carries
<1>10. below[c] = Value(c, below)
  <2> HIDE DEF below, Value
  <2> QED BY <1>8
<1>11. b \in Value(c, below) <=> \E p \in nodes[c] : p = b \/ (p \in D /\ b \in below[p])
  <2> HIDE DEF below
  <2> QED OBVIOUS
<1> HIDE DEF below, Value
<1> QED
  BY <1>9, <1>10, <1>11

\* A boundary at which descendants may be cut off: nothing, or a commit that
\* every base descends from.
CutsBelow(h, boundary, bases) ==
    boundary = NoCommit \/ \A b \in bases : boundary \in Ancestry(h, b)

\* Below a boundary under every base, the carriers of a bit are the commits that
\* descend from its base.
LEMMA CarriersDescend ==
  ASSUME NEW h, IsHistory(h), NEW trunk \in DOMAIN h, NEW bases \in SUBSET DOMAIN h,
         NEW b \in bases, NEW boundary, CutsBelow(h, boundary, {b})
  PROVE  Carriers(Walk(h, {trunk}, {boundary} \ {NoCommit}), bases, b) = Between(h, b, trunk)
<1> DEFINE hidden == {boundary} \ {NoCommit}
           nodes == Walk(h, {trunk}, hidden)
           In(d) == b \in Carries(nodes, bases)[d]
           Good(d) == d # b /\ b \in Ancestry(h, d)
           bad == {d \in DOMAIN nodes : ~(In(d) <=> Good(d))}
<1>0. IsOutside(h, nodes, {trunk}, hidden)
  BY WalkIsOutside
<1>1. /\ IsRange(nodes) /\ DOMAIN nodes \subseteq DOMAIN h
      /\ \A d : d \in DOMAIN nodes <=>
            d \in Ancestry(h, trunk) /\ (boundary = NoCommit \/ d \notin Ancestry(h, boundary))
      /\ \A d \in DOMAIN nodes : nodes[d] = h[d]
  <2> HIDE DEF nodes
  <2> QED BY <1>0 DEF IsOutside
<1> HIDE DEF nodes
<1>2. \A d \in DOMAIN nodes :
         In(d) <=> \E p \in h[d] : p = b \/ (p \in DOMAIN nodes /\ In(p))
  BY <1>1, CarriesUnfolds
<1>b. b \in DOMAIN h /\ b \in Ancestry(h, b) /\ b # NoCommit
  BY AncestryReflexive DEF IsHistory, NoCommit
\* Below the boundary nothing descends from b.
<1>c. \A d \in DOMAIN h : boundary # NoCommit /\ d \in Ancestry(h, boundary) => ~Good(d)
  <2> SUFFICES ASSUME NEW d \in DOMAIN h, boundary # NoCommit, d \in Ancestry(h, boundary),
                      b \in Ancestry(h, d), d # b
               PROVE  FALSE
    OBVIOUS
  <2>1. boundary \in Ancestry(h, b)
    BY DEF CutsBelow
  <2>2. boundary \in DOMAIN h
    BY <2>1, <1>b, AncestryBounded
  <2>3. d \in Ancestry(h, b)
    BY <2>1, <2>2, <1>b, AncestryTransitive
  <2> QED
    BY <2>3, <1>b, AncestryAntisymmetric
<1> HIDE DEF In
<1>3. bad = {}
  <2> SUFFICES ASSUME bad # {} PROVE FALSE
    OBVIOUS
  <2>1. bad \in SUBSET Nat
    BY <1>1 DEF IsRange
  <2>2. PICK d \in bad : \A e \in bad : d <= e
    <3> HIDE DEF bad
    <3> QED BY <2>1, LeastNatural
  <2>3. \A p \in h[d] : /\ p \in DOMAIN h /\ p < d /\ Ancestry(h, p) \subseteq Ancestry(h, d)
                        /\ p \in Ancestry(h, p) /\ p \in Ancestry(h, trunk)
    BY <2>2, <1>1, AncestryOfParent, AncestryReflexive, AncestryTransitive DEF IsHistory
  <2>4. \A p \in h[d] \cap DOMAIN nodes : In(p) <=> Good(p)
    BY <2>1, <2>2, <2>3 DEF IsHistory
  <2>5. ASSUME In(d) PROVE Good(d)
    <3>1. PICK p \in h[d] : p = b \/ (p \in DOMAIN nodes /\ In(p))
      BY <2>5, <2>2, <1>2
    <3>2. b \in Ancestry(h, p)
      BY <3>1, <2>3, <2>4
    <3>3. b <= p /\ p < d /\ d \in Nat /\ p \in Nat /\ b \in Nat
      BY <3>2, <2>3, <2>1, <2>2, <1>b, AncestryBounded DEF IsHistory
    <3> QED
      BY <3>2, <3>3, <2>3
  <2>6. ASSUME Good(d) PROVE In(d)
    <3>1. PICK p \in h[d] : b \in Ancestry(h, p)
      BY <2>6, <2>2, <1>1, AncestryByParent
    <3>2. CASE p = b
      BY <3>2, <2>2, <1>2
    <3>3. CASE p # b /\ p \in DOMAIN nodes
      BY <3>1, <3>3, <2>2, <2>4, <1>2
    <3>4. CASE p # b /\ p \notin DOMAIN nodes
      <4>1. boundary # NoCommit /\ p \in Ancestry(h, boundary)
        BY <3>4, <2>3, <1>1
      <4> QED
        BY <4>1, <1>c, <3>1, <3>4, <2>3
    <3> QED
      BY <3>2, <3>3, <3>4
  <2> HIDE DEF Good
  <2> QED
    BY <2>2, <2>5, <2>6
<1>4. \A c : c \in Between(h, b, trunk) <=> c \in Ancestry(h, trunk) /\ Good(c)
  BY <1>b DEF Between
<1>5. \A c : c \in Ancestry(h, trunk) => c \in DOMAIN h
  BY AncestryBounded
<1>6. \A c : c \in Ancestry(h, trunk) /\ Good(c) => c \in DOMAIN nodes
  BY <1>1, <1>5, <1>c
<1>7. {c \in DOMAIN nodes : In(c)} = Between(h, b, trunk)
  <2> HIDE DEF Good
  <2> QED
    BY <1>3, <1>4, <1>6, <1>1
<1> QED
  BY <1>7 DEF nodes, In, Carriers

\* What the folded boundary cuts off costs no count.
LEMMA CountsAreExact ==
  ASSUME NEW h, IsHistory(h), NEW trunk \in DOMAIN h, NEW bases \in SUBSET DOMAIN h,
         NEW b \in bases, NEW boundary, CutsBelow(h, boundary, {b})
  PROVE  DescendantCounts(Walk(h, {trunk}, {boundary} \ {NoCommit}), bases)[b] =
             Cardinality(Between(h, b, trunk))
<1> DEFINE nodes == Walk(h, {trunk}, {boundary} \ {NoCommit})
<1>1. Carriers(nodes, bases, b) = Between(h, b, trunk)
  BY CarriersDescend
<1>2. DescendantCounts(nodes, bases)[b] = Cardinality(Between(h, b, trunk))
  <2> HIDE DEF nodes
  <2> QED
    BY <1>1, CountsAreOfCarriers
<1> QED
  BY <1>2

----------------------------------------------------------------------------
(* The base of a corridor.                                                 *)

\* What the state below a commit of a range without merges is.
Continues(h, trunk, nodes, pts, c) ==
    \/ h[c] = {} /\ Below(nodes, pts, c) = PathState(NoCommit, <<>>, 0)
    \/ \E p \in Ancestry(h, trunk) :
          h[c] = {p} /\ Below(nodes, pts, c) = PathState(p, <<>>, 0)
    \/ \E p \in DOMAIN nodes :
          h[c] = {p} /\ p < c /\ Below(nodes, pts, c) = LinearPaths(nodes, pts)[p]

\* A commit of a range without merges is a root, leaves the range, or
\* continues the state of its parent.
LEMMA LinearCases ==
  ASSUME NEW h, IsHistory(h), NEW trunk \in DOMAIN h, NEW tips \in SUBSET DOMAIN h,
         NEW nodes, IsAbove(h, nodes, tips, trunk), IsLinear(nodes), NEW pts,
         NEW c \in DOMAIN nodes
  PROVE  Continues(h, trunk, nodes, pts, c)
<1>0. /\ IsRange(nodes) /\ DOMAIN nodes \subseteq DOMAIN h
      /\ \A d : d \in DOMAIN nodes <=>
            (\E t \in tips : d \in Ancestry(h, t)) /\ d \notin Ancestry(h, trunk)
      /\ \A d \in DOMAIN nodes : nodes[d] = h[d]
  BY DEF IsAbove
<1>1. nodes[c] = h[c] /\ c \in DOMAIN h
  BY <1>0
<1>2. CASE h[c] = {}
  BY <1>1, <1>2 DEF Below, Continues
<1>3. CASE h[c] # {}
  <2>1. PICK p \in h[c] : TRUE
    BY <1>3
  <2>2. h[c] = {p} /\ nodes[c] = {p}
    BY <1>0, <1>1, LinearParent
  <2>3. (CHOOSE q \in nodes[c] : TRUE) = p
    BY <2>2
  <2>4. p < c
    BY <1>1 DEF IsHistory
  <2>5. CASE p \in DOMAIN nodes
    BY <2>2, <2>3, <2>4, <2>5 DEF Below, Continues
  <2>6. CASE p \notin DOMAIN nodes
    <3>1. PICK t \in tips : c \in Ancestry(h, t)
      BY <1>0
    <3>2. p \in Ancestry(h, c)
      BY <1>1, AncestryOfParent, AncestryReflexive DEF IsHistory
    <3>3. p \in Ancestry(h, t)
      BY <3>1, <3>2, AncestryTransitive
    <3>4. p \in Ancestry(h, trunk)
      BY <3>3, <2>6, <1>0
    <3> QED
      BY <3>4, <2>2, <2>3, <2>6 DEF Below, Continues
  <2> QED
    BY <2>5, <2>6
<1> QED
  BY <1>2, <1>3

\* The base of a corridor is all that it shares with main.
SharesFrom(h, trunk, c, base) ==
    IF base = NoCommit
    THEN Ancestry(h, trunk) \cap Ancestry(h, c) = {}
    ELSE /\ base \in Ancestry(h, trunk) \cap Ancestry(h, c)
         /\ Ancestry(h, trunk) \cap Ancestry(h, c) = Ancestry(h, base)

\* A commit that has all that is shared with main is the merge base.
LEMMA SharedIsBest ==
  ASSUME NEW h, IsHistory(h), NEW trunk \in DOMAIN h, NEW c, NEW base,
         SharesFrom(h, trunk, c, base)
  PROVE  base \in MergeBaseAnswers(h, trunk, c)
<1>1. CASE base = NoCommit
  BY <1>1, BestOfNone DEF SharesFrom
<1>2. CASE base # NoCommit
  <2>1. base \in DOMAIN h
    BY <1>2, AncestryBounded DEF SharesFrom
  <2>2. BestBases(h, trunk, c) = {base}
    BY <1>2, <2>1, BestOfOneExit DEF SharesFrom
  <2> QED
    BY <2>2 DEF MergeBaseAnswers
<1> QED
  BY <1>1, <1>2

\* A step keeps the base (graph.rs:81).
LEMMA StepKeepsBase ==
  ASSUME NEW c, NEW pts, NEW below
  PROVE  Step(c, pts, below).base = below.base
BY DEF Step, PathState

\* The base that a state carries up the corridor has all that its commit shares
\* with main, although main was never walked.
LEMMA LinearBase ==
  ASSUME NEW h, IsHistory(h), NEW trunk \in DOMAIN h, NEW tips \in SUBSET DOMAIN h,
         NEW nodes, IsAbove(h, nodes, tips, trunk), IsLinear(nodes), NEW pts,
         NEW c \in DOMAIN nodes
  PROVE  SharesFrom(h, trunk, c, LinearPaths(nodes, pts)[c].base)
<1> DEFINE Base(d) == LinearPaths(nodes, pts)[d].base
           bad == {d \in DOMAIN nodes : ~SharesFrom(h, trunk, d, Base(d))}
<1>0. /\ IsRange(nodes) /\ DOMAIN nodes \subseteq DOMAIN h
      /\ \A d \in DOMAIN nodes : d \notin Ancestry(h, trunk)
  BY DEF IsAbove
<1>1. \A d \in DOMAIN nodes : Base(d) = Below(nodes, pts, d).base
  BY <1>0, LinearUnfolds, StepKeepsBase
<1>2. ASSUME NEW d \in DOMAIN nodes
      PROVE  \/ h[d] = {} /\ Base(d) = NoCommit
             \/ \E p \in Ancestry(h, trunk) : h[d] = {p} /\ Base(d) = p
             \/ \E p \in DOMAIN nodes : h[d] = {p} /\ p < d /\ Base(d) = Base(p)
  <2>1. \/ h[d] = {} /\ Below(nodes, pts, d) = PathState(NoCommit, <<>>, 0)
        \/ \E p \in Ancestry(h, trunk) :
               h[d] = {p} /\ Below(nodes, pts, d) = PathState(p, <<>>, 0)
        \/ \E p \in DOMAIN nodes :
               h[d] = {p} /\ p < d /\ Below(nodes, pts, d) = LinearPaths(nodes, pts)[p]
    <3>1. Continues(h, trunk, nodes, pts, d)
      BY LinearCases
    <3> QED
      BY <3>1 DEF Continues
  <2>2. \A b, l, g : PathState(b, l, g).base = b
    BY DEF PathState
  <2>3. Base(d) = Below(nodes, pts, d).base
    BY <1>1
  <2> QED
    BY <2>1, <2>2, <2>3
<1> HIDE DEF Base
<1>3. bad = {}
  <2> SUFFICES ASSUME bad # {} PROVE FALSE
    OBVIOUS
  <2>1. bad \in SUBSET Nat
    BY <1>0 DEF IsRange
  <2>2. PICK d \in bad : \A e \in bad : d <= e
    <3> HIDE DEF bad
    <3> QED BY <2>1, LeastNatural
  <2>3. Ancestry(h, d) = {d} \cup UNION {Ancestry(h, p) : p \in h[d]}
    BY <2>2, <1>0, AncestryUnfolds
  <2>4. d \notin Ancestry(h, trunk)
    BY <2>2, <1>0
  <2>5. CASE h[d] = {} /\ Base(d) = NoCommit
    BY <2>2, <2>3, <2>4, <2>5 DEF SharesFrom
  <2>6. ASSUME NEW p \in Ancestry(h, trunk), h[d] = {p}, Base(d) = p PROVE FALSE
    <3>1. p \in DOMAIN h /\ p # NoCommit
      BY AncestryBounded DEF IsHistory, NoCommit
    <3>2. Ancestry(h, d) = {d} \cup Ancestry(h, p)
      BY <2>3, <2>6
    <3>3. Ancestry(h, p) \subseteq Ancestry(h, trunk) /\ p \in Ancestry(h, p)
      BY <3>1, AncestryTransitive, AncestryReflexive
    <3> QED
      BY <2>2, <2>4, <2>6, <3>1, <3>2, <3>3 DEF SharesFrom
  <2>7. ASSUME NEW p \in DOMAIN nodes, h[d] = {p}, p < d, Base(d) = Base(p) PROVE FALSE
    <3>1. p \notin bad
      BY <2>1, <2>2, <2>7, <1>0 DEF IsRange
    <3>2. SharesFrom(h, trunk, p, Base(d))
      BY <3>1, <2>7
    <3>3. Ancestry(h, d) = {d} \cup Ancestry(h, p)
      BY <2>3, <2>7
    <3> QED
      BY <2>2, <2>4, <3>2, <3>3 DEF SharesFrom
  <2> QED
    BY <1>2, <2>2, <2>5, <2>6, <2>7
<1> QED
  BY <1>3 DEF Base

----------------------------------------------------------------------------
(* Sums.                                                                   *)

\* The sum of a family over a set, as the community modules fold it.
SumOver(f, S) == MapThenSumSet(LAMBDA x : f[x], S)

\* The partial sums, in the order in which the fold takes the elements.
PartialSums(sum, f, S) ==
    sum = [s \in SUBSET S |-> IF s = {} THEN 0
                              ELSE f[CHOOSE x \in s : TRUE] + sum[s \ {CHOOSE x \in s : TRUE}]]

\* The sum is the last of the partial sums of the fold.
LEMMA SumIsPartial ==
  ASSUME NEW f, NEW S
  PROVE  SumOver(f, S) = (CHOOSE sum : PartialSums(sum, f, S))[S]
BY DEF SumOver, MapThenSumSet, MapThenFoldSet, PartialSums

\* The partial sums of a fold over a finite set exist.
LEMMA PartialSumsExist ==
  ASSUME NEW S, IsFiniteSet(S), NEW f, \A x \in S : f[x] \in Int
  PROVE  /\ PartialSums(CHOOSE sum : PartialSums(sum, f, S), f, S)
         /\ (CHOOSE sum : PartialSums(sum, f, S)) \in [SUBSET S -> Int]
<1> DEFINE D == SUBSET S
           V == Int
           rank == [s \in D |-> Cardinality(s)]
           Value(s, g) == IF s = {} THEN 0
                          ELSE f[CHOOSE x \in s : TRUE] + g[s \ {CHOOSE x \in s : TRUE}]
           F == [a \in D \X [D -> V] |-> Value(a[1], a[2])]
           total == CHOOSE sum : PartialSums(sum, f, S)
<1>1. \A s \in D : IsFiniteSet(s) /\ Cardinality(s) \in Nat /\ Cardinality(s) <= Cardinality(S)
  BY FS_Subset, FS_CardinalityType
<1>2. rank \in [D -> Nat]
  BY <1>1
<1>a. \E n \in Nat : \A s \in D : rank[s] < n
  <2>1. Cardinality(S) + 1 \in Nat
    BY <1>1
  <2>2. \A s \in D : rank[s] < Cardinality(S) + 1
    BY <1>1, <2>1
  <2> QED
    BY <2>1, <2>2
<1>3. \A s \in D : \A g \in [D -> V] : F[<<s, g>>] = Value(s, g)
  <2> HIDE DEF Value
  <2> QED OBVIOUS
<1>b. \A s \in D : s # {} => /\ (CHOOSE x \in s : TRUE) \in s
                             /\ s \ {CHOOSE x \in s : TRUE} \in D
                             /\ rank[s \ {CHOOSE x \in s : TRUE}] < rank[s]
  <2> SUFFICES ASSUME NEW s \in D, s # {}
               PROVE  /\ (CHOOSE x \in s : TRUE) \in s
                      /\ s \ {CHOOSE x \in s : TRUE} \in D
                      /\ rank[s \ {CHOOSE x \in s : TRUE}] < rank[s]
    OBVIOUS
  <2> DEFINE x == CHOOSE x \in s : TRUE
  <2>1. x \in s
    OBVIOUS
  <2> HIDE DEF x
  <2>2. Cardinality(s \ {x}) = Cardinality(s) - 1
    BY <1>1, <2>1, FS_RemoveElement
  <2>3. s \ {x} \in D
    OBVIOUS
  <2>4. Cardinality(s \ {x}) < Cardinality(s)
    BY <2>2, <1>1
  <2> QED
    BY <2>1, <2>3, <2>4 DEF x
<1>4. F \in [D \X [D -> V] -> V]
  <2>1. ASSUME NEW s \in D, NEW g \in [D -> V] PROVE Value(s, g) \in V
    <3>1. CASE s = {}
      BY <3>1
    <3>2. CASE s # {}
      <4>1. f[CHOOSE x \in s : TRUE] \in Int
        BY <3>2, <1>b
      <4>2. g[s \ {CHOOSE x \in s : TRUE}] \in Int
        BY <3>2, <1>b
      <4> QED
        BY <3>2, <4>1, <4>2
    <3> QED
      BY <3>1, <3>2
  <2> HIDE DEF Value
  <2> QED
    BY <2>1
<1>5. \A s \in D : \A g, h \in [D -> V] :
         (\A e \in D : rank[e] < rank[s] => g[e] = h[e]) => F[<<s, g>>] = F[<<s, h>>]
  <2>1. ASSUME NEW s \in D, NEW g \in [D -> V], NEW h \in [D -> V],
               \A e \in D : rank[e] < rank[s] => g[e] = h[e]
        PROVE  Value(s, g) = Value(s, h)
    <3>1. CASE s = {}
      BY <3>1
    <3>2. CASE s # {}
      <4> DEFINE rest == s \ {CHOOSE x \in s : TRUE}
      <4>1. rest \in D /\ rank[rest] < rank[s]
        BY <3>2, <1>b
      <4>2. g[rest] = h[rest]
        <5> HIDE DEF rest, rank
        <5> QED BY <4>1, <2>1
      <4> QED
        BY <3>2, <4>2
    <3> QED
      BY <3>1, <3>2
  <2> HIDE DEF F, Value, rank, D, V
  <2> QED
    BY <2>1, <1>3
<1>6. PICK g \in [D -> V] : \A s \in D : g[s] = F[<<s, g>>]
  <2>1. Recursion(D, V, F, rank)
    <3>1. 0 \in V
      OBVIOUS
    <3> HIDE DEF F, rank, D, V
    <3> QED
      BY <3>1, <1>a, <1>2, <1>4, <1>5 DEF Recursion
  <2>2. Solvable(D, V, F)
    <3> HIDE DEF F, rank, D, V
    <3> QED
      BY <2>1, SolvedByRank
  <2> QED
    BY <2>2 DEF Solvable
<1>7. PartialSums(g, f, S)
  <2>1. \A s \in D : g[s] = Value(s, g)
    <3> HIDE DEF F, Value
    <3> QED BY <1>3, <1>6
  <2>2. g = [s \in D |-> Value(s, g)]
    <3> HIDE DEF Value
    <3> QED BY <2>1
  <2> QED
    BY <2>2 DEF PartialSums
<1>8. PartialSums(total, f, S)
  BY <1>7
<1>9. total = [s \in D |-> Value(s, total)]
  BY <1>8 DEF PartialSums
<1> HIDE DEF total
<1>10. \A s \in D : total[s] = Value(s, total)
  <2> HIDE DEF Value
  <2> QED BY <1>9
<1>11. \A s \in D : total[s] \in Int
  <2> DEFINE bad == {s \in D : total[s] \notin Int}
  <2> SUFFICES ASSUME bad # {} PROVE FALSE
    OBVIOUS
  <2>1. PICK s \in bad : \A t \in bad : Cardinality(s) <= Cardinality(t)
    <3>1. \A t \in bad : IsFiniteSet(t)
      BY <1>1
    <3> HIDE DEF bad
    <3> QED
      BY <3>1, SmallestSet
  <2>2. s # {}
    BY <2>1, <1>10
  <2> DEFINE x == CHOOSE x \in s : TRUE
  <2>3. x \in s /\ s \ {x} \in D /\ rank[s \ {x}] < rank[s]
    BY <2>1, <2>2, <1>b
  <2>4. Cardinality(s \ {x}) < Cardinality(s)
    BY <2>3, <2>1
  <2>5. s \ {x} \notin bad
    BY <2>4, <2>1, <2>3, <1>1
  <2>6. total[s] = f[x] + total[s \ {x}]
    BY <2>1, <2>2, <1>10
  <2> HIDE DEF x
  <2> QED
    BY <2>3, <2>5, <2>6, <2>1
<1> QED
  <2> HIDE DEF Value
  <2> QED BY <1>8, <1>9, <1>11 DEF total

\* Partial sums of a set and of a larger one agree.
LEMMA PartialSumsAgree ==
  ASSUME NEW U, IsFiniteSet(U), NEW S \in SUBSET U, NEW f, NEW a, NEW b,
         PartialSums(a, f, S), PartialSums(b, f, U)
  PROVE  a[S] = b[S]
<1> DEFINE bad == {s \in SUBSET S : a[s] # b[s]}
<1>1. bad = {}
  <2> SUFFICES ASSUME bad # {} PROVE FALSE
    OBVIOUS
  <2>1. \A s \in bad : IsFiniteSet(s)
    BY FS_Subset
  <2>2. PICK s \in bad : \A t \in bad : Cardinality(s) <= Cardinality(t)
    <3> HIDE DEF bad
    <3> QED
      BY <2>1, SmallestSet
  <2>3. s # {}
    BY <2>2 DEF PartialSums
  <2> DEFINE x == CHOOSE x \in s : TRUE
  <2>4. x \in s
    BY <2>3
  <2>5. a[s] = f[x] + a[s \ {x}] /\ b[s] = f[x] + b[s \ {x}]
    BY <2>2, <2>3 DEF PartialSums
  <2> HIDE DEF x
  <2>a. IsFiniteSet(s)
    BY <2>1, <2>2
  <2>b. Cardinality(s) \in Nat
    BY <2>a, FS_CardinalityType
  <2>c. Cardinality(s \ {x}) = Cardinality(s) - 1
    BY <2>a, <2>4, FS_RemoveElement
  <2>7. s \ {x} \notin bad
    <3> HIDE DEF bad
    <3> QED BY <2>2, <2>b, <2>c
  <2> QED
    BY <2>2, <2>5, <2>7
<1> QED
  BY <1>1

\* A solution gives the sum.
LEMMA SumSolved ==
  ASSUME NEW S, IsFiniteSet(S), NEW f, \A x \in S : f[x] \in Int,
         NEW sum, PartialSums(sum, f, S)
  PROVE  SumOver(f, S) = sum[S]
<1> DEFINE total == CHOOSE t : PartialSums(t, f, S)
<1>1. PartialSums(total, f, S)
  BY PartialSumsExist
<1>2. SumOver(f, S) = total[S]
  BY SumIsPartial
<1> HIDE DEF total
<1> QED
  BY <1>1, <1>2, PartialSumsAgree

\* A finite sum of integers is an integer.
LEMMA SumType ==
  ASSUME NEW S, IsFiniteSet(S), NEW f, \A x \in S : f[x] \in Int
  PROVE  SumOver(f, S) \in Int
<1> DEFINE total == CHOOSE t : PartialSums(t, f, S)
<1>1. total \in [SUBSET S -> Int]
  BY PartialSumsExist
<1>2. SumOver(f, S) = total[S]
  BY SumIsPartial
<1> HIDE DEF total
<1> QED
  BY <1>1, <1>2

\* An empty sum is zero.
LEMMA SumEmpty == \A f : SumOver(f, {}) = 0
<1> SUFFICES ASSUME NEW f PROVE SumOver(f, {}) = 0
  OBVIOUS
<1> DEFINE sum == [s \in SUBSET {} |-> 0]
<1>1. PartialSums(sum, f, {})
  BY DEF PartialSums
<1>2. sum[{}] = 0
  OBVIOUS
<1> HIDE DEF sum
<1> QED
  BY <1>1, <1>2, SumSolved, FS_EmptySet

\* The element that the fold takes first.
LEMMA SumChosen ==
  ASSUME NEW S, IsFiniteSet(S), NEW f, \A x \in S : f[x] \in Int, S # {}
  PROVE  SumOver(f, S) = f[CHOOSE x \in S : TRUE] + SumOver(f, S \ {CHOOSE x \in S : TRUE})
<1> DEFINE total == CHOOSE t : PartialSums(t, f, S)
           x == CHOOSE x \in S : TRUE
           part == CHOOSE t : PartialSums(t, f, S \ {x})
<1>1. PartialSums(total, f, S)
  BY PartialSumsExist
<1>2. SumOver(f, S) = total[S]
  BY SumIsPartial
<1>3. IsFiniteSet(S \ {x})
  BY FS_Difference
<1>4. PartialSums(part, f, S \ {x})
  <2> HIDE DEF x
  <2>1. \A y \in S \ {x} : f[y] \in Int
    OBVIOUS
  <2> QED
    BY <2>1, <1>3, PartialSumsExist
<1>5. SumOver(f, S \ {x}) = part[S \ {x}]
  BY SumIsPartial
<1>6. total[S] = f[x] + total[S \ {x}]
  <2> HIDE DEF total
  <2> QED BY <1>1 DEF PartialSums
<1> HIDE DEF total, part, x
<1>7. part[S \ {x}] = total[S \ {x}]
  BY <1>1, <1>4, PartialSumsAgree
<1> QED
  BY <1>2, <1>5, <1>6, <1>7 DEF x

\* Any element may be taken first.
LEMMA SumRemove ==
  ASSUME NEW S, IsFiniteSet(S), NEW f, \A x \in S : f[x] \in Int, NEW x \in S
  PROVE  SumOver(f, S) = f[x] + SumOver(f, S \ {x})
<1> DEFINE Ok(s) == \A y \in s : SumOver(f, s) = f[y] + SumOver(f, s \ {y})
           bad == {s \in SUBSET S : ~Ok(s)}
<1>1. bad = {}
  <2> SUFFICES ASSUME bad # {} PROVE FALSE
    OBVIOUS
  <2>1. \A s \in bad : IsFiniteSet(s)
    BY FS_Subset
  <2>2. PICK s \in bad : \A t \in bad : Cardinality(s) <= Cardinality(t)
    <3> HIDE DEF bad
    <3> QED
      BY <2>1, SmallestSet
  <2>3. IsFiniteSet(s) /\ s \in SUBSET S
    BY <2>1, <2>2
  <2>4. Cardinality(s) \in Nat
    BY <2>3, FS_CardinalityType
  <2>5. PICK y \in s : SumOver(f, s) # f[y] + SumOver(f, s \ {y})
    BY <2>2
  <2>6. ASSUME NEW z \in s PROVE s \ {z} \in SUBSET S /\ Ok(s \ {z})
    <3>1. Cardinality(s \ {z}) = Cardinality(s) - 1
      BY <2>3, FS_RemoveElement
    <3>2. s \ {z} \notin bad
      <4> HIDE DEF bad
      <4> QED BY <3>1, <2>2, <2>4
    <3> QED
      BY <3>2, <2>3
  <2> DEFINE z == CHOOSE z \in s : TRUE
  <2>7. z \in s /\ SumOver(f, s) = f[z] + SumOver(f, s \ {z})
    <3>1. \A v \in s : f[v] \in Int
      BY <2>3
    <3> QED
      BY <3>1, <2>3, <2>5, SumChosen
  <2> HIDE DEF z
  <2>8. z # y
    BY <2>5, <2>7
  <2>9. SumOver(f, s \ {z}) = f[y] + SumOver(f, (s \ {z}) \ {y})
    BY <2>6, <2>7, <2>8, <2>5
  <2>10. SumOver(f, s \ {y}) = f[z] + SumOver(f, (s \ {y}) \ {z})
    BY <2>6, <2>7, <2>8, <2>5
  <2>11. (s \ {z}) \ {y} = (s \ {y}) \ {z}
    OBVIOUS
  <2>12. f[y] \in Int /\ f[z] \in Int /\ SumOver(f, (s \ {y}) \ {z}) \in Int
    <3>1. IsFiniteSet((s \ {y}) \ {z}) /\ \A v \in (s \ {y}) \ {z} : f[v] \in Int
      BY <2>3, FS_Subset
    <3>2. SumOver(f, (s \ {y}) \ {z}) \in Int
      BY <3>1, SumType
    <3> QED
      BY <3>2, <2>3, <2>5, <2>7
  <2> DEFINE rest == SumOver(f, (s \ {y}) \ {z})
  <2>13. /\ SumOver(f, s \ {z}) = f[y] + rest /\ SumOver(f, s \ {y}) = f[z] + rest
         /\ rest \in Int
    BY <2>9, <2>10, <2>11, <2>12
  <2> HIDE DEF rest
  <2>14. SumOver(f, s) = f[z] + (f[y] + rest)
    BY <2>7, <2>13
  <2>15. f[z] + (f[y] + rest) = f[y] + (f[z] + rest)
    BY <2>12, <2>13
  <2>16. SumOver(f, s) = f[y] + SumOver(f, s \ {y})
    BY <2>13, <2>14, <2>15
  <2> QED
    BY <2>5, <2>16
<1> QED
  BY <1>1

\* One more summand.
LEMMA SumAdd ==
  ASSUME NEW S, IsFiniteSet(S), NEW x, x \notin S, NEW f, \A y \in S \cup {x} : f[y] \in Int
  PROVE  SumOver(f, S \cup {x}) = f[x] + SumOver(f, S)
<1> DEFINE whole == S \cup {x}
<1>1. IsFiniteSet(whole) /\ x \in whole /\ whole \ {x} = S
  BY FS_AddElement
<1> HIDE DEF whole
<1>2. \A y \in whole : f[y] \in Int
  BY DEF whole
<1>3. SumOver(f, whole) = f[x] + SumOver(f, whole \ {x})
  BY <1>1, <1>2, SumRemove
<1> QED
  BY <1>1, <1>3 DEF whole

\* A bijection between the indices of two families that keeps their values.
Moves(move, S, f, T, g) ==
    /\ IsFiniteSet(S) /\ \A x \in S : f[x] \in Int
    /\ IsFiniteSet(T) /\ \A x \in T : g[x] \in Int
    /\ move \in [S -> T] /\ \A x, y \in S : move[x] = move[y] => x = y
    /\ \A y \in T : \E x \in S : move[x] = y
    /\ \A x \in S : g[move[x]] = f[x]

\* The sums of two such families agree.
LEMMA SumMoved ==
  ASSUME NEW S, NEW f, NEW T, NEW g, NEW move, Moves(move, S, f, T, g)
  PROVE  SumOver(f, S) = SumOver(g, T)
<1>0. /\ IsFiniteSet(S) /\ \A x \in S : f[x] \in Int
      /\ IsFiniteSet(T) /\ \A x \in T : g[x] \in Int
      /\ move \in [S -> T] /\ \A x, y \in S : move[x] = move[y] => x = y
      /\ \A y \in T : \E x \in S : move[x] = y
      /\ \A x \in S : g[move[x]] = f[x]
  BY DEF Moves
<1> DEFINE to(s) == {move[x] : x \in s}
           bad == {s \in SUBSET S : SumOver(f, s) # SumOver(g, to(s))}
<1>1. bad = {}
  <2> SUFFICES ASSUME bad # {} PROVE FALSE
    OBVIOUS
  <2>1. \A s \in bad : IsFiniteSet(s)
    BY <1>0, FS_Subset
  <2>2. PICK s \in bad : \A t \in bad : Cardinality(s) <= Cardinality(t)
    <3> HIDE DEF bad
    <3> QED
      BY <2>1, SmallestSet
  <2>3. IsFiniteSet(s) /\ s \in SUBSET S /\ SumOver(f, s) # SumOver(g, to(s))
    BY <2>1, <2>2
  <2>4. Cardinality(s) \in Nat
    BY <2>3, FS_CardinalityType
  <2>5. s # {}
    <3> SUFFICES ASSUME s = {} PROVE FALSE
      OBVIOUS
    <3>1. to(s) = {}
      OBVIOUS
    <3> HIDE DEF to
    <3> QED
      BY <3>1, <2>3, SumEmpty
  <2>6. PICK x \in s : TRUE
    BY <2>5
  <2>7. s \ {x} \notin bad
    <3>1. Cardinality(s \ {x}) = Cardinality(s) - 1
      BY <2>3, FS_RemoveElement
    <3> HIDE DEF bad
    <3> QED BY <3>1, <2>2, <2>4
  <2>8. SumOver(f, s) = f[x] + SumOver(f, s \ {x})
    <3>1. \A y \in s : f[y] \in Int
      BY <1>0, <2>3
    <3> QED
      BY <3>1, <2>3, SumRemove
  <2>9. to(s) \ {move[x]} = to(s \ {x}) /\ move[x] \in to(s) /\ to(s) \in SUBSET T
    BY <1>0, <2>3
  <2>10. SumOver(g, to(s)) = g[move[x]] + SumOver(g, to(s) \ {move[x]})
    <3>1. IsFiniteSet(to(s)) /\ \A y \in to(s) : g[y] \in Int
      BY <1>0, <2>9, FS_Subset
    <3> HIDE DEF to
    <3> QED
      BY <3>1, <2>9, SumRemove
  <2>11. SumOver(f, s \ {x}) = SumOver(g, to(s \ {x}))
    BY <2>7, <2>3
  <2>12. g[move[x]] = f[x]
    BY <1>0, <2>3
  <2>13. SumOver(g, to(s)) = f[x] + SumOver(g, to(s \ {x}))
    <3> HIDE DEF to
    <3> QED BY <2>9, <2>10, <2>12
  <2> HIDE DEF to
  <2> QED
    BY <2>3, <2>8, <2>11, <2>13
<1>2. to(S) = T
  BY <1>0
<1> HIDE DEF to
<1> QED
  BY <1>1, <1>2

\* The sum of a sequence of links, as the model folds it.
LEMMA FoldIsSum ==
  ASSUME NEW links \in Seq(PathLinks)
  PROVE  FoldSeq(LAMBDA link, sum : sum + link.count, 0, links)
            = SumOver([i \in DOMAIN links |-> links[i].count], DOMAIN links)
<1> DEFINE S == DOMAIN links
           f == [i \in S |-> links[i].count]
           Iter(it) == it = [s \in SUBSET S |->
                               IF s = {} THEN 0
                               ELSE it[s \ {CHOOSE x \in s : TRUE}] + links[CHOOSE x \in s : TRUE].count]
           total == CHOOSE sum : PartialSums(sum, f, S)
           iter == CHOOSE it : Iter(it)
<1>1. S = 1..Len(links) /\ Len(links) \in Nat
  OBVIOUS
<1>2. IsFiniteSet(S)
  BY <1>1, FS_Interval
<1>3. \A x \in S : f[x] \in Int /\ f[x] = links[x].count
  <2> SUFFICES ASSUME NEW x \in S PROVE links[x].count \in Int
    OBVIOUS
  <2>1. links[x] \in PathLinks
    <3>1. x \in 1..Len(links)
      BY <1>1
    <3> HIDE DEF S, f, total, iter
    <3> QED
      BY <3>1
  <2> QED
    BY <2>1 DEF PathLinks
<1>4. PartialSums(total, f, S) /\ total \in [SUBSET S -> Int]
  <2> HIDE DEF f, S
  <2> QED BY <1>2, <1>3, PartialSumsExist
<1> HIDE DEF total
<1>5. FoldSeq(LAMBDA link, sum : sum + link.count, 0, links) = iter[S]
  BY DEF FoldSeq, FoldFunction, FoldFunctionOnSet, MapThenFoldSet
<1>6. \A s \in SUBSET S : s # {} =>
         /\ (CHOOSE x \in s : TRUE) \in s
         /\ s \ {CHOOSE x \in s : TRUE} \in SUBSET S
  OBVIOUS
<1>7. \A s \in SUBSET S : s # {} =>
         total[s] = total[s \ {CHOOSE x \in s : TRUE}] + links[CHOOSE x \in s : TRUE].count
  <2> SUFFICES ASSUME NEW s \in SUBSET S, s # {}
               PROVE  total[s] = total[s \ {CHOOSE x \in s : TRUE}] + links[CHOOSE x \in s : TRUE].count
    OBVIOUS
  <2> DEFINE x == CHOOSE x \in s : TRUE
  <2>1. x \in s /\ s \ {x} \in SUBSET S
    OBVIOUS
  <2>2. total[s] = f[x] + total[s \ {x}]
    <3> HIDE DEF f, S
    <3> QED BY <1>4 DEF PartialSums
  <2>3. f[x] \in Int /\ f[x] = links[x].count /\ total[s \ {x}] \in Int
    <3> HIDE DEF x, f, S
    <3> QED BY <2>1, <1>3, <1>4
  <2> HIDE DEF x, f, S
  <2>4. total[s] = total[s \ {x}] + links[x].count
    BY <2>2, <2>3
  <2> QED
    BY <2>4 DEF x
<1>8. Iter(total)
  <2>1. total[{}] = 0
    <3> HIDE DEF f, S
    <3> QED BY <1>4 DEF PartialSums
  <2>2. total = [s \in SUBSET S |-> total[s]]
    <3> HIDE DEF f, S
    <3> QED BY <1>4
  <2> HIDE DEF f, S
  <2> QED
    BY <2>1, <2>2, <1>7
<1>9. Iter(iter)
  <2> HIDE DEF Iter
  <2> QED BY <1>8
<1> HIDE DEF iter
<1>10. iter[S] = total[S]
  <2> DEFINE bad == {s \in SUBSET S : iter[s] # total[s]}
  <2> SUFFICES ASSUME bad # {} PROVE FALSE
    <3> HIDE DEF S
    <3> QED OBVIOUS
  <2>1. \A s \in bad : IsFiniteSet(s)
    <3> HIDE DEF S
    <3> QED BY <1>2, FS_Subset
  <2>2. PICK s \in bad : \A t \in bad : Cardinality(s) <= Cardinality(t)
    <3> HIDE DEF bad
    <3> QED
      BY <2>1, SmallestSet
  <2> HIDE DEF S
  <2>3. IsFiniteSet(s) /\ s \in SUBSET S /\ iter[s] # total[s]
    BY <2>1, <2>2
  <2>4. Cardinality(s) \in Nat
    BY <2>3, FS_CardinalityType
  <2>5. s # {}
    BY <2>3, <1>8, <1>9
  <2> DEFINE x == CHOOSE x \in s : TRUE
  <2>6. x \in s
    BY <2>5
  <2>7. /\ iter[s] = iter[s \ {x}] + links[x].count
        /\ total[s] = total[s \ {x}] + links[x].count
    BY <2>3, <2>5, <1>8, <1>9
  <2> HIDE DEF x
  <2>8. Cardinality(s \ {x}) = Cardinality(s) - 1
    BY <2>3, <2>6, FS_RemoveElement
  <2>9. s \ {x} \notin bad
    <3> HIDE DEF bad
    <3> QED BY <2>2, <2>4, <2>8
  <2> QED
    BY <2>3, <2>7, <2>9
<1> HIDE DEF f, S
<1>11. SumOver(f, S) = total[S]
  BY <1>2, <1>3, <1>4, SumSolved
<1> QED
  BY <1>5, <1>10, <1>11 DEF f, S

----------------------------------------------------------------------------
(* The links of a corridor.                                                *)

\* The counts of links.
Counts(links) == [i \in DOMAIN links |-> links[i].count]

\* Their sum.
Total(links) == SumOver(Counts(links), DOMAIN links)

\* The counts of links are numbers.
LEMMA CountsAreNatural ==
  ASSUME NEW links \in Seq(PathLinks)
  PROVE  /\ DOMAIN links = 1..Len(links) /\ Len(links) \in Nat /\ IsFiniteSet(1..Len(links))
         /\ \A i \in 1..Len(links) : Counts(links)[i] = links[i].count /\ links[i].count \in Nat
<1>1. DOMAIN links = 1..Len(links) /\ Len(links) \in Nat
  OBVIOUS
<1>2. IsFiniteSet(1..Len(links))
  BY <1>1, FS_Interval
<1>3. \A i \in 1..Len(links) : links[i] \in PathLinks
  OBVIOUS
<1>4. \A i \in 1..Len(links) : links[i].count \in Nat
  BY <1>3 DEF PathLinks
<1>5. \A i \in 1..Len(links) : Counts(links)[i] = links[i].count
  BY <1>1 DEF Counts
<1> QED
  BY <1>1, <1>2, <1>4, <1>5

\* No links count no commits.
LEMMA TotalOfNone == Total(<<>>) = 0
<1>1. DOMAIN <<>> = {}
  OBVIOUS
<1> QED
  BY <1>1, SumEmpty DEF Total

\* A link in front adds its count.
LEMMA TotalOfMore ==
  ASSUME NEW links \in Seq(PathLinks), NEW one \in PathLinks
  PROVE  /\ Total(<<one>> \o links) = one.count + Total(links)
         /\ Total(links) \in Int
<1> DEFINE whole == <<one>> \o links
           n == Len(links)
           f == Counts(links)
           g == Counts(whole)
           S == 1..n
           T == 2..(n + 1)
           move == [i \in S |-> i + 1]
<1>1. /\ n \in Nat /\ whole \in Seq(PathLinks) /\ Len(whole) = n + 1 /\ whole[1] = one
      /\ \A i \in 1..n : whole[i + 1] = links[i]
  OBVIOUS
<1>2. DOMAIN links = S /\ IsFiniteSet(S) /\ \A i \in S : f[i] = links[i].count /\ f[i] \in Int
  BY CountsAreNatural
<1>3. DOMAIN whole = 1..(n + 1) /\ \A i \in 1..(n + 1) : g[i] = whole[i].count /\ g[i] \in Int
  <2> HIDE DEF whole, n
  <2>1. /\ DOMAIN whole = 1..Len(whole)
        /\ \A i \in 1..Len(whole) : Counts(whole)[i] = whole[i].count /\ whole[i].count \in Nat
    BY <1>1, CountsAreNatural
  <2>2. g = Counts(whole)
    OBVIOUS
  <2>3. 1..Len(whole) = 1..(n + 1)
    BY <1>1
  <2>4. \A i \in 1..(n + 1) : Counts(whole)[i] = whole[i].count /\ whole[i].count \in Nat
    BY <2>1, <2>3
  <2> HIDE DEF g
  <2>5. \A i \in 1..(n + 1) : g[i] = whole[i].count /\ whole[i].count \in Nat
    BY <2>2, <2>4
  <2>6. \A i \in 1..(n + 1) : g[i] \in Int
    BY <2>5
  <2> QED BY <2>1, <2>3, <2>5, <2>6
<1> HIDE DEF whole, f, g
<1>4. IsFiniteSet(T)
  BY <1>1, FS_Interval
<1>5. T \cup {1} = 1..(n + 1) /\ 1 \notin T
  BY <1>1
<1>6. /\ move \in [S -> T] /\ \A x, y \in S : move[x] = move[y] => x = y
      /\ \A y \in T : \E x \in S : move[x] = y
  <2>1. move \in [S -> T] /\ \A x, y \in S : move[x] = move[y] => x = y
    BY <1>1
  <2>2. \A y \in T : y - 1 \in S /\ move[y - 1] = y
    BY <1>1
  <2> HIDE DEF move, S, T
  <2> QED
    BY <2>1, <2>2
<1>7. \A x \in S : g[move[x]] = f[x]
  <2> SUFFICES ASSUME NEW x \in S PROVE g[x + 1] = f[x]
    OBVIOUS
  <2>1. x + 1 \in 1..(n + 1) /\ whole[x + 1] = links[x]
    BY <1>1
  <2> QED
    BY <2>1, <1>2, <1>3
<1>8. \A y \in T : g[y] \in Int
  BY <1>1, <1>3
<1>9. SumOver(f, S) = SumOver(g, T)
  <2> HIDE DEF S, T, move, n
  <2>1. Moves(move, S, f, T, g)
    BY <1>2, <1>4, <1>6, <1>7, <1>8 DEF Moves
  <2> QED
    BY <2>1, SumMoved
<1>10. SumOver(g, T \cup {1}) = g[1] + SumOver(g, T)
  <2>1. \A y \in T \cup {1} : g[y] \in Int
    BY <1>3, <1>5
  <2> HIDE DEF T, n
  <2> QED BY <1>4, <1>5, <2>1, SumAdd
<1>11. g[1] = one.count
  BY <1>1, <1>3
<1>12. SumOver(f, S) \in Int
  <2> HIDE DEF S
  <2> QED BY <1>2, SumType
<1>13. Total(whole) = SumOver(g, T \cup {1}) /\ Total(links) = SumOver(f, S)
  <2> HIDE DEF T, S, n
  <2> QED BY <1>2, <1>3, <1>5 DEF Total, f, g
<1> QED
  BY <1>9, <1>10, <1>11, <1>12, <1>13 DEF whole

\* What a link is measured from: the next one, or the base.
Previous(state, i) ==
    IF i = Len(state.links) THEN state.base ELSE state.links[i + 1].id

\* The points on the way from the base to c, the nearest first, each with the
\* commits it adds, and the commits above the last of them.
IsLinked(h, pts, c, state) ==
    /\ state \in Paths
    /\ state.base = NoCommit \/ state.base \in Ancestry(h, c)
    /\ \A i \in 1..Len(state.links) :
          /\ state.links[i].id \in pts \cap Between(h, state.base, c)
          /\ state.links[i].count = Cardinality(Between(h, Previous(state, i), state.links[i].id))
          /\ state.links[i].count > 0
    /\ \A x \in pts \cap Between(h, state.base, c) : \E i \in 1..Len(state.links) : state.links[i].id = x
    /\ state.gap = Cardinality(Between(h, Previous(state, 0), c))
    /\ c \in pts => state.base = c \/ (Len(state.links) > 0 /\ state.links[1].id = c)
    /\ Total(state.links) + state.gap = Cardinality(Between(h, state.base, c))

\* A corridor that starts at a commit is described by the empty state.
LEMMA StartIsLinked ==
  ASSUME NEW h, IsHistory(h), NEW pts, NEW c \in DOMAIN h
  PROVE  IsLinked(h, pts, c, PathState(c, <<>>, 0))
<1> DEFINE state == PathState(c, <<>>, 0)
<1>1. state.base = c /\ state.links = <<>> /\ state.gap = 0 /\ Len(state.links) = 0
  BY DEF PathState
<1>2. state \in Paths
  BY DEF PathState, Paths, IsHistory
<1> HIDE DEF state
<1>3. Between(h, c, c) = {} /\ Cardinality(Between(h, c, c)) = 0
  <2>1. Between(h, c, c) = {}
    BY BetweenSelf
  <2> QED
    BY <2>1, FS_EmptySet
<1>4. Previous(state, 0) = c
  BY <1>1 DEF Previous
<1>5. Total(state.links) = 0
  BY <1>1, TotalOfNone
<1>6. c \in Ancestry(h, c)
  BY AncestryReflexive
<1>7. 1..Len(state.links) = {}
  BY <1>1
<1>8. \A x \in pts \cap Between(h, state.base, c) : FALSE
  BY <1>1, <1>3
<1>9. Total(state.links) + state.gap = Cardinality(Between(h, state.base, c))
  BY <1>1, <1>3, <1>5
<1>10. state.gap = Cardinality(Between(h, Previous(state, 0), c))
  BY <1>1, <1>3, <1>4
<1>11. IsLinked(h, pts, c, state)
  BY <1>1, <1>2, <1>6, <1>7, <1>8, <1>9, <1>10 DEF IsLinked
<1> QED
  BY <1>11 DEF state

\* The two cases of a step: a point opens a link, another commit widens the gap.
LEMMA StepForms ==
  ASSUME NEW c, NEW pts, NEW below \in Paths
  PROVE  LET state == Step(c, pts, below)
         IN  /\ state.base = below.base
             /\ c \notin pts => state.links = below.links /\ state.gap = below.gap + 1
             /\ c \in pts => state.links = <<[id |-> c, count |-> below.gap + 1]>> \o below.links
                              /\ state.gap = 0
BY DEF Step, PathState

\* A step keeps the state true to the commits between its base and its commit.
LEMMA StepIsLinked ==
  ASSUME NEW h, IsHistory(h), NEW pts, NEW c \in DOMAIN h, NEW p, h[c] = {p},
         NEW below, IsLinked(h, pts, p, below), p \in pts => below.base # p
  PROVE  IsLinked(h, pts, c, Step(c, pts, below))
<1> DEFINE state == Step(c, pts, below)
           base == below.base
           old == below.links
           links == state.links
<1>1. /\ p \in DOMAIN h /\ c \in Nat /\ p \in Nat /\ p < c
      /\ Ancestry(h, c) = {c} \cup Ancestry(h, p)
      /\ c \in Ancestry(h, c)
  BY AncestryUnfolds, AncestryReflexive DEF IsHistory
<1>2. /\ below \in Paths /\ old \in Seq(PathLinks) /\ below.gap \in Nat /\ Len(old) \in Nat
      /\ base = NoCommit \/ base \in Ancestry(h, p)
  BY DEF IsLinked, Paths
<1>3. state \in Paths
  BY <1>1, <1>2, StepIsPath
<1>4. /\ state.base = base
      /\ c \notin pts => links = old /\ state.gap = below.gap + 1
      /\ c \in pts => links = <<[id |-> c, count |-> below.gap + 1]>> \o old /\ state.gap = 0
  BY <1>2, StepForms
<1> HIDE DEF state
<1>5. ASSUME NEW x, x = NoCommit \/ x \in Ancestry(h, p)
      PROVE  /\ Between(h, x, c) = {c} \cup Between(h, x, p)
             /\ Cardinality(Between(h, x, c)) = Cardinality(Between(h, x, p)) + 1
  <2> DEFINE B == Between(h, x, p)
  <2>1. Between(h, x, c) = {c} \cup B /\ c \notin B
    BY <1>5, BetweenStep
  <2>2. IsFiniteSet(B)
    BY <1>1, BetweenIsFinite
  <2> HIDE DEF B
  <2>3. Cardinality(B \cup {c}) = Cardinality(B) + 1
    BY <2>1, <2>2, FS_AddElement
  <2>4. Between(h, x, c) = B \cup {c}
    BY <2>1
  <2> QED
    BY <2>1, <2>3, <2>4 DEF B
<1>6. /\ \A i \in 1..Len(old) :
            /\ old[i].id \in pts \cap Between(h, base, p)
            /\ old[i].count = Cardinality(Between(h, Previous(below, i), old[i].id))
            /\ old[i].count > 0
      /\ \A x \in pts \cap Between(h, base, p) : \E i \in 1..Len(old) : old[i].id = x
      /\ below.gap = Cardinality(Between(h, Previous(below, 0), p))
      /\ Total(old) + below.gap = Cardinality(Between(h, base, p))
  BY DEF IsLinked
<1>7. Between(h, base, c) = {c} \cup Between(h, base, p)
      /\ Cardinality(Between(h, base, c)) = Cardinality(Between(h, base, p)) + 1
  BY <1>2, <1>5
<1>8. Previous(below, 0) = NoCommit \/ Previous(below, 0) \in Ancestry(h, p)
  <2>1. CASE Len(old) = 0
    BY <2>1, <1>2 DEF Previous
  <2>2. CASE Len(old) # 0
    <3>1. 1 \in 1..Len(old)
      BY <2>2, <1>2
    <3>2. old[1].id \in Between(h, base, p)
      BY <3>1, <1>6
    <3>3. old[1].id \in Ancestry(h, p)
      BY <3>2, <1>1, BetweenIsFinite
    <3> QED
      BY <2>2, <3>3 DEF Previous
  <2> QED
    BY <2>1, <2>2
<1>9. Cardinality(Between(h, Previous(below, 0), c)) = below.gap + 1
  BY <1>5, <1>6, <1>8
<1>10. Total(old) \in Int
  <2>1. [id |-> 0, count |-> 0] \in PathLinks
    BY DEF PathLinks
  <2> QED
    BY <2>1, <1>2, TotalOfMore
<1>11. base = NoCommit \/ base \in Ancestry(h, c)
  BY <1>1, <1>2
<1>12. CASE c \notin pts
  <2>1. links = old /\ state.gap = below.gap + 1
    BY <1>4, <1>12
  <2>2. \A i : Previous(state, i) = Previous(below, i)
    BY <2>1, <1>4 DEF Previous
  <2>3. pts \cap Between(h, base, c) = pts \cap Between(h, base, p)
    BY <1>7, <1>12
  <2>4. \A i \in 1..Len(links) :
            /\ links[i].id \in pts \cap Between(h, base, c)
            /\ links[i].count = Cardinality(Between(h, Previous(state, i), links[i].id))
            /\ links[i].count > 0
    BY <2>1, <2>2, <2>3, <1>6
  <2>5. \A x \in pts \cap Between(h, base, c) : \E i \in 1..Len(links) : links[i].id = x
    BY <2>1, <2>3, <1>6
  <2>6. state.gap = Cardinality(Between(h, Previous(state, 0), c))
    BY <2>1, <2>2, <1>9
  <2>7. Total(links) + state.gap = Cardinality(Between(h, base, c))
    BY <2>1, <1>2, <1>6, <1>7, <1>10
  <2>8. IsLinked(h, pts, c, state)
    BY <1>3, <1>4, <1>11, <1>12, <2>4, <2>5, <2>6, <2>7 DEF IsLinked
  <2> QED
    BY <2>8 DEF state
<1>13. CASE c \in pts
  <2> DEFINE one == [id |-> c, count |-> below.gap + 1]
  <2>1. links = <<one>> \o old /\ state.gap = 0
    BY <1>4, <1>13
  <2>2. one \in PathLinks /\ one.id = c /\ one.count = below.gap + 1
    BY <1>1, <1>2 DEF PathLinks
  <2> HIDE DEF one
  <2>3. /\ Len(links) = Len(old) + 1 /\ links[1] = one
        /\ \A i \in 1..Len(old) : links[i + 1] = old[i]
    <3>1. old \in Seq(PathLinks) /\ one \in PathLinks /\ links = <<one>> \o old
      BY <2>1, <2>2, <1>2
    <3> HIDE DEF links, old
    <3>2. Len(links) = Len(old) + 1 /\ links[1] = one
      BY <3>1
    <3>3. \A i \in 1..Len(old) : links[i + 1] = old[i]
      BY <3>1
    <3> QED
      BY <3>2, <3>3
  <2> HIDE DEF links
  <2>4. Previous(state, 0) = c
    BY <2>2, <2>3, <1>2 DEF Previous, links
  <2>5. Previous(state, 1) = Previous(below, 0)
    BY <2>3, <1>2, <1>4 DEF Previous, links
  <2>6. \A i \in 1..Len(old) : Previous(state, i + 1) = Previous(below, i)
    <3> SUFFICES ASSUME NEW i \in 1..Len(old) PROVE Previous(state, i + 1) = Previous(below, i)
      OBVIOUS
    <3>1. Previous(state, i + 1) = IF i + 1 = Len(links) THEN base ELSE links[(i + 1) + 1].id
      BY <1>4 DEF Previous, links
    <3>2. CASE i = Len(old)
      BY <3>1, <3>2, <2>3 DEF Previous
    <3>3. CASE i # Len(old)
      <4>1. i + 1 \in 1..Len(old)
        BY <3>3, <1>2
      <4>2. links[(i + 1) + 1] = old[i + 1]
        BY <4>1, <2>3
      <4> QED
        BY <3>1, <3>3, <4>2, <2>3, <1>2 DEF Previous
    <3> QED
      BY <3>2, <3>3
  <2>7. ASSUME NEW i \in 1..Len(links)
        PROVE  /\ links[i].id \in pts \cap Between(h, base, c)
               /\ links[i].count = Cardinality(Between(h, Previous(state, i), links[i].id))
               /\ links[i].count > 0
    <3>1. CASE i = 1
      BY <3>1, <2>2, <2>3, <2>5, <1>2, <1>7, <1>9, <1>13
    <3>2. CASE i # 1
      <4> DEFINE j == i - 1
      <4>1. j \in 1..Len(old) /\ i = j + 1
        BY <3>2, <2>3, <1>2
      <4> HIDE DEF j
      <4>2. links[i] = old[j] /\ Previous(state, i) = Previous(below, j)
        BY <4>1, <2>3, <2>6
      <4> QED
        BY <4>1, <4>2, <1>6, <1>7
    <3> QED
      BY <3>1, <3>2
  <2>8. ASSUME NEW x \in pts \cap Between(h, base, c) PROVE \E i \in 1..Len(links) : links[i].id = x
    <3>1. CASE x = c
      <4>1. 1 \in 1..Len(links)
        BY <2>3, <1>2
      <4> QED
        BY <3>1, <4>1, <2>2, <2>3
    <3>2. CASE x # c
      <4>1. PICK i \in 1..Len(old) : old[i].id = x
        BY <3>2, <1>6, <1>7
      <4>2. i + 1 \in 1..Len(links) /\ links[i + 1].id = x
        BY <4>1, <2>3, <1>2
      <4> QED
        BY <4>2
    <3> QED
      BY <3>1, <3>2
  <2>9. state.gap = Cardinality(Between(h, Previous(state, 0), c))
    <3>1. Cardinality(Between(h, c, c)) = 0
      <4>1. Between(h, c, c) = {}
        BY BetweenSelf
      <4> QED
        BY <4>1, FS_EmptySet
    <3> QED
      BY <3>1, <2>1, <2>4
  <2>10. Total(links) + state.gap = Cardinality(Between(h, base, c))
    <3>1. Total(links) = one.count + Total(old)
      BY <2>1, <2>2, <1>2, TotalOfMore
    <3> QED
      BY <3>1, <2>1, <2>2, <1>2, <1>6, <1>7, <1>10
  <2>11. Len(links) > 0 /\ links[1].id = c
    BY <2>2, <2>3, <1>2
  <2>12. IsLinked(h, pts, c, state)
    BY <1>3, <1>4, <1>11, <2>7, <2>8, <2>9, <2>10, <2>11 DEF IsLinked, links
  <2> QED
    BY <2>12 DEF state
<1> QED
  BY <1>12, <1>13

\* The first commit of a corridor that ends in a root.
LEMMA RootIsLinked ==
  ASSUME NEW h, IsHistory(h), NEW pts, NEW c \in DOMAIN h, h[c] = {}
  PROVE  IsLinked(h, pts, c, Step(c, pts, PathState(NoCommit, <<>>, 0)))
<1> DEFINE below == PathState(NoCommit, <<>>, 0)
           state == Step(c, pts, below)
           one   == [id |-> c, count |-> 1]
<1>1. below.base = NoCommit /\ below.links = <<>> /\ below.gap = 0 /\ below \in Paths
  BY DEF PathState, Paths, NoCommit
<1>2. c \in Nat
  BY DEF IsHistory
<1>3. state \in Paths
  <2> HIDE DEF below
  <2> QED BY <1>1, <1>2, StepIsPath
<1>4. /\ state.base = NoCommit
      /\ c \notin pts => state.links = <<>> /\ state.gap = 1
      /\ c \in pts => state.links = <<one>> /\ state.gap = 0
  BY DEF Step, PathState
<1>5. one \in PathLinks /\ one.id = c /\ one.count = 1
  BY <1>2 DEF PathLinks
<1> HIDE DEF state, below, one
<1>6. Between(h, NoCommit, c) = {c} /\ Cardinality(Between(h, NoCommit, c)) = 1
  <2>1. Ancestry(h, c) = {c}
    BY AncestryUnfolds
  <2>2. Between(h, NoCommit, c) = {c}
    BY <2>1 DEF Between
  <2>3. Cardinality({c}) = 1
    BY FS_Singleton
  <2> QED
    BY <2>2, <2>3
<1>7. Between(h, c, c) = {} /\ Cardinality(Between(h, c, c)) = 0
  <2>1. Between(h, c, c) = {}
    BY BetweenSelf
  <2> QED
    BY <2>1, FS_EmptySet
<1>8. CASE c \notin pts
  <2>1. state.links = <<>> /\ state.gap = 1 /\ Len(state.links) = 0 /\ 1..Len(state.links) = {}
    BY <1>4, <1>8
  <2>2. Previous(state, 0) = NoCommit
    BY <2>1, <1>4 DEF Previous
  <2>3. Total(state.links) = 0
    BY <2>1, TotalOfNone
  <2>4. Total(state.links) + state.gap = Cardinality(Between(h, state.base, c))
    BY <2>1, <2>3, <1>4, <1>6
  <2>5. state.gap = Cardinality(Between(h, Previous(state, 0), c))
    BY <2>1, <2>2, <1>6
  <2>6. pts \cap Between(h, state.base, c) = {}
    BY <1>4, <1>6, <1>8
  <2>7. IsLinked(h, pts, c, state)
    BY <2>1, <2>4, <2>5, <2>6, <1>3, <1>4, <1>8 DEF IsLinked
  <2> QED
    BY <2>7 DEF state, below
<1>9. CASE c \in pts
  <2>1. /\ state.links = <<one>> /\ state.gap = 0 /\ Len(state.links) = 1 /\ state.links[1] = one
        /\ 1..Len(state.links) = {1}
    <3>1. state.links = <<one>> /\ state.gap = 0
      BY <1>4, <1>9
    <3>2. Len(<<one>>) = 1 /\ <<one>>[1] = one
      OBVIOUS
    <3>3. 1..1 = {1}
      OBVIOUS
    <3> QED
      BY <3>1, <3>2, <3>3
  <2>2. Previous(state, 0) = c /\ Previous(state, 1) = NoCommit
    BY <2>1, <1>4, <1>5 DEF Previous
  <2>3. Total(state.links) = 1
    <3>1. <<one>> = <<one>> \o <<>>
      BY <1>5
    <3>2. <<>> \in Seq(PathLinks)
      OBVIOUS
    <3>3. Total(<<one>> \o <<>>) = one.count + Total(<<>>)
      BY <3>2, <1>5, TotalOfMore
    <3> QED
      BY <2>1, <3>1, <3>3, <1>5, TotalOfNone
  <2>4. Total(state.links) + state.gap = Cardinality(Between(h, state.base, c))
    BY <2>1, <2>3, <1>4, <1>6
  <2>5. state.gap = Cardinality(Between(h, Previous(state, 0), c))
    BY <2>1, <2>2, <1>7
  <2>6. \A x \in pts \cap Between(h, state.base, c) : \E i \in 1..Len(state.links) : state.links[i].id = x
    BY <2>1, <1>4, <1>5, <1>6
  <2>7. \A i \in 1..Len(state.links) :
          /\ state.links[i].id \in pts \cap Between(h, state.base, c)
          /\ state.links[i].count = Cardinality(Between(h, Previous(state, i), state.links[i].id))
          /\ state.links[i].count > 0
    BY <2>1, <2>2, <1>4, <1>5, <1>6, <1>9
  <2>8. Len(state.links) > 0 /\ state.links[1].id = c
    BY <2>1, <1>5
  <2>9. IsLinked(h, pts, c, state)
    BY <2>4, <2>5, <2>6, <2>7, <2>8, <1>3, <1>4 DEF IsLinked
  <2> QED
    BY <2>9 DEF state, below
<1> QED
  BY <1>8, <1>9

\* The summary of every commit of a range is true to the commits between its
\* base and itself, whatever the range (graph.rs:81, construction.rs:267).
LEMMA LinkedPaths ==
  ASSUME NEW h, IsHistory(h), NEW trunk \in DOMAIN h, NEW tips \in SUBSET DOMAIN h,
         NEW nodes, IsAbove(h, nodes, tips, trunk), IsLinear(nodes),
         NEW pts, pts \cap Ancestry(h, trunk) = {}
  PROVE  \A c \in DOMAIN nodes : IsLinked(h, pts, c, LinearPaths(nodes, pts)[c])
<1> DEFINE State(d) == LinearPaths(nodes, pts)[d]
           bad == {d \in DOMAIN nodes : ~IsLinked(h, pts, d, State(d))}
<1>1. /\ IsRange(nodes) /\ DOMAIN nodes \subseteq DOMAIN h
      /\ \A d \in DOMAIN nodes : d \notin Ancestry(h, trunk)
  BY DEF IsAbove
<1>2. \A d \in DOMAIN nodes : State(d) = Step(d, pts, Below(nodes, pts, d))
  BY <1>1, LinearUnfolds
<1>3. bad \in SUBSET Nat
  BY <1>1 DEF IsRange
<1>4. bad = {}
  <2> SUFFICES ASSUME bad # {} PROVE FALSE
    OBVIOUS
  <2>1. PICK d \in bad : \A e \in bad : d <= e
    <3> HIDE DEF bad
    <3> QED BY <1>3, LeastNatural
  <2>2. d \in DOMAIN nodes /\ d \in DOMAIN h
    BY <2>1, <1>1
  <2>3. Continues(h, trunk, nodes, pts, d)
    BY <2>2, LinearCases
  <2>4. ~IsLinked(h, pts, d, Step(d, pts, Below(nodes, pts, d)))
    BY <2>1, <2>2, <1>2
  <2>5. CASE h[d] = {} /\ Below(nodes, pts, d) = PathState(NoCommit, <<>>, 0)
    BY <2>2, <2>4, <2>5, RootIsLinked
  <2>6. ASSUME NEW p \in Ancestry(h, trunk), h[d] = {p}, Below(nodes, pts, d) = PathState(p, <<>>, 0)
        PROVE  FALSE
    <3>1. p \in DOMAIN h /\ p \notin pts
      BY AncestryBounded
    <3>2. IsLinked(h, pts, p, PathState(p, <<>>, 0))
      BY <3>1, StartIsLinked
    <3>3. IsLinked(h, pts, d, Step(d, pts, PathState(p, <<>>, 0)))
      BY <3>1, <3>2, <2>2, <2>6, StepIsLinked
    <3> QED
      BY <3>3, <2>4, <2>6
  <2>7. ASSUME NEW p \in DOMAIN nodes, h[d] = {p}, p < d, Below(nodes, pts, d) = State(p)
        PROVE  FALSE
    <3>1. p \notin bad
      BY <2>1, <2>7, <1>1 DEF IsRange
    <3>2. IsLinked(h, pts, p, State(p))
      BY <3>1
    <3>3. State(p).base # p
      <4>1. SharesFrom(h, trunk, p, State(p).base)
        BY LinearBase
      <4>2. p \notin Ancestry(h, trunk) /\ p # NoCommit
        BY <1>1 DEF IsHistory, NoCommit
      <4> QED
        BY <4>1, <4>2 DEF SharesFrom
    <3> HIDE DEF State
    <3>4. IsLinked(h, pts, d, Step(d, pts, State(p)))
      BY <3>2, <3>3, <2>2, <2>7, StepIsLinked
    <3> QED
      BY <3>4, <2>4, <2>7
  <2> QED
    BY <2>3, <2>5, <2>6, <2>7 DEF Continues
<1> QED
  BY <1>4

----------------------------------------------------------------------------
(* Selections and merge bases.                                             *)

\* No parent is later than the latest.
LEMMA MaxOfParents ==
  ASSUME NEW n \in Nat, NEW S \in SUBSET (1..n)
  PROVE  \A p \in S : p <= Max(S \cup {0})
<1> DEFINE T == S \cup {0}
<1>1. T \in SUBSET Nat /\ T # {} /\ \A s \in T : s <= n
  OBVIOUS
<1>2. PICK g \in T : \A m \in T : m <= g
  <2> HIDE DEF T
  <2> QED BY <1>1, GreatestNatural
<1>3. Max(T) = CHOOSE x \in T : \A y \in T : x >= y
  BY DEF Max
<1>4. \A y \in T : g >= y
  BY <1>1, <1>2
<1>5. \A y \in T : Max(T) >= y
  <2> HIDE DEF T
  <2> QED BY <1>2, <1>3, <1>4
<1> QED
  <2> Max(T) \in T
    <3> HIDE DEF T
    <3> QED BY <1>2, <1>3, <1>4
  <2> HIDE DEF T
  <2>1. \A p \in S : p \in T
    BY DEF T
  <2> QED
    BY <1>1, <1>5, <2>1 DEF T

\* The histories the analysis starts from are histories.
LEMMA HistoriesAreHistories ==
  ASSUME NEW n \in Nat, NEW k, NEW h \in Histories(n, k)
  PROVE  IsHistory(h) /\ DOMAIN h = 1..n
<1>1. DOMAIN h = 1..n /\ \A c \in 1..n : h[c] \in SUBSET (1..n)
  BY DEF Histories
<1>2. \A c \in 1..n : Max(h[c] \cup {0}) < c
  BY DEF Histories
<1>3. ASSUME NEW c \in 1..n, NEW p \in h[c] PROVE p < c /\ p \in 1..n
  <2>1. p <= Max(h[c] \cup {0})
    BY <1>1, MaxOfParents
  <2>2. Max(h[c] \cup {0}) \in Int
    <3>1. \A S \in SUBSET (1..n) : Max(S \cup {0}) \in S \cup {0}
      <4> SUFFICES ASSUME NEW S \in SUBSET (1..n) PROVE Max(S \cup {0}) \in S \cup {0}
        OBVIOUS
      <4> DEFINE T == S \cup {0}
      <4>1. T \in SUBSET Nat /\ T # {} /\ \A s \in T : s <= n
        OBVIOUS
      <4>2. PICK g \in T : \A m \in T : m <= g
        <5> HIDE DEF T
        <5> QED BY <4>1, GreatestNatural
      <4>3. \A y \in T : g >= y
        BY <4>1, <4>2
      <4>4. Max(T) = CHOOSE x \in T : \A y \in T : x >= y
        BY DEF Max
      <4> HIDE DEF T
      <4>5. Max(T) \in T
        BY <4>2, <4>3, <4>4
      <4> QED
        BY <4>5 DEF T
    <3>2. Max(h[c] \cup {0}) \in h[c] \cup {0}
      BY <1>1, <3>1
    <3> QED
      BY <1>1, <3>2
  <2>3. p \in 1..n
    BY <1>1
  <2> QED
    BY <1>2, <2>1, <2>2, <2>3
<1>4. \E m \in Nat : \A c \in 1..n : c < m
  <2> n + 1 \in Nat /\ \A c \in 1..n : c < n + 1
    OBVIOUS
  <2> QED OBVIOUS
<1>5. DOMAIN h \subseteq Nat \ {0}
  BY <1>1
<1>6. \E m \in Nat : \A c \in DOMAIN h : c < m
  BY <1>1, <1>4
<1>7. \A c \in DOMAIN h : \A p \in h[c] : p < c /\ p \in DOMAIN h
  BY <1>1, <1>3
<1> QED
  BY <1>1, <1>5, <1>6, <1>7 DEF IsHistory

----------------------------------------------------------------------------
\* Both backends find the tips main does not contain (gix.rs, shell.rs).
LEMMA UnmergedIs ==
  ASSUME IsHistory(history), NEW m \in Commits, NEW tips \in SUBSET Commits
  PROVE  Unmerged(m, tips) = tips \ Ancestry(history, m)
<1> DEFINE nodes == Walk(history, tips, {m})
<1>1. IsAbove(history, nodes, tips, m)
  BY WalkIsAbove DEF Commits
<1>2. \A t \in tips : t \in Ancestry(history, t)
  BY AncestryReflexive DEF Commits
<1>3. tips \cap DOMAIN nodes = tips \ Ancestry(history, m)
  <2> HIDE DEF nodes
  <2> QED BY <1>1, <1>2 DEF IsAbove
<1>4. m \in Ancestry(history, m)
  BY AncestryReflexive DEF Commits
<1>5. Analysis(m, tips).unmerged = tips \cap DOMAIN nodes
  BY DEF Analysis
<1>6. ShellUnmerged(m, tips) = tips \ Ancestry(history, m)
  <2>1. CASE tips \subseteq {m}
    BY <2>1, <1>4 DEF ShellUnmerged
  <2>2. CASE ~(tips \subseteq {m})
    BY <2>2, <1>3 DEF ShellUnmerged
  <2> QED
    BY <2>1, <2>2
<1> HIDE DEF nodes
<1> QED
  BY <1>3, <1>5, <1>6 DEF Unmerged

\* What is kept of an analysis of the tips: it is true of the repository.
IsAnalysis(s, h, m, tips) ==
    /\ s.main = m
    /\ s.unmerged = tips \ Ancestry(h, m)
    /\ s.heads = Maximal(h, s.unmerged)
    /\ \A c \in DOMAIN s.bases : s.bases[c] \in MergeBaseAnswers(h, m, c)
    /\ s.retained => /\ s.nodes = Walk(h, tips, {m})
                     /\ Cardinality(DOMAIN s.nodes) <= RetainLimit

\* Tips that main contains add nothing to a walk above main.
LEMMA WalkOfUnmerged ==
  ASSUME NEW h, IsHistory(h), NEW m \in DOMAIN h, NEW tips \in SUBSET DOMAIN h
  PROVE  Walk(h, tips, {m}) = Walk(h, tips \ Ancestry(h, m), {m})
<1> DEFINE some == tips \ Ancestry(h, m)
<1>1. \A c : c \in Reachable(h, tips) /\ c \notin Ancestry(h, m) <=>
             c \in Reachable(h, some) /\ c \notin Ancestry(h, m)
  <2> SUFFICES ASSUME NEW c, NEW t \in tips, c \in Ancestry(h, t), c \notin Ancestry(h, m)
               PROVE  t \in some
    BY ReachableIs
  <2> QED
    BY AncestryTransitive
<1>2. Reachable(h, {m}) = Ancestry(h, m)
  BY DEF Reachable
<1>3. Reachable(h, tips) \ Reachable(h, {m}) = Reachable(h, some) \ Reachable(h, {m})
  <2> HIDE DEF some
  <2> QED BY <1>1, <1>2
<1> HIDE DEF some
<1>4. Walk(h, tips, {m}) = Walk(h, some, {m})
  BY <1>3 DEF Walk
<1> QED
  BY <1>4 DEF some

\* What analyze_range keeps is true of the repository (gix/graph.rs:90).
LEMMA AnalysisIs ==
  ASSUME IsHistory(history), NEW m \in Commits, NEW tips \in SUBSET Commits
  PROVE  IsAnalysis(Analysis(m, tips), history, m, tips)
<1> DEFINE nodes    == Walk(history, tips, {m})
           retained == Cardinality(DOMAIN nodes) <= RetainLimit
           unmerged == tips \cap DOMAIN nodes
           tops     == unmerged \ UNION {nodes[c] : c \in DOMAIN nodes}
           proven   == ProvenBases(nodes)
           bases    == IF retained THEN {x \in tops : proven[x] # Unproven} ELSE {}
           a        == Analysis(m, tips)
<1>1. a = [main |-> m, unmerged |-> unmerged, heads |-> tops,
           bases |-> [x \in bases |-> proven[x]],
           retained |-> retained, nodes |-> IF retained THEN nodes ELSE <<>>]
  BY DEF Analysis
<1>2. IsAbove(history, nodes, tips, m)
  BY WalkIsAbove DEF Commits
<1>3. unmerged = tips \ Ancestry(history, m)
  <2>1. \A t \in tips : t \in Ancestry(history, t)
    BY AncestryReflexive DEF Commits
  <2> HIDE DEF nodes
  <2> QED BY <1>2, <2>1 DEF IsAbove
<1>4. nodes = Walk(history, tips \ Ancestry(history, m), {m})
  BY WalkOfUnmerged DEF Commits
<1>5. tops = Maximal(history, tips \ Ancestry(history, m))
  <2> DEFINE some == tips \ Ancestry(history, m)
             range == Walk(history, some, {m})
  <2>1. some \in SUBSET DOMAIN history /\ some \cap Ancestry(history, m) = {} /\ m \in DOMAIN history
    BY DEF Commits
  <2>2. some \ UNION {range[c] : c \in DOMAIN range} = Maximal(history, some)
    <3> HIDE DEF some
    <3> QED BY <2>1, HeadsOfRange
  <2>3. tops = some \ UNION {range[c] : c \in DOMAIN range}
    <3> HIDE DEF nodes, range
    <3> QED BY <1>3, <1>4 DEF range
  <2> HIDE DEF some, range, tops
  <2> QED
    BY <2>2, <2>3 DEF some
<1>6. \A c \in bases : proven[c] \in MergeBaseAnswers(history, m, c)
  <2> SUFFICES ASSUME NEW c \in bases PROVE proven[c] \in MergeBaseAnswers(history, m, c)
    OBVIOUS
  <2>1. c \in DOMAIN nodes /\ proven[c] # Unproven
    OBVIOUS
  <2> HIDE DEF nodes, bases
  <2> QED
    BY <1>2, <2>1, ProvenIsBest DEF Commits
<1>7. retained => Cardinality(DOMAIN nodes) <= RetainLimit
  OBVIOUS
<1> HIDE DEF nodes, bases, tops, proven, unmerged, a, retained
<1>8. /\ a.main = m /\ a.unmerged = unmerged /\ a.heads = tops
      /\ a.bases = [x \in bases |-> proven[x]]
      /\ a.retained = retained /\ (retained => a.nodes = nodes)
  BY <1>1
<1>9. \A c \in DOMAIN a.bases : a.bases[c] \in MergeBaseAnswers(history, m, c)
  BY <1>6, <1>8
<1>10. a.retained => a.nodes = Walk(history, tips, {m}) /\ Cardinality(DOMAIN a.nodes) <= RetainLimit
  BY <1>7, <1>8 DEF nodes
<1>11. IsAnalysis(a, history, m, tips)
  BY <1>3, <1>5, <1>8, <1>9, <1>10 DEF IsAnalysis
<1> QED
  BY <1>11 DEF a

\* What the backend keeps is an analysis of its repository.
SelectionIs(s, h, m) == s = NoSelection \/ \E tips \in SUBSET DOMAIN h : IsAnalysis(s, h, m, tips)

\* A query for unmerged tips leaves a true analysis behind.
LEMMA UnmergedTipsKeep ==
  ASSUME IsHistory(history), NEW m \in Commits, NEW tips \in SUBSET Commits,
         SelectionIs(selection, history, m), summaries = NoSummaries,
         UnmergedTips(m, tips)
  PROVE  /\ SelectionIs(selection', history, m)
         /\ history' = history /\ native' = native /\ summaries' = NoSummaries
<1>1. IsAnalysis(Analysis(m, tips), history, m, tips)
  BY AnalysisIs
<1>2. CASE native
  <2> DEFINE a == Analysis(m, tips)
  <2>1. selection' = a
    BY <1>2 DEF UnmergedTips
  <2>2. SelectionIs(a, history, m)
    <3> HIDE DEF a
    <3>1. IsAnalysis(a, history, m, tips)
      BY <1>1 DEF a
    <3> QED
      BY <3>1 DEF SelectionIs, Commits
  <2> HIDE DEF a
  <2> QED
    BY <2>1, <2>2, <1>2 DEF UnmergedTips
<1>3. CASE ~native
  BY <1>3 DEF UnmergedTips
<1> QED
  BY <1>2, <1>3

\* The heads found are those of git merge-base --independent, from a kept
\* analysis or a new one (gix.rs:365, batch.rs:57).
LEMMA IndependentIs ==
  ASSUME IsHistory(history), NEW m \in Commits, NEW tips \in SUBSET Commits,
         SelectionIs(selection, history, m), tips \cap Ancestry(history, m) = {}
  PROVE  Independent(m, tips) = Maximal(history, tips)
<1>1. ShellIndependent(m, tips) = Maximal(history, tips)
  <2>1. tips \ UNION {Walk(history, tips, {m})[c] : c \in DOMAIN Walk(history, tips, {m})}
            = Maximal(history, tips)
    BY HeadsOfRange DEF Commits
  <2> QED
    BY <2>1 DEF ShellIndependent
<1>2. Analysis(m, tips).heads = Maximal(history, tips)
  <2>1. IsAnalysis(Analysis(m, tips), history, m, tips)
    BY AnalysisIs
  <2>2. tips \ Ancestry(history, m) = tips
    OBVIOUS
  <2> DEFINE a == Analysis(m, tips)
  <2> HIDE DEF a
  <2>3. IsAnalysis(a, history, m, tips)
    BY <2>1 DEF a
  <2>4. a.heads = Maximal(history, tips)
    BY <2>2, <2>3 DEF IsAnalysis
  <2> QED
    BY <2>4 DEF a
<1>3. selection.main = m /\ selection.unmerged = tips => selection.heads = Maximal(history, tips)
  <2>1. m # NoCommit
    BY DEF IsHistory, Commits, NoCommit
  <2> SUFFICES ASSUME selection.main = m, selection.unmerged = tips
               PROVE  selection.heads = Maximal(history, tips)
    OBVIOUS
  <2>2. selection # NoSelection
    BY <2>1 DEF NoSelection
  <2> QED
    BY <2>2 DEF SelectionIs, IsAnalysis
<1> QED
  BY <1>1, <1>2, <1>3 DEF Independent

\* Each merge base answer, kept or searched, is a best common ancestor
\* (gix/graph.rs:174).
LEMMA MergeBaseIsBest ==
  ASSUME IsHistory(history), NEW m \in Commits, NEW a \in Commits, NEW b,
         SelectionIs(selection, history, m)
  PROVE  MergeBase(a, b) \subseteq MergeBaseAnswers(history, a, b)
<1> SUFFICES ASSUME native, selection.main = a, b \in DOMAIN selection.bases
             PROVE  selection.bases[b] \in MergeBaseAnswers(history, a, b)
  BY DEF MergeBase
<1>1. a # NoCommit
  BY DEF IsHistory, Commits, NoCommit
<1>2. selection # NoSelection
  BY <1>1 DEF NoSelection
<1> QED
  BY <1>2 DEF SelectionIs, IsAnalysis

----------------------------------------------------------------------------
(* Boundaries below every base.                                            *)

\* The recursion of CommonBoundaries, over the sets of bases.
FoldedBoundaries(bases) ==
    CHOOSE folded : folded = [some \in SUBSET bases |->
        IF some = {} THEN {NoCommit}
        ELSE IF Cardinality(some) = 1 THEN some
        ELSE UNION {UNION {Folded(previous, last) : previous \in folded[some \ {last}]} :
                        last \in some}]

\* What a boundary is folded with lies below both (gix/graph.rs:185).
LEMMA FoldedStaysBelow ==
  ASSUME IsHistory(history), NEW boundary \in MaybeCommit, NEW base \in Commits,
         NEW x \in Folded(boundary, base)
  PROVE  /\ x \in MaybeCommit
         /\ x # NoCommit => x \in Ancestry(history, boundary) \cap Ancestry(history, base)
<1>1. CASE boundary = NoCommit
  BY <1>1 DEF Folded, MaybeCommit
<1>2. CASE boundary # NoCommit
  <2>1. x \in MergeBaseAnswers(history, boundary, base)
    BY <1>2 DEF Folded
  <2>2. x # NoCommit => x \in Ancestry(history, boundary) \cap Ancestry(history, base)
    BY <2>1 DEF MergeBaseAnswers, BestBases, Maximal
  <2>3. boundary \in Commits
    BY <1>2 DEF MaybeCommit
  <2>4. x # NoCommit => x \in Commits
    BY <2>2, <2>3, AncestryBounded DEF Commits
  <2> QED
    BY <2>2, <2>4 DEF MaybeCommit
<1> QED
  BY <1>1, <1>2

\* The boundaries of a set come from those of the set with one base less.
LEMMA FoldedUnfolds ==
  ASSUME IsHistory(history), NEW bases \in SUBSET Commits, NEW some \in SUBSET bases
  PROVE  FoldedBoundaries(bases)[some] =
            IF some = {} THEN {NoCommit}
            ELSE IF Cardinality(some) = 1 THEN some
            ELSE UNION {UNION {Folded(previous, last) :
                                  previous \in FoldedBoundaries(bases)[some \ {last}]} :
                            last \in some}
<1> DEFINE D == SUBSET bases
           V == SUBSET MaybeCommit
           rank == [s \in D |-> Cardinality(s)]
           Value(s, f) ==
               IF s = {} THEN {NoCommit}
               ELSE IF Cardinality(s) = 1 THEN s
               ELSE UNION {UNION {Folded(previous, last) : previous \in f[s \ {last}]} :
                               last \in s}
           F == [x \in D \X [D -> V] |-> Value(x[1], x[2])]
           Is(f) == f = [s \in D |-> Value(s, f)]
           folded == CHOOSE f : Is(f)
<1>0. IsFiniteSet(bases)
  <2>1. PICK n \in Nat : \A c \in Commits : c < n
    BY DEF IsHistory, Commits
  <2>2. bases \in SUBSET Nat /\ \A b \in bases : b <= n
    BY <2>1 DEF IsHistory, Commits
  <2> QED
    BY <2>2, BoundedIsFinite
<1>1. \A s \in D : IsFiniteSet(s) /\ Cardinality(s) \in Nat /\ Cardinality(s) <= Cardinality(bases)
  BY <1>0, FS_Subset, FS_CardinalityType
<1>2. rank \in [D -> Nat]
  BY <1>1
<1>a. \E n \in Nat : \A s \in D : rank[s] < n
  <2>1. Cardinality(bases) \in Nat
    BY <1>0, FS_CardinalityType
  <2>2. Cardinality(bases) + 1 \in Nat
    BY <2>1
  <2>3. \A s \in D : rank[s] < Cardinality(bases) + 1
    BY <1>1, <2>1
  <2> QED
    BY <2>2, <2>3
<1>3. \A s \in D : \A f \in [D -> V] : F[<<s, f>>] = Value(s, f)
  <2> HIDE DEF Value
  <2> QED OBVIOUS
<1>b. \A s \in D : \A last \in s : s \ {last} \in D /\ rank[s \ {last}] < rank[s]
  <2> SUFFICES ASSUME NEW s \in D, NEW last \in s
               PROVE  s \ {last} \in D /\ rank[s \ {last}] < rank[s]
    OBVIOUS
  <2>1. IsFiniteSet(s) /\ Cardinality(s) \in Nat
    BY <1>1
  <2>2. Cardinality(s \ {last}) = Cardinality(s) - 1
    BY <2>1, FS_RemoveElement
  <2> QED
    BY <2>1, <2>2
<1>4. F \in [D \X [D -> V] -> V]
  <2>1. ASSUME NEW s \in D, NEW f \in [D -> V] PROVE Value(s, f) \in V
    <3>1. CASE s = {}
      BY <3>1 DEF MaybeCommit
    <3>2. CASE s # {} /\ Cardinality(s) = 1
      BY <3>2 DEF MaybeCommit
    <3>3. CASE s # {} /\ Cardinality(s) # 1
      <4>1. ASSUME NEW last \in s, NEW previous \in f[s \ {last}],
                   NEW x \in Folded(previous, last)
            PROVE  x \in MaybeCommit
        <5>1. previous \in MaybeCommit /\ last \in Commits
          BY <1>b
        <5> QED
          BY <4>1, <5>1, FoldedStaysBelow
      <4>2. ASSUME NEW x \in Value(s, f) PROVE x \in MaybeCommit
        <5>1. PICK last \in s : x \in UNION {Folded(previous, last) : previous \in f[s \ {last}]}
          BY <3>3
        <5>2. PICK previous \in f[s \ {last}] : x \in Folded(previous, last)
          BY <5>1
        <5> QED
          BY <5>2, <4>1
      <4> HIDE DEF Value
      <4> QED
        BY <4>2
    <3> HIDE DEF Value
    <3> QED
      BY <3>1, <3>2, <3>3
  <2> HIDE DEF Value
  <2> QED
    BY <2>1
<1>5. \A s \in D : \A f, g \in [D -> V] :
         (\A e \in D : rank[e] < rank[s] => f[e] = g[e]) => F[<<s, f>>] = F[<<s, g>>]
  <2>1. ASSUME NEW s \in D, NEW f \in [D -> V], NEW g \in [D -> V],
               \A e \in D : rank[e] < rank[s] => f[e] = g[e]
        PROVE  Value(s, f) = Value(s, g)
    <3>1. \A last \in s : f[s \ {last}] = g[s \ {last}]
      <4> HIDE DEF rank
      <4> QED BY <2>1, <1>b
    <3> DEFINE From(last, set) == UNION {Folded(previous, last) : previous \in set}
    <3>2. \A last \in s : From(last, f[s \ {last}]) = From(last, g[s \ {last}])
      BY <3>1
    <3>3. {From(last, f[s \ {last}]) : last \in s} = {From(last, g[s \ {last}]) : last \in s}
      <4> HIDE DEF From
      <4> QED BY <3>2
    <3>4. UNION {From(last, f[s \ {last}]) : last \in s} = UNION {From(last, g[s \ {last}]) : last \in s}
      <4> HIDE DEF From
      <4> QED BY <3>3
    <3> QED
      BY <3>4, Zenon
  <2> HIDE DEF F, Value, rank, D, V
  <2> QED
    BY <2>1, <1>3
<1>6. PICK f \in [D -> V] : \A s \in D : f[s] = F[<<s, f>>]
  <2>1. Recursion(D, V, F, rank)
    <3>1. {} \in V
      OBVIOUS
    <3> HIDE DEF F, rank, D, V
    <3> QED
      BY <3>1, <1>a, <1>2, <1>4, <1>5 DEF Recursion
  <2>2. Solvable(D, V, F)
    <3> HIDE DEF F, rank, D, V
    <3> QED
      BY <2>1, SolvedByRank
  <2> QED
    BY <2>2 DEF Solvable
<1>7. Is(f)
  <2>1. \A s \in D : f[s] = Value(s, f)
    <3> HIDE DEF F, Value
    <3> QED BY <1>3, <1>6
  <2> HIDE DEF Value
  <2> QED
    BY <2>1
<1>8. Is(folded)
  <2> HIDE DEF Is
  <2> QED BY <1>7
<1>9. FoldedBoundaries(bases) = folded
  BY DEF FoldedBoundaries
<1>10. folded[some] = Value(some, folded)
  <2> HIDE DEF folded, Value
  <2> QED BY <1>8
<1> HIDE DEF folded
<1> QED
  BY <1>9, <1>10

\* The folded boundary lies below every base, or there is none.
LEMMA BoundariesCutBelow ==
  ASSUME IsHistory(history), NEW bases \in SUBSET Commits,
         NEW boundary \in CommonBoundaries(bases)
  PROVE  CutsBelow(history, boundary, bases)
<1> DEFINE folded == FoldedBoundaries(bases)
           Ok(s) == \A x \in folded[s] : x \in MaybeCommit /\ CutsBelow(history, x, s)
           bad == {s \in SUBSET bases : ~Ok(s)}
<1>0. IsFiniteSet(bases)
  <2>1. PICK n \in Nat : \A c \in Commits : c < n
    BY DEF IsHistory, Commits
  <2>2. bases \in SUBSET Nat /\ \A b \in bases : b <= n
    BY <2>1 DEF IsHistory, Commits
  <2> QED
    BY <2>2, BoundedIsFinite
<1>1. \A s \in SUBSET bases :
         folded[s] = IF s = {} THEN {NoCommit}
                     ELSE IF Cardinality(s) = 1 THEN s
                     ELSE UNION {UNION {Folded(previous, last) : previous \in folded[s \ {last}]} :
                                     last \in s}
  BY FoldedUnfolds
<1>2. CommonBoundaries(bases) = folded[bases]
  BY DEF CommonBoundaries, FoldedBoundaries
<1> HIDE DEF folded
<1>3. bad = {}
  <2> SUFFICES ASSUME bad # {} PROVE FALSE
    OBVIOUS
  <2>1. \A s \in bad : IsFiniteSet(s)
    BY <1>0, FS_Subset
  <2>2. PICK s \in bad : \A t \in bad : Cardinality(s) <= Cardinality(t)
    <3> HIDE DEF bad
    <3> QED
      BY <2>1, SmallestSet
  <2>s. s \in SUBSET bases /\ IsFiniteSet(s) /\ Cardinality(s) \in Nat
    BY <2>1, <2>2, FS_CardinalityType
  <2>3. PICK x \in folded[s] : ~(x \in MaybeCommit /\ CutsBelow(history, x, s))
    BY <2>2
  <2>4. s # {}
    BY <1>1, <2>3, <2>s DEF CutsBelow, MaybeCommit
  <2>5. Cardinality(s) # 1
    <3> SUFFICES ASSUME Cardinality(s) = 1 PROVE FALSE
      OBVIOUS
    <3>1. PICK b : s = {b}
      BY <2>s, FS_Singleton
    <3>2. x = b /\ b \in Commits
      BY <3>1, <1>1, <2>3, <2>s, <2>4
    <3>3. x \in MaybeCommit /\ CutsBelow(history, x, s)
      BY <3>1, <3>2, AncestryReflexive DEF CutsBelow, MaybeCommit, Commits
    <3> QED
      BY <3>3, <2>3
  <2>6. PICK last \in s : \E previous \in folded[s \ {last}] : x \in Folded(previous, last)
    <3>1. folded[s] = UNION {UNION {Folded(previous, last) : previous \in folded[s \ {last}]} :
                                 last \in s}
      BY <1>1, <2>s, <2>4, <2>5
    <3> QED
      BY <3>1, <2>3
  <2>7. PICK previous \in folded[s \ {last}] : x \in Folded(previous, last)
    BY <2>6
  <2>8. Cardinality(s \ {last}) < Cardinality(s)
    <3>1. Cardinality(s \ {last}) = Cardinality(s) - 1
      BY <2>s, FS_RemoveElement
    <3> QED
      BY <3>1, <2>s
  <2>9. s \ {last} \notin bad
    <3>1. Cardinality(s \ {last}) \in Nat
      BY <2>s, FS_RemoveElement, FS_CardinalityType
    <3> QED
      BY <2>2, <2>8, <2>s, <3>1
  <2>10. previous \in MaybeCommit /\ CutsBelow(history, previous, s \ {last})
    BY <2>9, <2>s, <2>7
  <2>11. last \in Commits
    BY <2>s
  <2>12. /\ x \in MaybeCommit
         /\ x # NoCommit => x \in Ancestry(history, previous) \cap Ancestry(history, last)
    BY <2>7, <2>10, <2>11, FoldedStaysBelow
  <2>13. x # NoCommit => previous # NoCommit
    BY <2>7 DEF Folded
  <2>14. ASSUME x # NoCommit, NEW b \in s PROVE x \in Ancestry(history, b)
    <3>1. CASE b = last
      BY <3>1, <2>12, <2>14
    <3>2. CASE b # last
      <4>1. previous \in Ancestry(history, b)
        BY <3>2, <2>10, <2>13, <2>14 DEF CutsBelow
      <4>2. b \in DOMAIN history
        BY <2>s DEF Commits
      <4> QED
        BY <4>1, <4>2, <2>12, <2>14, AncestryTransitive
    <3> QED
      BY <3>1, <3>2
  <2> QED
    BY <2>3, <2>12, <2>14 DEF CutsBelow
<1> QED
  BY <1>2, <1>3

----------------------------------------------------------------------------
\* The distance the commits of h give to a base.
DistanceOf(h, m, b) ==
    CASE b = m                  -> 0
      [] b # m /\ b \notin Ancestry(h, m) -> NoDistance
      [] OTHER                  -> Cardinality(Between(h, b, m))

\* Counting from a boundary below the base counts every descendant of the base.
LEMMA CountedIsExact ==
  ASSUME IsHistory(history), NEW m \in Commits, NEW bases \in SUBSET Commits,
         NEW boundary, NEW b \in bases, b # m => CutsBelow(history, boundary, {b})
  PROVE  CountedFrom(m, bases, boundary)[b] = DistanceOf(history, m, b)
<1> DEFINE counts == DescendantCounts(Walk(history, {m}, {boundary} \ {NoCommit}), bases)
           between == Between(history, b, m)
<1>1. CountedFrom(m, bases, boundary)[b] =
         CASE b = m -> 0
           [] b # m /\ counts[b] > 0 -> counts[b]
           [] OTHER -> NoDistance
  BY DEF CountedFrom
<1>2. CASE b = m
  <2> HIDE DEF counts
  <2> QED BY <1>1, <1>2 DEF DistanceOf
<1>3. CASE b # m
  <2>1. counts[b] = Cardinality(between)
    <3>1. CutsBelow(history, boundary, {b})
      BY <1>3
    <3> HIDE DEF between
    <3> QED
      BY <3>1, CountsAreExact DEF Commits, between
  <2> HIDE DEF counts
  <2>2. IsFiniteSet(between) /\ Cardinality(between) \in Nat
    BY BetweenIsFinite DEF Commits
  <2>3. b # NoCommit /\ b \in DOMAIN history
    BY DEF IsHistory, NoCommit, Commits
  <2>4. CASE b \in Ancestry(history, m)
    <3>1. m \in between
      BY <1>3, <2>3, <2>4, AncestryReflexive DEF Between, Commits
    <3>2. Cardinality(between) # 0
      <4> HIDE DEF between
      <4> QED BY <3>1, <2>2, FS_EmptySet
    <3> HIDE DEF between
    <3>3. Cardinality(between) > 0
      BY <3>2, <2>2
    <3> QED
      BY <1>1, <1>3, <2>1, <2>4, <3>3 DEF DistanceOf, between
  <2>5. CASE b \notin Ancestry(history, m)
    <3>1. between = {}
      BY <2>3, <2>5, AncestryTransitive DEF Between, Commits
    <3>2. Cardinality(between) = 0
      <4> HIDE DEF between
      <4> QED BY <3>1, FS_EmptySet
    <3> HIDE DEF between
    <3> QED
      BY <1>1, <1>3, <2>1, <2>5, <3>2 DEF DistanceOf
  <2> QED
    BY <2>4, <2>5
<1> QED
  BY <1>2, <1>3

----------------------------------------------------------------------------
(* The corridor of main, and distances.                                    *)

\* The recursion of Corridor, over the commits.
LinesOf(h) ==
    CHOOSE line : line = [c \in DOMAIN h |->
        IF Cardinality(h[c]) = 1 THEN <<c>> \o line[CHOOSE p \in h[c] : TRUE] ELSE <<c>>]

\* A commit with one parent continues a line there.
LEMMA SingleParent ==
  ASSUME NEW h, IsHistory(h), NEW c \in DOMAIN h, Cardinality(h[c]) = 1
  PROVE  /\ h[c] = {CHOOSE p \in h[c] : TRUE}
         /\ (CHOOSE p \in h[c] : TRUE) \in DOMAIN h
         /\ (CHOOSE p \in h[c] : TRUE) < c
<1>1. c \in Nat /\ h[c] \in SUBSET Nat /\ \A q \in h[c] : q <= c
  BY DEF IsHistory
<1>2. IsFiniteSet(h[c])
  BY <1>1, BoundedIsFinite
<1>3. PICK p : h[c] = {p}
  BY <1>2, FS_Singleton
<1>4. (CHOOSE q \in h[c] : TRUE) = p
  BY <1>3
<1> QED
  BY <1>3, <1>4 DEF IsHistory

\* A line is its commit followed by the line of its only parent.
LEMMA LinesUnfold ==
  ASSUME NEW h, IsHistory(h), NEW c \in DOMAIN h
  PROVE  LinesOf(h)[c] = IF Cardinality(h[c]) = 1
                         THEN <<c>> \o LinesOf(h)[CHOOSE p \in h[c] : TRUE]
                         ELSE <<c>>
<1> DEFINE D == DOMAIN h
           V == Seq(Nat)
           rank == [d \in D |-> d]
           Value(d, f) == IF Cardinality(h[d]) = 1
                          THEN <<d>> \o f[CHOOSE p \in h[d] : TRUE] ELSE <<d>>
           F == [x \in D \X [D -> V] |-> Value(x[1], x[2])]
           Is(f) == f = [d \in D |-> Value(d, f)]
           line == CHOOSE f : Is(f)
<1>1. PICK n \in Nat : \A d \in D : rank[d] < n
  BY DEF IsHistory
<1>2. rank \in [D -> Nat]
  BY DEF IsHistory
<1>3. \A d \in D : \A f \in [D -> V] : F[<<d, f>>] = Value(d, f)
  <2> HIDE DEF Value
  <2> QED OBVIOUS
<1>4. F \in [D \X [D -> V] -> V]
  <2>1. ASSUME NEW d \in D, NEW f \in [D -> V] PROVE Value(d, f) \in V
    <3>1. d \in Nat
      BY DEF IsHistory
    <3>2. CASE Cardinality(h[d]) = 1
      <4>1. f[CHOOSE p \in h[d] : TRUE] \in Seq(Nat)
        BY <3>2, SingleParent
      <4> QED
        BY <3>1, <3>2, <4>1
    <3>3. CASE Cardinality(h[d]) # 1
      BY <3>1, <3>3
    <3> QED
      BY <3>2, <3>3
  <2> HIDE DEF Value
  <2> QED
    BY <2>1
<1>5. \A d \in D : \A f, g \in [D -> V] :
         (\A e \in D : rank[e] < rank[d] => f[e] = g[e]) => F[<<d, f>>] = F[<<d, g>>]
  <2>1. ASSUME NEW d \in D, NEW f \in [D -> V], NEW g \in [D -> V],
               \A e \in D : rank[e] < rank[d] => f[e] = g[e]
        PROVE  Value(d, f) = Value(d, g)
    <3>1. CASE Cardinality(h[d]) = 1
      <4> DEFINE p == CHOOSE p \in h[d] : TRUE
      <4>2. p \in D /\ p < d
        BY <3>1, SingleParent
      <4> HIDE DEF p
      <4>1. f[p] = g[p]
        BY <2>1, <4>2
      <4> QED
        BY <3>1, <4>1 DEF p
    <3>2. CASE Cardinality(h[d]) # 1
      BY <3>2
    <3> QED
      BY <3>1, <3>2
  <2> HIDE DEF F, Value, D, V, rank
  <2> QED
    BY <2>1, <1>3
<1>6. PICK f \in [D -> V] : \A d \in D : f[d] = F[<<d, f>>]
  <2>1. Recursion(D, V, F, rank)
    <3>1. <<>> \in V
      OBVIOUS
    <3> HIDE DEF F, rank, D, V
    <3> QED
      BY <3>1, <1>1, <1>2, <1>4, <1>5 DEF Recursion
  <2>2. Solvable(D, V, F)
    <3> HIDE DEF F, rank, D, V
    <3> QED
      BY <2>1, SolvedByRank
  <2> QED
    BY <2>2 DEF Solvable
<1>7. Is(f)
  <2>1. \A d \in D : f[d] = Value(d, f)
    <3> HIDE DEF F, Value
    <3> QED BY <1>3, <1>6
  <2> HIDE DEF Value
  <2> QED
    BY <2>1
<1>8. Is(line)
  <2> HIDE DEF Is
  <2> QED BY <1>7
<1>9. LinesOf(h) = line
  BY DEF LinesOf
<1>10. line[c] = Value(c, line)
  <2> HIDE DEF line, Value
  <2> QED BY <1>8
<1> HIDE DEF line
<1> QED
  BY <1>9, <1>10

\* A line counts the commits between its places and its start; a line that
\* ends in a root has all commits.
IsLine(h, c, line) ==
    /\ line \in Seq(Nat) /\ Len(line) > 0
    /\ \A i \in 1..Len(line) :
          line[i] \in Ancestry(h, c) /\ Cardinality(Between(h, line[i], c)) = i - 1
    /\ h[line[Len(line)]] = {} => \A x \in Ancestry(h, c) : \E i \in 1..Len(line) : line[i] = x

\* A commit without an only parent is a line of its own.
LEMMA LineFromOne ==
  ASSUME NEW h, IsHistory(h), NEW c \in DOMAIN h, Cardinality(h[c]) # 1
  PROVE  IsLine(h, c, <<c>>)
<1>1. c \in Nat /\ c \in Ancestry(h, c)
  BY AncestryReflexive DEF IsHistory
<1>2. Cardinality(Between(h, c, c)) = 0
  BY BetweenSelf, FS_EmptySet
<1>3. Ancestry(h, c) = {c} \cup UNION {Ancestry(h, p) : p \in h[c]}
  BY AncestryUnfolds
<1> QED
  BY <1>1, <1>2, <1>3 DEF IsLine

\* A commit in front of its parent's line.
LEMMA LineFromParent ==
  ASSUME NEW h, IsHistory(h), NEW c \in DOMAIN h, NEW p, h[c] = {p},
         NEW line, IsLine(h, p, line)
  PROVE  IsLine(h, c, <<c>> \o line)
<1> DEFINE whole == <<c>> \o line
<1>1. c \in Nat /\ c \in Ancestry(h, c) /\ p \in DOMAIN h
  BY AncestryReflexive DEF IsHistory
<1>2. line \in Seq(Nat) /\ Len(line) \in Nat /\ Len(line) > 0
  BY DEF IsLine
<1>3. /\ whole \in Seq(Nat) /\ Len(whole) = Len(line) + 1 /\ whole[1] = c
      /\ \A i \in 1..Len(line) : whole[i + 1] = line[i]
  BY <1>1, <1>2
<1>4. Ancestry(h, c) = {c} \cup Ancestry(h, p)
  BY AncestryUnfolds
<1> HIDE DEF whole
<1>5. ASSUME NEW i \in 1..Len(whole)
      PROVE  whole[i] \in Ancestry(h, c) /\ Cardinality(Between(h, whole[i], c)) = i - 1
  <2>1. CASE i = 1
    <3>1. Between(h, c, c) = {}
      BY BetweenSelf
    <3>2. Cardinality(Between(h, c, c)) = 0
      BY <3>1, FS_EmptySet
    <3> QED
      BY <2>1, <1>1, <1>3, <3>2
  <2>2. CASE i # 1
    <3>1. i - 1 \in 1..Len(line) /\ whole[i] = line[i - 1]
      <4>1. i - 1 \in 1..Len(line)
        BY <2>2, <1>2, <1>3
      <4>2. whole[(i - 1) + 1] = line[i - 1]
        BY <4>1, <1>3
      <4> QED
        BY <4>1, <4>2
    <3> DEFINE x == whole[i]
               below == Between(h, x, p)
    <3>2. x \in Ancestry(h, p) /\ Cardinality(below) = i - 2
      <4>1. line[i - 1] \in Ancestry(h, p) /\ Cardinality(Between(h, line[i - 1], p)) = (i - 1) - 1
        BY <3>1 DEF IsLine
      <4> QED
        BY <4>1, <3>1
    <3>3. Between(h, x, c) = {c} \cup below /\ c \notin below
      BY <3>2, BetweenStep
    <3>4. IsFiniteSet(below)
      BY <1>1, BetweenIsFinite
    <3> HIDE DEF below, x
    <3>5. Cardinality(below \cup {c}) = Cardinality(below) + 1
      BY <3>3, <3>4, FS_AddElement
    <3>6. Between(h, x, c) = below \cup {c}
      BY <3>3
    <3>7. Cardinality(Between(h, x, c)) = i - 1
      BY <3>2, <3>5, <3>6
    <3>8. x \in Ancestry(h, c)
      BY <3>2, <1>4
    <3>9. x = whole[i]
      BY DEF x
    <3> QED
      BY <3>7, <3>8, <3>9
  <2> QED
    BY <2>1, <2>2
<1>6. ASSUME h[whole[Len(whole)]] = {}, NEW x \in Ancestry(h, c)
      PROVE  \E i \in 1..Len(whole) : whole[i] = x
  <2>1. whole[Len(whole)] = line[Len(line)]
    <3>1. Len(line) \in 1..Len(line)
      BY <1>2
    <3>2. whole[Len(line) + 1] = line[Len(line)]
      BY <1>3, <3>1
    <3> QED
      BY <1>3, <3>2
  <2>2. CASE x = c
    BY <2>2, <1>2, <1>3
  <2>3. CASE x # c
    <3>1. x \in Ancestry(h, p)
      BY <2>3, <1>4, <1>6
    <3>2. PICK i \in 1..Len(line) : line[i] = x
      BY <3>1, <2>1, <1>6 DEF IsLine
    <3>3. i + 1 \in 1..Len(whole) /\ whole[i + 1] = x
      BY <3>2, <1>2, <1>3
    <3> QED
      BY <3>3
  <2> QED
    BY <2>2, <2>3
<1>7. whole \in Seq(Nat) /\ Len(whole) > 0
  BY <1>2, <1>3
<1>8. IsLine(h, c, whole)
  BY <1>5, <1>6, <1>7 DEF IsLine
<1> QED
  BY <1>8 DEF whole

\* The line of every commit counts what lies between its places.
LEMMA LinesAreLines ==
  ASSUME NEW h, IsHistory(h), NEW c \in DOMAIN h
  PROVE  IsLine(h, c, LinesOf(h)[c])
<1> DEFINE line(d) == LinesOf(h)[d]
           bad == {d \in DOMAIN h : ~IsLine(h, d, line(d))}
<1>1. \A d \in DOMAIN h :
         line(d) = IF Cardinality(h[d]) = 1
                   THEN <<d>> \o line(CHOOSE p \in h[d] : TRUE) ELSE <<d>>
  BY LinesUnfold
<1> HIDE DEF line
<1>2. bad = {}
  <2> SUFFICES ASSUME bad # {} PROVE FALSE
    OBVIOUS
  <2>1. bad \in SUBSET Nat
    BY DEF IsHistory
  <2>2. PICK d \in bad : \A e \in bad : d <= e
    <3> HIDE DEF bad
    <3> QED BY <2>1, LeastNatural
  <2>3. CASE Cardinality(h[d]) # 1
    BY <2>2, <2>3, <1>1, LineFromOne
  <2>4. CASE Cardinality(h[d]) = 1
    <3> DEFINE p == CHOOSE p \in h[d] : TRUE
    <3>1. h[d] = {p} /\ p \in DOMAIN h /\ p < d
      BY <2>2, <2>4, SingleParent
    <3>2. line(d) = <<d>> \o line(p)
      BY <2>2, <2>4, <1>1
    <3> HIDE DEF p
    <3>3. p \notin bad
      BY <2>1, <2>2, <3>1 DEF IsHistory
    <3>4. IsLine(h, p, line(p))
      BY <3>1, <3>3
    <3> QED
      BY <2>2, <3>1, <3>2, <3>4, LineFromParent
  <2> QED
    BY <2>3, <2>4
<1> QED
  BY <1>2 DEF line

----------------------------------------------------------------------------
\* The corridor of main is such a line (gix/graph.rs:124).
LEMMA CorridorIsLine ==
  ASSUME IsHistory(history), NEW m \in Commits
  PROVE  IsLine(history, m, Corridor(m))
<1>1. Corridor(m) = LinesOf(history)[m]
  BY DEF Corridor, LinesOf
<1> QED
  BY <1>1, LinesAreLines DEF Commits

\* An answer that gives every base its distance.
Exact(h, m, bases, distance) == \A b \in bases : distance[b] = DistanceOf(h, m, b)

\* The distance of a commit as the place where a corridor meets it.
Stepped(line, b) ==
    IF {i \in DOMAIN line : line[i] = b} = {} THEN NoDistance
    ELSE CHOOSE d \in 0..Len(line) : d + 1 \in {i \in DOMAIN line : line[i] = b}

\* A corridor that meets a base, or ends in a root, gives its distance.
LEMMA StepsAreExact ==
  ASSUME IsHistory(history), NEW m \in Commits, NEW bases \in SUBSET Commits,
         NEW line, IsLine(history, m, line), NEW b \in bases,
         (\E i \in DOMAIN line : line[i] = b) \/ history[Last(line)] = {}
  PROVE  DistanceOf(history, m, b) = Stepped(line, b)
<1> DEFINE at == {i \in DOMAIN line : line[i] = b}
           d == CHOOSE e \in 0..Len(line) : e + 1 \in at
<1>1. /\ line \in Seq(Nat) /\ Len(line) > 0 /\ DOMAIN line = 1..Len(line) /\ Len(line) \in Nat
      /\ Last(line) = line[Len(line)]
  BY DEF IsLine, Last
<1>2. CASE at = {}
  <2>1. b \notin Ancestry(history, m)
    BY <1>1, <1>2 DEF IsLine
  <2>2. b # m
    BY <2>1, AncestryReflexive DEF Commits
  <2> QED
    BY <1>2, <2>1, <2>2 DEF DistanceOf, Stepped
<1>3. CASE at # {}
  <2>1. PICK i \in at : TRUE
    BY <1>3
  <2>2. i - 1 \in 0..Len(line) /\ (i - 1) + 1 \in at
    BY <2>1, <1>1
  <2>3. d \in 0..Len(line) /\ d + 1 \in at
    <3> HIDE DEF at
    <3> QED BY <2>2
  <2> HIDE DEF d
  <2>4. d + 1 \in 1..Len(line) /\ line[d + 1] = b
    BY <2>3, <1>1
  <2>5. b \in Ancestry(history, m) /\ Cardinality(Between(history, b, m)) = d
    BY <2>3, <2>4 DEF IsLine
  <2>6. b = m => d = 0
    BY <2>5, BetweenSelf, FS_EmptySet DEF Commits
  <2>7. DistanceOf(history, m, b) = d
    BY <2>5, <2>6 DEF DistanceOf
  <2> HIDE DEF at
  <2> QED
    BY <2>7, <1>3 DEF d, at, Stepped
<1> QED
  BY <1>2, <1>3

\* Both backends give every base its distance.
LEMMA DistancesExact ==
  ASSUME IsHistory(history), NEW m \in Commits, NEW bases \in SUBSET Commits,
         NEW distance \in Distances(m, bases)
  PROVE  Exact(history, m, bases, distance)
<1>1. ASSUME NEW boundary \in CommonBoundaries(bases)
      PROVE  Exact(history, m, bases, CountedFrom(m, bases, boundary))
  <2>1. CutsBelow(history, boundary, bases)
    BY BoundariesCutBelow
  <2>2. \A b \in bases : CutsBelow(history, boundary, {b})
    BY <2>1 DEF CutsBelow
  <2>3. \A b \in bases : CountedFrom(m, bases, boundary)[b] = DistanceOf(history, m, b)
    BY <2>2, CountedIsExact
  <2> QED
    BY <2>3 DEF Exact
<1>2. CASE native
  <2> DEFINE line == Corridor(m)
             step == [b \in bases |-> {i \in DOMAIN line : line[i] = b}]
             walked == [b \in bases |-> IF step[b] = {} THEN NoDistance
                                        ELSE CHOOSE d \in 0..Len(line) : d + 1 \in step[b]]
             close == (\A b \in bases : step[b] # {}) \/ history[Last(line)] = {}
             near == bases = {} \/ (~shallow /\ close)
  <2>1. IsLine(history, m, line)
    BY CorridorIsLine
  <2>2. NativeDistances(m, bases) = IF near THEN {walked} ELSE DagDistances(m, bases)
    BY DEF NativeDistances
  <2>a. near => close
    OBVIOUS
  <2>3. CASE near
    <3>1. distance = walked
      <4> HIDE DEF near, walked
      <4> QED BY <2>2, <2>3, <1>2 DEF Distances
    <3>2. ASSUME NEW b \in bases PROVE distance[b] = DistanceOf(history, m, b)
      <4>1. distance[b] = Stepped(line, b)
        BY <3>1 DEF Stepped
      <4>2. (\E i \in DOMAIN line : line[i] = b) \/ history[Last(line)] = {}
        BY <2>3, <2>a
      <4> HIDE DEF line
      <4> QED
        BY <4>1, <4>2, <2>1, StepsAreExact
    <3> HIDE DEF walked
    <3> QED
      BY <3>2 DEF Exact
  <2>4. CASE ~near
    <3>1. distance \in DagDistances(m, bases)
      <4> HIDE DEF near, walked
      <4> QED BY <2>2, <2>4, <1>2 DEF Distances
    <3> QED
      BY <3>1, <1>1 DEF DagDistances
  <2> QED
    BY <2>3, <2>4
<1>3. CASE ~native
  <2>1. CASE bases \subseteq {m}
    <3>1. distance = [b \in bases |-> 0]
      BY <1>3, <2>1 DEF Distances, ShellDistances
    <3> QED
      BY <3>1, <2>1 DEF Exact, DistanceOf
  <2>2. CASE ~(bases \subseteq {m})
    <3>1. PICK boundary \in CommonBoundaries(bases \ {m}) : distance = CountedFrom(m, bases, boundary)
      BY <1>3, <2>2 DEF Distances, ShellDistances
    <3>2. CutsBelow(history, boundary, bases \ {m})
      BY BoundariesCutBelow
    <3>3. \A b \in bases : b # m => CutsBelow(history, boundary, {b})
      BY <3>2 DEF CutsBelow
    <3>4. \A b \in bases : CountedFrom(m, bases, boundary)[b] = DistanceOf(history, m, b)
      BY <3>3, CountedIsExact
    <3> QED
      BY <3>1, <3>4 DEF Exact
  <2> QED
    BY <2>1, <2>2
<1> QED
  BY <1>2, <1>3

----------------------------------------------------------------------------
(* Places and parts of a sequence.                                         *)

\* The greatest place of some.
LEMMA MaxIsGreatest ==
  ASSUME NEW n \in Nat, NEW S \in SUBSET (1..n), S # {}
  PROVE  Max(S) \in S /\ \A x \in S : x <= Max(S)
<1>1. S \in SUBSET Nat /\ \A s \in S : s <= n
  OBVIOUS
<1>2. PICK g \in S : \A m \in S : m <= g
  BY <1>1, GreatestNatural
<1>3. \A m \in S : g >= m
  BY <1>1, <1>2
<1>4. Max(S) = CHOOSE x \in S : \A y \in S : x >= y
  BY DEF Max
<1>5. Max(S) \in S /\ \A y \in S : Max(S) >= y
  BY <1>3, <1>4
<1> QED
  BY <1>1, <1>5

\* The recursion of Ascending, over the sets of places.
AscendingOrders(places) ==
    LET order[some \in SUBSET places] ==
            IF some = {} THEN <<>>
            ELSE Append(order[some \ {Max(some)}], Max(some))
    IN  order

\* The order of some places ends with the greatest.
LEMMA AscendingUnfolds ==
  ASSUME NEW n \in Nat, NEW places \in SUBSET (1..n), NEW some \in SUBSET places
  PROVE  /\ AscendingOrders(places) \in [SUBSET places -> Seq(places)]
         /\ AscendingOrders(places)[some] =
                IF some = {} THEN <<>>
                ELSE Append(AscendingOrders(places)[some \ {Max(some)}], Max(some))
<1> DEFINE D == SUBSET places
           V == Seq(places)
           rank == [s \in D |-> Cardinality(s)]
           Value(s, f) == IF s = {} THEN <<>> ELSE Append(f[s \ {Max(s)}], Max(s))
           F == [x \in D \X [D -> V] |-> Value(x[1], x[2])]
           Is(f) == f = [s \in D |-> Value(s, f)]
           order == CHOOSE f : Is(f)
<1>0. IsFiniteSet(places)
  <2>1. places \in SUBSET Nat /\ \A s \in places : s <= n
    OBVIOUS
  <2> QED
    BY <2>1, BoundedIsFinite
<1>1. \A s \in D : IsFiniteSet(s) /\ Cardinality(s) \in Nat /\ Cardinality(s) <= Cardinality(places)
  BY <1>0, FS_Subset, FS_CardinalityType
<1>2. rank \in [D -> Nat]
  BY <1>1
<1>a. \E m \in Nat : \A s \in D : rank[s] < m
  <2>1. Cardinality(places) \in Nat
    BY <1>0, FS_CardinalityType
  <2>2. Cardinality(places) + 1 \in Nat
    BY <2>1
  <2>3. \A s \in D : rank[s] < Cardinality(places) + 1
    BY <1>1, <2>1
  <2> QED
    BY <2>2, <2>3
<1>3. \A s \in D : \A f \in [D -> V] : F[<<s, f>>] = Value(s, f)
  <2> HIDE DEF Value
  <2> QED OBVIOUS
<1>b. \A s \in D : s # {} => Max(s) \in places /\ s \ {Max(s)} \in D /\ rank[s \ {Max(s)}] < rank[s]
  <2> SUFFICES ASSUME NEW s \in D, s # {}
               PROVE  Max(s) \in places /\ s \ {Max(s)} \in D /\ rank[s \ {Max(s)}] < rank[s]
    OBVIOUS
  <2> DEFINE top == Max(s)
  <2>1. IsFiniteSet(s) /\ Cardinality(s) \in Nat
    BY <1>1
  <2>2. top \in s
    BY MaxIsGreatest
  <2> HIDE DEF top
  <2>3. Cardinality(s \ {top}) = Cardinality(s) - 1
    BY <2>1, <2>2, FS_RemoveElement
  <2>4. top \in places /\ s \ {top} \in D /\ rank[s \ {top}] < rank[s]
    BY <2>1, <2>2, <2>3
  <2> QED
    BY <2>4 DEF top
<1>4. F \in [D \X [D -> V] -> V]
  <2>1. ASSUME NEW s \in D, NEW f \in [D -> V] PROVE Value(s, f) \in V
    <3>1. CASE s = {}
      BY <3>1
    <3>2. CASE s # {}
      <4>1. Max(s) \in places /\ f[s \ {Max(s)}] \in V
        BY <3>2, <1>b
      <4>2. Append(f[s \ {Max(s)}], Max(s)) \in V
        BY <4>1
      <4> QED
        BY <3>2, <4>2
    <3> QED
      BY <3>1, <3>2
  <2> HIDE DEF Value, V, D
  <2> QED
    BY <2>1
<1>5. \A s \in D : \A f, g \in [D -> V] :
         (\A e \in D : rank[e] < rank[s] => f[e] = g[e]) => F[<<s, f>>] = F[<<s, g>>]
  <2>1. ASSUME NEW s \in D, NEW f \in [D -> V], NEW g \in [D -> V],
               \A e \in D : rank[e] < rank[s] => f[e] = g[e]
        PROVE  Value(s, f) = Value(s, g)
    <3>1. s # {} => f[s \ {Max(s)}] = g[s \ {Max(s)}]
      <4> HIDE DEF rank
      <4> QED BY <2>1, <1>b
    <3> QED
      BY <3>1
  <2> HIDE DEF F, Value, rank, D, V
  <2> QED
    BY <2>1, <1>3
<1>6. PICK f \in [D -> V] : \A s \in D : f[s] = F[<<s, f>>]
  <2>1. Recursion(D, V, F, rank)
    <3>1. <<>> \in V
      OBVIOUS
    <3> HIDE DEF F, rank, D, V
    <3> QED
      BY <3>1, <1>a, <1>2, <1>4, <1>5 DEF Recursion
  <2>2. Solvable(D, V, F)
    <3> HIDE DEF F, rank, D, V
    <3> QED
      BY <2>1, SolvedByRank
  <2> QED
    BY <2>2 DEF Solvable
<1>7. Is(f)
  <2>1. \A s \in D : f[s] = Value(s, f)
    <3> HIDE DEF F, Value
    <3> QED BY <1>3, <1>6
  <2> HIDE DEF Value
  <2> QED
    BY <2>1
<1>8. Is(order)
  <2> HIDE DEF Is
  <2> QED BY <1>7
<1>9. AscendingOrders(places) = order
  BY DEF AscendingOrders
<1> HIDE DEF order
<1>10. \A s \in D : order[s] = Value(s, order)
  <2> HIDE DEF Value
  <2> QED BY <1>8
<1>11. DOMAIN order = D /\ order = [s \in D |-> order[s]]
  <2>1. order = [s \in D |-> Value(s, order)]
    BY <1>8
  <2> HIDE DEF Value, D
  <2> QED
    BY <2>1
<1>12. \A s \in D : order[s] \in V
  <2> DEFINE bad == {s \in D : order[s] \notin V}
  <2> SUFFICES ASSUME bad # {} PROVE FALSE
    OBVIOUS
  <2>1. \A s \in bad : IsFiniteSet(s)
    BY <1>1
  <2>2. PICK s \in bad : \A t \in bad : Cardinality(s) <= Cardinality(t)
    <3> HIDE DEF bad
    <3> QED
      BY <2>1, SmallestSet
  <2>3. s # {}
    <3>1. order[{}] = <<>>
      BY <1>10
    <3>2. <<>> \in V
      OBVIOUS
    <3> HIDE DEF V
    <3> QED
      BY <3>1, <3>2, <2>2
  <2>4. Max(s) \in places /\ s \ {Max(s)} \in D /\ Cardinality(s \ {Max(s)}) < Cardinality(s)
    BY <1>b, <2>3, <2>2
  <2>5. Cardinality(s \ {Max(s)}) \in Nat /\ Cardinality(s) \in Nat
    BY <1>1, <2>4, <2>2
  <2>6. order[s \ {Max(s)}] \in V
    BY <2>2, <2>4, <2>5
  <2>7. order[s] = Append(order[s \ {Max(s)}], Max(s))
    BY <1>10, <2>2, <2>3
  <2>8. order[s] \in V
    BY <2>4, <2>6, <2>7
  <2> QED
    BY <2>2, <2>8
<1>13. order \in [D -> V]
  BY <1>11, <1>12
<1> QED
  BY <1>9, <1>10, <1>13

\* A sequence of a set's members, each once, in ascending order.
IsAscending(order, places) ==
    /\ order \in Seq(places)
    /\ \A x \in places : \E k \in 1..Len(order) : order[k] = x
    /\ \A j, k \in 1..Len(order) : j < k => order[j] < order[k]

\* Every place comes once, in ascending order.
LEMMA AscendingIs ==
  ASSUME NEW n \in Nat, NEW places \in SUBSET (1..n)
  PROVE  IsAscending(Ascending(places), places)
<1> DEFINE order == AscendingOrders(places)
           bad == {s \in SUBSET places : ~IsAscending(order[s], s)}
<1>0. IsFiniteSet(places)
  <2>1. places \in SUBSET Nat /\ \A s \in places : s <= n
    OBVIOUS
  <2> QED
    BY <2>1, BoundedIsFinite
<1>1. /\ order \in [SUBSET places -> Seq(places)]
      /\ \A s \in SUBSET places :
            order[s] = IF s = {} THEN <<>> ELSE Append(order[s \ {Max(s)}], Max(s))
  BY AscendingUnfolds
<1>2. Ascending(places) = order[places]
  BY DEF Ascending, AscendingOrders
<1> HIDE DEF order
<1>3. bad = {}
  <2> SUFFICES ASSUME bad # {} PROVE FALSE
    OBVIOUS
  <2>1. \A s \in bad : IsFiniteSet(s)
    BY <1>0, FS_Subset
  <2>2. PICK s \in bad : \A t \in bad : Cardinality(s) <= Cardinality(t)
    <3> HIDE DEF bad
    <3> QED
      BY <2>1, SmallestSet
  <2>s. s \in SUBSET places /\ IsFiniteSet(s) /\ Cardinality(s) \in Nat
    BY <2>1, <2>2, FS_CardinalityType
  <2>3. CASE s = {}
    <3>1. order[s] = <<>>
      BY <2>3, <2>s, <1>1
    <3>2. IsAscending(<<>>, {})
      BY DEF IsAscending
    <3> QED
      BY <3>1, <3>2, <2>2, <2>3
  <2>4. CASE s # {}
    <3> DEFINE top == Max(s)
               rest == s \ {top}
               old == order[rest]
    <3>1. top \in s /\ \A x \in s : x <= top
      BY <2>4, <2>s, MaxIsGreatest
    <3>2. order[s] = Append(old, top)
      BY <2>4, <2>s, <1>1
    <3>3. rest \in SUBSET places
      BY <2>s
    <3> HIDE DEF top
    <3>4. Cardinality(rest) = Cardinality(s) - 1
      BY <2>s, <3>1, FS_RemoveElement
    <3>5. IsAscending(old, rest)
      BY <2>2, <2>s, <3>3, <3>4
    <3>6. old \in Seq(rest) /\ Len(old) \in Nat
      BY <3>5 DEF IsAscending
    <3>7. /\ Append(old, top) \in Seq(s) /\ Len(Append(old, top)) = Len(old) + 1
          /\ \A k \in 1..Len(old) : Append(old, top)[k] = old[k] /\ old[k] \in rest
          /\ Append(old, top)[Len(old) + 1] = top
      <4>1. old \in Seq(s)
        BY <3>6
      <4> HIDE DEF old, rest
      <4> QED
        BY <3>1, <3>6, <4>1
    <3>8. \A k \in 1..Len(old) : old[k] < top
      <4>1. \A x \in rest : x < top
        BY <3>1, <2>s
      <4> QED
        BY <3>7, <4>1
    <3> DEFINE new == Append(old, top)
    <3> HIDE DEF old, rest, new
    <3>9. \A x \in s : \E k \in 1..Len(new) : new[k] = x
      <4> SUFFICES ASSUME NEW x \in s PROVE \E k \in 1..Len(new) : new[k] = x
        OBVIOUS
      <4>1. CASE x = top
        <5>1. Len(old) + 1 \in 1..Len(new) /\ new[Len(old) + 1] = top
          BY <3>6, <3>7 DEF new
        <5> QED
          BY <4>1, <5>1
      <4>2. CASE x # top
        <5>1. x \in rest
          BY <4>2 DEF rest
        <5>2. PICK k \in 1..Len(old) : old[k] = x
          BY <5>1, <3>5 DEF IsAscending
        <5>3. k \in 1..Len(new) /\ new[k] = x
          BY <5>2, <3>6, <3>7 DEF new
        <5> QED
          BY <5>3
      <4> QED
        BY <4>1, <4>2
    <3>10. \A j, k \in 1..Len(new) : j < k => new[j] < new[k]
      <4> SUFFICES ASSUME NEW j \in 1..Len(new), NEW k \in 1..Len(new), j < k PROVE new[j] < new[k]
        OBVIOUS
      <4>1. j \in 1..Len(old) /\ new[j] = old[j]
        BY <3>6, <3>7 DEF new
      <4>2. CASE k = Len(old) + 1
        BY <4>1, <4>2, <3>7, <3>8 DEF new
      <4>3. CASE k # Len(old) + 1
        <5>1. k \in 1..Len(old) /\ new[k] = old[k]
          BY <4>3, <3>6, <3>7 DEF new
        <5> QED
          BY <4>1, <5>1, <3>5 DEF IsAscending
      <4> QED
        BY <4>2, <4>3
    <3>11. IsAscending(new, s)
      BY <3>7, <3>9, <3>10 DEF IsAscending, new
    <3>12. order[s] = new
      BY <3>2 DEF new, old, rest
    <3> QED
      BY <3>11, <3>12, <2>2
  <2> QED
    BY <2>3, <2>4
<1>4. IsAscending(order[places], places)
  BY <1>3
<1> QED
  BY <1>2, <1>4

\* A sequence of the members of a set, each once.
Lists(seq, S) ==
    /\ seq \in Seq(S)
    /\ \A x \in S : \E i \in 1..Len(seq) : seq[i] = x
    /\ \A i, j \in 1..Len(seq) : seq[i] = seq[j] => i = j

\* A sequence of a set has each member once.
LEMMA SeqsAreLists ==
  ASSUME NEW S, IsFiniteSet(S), NEW seq \in SetToSeqs(S)
  PROVE  Lists(seq, S) /\ Len(seq) = Cardinality(S) /\ DOMAIN seq = 1..Len(seq)
<1> DEFINE n == Cardinality(S)
           D == 1..n
<1>1. n \in Nat
  BY FS_CardinalityType
<1>2. seq \in [D -> S] /\ \A i, j \in D : i # j => seq[i] # seq[j]
  BY DEF SetToSeqs
<1>3. IsFiniteSet(D) /\ Cardinality(D) = n
  <2>1. Cardinality(D) = IF 1 > n THEN 0 ELSE n - 1 + 1
    BY <1>1, FS_Interval
  <2> QED
    BY <2>1, <1>1, FS_Interval
<1>4. seq \in Injection(D, S)
  BY <1>2 DEF Injection, IsInjective
<1>5. seq \in Surjection(D, S)
  <2> HIDE DEF D
  <2> QED
    BY <1>3, <1>4, FS_Injection
<1>6. \A x \in S : \E i \in D : seq[i] = x
  BY <1>5 DEF Surjection
<1>7. seq \in Seq(S) /\ Len(seq) = n
  <2> HIDE DEF n
  <2> QED BY <1>1, <1>2
<1> QED
  BY <1>1, <1>2, <1>6, <1>7 DEF Lists

\* It is as long as the set is large.
LEMMA ListLength ==
  ASSUME NEW S, NEW seq, Lists(seq, S)
  PROVE  IsFiniteSet(S) /\ Cardinality(S) = Len(seq) /\ Len(seq) \in Nat /\ DOMAIN seq = 1..Len(seq)
<1> DEFINE D == 1..Len(seq)
<1>1. Len(seq) \in Nat /\ DOMAIN seq = D /\ seq \in [D -> S]
  BY DEF Lists
<1>2. IsFiniteSet(D) /\ Cardinality(D) = Len(seq)
  <2> DEFINE n == Len(seq)
  <2>1. n \in Nat
    BY <1>1
  <2> HIDE DEF n
  <2>2. IsFiniteSet(1..n) /\ Cardinality(1..n) = IF 1 > n THEN 0 ELSE n - 1 + 1
    BY <2>1, FS_Interval
  <2>3. Cardinality(1..n) = n
    BY <2>1, <2>2
  <2> QED
    BY <2>2, <2>3 DEF n
<1>3. seq \in Bijection(D, S)
  BY <1>1 DEF Lists, Bijection, Injection, Surjection, IsInjective
<1> HIDE DEF D
<1>4. ExistsBijection(D, S)
  BY <1>3 DEF ExistsBijection
<1>5. IsFiniteSet(S) /\ Cardinality(S) = Cardinality(D)
  BY <1>2, <1>4, FS_Bijection
<1> QED
  BY <1>1, <1>2, <1>5 DEF D

\* Some members of a sequence in the order they have there.
IsPart(part, seq, T) ==
    /\ Lists(part, T)
    /\ seq[Len(seq)] \in T => Len(part) > 0 /\ part[Len(part)] = seq[Len(seq)]
    /\ \A j, k \in 1..Len(part) : j < k =>
          \E i, l \in 1..Len(seq) : i < l /\ part[j] = seq[i] /\ part[k] = seq[l]

\* The entries kept of a sequence are its members that qualify, in order.
LEMMA EntriesArePart ==
  ASSUME NEW S, NEW seq, Lists(seq, S), Len(seq) > 0, NEW T \in SUBSET S
  PROVE  IsPart(Entries(seq, {i \in DOMAIN seq : seq[i] \in T}), seq, T)
<1> DEFINE n == Len(seq)
           at == {i \in DOMAIN seq : seq[i] \in T}
           order == Ascending(at)
           m == Len(order)
           part == Entries(seq, at)
<1>1. n \in Nat /\ DOMAIN seq = 1..n /\ at \in SUBSET (1..n)
  BY DEF Lists
<1>2. IsAscending(order, at)
  <2> HIDE DEF at
  <2> QED
    BY <1>1, AscendingIs
<1>3. part = [k \in DOMAIN order |-> seq[order[k]]]
  BY DEF Entries
<1>4. /\ \A i \in at : i \in 1..n /\ seq[i] \in T
      /\ \A i \in 1..n : seq[i] \in T => i \in at
  BY <1>1
<1> HIDE DEF at, order, part
<1>5. /\ order \in Seq(at) /\ m \in Nat /\ DOMAIN order = 1..m
      /\ \A k \in 1..m : order[k] \in at
      /\ \A i \in at : \E k \in 1..m : order[k] = i
      /\ \A j, k \in 1..m : j < k => order[j] < order[k]
  BY <1>2 DEF IsAscending
<1>6. part \in Seq(T) /\ Len(part) = m /\ \A k \in 1..m : part[k] = seq[order[k]]
  <2>1. part = [k \in 1..m |-> seq[order[k]]]
    BY <1>3, <1>5
  <2>2. \A k \in 1..m : seq[order[k]] \in T
    BY <1>4, <1>5
  <2>3. part \in [1..m -> T]
    BY <2>1, <2>2
  <2> HIDE DEF m
  <2> QED
    BY <2>1, <2>3, <1>5
<1> HIDE DEF m, n
<1>7. \A x \in T : \E k \in 1..m : part[k] = x
  <2> SUFFICES ASSUME NEW x \in T PROVE \E k \in 1..m : part[k] = x
    OBVIOUS
  <2>1. PICK i \in 1..n : seq[i] = x
    BY DEF Lists, n
  <2>2. PICK k \in 1..m : order[k] = i
    BY <2>1, <1>4, <1>5
  <2> QED
    BY <2>1, <2>2, <1>6
<1>8. \A i, j \in 1..n : seq[i] = seq[j] => i = j
  BY DEF Lists, n
<1>9. ASSUME NEW j \in 1..m, NEW k \in 1..m, part[j] = part[k] PROVE j = k
  <2>1. order[j] = order[k]
    <3>1. order[j] \in 1..n /\ order[k] \in 1..n
      BY <1>4, <1>5
    <3> QED
      BY <3>1, <1>6, <1>8, <1>9
  <2>2. order[j] \in Int
    <3>1. order[j] \in 1..n
      BY <1>4, <1>5
    <3> QED
      BY <3>1
  <2>3. ~(j < k) /\ ~(k < j)
    BY <1>5, <2>1, <2>2
  <2> QED
    BY <2>3
<1>10. Lists(part, T)
  BY <1>6, <1>7, <1>9 DEF Lists
<1>11. ASSUME seq[n] \in T PROVE m > 0 /\ part[m] = seq[n]
  <2>1. n \in at
    BY <1>1, <1>4, <1>11 DEF n
  <2>2. PICK k \in 1..m : order[k] = n
    BY <2>1, <1>5
  <2>3. k = m
    <3>1. m \in 1..m
      BY <1>5, <2>2
    <3>2. order[m] \in 1..n
      BY <3>1, <1>4, <1>5
    <3> QED
      BY <3>1, <3>2, <2>2, <1>1, <1>5
  <2> QED
    BY <2>2, <2>3, <1>5, <1>6
<1>12. ASSUME NEW j \in 1..m, NEW k \in 1..m, j < k
       PROVE  \E i, l \in 1..n : i < l /\ part[j] = seq[i] /\ part[k] = seq[l]
  <2>1. order[j] \in 1..n /\ order[k] \in 1..n /\ order[j] < order[k]
    BY <1>4, <1>5, <1>12
  <2> QED
    BY <2>1, <1>6
<1>13. IsPart(part, seq, T)
  BY <1>6, <1>10, <1>11, <1>12 DEF IsPart, n
<1> QED
  BY <1>13 DEF part, at

\* Taking every entry changes nothing.
LEMMA EntriesOfAll ==
  ASSUME NEW S, NEW seq \in Seq(S)
  PROVE  Entries(seq, DOMAIN seq) = seq
<1> DEFINE n == Len(seq)
           D == 1..n
           order == Ascending(D)
           bad == {k \in 1..Len(order) : order[k] # k}
<1>1. n \in Nat /\ DOMAIN seq = D
  OBVIOUS
<1>2. IsAscending(order, D)
  BY <1>1, AscendingIs
<1> HIDE DEF order, n
<1>3. /\ Len(order) \in Nat /\ DOMAIN order = 1..Len(order)
      /\ \A k \in 1..Len(order) : order[k] \in 1..n
      /\ \A i \in 1..n : \E k \in 1..Len(order) : order[k] = i
      /\ \A j, k \in 1..Len(order) : j < k => order[j] < order[k]
  <2>1. order \in Seq(D)
    BY <1>2 DEF IsAscending
  <2>2. Len(order) \in Nat /\ DOMAIN order = 1..Len(order) /\ \A k \in 1..Len(order) : order[k] \in D
    <3> HIDE DEF D
    <3> QED
      BY <2>1
  <2> QED
    BY <1>2, <2>2 DEF IsAscending
<1>4. bad = {}
  <2> SUFFICES ASSUME bad # {} PROVE FALSE
    OBVIOUS
  <2>1. bad \in SUBSET Nat
    OBVIOUS
  <2>2. PICK k \in bad : \A l \in bad : k <= l
    <3> HIDE DEF bad
    <3> QED BY <2>1, LeastNatural
  <2>3. k \in 1..Len(order) /\ order[k] # k /\ order[k] \in 1..n
    BY <2>2, <1>3
  <2>4. \A j \in 1..Len(order) : j < k => order[j] = j
    BY <2>2, <2>1
  <2>5. order[k] >= k
    <3>1. CASE k = 1
      BY <3>1, <2>3, <1>1
    <3>2. CASE k # 1
      <4>1. k - 1 \in 1..Len(order) /\ k - 1 < k
        BY <3>2, <2>3, <1>3
      <4>2. order[k - 1] = k - 1 /\ order[k - 1] < order[k]
        BY <4>1, <2>3, <2>4, <1>3
      <4> QED
        BY <4>1, <4>2, <2>3, <1>1
    <3> QED
      BY <3>1, <3>2
  <2>6. k \in 1..n
    BY <2>3, <2>5, <1>1, <1>3
  <2>7. PICK j \in 1..Len(order) : order[j] = k
    BY <2>6, <1>3
  <2>8. ~(j < k)
    BY <2>4, <2>7, <2>6
  <2>9. j # k /\ ~(k < j)
    BY <2>3, <2>5, <2>7, <1>1, <1>3
  <2> QED
    BY <2>8, <2>9, <2>6, <2>7, <1>1, <1>3
<1>5. \A k \in 1..Len(order) : order[k] = k
  BY <1>4
<1>6. Len(order) = n
  <2>1. ~(Len(order) > n)
    <3> SUFFICES ASSUME Len(order) > n PROVE FALSE
      OBVIOUS
    <3>1. Len(order) \in 1..Len(order)
      BY <1>1, <1>3
    <3>2. order[Len(order)] = Len(order) /\ order[Len(order)] \in 1..n
      BY <3>1, <1>3, <1>5
    <3> QED
      BY <3>2, <1>1, <1>3
  <2>2. ~(Len(order) < n)
    <3> SUFFICES ASSUME Len(order) < n PROVE FALSE
      OBVIOUS
    <3>1. n \in 1..n
      BY <1>1, <1>3
    <3>2. PICK k \in 1..Len(order) : order[k] = n
      BY <3>1, <1>3
    <3> QED
      BY <3>2, <1>1, <1>3, <1>5
  <2>3. Len(order) \in Nat /\ n \in Nat
    BY <1>1, <1>3
  <2> QED
    BY <2>1, <2>2, <2>3
<1>7. Entries(seq, D) = [k \in DOMAIN order |-> seq[order[k]]]
  BY DEF Entries, order
<1>8. [k \in DOMAIN order |-> seq[order[k]]] = [k \in D |-> seq[k]]
  BY <1>3, <1>5, <1>6
<1>9. seq = [k \in D |-> seq[k]]
  BY <1>1
<1> QED
  BY <1>1, <1>7, <1>8, <1>9

----------------------------------------------------------------------------
(* The points on a path.                                                   *)

\* The place before, or none.
Lower(order, k) == IF k = Len(order) THEN 0 ELSE order[k + 1]

\* Links for the places of a path that hold a point, the last place first,
\* each counting the places down to the next.
Marks(links, order, path, pts) ==
    /\ order \in Seq(1..Len(path)) /\ Len(order) > 0 /\ Len(path) \in Nat
    /\ \A x \in 1..Len(path) : path[x] \in pts <=> \E k \in 1..Len(order) : order[k] = x
    /\ \A j, k \in 1..Len(order) : j < k => order[k] < order[j]
    /\ order[1] = Len(path)
    /\ links \in Seq(PathLinks) /\ Len(links) = Len(order)
    /\ \A k \in 1..Len(order) :
          links[k].id = path[order[k]] /\ links[k].count = order[k] - Lower(order, k)

\* What reversing a sequence gives.
LEMMA ReverseIs ==
  ASSUME NEW S, NEW s \in Seq(S)
  PROVE  /\ Reverse(s) \in Seq(S) /\ Len(Reverse(s)) = Len(s) /\ DOMAIN Reverse(s) = 1..Len(s)
         /\ \A k \in 1..Len(s) : Reverse(s)[k] = s[(Len(s) - k) + 1]
<1> DEFINE n == Len(s)
           r == Reverse(s)
<1>1. n \in Nat /\ \A k \in 1..n : s[k] \in S
  OBVIOUS
<1>2. r = [k \in 1..n |-> s[(n - k) + 1]]
  BY DEF Reverse
<1> HIDE DEF n, r
<1>3. \A k \in 1..n : (n - k) + 1 \in 1..n
  BY <1>1
<1>4. r \in [1..n -> S]
  BY <1>1, <1>2, <1>3
<1>5. r \in Seq(S) /\ Len(r) = n /\ DOMAIN r = 1..n
  BY <1>1, <1>2, <1>4
<1>6. \A k \in 1..n : r[k] = s[(n - k) + 1]
  BY <1>2
<1> QED
  BY <1>5, <1>6 DEF n, r

\* A set in descending order.
IsDescending(order, places) ==
    /\ order \in Seq(places)
    /\ \A x \in places : \E k \in 1..Len(order) : order[k] = x
    /\ \A j, k \in 1..Len(order) : j < k => order[k] < order[j]

\* The places of a set from the last to the first.
LEMMA DescendingIs ==
  ASSUME NEW n \in Nat, NEW places \in SUBSET (1..n)
  PROVE  IsDescending(Reverse(Ascending(places)), places)
<1> DEFINE up == Ascending(places)
           down == Reverse(up)
           m == Len(up)
<1>1. IsAscending(up, places)
  BY AscendingIs
<1> HIDE DEF up
<1>2. up \in Seq(places) /\ m \in Nat
  BY <1>1 DEF IsAscending
<1>3. /\ down \in Seq(places) /\ Len(down) = m
      /\ \A k \in 1..m : down[k] = up[(m - k) + 1]
  BY <1>2, ReverseIs
<1> HIDE DEF down, m
<1>4. ASSUME NEW x \in places PROVE \E k \in 1..m : down[k] = x
  <2>1. PICK j \in 1..m : up[j] = x
    BY <1>1 DEF IsAscending, m
  <2>2. (m - j) + 1 \in 1..m /\ (m - ((m - j) + 1)) + 1 = j
    BY <1>2, <2>1
  <2>3. down[(m - j) + 1] = up[(m - ((m - j) + 1)) + 1]
    BY <1>3, <2>2
  <2> QED
    BY <2>1, <2>2, <2>3
<1>5. ASSUME NEW j \in 1..m, NEW k \in 1..m, j < k PROVE down[k] < down[j]
  <2>1. (m - j) + 1 \in 1..m /\ (m - k) + 1 \in 1..m /\ (m - k) + 1 < (m - j) + 1
    BY <1>2, <1>5
  <2>2. up[(m - k) + 1] < up[(m - j) + 1]
    BY <2>1, <1>1 DEF IsAscending, m
  <2> QED
    BY <2>2, <1>3
<1>6. IsDescending(down, places)
  BY <1>3, <1>4, <1>5 DEF IsDescending
<1> QED
  BY <1>6 DEF down, up

\* The links of a path are its points, each with the places down to the next
\* (construction.rs:100).
LEMMA PointsAreMarked ==
  ASSUME NEW P \in SUBSET Nat, NEW path, Lists(path, P), Len(path) > 0,
         path[Len(path)] \in points, NEW head
  PROVE  \E order : Marks(PointsOnPath(path, head), order, path, points)
<1> DEFINE n == Len(path)
           at == {i \in DOMAIN path : path[i] \in points}
           below == [i \in at |-> {0} \cup {j \in at : j < i}]
           order == Reverse(Ascending(at))
           m == Len(order)
           links == PointsOnPath(path, head)
<1>1. n \in Nat /\ DOMAIN path = 1..n /\ at \in SUBSET (1..n) /\ n \in at
      /\ \A i \in 1..n : path[i] \in Nat
  <2>1. path \in Seq(P)
    BY DEF Lists
  <2>2. n \in Nat /\ DOMAIN path = 1..n /\ \A i \in 1..n : path[i] \in P
    BY <2>1
  <2>3. n \in 1..n
    BY <2>2
  <2> QED
    BY <2>2, <2>3
<1>2. IsDescending(order, at)
  <2> HIDE DEF at
  <2> QED
    BY <1>1, DescendingIs
<1>3. links = [k \in DOMAIN order |->
                 [id |-> path[order[k]],
                  count |-> order[k] - CHOOSE j \in below[order[k]] :
                                           \A i \in below[order[k]] : i <= j]]
  <2>1. at # {}
    BY <1>1
  <2> QED
    BY <2>1 DEF PointsOnPath
<1>4. /\ \A i \in 1..n : i \in at <=> path[i] \in points
      /\ \A i \in at : i \in 1..n /\ i \in Nat /\ 0 < i
  BY <1>1
<1> HIDE DEF order, links
<1>5. order \in Seq(at) /\ m \in Nat /\ DOMAIN order = 1..m /\ \A k \in 1..m : order[k] \in at
  <2> HIDE DEF at
  <2> QED
    BY <1>2 DEF IsDescending
<1>6. \A j, k \in 1..m : j < k => order[k] < order[j]
  BY <1>2 DEF IsDescending
<1>7. \A x \in at : \E k \in 1..m : order[k] = x
  BY <1>2 DEF IsDescending
<1> HIDE DEF at, m, n
<1>8. m > 0 /\ order[1] = n
  <2>1. PICK k \in 1..m : order[k] = n
    BY <1>1, <1>7
  <2>2. 1 \in 1..m /\ order[1] \in 1..n
    <3>1. 1 \in 1..m
      BY <2>1, <1>5
    <3> QED
      BY <3>1, <1>4, <1>5
  <2>3. ~(1 < k)
    BY <2>1, <2>2, <1>1, <1>6
  <2> QED
    BY <2>1, <2>2, <2>3, <1>5
<1>9. ASSUME NEW k \in 1..m
      PROVE  /\ (CHOOSE j \in below[order[k]] : \A i \in below[order[k]] : i <= j) = Lower(order, k)
             /\ Lower(order, k) \in Nat /\ Lower(order, k) < order[k]
  <2> DEFINE B == {0} \cup {j \in at : j < order[k]}
             low == Lower(order, k)
  <2>1. below[order[k]] = B
    BY <1>5
  <2>2. low \in B /\ \A i \in B : i <= low
    <3>1. CASE k = m
      <4>1. low = 0
        BY <3>1 DEF Lower, m
      <4>2. \A j \in at : ~(j < order[k])
        <5> SUFFICES ASSUME NEW j \in at, j < order[k] PROVE FALSE
          OBVIOUS
        <5>1. PICK l \in 1..m : order[l] = j
          BY <1>7
        <5>2. l # k /\ ~(l < k)
          <6>1. order[k] \in 1..n /\ order[l] \in 1..n
            BY <1>1, <1>5
          <6> QED
            BY <6>1, <5>1, <1>6
        <5> QED
          BY <5>2, <3>1
      <4> HIDE DEF low
      <4> QED
        BY <4>1, <4>2
    <3>2. CASE k # m
      <4>1. k + 1 \in 1..m /\ low = order[k + 1]
        <5>1. k + 1 \in 1..m
          BY <3>2, <1>5
        <5>2. k # Len(order)
          BY <3>2 DEF m
        <5> QED
          BY <5>1, <5>2 DEF Lower
      <4>2. order[k + 1] \in at /\ order[k + 1] < order[k]
        BY <4>1, <1>5, <1>6
      <4>3. ASSUME NEW j \in at, j < order[k] PROVE j <= order[k + 1]
        <5>1. PICK l \in 1..m : order[l] = j
          BY <1>7
        <5>2. order[k] \in 1..n /\ order[l] \in 1..n /\ order[k + 1] \in 1..n
          BY <1>1, <1>5, <4>1
        <5>3. l # k /\ ~(l < k)
          BY <5>1, <5>2, <4>3, <1>6
        <5>4. k + 1 < l \/ k + 1 = l
          BY <5>3
        <5> QED
          BY <5>1, <5>2, <5>4, <4>1, <1>6
      <4>4. 0 <= order[k + 1]
        BY <4>2, <1>4
      <4> HIDE DEF low
      <4> QED
        BY <4>1, <4>2, <4>3, <4>4
    <3> QED
      BY <3>1, <3>2
  <2>3. B \in SUBSET Nat /\ order[k] > 0
    <3>1. order[k] \in at
      BY <1>5
    <3> QED
      BY <3>1, <1>4
  <2>4. \A j \in B : (\A i \in B : i <= j) => j = low
    <3> HIDE DEF B, low
    <3> QED
      BY <2>2, <2>3
  <2>5. low \in Nat /\ low < order[k]
    <3>1. \A j \in B : j < order[k]
      BY <2>3
    <3> HIDE DEF B, low
    <3> QED
      BY <2>2, <2>3, <3>1
  <2>6. (CHOOSE j \in B : \A i \in B : i <= j) = low
    <3> HIDE DEF B, low
    <3> QED
      BY <2>2, <2>4
  <2> HIDE DEF B
  <2> QED
    BY <2>1, <2>5, <2>6
<1>10. \A k \in 1..m : links[k] = [id |-> path[order[k]], count |-> order[k] - Lower(order, k)]
  BY <1>3, <1>5, <1>9
<1>11. \A k \in 1..m : links[k] \in PathLinks
  <2> SUFFICES ASSUME NEW k \in 1..m PROVE links[k] \in PathLinks
    OBVIOUS
  <2>1. order[k] \in 1..n /\ path[order[k]] \in Nat
    BY <1>1, <1>4, <1>5
  <2>2. order[k] - Lower(order, k) \in Nat
    <3>1. Lower(order, k) \in Nat /\ Lower(order, k) < order[k]
      BY <1>9
    <3> QED
      BY <2>1, <3>1, <1>1
  <2>3. [id |-> path[order[k]], count |-> order[k] - Lower(order, k)] \in PathLinks
    BY <2>1, <2>2 DEF PathLinks
  <2> QED
    BY <2>3, <1>10
<1>12. links \in Seq(PathLinks) /\ Len(links) = m
  <2>1. DOMAIN links = 1..m /\ links = [k \in 1..m |-> links[k]]
    <3>1. DOMAIN links = 1..m
      BY <1>3, <1>5
    <3>2. links = [k \in DOMAIN links |-> links[k]]
      BY <1>3
    <3> QED
      BY <3>1, <3>2
  <2>2. links \in [1..m -> PathLinks]
    BY <2>1, <1>11
  <2> QED
    BY <2>2, <1>5
<1>13. order \in Seq(1..n)
  <2> DEFINE N == 1..n
  <2>1. at \subseteq N
    BY <1>4
  <2> HIDE DEF N
  <2>2. order \in Seq(N)
    BY <2>1, <1>5
  <2> QED
    BY <2>2 DEF N
<1>14. \A x \in 1..n : path[x] \in points <=> \E k \in 1..m : order[k] = x
  BY <1>4, <1>5, <1>7
<1>15. \A k \in 1..m : links[k].id = path[order[k]] /\ links[k].count = order[k] - Lower(order, k)
  <2> SUFFICES ASSUME NEW k \in 1..m
               PROVE  links[k].id = path[order[k]] /\ links[k].count = order[k] - Lower(order, k)
    OBVIOUS
  <2>1. links[k] = [id |-> path[order[k]], count |-> order[k] - Lower(order, k)]
    BY <1>10
  <2> QED
    BY <2>1
<1>16. Marks(links, order, path, points)
  BY <1>1, <1>6, <1>8, <1>12, <1>13, <1>14, <1>15 DEF Marks, m, n
<1> QED
  BY <1>16 DEF links

\* The counts of the links of a path add up to its length.
LEMMA MarksTotal ==
  ASSUME NEW links, NEW order, NEW path, NEW pts, Marks(links, order, path, pts)
  PROVE  Total(links) = Len(path)
<1> DEFINE m == Len(links)
           f == Counts(links)
           from(k) == k..m
           bad == {k \in 1..m : SumOver(f, from(k)) # order[k]}
<1>1. /\ links \in Seq(PathLinks) /\ m \in Nat /\ m > 0 /\ DOMAIN links = 1..m
      /\ m = Len(order) /\ order \in Seq(1..Len(path)) /\ Len(path) \in Nat
      /\ order[1] = Len(path)
  BY DEF Marks
<1>2. \A k \in 1..m : f[k] = order[k] - Lower(order, k) /\ f[k] \in Int
  BY <1>1, CountsAreNatural DEF Marks
<1>3. \A k \in 1..m : order[k] \in Int
  BY <1>1
<1> HIDE DEF f, m
<1>4. \A k \in 1..m : from(k) \subseteq 1..m /\ IsFiniteSet(from(k))
  <2> SUFFICES ASSUME NEW k \in 1..m PROVE from(k) \subseteq 1..m /\ IsFiniteSet(from(k))
    OBVIOUS
  <2>1. k..m \subseteq 1..m
    BY <1>1
  <2>2. IsFiniteSet(k..m)
    BY <1>1, FS_Interval
  <2> QED
    BY <2>1, <2>2
<1>5. bad = {}
  <2> SUFFICES ASSUME bad # {} PROVE FALSE
    OBVIOUS
  <2>1. bad \in SUBSET Nat /\ \A k \in bad : k <= m
    BY <1>1
  <2>2. PICK k \in bad : \A l \in bad : l <= k
    <3> HIDE DEF bad
    <3> QED BY <1>1, <2>1, GreatestNatural
  <2>3. CASE k = m
    <3>1. from(k) = {} \cup {k}
      BY <2>3, <1>1
    <3>2. SumOver(f, {} \cup {k}) = f[k] + SumOver(f, {})
      <4>1. \A y \in {} \cup {k} : f[y] \in Int
        BY <1>2, <2>2
      <4>2. IsFiniteSet({}) /\ k \notin {}
        BY FS_EmptySet
      <4> QED
        BY <4>1, <4>2, SumAdd
    <3>3. SumOver(f, {}) = 0
      BY SumEmpty
    <3>4. f[k] = order[k] - 0
      BY <1>1, <1>2, <2>2, <2>3 DEF Lower
    <3> QED
      <4>1. SumOver(f, from(k)) = f[k] + 0
        BY <3>1, <3>2, <3>3, Zenon
      <4>2. f[k] = order[k] /\ order[k] \in Int
        BY <3>4, <1>3, <2>2
      <4>3. SumOver(f, from(k)) = order[k]
        <5> HIDE DEF from
        <5> QED
          BY <4>1, <4>2
      <4> QED
        BY <4>3, <2>2
  <2>4. CASE k # m
    <3>1. k + 1 \in 1..m /\ k + 1 \notin bad
      BY <2>1, <2>2, <2>4, <1>1
    <3>2. SumOver(f, from(k + 1)) = order[k + 1]
      BY <3>1
    <3>3. from(k) = from(k + 1) \cup {k} /\ k \notin from(k + 1)
      BY <2>2, <1>1
    <3>4. SumOver(f, from(k + 1) \cup {k}) = f[k] + SumOver(f, from(k + 1))
      <4>1. \A y \in from(k + 1) \cup {k} : f[y] \in Int
        BY <1>2, <1>4, <2>2, <3>1
      <4>2. IsFiniteSet(from(k + 1))
        BY <1>4, <3>1
      <4> HIDE DEF from
      <4> QED
        BY <4>1, <4>2, <3>3, SumAdd
    <3>5. f[k] = order[k] - order[k + 1]
      BY <1>1, <1>2, <2>2, <2>4 DEF Lower
    <3>6. SumOver(f, from(k)) = order[k]
      <4> HIDE DEF from
      <4> QED
        BY <3>1, <3>2, <3>3, <3>4, <3>5, <1>3, <2>2
    <3> QED
      BY <3>6, <2>2
  <2> QED
    BY <2>3, <2>4
<1>6. 1 \in 1..m
  BY <1>1
<1>7. SumOver(f, from(1)) = order[1]
  BY <1>5, <1>6
<1> QED
  BY <1>1, <1>7 DEF Total, f

\* The links of a path name its points and no others.
LEMMA MarksIds ==
  ASSUME NEW P, NEW path, Lists(path, P), NEW links, NEW order, NEW pts, Marks(links, order, path, pts)
  PROVE  /\ \A k \in 1..Len(links) : links[k].id \in pts \cap P
         /\ \A x \in pts \cap P : \E k \in 1..Len(links) : links[k].id = x
         /\ links[1].id = path[Len(path)]
<1> DEFINE m == Len(links)
           n == Len(path)
<1>1. /\ m = Len(order) /\ m \in Nat /\ m > 0 /\ n \in Nat
      /\ \A k \in 1..m : order[k] \in 1..n /\ links[k].id = path[order[k]]
      /\ order[1] = n
      /\ \A x \in 1..n : path[x] \in pts <=> \E k \in 1..m : order[k] = x
  BY DEF Marks
<1>2. /\ \A i \in 1..n : path[i] \in P
      /\ \A x \in P : \E i \in 1..n : path[i] = x
  BY DEF Lists
<1> HIDE DEF m, n
<1>3. \A k \in 1..m : links[k].id \in pts \cap P
  BY <1>1, <1>2
<1>4. \A x \in pts \cap P : \E k \in 1..m : links[k].id = x
  <2> SUFFICES ASSUME NEW x \in pts \cap P PROVE \E k \in 1..m : links[k].id = x
    OBVIOUS
  <2>1. PICK i \in 1..n : path[i] = x
    BY <1>2
  <2>2. PICK k \in 1..m : order[k] = i
    BY <2>1, <1>1
  <2> QED
    BY <2>1, <2>2, <1>1
<1>5. links[1].id = path[n]
  BY <1>1
<1> QED
  BY <1>3, <1>4, <1>5 DEF m, n

----------------------------------------------------------------------------
(* Paths without merges.                                                   *)

\* A path in an order in which each commit precedes some child of its own.
IsPath(path, h, head) ==
    \A i \in 1..Len(path) :
        path[i] = head \/ \E j \in i + 1 .. Len(path) : path[i] \in h[path[j]]

\* Of two commits of a path the former is an ancestor of the latter.
IsChain(path, h) ==
    \A i, j \in 1..Len(path) : i < j => path[i] \in Ancestry(h, path[j])

\* A path that no commit but head ends, ends at head.
LEMMA PathEndsAtHead ==
  ASSUME NEW S, NEW path, Lists(path, S), NEW h, NEW head, IsPath(path, h, head), Len(path) > 0
  PROVE  path[Len(path)] = head
<1>1. Len(path) \in Nat
  BY DEF Lists
<1>2. Len(path) \in 1..Len(path)
  BY <1>1
<1>3. ~ \E j \in Len(path) + 1 .. Len(path) : TRUE
  BY <1>1
<1> QED
  BY <1>2, <1>3 DEF IsPath

\* Without merges every order of a path, children after parents, is the line.
LEMMA PathIsChain ==
  ASSUME NEW h, IsHistory(h), NEW head \in DOMAIN h, NEW base, StartsBelow(h, base, head),
         Unbranched(h, base, head), NEW path, Lists(path, Between(h, base, head)),
         IsPath(path, h, head)
  PROVE  IsChain(path, h)
<1> DEFINE n == Len(path)
<1>0. /\ n \in Nat /\ \A i \in 1..n : path[i] \in Between(h, base, head)
      /\ \A i, j \in 1..n : path[i] = path[j] => i = j
      /\ \A x \in Between(h, base, head) : \E i \in 1..n : path[i] = x
      /\ \A i \in 1..n : path[i] = head \/ \E j \in i + 1 .. n : path[i] \in h[path[j]]
  BY DEF Lists, IsPath
<1> HIDE DEF n
<1>1. SUFFICES ASSUME NEW i \in 1..n PROVE \A j \in 1..n : i < j => path[i] \in Ancestry(h, path[j])
  BY DEF IsChain, n
<1> DEFINE bad == {j \in 1..n : i < j /\ path[i] \notin Ancestry(h, path[j])}
<1>2. bad = {}
  <2> SUFFICES ASSUME bad # {} PROVE FALSE
    OBVIOUS
  <2>1. bad \in SUBSET Nat /\ \A j \in bad : j <= n
    BY <1>0
  <2>2. PICK j \in bad : \A k \in bad : k <= j
    <3> HIDE DEF bad
    <3> QED BY <1>0, <2>1, GreatestNatural
  <2> DEFINE x == path[i]
             y == path[j]
  <2>3. j \in 1..n /\ i < j /\ x \notin Ancestry(h, y)
    BY <2>2
  <2>4. x \in Between(h, base, head) /\ y \in Between(h, base, head)
    BY <1>0, <2>3
  <2>5. x \in DOMAIN h /\ y \in DOMAIN h /\ x \in Ancestry(h, head)
    BY <2>4, AncestryBounded DEF Between
  <2> HIDE DEF x, y
  <2>6. y # head
    BY <2>3, <2>5
  <2>7. y \in Ancestry(h, x)
    BY <2>3, <2>4, BetweenIsLine
  <2>8. PICK k \in j + 1 .. n : y \in h[path[k]]
    BY <1>0, <2>3, <2>6 DEF y
  <2>9. k \in 1..n /\ j < k /\ i < k
    BY <2>3, <2>8, <1>0
  <2> DEFINE z == path[k]
  <2>10. z \in Between(h, base, head) /\ z # x
    BY <2>9, <1>0 DEF x
  <2>11. x \in Ancestry(h, z)
    BY <2>2, <2>9 DEF x
  <2>z. z \in DOMAIN h
    BY <2>10, AncestryBounded DEF Between
  <2>12. Ancestry(h, z) = {z} \cup Ancestry(h, y)
    <3>1. PICK c : FollowedBy(h, base, head, y, c)
      BY <2>4, <2>6, ChildIsBetween
    <3>2. Cardinality(h[z]) <= 1
      BY <2>10 DEF Unbranched
    <3>3. h[z] = {y}
      <4>1. h[z] \in SUBSET Nat /\ \A p \in h[z] : p <= z
        BY <2>z DEF IsHistory
      <4>2. IsFiniteSet(h[z])
        BY <4>1, <2>z, BoundedIsFinite DEF IsHistory
      <4>3. Cardinality(h[z]) # 0
        BY <4>2, <2>8, FS_EmptySet
      <4>4. Cardinality(h[z]) = 1
        BY <3>2, <4>2, <4>3, FS_CardinalityType
      <4>5. PICK u : h[z] = {u}
        BY <4>2, <4>4, FS_Singleton
      <4> QED
        BY <4>5, <2>8
    <3>4. Ancestry(h, z) = {z} \cup UNION {Ancestry(h, p) : p \in h[z]}
      BY <2>z, AncestryUnfolds
    <3> QED
      BY <3>3, <3>4
  <2> HIDE DEF z
  <2>13. x \in Ancestry(h, y)
    BY <2>10, <2>11, <2>12
  <2> QED
    BY <2>3, <2>13
<1> QED
  BY <1>2

\* So is the part of a path that was not rewritten.
LEMMA PartIsChain ==
  ASSUME NEW h, NEW path, IsChain(path, h), NEW part, NEW T, IsPart(part, path, T)
  PROVE  IsChain(part, h)
<1> SUFFICES ASSUME NEW j \in 1..Len(part), NEW k \in 1..Len(part), j < k
             PROVE  part[j] \in Ancestry(h, part[k])
  BY DEF IsChain
<1>1. PICK i \in 1..Len(path), l \in 1..Len(path) : i < l /\ part[j] = path[i] /\ part[k] = path[l]
  BY DEF IsPart
<1> QED
  BY <1>1 DEF IsChain

\* The commit at a place of a path, or the base below its first.
At(base, path, i) == IF i = 0 THEN base ELSE path[i]

\* The entries after one place and up to another are what lies between.
SpanIs(h, base, rew, path, low, o) ==
    Cardinality(Between(h, At(base, path, low), path[o]) \ rew) = o - low

\* The places after one and up to another hold the commits between the two.
LEMMA ChainSpan ==
  ASSUME NEW h, IsHistory(h), NEW head \in DOMAIN h, NEW base, StartsBelow(h, base, head),
         NEW rew, NEW path, Lists(path, Between(h, base, head) \ rew), IsChain(path, h),
         NEW o \in 1..Len(path), NEW low \in 0..(o - 1)
  PROVE  SpanIs(h, base, rew, path, low, o)
<1> DEFINE n == Len(path)
           b == At(base, path, low)
           x == path[o]
           P == Between(h, base, head) \ rew
           span == Between(h, b, x) \ rew
           shifted == [k \in 1..(o - low) |-> path[low + k]]
<1>1. /\ n \in Nat /\ \A i \in 1..n : path[i] \in P
      /\ \A i, j \in 1..n : path[i] = path[j] => i = j
      /\ \A c \in P : \E i \in 1..n : path[i] = c
  BY DEF Lists
<1>2. \A i, j \in 1..n : i < j => path[i] \in Ancestry(h, path[j])
  BY DEF IsChain
<1>3. \A c : c \in P <=> /\ c \in Ancestry(h, head) /\ c \notin rew
                         /\ base = NoCommit \/ (c # base /\ base \in Ancestry(h, c))
  BY BetweenIs
<1>4. \A c \in P : c \in DOMAIN h /\ c \in Ancestry(h, c)
  BY <1>3, AncestryBounded, AncestryReflexive
<1>5. x \in P /\ o \in Nat /\ low \in Nat /\ low < o /\ o \in 1..n /\ o <= n
  BY <1>1
<1>a. \A c, d : c \in DOMAIN h /\ d \in DOMAIN h /\ c \in Ancestry(h, d) /\ d \in Ancestry(h, c) => c = d
  BY AncestryAntisymmetric
<1>b. \A c, d : d \in DOMAIN h /\ c \in Ancestry(h, d) => Ancestry(h, c) \subseteq Ancestry(h, d) /\ c \in DOMAIN h
  BY AncestryTransitive, AncestryBounded
<1>s. span = {c \in Between(h, b, x) : c \notin rew}
  OBVIOUS
<1> HIDE DEF P, x, n, span
<1>6. \A c : c \in span <=> /\ c \in P /\ c \in Ancestry(h, x)
                            /\ low = 0 \/ (c # b /\ b \in Ancestry(h, c))
  <2>1. CASE low = 0
    <3>1. b = base
      BY <2>1 DEF At
    <3>2. StartsBelow(h, base, x)
      BY <1>3, <1>5 DEF StartsBelow
    <3>3. x \in DOMAIN h /\ Ancestry(h, x) \subseteq Ancestry(h, head)
      BY <1>3, <1>4, <1>5, <1>b
    <3>4. \A c : c \in Between(h, base, x) <=>
               c \in Ancestry(h, x) /\ (base = NoCommit \/ (c # base /\ base \in Ancestry(h, c)))
      BY <3>2, <3>3, BetweenIs
    <3> HIDE DEF b
    <3> QED
      BY <2>1, <3>1, <3>3, <3>4, <1>3, <1>s
  <2>2. CASE low # 0
    <3>1. b = path[low] /\ low \in 1..n
      <4>1. b = path[low]
        BY <2>2 DEF At
      <4>2. low \in 1..n
        BY <2>2, <1>1, <1>5
      <4> QED
        BY <4>1, <4>2
    <3>2. b \in P /\ x \in P
      BY <3>1, <1>1, <1>5
    <3> HIDE DEF b
    <3>3. b \in DOMAIN h /\ x \in DOMAIN h /\ Ancestry(h, x) \subseteq Ancestry(h, head) /\ b # NoCommit
      BY <3>2, <1>3, <1>4, <1>b DEF IsHistory, NoCommit
    <3>4. \A c : c \in Between(h, b, x) <=> c \in Ancestry(h, x) /\ c # b /\ b \in Ancestry(h, c)
      BY <3>3 DEF Between
    <3>5. ASSUME NEW c, c \in Ancestry(h, x), c # b, b \in Ancestry(h, c), c \notin rew PROVE c \in P
      <4>1. c \in Ancestry(h, head) /\ c \in DOMAIN h
        BY <3>3, <3>5, <1>b
      <4>2. CASE base = NoCommit
        BY <4>1, <4>2, <3>5, <1>3
      <4>3. CASE base # NoCommit
        <5>1. base \in Ancestry(h, b) /\ b # base
          BY <4>3, <3>2, <1>3
        <5>2. base \in Ancestry(h, c)
          BY <5>1, <4>1, <3>5, <1>b
        <5>3. c # base
          <6> SUFFICES ASSUME c = base PROVE FALSE
            OBVIOUS
          <6> QED
            BY <5>1, <4>1, <3>3, <3>5, <1>a
        <5> QED
          BY <5>2, <5>3, <4>1, <3>5, <1>3
      <4> QED
        BY <4>2, <4>3
    <3> QED
      BY <2>2, <3>4, <3>5, <1>3, <1>s
  <2> QED
    BY <2>1, <2>2
<1>l. low # 0 => b = path[low] /\ low \in 1..n /\ b \in P
  <2> SUFFICES ASSUME low # 0 PROVE b = path[low] /\ low \in 1..n /\ b \in P
    OBVIOUS
  <2>1. b = path[low] /\ low \in 1..n
    BY <1>1, <1>5 DEF At
  <2> QED
    BY <2>1, <1>1
<1> HIDE DEF b
<1>7. ASSUME NEW i \in 1..n PROVE path[i] \in span <=> low < i /\ i <= o
  <2> DEFINE c == path[i]
  <2>0. c \in P /\ c \in DOMAIN h /\ c \in Ancestry(h, c) /\ x \in DOMAIN h /\ x = path[o] /\ i \in Nat
    BY <1>1, <1>4, <1>5 DEF x
  <2>1. ASSUME low < i, i <= o PROVE c \in span
    <3>1. c \in Ancestry(h, x)
      <4>1. CASE i = o
        BY <4>1, <2>0
      <4>2. CASE i # o
        BY <4>2, <2>1, <2>0, <1>2, <1>5 DEF n
      <4> QED
        BY <4>1, <4>2
    <3>2. low # 0 => c # b /\ b \in Ancestry(h, c)
      BY <2>1, <1>l, <1>1, <1>2, <1>5 DEF n
    <3> HIDE DEF c
    <3> QED
      BY <3>1, <3>2, <2>0, <1>6
  <2>2. ASSUME c \in span PROVE i <= o
    <3> SUFFICES ASSUME o < i PROVE FALSE
      BY <2>0, <1>5
    <3>1. x \in Ancestry(h, c)
      BY <2>0, <1>2, <1>5 DEF n
    <3>2. c \in Ancestry(h, x)
      BY <2>2, <1>6
    <3>3. path[i] = path[o]
      BY <3>1, <3>2, <2>0, <1>a
    <3> QED
      BY <3>3, <1>1, <1>5
  <2>3. ASSUME c \in span PROVE low < i
    <3> SUFFICES ASSUME low # 0, i <= low PROVE FALSE
      BY <2>0, <1>5
    <3>1. c # b /\ b \in Ancestry(h, c)
      BY <2>3, <1>6
    <3>2. b = path[low] /\ low \in 1..n /\ b \in DOMAIN h
      BY <1>l, <1>4
    <3>3. i < low
      BY <3>1, <3>2, <2>0, <1>5
    <3>4. c \in Ancestry(h, b)
      BY <3>2, <3>3, <1>2 DEF n
    <3> QED
      BY <3>1, <3>2, <3>4, <2>0, <1>a
  <2> QED
    BY <2>1, <2>2, <2>3
<1>8. shifted \in Seq(span) /\ Len(shifted) = o - low /\ \A k \in 1..(o - low) : shifted[k] = path[low + k]
  <2>1. \A k \in 1..(o - low) : path[low + k] \in span
    <3> SUFFICES ASSUME NEW k \in 1..(o - low) PROVE path[low + k] \in span
      OBVIOUS
    <3>1. low + k \in 1..n /\ low < low + k /\ low + k <= o
      BY <1>1, <1>5
    <3> QED
      BY <3>1, <1>7
  <2>2. o - low \in Nat
    BY <1>5
  <2>3. DOMAIN shifted = 1..(o - low) /\ \A k \in 1..(o - low) : shifted[k] = path[low + k]
    OBVIOUS
  <2>4. shifted \in [1..(o - low) -> span]
    <3>1. \A k \in 1..(o - low) : shifted[k] \in span
      BY <2>1, <2>3
    <3>2. shifted = [k \in 1..(o - low) |-> shifted[k]]
      BY <2>3
    <3> HIDE DEF shifted
    <3> QED
      BY <3>1, <3>2
  <2> HIDE DEF shifted
  <2> QED
    BY <2>2, <2>3, <2>4
<1> HIDE DEF shifted
<1>9. \A c \in span : \E k \in 1..Len(shifted) : shifted[k] = c
  <2> SUFFICES ASSUME NEW c \in span PROVE \E k \in 1..Len(shifted) : shifted[k] = c
    OBVIOUS
  <2>1. c \in P
    BY <1>6
  <2>2. PICK i \in 1..n : path[i] = c
    BY <2>1, <1>1
  <2>3. low < i /\ i <= o
    BY <2>2, <1>7
  <2>4. i - low \in 1..(o - low) /\ low + (i - low) = i
    BY <2>2, <2>3, <1>1, <1>5
  <2>5. shifted[i - low] = c
    BY <2>2, <2>4, <1>8
  <2> QED
    BY <2>4, <2>5, <1>8
<1>10. \A j, k \in 1..Len(shifted) : shifted[j] = shifted[k] => j = k
  <2> SUFFICES ASSUME NEW j \in 1..(o - low), NEW k \in 1..(o - low), shifted[j] = shifted[k] PROVE j = k
    BY <1>8
  <2>1. low + j \in 1..n /\ low + k \in 1..n /\ j \in Int /\ k \in Int
    BY <1>1, <1>5
  <2>2. low + j = low + k
    BY <2>1, <1>1, <1>8
  <2> QED
    BY <2>1, <2>2, <1>5
<1>11. Lists(shifted, span)
  BY <1>8, <1>9, <1>10 DEF Lists
<1>12. Cardinality(span) = Len(shifted)
  BY <1>11, ListLength
<1> QED
  BY <1>8, <1>12 DEF SpanIs, span, b, x

----------------------------------------------------------------------------
(* One lane.                                                               *)

\* The commit that a link counts from.
Before(base, links, i) == IF i = Len(links) THEN base ELSE links[i + 1].id

\* What LanesAreExact says of one lane.
ExactLane(h, pts, rew, base, head, links) ==
    /\ links \in Seq(PathLinks) /\ Len(links) > 0
    /\ \A i \in 1..Len(links) : links[i].id \in pts \cap (Between(h, base, head) \ rew)
    /\ \A x \in pts \cap (Between(h, base, head) \ rew) : \E i \in 1..Len(links) : links[i].id = x
    /\ links[1].id = head
    /\ Total(links) = Cardinality(Between(h, base, head) \ rew)
    /\ \A i \in 1..Len(links) : links[i].count > 0 /\ links[i].count <= Cardinality(Ancestry(h, head))
    /\ Unbranched(h, base, head) =>
          \A i \in 1..Len(links) :
              links[i].count = Cardinality(Between(h, Before(base, links, i), links[i].id) \ rew)

\* Both backends walk the commits between the base and the head.
LEMMA PathCommitsAre ==
  ASSUME IsHistory(history), NEW head \in Commits, NEW base, StartsBelow(history, base, head)
  PROVE  PathCommits(base, head) = Between(history, base, head)
<1>1. CASE native /\ base # NoCommit
  <2>1. base \in Ancestry(history, head) /\ head \in DOMAIN history
    BY <1>1 DEF StartsBelow, Commits
  <2>2. Descendants(Walk(history, {head}, {base}), base) = Between(history, base, head)
    BY <2>1, DescendantsAreBetween
  <2> QED
    BY <1>1, <2>2 DEF PathCommits
<1>2. CASE ~(native /\ base # NoCommit)
  BY <1>2 DEF PathCommits
<1> QED
  BY <1>1, <1>2

\* A lane from the path walk is exact (construction.rs:277, construction.rs:100).
LEMMA WalkLane ==
  ASSUME IsHistory(history), NEW head \in Commits, NEW base, StartsBelow(history, base, head),
         head \in points, rewritten \cap points = {}, NEW path \in AncestryPaths(base, head)
  PROVE  ExactLane(history, points, rewritten, base, head,
                   PointsOnPath(Entries(path, {i \in DOMAIN path : path[i] \notin rewritten}), head))
<1> DEFINE B == Between(history, base, head)
           P == B \ rewritten
           at == {i \in DOMAIN path : path[i] \notin rewritten}
           kept == Entries(path, at)
           links == PointsOnPath(kept, head)
           n == Len(kept)
<1>0. head \in DOMAIN history
  BY DEF Commits
<1>1. IsFiniteSet(B) /\ head \in B /\ B \in SUBSET Nat
  <2>1. IsFiniteSet(B) /\ B \subseteq Ancestry(history, head)
    BY <1>0, BetweenIsFinite
  <2>2. head \in B
    BY <1>0, BetweenIs
  <2>3. \A c \in Ancestry(history, head) : c \in Nat
    BY <1>0, AncestryBounded DEF IsHistory
  <2> HIDE DEF B
  <2> QED
    BY <2>1, <2>2, <2>3
<1>2. path \in SetToSeqs(B) /\ IsPath(path, history, head)
  <2>1. PathCommits(base, head) = B
    BY PathCommitsAre
  <2> HIDE DEF B
  <2>2. path \in SetToSeqs(B) /\ \A i \in DOMAIN path : path[i] = head \/ \E j \in i + 1 .. Len(path) : path[i] \in history[path[j]]
    BY <2>1 DEF AncestryPaths
  <2>3. DOMAIN path = 1..Len(path)
    BY <2>2, <1>1, SeqsAreLists
  <2> QED
    BY <2>2, <2>3 DEF IsPath
<1>3. Lists(path, B) /\ DOMAIN path = 1..Len(path)
  <2> HIDE DEF B
  <2> QED
    BY <1>1, <1>2, SeqsAreLists
<1>4. Len(path) > 0 /\ Len(path) \in Nat
  <2> HIDE DEF B
  <2>1. PICK i \in 1..Len(path) : path[i] = head
    BY <1>1, <1>3 DEF Lists
  <2>2. Len(path) \in Nat
    BY <1>3, ListLength
  <2> QED
    BY <2>1, <2>2
<1>5. path[Len(path)] = head
  <2> HIDE DEF B
  <2> QED
    BY <1>2, <1>3, <1>4, PathEndsAtHead
<1>6. at = {i \in DOMAIN path : path[i] \in P}
  <2>1. \A i \in DOMAIN path : path[i] \in B
    <3> HIDE DEF B
    <3> QED
      BY <1>3, <1>4 DEF Lists
  <2> QED
    BY <2>1
<1>h. head \in P
  <2> HIDE DEF B
  <2> QED
    BY <1>1
<1>7. IsPart(kept, path, P)
  <2>1. P \in SUBSET B
    OBVIOUS
  <2> HIDE DEF B, P, at
  <2>2. IsPart(Entries(path, {i \in DOMAIN path : path[i] \in P}), path, P)
    BY <2>1, <1>3, <1>4, EntriesArePart
  <2> QED
    BY <2>2, <1>6
<1> HIDE DEF kept
<1>8. Lists(kept, P) /\ n > 0 /\ kept[n] = head
  <2> HIDE DEF P
  <2> QED
    BY <1>7, <1>5, <1>h DEF IsPart
<1>9. PICK order : Marks(links, order, kept, points)
  <2>1. P \in SUBSET Nat
    BY <1>1
  <2> HIDE DEF P
  <2> QED
    BY <2>1, <1>8, PointsAreMarked
<1> HIDE DEF links
<1>10. /\ \A k \in 1..Len(links) : links[k].id \in points \cap P
       /\ \A x \in points \cap P : \E k \in 1..Len(links) : links[k].id = x
       /\ links[1].id = head
  <2> HIDE DEF P
  <2> QED
    BY <1>8, <1>9, MarksIds
<1>11. Total(links) = Cardinality(P)
  <2>1. Total(links) = n
    BY <1>9, MarksTotal
  <2> HIDE DEF P
  <2>2. Cardinality(P) = n
    BY <1>8, ListLength
  <2> QED
    BY <2>1, <2>2
<1>12. links \in Seq(PathLinks) /\ Len(links) > 0
  BY <1>9 DEF Marks
<1>13. ASSUME Unbranched(history, base, head), NEW k \in 1..Len(links)
       PROVE  links[k].count = Cardinality(Between(history, Before(base, links, k), links[k].id) \ rewritten)
  <2> DEFINE m == Len(links)
             low == Lower(order, k)
             o == order[k]
  <2>1. IsChain(kept, history)
    <3>1. IsChain(path, history)
      BY <1>0, <1>2, <1>3, <1>13, PathIsChain
    <3> HIDE DEF P
    <3> QED
      BY <3>1, <1>7, PartIsChain
  <2>2. /\ m = Len(order) /\ m \in Nat /\ n \in Nat
        /\ \A j \in 1..m : order[j] \in 1..n /\ links[j].id = kept[order[j]]
        /\ \A i, j \in 1..m : i < j => order[j] < order[i]
        /\ links[k].count = o - low
    BY <1>9, <1>13 DEF Marks
  <2> HIDE DEF m
  <2>3. k \in 1..m /\ o \in 1..n /\ o \in Nat
    BY <2>2, <1>13 DEF m
  <2>4. low \in 0..(o - 1)
    <3>1. CASE k = m
      <4>1. low = 0
        BY <3>1, <2>2 DEF Lower
      <4> HIDE DEF low
      <4> QED
        BY <4>1, <2>3
    <3>2. CASE k # m
      <4>1. k + 1 \in 1..m /\ k < k + 1
        BY <3>2, <2>2, <2>3
      <4>2. low = order[k + 1]
        BY <3>2, <2>2 DEF Lower
      <4>3. order[k + 1] < o /\ order[k + 1] \in 1..n
        BY <4>1, <2>2, <2>3
      <4> HIDE DEF low, o
      <4> QED
        BY <4>2, <4>3, <2>3
    <3> QED
      BY <3>1, <3>2
  <2>5. At(base, kept, low) = Before(base, links, k)
    <3>1. CASE k = m
      BY <3>1, <2>2 DEF Lower, At, Before, m
    <3>2. CASE k # m
      <4>1. k + 1 \in 1..m
        BY <3>2, <2>2, <2>3
      <4>2. low = order[k + 1]
        BY <3>2, <2>2 DEF Lower
      <4>3. order[k + 1] \in 1..n /\ links[k + 1].id = kept[order[k + 1]]
        BY <4>1, <2>2
      <4>4. order[k + 1] # 0
        BY <4>3
      <4> HIDE DEF low
      <4>5. At(base, kept, low) = links[k + 1].id
        BY <4>2, <4>3, <4>4 DEF At
      <4> QED
        BY <4>5, <3>2 DEF Before, m
    <3> QED
      BY <3>1, <3>2
  <2>6. links[k].id = kept[o]
    BY <2>2, <2>3
  <2> HIDE DEF low, o
  <2>8. Lists(kept, Between(history, base, head) \ rewritten)
    BY <1>8
  <2>9. o \in 1..Len(kept)
    BY <2>3
  <2>7. SpanIs(history, base, rewritten, kept, low, o)
    <3> HIDE DEF n, P, B
    <3> QED
      BY <2>1, <2>4, <2>8, <2>9, <1>0, ChainSpan
  <2> QED
    BY <2>2, <2>5, <2>6, <2>7 DEF SpanIs
<1>14. n <= Cardinality(Ancestry(history, head)) /\ Cardinality(Ancestry(history, head)) \in Nat
  <2>1. IsFiniteSet(Ancestry(history, head)) /\ Cardinality(Ancestry(history, head)) \in Nat
    BY <1>0, AncestryIsFinite
  <2>2. P \subseteq Ancestry(history, head)
    BY <1>0, BetweenIsFinite
  <2>3. Cardinality(P) = n
    <3> HIDE DEF P
    <3> QED
      BY <1>8, ListLength
  <2>4. Cardinality(P) <= Cardinality(Ancestry(history, head))
    <3> HIDE DEF P
    <3> QED
      BY <2>1, <2>2, FS_Subset
  <2> QED
    BY <2>1, <2>3, <2>4
<1>15. ASSUME NEW k \in 1..Len(links)
       PROVE  links[k].count > 0 /\ links[k].count <= n
  <2>1. k \in 1..Len(order) /\ Len(order) \in Nat /\ order[k] \in 1..n /\ n \in Nat
        /\ links[k].count = order[k] - Lower(order, k)
    BY <1>9 DEF Marks
  <2>2. Lower(order, k) \in Nat /\ Lower(order, k) < order[k]
    <3>1. CASE k = Len(order)
      BY <3>1, <2>1 DEF Lower
    <3>2. CASE k # Len(order)
      <4>1. k + 1 \in 1..Len(order) /\ k < k + 1
        BY <3>2, <2>1
      <4>2. order[k + 1] \in 1..n /\ order[k + 1] < order[k]
        BY <4>1, <2>1, <1>9 DEF Marks
      <4>3. Lower(order, k) = order[k + 1]
        BY <3>2 DEF Lower
      <4> QED
        BY <4>2, <4>3, <2>1
    <3> QED
      BY <3>1, <3>2
  <2> QED
    BY <2>1, <2>2
<1>16. \A k \in 1..Len(links) : links[k].count > 0 /\ links[k].count <= Cardinality(Ancestry(history, head))
  <2> SUFFICES ASSUME NEW k \in 1..Len(links)
               PROVE  links[k].count > 0 /\ links[k].count <= Cardinality(Ancestry(history, head))
    OBVIOUS
  <2>1. links[k].count > 0 /\ links[k].count <= n
    BY <1>15
  <2>2. links[k].count \in Nat /\ n \in Nat
    <3>1. links[k] \in PathLinks
      BY <1>12
    <3> QED
      BY <3>1, <1>9 DEF Marks, PathLinks
  <2> QED
    BY <2>1, <2>2, <1>14
<1>17. ExactLane(history, points, rewritten, base, head, links)
  BY <1>10, <1>11, <1>12, <1>13, <1>16 DEF ExactLane
<1> QED
  BY <1>17 DEF links, kept

\* A lane from the summary of its head is exact (construction.rs:267).
LEMMA SummaryLane ==
  ASSUME NEW h, IsHistory(h), NEW head \in DOMAIN h, NEW pts, head \in pts,
         NEW state, IsLinked(h, pts, head, state), state.base # head
  PROVE  ExactLane(h, pts, {}, state.base, head,
                   Entries(state.links, {i \in DOMAIN state.links : state.links[i].id \in pts}))
<1> DEFINE links == state.links
           base == state.base
<1>1. /\ links \in Seq(PathLinks) /\ Len(links) \in Nat
      /\ \A i \in 1..Len(links) : links[i].id \in pts \cap Between(h, base, head)
      /\ \A i \in 1..Len(links) : links[i].count = Cardinality(Between(h, Previous(state, i), links[i].id))
      /\ \A x \in pts \cap Between(h, base, head) : \E i \in 1..Len(links) : links[i].id = x
      /\ state.gap = Cardinality(Between(h, Previous(state, 0), head))
      /\ Len(links) > 0 /\ links[1].id = head
      /\ Total(links) + state.gap = Cardinality(Between(h, base, head))
  BY DEF IsLinked, Paths
<1>2. {i \in DOMAIN links : links[i].id \in pts} = DOMAIN links
  <2>1. DOMAIN links = 1..Len(links)
    BY <1>1
  <2> QED
    BY <1>1, <2>1
<1>3. Entries(links, {i \in DOMAIN links : links[i].id \in pts}) = links
  <2>1. Entries(links, DOMAIN links) = links
    BY <1>1, EntriesOfAll
  <2> QED
    BY <1>2, <2>1
<1> HIDE DEF links, base
<1>4. state.gap = 0
  <2>1. Previous(state, 0) = head
    BY <1>1 DEF Previous, links
  <2>2. Between(h, head, head) = {}
    BY BetweenSelf
  <2>3. Cardinality(Between(h, head, head)) = 0
    BY <2>2, FS_EmptySet
  <2> QED
    BY <1>1, <2>1, <2>3
<1>5. Total(links) \in Int
  <2>1. [id |-> 0, count |-> 0] \in PathLinks
    BY DEF PathLinks
  <2> QED
    BY <2>1, <1>1, TotalOfMore
<1>6. \A S : S \ {} = S
  OBVIOUS
<1>7. \A i : Before(base, links, i) = Previous(state, i)
  BY DEF Before, Previous, base, links
<1>8. Total(links) = Cardinality(Between(h, base, head))
  BY <1>1, <1>4, <1>5
<1>a. \A i \in 1..Len(links) : links[i].count > 0 /\ links[i].count <= Cardinality(Ancestry(h, head))
  <2> SUFFICES ASSUME NEW i \in 1..Len(links)
               PROVE  links[i].count > 0 /\ links[i].count <= Cardinality(Ancestry(h, head))
    OBVIOUS
  <2> DEFINE id == links[i].id
  <2>1. links[i].count > 0
    BY DEF IsLinked, links
  <2>2. id \in Ancestry(h, head)
    BY <1>1 DEF Between
  <2>3. links[i].count = Cardinality(Between(h, Previous(state, i), id))
    BY <1>1
  <2> HIDE DEF id
  <2>4. id \in DOMAIN h /\ Ancestry(h, id) \subseteq Ancestry(h, head)
    BY <2>2, AncestryBounded, AncestryTransitive
  <2>5. Between(h, Previous(state, i), id) \subseteq Ancestry(h, head)
    BY <2>4, BetweenIsFinite
  <2>6. IsFiniteSet(Ancestry(h, head))
    BY AncestryIsFinite
  <2>7. Cardinality(Between(h, Previous(state, i), id)) <= Cardinality(Ancestry(h, head))
    BY <2>5, <2>6, FS_Subset
  <2> QED
    BY <2>1, <2>3, <2>7
<1>9. ExactLane(h, pts, {}, base, head, links)
  BY <1>1, <1>6, <1>7, <1>8, <1>a DEF ExactLane
<1> QED
  BY <1>3, <1>9 DEF links, base

\* Lanes that are exact one by one are what LanesAreExact asks for.
LEMMA ExactLanes ==
  ASSUME \A lane \in lanes : ExactLane(history, points, rewritten, lane.base, lane.head, lane.links)
  PROVE  LanesAreExact
<1> SUFFICES ASSUME NEW lane \in lanes
             PROVE  LET between(b, c) == Between(history, b, c) \ rewritten
                        path    == between(lane.base, lane.head)
                        links   == lane.links
                        before  == [i \in DOMAIN links |->
                                      IF i = Len(links) THEN lane.base ELSE links[i + 1].id]
                    IN  /\ {links[i].id : i \in DOMAIN links} = points \cap path
                        /\ links[1].id = lane.head
                        /\ FoldSeq(LAMBDA link, sum : sum + link.count, 0, links) = Cardinality(path)
                        /\ (\A c \in Between(history, lane.base, lane.head) :
                                Cardinality(history[c]) <= 1) =>
                            \A i \in DOMAIN links :
                                links[i].count = Cardinality(between(before[i], links[i].id))
  BY DEF LanesAreExact
<1> DEFINE links == lane.links
           base == lane.base
           path == Between(history, base, lane.head) \ rewritten
           before == [i \in DOMAIN links |-> IF i = Len(links) THEN base ELSE links[i + 1].id]
<1>1. ExactLane(history, points, rewritten, base, lane.head, links)
  OBVIOUS
<1> HIDE DEF links, base
<1>2. links \in Seq(PathLinks) /\ DOMAIN links = 1..Len(links) /\ links[1].id = lane.head
  BY <1>1 DEF ExactLane
<1>3. {links[i].id : i \in DOMAIN links} = points \cap path
  <2>1. /\ \A i \in 1..Len(links) : links[i].id \in points \cap path
        /\ \A x \in points \cap path : \E i \in 1..Len(links) : links[i].id = x
    BY <1>1 DEF ExactLane
  <2> HIDE DEF path
  <2> QED
    BY <1>2, <2>1
<1>4. FoldSeq(LAMBDA link, sum : sum + link.count, 0, links) = Cardinality(path)
  <2>1. FoldSeq(LAMBDA link, sum : sum + link.count, 0, links)
            = SumOver([i \in DOMAIN links |-> links[i].count], DOMAIN links)
    BY <1>2, FoldIsSum
  <2>2. Total(links) = Cardinality(path)
    BY <1>1 DEF ExactLane
  <2> QED
    BY <2>1, <2>2 DEF Total, Counts
<1>5. ASSUME \A c \in Between(history, base, lane.head) : Cardinality(history[c]) <= 1,
             NEW i \in DOMAIN links
      PROVE  links[i].count = Cardinality(Between(history, before[i], links[i].id) \ rewritten)
  <2>1. Unbranched(history, base, lane.head)
    BY <1>5 DEF Unbranched
  <2>2. links[i].count = Cardinality(Between(history, Before(base, links, i), links[i].id) \ rewritten)
    BY <1>1, <1>2, <1>5, <2>1 DEF ExactLane
  <2>3. before[i] = Before(base, links, i)
    BY <1>5 DEF Before
  <2> QED
    BY <2>2, <2>3
<1> QED
  BY <1>2, <1>3, <1>4, <1>5 DEF links, base

----------------------------------------------------------------------------
(* The answers.                                                            *)

\* The steps before lanes are built.
Early == {"main", "filter", "retain", "forks", "heads", "prepare"}

\* The repository, which no step changes.
RepositoryOK ==
    /\ IsHistory(history) /\ DOMAIN history = 1..CommitCount
    /\ refs.local \in Commits /\ refs.upstream \in MaybeCommit /\ refs.topics \subseteq Commits

\* Main is resolved once, to local main or its upstream.
MainOK ==
    /\ pc = "main" => main = NoCommit
    /\ pc # "main" => main \in Commits /\ main \in {refs.local, refs.upstream}

\* What is kept of the range above main is true of the repository.
SelectionOK ==
    /\ pc = "main" => selection = NoSelection
    /\ pc # "main" => SelectionIs(selection, history, main)

\* Points are commits that main does not reach, once they have been filtered.
PointsOK ==
    /\ points \subseteq Commits /\ marked \subseteq points
    /\ pc \in {"main", "filter"} => points = {}
    /\ pc \in {"main", "filter", "retain", "forks"} => marked = {}
    /\ pc \notin {"main", "filter", "retain"} => points \cap Ancestry(history, main) = {}

\* The unmerged main refs, marked as main history in the end.
EndsOK ==
    /\ ends \subseteq MainRefs
    /\ pc \in {"main", "filter", "retain"} => ends = {}
    /\ pc # "main" => ends \cap Ancestry(history, main) = {}
    /\ pc \notin {"main", "filter", "retain", "forks"} => ends \subseteq marked

\* Heads are the maximal points.
HeadsOK ==
    /\ pc \in Early \ {"prepare"} => heads = {}
    /\ pc \notin Early \ {"prepare"} => heads = Maximal(history, points)
    /\ left \subseteq heads

\* What is prepared summarises the walk of some tips.
IsSummary(s, h, m, pts) ==
    \E tips \in SUBSET DOMAIN h :
        /\ IsLinear(Walk(h, tips, {m}))
        /\ s = LinearPaths(Walk(h, tips, {m}), pts)

\* Summaries exist only after the preparation, of all points.
SummariesOK ==
    /\ pc \in Early => summaries = NoSummaries
    /\ pc \notin Early => summaries = NoSummaries \/ IsSummary(summaries, history, main, points)

\* A lane belongs to a head that waits no longer and starts at a merge base.
LanesOK ==
    /\ pc \in Early => lanes = {}
    /\ \A lane \in lanes : lane.head \in heads \ left
    /\ BasesAreBest

\* A group has the distance of its base.
GroupsOK ==
    /\ pc \notin {"endpoints", "done"} => groups = {}
    /\ \A g \in groups : g.base \in MaybeCommit /\ g.distance = DistanceOf(history, main, g.base)

\* The invariant of the answers.
Inv ==
    /\ RepositoryOK /\ MainOK /\ SelectionOK /\ PointsOK /\ EndsOK /\ ForksAreMarked
    /\ HeadsOK /\ SummariesOK /\ LanesOK /\ GroupsOK

USE DEF Early

\* Before the analysis nothing has been answered.
LEMMA InitInv == Init => Inv
<1> SUFFICES ASSUME Init PROVE Inv
  OBVIOUS
<1>1. IsHistory(history) /\ DOMAIN history = 1..CommitCount
  BY CommitCountAssumption, HistoriesAreHistories DEF Init
<1>2. RepositoryOK
  BY <1>1 DEF Init, RepositoryOK, Commits, MaybeCommit
<1>3. pc = "main" /\ main = NoCommit /\ selection = NoSelection /\ summaries = NoSummaries
      /\ points = {} /\ marked = {} /\ ends = {} /\ heads = {} /\ left = {} /\ lanes = {} /\ groups = {}
  BY DEF Init
<1> QED
  BY <1>2, <1>3 DEF Inv, MainOK, SelectionOK, PointsOK, EndsOK, ForksAreMarked, HeadsOK,
     SummariesOK, LanesOK, BasesAreBest, GroupsOK

\* The repository stays as it is.
Fixed == UNCHANGED <<history, refs>>

\* No step changes the repository.
LEMMA RepositoryKept ==
  ASSUME RepositoryOK, Fixed
  PROVE  RepositoryOK'
BY DEF RepositoryOK, Fixed, Commits, MaybeCommit

\* No step changes the history or the refs.
LEMMA NextIsFixed == Next => Fixed
BY DEF Next, FallBack, ResolveMain, FilterBranches, SelectBranches, RetainPoints, AddForks,
   FindHeads, Prepare, DetectRewrites, BuildLane, BuildGroups, AddEndpoints, UnmergedTips,
   PrepareAncestry, Fixed, backendVars, laneVars

\* FallBack: only the selection changes.
LEMMA FallBackKeeps ==
  ASSUME Inv, FallBack
  PROVE  Inv'
<1>1. UNCHANGED <<backendVars, pc, laneVars>>
  BY DEF FallBack
<1> QED
  BY <1>1 DEF backendVars, laneVars, Inv, RepositoryOK, MainOK, SelectionOK, PointsOK, EndsOK,
     ForksAreMarked, HeadsOK, SummariesOK, LanesOK, BasesAreBest, GroupsOK, Commits, MaybeCommit, MainRefs

\* ResolveMain: main is local main or its upstream.
LEMMA ResolveMainKeeps ==
  ASSUME Inv, ResolveMain
  PROVE  Inv'
<1>1. /\ pc = "main" /\ pc' = "filter"
      /\ UNCHANGED <<history, selection, summaries, refs, points, marked, ends, heads, left, lanes, groups>>
  BY DEF ResolveMain, backendVars
<1>2. RepositoryOK'
  BY <1>1, RepositoryKept DEF Inv, Fixed
<1>3. MainOK'
  <2>1. refs.local \in Commits /\ refs.upstream \in MaybeCommit
    BY DEF Inv, RepositoryOK
  <2>2. CASE refs.upstream \in {NoCommit, refs.local}
    BY <1>1, <2>1, <2>2 DEF ResolveMain, MainOK, Commits
  <2>3. CASE refs.upstream \notin {NoCommit, refs.local}
    <3>1. main' \in {refs.local, refs.upstream}
      BY <2>3 DEF ResolveMain
    <3> QED
      BY <1>1, <2>1, <2>3, <3>1 DEF MainOK, Commits, MaybeCommit
  <2> QED
    BY <2>2, <2>3
<1>4. SelectionOK'
  BY <1>1 DEF Inv, SelectionOK, SelectionIs
<1>5. points = {} /\ marked = {} /\ ends = {} /\ heads = {} /\ left = {}
      /\ summaries = NoSummaries /\ lanes = {} /\ groups = {}
  BY <1>1 DEF Inv, PointsOK, EndsOK, HeadsOK, SummariesOK, LanesOK, GroupsOK
<1> QED
  BY <1>1, <1>2, <1>3, <1>4, <1>5 DEF Inv, PointsOK, EndsOK, ForksAreMarked, HeadsOK, SummariesOK,
     LanesOK, BasesAreBest, GroupsOK

\* What the selection of points leaves as it was.
Unprepared ==
    /\ UNCHANGED <<history, refs, main, heads, left, lanes, groups>>
    /\ pc \in Early \ {"main", "heads", "prepare"} /\ pc' \in Early \ {"main", "prepare"}

\* Selecting points touches no head, lane or group.
LEMMA UnpreparedKept ==
  ASSUME Inv, Unprepared, summaries' = NoSummaries
  PROVE  RepositoryOK' /\ MainOK' /\ HeadsOK' /\ SummariesOK' /\ LanesOK' /\ GroupsOK'
<1>1. RepositoryOK'
  BY RepositoryKept DEF Inv, Unprepared, Fixed
<1>2. heads = {} /\ left = {} /\ lanes = {} /\ groups = {}
  BY DEF Inv, Unprepared, HeadsOK, LanesOK, GroupsOK
<1> QED
  BY <1>1, <1>2 DEF Inv, Unprepared, MainOK, HeadsOK, SummariesOK, LanesOK, BasesAreBest, GroupsOK, Commits

\* A query for unmerged tips keeps what is remembered true.
LEMMA QueryKeeps ==
  ASSUME Inv, Unprepared, NEW tips \in SUBSET Commits, UnmergedTips(main, tips)
  PROVE  SelectionOK' /\ summaries' = NoSummaries
<1>1. main \in Commits /\ IsHistory(history) /\ SelectionIs(selection, history, main) /\ summaries = NoSummaries
  BY DEF Inv, RepositoryOK, MainOK, SelectionOK, SummariesOK, Unprepared
<1>2. SelectionIs(selection', history, main) /\ summaries' = NoSummaries
  BY <1>1, UnmergedTipsKeep
<1> QED
  BY <1>2 DEF SelectionOK, Unprepared

\* FilterBranches: the points are the branches main does not contain.
LEMMA FilterBranchesKeeps ==
  ASSUME Inv, FilterBranches
  PROVE  Inv'
<1> DEFINE tips == refs.topics \cup {refs.local}
<1>1. /\ pc = "filter" /\ pc' = IF MainRefs = {} THEN "heads" ELSE "retain"
      /\ points' = refs.topics \cap Unmerged(main, tips)
      /\ UnmergedTips(main, tips)
      /\ UNCHANGED <<refs, main, marked, ends, heads, left, lanes, groups>>
  BY DEF FilterBranches
<1>2. Unprepared
  BY <1>1 DEF Unprepared, UnmergedTips
<1>3. tips \in SUBSET Commits /\ main \in Commits /\ IsHistory(history)
  BY <1>1 DEF Inv, RepositoryOK, MainOK
<1>4. SelectionOK' /\ summaries' = NoSummaries
  <2> HIDE DEF tips
  <2> QED BY <1>1, <1>2, <1>3, QueryKeeps
<1>5. points' = refs.topics \ Ancestry(history, main)
  <2>1. Unmerged(main, tips) = tips \ Ancestry(history, main)
    <3> HIDE DEF tips
    <3> QED BY <1>3, UnmergedIs
  <2> QED
    BY <2>1, <1>1
<1>6. marked = {} /\ ends = {}
  BY <1>1 DEF Inv, PointsOK, EndsOK
<1>7. PointsOK' /\ EndsOK' /\ ForksAreMarked'
  BY <1>1, <1>2, <1>3, <1>5, <1>6 DEF PointsOK, EndsOK, ForksAreMarked, Unprepared, Commits
<1> QED
  BY <1>2, <1>4, <1>7, UnpreparedKept DEF Inv

\* SelectBranches: the points are commits.
LEMMA SelectBranchesKeeps ==
  ASSUME Inv, SelectBranches
  PROVE  Inv'
<1>1. /\ pc = "filter" /\ pc' = IF MainRefs = {} THEN "heads" ELSE "retain"
      /\ points' = refs.topics \ Ancestry(history, refs.local)
      /\ UNCHANGED <<history, selection, summaries, refs, main, marked, ends, heads, left, lanes, groups>>
  BY DEF SelectBranches, backendVars
<1>2. Unprepared
  BY <1>1 DEF Unprepared
<1>3. main \in Commits /\ main \in {refs.local, refs.upstream} /\ refs.topics \subseteq Commits
  BY <1>1 DEF Inv, RepositoryOK, MainOK
<1>4. summaries' = NoSummaries /\ marked = {} /\ ends = {}
  BY <1>1 DEF Inv, SummariesOK, PointsOK, EndsOK
<1>5. SelectionOK'
  BY <1>1 DEF Inv, SelectionOK
<1>6. MainRefs = {} => main = refs.local
  <2>1. NoCommit \notin Commits
    BY DEF Inv, RepositoryOK, IsHistory, Commits, NoCommit
  <2> QED
    BY <1>3, <2>1 DEF MainRefs
<1>7. PointsOK'
  BY <1>1, <1>3, <1>4, <1>6 DEF PointsOK, Commits
<1>8. EndsOK' /\ ForksAreMarked'
  BY <1>1, <1>4 DEF EndsOK, ForksAreMarked
<1> QED
  BY <1>2, <1>4, <1>5, <1>7, <1>8, UnpreparedKept DEF Inv

\* Main refs are commits.
LEMMA MainRefsAreCommits ==
  ASSUME RepositoryOK
  PROVE  MainRefs \subseteq Commits
BY DEF RepositoryOK, MainRefs, MaybeCommit

\* RetainPoints: from here on main reaches no point and no end.
LEMMA RetainPointsKeeps ==
  ASSUME Inv, RetainPoints
  PROVE  Inv'
<1> DEFINE tips == points \cup MainRefs
           unmerged == Unmerged(main, tips)
<1>1. /\ pc = "retain" /\ pc' = "forks"
      /\ points' = points \cap unmerged /\ ends' = MainRefs \cap unmerged
      /\ UnmergedTips(main, tips)
      /\ UNCHANGED <<refs, main, marked, heads, left, lanes, groups>>
  BY DEF RetainPoints
<1>2. Unprepared
  BY <1>1 DEF Unprepared, UnmergedTips
<1>3. tips \in SUBSET Commits /\ main \in Commits /\ IsHistory(history)
  BY <1>1, MainRefsAreCommits DEF Inv, RepositoryOK, MainOK, PointsOK
<1>4. SelectionOK' /\ summaries' = NoSummaries
  <2> HIDE DEF tips
  <2> QED BY <1>1, <1>2, <1>3, QueryKeeps
<1>5. unmerged = tips \ Ancestry(history, main)
  <2> HIDE DEF tips
  <2> QED BY <1>3, UnmergedIs
<1>6. marked = {}
  BY <1>1 DEF Inv, PointsOK
<1> HIDE DEF unmerged
<1>7. PointsOK' /\ EndsOK' /\ ForksAreMarked'
  BY <1>1, <1>2, <1>3, <1>5, <1>6 DEF PointsOK, EndsOK, ForksAreMarked, Unprepared, Commits, MainRefs
<1> QED
  BY <1>2, <1>4, <1>7, UnpreparedKept DEF Inv

\* AddForks: where a point leaves an end there is a marked point.
LEMMA AddForksKeeps ==
  ASSUME Inv, AddForks
  PROVE  Inv'
<1>1. /\ pc = "forks" /\ pc' = "heads"
      /\ UNCHANGED <<refs, main, ends, heads, left, lanes, groups>>
  BY DEF AddForks
<1>2. PICK base \in [ends \X points -> MaybeCommit] :
        /\ \A pair \in ends \X points : base[pair] \in MergeBase(pair[1], pair[2])
        /\ LET bases == {base[pair] : pair \in ends \X points} \ {NoCommit}
               forks == Unmerged(main, bases)
           IN  /\ UnmergedTips(main, bases)
               /\ points' = points \cup forks \cup ends
               /\ marked' = forks \cup ends
  BY DEF AddForks
<1> DEFINE bases == {base[pair] : pair \in ends \X points} \ {NoCommit}
           forks == Unmerged(main, bases)
<1>3. /\ UnmergedTips(main, bases)
      /\ points' = points \cup forks \cup ends /\ marked' = forks \cup ends
  BY <1>2
<1>4. bases \in SUBSET Commits
  BY DEF MaybeCommit
<1>5. /\ main \in Commits /\ IsHistory(history) /\ ends \subseteq Commits /\ points \subseteq Commits
      /\ SelectionIs(selection, history, main)
  BY <1>1, MainRefsAreCommits DEF Inv, RepositoryOK, MainOK, EndsOK, PointsOK, SelectionOK
<1>6. forks = bases \ Ancestry(history, main)
  <2> HIDE DEF bases
  <2> QED BY <1>4, <1>5, UnmergedIs
<1>7. Unprepared
  <2> HIDE DEF bases
  <2> QED BY <1>1, <1>3 DEF Unprepared, UnmergedTips
<1>8. SelectionOK' /\ summaries' = NoSummaries
  <2> HIDE DEF bases
  <2> QED BY <1>3, <1>4, <1>7, QueryKeeps
<1>9. history' = history
  BY <1>7 DEF Unprepared
<1>10. PointsOK' /\ EndsOK'
  <2>1. points \cap Ancestry(history, main) = {} /\ ends \cap Ancestry(history, main) = {} /\ ends \subseteq MainRefs
    BY <1>1 DEF Inv, PointsOK, EndsOK
  <2> HIDE DEF forks, bases
  <2> QED
    BY <1>1, <1>3, <1>4, <1>5, <1>6, <1>9, <2>1 DEF PointsOK, EndsOK, Commits, MainRefs
<1>11. \A r, q \in ends : r = q
  <2>1. main \in Ancestry(history, main)
    BY <1>5, AncestryReflexive DEF Commits
  <2>2. main \notin ends /\ ends \subseteq MainRefs /\ main \in {refs.local, refs.upstream}
    BY <2>1, <1>1 DEF Inv, EndsOK, MainOK
  <2> QED
    BY <2>2 DEF MainRefs
<1>12. ASSUME NEW r \in ends, NEW t \in points \cup forks \cup ends,
              BestBases(history, r, t) \cap Ancestry(history, main) = {},
              BestBases(history, r, t) # {}
       PROVE  BestBases(history, r, t) \cap (forks \cup ends) # {}
  <2> DEFINE best == BestBases(history, r, t)
  <2>r. r \in Commits /\ r \in Ancestry(history, r)
    BY <1>5, AncestryReflexive DEF Commits
  <2>1. CASE t \in points
    <3>1. base[<<r, t>>] \in MergeBase(r, t)
      <4>1. <<r, t>> \in ends \X points
        BY <2>1
      <4> QED
        BY <4>1, <1>2
    <3>2. base[<<r, t>>] \in MergeBaseAnswers(history, r, t)
      BY <3>1, <2>r, <1>5, MergeBaseIsBest
    <3>3. base[<<r, t>>] \in best
      BY <3>2, <1>12 DEF MergeBaseAnswers
    <3>4. base[<<r, t>>] # NoCommit
      <4>1. base[<<r, t>>] \in Ancestry(history, r)
        BY <3>3 DEF BestBases, Maximal
      <4> QED
        BY <4>1, <2>r, <1>5, AncestryBounded DEF IsHistory, Commits, NoCommit
    <3>5. base[<<r, t>>] \in bases
      BY <2>1, <3>4
    <3> HIDE DEF bases, forks
    <3> QED
      BY <3>3, <3>5, <1>6, <1>12
  <2>2. CASE t \in forks
    <3>1. t \in bases
      BY <1>6, <2>2
    <3>2. PICK pair \in ends \X points : t = base[pair] /\ t # NoCommit
      BY <3>1
    <3>3. pair[1] = r
      BY <1>11
    <3>4. t \in MergeBaseAnswers(history, r, pair[2])
      BY <1>2, <3>2, <3>3, <2>r, <1>5, MergeBaseIsBest
    <3>5. t \in Ancestry(history, r)
      BY <3>2, <3>4 DEF MergeBaseAnswers, BestBases, Maximal
    <3>6. t \in DOMAIN history /\ Ancestry(history, r) \cap Ancestry(history, t) = Ancestry(history, t)
      BY <3>5, <2>r, <1>5, AncestryBounded, AncestryTransitive DEF Commits
    <3>7. best = {t}
      BY <3>6, <1>5, BestOfOneExit
    <3> QED
      BY <3>7, <2>2
  <2>3. CASE t \in ends
    <3>1. t = r
      BY <2>3, <1>11
    <3>2. best = {r}
      BY <3>1, <2>r, <1>5, BestOfOneExit DEF Commits
    <3> QED
      BY <3>2
  <2> QED
    BY <2>1, <2>2, <2>3
<1>13. ForksAreMarked'
  <2> HIDE DEF forks, bases
  <2> QED BY <1>1, <1>3, <1>9, <1>12 DEF ForksAreMarked
<1> QED
  BY <1>7, <1>8, <1>10, <1>13, UnpreparedKept DEF Inv

\* FindHeads: the heads are the maximal points.
LEMMA FindHeadsKeeps ==
  ASSUME Inv, FindHeads
  PROVE  Inv'
<1>1. /\ pc = "heads" /\ pc' = IF points = {} THEN "group" ELSE "prepare"
      /\ left' = heads'
      /\ heads' = CASE points = {}             -> {}
                   [] ~plain /\ MainRefs = {} -> Maximal(history, points)
                   [] OTHER                   -> Independent(main, points)
      /\ UNCHANGED <<history, selection, summaries, refs, main, points, marked, ends, lanes, groups>>
  BY DEF FindHeads, backendVars
<1>2. heads' = Maximal(history, points)
  <2>1. Independent(main, points) = Maximal(history, points)
    <3>1. /\ main \in Commits /\ IsHistory(history) /\ points \in SUBSET Commits
          /\ points \cap Ancestry(history, main) = {} /\ SelectionIs(selection, history, main)
      BY <1>1 DEF Inv, RepositoryOK, MainOK, PointsOK, SelectionOK
    <3> QED
      BY <3>1, IndependentIs
  <2>2. points = {} => Maximal(history, points) = {}
    BY DEF Maximal
  <2> QED
    BY <2>1, <2>2, <1>1
<1>3. RepositoryOK'
  BY <1>1, RepositoryKept DEF Inv, Fixed
<1>4. MainOK' /\ SelectionOK' /\ SummariesOK'
  BY <1>1 DEF Inv, MainOK, SelectionOK, SummariesOK, Commits
<1>5. PointsOK' /\ EndsOK' /\ ForksAreMarked'
  BY <1>1 DEF Inv, PointsOK, EndsOK, ForksAreMarked, Commits, MainRefs
<1>6. HeadsOK'
  BY <1>1, <1>2 DEF HeadsOK
<1>7. LanesOK' /\ GroupsOK'
  <2>1. lanes = {} /\ groups = {}
    BY <1>1 DEF Inv, LanesOK, GroupsOK
  <2> QED
    BY <1>1, <2>1 DEF LanesOK, GroupsOK, BasesAreBest
<1> QED
  BY <1>3, <1>4, <1>5, <1>6, <1>7 DEF Inv

\* What the construction of lanes leaves as it was.
Selected ==
    /\ UNCHANGED <<history, selection, refs, main, points, marked, ends, heads>>
    /\ pc \notin Early \ {"prepare"} /\ pc' \notin Early

\* Building lanes touches no point and no head.
LEMMA SelectedKept ==
  ASSUME Inv, Selected
  PROVE  RepositoryOK' /\ MainOK' /\ SelectionOK' /\ PointsOK' /\ EndsOK' /\ ForksAreMarked'
<1>1. RepositoryOK'
  BY RepositoryKept DEF Inv, Selected, Fixed
<1>2. MainOK' /\ SelectionOK'
  BY DEF Inv, Selected, MainOK, SelectionOK, Commits
<1>3. PointsOK' /\ EndsOK' /\ ForksAreMarked'
  BY DEF Inv, Selected, PointsOK, EndsOK, ForksAreMarked, Commits, MainRefs
<1> QED
  BY <1>1, <1>2, <1>3

\* Prepare: what is summarised is a walk above main.
LEMMA PrepareKeeps ==
  ASSUME Inv, Prepare
  PROVE  Inv'
<1>1. /\ pc = "prepare" /\ pc' = "lanes" /\ PrepareAncestry(main, points)
      /\ UNCHANGED <<refs, main, points, marked, ends, heads, left, lanes, groups>>
  BY DEF Prepare, laneVars
<1>2. Selected
  BY <1>1 DEF Selected, PrepareAncestry
<1>3. main \in Commits /\ main # NoCommit /\ SelectionIs(selection, history, main)
  BY <1>1 DEF Inv, RepositoryOK, MainOK, SelectionOK, IsHistory, Commits, NoCommit
<1>4. summaries' = NoSummaries \/ IsSummary(summaries', history, main, points)
  <2> SUFFICES ASSUME selection.main = main, selection.retained, IsLinear(selection.nodes),
                      summaries' = LinearPaths(selection.nodes, points)
               PROVE  IsSummary(summaries', history, main, points)
    BY <1>1 DEF PrepareAncestry
  <2>1. selection # NoSelection
    BY <1>3 DEF NoSelection
  <2>2. PICK tips \in SUBSET DOMAIN history : IsAnalysis(selection, history, main, tips)
    BY <2>1, <1>3 DEF SelectionIs
  <2>3. selection.nodes = Walk(history, tips, {main})
    BY <2>2 DEF IsAnalysis
  <2> QED
    BY <2>3 DEF IsSummary
<1>5. SummariesOK'
  BY <1>1, <1>2, <1>4 DEF SummariesOK, Selected
<1>6. HeadsOK'
  BY <1>1, <1>2 DEF Inv, HeadsOK, Selected
<1>7. LanesOK' /\ GroupsOK'
  <2>1. lanes = {} /\ groups = {}
    BY <1>1 DEF Inv, LanesOK, GroupsOK
  <2> QED
    BY <1>1, <2>1 DEF LanesOK, GroupsOK, BasesAreBest
<1> QED
  BY <1>2, <1>5, <1>6, <1>7, SelectedKept DEF Inv

\* DetectRewrites: rewritten commits disturb nothing selected.
LEMMA DetectRewritesKeeps ==
  ASSUME Inv, DetectRewrites
  PROVE  Inv'
<1>1. /\ pc = "prepare" /\ pc' = "lanes"
      /\ UNCHANGED <<history, selection, summaries, refs, main, points, marked, ends, heads, left, lanes, groups>>
  BY DEF DetectRewrites, backendVars
<1>2. Selected
  BY <1>1 DEF Selected
<1>3. SummariesOK' /\ HeadsOK'
  BY <1>1 DEF Inv, SummariesOK, HeadsOK
<1>4. LanesOK' /\ GroupsOK'
  <2>1. lanes = {} /\ groups = {}
    BY <1>1 DEF Inv, LanesOK, GroupsOK
  <2> QED
    BY <1>1, <2>1 DEF LanesOK, GroupsOK, BasesAreBest
<1> QED
  BY <1>2, <1>3, <1>4, SelectedKept DEF Inv

\* The base in the summary of a commit is its merge base with main.
LEMMA SummaryHasBest ==
  ASSUME NEW h, IsHistory(h), NEW m \in DOMAIN h, NEW pts, NEW s,
         IsSummary(s, h, m, pts), NEW c \in DOMAIN s
  PROVE  s[c].base \in MergeBaseAnswers(h, m, c)
<1>1. PICK tips \in SUBSET DOMAIN h :
        IsLinear(Walk(h, tips, {m})) /\ s = LinearPaths(Walk(h, tips, {m}), pts)
  BY DEF IsSummary
<1> DEFINE nodes == Walk(h, tips, {m})
<1>2. IsAbove(h, nodes, tips, m) /\ IsLinear(nodes) /\ s = LinearPaths(nodes, pts)
  BY <1>1, WalkIsAbove
<1> HIDE DEF nodes
<1>3. IsRange(nodes)
  BY <1>2 DEF IsAbove
<1>4. c \in DOMAIN nodes
  BY <1>2, <1>3, LinearUnfolds
<1>5. SharesFrom(h, m, c, s[c].base)
  BY <1>2, <1>4, LinearBase
<1> QED
  BY <1>5, SharedIsBest

\* BuildLane: the lane of a head starts at its merge base.
LEMMA BuildLaneKeeps ==
  ASSUME Inv, BuildLane
  PROVE  Inv'
<1>1. PICK head \in left :
        /\ left' = left \ {head}
        /\ \/ /\ plain
              /\ HasSummary(main, head)
              /\ \E links : AddLane(head, summaries[head].base, links)
           \/ /\ ~(plain /\ HasSummary(main, head))
              /\ \E base \in MergeBase(main, head) :
                    \E links : AddLane(head, base, links)
  BY DEF BuildLane
<1>2. /\ pc = "lanes" /\ pc' \in {"lanes", "group"}
      /\ UNCHANGED <<history, selection, summaries, refs, main, points, marked, ends, heads, groups>>
  BY DEF BuildLane, backendVars
<1>3. Selected
  BY <1>2 DEF Selected
<1>4. SummariesOK' /\ HeadsOK'
  BY <1>1, <1>2 DEF Inv, SummariesOK, HeadsOK
<1>5. main \in Commits /\ IsHistory(history) /\ SelectionIs(selection, history, main)
  BY <1>2 DEF Inv, RepositoryOK, MainOK, SelectionOK
<1>6. \E base \in MergeBaseAnswers(history, main, head) : \E links : AddLane(head, base, links)
  <2>1. CASE HasSummary(main, head) /\ \E links : AddLane(head, summaries[head].base, links)
    <3>1. head \in DOMAIN summaries
      BY <2>1 DEF HasSummary
    <3>2. summaries # NoSummaries
      BY <3>1 DEF NoSummaries
    <3>3. IsSummary(summaries, history, main, points)
      BY <3>2, <1>2 DEF Inv, SummariesOK
    <3>4. summaries[head].base \in MergeBaseAnswers(history, main, head)
      BY <3>1, <3>3, <1>5, SummaryHasBest DEF Commits
    <3> QED
      BY <2>1, <3>4
  <2>2. CASE \E base \in MergeBase(main, head) :
                \E links : AddLane(head, base, links)
    <3>1. MergeBase(main, head) \subseteq MergeBaseAnswers(history, main, head)
      BY <1>5, MergeBaseIsBest
    <3> QED
      BY <2>2, <3>1
  <2> QED
    BY <2>1, <2>2, <1>1
<1>7. PICK base \in MergeBaseAnswers(history, main, head) : \E links : AddLane(head, base, links)
  BY <1>6
<1>8. \A lane \in lanes' : lane \in lanes \/ (lane.head = head /\ lane.base = base)
  BY <1>7 DEF AddLane
<1>9. LanesOK'
  <2>1. head \in heads /\ head \in left
    BY <1>1 DEF Inv, HeadsOK
  <2>2. \A lane \in lanes : lane.head \in heads \ left /\ lane.base \in MergeBaseAnswers(history, main, lane.head)
    BY DEF Inv, LanesOK, BasesAreBest
  <2> QED
    BY <1>1, <1>2, <1>8, <2>1, <2>2 DEF LanesOK, BasesAreBest
<1>10. GroupsOK'
  BY <1>2 DEF Inv, GroupsOK
<1> QED
  BY <1>3, <1>4, <1>9, <1>10, SelectedKept DEF Inv

\* A merge base is a commit or none.
LEMMA BasesAreCommits ==
  ASSUME IsHistory(history), NEW m \in Commits, NEW c, NEW b \in MergeBaseAnswers(history, m, c)
  PROVE  b \in MaybeCommit
<1>1. b = NoCommit \/ b \in Ancestry(history, m)
  BY DEF MergeBaseAnswers, BestBases, Maximal
<1> QED
  BY <1>1, AncestryBounded DEF MaybeCommit, Commits

\* BuildGroups: every base has its distance.
LEMMA BuildGroupsKeeps ==
  ASSUME Inv, BuildGroups
  PROVE  Inv'
<1> DEFINE bases == {lane.base : lane \in lanes}
<1>1. /\ pc = "group" /\ pc' = "endpoints"
      /\ UNCHANGED <<history, selection, summaries, refs, main, points, marked, ends, heads, left, lanes>>
  BY DEF BuildGroups, backendVars
<1>2. PICK distance \in Distances(main, bases \ {NoCommit}) :
         groups' = {[base |-> b, distance |-> IF b = NoCommit THEN NoDistance ELSE distance[b]] : b \in bases}
  BY DEF BuildGroups
<1>3. Selected
  BY <1>1 DEF Selected
<1>4. main \in Commits /\ IsHistory(history)
  BY <1>1 DEF Inv, RepositoryOK, MainOK
<1>5. bases \subseteq MaybeCommit
  BY <1>4, BasesAreCommits DEF Inv, LanesOK, BasesAreBest
<1> HIDE DEF bases
<1>6. Exact(history, main, bases \ {NoCommit}, distance)
  <2>1. bases \ {NoCommit} \in SUBSET Commits
    BY <1>5 DEF MaybeCommit
  <2> QED
    BY <1>4, <2>1, DistancesExact
<1>7. DistanceOf(history, main, NoCommit) = NoDistance
  <2>1. NoCommit \notin Ancestry(history, main) /\ NoCommit # main
    BY <1>4, AncestryBounded DEF Commits, IsHistory, NoCommit
  <2> QED
    BY <2>1 DEF DistanceOf
<1>8. \A g \in groups' : g.base \in MaybeCommit /\ g.distance = DistanceOf(history, main, g.base)
  BY <1>2, <1>5, <1>6, <1>7 DEF Exact
<1>9. GroupsOK'
  BY <1>1, <1>8 DEF GroupsOK, MaybeCommit, Commits
<1>10. SummariesOK' /\ HeadsOK' /\ LanesOK'
  BY <1>1 DEF Inv, SummariesOK, HeadsOK, LanesOK, BasesAreBest
<1> QED
  BY <1>3, <1>9, <1>10, SelectedKept DEF Inv

\* AddEndpoints: so has every main ref.
LEMMA AddEndpointsKeeps ==
  ASSUME Inv, AddEndpoints
  PROVE  Inv'
<1> DEFINE ids == MainRefs \ {main}
<1>1. /\ pc = "endpoints" /\ pc' = "done"
      /\ UNCHANGED <<history, selection, summaries, refs, main, points, marked, ends, heads, left, lanes>>
  BY DEF AddEndpoints, backendVars
<1>2. PICK distance \in Distances(main, ids) :
         groups' = groups \cup
             {[base |-> id, distance |-> distance[id]] :
                 id \in {id \in ids : /\ distance[id] # NoDistance
                                      /\ \A g \in groups : g.base # id}}
  BY DEF AddEndpoints
<1>3. Selected
  BY <1>1 DEF Selected
<1>4. main \in Commits /\ IsHistory(history) /\ ids \in SUBSET Commits
  BY <1>1, MainRefsAreCommits DEF Inv, RepositoryOK, MainOK
<1> HIDE DEF ids
<1>5. Exact(history, main, ids, distance)
  BY <1>4, DistancesExact
<1>6. ASSUME NEW g \in groups'
      PROVE  g.base \in MaybeCommit /\ g.distance = DistanceOf(history, main, g.base)
  <2>1. CASE g \in groups
    BY <2>1 DEF Inv, GroupsOK
  <2>2. CASE g \notin groups
    <3>1. PICK id \in ids : g = [base |-> id, distance |-> distance[id]]
      BY <1>2, <2>2
    <3> QED
      BY <3>1, <1>4, <1>5 DEF Exact, MaybeCommit
  <2> QED
    BY <2>1, <2>2
<1>7. GroupsOK'
  BY <1>1, <1>6 DEF GroupsOK, MaybeCommit, Commits
<1>8. SummariesOK' /\ HeadsOK' /\ LanesOK'
  BY <1>1 DEF Inv, SummariesOK, HeadsOK, LanesOK, BasesAreBest
<1> QED
  BY <1>3, <1>7, <1>8, SelectedKept DEF Inv

\* Each step keeps the invariant of the answers: what the backend remembers is
\* true of the repository, points and heads are what they are selected to be,
\* and lanes and groups start where they should.
THEOREM InvHolds == Spec => []Inv
<1>1. Init => Inv
  BY InitInv
<1>2. Inv /\ [Next]_vars => Inv'
  <2> SUFFICES ASSUME Inv, [Next]_vars PROVE Inv'
    OBVIOUS
  <2>1. CASE Next
    BY <2>1, FallBackKeeps, ResolveMainKeeps, FilterBranchesKeeps, SelectBranchesKeeps,
       RetainPointsKeeps, AddForksKeeps, FindHeadsKeeps, PrepareKeeps, DetectRewritesKeeps,
       BuildLaneKeeps, BuildGroupsKeeps, AddEndpointsKeeps DEF Next
  <2>2. CASE UNCHANGED vars
    BY <2>2 DEF vars, backendVars, laneVars, Inv, RepositoryOK, MainOK, SelectionOK, PointsOK,
       EndsOK, ForksAreMarked, HeadsOK, SummariesOK, LanesOK, BasesAreBest, GroupsOK, Commits,
       MaybeCommit, MainRefs
  <2> QED
    BY <2>1, <2>2
<1> QED
  BY <1>1, <1>2, PTL DEF Spec

\* A lane starts at a best common ancestor of its head and main, although the
\* native backend may never have searched for it (graph.rs:174, graph.rs:81).
THEOREM BasesTheorem == Spec => []BasesAreBest
<1>1. Inv => BasesAreBest
  BY DEF Inv, LanesOK
<1> QED
  BY <1>1, InvHolds, PTL

\* Where a branch leaves an unmerged main ref there is a marked point
\* (selection.rs:315).
THEOREM ForksTheorem == Spec => []ForksAreMarked
<1>1. Inv => ForksAreMarked
  BY DEF Inv
<1> QED
  BY <1>1, InvHolds, PTL

\* Every point is on the way to a head and no head on the way to another
\* (gix/graph.rs:90, batch.rs:57).
THEOREM HeadsTheorem == Spec => []HeadsSpanPoints
<1>1. Inv => HeadsSpanPoints
  <2> SUFFICES ASSUME Inv, pc \notin {"main", "filter", "retain", "forks", "heads"}
               PROVE  /\ \A p \in points : \E h \in heads : p \in Ancestry(history, h)
                      /\ \A h, g \in heads : h # g => h \notin Ancestry(history, g)
    BY DEF HeadsSpanPoints
  <2>1. IsHistory(history) /\ points \in SUBSET DOMAIN history /\ heads = Maximal(history, points)
    BY DEF Inv, RepositoryOK, PointsOK, HeadsOK, Commits
  <2>2. \A p \in points : \E h \in Maximal(history, points) : p \in Ancestry(history, h)
    BY <2>1, MaximalAbove
  <2> QED
    BY <2>1, <2>2 DEF Maximal
<1> QED
  BY <1>1, InvHolds, PTL

\* A group has the distance the repository gives its base: corridor, mask and
\* folded boundary agree on it (gix/graph.rs:124, batch.rs:93).
THEOREM DistancesTheorem == Spec => []DistancesAreExact
<1>1. Inv => DistancesAreExact
  <2> SUFFICES ASSUME Inv, NEW g \in groups
               PROVE  g.distance = CASE g.base = main -> 0
                                     [] g.base \notin Ancestry(history, main) -> NoDistance
                                     [] OTHER -> Cardinality(Between(history, g.base, main))
    BY DEF DistancesAreExact
  <2>1. g.distance = DistanceOf(history, main, g.base)
    BY DEF Inv, GroupsOK
  <2>2. main \in Ancestry(history, main)
    <3>1. main \in Commits /\ IsHistory(history)
      BY DEF Inv, RepositoryOK, MainOK, GroupsOK
    <3> QED
      BY <3>1, AncestryReflexive DEF Commits
  <2> QED
    BY <2>1, <2>2 DEF DistanceOf
<1> QED
  BY <1>1, InvHolds, PTL

----------------------------------------------------------------------------
(* The lanes.                                                              *)

\* The steps of the analysis.
Steps == {"main", "filter", "retain", "forks", "heads", "prepare", "lanes", "group", "endpoints", "done"}

\* Rewritten commits are not points, and plain Git has none.
RewrittenOK ==
    /\ pc \in Early => rewritten = {}
    /\ plain => rewritten = {}
    /\ rewritten \subseteq Commits \ points

\* Every lane is exact.
AllExact == \A lane \in lanes : ExactLane(history, points, rewritten, lane.base, lane.head, lane.links)

\* Groups have a base and a distance within the bounds.
GroupsTyped == groups \subseteq [base : MaybeCommit, distance : {NoDistance} \cup 0..CommitCount]

\* What was selected stays a point, an unmerged main ref an end.
KeptOK ==
    /\ pc \in Steps
    /\ pc \notin {"main", "filter"} => Selectable \subseteq points
    /\ pc \notin {"main", "filter", "retain"} => MainRefs \ Ancestry(history, main) \subseteq ends

\* Every head has a lane or waits for it.
LeftOK ==
    /\ \A h \in heads \ left : \E lane \in lanes : lane.head = h
    /\ pc \in {"group", "endpoints", "done"} => left = {}

\* In the end a main ref below main is the base of a group.
EndpointsOK ==
    pc = "done" => \A r \in MainRefs \ {main} :
                       r \in Ancestry(history, main) => \E g \in groups : g.base = r

\* The invariant of the lanes.
LaneInv == RewrittenOK /\ AllExact /\ GroupsTyped /\ KeptOK /\ LeftOK /\ EndpointsOK

\* Before the analysis there are no lanes.
LEMMA InitLaneInv == Init => LaneInv
<1> SUFFICES ASSUME Init PROVE LaneInv
  OBVIOUS
<1>1. pc = "main" /\ points = {} /\ ends = {} /\ heads = {} /\ left = {} /\ lanes = {} /\ groups = {}
      /\ rewritten = {}
  BY DEF Init
<1> QED
  BY <1>1 DEF LaneInv, RewrittenOK, AllExact, GroupsTyped, KeptOK, LeftOK, EndpointsOK, Steps

\* Only commits that are not points are rewritten, and only git-branchless
\* reports any.
LEMMA RewrittenKeeps ==
  ASSUME Inv, LaneInv, Next
  PROVE  RewrittenOK'
<1>0. Commits' = Commits
  BY NextIsFixed DEF Fixed, Commits
<1>1. CASE DetectRewrites
  <2>1. PICK some \in SUBSET (Reachable(history, heads) \ (Ancestry(history, main) \cup points)) :
            rewritten' = some
    BY <1>1 DEF DetectRewrites
  <2>2. IsHistory(history) /\ heads \subseteq DOMAIN history
    BY DEF Inv, RepositoryOK, HeadsOK, PointsOK, Maximal, Commits
  <2>3. Reachable(history, heads) \subseteq Commits
    <3> SUFFICES ASSUME NEW c \in Reachable(history, heads) PROVE c \in Commits
      OBVIOUS
    <3>1. PICK t \in heads : c \in Ancestry(history, t)
      BY DEF Reachable
    <3> QED
      BY <2>2, <3>1, AncestryBounded DEF Commits
  <2>4. pc' = "lanes" /\ ~plain' /\ points' = points
    BY <1>1 DEF DetectRewrites
  <2>5. rewritten' \subseteq Commits' \ points'
    BY <2>1, <2>3, <2>4, <1>0
  <2> QED
    BY <2>4, <2>5 DEF RewrittenOK
<1>2. CASE FallBack \/ ResolveMain \/ FilterBranches \/ SelectBranches \/ RetainPoints \/ AddForks \/ FindHeads
  <2>1. pc \in Early /\ rewritten' = rewritten
    <3>1. FallBack => pc \in Early /\ rewritten' = rewritten
      BY DEF FallBack, laneVars
    <3>2. ResolveMain => pc \in Early /\ rewritten' = rewritten
      BY DEF ResolveMain
    <3>3. FilterBranches \/ SelectBranches => pc \in Early /\ rewritten' = rewritten
      BY DEF FilterBranches, SelectBranches
    <3>4. RetainPoints \/ AddForks => pc \in Early /\ rewritten' = rewritten
      BY DEF RetainPoints, AddForks
    <3>5. FindHeads => pc \in Early /\ rewritten' = rewritten
      BY DEF FindHeads
    <3> QED
      BY <1>2, <3>1, <3>2, <3>3, <3>4, <3>5
  <2>2. rewritten = {}
    BY <2>1 DEF LaneInv, RewrittenOK
  <2> QED
    BY <2>1, <2>2 DEF RewrittenOK
<1>3. CASE Prepare \/ BuildLane \/ BuildGroups \/ AddEndpoints
  <2>1. UNCHANGED <<rewritten, points, plain>>
    BY <1>3 DEF Prepare, BuildLane, BuildGroups, AddEndpoints, laneVars
  <2>2. pc \in Early => rewritten = {}
    BY DEF LaneInv, RewrittenOK
  <2>3. pc' \notin Early
    <3>1. Prepare => pc' \notin Early
      BY DEF Prepare
    <3>2. BuildLane => pc' \notin Early
      <4>1. BuildLane => pc' \in {"group", "lanes"}
        BY DEF BuildLane
      <4> QED
        BY <4>1
    <3>3. BuildGroups \/ AddEndpoints => pc' \notin Early
      BY DEF BuildGroups, AddEndpoints
    <3> QED
      BY <1>3, <3>1, <3>2, <3>3
  <2> QED
    BY <2>1, <2>3, <1>0 DEF LaneInv, RewrittenOK
<1> QED
  BY <1>1, <1>2, <1>3 DEF Next

\* The steps other than the building of a lane.
LEMMA LanesOnlyBuilt ==
  ASSUME Inv, Next, ~BuildLane
  PROVE  lanes' = lanes /\ (lanes = {} \/ UNCHANGED <<points, rewritten>>)
<1>1. lanes' = lanes
  BY DEF Next, FallBack, ResolveMain, FilterBranches, SelectBranches, RetainPoints, AddForks,
     FindHeads, Prepare, DetectRewrites, BuildGroups, AddEndpoints, laneVars
<1>2. pc \in Early \/ UNCHANGED <<points, rewritten>>
  <2>1. FallBack \/ ResolveMain \/ FilterBranches \/ SelectBranches => pc \in Early
    BY DEF FallBack, ResolveMain, FilterBranches, SelectBranches
  <2>2. RetainPoints \/ AddForks \/ FindHeads => pc \in Early
    BY DEF RetainPoints, AddForks, FindHeads
  <2>3. Prepare \/ DetectRewrites => pc \in Early
    BY DEF Prepare, DetectRewrites
  <2>4. BuildGroups \/ AddEndpoints => UNCHANGED <<points, rewritten>>
    BY DEF BuildGroups, AddEndpoints
  <2> QED
    BY <2>1, <2>2, <2>3, <2>4 DEF Next
<1>3. pc \in Early => lanes = {}
  BY DEF Inv, LanesOK
<1> QED
  BY <1>1, <1>2, <1>3

\* The summary of a head describes its corridor.
LEMMA SummaryIsLinked ==
  ASSUME NEW h, IsHistory(h), NEW m \in DOMAIN h, NEW pts, pts \cap Ancestry(h, m) = {}, NEW s,
         IsSummary(s, h, m, pts), NEW c \in DOMAIN s
  PROVE  IsLinked(h, pts, c, s[c]) /\ s[c].base # c
<1>1. PICK tips \in SUBSET DOMAIN h :
        IsLinear(Walk(h, tips, {m})) /\ s = LinearPaths(Walk(h, tips, {m}), pts)
  BY DEF IsSummary
<1> DEFINE nodes == Walk(h, tips, {m})
<1>2. IsAbove(h, nodes, tips, m) /\ IsLinear(nodes) /\ s = LinearPaths(nodes, pts)
  BY <1>1, WalkIsAbove
<1> HIDE DEF nodes
<1>3. IsRange(nodes)
  BY <1>2 DEF IsAbove
<1>4. c \in DOMAIN nodes
  BY <1>2, <1>3, LinearUnfolds
<1>5. SharesFrom(h, m, c, s[c].base)
  BY <1>2, <1>4, LinearBase
<1>6. IsLinked(h, pts, c, s[c])
  BY <1>2, <1>4, LinkedPaths
<1>7. c \notin Ancestry(h, m) /\ c # NoCommit
  BY <1>2, <1>4 DEF IsAbove, IsHistory, NoCommit
<1> QED
  BY <1>5, <1>6, <1>7 DEF SharesFrom

\* What BuildLane adds is an exact lane of a head that had none.
LEMMA BuiltLane ==
  ASSUME Inv, LaneInv, BuildLane
  PROVE  \E head \in left :
            /\ left' = left \ {head}
            /\ \E base, links : /\ ExactLane(history, points, rewritten, base, head, links)
                                /\ AddLane(head, base, links) /\ links # <<>>
<1>1. PICK head \in left :
        /\ left' = left \ {head}
        /\ \/ /\ plain
              /\ HasSummary(main, head)
              /\ LET links == summaries[head].links
                 IN  AddLane(head, summaries[head].base,
                             Entries(links, {i \in DOMAIN links : links[i].id \in points}))
           \/ \E base \in MergeBase(main, head) :
                  \E path \in AncestryPaths(base, head) :
                      AddLane(head, base,
                              PointsOnPath(Entries(path, {i \in DOMAIN path : path[i] \notin rewritten}),
                                           head))
  BY DEF BuildLane
<1>2. pc = "lanes" /\ UNCHANGED <<points, rewritten>>
  BY DEF BuildLane
<1>3. /\ main \in Commits /\ IsHistory(history) /\ SelectionIs(selection, history, main)
      /\ head \in points /\ head \in Commits /\ points \cap Ancestry(history, main) = {}
  BY <1>2 DEF Inv, RepositoryOK, MainOK, SelectionOK, HeadsOK, PointsOK, Maximal
<1>4. \E base, links : ExactLane(history, points, rewritten, base, head, links) /\ AddLane(head, base, links)
  <2>1. ASSUME plain, HasSummary(main, head),
               LET links == summaries[head].links
               IN  AddLane(head, summaries[head].base,
                           Entries(links, {i \in DOMAIN links : links[i].id \in points}))
        PROVE  \E base, links : ExactLane(history, points, rewritten, base, head, links) /\ AddLane(head, base, links)
    <3> DEFINE state == summaries[head]
               kept == Entries(state.links, {i \in DOMAIN state.links : state.links[i].id \in points})
    <3>1. head \in DOMAIN summaries
      BY <2>1 DEF HasSummary
    <3>2. summaries # NoSummaries
      BY <3>1 DEF NoSummaries
    <3>3. IsSummary(summaries, history, main, points)
      BY <3>2, <1>2 DEF Inv, SummariesOK
    <3>4. IsLinked(history, points, head, state) /\ state.base # head
      BY <3>1, <3>3, <1>3, SummaryIsLinked DEF Commits
    <3>5. rewritten = {}
      BY <2>1 DEF LaneInv, RewrittenOK
    <3>6. ExactLane(history, points, {}, state.base, head, kept)
      <4> HIDE DEF state
      <4> QED
        BY <3>4, <1>3, SummaryLane DEF Commits
    <3>7. AddLane(head, state.base, kept)
      BY <2>1
    <3> HIDE DEF state, kept
    <3> QED
      BY <3>5, <3>6, <3>7
  <2>2. ASSUME NEW base \in MergeBase(main, head), NEW path \in AncestryPaths(base, head),
               AddLane(head, base,
                       PointsOnPath(Entries(path, {i \in DOMAIN path : path[i] \notin rewritten}), head))
        PROVE  \E b, links : ExactLane(history, points, rewritten, b, head, links) /\ AddLane(head, b, links)
    <3>1. base \in MergeBaseAnswers(history, main, head)
      BY <2>2, <1>3, MergeBaseIsBest
    <3>2. base = NoCommit \/ base \in Ancestry(history, main) \cap Ancestry(history, head)
      BY <3>1 DEF MergeBaseAnswers, BestBases, Maximal
    <3>3. StartsBelow(history, base, head)
      BY <3>2, <1>3 DEF StartsBelow
    <3>4. rewritten \cap points = {}
      BY DEF LaneInv, RewrittenOK
    <3>5. ExactLane(history, points, rewritten, base, head,
              PointsOnPath(Entries(path, {i \in DOMAIN path : path[i] \notin rewritten}), head))
      BY <3>3, <3>4, <1>3, <2>2, WalkLane
    <3> QED
      BY <3>5, <2>2
  <2> QED
    BY <1>1, <2>1, <2>2
<1>5. PICK base, links : ExactLane(history, points, rewritten, base, head, links) /\ AddLane(head, base, links)
  BY <1>4
<1>6. links # <<>>
  BY <1>5 DEF ExactLane
<1> QED
  BY <1>1, <1>5, <1>6

\* BuildLane adds exact lanes; no other step disturbs one.
LEMMA ExactKeeps ==
  ASSUME Inv, LaneInv, Next
  PROVE  AllExact'
<1>h. history' = history
  BY NextIsFixed DEF Fixed
<1>1. CASE ~BuildLane
  BY <1>1, <1>h, LanesOnlyBuilt DEF LaneInv, AllExact
<1>2. CASE BuildLane
  <2>1. PICK head \in left :
            \E base, links : ExactLane(history, points, rewritten, base, head, links) /\ AddLane(head, base, links)
    BY <1>2, BuiltLane
  <2>2. pc = "lanes" /\ UNCHANGED <<points, rewritten>>
    BY <1>2 DEF BuildLane
  <2>5. PICK base, links : ExactLane(history, points, rewritten, base, head, links) /\ AddLane(head, base, links)
    BY <2>1
  <2>6. \A lane \in lanes' : lane \in lanes \/ lane = [head |-> head, base |-> base, links |-> links]
    BY <2>5 DEF AddLane
  <2>7. \A lane \in lanes' : ExactLane(history, points, rewritten, lane.base, lane.head, lane.links)
    BY <2>5, <2>6 DEF LaneInv, AllExact
  <2> QED
    BY <2>2, <2>7, <1>h DEF AllExact
<1> QED
  BY <1>1, <1>2

\* The branches that must be selected.
LEMMA SelectableIs ==
         Selectable = refs.topics \ (Ancestry(history, main)
                                        \cup IF plain THEN {} ELSE Ancestry(history, refs.local))
<1>1. Reachable(history, {main}) = Ancestry(history, main)
  BY DEF Reachable
<1>2. Reachable(history, {main, refs.local}) = Ancestry(history, main) \cup Ancestry(history, refs.local)
  BY DEF Reachable
<1> QED
  BY <1>1, <1>2 DEF Selectable

\* No step loses a branch that was selected or a main ref that is ahead.
LEMMA KeptKeeps ==
  ASSUME Inv, LaneInv, Next
  PROVE  KeptOK'
<1>1. history' = history /\ refs' = refs /\ MainRefs' = MainRefs
  BY NextIsFixed DEF Fixed, MainRefs
<1>2. KeptOK
  BY DEF LaneInv
<1>3. CASE FallBack \/ ResolveMain
  <2>1. pc' \in {"main", "filter"}
    BY <1>3 DEF FallBack, ResolveMain
  <2> QED
    BY <2>1 DEF KeptOK, Steps
<1>4. CASE FilterBranches
  <2> DEFINE tips == refs.topics \cup {refs.local}
  <2>1. /\ pc = "filter" /\ pc' = IF MainRefs = {} THEN "heads" ELSE "retain"
        /\ points' = refs.topics \cap Unmerged(main, tips) /\ plain' = plain /\ main' = main /\ plain
    BY <1>4 DEF FilterBranches
  <2>2. tips \in SUBSET Commits /\ main \in Commits /\ IsHistory(history)
    BY <2>1 DEF Inv, RepositoryOK, MainOK
  <2>3. Unmerged(main, tips) = tips \ Ancestry(history, main)
    <3> HIDE DEF tips
    <3> QED
      BY <2>2, UnmergedIs
  <2>4. Selectable = refs.topics \ Ancestry(history, main)
    BY <2>1, SelectableIs
  <2>5. Selectable' = Selectable
    BY <2>1, <1>1 DEF Selectable
  <2>6. Selectable' \subseteq points'
    BY <2>1, <2>3, <2>4, <2>5
  <2> QED
    BY <2>1, <2>6, <1>1 DEF KeptOK, Steps
<1>5. CASE SelectBranches
  <2>1. /\ pc = "filter" /\ pc' = IF MainRefs = {} THEN "heads" ELSE "retain"
        /\ points' = refs.topics \ Ancestry(history, refs.local) /\ plain' = plain /\ main' = main /\ ~plain
    BY <1>5 DEF SelectBranches
  <2>2. Selectable \subseteq points'
    BY <2>1, SelectableIs
  <2>3. Selectable' = Selectable
    BY <2>1, <1>1 DEF Selectable
  <2> QED
    BY <2>1, <2>2, <2>3, <1>1 DEF KeptOK, Steps
<1>6. CASE RetainPoints
  <2> DEFINE tips == points \cup MainRefs
  <2>1. /\ pc = "retain" /\ pc' = "forks" /\ plain' = plain /\ main' = main
        /\ points' = points \cap Unmerged(main, tips) /\ ends' = MainRefs \cap Unmerged(main, tips)
    BY <1>6 DEF RetainPoints
  <2>2. tips \in SUBSET Commits /\ main \in Commits /\ IsHistory(history)
    BY <2>1, MainRefsAreCommits DEF Inv, RepositoryOK, MainOK, PointsOK
  <2>3. Unmerged(main, tips) = tips \ Ancestry(history, main)
    <3> HIDE DEF tips
    <3> QED
      BY <2>2, UnmergedIs
  <2>4. Selectable \subseteq points /\ Selectable \cap Ancestry(history, main) = {}
    BY <2>1, <1>2, SelectableIs DEF KeptOK
  <2>5. Selectable' = Selectable
    BY <2>1, <1>1 DEF Selectable
  <2>6. Selectable' \subseteq points'
    BY <2>1, <2>3, <2>4, <2>5
  <2>7. MainRefs \ Ancestry(history, main) \subseteq ends'
    BY <2>1, <2>3
  <2> QED
    BY <2>1, <2>6, <2>7, <1>1 DEF KeptOK, Steps
<1>7. CASE AddForks \/ FindHeads \/ Prepare \/ DetectRewrites \/ BuildLane \/ BuildGroups \/ AddEndpoints
  <2>1. AddForks => /\ pc = "forks" /\ pc' = "heads" /\ points \subseteq points'
                    /\ UNCHANGED <<plain, main, ends>>
    BY DEF AddForks
  <2>2. FindHeads => /\ pc = "heads" /\ pc' \in {"group", "prepare"}
                     /\ UNCHANGED <<points, plain, main, ends>>
    BY DEF FindHeads
  <2>3. Prepare => pc = "prepare" /\ pc' = "lanes" /\ UNCHANGED <<points, plain, main, ends>>
    BY DEF Prepare, laneVars
  <2>4. DetectRewrites => pc = "prepare" /\ pc' = "lanes" /\ UNCHANGED <<points, plain, main, ends>>
    BY DEF DetectRewrites
  <2>5. BuildLane => pc = "lanes" /\ pc' \in {"lanes", "group"} /\ UNCHANGED <<points, plain, main, ends>>
    BY DEF BuildLane
  <2>6. BuildGroups \/ AddEndpoints =>
            /\ pc \in {"group", "endpoints"} /\ pc' \in {"endpoints", "done"}
            /\ UNCHANGED <<points, plain, main, ends>>
    BY DEF BuildGroups, AddEndpoints
  <2>7. /\ pc \in {"forks", "heads", "prepare", "lanes", "group", "endpoints"}
        /\ pc' \in {"heads", "group", "prepare", "lanes", "endpoints", "done"}
        /\ points \subseteq points' /\ plain' = plain /\ main' = main /\ ends' = ends
    <3>1. CASE AddForks
      BY <3>1, <2>1
    <3>2. CASE FindHeads \/ Prepare \/ DetectRewrites
      BY <3>2, <2>2, <2>3, <2>4
    <3>3. CASE BuildLane \/ BuildGroups \/ AddEndpoints
      BY <3>3, <2>5, <2>6
    <3> QED
      BY <1>7, <3>1, <3>2, <3>3
  <2>8. Selectable' = Selectable
    BY <2>7, <1>1 DEF Selectable
  <2>9. Selectable \subseteq points /\ MainRefs \ Ancestry(history, main) \subseteq ends
    BY <2>7, <1>2 DEF KeptOK
  <2>10. Selectable' \subseteq points'
    BY <2>7, <2>8, <2>9
  <2>11. MainRefs' \ Ancestry(history', main') \subseteq ends'
    BY <2>7, <2>9, <1>1
  <2>12. pc' \in Steps
    BY <2>7 DEF Steps
  <2> QED
    BY <2>10, <2>11, <2>12 DEF KeptOK
<1> QED
  BY <1>3, <1>4, <1>5, <1>6, <1>7 DEF Next

\* A head that no longer waits has a lane.
LEMMA LeftKeeps ==
  ASSUME Inv, LaneInv, Next
  PROVE  LeftOK'
<1>1. LeftOK
  BY DEF LaneInv
<1>2. CASE FallBack \/ ResolveMain \/ FilterBranches \/ SelectBranches \/ RetainPoints \/ AddForks
  <2>1. /\ UNCHANGED <<heads, left, lanes>>
        /\ pc' \in {"main", "filter", "retain", "forks", "heads"}
    <3>1. FallBack => UNCHANGED <<heads, left, lanes>> /\ pc' = "main"
      BY DEF FallBack, laneVars
    <3>2. ResolveMain => UNCHANGED <<heads, left, lanes>> /\ pc' = "filter"
      BY DEF ResolveMain
    <3>3. FilterBranches \/ SelectBranches => UNCHANGED <<heads, left, lanes>> /\ pc' \in {"heads", "retain"}
      BY DEF FilterBranches, SelectBranches
    <3>4. RetainPoints \/ AddForks => UNCHANGED <<heads, left, lanes>> /\ pc' \in {"forks", "heads"}
      BY DEF RetainPoints, AddForks
    <3> QED
      BY <1>2, <3>1, <3>2, <3>3, <3>4
  <2> QED
    BY <2>1, <1>1 DEF LeftOK
<1>3. CASE FindHeads
  <2>1. left' = heads'
    BY <1>3 DEF FindHeads
  <2>2. CASE points = {}
    <3>1. Maximal(history, points) = {}
      BY <2>2 DEF Maximal
    <3>2. heads' = {}
      BY <1>3, <2>2, <3>1 DEF FindHeads
    <3> QED
      BY <2>1, <3>2 DEF LeftOK
  <2>3. CASE points # {}
    <3>1. pc' = "prepare"
      BY <1>3, <2>3 DEF FindHeads
    <3> QED
      BY <2>1, <3>1 DEF LeftOK
  <2> QED
    BY <2>2, <2>3
<1>4. CASE Prepare \/ DetectRewrites
  <2>1. pc' = "lanes" /\ UNCHANGED <<heads, left, lanes>>
    BY <1>4 DEF Prepare, DetectRewrites, laneVars
  <2> QED
    BY <2>1, <1>1 DEF LeftOK
<1>5. CASE BuildLane
  <2>1. PICK head \in left : left' = left \ {head} /\ \E lane \in lanes' : lane.head = head
    <3>1. PICK head \in left :
            /\ left' = left \ {head}
            /\ \E base, links : AddLane(head, base, links) /\ links # <<>>
      BY <1>5, BuiltLane
    <3>2. PICK base, links : AddLane(head, base, links) /\ links # <<>>
      BY <3>1
    <3>3. [head |-> head, base |-> base, links |-> links] \in lanes'
      BY <3>2 DEF AddLane
    <3> QED
      BY <3>1, <3>3
  <2>2. lanes \subseteq lanes' /\ heads' = heads /\ pc' = IF left' = {} THEN "group" ELSE "lanes"
    BY <1>5 DEF BuildLane, AddLane
  <2> QED
    BY <2>1, <2>2, <1>1 DEF LeftOK
<1>6. CASE BuildGroups \/ AddEndpoints
  <2>1. pc \in {"group", "endpoints"} /\ UNCHANGED <<heads, left, lanes>>
    BY <1>6 DEF BuildGroups, AddEndpoints
  <2> QED
    BY <2>1, <1>1 DEF LeftOK
<1> QED
  BY <1>2, <1>3, <1>4, <1>5, <1>6 DEF Next

\* Groups are typed, and no main ref below main lacks one in the end.
LEMMA GroupsKeeps ==
  ASSUME Inv, LaneInv, Next, Inv'
  PROVE  GroupsTyped' /\ EndpointsOK'
<1>1. history' = history /\ refs' = refs /\ MainRefs' = MainRefs /\ MaybeCommit' = MaybeCommit
  BY NextIsFixed DEF Fixed, MainRefs, MaybeCommit, Commits
<1>2. GroupsTyped
  BY DEF LaneInv
<1>3. ASSUME NEW g \in groups' PROVE g.base \in MaybeCommit /\ g.distance \in {NoDistance} \cup 0..CommitCount
  <2>1. g.base \in MaybeCommit /\ g.distance = DistanceOf(history, main', g.base)
    BY <1>1, <1>3 DEF Inv, GroupsOK
  <2>2. IsHistory(history) /\ DOMAIN history = 1..CommitCount /\ CommitCount \in Nat
    BY CommitCountAssumption DEF Inv, RepositoryOK
  <2>3. main' \in Commits
    <3>1. pc' # "main"
      BY <1>3 DEF Inv, GroupsOK
    <3> QED
      BY <3>1, <1>1 DEF Inv, MainOK, Commits
  <2>4. CASE g.base = main' \/ g.base \notin Ancestry(history, main')
    BY <2>1, <2>2, <2>4 DEF DistanceOf
  <2>5. CASE g.base # main' /\ g.base \in Ancestry(history, main')
    <3> DEFINE B == Between(history, g.base, main')
    <3>1. IsFiniteSet(B) /\ B \subseteq 1..CommitCount /\ Cardinality(B) \in Nat
      <4>1. IsFiniteSet(B) /\ B \subseteq Ancestry(history, main') /\ Cardinality(B) \in Nat
        BY <2>2, <2>3, BetweenIsFinite DEF Commits
      <4>2. Ancestry(history, main') \subseteq DOMAIN history
        BY <2>2, <2>3, AncestryBounded DEF Commits
      <4> HIDE DEF B
      <4> QED
        BY <4>1, <4>2, <2>2
    <3> HIDE DEF B
    <3>2. Cardinality(B) <= Cardinality(1..CommitCount) /\ Cardinality(1..CommitCount) = CommitCount
      <4>1. IsFiniteSet(1..CommitCount)
        BY <2>2, FS_Interval
      <4>2. Cardinality(1..CommitCount) = IF 1 > CommitCount THEN 0 ELSE CommitCount - 1 + 1
        BY <2>2, FS_Interval
      <4>3. Cardinality(B) <= Cardinality(1..CommitCount)
        BY <3>1, <4>1, FS_Subset
      <4> QED
        BY <2>2, <4>2, <4>3
    <3>3. g.distance = Cardinality(B)
      BY <2>1, <2>5 DEF DistanceOf, B
    <3> QED
      BY <2>1, <2>2, <3>1, <3>2, <3>3
  <2> QED
    BY <2>1, <2>4, <2>5
<1>4. CASE BuildGroups
  <2>1. PICK distance : groups' = {[base |-> b, distance |-> IF b = NoCommit THEN NoDistance ELSE distance[b]] :
                                      b \in {lane.base : lane \in lanes}}
    BY <1>4 DEF BuildGroups
  <2>2. \A g \in groups' : g = [base |-> g.base, distance |-> g.distance]
    BY <2>1
  <2>3. GroupsTyped'
    BY <2>2, <1>1, <1>3 DEF GroupsTyped
  <2>4. pc' # "done"
    BY <1>4 DEF BuildGroups
  <2> QED
    BY <2>3, <2>4 DEF EndpointsOK
<1>5. CASE AddEndpoints
  <2> DEFINE ids == MainRefs \ {main}
  <2>1. PICK distance \in Distances(main, ids) :
         groups' = groups \cup
             {[base |-> id, distance |-> distance[id]] :
                 id \in {id \in ids : /\ distance[id] # NoDistance
                                      /\ \A g \in groups : g.base # id}}
    BY <1>5 DEF AddEndpoints
  <2>2. \A g \in groups' : g \in groups \/ g = [base |-> g.base, distance |-> g.distance]
    BY <2>1
  <2>3. GroupsTyped'
    <3> SUFFICES ASSUME NEW g \in groups'
                 PROVE  g \in [base : MaybeCommit, distance : {NoDistance} \cup 0..CommitCount]
      BY <1>1 DEF GroupsTyped
    <3> QED
      BY <2>2, <1>2, <1>3 DEF GroupsTyped
  <2>4. main' = main /\ pc = "endpoints"
    BY <1>5 DEF AddEndpoints
  <2>5. main \in Commits /\ IsHistory(history) /\ ids \in SUBSET Commits
    BY <2>4, MainRefsAreCommits DEF Inv, RepositoryOK, MainOK
  <2> HIDE DEF ids
  <2>6. Exact(history, main, ids, distance)
    BY <2>1, <2>5, DistancesExact
  <2>7. ASSUME NEW r \in ids, r \in Ancestry(history, main) PROVE \E g \in groups' : g.base = r
    <3>1. distance[r] = DistanceOf(history, main, r)
      BY <2>6 DEF Exact
    <3>2. DistanceOf(history, main, r) \in Nat
      <4>1. r # main
        BY DEF ids
      <4>2. Cardinality(Between(history, r, main)) \in Nat
        BY <2>5, BetweenIsFinite DEF Commits
      <4> QED
        BY <4>1, <4>2, <2>7 DEF DistanceOf
    <3>3. distance[r] # NoDistance
      BY <3>1, <3>2 DEF NoDistance
    <3>4. CASE \E g \in groups : g.base = r
      BY <3>4, <2>1
    <3>5. CASE \A g \in groups : g.base # r
      <4>1. [base |-> r, distance |-> distance[r]] \in groups'
        BY <3>3, <3>5, <2>1
      <4> QED
        BY <4>1
    <3> QED
      BY <3>4, <3>5
  <2>8. EndpointsOK'
    BY <2>4, <2>7, <1>1 DEF EndpointsOK, ids
  <2> QED
    BY <2>3, <2>8
<1>6. CASE ~BuildGroups /\ ~AddEndpoints
  <2>1. groups' = groups
    BY <1>6 DEF Next, FallBack, ResolveMain, FilterBranches, SelectBranches, RetainPoints, AddForks,
       FindHeads, Prepare, DetectRewrites, BuildLane, laneVars
  <2>2. pc' # "done"
    <3>1. FallBack \/ ResolveMain \/ FilterBranches \/ SelectBranches => pc' # "done"
      <4>1. FallBack => pc' = "main"
        BY DEF FallBack, laneVars
      <4> QED
        BY <4>1 DEF ResolveMain, FilterBranches, SelectBranches
    <3>2. RetainPoints \/ AddForks \/ FindHeads => pc' # "done"
      BY DEF RetainPoints, AddForks, FindHeads
    <3>3. Prepare \/ DetectRewrites \/ BuildLane => pc' # "done"
      BY DEF Prepare, DetectRewrites, BuildLane
    <3> QED
      BY <1>6, <3>1, <3>2, <3>3 DEF Next
  <2> QED
    BY <2>1, <2>2, <1>1, <1>2 DEF GroupsTyped, EndpointsOK
<1> QED
  BY <1>4, <1>5, <1>6

\* Stuttering changes nothing.
LEMMA LaneInvKept ==
  ASSUME LaneInv, UNCHANGED vars
  PROVE  LaneInv'
<1>1. /\ UNCHANGED <<history, plain, pc, refs, main, points, ends, heads, rewritten, left, lanes, groups>>
  BY DEF vars, backendVars, laneVars
<1>2. MainRefs' = MainRefs /\ Commits' = Commits /\ MaybeCommit' = MaybeCommit /\ Selectable' = Selectable
  BY <1>1 DEF MainRefs, Commits, MaybeCommit, Selectable
<1>3. RewrittenOK' /\ AllExact'
  BY <1>1, <1>2 DEF LaneInv, RewrittenOK, AllExact
<1>4. GroupsTyped' /\ EndpointsOK'
  BY <1>1, <1>2 DEF LaneInv, GroupsTyped, EndpointsOK
<1>5. KeptOK' /\ LeftOK'
  BY <1>1, <1>2 DEF LaneInv, KeptOK, LeftOK
<1> QED
  BY <1>3, <1>4, <1>5 DEF LaneInv

\* Each step keeps the invariant of the lanes.
THEOREM LaneInvHolds == Spec => []LaneInv
<1>1. Init => LaneInv
  BY InitLaneInv
<1>2. Inv /\ Inv' /\ LaneInv /\ [Next]_vars => LaneInv'
  <2> SUFFICES ASSUME Inv, Inv', LaneInv, [Next]_vars PROVE LaneInv'
    OBVIOUS
  <2>1. CASE Next
    <3>1. RewrittenOK' /\ AllExact' /\ KeptOK' /\ LeftOK'
      BY <2>1, RewrittenKeeps, ExactKeeps, KeptKeeps, LeftKeeps
    <3>2. GroupsTyped' /\ EndpointsOK'
      BY <2>1, GroupsKeeps
    <3> QED
      BY <3>1, <3>2 DEF LaneInv
  <2>2. CASE UNCHANGED vars
    BY <2>2, LaneInvKept
  <2> QED
    BY <2>1, <2>2
<1> QED
  BY <1>1, <1>2, InvHolds, PTL DEF Spec

\* A lane has the points between its base and its head and counts every commit
\* between the two once, by summary and by walk alike (construction.rs:267,
\* construction.rs:100).
THEOREM LanesTheorem == Spec => []LanesAreExact
<1>1. Inv /\ LaneInv => LanesAreExact
  BY ExactLanes DEF Inv, LaneInv, AllExact
<1> QED
  BY <1>1, InvHolds, LaneInvHolds, PTL

\* Without merges above main every point is on the lane of its head.
LEMMA PointIsShown ==
  ASSUME Inv, LaneInv, pc = "done", ~MergesAhead, NEW t \in points
  PROVE  Shown(t)
<1>1. /\ main \in Commits /\ IsHistory(history) /\ points \in SUBSET Commits
      /\ points \cap Ancestry(history, main) = {} /\ heads = Maximal(history, points)
  BY DEF Inv, RepositoryOK, MainOK, PointsOK, HeadsOK
<1>2. PICK head \in heads : t \in Ancestry(history, head)
  BY <1>1, MaximalAbove DEF Commits
<1>3. head \in points /\ head \in Commits
  BY <1>1, <1>2 DEF Maximal
<1>4. PICK lane \in lanes : lane.head = head
  BY <1>2 DEF LaneInv, LeftOK
<1> DEFINE base == lane.base
<1>5. base \in MergeBaseAnswers(history, main, head)
  BY <1>4 DEF Inv, LanesOK, BasesAreBest
<1>6. base = NoCommit \/ base \in Ancestry(history, main) \cap Ancestry(history, head)
  BY <1>5 DEF MergeBaseAnswers, BestBases, Maximal
<1> HIDE DEF base
<1>7. t \notin Ancestry(history, main)
  BY <1>1
<1>8. t \in Between(history, base, head)
  <2>1. Straight(history, main, head)
    <3> SUFFICES ASSUME NEW c \in Ancestry(history, head) \ Ancestry(history, main)
                 PROVE  Cardinality(history[c]) <= 1
      BY DEF Straight
    <3>1. c \in Reachable(history, points) \ Ancestry(history, main)
      BY <1>3 DEF Reachable
    <3>2. ~(Cardinality(history[c]) > 1)
      BY <3>1 DEF MergesAhead
    <3>3. c \in DOMAIN history
      BY <1>1, <1>3, AncestryBounded DEF Commits
    <3>4. history[c] \in SUBSET Nat /\ c \in Nat /\ \A q \in history[c] : q <= c
      BY <1>1, <3>3 DEF IsHistory
    <3>5. IsFiniteSet(history[c])
      BY <3>4, BoundedIsFinite
    <3>6. Cardinality(history[c]) \in Nat
      BY <3>5, FS_CardinalityType
    <3> QED
      BY <3>2, <3>6
  <2>2. Ancestry(history, main) \cap Ancestry(history, head) \subseteq Ancestry(history, t)
    BY <1>1, <1>2, <1>3, <1>7, <2>1, SharedBelow DEF Commits
  <2> QED
    BY <1>2, <1>6, <1>7, <2>2 DEF Between
<1>9. t \notin rewritten
  BY DEF LaneInv, RewrittenOK
<1>10. ExactLane(history, points, rewritten, base, head, lane.links)
  BY <1>4 DEF LaneInv, AllExact, base
<1>11. lane.links \in Seq(PathLinks) /\ \E i \in 1..Len(lane.links) : lane.links[i].id = t
  BY <1>8, <1>9, <1>10 DEF ExactLane
<1>12. DOMAIN lane.links = 1..Len(lane.links)
  BY <1>11
<1> QED
  BY <1>11, <1>12 DEF Shown

\* A branch that main does not contain is on some lane, as long as no merge lies
\* between main and the heads (selection.rs:377, construction.rs:267).
THEOREM ShownTheorem == Spec => []ShownWithoutMerges
<1>1. Inv /\ LaneInv => ShownWithoutMerges
  <2> SUFFICES ASSUME Inv, LaneInv, pc = "done", ~MergesAhead, NEW t \in Selectable
               PROVE  Shown(t)
    BY DEF ShownWithoutMerges
  <2>1. t \in points
    BY DEF LaneInv, KeptOK
  <2> QED
    BY <2>1, PointIsShown
<1> QED
  BY <1>1, InvHolds, LaneInvHolds, PTL

\* Main refs stay visible: below main as the base of a group, otherwise on a
\* lane unless a merge interferes (grouping.rs, README.md:50).
THEOREM EndpointsTheorem == Spec => []EndpointsVisible
<1>1. Inv /\ LaneInv => EndpointsVisible
  <2> SUFFICES ASSUME Inv, LaneInv, pc = "done", NEW r \in MainRefs \ {main}
               PROVE  IF r \in Ancestry(history, main)
                      THEN \E g \in groups : g.base = r
                      ELSE Shown(r) \/ MergesAhead
    BY DEF EndpointsVisible
  <2>1. CASE r \in Ancestry(history, main)
    BY <2>1 DEF LaneInv, EndpointsOK
  <2>2. CASE r \notin Ancestry(history, main)
    <3>1. r \in ends
      BY <2>2 DEF LaneInv, KeptOK
    <3>2. r \in points
      BY <3>1 DEF Inv, EndsOK, PointsOK
    <3> QED
      BY <2>2, <3>2, PointIsShown
  <2> QED
    BY <2>1, <2>2
<1> QED
  BY <1>1, InvHolds, LaneInvHolds, PTL

\* The commits of a repository are as many as the bound says.
LEMMA AncestryWithinBound ==
  ASSUME RepositoryOK, NEW c \in Commits
  PROVE  Cardinality(Ancestry(history, c)) <= CommitCount
<1> DEFINE A == Ancestry(history, c)
<1>0. CommitCount \in Nat /\ IsHistory(history) /\ DOMAIN history = 1..CommitCount
  BY CommitCountAssumption DEF RepositoryOK
<1>1. A \subseteq 1..CommitCount
  BY <1>0, AncestryBounded DEF Commits
<1>2. IsFiniteSet(1..CommitCount)
  BY <1>0, FS_Interval
<1>3. Cardinality(1..CommitCount) = IF 1 > CommitCount THEN 0 ELSE CommitCount - 1 + 1
  BY <1>0, FS_Interval
<1> HIDE DEF A
<1>4. Cardinality(A) <= Cardinality(1..CommitCount)
  BY <1>1, <1>2, FS_Subset
<1>5. Cardinality(1..CommitCount) = CommitCount
  BY <1>0, <1>3
<1> QED
  BY <1>4, <1>5 DEF A

\* Every variable has a value the code's types allow; a link counts at least one
\* commit and no more than there are.
THEOREM TypeTheorem == Spec => []TypeOK
<1>1. Inv /\ LaneInv => TypeOK
  <2> SUFFICES ASSUME Inv, LaneInv PROVE TypeOK
    OBVIOUS
  <2>1. pc \in Steps /\ main \in MaybeCommit
    BY DEF LaneInv, KeptOK, Inv, MainOK, MaybeCommit
  <2>2. points \subseteq Commits /\ marked \subseteq points /\ ends \subseteq MainRefs
    BY DEF Inv, PointsOK, EndsOK
  <2>3. heads \subseteq points /\ left \subseteq heads
    BY DEF Inv, HeadsOK, Maximal
  <2>4. rewritten \subseteq Commits \ points
    BY DEF LaneInv, RewrittenOK
  <2>5. ASSUME NEW lane \in lanes
        PROVE  /\ lane.head \in heads \ left /\ lane.base \in MaybeCommit
               /\ \A i \in DOMAIN lane.links : lane.links[i] \in Links
    <3>1. lane.head \in heads \ left /\ lane.base \in MergeBaseAnswers(history, main, lane.head)
      BY DEF Inv, LanesOK, BasesAreBest
    <3>2. main \in Commits /\ IsHistory(history)
      BY DEF Inv, LanesOK, MainOK, RepositoryOK
    <3>3. lane.base \in MaybeCommit
      BY <3>1, <3>2, BasesAreCommits
    <3>4. lane.head \in Commits
      BY <3>1, <2>2, <2>3
    <3> DEFINE links == lane.links
    <3>5. ExactLane(history, points, rewritten, lane.base, lane.head, links)
      BY DEF LaneInv, AllExact
    <3> HIDE DEF links
    <3>6. links \in Seq(PathLinks) /\ DOMAIN links = 1..Len(links)
      BY <3>5 DEF ExactLane
    <3>7. ASSUME NEW i \in DOMAIN links PROVE links[i] \in Links
      <4>1. links[i] \in PathLinks
        BY <3>6
      <4>2. links[i].id \in points
        BY <3>5, <3>6 DEF ExactLane
      <4>3. links[i].count > 0 /\ links[i].count <= Cardinality(Ancestry(history, lane.head))
        BY <3>5, <3>6 DEF ExactLane
      <4>4. Cardinality(Ancestry(history, lane.head)) <= CommitCount
        BY <3>4, AncestryWithinBound DEF Inv
      <4>5. Cardinality(Ancestry(history, lane.head)) \in Nat
        BY <3>2, <3>4, AncestryIsFinite DEF Commits
      <4>6. links[i].count \in 1..CommitCount
        BY <4>1, <4>3, <4>4, <4>5, CommitCountAssumption DEF PathLinks
      <4>7. links[i].id \in Commits
        BY <4>2, <2>2
      <4>8. links[i] = [id |-> links[i].id, count |-> links[i].count]
        BY <4>1 DEF PathLinks
      <4> QED
        BY <4>6, <4>7, <4>8 DEF Links
    <3> QED
      BY <3>1, <3>3, <3>7 DEF links
  <2>6. groups \subseteq [base : MaybeCommit, distance : {NoDistance} \cup 0..CommitCount]
    BY DEF LaneInv, GroupsTyped
  <2>7. selection.retained => Cardinality(DOMAIN selection.nodes) <= RetainLimit
    <3>1. selection = NoSelection \/ \E tips \in SUBSET DOMAIN history : IsAnalysis(selection, history, main, tips)
      BY DEF Inv, SelectionOK, SelectionIs
    <3>2. ~NoSelection.retained
      BY DEF NoSelection
    <3> QED
      BY <3>1, <3>2 DEF IsAnalysis
  <2> QED
    BY <2>1, <2>2, <2>3, <2>4, <2>5, <2>6, <2>7 DEF TypeOK, Steps
<1> QED
  BY <1>1, InvHolds, LaneInvHolds, PTL

----------------------------------------------------------------------------
(* Sharing the points of lanes one after the other.                        *)

\* One step of a fold over a sequence, the places taken in order.
FoldStep(F, base, s, it, some) ==
    it[some] = IF some = {} THEN base ELSE F[<<it[some \ {Max(some)}], s[Max(some)]>>]

\* The places up to one: the last of them, and the others.
LEMMA PlacesUpTo ==
  ASSUME NEW k \in Nat \ {0}
  PROVE  Max(1..k) = k /\ (1..k) \ {k} = 1..(k - 1) /\ 1..k # {}
<1>1. k \in 1..k /\ \A x \in 1..k : k >= x
  OBVIOUS
<1>2. Max(1..k) = CHOOSE x \in 1..k : \A y \in 1..k : x >= y
  BY DEF Max
<1>3. \A x \in 1..k : (\A y \in 1..k : x >= y) => x = k
  OBVIOUS
<1>4. Max(1..k) = k
  BY <1>1, <1>2, <1>3
<1>5. (1..k) \ {k} = 1..(k - 1)
  OBVIOUS
<1> QED
  BY <1>1, <1>4, <1>5

\* A fold over a sequence has a value for every set of places.
LEMMA FoldSolved ==
  ASSUME NEW V, NEW A, NEW F \in [V \X A -> V], NEW base \in V, NEW s \in Seq(A)
  PROVE  \E it \in [SUBSET DOMAIN s -> V] : \A some \in SUBSET DOMAIN s : FoldStep(F, base, s, it, some)
<1> DEFINE n == Len(s)
           D == SUBSET DOMAIN s
           rank == [some \in D |-> Cardinality(some)]
           Value(some, f) == IF some = {} THEN base ELSE F[<<f[some \ {Max(some)}], s[Max(some)]>>]
           G == [x \in D \X [D -> V] |-> Value(x[1], x[2])]
<1>0. n \in Nat /\ DOMAIN s = 1..n /\ \A i \in 1..n : s[i] \in A
  OBVIOUS
<1>f. IsFiniteSet(DOMAIN s)
  BY <1>0, FS_Interval
<1>1. \A some \in D : IsFiniteSet(some) /\ Cardinality(some) \in Nat /\ Cardinality(some) <= Cardinality(DOMAIN s)
  BY <1>f, FS_Subset, FS_CardinalityType
<1>2. rank \in [D -> Nat]
  BY <1>1
<1>a. \E m \in Nat : \A some \in D : rank[some] < m
  <2>1. Cardinality(DOMAIN s) \in Nat
    BY <1>f, FS_CardinalityType
  <2>2. Cardinality(DOMAIN s) + 1 \in Nat
    BY <2>1
  <2>3. \A some \in D : rank[some] < Cardinality(DOMAIN s) + 1
    BY <1>1, <2>1
  <2> QED
    BY <2>2, <2>3
<1>3. \A some \in D : \A f \in [D -> V] : G[<<some, f>>] = Value(some, f)
  <2> HIDE DEF Value
  <2> QED OBVIOUS
<1>b. \A some \in D : some # {} =>
         Max(some) \in DOMAIN s /\ some \ {Max(some)} \in D /\ rank[some \ {Max(some)}] < rank[some]
  <2> SUFFICES ASSUME NEW some \in D, some # {}
               PROVE  Max(some) \in DOMAIN s /\ some \ {Max(some)} \in D
                      /\ rank[some \ {Max(some)}] < rank[some]
    OBVIOUS
  <2> DEFINE top == Max(some)
  <2>1. IsFiniteSet(some) /\ Cardinality(some) \in Nat
    BY <1>1
  <2>2. top \in some
    <3>1. some \in SUBSET (1..n)
      BY <1>0
    <3> HIDE DEF n
    <3> QED
      BY <3>1, <1>0, MaxIsGreatest
  <2> HIDE DEF top
  <2>3. Cardinality(some \ {top}) = Cardinality(some) - 1
    BY <2>1, <2>2, FS_RemoveElement
  <2>4. top \in DOMAIN s /\ some \ {top} \in D /\ rank[some \ {top}] < rank[some]
    BY <2>1, <2>2, <2>3
  <2> QED
    BY <2>4 DEF top
<1>4. G \in [D \X [D -> V] -> V]
  <2>1. ASSUME NEW some \in D, NEW f \in [D -> V] PROVE Value(some, f) \in V
    <3>1. CASE some = {}
      BY <3>1
    <3>2. CASE some # {}
      <4>1. s[Max(some)] \in A /\ f[some \ {Max(some)}] \in V
        BY <3>2, <1>b, <1>0
      <4> QED
        BY <3>2, <4>1
    <3> QED
      BY <3>1, <3>2
  <2> HIDE DEF Value, D
  <2> QED
    BY <2>1
<1>5. \A some \in D : \A f, g \in [D -> V] :
         (\A e \in D : rank[e] < rank[some] => f[e] = g[e]) => G[<<some, f>>] = G[<<some, g>>]
  <2>1. ASSUME NEW some \in D, NEW f \in [D -> V], NEW g \in [D -> V],
               \A e \in D : rank[e] < rank[some] => f[e] = g[e]
        PROVE  Value(some, f) = Value(some, g)
    <3>1. some # {} => f[some \ {Max(some)}] = g[some \ {Max(some)}]
      <4> HIDE DEF rank
      <4> QED BY <2>1, <1>b
    <3> QED
      BY <3>1
  <2> HIDE DEF G, Value, rank, D
  <2> QED
    BY <2>1, <1>3
<1>6. PICK f \in [D -> V] : \A some \in D : f[some] = G[<<some, f>>]
  <2>1. Recursion(D, V, G, rank)
    <3> HIDE DEF G, rank, D
    <3> QED
      BY <1>a, <1>2, <1>4, <1>5 DEF Recursion
  <2>2. Solvable(D, V, G)
    <3> HIDE DEF G, rank, D
    <3> QED
      BY <2>1, SolvedByRank
  <2> QED
    BY <2>2 DEF Solvable
<1>7. \A some \in D : f[some] = Value(some, f)
  <2> HIDE DEF G, Value
  <2> QED BY <1>3, <1>6
<1> QED
  BY <1>7 DEF FoldStep

\* The stages of a table while points are shared with it.
Progress(P) == [points : Seq([point : P, below : Nat]), tip : Nat]

\* Sharing a point makes a table of a table.
LEMMA ShareType ==
  ASSUME NEW P, NEW progress \in Progress(P), NEW p \in P
  PROVE  Share(progress, p) \in Progress(P)
<1> DEFINE entry == [point |-> p, below |-> progress.tip]
           same == {i \in DOMAIN progress.points : Identity(progress.points[i]) = Identity(entry)}
           T == progress.points
<1>1. T \in Seq([point : P, below : Nat]) /\ progress.tip \in Nat
  BY DEF Progress
<1>2. entry \in [point : P, below : Nat]
  BY <1>1
<1>3. Share(progress, p) = IF same = {}
        THEN [points |-> Append(T, entry), tip |-> Len(T) + 1]
        ELSE [progress EXCEPT !.tip = CHOOSE i \in same : TRUE]
  BY DEF Share
<1>4. CASE same = {}
  <2>1. Append(T, entry) \in Seq([point : P, below : Nat]) /\ Len(T) + 1 \in Nat
    <3> HIDE DEF T, entry
    <3> QED BY <1>1, <1>2
  <2> HIDE DEF entry, same
  <2> QED
    BY <1>3, <1>4, <2>1 DEF Progress
<1>5. CASE same # {}
  <2>1. (CHOOSE i \in same : TRUE) \in DOMAIN T
    BY <1>5
  <2>2. (CHOOSE i \in same : TRUE) \in Nat
    <3> HIDE DEF same, T
    <3> QED BY <1>1, <2>1
  <2> HIDE DEF same
  <2> QED
    BY <1>3, <1>5, <2>2 DEF Progress
<1> QED
  BY <1>4, <1>5

\* The stages of sharing points one after the other.
Shares(g, base, s) ==
    /\ g[0] = base
    /\ \A k \in 1..Len(s) : g[k] = Share(g[k - 1], s[k])

\* Folding Share over a sequence of points shares them one after the other.
LEMMA SharesInOrder ==
  ASSUME NEW P, NEW base \in Progress(P), NEW s \in Seq(P)
  PROVE  \E g \in [0..Len(s) -> Progress(P)] :
            Shares(g, base, s) /\ FoldLeft(Share, base, s) = g[Len(s)]
<1> DEFINE V == Progress(P)
           n == Len(s)
           D == SUBSET DOMAIN s
           F == [x \in V \X P |-> Share(x[1], x[2])]
           Value(some, it) == IF some = {} THEN base
                              ELSE Share(it[some \ {Max(some)}], s[Max(some)])
           Iter(it) == it = [some \in D |-> Value(some, it)]
           iter == CHOOSE it : Iter(it)
<1>0. n \in Nat /\ DOMAIN s = 1..n /\ \A i \in 1..n : s[i] \in P
  OBVIOUS
<1>1. F \in [V \X P -> V] /\ \A v \in V, p \in P : F[<<v, p>>] = Share(v, p)
  <2> HIDE DEF V
  <2>1. \A v \in V, p \in P : Share(v, p) \in V
    BY ShareType DEF V
  <2> QED
    BY <2>1
<1>2. PICK it \in [D -> V] : \A some \in D : FoldStep(F, base, s, it, some)
  <2> HIDE DEF F, V
  <2>1. base \in V
    BY DEF V
  <2> QED BY <1>1, <2>1, FoldSolved
<1>b. \A some \in D : some # {} => Max(some) \in DOMAIN s /\ some \ {Max(some)} \in D
  <2> SUFFICES ASSUME NEW some \in D, some # {}
               PROVE  Max(some) \in DOMAIN s
    OBVIOUS
  <2>1. some \in SUBSET (1..n)
    BY <1>0
  <2> HIDE DEF n
  <2> QED
    BY <2>1, <1>0, MaxIsGreatest
<1>3. Iter(it)
  <2>1. ASSUME NEW some \in D PROVE it[some] = Value(some, it)
    <3>1. CASE some = {}
      BY <1>2, <3>1 DEF FoldStep
    <3>2. CASE some # {}
      <4>1. it[some] = F[<<it[some \ {Max(some)}], s[Max(some)]>>]
        <5> HIDE DEF F
        <5> QED BY <1>2, <3>2 DEF FoldStep
      <4>2. it[some \ {Max(some)}] \in V /\ s[Max(some)] \in P
        BY <1>2, <1>b, <3>2, <1>0
      <4> HIDE DEF F, V
      <4> QED
        BY <4>1, <4>2, <1>1, <3>2
    <3> QED
      BY <3>1, <3>2
  <2> HIDE DEF Value, D
  <2> QED
    BY <2>1, <1>2
<1>4. Iter(iter)
  <2> HIDE DEF Iter
  <2> QED BY <1>3
<1>5. FoldLeft(Share, base, s) = iter[DOMAIN s]
  BY DEF FoldLeft, MapThenFoldSet
<1> HIDE DEF iter
<1>6. \A some \in D : iter[some] = Value(some, iter)
  <2> HIDE DEF Value
  <2> QED BY <1>4
<1> DEFINE g == [k \in 0..n |-> iter[1..k]]
<1>7. g[0] = base
  <2>1. 1..0 = {} /\ 0 \in 0..n /\ {} \in D
    BY <1>0
  <2> QED
    BY <2>1, <1>6
<1>8. ASSUME NEW k \in 1..n PROVE g[k] = Share(g[k - 1], s[k])
  <2>1. k \in Nat \ {0} /\ k \in 0..n /\ k - 1 \in 0..n /\ 1..k \in D
    BY <1>0
  <2>2. Max(1..k) = k /\ (1..k) \ {k} = 1..(k - 1) /\ 1..k # {}
    BY <2>1, PlacesUpTo
  <2>3. iter[1..k] = Share(iter[1..(k - 1)], s[k])
    BY <2>1, <2>2, <1>6
  <2> HIDE DEF D, n
  <2> QED
    BY <2>1, <2>3
<1>9. \A k \in 0..n : g[k] \in V
  <2> DEFINE bad == {k \in 0..n : g[k] \notin V}
  <2> SUFFICES ASSUME bad # {} PROVE FALSE
    OBVIOUS
  <2>1. bad \in SUBSET Nat
    BY <1>0
  <2>2. PICK k \in bad : \A m \in bad : k <= m
    <3> HIDE DEF bad
    <3> QED BY <2>1, LeastNatural
  <2>3. k # 0
    <3> HIDE DEF g
    <3> QED BY <2>2, <1>7
  <2>4. k \in 1..n /\ k - 1 \in 0..n /\ k - 1 < k /\ k \in Nat
    BY <2>2, <2>3, <1>0
  <2>5. k - 1 \notin bad
    <3>1. ~(k <= k - 1)
      BY <2>4
    <3> HIDE DEF bad
    <3> QED BY <3>1, <2>2
  <2>6. g[k - 1] \in V
    <3> HIDE DEF g
    <3> QED BY <2>4, <2>5
  <2>7. s[k] \in P
    BY <2>4, <1>0
  <2> HIDE DEF g, V
  <2>8. g[k] \in V
    BY <2>4, <2>6, <2>7, <1>8, ShareType DEF V
  <2> QED
    BY <2>2, <2>8
<1>10. g \in [0..n -> V] /\ g[n] = iter[DOMAIN s]
  <2>1. n \in 0..n
    BY <1>0
  <2> HIDE DEF V
  <2> QED
    BY <1>0, <1>9, <2>1
<1>11. Shares(g, base, s)
  <2> HIDE DEF g
  <2> QED BY <1>7, <1>8 DEF Shares
<1> QED
  <2> HIDE DEF g
  <2> QED BY <1>5, <1>10, <1>11

----------------------------------------------------------------------------
(* A table of points, and the ways down from its positions.                *)

\* A table of points of P: each is stored once, above one that stands before it.
Table(T, P) ==
    /\ T \in Seq([point : P, below : Nat])
    /\ \A i \in 1..Len(T) : T[i].below < i
    /\ \A i, j \in 1..Len(T) : Identity(T[i]) = Identity(T[j]) => i = j

\* What the entries of a table are.
LEMMA TableParts ==
  ASSUME NEW P, NEW T, Table(T, P)
  PROVE  /\ Len(T) \in Nat /\ DOMAIN T = 1..Len(T)
         /\ \A i \in 1..Len(T) : /\ T[i].below \in Nat /\ T[i].below < i /\ T[i].point \in P
                                /\ T[i] = [point |-> T[i].point, below |-> T[i].below]
                                /\ T[i].below \in 0..Len(T) /\ i \in Nat /\ i # 0
<1> DEFINE E == [point : P, below : Nat]
<1>1. T \in Seq(E) /\ \A i \in 1..Len(T) : T[i].below < i
  BY DEF Table
<1>2. \A e \in E : e.point \in P /\ e.below \in Nat /\ e = [point |-> e.point, below |-> e.below]
  OBVIOUS
<1> HIDE DEF E
<1>3. Len(T) \in Nat /\ DOMAIN T = 1..Len(T) /\ \A i \in 1..Len(T) : T[i] \in E
  BY <1>1
<1>4. ASSUME NEW i \in 1..Len(T)
      PROVE  T[i].below \in Nat /\ T[i].below < i /\ T[i].below \in 0..Len(T) /\ i \in Nat /\ i # 0
  <2>1. T[i].below \in Nat /\ T[i].below < i
    BY <1>1, <1>2, <1>3
  <2> QED
    BY <2>1, <1>3
<1> QED
  BY <1>2, <1>3, <1>4

\* The points from a position of a table down.
Way(T, i) == PointsFrom(T)[i]

\* A point and those below it.
Atop(p, s) == <<p>> \o s

\* A position of a table stands for its point and the points below it.
LEMMA WaysUnfold ==
  ASSUME NEW P, NEW T, Table(T, P)
  PROVE  /\ Way(T, 0) = <<>>
         /\ \A i \in 1..Len(T) : Way(T, i) = Atop(T[i].point, Way(T, T[i].below))
         /\ \A i \in 0..Len(T) : Way(T, i) \in Seq(P)
<1> DEFINE n == Len(T)
           D == Nat
           V == Seq(P \cup {Broken})
           rank == [i \in D |-> IF i <= n THEN i ELSE 0]
           Value(i, f) == IF i = 0 THEN <<>>
                          ELSE IF i > Len(T) THEN <<Broken>>
                          ELSE IF T[i].below >= i THEN <<Broken>>
                          ELSE <<T[i].point>> \o f[T[i].below]
           F == [x \in D \X [D -> V] |-> Value(x[1], x[2])]
           Is(f) == f = [i \in D |-> Value(i, f)]
           from == CHOOSE f : Is(f)
<1>0. /\ n \in Nat /\ DOMAIN T = 1..n
      /\ \A i \in 1..n : T[i].below \in Nat /\ T[i].below < i /\ T[i].point \in P
  BY TableParts
<1>1. <<Broken>> \in V /\ <<>> \in V
  OBVIOUS
<1>2. rank \in [D -> Nat]
  BY <1>0
<1>a. \E m \in Nat : \A i \in D : rank[i] < m
  <2>1. n + 1 \in Nat /\ \A i \in D : rank[i] < n + 1
    BY <1>0
  <2> HIDE DEF rank
  <2> QED
    BY <2>1
<1>3. \A i \in D : \A f \in [D -> V] : F[<<i, f>>] = Value(i, f)
  <2> HIDE DEF Value
  <2> QED OBVIOUS
<1>4. F \in [D \X [D -> V] -> V]
  <2>1. ASSUME NEW i \in D, NEW f \in [D -> V] PROVE Value(i, f) \in V
    <3>1. CASE i = 0
      BY <3>1, <1>1
    <3>2. CASE i # 0 /\ (i > Len(T) \/ T[i].below >= i)
      <4> HIDE DEF V
      <4> QED
        BY <3>2, <1>1
    <3>3. CASE i # 0 /\ ~(i > Len(T)) /\ ~(T[i].below >= i)
      <4>1. i \in 1..n
        <5>1. i \in Nat /\ n \in Nat /\ i # 0 /\ ~(i > n)
          BY <2>1, <3>3, <1>0
        <5> HIDE DEF n
        <5> QED BY <5>1
      <4>2. T[i].point \in P /\ f[T[i].below] \in V
        BY <4>1, <1>0
      <4>3. <<T[i].point>> \o f[T[i].below] \in V
        <5> DEFINE p == T[i].point
                   q == f[T[i].below]
        <5>1. p \in P /\ q \in Seq(P \cup {Broken})
          BY <4>2
        <5> HIDE DEF p, q
        <5>2. <<p>> \o q \in Seq(P \cup {Broken})
          BY <5>1
        <5> QED
          BY <5>2 DEF p, q
      <4> HIDE DEF V
      <4> QED
        BY <3>3, <4>3
    <3> QED
      BY <3>1, <3>2, <3>3
  <2> HIDE DEF Value, V
  <2> QED
    BY <2>1
<1>5. \A i \in D : \A f, g \in [D -> V] :
         (\A e \in D : rank[e] < rank[i] => f[e] = g[e]) => F[<<i, f>>] = F[<<i, g>>]
  <2>1. ASSUME NEW i \in D, NEW f \in [D -> V], NEW g \in [D -> V],
               \A e \in D : rank[e] < rank[i] => f[e] = g[e]
        PROVE  Value(i, f) = Value(i, g)
    <3>1. CASE i = 0 \/ i > Len(T) \/ T[i].below >= i
      <4> HIDE DEF V, rank
      <4> QED
        BY <3>1
    <3>2. CASE ~(i = 0 \/ i > Len(T) \/ T[i].below >= i)
      <4>1. i \in 1..n
        <5>1. i \in Nat /\ n \in Nat /\ i # 0 /\ ~(i > n)
          BY <2>1, <3>2, <1>0
        <5> HIDE DEF n
        <5> QED BY <5>1
      <4>2. T[i].below \in D /\ T[i].below < i /\ i <= n
        <5>1. T[i].below \in Nat /\ T[i].below < i
          BY <4>1, <1>0
        <5>2. i <= n
          <6> HIDE DEF n
          <6> QED BY <4>1, <1>0
        <5> QED
          BY <5>1, <5>2
      <4>3. rank[T[i].below] < rank[i]
        BY <4>1, <4>2, <1>0
      <4>4. f[T[i].below] = g[T[i].below]
        <5> HIDE DEF rank, V
        <5> QED BY <4>2, <4>3, <2>1
      <4> QED
        BY <4>4
    <3> QED
      BY <3>1, <3>2
  <2> HIDE DEF F, Value, rank, V
  <2> QED
    BY <2>1, <1>3
<1>6. PICK f \in [D -> V] : \A i \in D : f[i] = F[<<i, f>>]
  <2>1. Recursion(D, V, F, rank)
    <3> HIDE DEF F, rank, V, D
    <3> QED
      BY <1>1, <1>a, <1>2, <1>4, <1>5 DEF Recursion
  <2>2. Solvable(D, V, F)
    <3> HIDE DEF F, rank, V, D
    <3> QED
      BY <2>1, SolvedByRank
  <2> QED
    BY <2>2 DEF Solvable
<1>7. Is(f)
  <2>1. \A i \in D : f[i] = Value(i, f)
    <3> HIDE DEF F, Value
    <3> QED BY <1>3, <1>6
  <2> HIDE DEF Value
  <2> QED
    BY <2>1
<1>8. Is(from)
  <2> HIDE DEF Is
  <2> QED BY <1>7
<1>9. PointsFrom(T) = from
  BY DEF PointsFrom
<1> HIDE DEF from
<1>10. \A i \in D : from[i] = Value(i, from)
  <2> HIDE DEF Value
  <2> QED BY <1>8
<1>11. Way(T, 0) = <<>>
  BY <1>9, <1>10 DEF Way
<1>12. \A i \in 1..n : Way(T, i) = Atop(T[i].point, Way(T, T[i].below))
  <2> SUFFICES ASSUME NEW i \in 1..n PROVE from[i] = <<T[i].point>> \o from[T[i].below]
    BY <1>9 DEF Way, Atop
  <2>1. i \in D /\ i # 0 /\ ~(i > Len(T)) /\ ~(T[i].below >= i)
    <3>1. n \in Nat /\ T[i].below \in Nat /\ T[i].below < i
      BY <1>0
    <3> DEFINE b == T[i].below
    <3>2. i \in 1..n /\ n \in Nat /\ b \in Nat /\ b < i
      BY <3>1
    <3> HIDE DEF n, b
    <3>3. i \in Nat /\ i # 0 /\ ~(i > n) /\ ~(b >= i)
      BY <3>2
    <3> QED
      BY <3>3 DEF n, b
  <2> QED
    BY <2>1, <1>10
<1>13. \A i \in 0..n : Way(T, i) \in Seq(P)
  <2> DEFINE bad == {i \in 0..n : Way(T, i) \notin Seq(P)}
  <2> SUFFICES ASSUME bad # {} PROVE FALSE
    OBVIOUS
  <2>1. bad \in SUBSET Nat
    BY <1>0
  <2>2. PICK i \in bad : \A m \in bad : i <= m
    <3> HIDE DEF bad
    <3> QED BY <2>1, LeastNatural
  <2>3. i # 0
    <3>1. <<>> \in Seq(P)
      OBVIOUS
    <3> QED BY <3>1, <2>2, <1>11
  <2>4. i \in 1..n /\ T[i].below \in 0..n /\ ~(i <= T[i].below)
    <3>1. i \in 0..n /\ n \in Nat
      BY <2>2, <1>0
    <3> HIDE DEF n
    <3>2. i \in 1..n
      BY <2>3, <3>1
    <3>3. T[i].below \in 0..n /\ T[i].below \in Nat /\ T[i].below < i
      BY <3>2, TableParts DEF n
    <3>4. ~(i <= T[i].below)
      <4> DEFINE b == T[i].below
      <4>0. i \in Nat
        BY <3>1
      <4>1. i \in Nat /\ b \in Nat /\ b < i
        BY <4>0, <3>3
      <4> HIDE DEF b
      <4>2. ~(i <= b)
        BY <4>1
      <4> QED
        BY <4>2 DEF b
    <3> QED BY <3>2, <3>3, <3>4
  <2>5. T[i].below \notin bad
    <3> HIDE DEF bad
    <3> QED BY <2>2, <2>4
  <2>6. Way(T, T[i].below) \in Seq(P) /\ T[i].point \in P
    BY <2>4, <2>5, <1>0
  <2>7. <<T[i].point>> \o Way(T, T[i].below) \in Seq(P)
    <3> DEFINE p == T[i].point
               q == Way(T, T[i].below)
    <3>1. p \in P /\ q \in Seq(P)
      BY <2>6
    <3> HIDE DEF p, q
    <3>2. <<p>> \o q \in Seq(P)
      BY <3>1
    <3> QED
      BY <3>2 DEF p, q
  <2> QED
    BY <2>2, <2>4, <2>7, <1>12 DEF Atop
<1> QED
  BY <1>11, <1>12, <1>13

\* A point over a way: its parts are its point and the rest.
LEMMA WayParts ==
  ASSUME NEW P, NEW p \in P, NEW q \in P, NEW s \in Seq(P), NEW t \in Seq(P)
  PROVE  /\ Atop(p, s) # <<>>
         /\ Atop(p, s) = Atop(q, t) => p = q /\ s = t
<1>1. Len(Atop(p, s)) = 1 + Len(s) /\ Len(s) \in Nat /\ Len(t) \in Nat /\ Len(Atop(q, t)) = 1 + Len(t)
  BY DEF Atop
<1>2. (Atop(p, s))[1] = p /\ (Atop(q, t))[1] = q
  BY DEF Atop
<1>3. \A i \in 1..Len(s) : (Atop(p, s))[i + 1] = s[i]
  BY DEF Atop
<1>4. \A i \in 1..Len(t) : (Atop(q, t))[i + 1] = t[i]
  BY DEF Atop
<1>5. Atop(p, s) # <<>>
  BY <1>1
<1>6. ASSUME Atop(p, s) = Atop(q, t) PROVE s = t
  <2>1. Len(s) = Len(t)
    BY <1>6, <1>1
  <2>2. \A i \in 1..Len(s) : s[i] = t[i]
    BY <1>3, <1>4, <1>6, <2>1
  <2> QED
    BY <2>1, <2>2
<1> QED
  BY <1>2, <1>5, <1>6

\* Points that are stored once have all in common that a point has.
Alike(P) == \A p, q \in P : p.id = q.id /\ p.count = q.count => p = q

\* Different positions of a table stand for different points or ways.
LEMMA WaysDiffer ==
  ASSUME NEW P, NEW T, Table(T, P)
  PROVE  \A i, j \in 0..Len(T) : Way(T, i) = Way(T, j) => i = j
<1> DEFINE n == Len(T)
           bad == {i \in 0..n : \E j \in 0..n : Way(T, i) = Way(T, j) /\ i < j}
<1>0. /\ n \in Nat
      /\ \A i \in 1..n : T[i].below \in Nat /\ T[i].below < i /\ T[i].point \in P
  BY TableParts
<1>1. /\ Way(T, 0) = <<>>
      /\ \A i \in 1..n : Way(T, i) = Atop(T[i].point, Way(T, T[i].below))
      /\ \A i \in 0..n : Way(T, i) \in Seq(P)
  BY WaysUnfold
<1>2. bad = {}
  <2> SUFFICES ASSUME bad # {} PROVE FALSE
    OBVIOUS
  <2>1. bad \in SUBSET Nat
    BY <1>0
  <2>2. PICK i \in bad : \A m \in bad : i <= m
    <3> HIDE DEF bad
    <3> QED BY <2>1, LeastNatural
  <2>3. PICK j \in 0..n : Way(T, i) = Way(T, j) /\ i < j
    BY <2>2
  <2>4. i \in 0..n /\ j \in 1..n /\ T[j].below \in 0..n
    <3>1. i \in 0..n /\ i \in Nat /\ j \in Nat /\ i < j
      BY <2>2, <2>3, <1>0
    <3>2. j \in 1..n
      BY <3>1, <2>3, <1>0
    <3> QED
      BY <3>1, <3>2, <1>0
  <2>5. Way(T, j) = Atop(T[j].point, Way(T, T[j].below)) /\ T[j].point \in P
        /\ Way(T, T[j].below) \in Seq(P)
    BY <2>4, <1>0, <1>1
  <2>6. CASE i = 0
    <3>1. Way(T, j) = <<>>
      BY <2>3, <2>6, <1>1
    <3>2. Atop(T[j].point, Way(T, T[j].below)) # <<>>
      BY <2>5, WayParts
    <3> QED
      BY <3>1, <3>2, <2>5
  <2>7. CASE i # 0
    <3>1. i \in 1..n /\ T[i].below \in 0..n /\ T[i].below < i /\ T[i].below \in Nat
      <4>1. i \in 1..n
        BY <2>4, <2>7, <1>0
      <4> QED BY <4>1, <1>0
    <3>2. Way(T, i) = Atop(T[i].point, Way(T, T[i].below)) /\ T[i].point \in P
          /\ Way(T, T[i].below) \in Seq(P)
      BY <3>1, <1>0, <1>1
    <3>3. T[i].point = T[j].point /\ Way(T, T[i].below) = Way(T, T[j].below)
      <4> DEFINE p == T[i].point
                 q == T[j].point
                 a == Way(T, T[i].below)
                 b == Way(T, T[j].below)
      <4>1. p \in P /\ q \in P /\ a \in Seq(P) /\ b \in Seq(P) /\ Atop(p, a) = Atop(q, b)
        BY <3>2, <2>5, <2>3
      <4> HIDE DEF p, q, a, b
      <4>2. p = q /\ a = b
        BY <4>1, WayParts
      <4> QED
        BY <4>2 DEF p, q, a, b
    <3>4. T[i].below = T[j].below
      <4>1. CASE T[i].below < T[j].below
        <5>1. T[i].below \in bad
          BY <4>1, <3>1, <3>3, <2>4
        <5> HIDE DEF bad
        <5> QED
          BY <5>1, <3>1, <2>2, <2>4
      <4>2. CASE T[j].below < T[i].below
        <5>1. T[j].below \in bad
          BY <4>2, <3>1, <3>3, <2>4
        <5>2. ~(i <= T[j].below)
          BY <4>2, <3>1, <2>4
        <5> HIDE DEF bad
        <5> QED
          BY <5>1, <5>2, <2>2
      <4> QED
        BY <4>1, <4>2, <3>1, <2>4
    <3>5. Identity(T[i]) = Identity(T[j])
      BY <3>3, <3>4 DEF Identity
    <3>6. i = j
      BY <3>1, <2>4, <3>5 DEF Table
    <3> QED
      BY <3>6, <2>3, <2>4
  <2> QED
    BY <2>6, <2>7
<1>3. ASSUME NEW i \in 0..n, NEW j \in 0..n, Way(T, i) = Way(T, j) PROVE i = j
  <2>1. ~(i < j)
    BY <1>2, <1>3
  <2>2. ~(j < i)
    BY <1>2, <1>3
  <2>3. i \in Nat /\ j \in Nat
    BY <1>0
  <2> HIDE DEF n
  <2> QED
    BY <2>1, <2>2, <2>3
<1> QED
  BY <1>3

\* The ways down from the positions of a table.
Ways(T) == {Way(T, i) : i \in 1..Len(T)}

\* A table has a position for every way down.
LEMMA WaysCount ==
  ASSUME NEW P, NEW T, Table(T, P)
  PROVE  Cardinality(Ways(T)) = Len(T)
<1> DEFINE seq == [i \in 1..Len(T) |-> Way(T, i)]
<1>0. Len(T) \in Nat
  BY DEF Table
<1>1. seq \in Seq(Ways(T)) /\ Len(seq) = Len(T)
  BY <1>0 DEF Ways
<1>2. \A i, j \in 1..Len(T) : Way(T, i) = Way(T, j) => i = j
  <2>1. \A i \in 1..Len(T) : i \in 0..Len(T)
    BY <1>0
  <2> QED
    BY <2>1, WaysDiffer
<1>3. \A i \in 1..Len(T) : seq[i] = Way(T, i)
  OBVIOUS
<1>4. \A x \in Ways(T) : \E i \in 1..Len(T) : seq[i] = x
  <2> HIDE DEF seq
  <2> QED BY <1>3 DEF Ways
<1> HIDE DEF seq
<1>5. Lists(seq, Ways(T))
  BY <1>1, <1>2, <1>3, <1>4 DEF Lists
<1> QED
  BY <1>1, <1>5, ListLength

\* A table that goes on where another ends.
Continued(T, U) == Len(T) <= Len(U) /\ \A i \in 1..Len(T) : U[i] = T[i]

\* A table that goes on keeps the ways down of the one before.
LEMMA WaysKept ==
  ASSUME NEW P, NEW T, Table(T, P), NEW U, Table(U, P), Continued(T, U)
  PROVE  \A i \in 0..Len(T) : i \in 0..Len(U) /\ Way(U, i) = Way(T, i)
<1> DEFINE n == Len(T)
           bad == {i \in 0..n : Way(U, i) # Way(T, i)}
<1>0. n \in Nat /\ Len(U) \in Nat /\ n <= Len(U)
  BY TableParts DEF Continued
<1>1. bad = {}
  <2> SUFFICES ASSUME bad # {} PROVE FALSE
    OBVIOUS
  <2>1. bad \in SUBSET Nat
    BY <1>0
  <2>2. PICK i \in bad : \A m \in bad : i <= m
    <3> HIDE DEF bad
    <3> QED BY <2>1, LeastNatural
  <2>3. i # 0
    <3>1. Way(U, 0) = <<>> /\ Way(T, 0) = <<>>
      BY WaysUnfold
    <3> QED BY <3>1, <2>2
  <2>4. i \in 1..n /\ i \in 1..Len(U)
    <3>1. i \in 0..n
      BY <2>2
    <3> HIDE DEF n, bad
    <3> QED BY <3>1, <2>3, <1>0
  <2> DEFINE b == T[i].below
  <2>5. b \in Nat /\ b < i /\ b \in 0..n /\ i \in Nat
    BY <2>4, TableParts
  <2>6. Way(T, i) = Atop(T[i].point, Way(T, b)) /\ Way(U, i) = Atop(U[i].point, Way(U, U[i].below))
    BY <2>4, WaysUnfold
  <2>7. U[i] = T[i]
    BY <2>4 DEF Continued
  <2>8. b \notin bad
    <3> HIDE DEF b, bad, n
    <3>1. ~(i <= b)
      BY <2>5
    <3> QED
      BY <3>1, <2>2
  <2>9. Way(U, b) = Way(T, b)
    <3> HIDE DEF b
    <3> QED BY <2>5, <2>8
  <2> QED
    BY <2>2, <2>6, <2>7, <2>9
<1>2. ASSUME NEW i \in 0..n PROVE i \in 0..Len(U)
  <2> HIDE DEF n
  <2> QED BY <1>0
<1> QED
  BY <1>1, <1>2

\* A table is of the form of its entries.
LEMMA TableIs ==
  ASSUME NEW P, NEW T \in Seq([point : P, below : Nat]),
         \A i \in 1..Len(T) : T[i].below < i,
         \A i, j \in 1..Len(T) : Identity(T[i]) = Identity(T[j]) => i = j
  PROVE  Table(T, P)
BY DEF Table

\* A table with one more point than another, above one it has and not yet there.
LEMMA TableMore ==
  ASSUME NEW P, NEW T, Table(T, P), NEW p \in P, NEW t \in 0..Len(T),
         NEW entry, entry = [point |-> p, below |-> t],
         \A i \in 1..Len(T) : Identity(T[i]) # Identity(entry)
  PROVE  /\ Table(Append(T, entry), P) /\ Continued(T, Append(T, entry))
         /\ Len(Append(T, entry)) = Len(T) + 1
         /\ Append(T, entry)[Len(T) + 1] = entry
<1> DEFINE n == Len(T)
           U == Append(T, entry)
           E == [point : P, below : Nat]
<1>1. n \in Nat /\ T \in Seq(E)
  BY TableParts DEF Table
<1>2. entry \in E /\ entry.below = t /\ t \in Nat /\ t <= n
  BY <1>1
<1> HIDE DEF E
<1>3. U \in Seq(E) /\ Len(U) = n + 1 /\ U[n + 1] = entry /\ \A i \in 1..n : U[i] = T[i]
  BY <1>1, <1>2
<1> HIDE DEF U
<1>4. ASSUME NEW i \in 1..Len(U) PROVE U[i].below < i /\ (i \in 1..n \/ i = n + 1)
  <2>1. i \in 1..n \/ i = n + 1
    <3> HIDE DEF n
    <3> QED BY <1>1, <1>3
  <2>2. CASE i \in 1..n
    <3>1. U[i] = T[i] /\ T[i].below < i
      BY <2>2, <1>3, TableParts
    <3> QED
      BY <3>1, <2>1
  <2>3. CASE i = n + 1
    <3>1. t < n + 1
      <4> HIDE DEF n
      <4> QED BY <1>1, <1>2
    <3> QED
      BY <2>3, <3>1, <1>2, <1>3
  <2> QED
    BY <2>1, <2>2, <2>3
<1>5. ASSUME NEW i \in 1..Len(U), NEW j \in 1..Len(U), Identity(U[i]) = Identity(U[j]) PROVE i = j
  <2>1. (i \in 1..n \/ i = n + 1) /\ (j \in 1..n \/ j = n + 1)
    BY <1>4
  <2>2. CASE i \in 1..n /\ j \in 1..n
    <3>1. Identity(T[i]) = Identity(T[j])
      BY <2>2, <1>3, <1>5
    <3> QED
      BY <2>2, <3>1 DEF Table
  <2>3. CASE i = n + 1 /\ j \in 1..n
    BY <2>3, <1>3, <1>5
  <2>4. CASE j = n + 1 /\ i \in 1..n
    BY <2>4, <1>3, <1>5
  <2> QED
    BY <2>1, <2>2, <2>3, <2>4
<1>6. Table(U, P)
  <2> HIDE DEF n
  <2> QED BY <1>3, <1>4, <1>5, TableIs DEF E
<1>7. Continued(T, U)
  <2>1. n <= n + 1
    <3> HIDE DEF n
    <3> QED BY <1>1
  <2> QED
    BY <1>3, <2>1 DEF Continued
<1> QED
  BY <1>3, <1>6, <1>7 DEF U

\* Sharing a point with a table at a position of it.
Shared(T, t, p, progress) ==
    /\ Continued(T, progress.points)
    /\ progress.tip \in 0..Len(progress.points)
    /\ Way(progress.points, progress.tip) = Atop(p, Way(T, t))
    /\ Ways(progress.points) = Ways(T) \cup {Atop(p, Way(T, t))}

\* A point is stored for a way down that is not there yet, and for no other.
LEMMA ShareIs ==
  ASSUME NEW P, Alike(P), NEW progress, Table(progress.points, P),
         progress = [points |-> progress.points, tip |-> progress.tip],
         progress.tip \in 0..Len(progress.points), NEW p \in P
  PROVE  /\ Table(Share(progress, p).points, P)
         /\ Shared(progress.points, progress.tip, p, Share(progress, p))
<1> DEFINE T == progress.points
           t == progress.tip
           n == Len(T)
           entry == [point |-> p, below |-> t]
           same == {i \in DOMAIN T : Identity(T[i]) = Identity(entry)}
           result == Share(progress, p)
<1>1. n \in Nat /\ DOMAIN T = 1..n
  BY TableParts
<1>2. result = IF same = {}
        THEN [points |-> Append(T, entry), tip |-> Len(T) + 1]
        ELSE [progress EXCEPT !.tip = CHOOSE i \in same : TRUE]
  BY DEF Share
<1> HIDE DEF result
<1>3. CASE same = {}
  <2> DEFINE U == Append(T, entry)
  <2>1. result.points = U /\ result.tip = n + 1
    BY <1>2, <1>3
  <2>2. \A i \in 1..n : Identity(T[i]) # Identity(entry)
    BY <1>1, <1>3
  <2>3. /\ Table(U, P) /\ Continued(T, U) /\ Len(U) = n + 1 /\ U[n + 1] = entry
    <3> HIDE DEF T, t, entry
    <3>1. entry = [point |-> p, below |-> t] /\ t \in 0..Len(T) /\ Table(T, P)
      BY DEF entry, t, T
    <3> QED
      BY <3>1, <2>2, TableMore
  <2> HIDE DEF U
  <2>4. n + 1 \in 1..Len(U) /\ n + 1 \in 0..Len(U)
    <3> HIDE DEF n
    <3> QED BY <1>1, <2>3
  <2>5. Way(U, n + 1) = Atop(p, Way(T, t))
    <3>1. Way(U, n + 1) = Atop(U[n + 1].point, Way(U, U[n + 1].below))
      BY <2>3, <2>4, WaysUnfold
    <3>2. U[n + 1].point = p /\ U[n + 1].below = t
      BY <2>3
    <3>3. Way(U, t) = Way(T, t)
      BY <2>3, WaysKept
    <3> QED
      BY <3>1, <3>2, <3>3
  <2>6. Ways(U) = Ways(T) \cup {Atop(p, Way(T, t))}
    <3>1. \A i \in 1..Len(U) : i \in 1..n \/ i = n + 1
      <4> HIDE DEF n
      <4> QED BY <1>1, <2>3
    <3>2. \A i \in 1..n : i \in 1..Len(U) /\ i \in 0..n
      <4> HIDE DEF n
      <4> QED BY <1>1, <2>3
    <3>3. \A i \in 1..n : Way(U, i) = Way(T, i)
      BY <3>2, <2>3, WaysKept
    <3> HIDE DEF n
    <3>4. Ways(T) = {Way(T, i) : i \in 1..n} /\ Ways(U) = {Way(U, i) : i \in 1..Len(U)}
      BY DEF Ways, n
    <3> HIDE DEF T, t
    <3> QED
      BY <3>1, <3>2, <3>3, <3>4, <2>4, <2>5
  <2> QED
    BY <2>1, <2>3, <2>4, <2>5, <2>6 DEF Shared, result
<1>4. CASE same # {}
  <2> DEFINE i == CHOOSE i \in same : TRUE
  <2>1. i \in same
    BY <1>4
  <2> HIDE DEF i
  <2>2. result.points = T /\ result.tip = i
    BY <1>2, <1>4 DEF i
  <2>3. i \in 1..n /\ Identity(T[i]) = Identity(entry) /\ i \in 0..n
    <3>1. i \in 1..n /\ Identity(T[i]) = Identity(entry)
      BY <2>1, <1>1
    <3> HIDE DEF n
    <3> QED BY <3>1, <1>1
  <2>4. T[i].below = t /\ T[i].point.id = p.id /\ T[i].point.count = p.count
    BY <2>3 DEF Identity
  <2>5. T[i].point = p
    BY <2>3, <2>4, TableParts DEF Alike
  <2>6. Way(T, i) = Atop(p, Way(T, t))
    <3>1. Way(T, i) = Atop(T[i].point, Way(T, T[i].below))
      BY <2>3, WaysUnfold
    <3> QED
      BY <3>1, <2>4, <2>5
  <2>7. Ways(T) = Ways(T) \cup {Atop(p, Way(T, t))}
    BY <2>3, <2>6 DEF Ways
  <2>8. Continued(T, T)
    <3>1. n <= n
      <4> HIDE DEF n
      <4> QED BY <1>1
    <3> QED
      BY <3>1 DEF Continued
  <2> QED
    BY <2>2, <2>3, <2>6, <2>7, <2>8 DEF Shared, result
<1> QED
  BY <1>3, <1>4

\* What continues a table that continues another continues it.
LEMMA ContinuedOn ==
  ASSUME NEW P, NEW T, Table(T, P), NEW U, Table(U, P), NEW W, Table(W, P),
         Continued(T, U), Continued(U, W)
  PROVE  Continued(T, W)
<1>1. Len(T) \in Nat /\ Len(U) \in Nat /\ Len(W) \in Nat
  BY TableParts
<1>2. \A i \in 1..Len(T) : i \in 1..Len(U)
  BY <1>1 DEF Continued
<1> QED
  BY <1>1, <1>2 DEF Continued

----------------------------------------------------------------------------
(* A lane in a table, and lanes in a snapshot.                             *)

\* A sequence from one of its places on.
Rest(s, i) == SubSeq(s, i, Len(s))

\* The rest of a sequence from a place on is the entry there and the rest above.
LEMMA RestIs ==
  ASSUME NEW P, NEW s \in Seq(P)
  PROVE  /\ Rest(s, Len(s) + 1) = <<>> /\ Rest(s, 1) = s
         /\ \A i \in 1..Len(s) : Atop(s[i], Rest(s, i + 1)) = Rest(s, i)
<1> DEFINE n == Len(s)
<1>1. n \in Nat /\ DOMAIN s = 1..n
  OBVIOUS
<1>2. Rest(s, n + 1) = <<>>
  BY <1>1 DEF Rest
<1>3. Rest(s, 1) = s
  BY <1>1 DEF Rest
<1>4. ASSUME NEW i \in 1..n PROVE Atop(s[i], Rest(s, i + 1)) = Rest(s, i)
  <2>1. i \in Nat /\ i >= 1 /\ i <= n
    BY <1>1
  <2> DEFINE a == Rest(s, i)
             b == Rest(s, i + 1)
  <2>2. /\ a \in Seq(P) /\ Len(a) = (n - i) + 1
        /\ \A k \in 1..((n - i) + 1) : a[k] = s[(i + k) - 1]
    BY <1>1, <2>1 DEF Rest
  <2>3. /\ b \in Seq(P) /\ Len(b) = n - i
        /\ \A k \in 1..(n - i) : b[k] = s[i + k]
    <3> DEFINE m == i + 1
    <3>1. m \in Nat /\ m >= 1 /\ m <= n + 1 /\ (n - m) + 1 = n - i
          /\ \A k \in 1..(n - i) : (m + k) - 1 = i + k
      BY <1>1, <2>1
    <3> DEFINE r == Rest(s, m)
    <3> HIDE DEF m
    <3>2. r \in Seq(P) /\ Len(r) = (n - m) + 1
          /\ \A k \in 1..((n - m) + 1) : r[k] = s[(m + k) - 1]
      BY <1>1, <3>1 DEF Rest
    <3> HIDE DEF r
    <3>3. r \in Seq(P) /\ Len(r) = n - i /\ \A k \in 1..(n - i) : r[k] = s[i + k]
      BY <3>1, <3>2
    <3> QED
      BY <3>3 DEF r, m
  <2>4. s[i] \in P
    BY <1>1
  <2> HIDE DEF a, b, n
  <2> DEFINE c == Atop(s[i], b)
  <2>5. c \in Seq(P) /\ Len(c) = (n - i) + 1 /\ c[1] = s[i]
        /\ \A k \in 1..(n - i) : c[k + 1] = b[k]
    <3> DEFINE p == s[i]
    <3>1. p \in P /\ b \in Seq(P) /\ Len(b) = n - i /\ n - i \in Nat
      BY <1>1, <2>1, <2>3, <2>4
    <3> HIDE DEF p
    <3>2. <<p>> \o b \in Seq(P) /\ Len(<<p>> \o b) = Len(b) + 1 /\ (<<p>> \o b)[1] = p
          /\ \A k \in 1..Len(b) : (<<p>> \o b)[k + 1] = b[k]
      BY <3>1
    <3>3. Len(<<p>> \o b) = (n - i) + 1
      BY <3>1, <3>2, <1>1, <2>1
    <3> QED
      BY <3>1, <3>2, <3>3 DEF p, Atop
  <2> HIDE DEF c
  <2>6. ASSUME NEW k \in 1..((n - i) + 1) PROVE a[k] = c[k]
    <3>1. CASE k = 1
      BY <3>1, <1>1, <2>1, <2>2, <2>5
    <3>2. CASE k # 1
      <4>1. k - 1 \in 1..(n - i) /\ (k - 1) + 1 = k /\ i + (k - 1) = (i + k) - 1
        BY <3>2, <1>1, <2>1
      <4> QED
        BY <4>1, <2>2, <2>3, <2>5
    <3> QED
      BY <3>1, <3>2
  <2> QED
    BY <2>2, <2>5, <2>6 DEF a, b, c
<1> QED
  BY <1>2, <1>3, <1>4

\* A table with the last points of a lane, and the position of the highest.
LaneFrom(T, P, s, i, progress) ==
    /\ Table(progress.points, P) /\ Continued(T, progress.points)
    /\ progress.tip \in 0..Len(progress.points)
    /\ Way(progress.points, progress.tip) = Rest(s, i)
    /\ Ways(progress.points) = Ways(T) \cup {Rest(s, j) : j \in i..Len(s)}

\* The points of a lane, added to a table from the last to the head.
LEMMA LaneEncoded ==
  ASSUME NEW P, Alike(P), NEW T, Table(T, P), NEW s \in Seq(P)
  PROVE  LET shared == FoldLeft(Share, [points |-> T, tip |-> 0], Reverse(s))
         IN  /\ shared \in Progress(P)
             /\ LaneFrom(T, P, s, 1, shared)
<1> DEFINE n == Len(s)
           base == [points |-> T, tip |-> 0]
           up == Reverse(s)
<1>1. n \in Nat /\ DOMAIN s = 1..n /\ \A i \in 1..n : s[i] \in P
  OBVIOUS
<1>2. /\ up \in Seq(P) /\ Len(up) = n
      /\ \A k \in 1..n : up[k] = s[(n - k) + 1]
  BY ReverseIs
<1> HIDE DEF up
<1>3. base \in Progress(P)
  BY DEF Progress, Table
<1> HIDE DEF base
<1>4. PICK g \in [0..n -> Progress(P)] :
         Shares(g, base, up) /\ FoldLeft(Share, base, up) = g[n]
  <2>1. \E g \in [0..Len(up) -> Progress(P)] :
           Shares(g, base, up) /\ FoldLeft(Share, base, up) = g[Len(up)]
    BY <1>2, <1>3, SharesInOrder
  <2> QED
    BY <2>1, <1>2
<1> DEFINE bad == {k \in 0..n : ~LaneFrom(T, P, s, (n - k) + 1, g[k])}
<1>5. bad = {}
  <2> SUFFICES ASSUME bad # {} PROVE FALSE
    OBVIOUS
  <2>1. bad \in SUBSET Nat
    BY <1>1
  <2>2. PICK k \in bad : \A m \in bad : k <= m
    <3> HIDE DEF bad
    <3> QED BY <2>1, LeastNatural
  <2>3. k \in 0..n /\ ~LaneFrom(T, P, s, (n - k) + 1, g[k]) /\ k \in Nat
    BY <2>2, <1>1
  <2>4. CASE k = 0
    <3>1. g[k].points = T /\ g[k].tip = 0
      BY <2>4, <1>4 DEF Shares, base
    <3>2. (n - k) + 1 = n + 1 /\ {Rest(s, j) : j \in (n + 1)..n} = {}
      BY <2>4, <1>1
    <3>3. Rest(s, n + 1) = <<>> /\ Way(T, 0) = <<>>
      BY RestIs, WaysUnfold
    <3>4. Continued(T, T) /\ 0 \in 0..Len(T)
      <4>1. Len(T) \in Nat
        BY TableParts
      <4>2. Len(T) <= Len(T)
        BY <4>1
      <4> QED
        BY <4>1, <4>2 DEF Continued
    <3>5. LaneFrom(T, P, s, n + 1, g[k])
      BY <3>1, <3>2, <3>3, <3>4 DEF LaneFrom
    <3> QED
      BY <3>2, <3>5, <2>3
  <2>5. CASE k # 0
    <3> DEFINE i == (n - k) + 1
               before == g[k - 1]
               after == g[k]
    <3>1. /\ k \in 1..n /\ k - 1 \in 0..n /\ ~(k <= k - 1)
          /\ i \in 1..n /\ (n - (k - 1)) + 1 = i + 1 /\ i \in Nat
      <4> HIDE DEF bad, n
      <4> QED BY <2>3, <2>5, <1>1
    <3>2. k - 1 \notin bad
      <4> HIDE DEF bad
      <4> QED BY <2>2, <3>1
    <3>3. LaneFrom(T, P, s, i + 1, before)
      BY <3>1, <3>2
    <3>4. after = Share(before, s[i]) /\ s[i] \in P
      <4>1. g[k] = Share(g[k - 1], up[k]) /\ up[k] = s[(n - k) + 1]
        BY <1>2, <1>4, <3>1 DEF Shares
      <4> QED
        BY <4>1, <3>1, <1>1
    <3>5. before \in Progress(P)
      BY <1>4, <3>1
    <3> HIDE DEF before, after, i, bad
    <3>6. before = [points |-> before.points, tip |-> before.tip]
      BY <3>5 DEF Progress
    <3>7. /\ Table(after.points, P)
          /\ Shared(before.points, before.tip, s[i], after)
      <4>1. Table(before.points, P) /\ before.tip \in 0..Len(before.points)
        BY <3>3 DEF LaneFrom
      <4> QED
        BY <4>1, <3>4, <3>6, ShareIs
    <3>8. Continued(T, after.points)
      BY <3>3, <3>7, ContinuedOn DEF LaneFrom, Shared
    <3>9. Way(after.points, after.tip) = Rest(s, i)
      <4>1. Way(before.points, before.tip) = Rest(s, i + 1)
        BY <3>3 DEF LaneFrom
      <4>2. Way(after.points, after.tip) = Atop(s[i], Way(before.points, before.tip))
        BY <3>7 DEF Shared
      <4>3. Atop(s[i], Rest(s, i + 1)) = Rest(s, i)
        BY <3>1, RestIs
      <4> QED
        BY <4>1, <4>2, <4>3
    <3>10. Ways(after.points) = Ways(T) \cup {Rest(s, j) : j \in i..n}
      <4>1. Ways(after.points) = Ways(T) \cup {Rest(s, j) : j \in (i + 1)..n} \cup {Rest(s, i)}
        <5>1. /\ Ways(before.points) = Ways(T) \cup {Rest(s, j) : j \in (i + 1)..n}
              /\ Way(before.points, before.tip) = Rest(s, i + 1)
          BY <3>3 DEF LaneFrom
        <5>2. Ways(after.points) = Ways(before.points) \cup {Atop(s[i], Rest(s, i + 1))}
          BY <5>1, <3>7 DEF Shared
        <5>3. Atop(s[i], Rest(s, i + 1)) = Rest(s, i)
          BY <3>1, RestIs
        <5> QED
          BY <5>1, <5>2, <5>3
      <4>2. i..n = ((i + 1)..n) \cup {i}
        <5> HIDE DEF n
        <5> QED BY <3>1, <1>1
      <4> HIDE DEF n
      <4> QED
        BY <4>1, <4>2
    <3>11. LaneFrom(T, P, s, i, after)
      BY <3>7, <3>8, <3>9, <3>10 DEF LaneFrom, Shared
    <3> QED
      BY <3>11, <2>3 DEF i, after
  <2> QED
    BY <2>4, <2>5
<1>6. LaneFrom(T, P, s, 1, g[n])
  <2>1. n \in 0..n /\ (n - n) + 1 = 1
    <3> HIDE DEF n
    <3> QED BY <1>1
  <2>2. LaneFrom(T, P, s, (n - n) + 1, g[n])
    BY <2>1, <1>5
  <2> QED
    BY <2>1, <2>2
<1>7. g[n] \in Progress(P)
  <2>1. n \in 0..n
    <3> HIDE DEF n
    <3> QED BY <1>1
  <2> QED
    BY <1>4, <2>1
<1> QED
  BY <1>4, <1>6, <1>7 DEF base, up

\* A lane of points of P as it goes into a snapshot.
IsStored(lane, P) ==
    /\ lane = [head |-> lane.head, base |-> lane.base, points |-> lane.points]
    /\ lane.points \in Seq(P)

\* What a snapshot of lanes of S is made of.
Topologies(P, S) ==
    [points : Seq([point : P, below : Nat]),
     lanes  : Seq([head : {lane.head : lane \in S}, base : {lane.base : lane \in S}, tip : Nat])]

\* The snapshot of no lanes.
Nothing == [points |-> <<>>, lanes |-> <<>>]

\* Adding a lane makes a snapshot of a snapshot.
LEMMA EncodeLaneType ==
  ASSUME NEW P, NEW S, \A lane \in S : IsStored(lane, P),
         NEW topology \in Topologies(P, S), NEW lane \in S
  PROVE  EncodeLane(topology, lane) \in Topologies(P, S)
<1> DEFINE base == [points |-> topology.points, tip |-> 0]
           shared == FoldLeft(Share, base, Reverse(lane.points))
           entry == [head |-> lane.head, base |-> lane.base, tip |-> shared.tip]
           R == [head : {one.head : one \in S}, base : {one.base : one \in S}, tip : Nat]
           E == [point : P, below : Nat]
<1>1. topology.points \in Seq(E) /\ topology.lanes \in Seq(R)
  BY DEF Topologies
<1>2. base \in Progress(P)
  BY <1>1 DEF Progress
<1>3. Reverse(lane.points) \in Seq(P)
  BY ReverseIs DEF IsStored
<1> HIDE DEF base
<1>4. shared \in Progress(P)
  <2> DEFINE up == Reverse(lane.points)
  <2>1. PICK g \in [0..Len(up) -> Progress(P)] : FoldLeft(Share, base, up) = g[Len(up)]
    BY <1>2, <1>3, SharesInOrder
  <2>2. Len(up) \in 0..Len(up)
    <3> HIDE DEF up
    <3>1. up \in Seq(P)
      BY <1>3 DEF up
    <3> QED
      BY <3>1
  <2> QED
    BY <2>1, <2>2
<1> HIDE DEF shared
<1>5. shared.points \in Seq(E) /\ shared.tip \in Nat
  BY <1>4 DEF Progress
<1>6. entry \in R
  BY <1>5
<1> HIDE DEF entry, R, E
<1>7. Append(topology.lanes, entry) \in Seq(R)
  BY <1>1, <1>6
<1>8. EncodeLane(topology, lane) = [points |-> shared.points, lanes |-> Append(topology.lanes, entry)]
  BY DEF EncodeLane, shared, base, entry
<1> QED
  BY <1>5, <1>7, <1>8 DEF Topologies, R, E

\* The stages of storing lanes one after the other.
Encodes(g, order) ==
    /\ g[0] = Nothing
    /\ \A k \in 1..Len(order) : g[k] = EncodeLane(g[k - 1], order[k])

\* Encoding a sequence of lanes stores them one after the other.
LEMMA LanesInOrder ==
  ASSUME NEW P, NEW S, \A lane \in S : IsStored(lane, P), NEW order \in Seq(S)
  PROVE  \E g \in [0..Len(order) -> Topologies(P, S)] :
            Encodes(g, order) /\ Encode(order) = g[Len(order)]
<1> DEFINE V == Topologies(P, S)
           n == Len(order)
           D == SUBSET DOMAIN order
           F == [x \in V \X S |-> EncodeLane(x[1], x[2])]
           Value(some, it) == IF some = {} THEN Nothing
                              ELSE EncodeLane(it[some \ {Max(some)}], order[Max(some)])
           Iter(it) == it = [some \in D |-> Value(some, it)]
           iter == CHOOSE it : Iter(it)
<1>0. n \in Nat /\ DOMAIN order = 1..n /\ \A i \in 1..n : order[i] \in S
  OBVIOUS
<1>1. F \in [V \X S -> V] /\ \A v \in V, lane \in S : F[<<v, lane>>] = EncodeLane(v, lane)
  <2> HIDE DEF V
  <2>1. \A v \in V, lane \in S : EncodeLane(v, lane) \in V
    BY EncodeLaneType DEF V
  <2> QED
    BY <2>1
<1>2. PICK it \in [D -> V] : \A some \in D : FoldStep(F, Nothing, order, it, some)
  <2>1. Nothing \in V
    BY DEF Topologies, Nothing
  <2> HIDE DEF F, V
  <2> QED BY <1>1, <2>1, FoldSolved
<1>b. \A some \in D : some # {} => Max(some) \in DOMAIN order /\ some \ {Max(some)} \in D
  <2> SUFFICES ASSUME NEW some \in D, some # {}
               PROVE  Max(some) \in DOMAIN order
    OBVIOUS
  <2>1. some \in SUBSET (1..n)
    BY <1>0
  <2> HIDE DEF n
  <2> QED
    BY <2>1, <1>0, MaxIsGreatest
<1>3. Iter(it)
  <2>1. ASSUME NEW some \in D PROVE it[some] = Value(some, it)
    <3>1. CASE some = {}
      BY <1>2, <3>1 DEF FoldStep
    <3>2. CASE some # {}
      <4>1. it[some] = F[<<it[some \ {Max(some)}], order[Max(some)]>>]
        <5> HIDE DEF F
        <5> QED BY <1>2, <3>2 DEF FoldStep
      <4>2. it[some \ {Max(some)}] \in V /\ order[Max(some)] \in S
        BY <1>2, <1>b, <3>2, <1>0
      <4> HIDE DEF F, V
      <4> QED
        BY <4>1, <4>2, <1>1, <3>2
    <3> QED
      BY <3>1, <3>2
  <2> HIDE DEF Value, D
  <2> QED
    BY <2>1, <1>2
<1>4. Iter(iter)
  <2> HIDE DEF Iter
  <2> QED BY <1>3
<1>5. Encode(order) = iter[DOMAIN order]
  BY DEF Encode, FoldLeft, MapThenFoldSet, Nothing
<1> HIDE DEF iter
<1>6. \A some \in D : iter[some] = Value(some, iter)
  <2> HIDE DEF Value
  <2> QED BY <1>4
<1> DEFINE g == [k \in 0..n |-> iter[1..k]]
<1>7. g[0] = Nothing
  <2>1. 1..0 = {} /\ 0 \in 0..n /\ {} \in D
    BY <1>0
  <2> QED
    BY <2>1, <1>6
<1>8. ASSUME NEW k \in 1..n PROVE g[k] = EncodeLane(g[k - 1], order[k])
  <2>1. k \in Nat \ {0} /\ k \in 0..n /\ k - 1 \in 0..n /\ 1..k \in D
    BY <1>0
  <2>2. Max(1..k) = k /\ (1..k) \ {k} = 1..(k - 1) /\ 1..k # {}
    BY <2>1, PlacesUpTo
  <2>3. iter[1..k] = EncodeLane(iter[1..(k - 1)], order[k])
    BY <2>1, <2>2, <1>6
  <2> HIDE DEF D, n
  <2> QED
    BY <2>1, <2>3
<1>9. \A k \in 0..n : g[k] \in V
  <2> DEFINE bad == {k \in 0..n : g[k] \notin V}
  <2> SUFFICES ASSUME bad # {} PROVE FALSE
    OBVIOUS
  <2>1. bad \in SUBSET Nat
    BY <1>0
  <2>2. PICK k \in bad : \A m \in bad : k <= m
    <3> HIDE DEF bad
    <3> QED BY <2>1, LeastNatural
  <2>3. k # 0
    <3>1. Nothing \in V
      BY DEF Topologies, Nothing
    <3> HIDE DEF g, V
    <3> QED BY <2>2, <1>7, <3>1
  <2>4. k \in 1..n /\ k - 1 \in 0..n /\ ~(k <= k - 1)
    BY <2>2, <2>3, <1>0
  <2>5. k - 1 \notin bad
    <3> HIDE DEF bad
    <3> QED BY <2>4, <2>2
  <2>6. g[k - 1] \in V
    <3> HIDE DEF g
    <3> QED BY <2>4, <2>5
  <2>7. order[k] \in S
    BY <2>4, <1>0
  <2> HIDE DEF g, V
  <2>8. g[k] \in V
    BY <2>4, <2>6, <2>7, <1>8, EncodeLaneType DEF V
  <2> QED
    BY <2>2, <2>8
<1>10. g \in [0..n -> V] /\ g[n] = iter[DOMAIN order]
  <2>1. n \in 0..n
    BY <1>0
  <2> HIDE DEF V
  <2> QED
    BY <1>0, <1>9, <2>1
<1>11. Encodes(g, order)
  <2> HIDE DEF g
  <2> QED BY <1>7, <1>8 DEF Encodes
<1> QED
  <2> HIDE DEF g
  <2> QED BY <1>5, <1>10, <1>11

\* The ways down from the points of a lane.
Rests(s) == {Rest(s, i) : i \in 1..Len(s)}

\* A lane of a snapshot leads where the lane it was made of does.
IsEncoded(T, stored, lane) ==
    /\ stored.head = lane.head /\ stored.base = lane.base
    /\ stored.tip \in 0..Len(T) /\ Way(T, stored.tip) = lane.points

\* A snapshot of the first k lanes: every way down of theirs once, and none else.
Snapshot(P, order, k, topology) ==
    /\ Table(topology.points, P)
    /\ Len(topology.lanes) = k
    /\ \A j \in 1..k : IsEncoded(topology.points, topology.lanes[j], order[j])
    /\ Ways(topology.points) = UNION {Rests(order[j].points) : j \in 1..k}

\* A lane that is encoded in a table stays so when it goes on.
LEMMA StaysEncoded ==
  ASSUME NEW P, NEW T, Table(T, P), NEW U, Table(U, P), Continued(T, U),
         NEW stored, NEW lane, IsEncoded(T, stored, lane)
  PROVE  IsEncoded(U, stored, lane)
BY WaysKept DEF IsEncoded

\* Adding a lane to a snapshot adds its ways down.
LEMMA SnapshotMore ==
  ASSUME NEW P, Alike(P), NEW S, \A lane \in S : IsStored(lane, P), NEW order \in Seq(S),
         NEW k \in 1..Len(order), NEW before \in Topologies(P, S),
         Snapshot(P, order, k - 1, before)
  PROVE  Snapshot(P, order, k, EncodeLane(before, order[k]))
<1> DEFINE lane == order[k]
           s == lane.points
           T == before.points
           shared == FoldLeft(Share, [points |-> T, tip |-> 0], Reverse(s))
           entry == [head |-> lane.head, base |-> lane.base, tip |-> shared.tip]
           after == EncodeLane(before, lane)
           m == k - 1
           R == [head : {one.head : one \in S}, base : {one.base : one \in S}, tip : Nat]
<1>0. lane \in S /\ k \in Nat /\ m \in Nat /\ m + 1 = k
  OBVIOUS
<1>1. s \in Seq(P)
  BY <1>0 DEF IsStored
<1>2. after = [points |-> shared.points, lanes |-> Append(before.lanes, entry)]
  BY DEF EncodeLane
<1>3. Table(T, P) /\ Len(before.lanes) = m /\ before.lanes \in Seq(R)
  BY DEF Snapshot, Topologies
<1>4. LaneFrom(T, P, s, 1, shared)
  <2> HIDE DEF s, T
  <2> QED BY <1>1, <1>3, LaneEncoded
<1>5. entry \in R
  <2>1. shared \in Progress(P)
    <3> HIDE DEF s, T
    <3> QED BY <1>1, <1>3, LaneEncoded
  <2>2. shared.tip \in Nat
    BY <2>1 DEF Progress
  <2> HIDE DEF shared, lane
  <2> QED BY <1>0, <2>2
<1> HIDE DEF shared, R
<1>6. entry.head = lane.head /\ entry.base = lane.base /\ entry.tip = shared.tip
  OBVIOUS
<1> HIDE DEF entry, after, m
<1>7. /\ Len(after.lanes) = k /\ after.lanes[k] = entry
      /\ \A j \in 1..m : after.lanes[j] = before.lanes[j]
      /\ after.points = shared.points
  <2> DEFINE old == before.lanes
  <2>1. old \in Seq(R) /\ Len(old) = m
    BY <1>3
  <2> HIDE DEF old
  <2>2. Len(Append(old, entry)) = k /\ Append(old, entry)[k] = entry
        /\ \A j \in 1..m : Append(old, entry)[j] = old[j]
    BY <2>1, <1>0, <1>5
  <2> QED
    BY <2>2, <1>2 DEF old
<1>8. Rest(s, 1) = s
  BY <1>1, RestIs
<1>9. /\ Table(after.points, P) /\ Continued(T, after.points)
      /\ shared.tip \in 0..Len(after.points) /\ Way(after.points, shared.tip) = s
      /\ Ways(after.points) = Ways(T) \cup Rests(s)
  BY <1>4, <1>7, <1>8 DEF LaneFrom, Rests
<1>10. \A j \in 1..k : j \in 1..m \/ j = k
  BY <1>0
<1>11. ASSUME NEW j \in 1..k PROVE IsEncoded(after.points, after.lanes[j], order[j])
  <2>1. CASE j \in 1..m
    <3>1. IsEncoded(T, before.lanes[j], order[j])
      BY <2>1 DEF Snapshot, m
    <3>2. IsEncoded(after.points, before.lanes[j], order[j])
      BY <3>1, <1>3, <1>9, StaysEncoded
    <3> QED
      BY <2>1, <3>2, <1>7
  <2>2. CASE j = k
    BY <2>2, <1>6, <1>7, <1>9 DEF IsEncoded
  <2> QED
    BY <1>10, <2>1, <2>2
<1>12. Ways(after.points) = UNION {Rests(order[j].points) : j \in 1..k}
  <2>1. Ways(T) = UNION {Rests(order[j].points) : j \in 1..m}
    BY DEF Snapshot, m
  <2>2. 1..k = 1..m \cup {k}
    BY <1>0
  <2>3. UNION {Rests(order[j].points) : j \in 1..k}
          = (UNION {Rests(order[j].points) : j \in 1..m}) \cup Rests(order[k].points)
    BY <2>2
  <2> QED
    BY <2>1, <2>3, <1>9
<1> QED
  BY <1>7, <1>9, <1>11, <1>12 DEF Snapshot, after

\* The snapshot of some lanes.
LEMMA EncodeIs ==
  ASSUME NEW P, Alike(P), NEW S, \A lane \in S : IsStored(lane, P), NEW order \in Seq(S)
  PROVE  Encode(order) \in Topologies(P, S) /\ Snapshot(P, order, Len(order), Encode(order))
<1> DEFINE n == Len(order)
<1>0. n \in Nat
  OBVIOUS
<1>1. PICK g \in [0..n -> Topologies(P, S)] : Encodes(g, order) /\ Encode(order) = g[n]
  BY LanesInOrder
<1> DEFINE bad == {k \in 0..n : ~Snapshot(P, order, k, g[k])}
<1>2. bad = {}
  <2> SUFFICES ASSUME bad # {} PROVE FALSE
    OBVIOUS
  <2>1. bad \in SUBSET Nat
    BY <1>0
  <2>2. PICK k \in bad : \A m \in bad : k <= m
    <3> HIDE DEF bad
    <3> QED BY <2>1, LeastNatural
  <2>3. CASE k = 0
    <3>1. g[0].points = <<>> /\ g[0].lanes = <<>>
      BY <1>1 DEF Encodes, Nothing
    <3>2. Table(<<>>, P)
      <4>1. <<>> \in Seq([point : P, below : Nat]) /\ Len(<<>>) = 0
        OBVIOUS
      <4> QED
        BY <4>1 DEF Table
    <3>3. Ways(<<>>) = {} /\ Len(<<>>) = 0
      BY DEF Ways
    <3>4. Snapshot(P, order, 0, g[0])
      BY <3>1, <3>2, <3>3 DEF Snapshot
    <3> QED
      BY <2>2, <2>3, <3>4
  <2>4. CASE k # 0
    <3>1. k \in 1..n /\ k - 1 \in 0..n /\ ~(k <= k - 1)
      BY <2>2, <2>4, <1>0
    <3>2. k - 1 \notin bad
      <4> HIDE DEF bad
      <4> QED BY <3>1, <2>2
    <3>3. Snapshot(P, order, k - 1, g[k - 1]) /\ g[k - 1] \in Topologies(P, S)
      BY <3>1, <3>2, <1>1
    <3>4. g[k] = EncodeLane(g[k - 1], order[k])
      BY <3>1, <1>1 DEF Encodes
    <3>5. Snapshot(P, order, k, g[k])
      BY <3>1, <3>3, <3>4, SnapshotMore
    <3> QED
      BY <2>2, <3>5
  <2> QED
    BY <2>3, <2>4
<1>3. n \in 0..n
  BY <1>0
<1> HIDE DEF n
<1> QED
  BY <1>1, <1>2, <1>3 DEF n

\* Reading a snapshot gives the lanes it was made of, and it has a point for
\* every way down.
LEMMA DecodeEncoded ==
  ASSUME NEW P, Alike(P), Broken \notin P,
         NEW S, \A lane \in S : IsStored(lane, P), NEW order \in Seq(S)
  PROVE  /\ Decode(Encode(order)) = order
         /\ Len(Encode(order).points) =
               Cardinality(UNION {Rests(lane.points) : lane \in Range(order)})
<1> DEFINE topology == Encode(order)
           n == Len(order)
           T == topology.points
           from == PointsFrom(T)
<1>0. n \in Nat /\ DOMAIN order = 1..n /\ \A i \in 1..n : order[i] \in S
  OBVIOUS
<1>1. topology \in Topologies(P, S) /\ Snapshot(P, order, n, topology)
  BY EncodeIs
<1> HIDE DEF topology, n
<1>2. DOMAIN topology.lanes = 1..n
  BY <1>1, <1>0 DEF Topologies, Snapshot
<1>3. ASSUME NEW i \in 1..n
      PROVE  /\ topology.lanes[i].head = order[i].head /\ topology.lanes[i].base = order[i].base
             /\ from[topology.lanes[i].tip] = order[i].points
             /\ order[i] = [head |-> order[i].head, base |-> order[i].base, points |-> order[i].points]
             /\ order[i].points \in Seq(P)
  <2>1. IsEncoded(T, topology.lanes[i], order[i])
    BY <1>1 DEF Snapshot
  <2>2. IsStored(order[i], P)
    BY <1>0
  <2> QED
    BY <2>1, <2>2 DEF IsEncoded, IsStored, Way
<1>4. ~\E i \in 1..n : Broken \in {from[topology.lanes[i].tip][k] :
                                      k \in DOMAIN from[topology.lanes[i].tip]}
  <2> SUFFICES ASSUME NEW i \in 1..n, NEW k \in DOMAIN from[topology.lanes[i].tip],
                      Broken = from[topology.lanes[i].tip][k]
               PROVE  FALSE
    OBVIOUS
  <2> DEFINE s == order[i].points
  <2>1. s \in Seq(P) /\ k \in DOMAIN s /\ Broken = s[k]
    BY <1>3
  <2> HIDE DEF s
  <2>2. s[k] \in P
    BY <2>1
  <2> QED
    BY <2>1, <2>2
<1>5. Decode(topology) = [i \in 1..n |-> [head   |-> topology.lanes[i].head,
                                          base   |-> topology.lanes[i].base,
                                          points |-> from[topology.lanes[i].tip]]]
  BY <1>2, <1>4 DEF Decode
<1> HIDE DEF from
<1>6. Decode(topology) = [i \in 1..n |-> order[i]]
  BY <1>3, <1>5
<1>7. order = [i \in 1..n |-> order[i]]
  BY <1>0
<1>8. Cardinality(Ways(T)) = Len(T)
  BY <1>1, WaysCount DEF Snapshot
<1>9. Range(order) = {order[j] : j \in 1..n}
  BY <1>0 DEF Range
<1>10. UNION {Rests(lane.points) : lane \in Range(order)} = UNION {Rests(order[j].points) : j \in 1..n}
  BY <1>9
<1>11. Ways(T) = UNION {Rests(order[j].points) : j \in 1..n}
  BY <1>1 DEF Snapshot
<1> QED
  BY <1>6, <1>7, <1>8, <1>10, <1>11 DEF topology

----------------------------------------------------------------------------
(* The snapshot of an analysis.                                            *)

\* The points a lane of this analysis is stored with.
StoredPoints ==
    {[id |-> link.id, count |-> link.count, main_history |-> link.id \in marked] : link \in PathLinks}

\* What a point of main's history is depends on its commit alone: points with
\* the same commit and count are the same, although only these are compared.
LEMMA StoredPointsAlike == Alike(StoredPoints) /\ Broken \notin StoredPoints
<1>1. \A p \in StoredPoints : p = [id |-> p.id, count |-> p.count, main_history |-> p.id \in marked]
  BY DEF StoredPoints
<1>2. Alike(StoredPoints)
  BY <1>1 DEF Alike
<1>3. Broken \notin StoredPoints
  <2> SUFFICES ASSUME NEW p \in StoredPoints, p = Broken PROVE FALSE
    OBVIOUS
  <2>1. DOMAIN p = {"id", "count", "main_history"}
    <3>1. DOMAIN [id |-> p.id, count |-> p.count, main_history |-> p.id \in marked]
            = {"id", "count", "main_history"}
      OBVIOUS
    <3> QED
      BY <3>1, <1>1
  <2>2. DOMAIN Broken = {"broken"}
    BY DEF Broken
  <2>3. "broken" # "id"
    OBVIOUS
  <2> QED
    BY <2>1, <2>2, <2>3
<1> QED
  BY <1>2, <1>3

\* An exact lane is stored with its points in order.
LEMMA LaneIsStored ==
  ASSUME NEW lane, ExactLane(history, points, rewritten, lane.base, lane.head, lane.links)
  PROVE  IsStored(Stored(lane), StoredPoints)
<1> DEFINE links == lane.links
           s == [i \in DOMAIN links |->
                    [id |-> links[i].id, count |-> links[i].count, main_history |-> links[i].id \in marked]]
<1>1. links \in Seq(PathLinks)
  BY DEF ExactLane
<1> HIDE DEF links
<1>2. Len(links) \in Nat /\ DOMAIN links = 1..Len(links) /\ \A i \in 1..Len(links) : links[i] \in PathLinks
  BY <1>1
<1>3. \A i \in 1..Len(links) :
         [id |-> links[i].id, count |-> links[i].count, main_history |-> links[i].id \in marked]
            \in StoredPoints
  BY <1>2 DEF StoredPoints
<1>4. s \in [1..Len(links) -> StoredPoints]
  BY <1>2, <1>3
<1>5. s \in Seq(StoredPoints)
  <2> HIDE DEF s
  <2> QED BY <1>2, <1>4
<1>6. Stored(lane) = [head |-> lane.head, base |-> lane.base, points |-> s]
  BY DEF Stored, links
<1> HIDE DEF s
<1> QED
  BY <1>5, <1>6 DEF IsStored

\* Every step adds at most one lane.
LEMMA LanesStayFinite ==
  ASSUME Inv, LaneInv, IsFiniteSet(lanes), [Next]_vars
  PROVE  IsFiniteSet(lanes')
<1>1. CASE Next /\ ~BuildLane
  <2>1. lanes' = lanes
    BY <1>1, LanesOnlyBuilt
  <2> QED
    BY <2>1
<1>2. CASE BuildLane
  <2>1. PICK head, base, links : AddLane(head, base, links)
    BY <1>2, BuiltLane
  <2> DEFINE lane == [head |-> head, base |-> base, links |-> links]
  <2>2. lanes' = lanes \/ lanes' = lanes \cup {lane}
    BY <2>1 DEF AddLane
  <2> HIDE DEF lane
  <2>3. IsFiniteSet(lanes \cup {lane})
    BY FS_AddElement
  <2> QED
    BY <2>2, <2>3
<1>3. CASE UNCHANGED vars
  BY <1>3 DEF vars, laneVars
<1> QED
  BY <1>1, <1>2, <1>3

\* The analysis finds finitely many lanes.
LEMMA LanesAreFinite == Spec => []IsFiniteSet(lanes)
<1>1. Init => IsFiniteSet(lanes)
  BY FS_EmptySet DEF Init
<1>2. Inv /\ LaneInv /\ IsFiniteSet(lanes) /\ [Next]_vars => IsFiniteSet(lanes')
  BY LanesStayFinite
<1>3. IsFiniteSet(lanes)' <=> IsFiniteSet(lanes')
  BY DEF IsFiniteSet
<1> QED
  BY <1>1, <1>2, <1>3, InvHolds, LaneInvHolds, PTL DEF Spec

\* A snapshot gives the lanes of an analysis back, in whatever order it is
\* given them, and stores a point once for every way down from it: leaving
\* main_history out of the comparison of points loses nothing (topology.rs:48).
THEOREM SnapshotTheorem == Spec => []SnapshotDecodes
<1>1. ASSUME LaneInv, IsFiniteSet(lanes) PROVE SnapshotDecodes
  <2> DEFINE S == {Stored(lane) : lane \in lanes}
  <2> SUFFICES ASSUME NEW order \in SetToSeqs(S)
               PROVE  LET topology == Encode(order)
                      IN  /\ Decode(topology) = order
                          /\ Len(topology.points) =
                                 Cardinality(UNION {{SubSeq(lane.points, i, Len(lane.points)) :
                                              i \in DOMAIN lane.points} : lane \in Range(order)})
    BY DEF SnapshotDecodes
  <2>1. IsFiniteSet(S)
    <3> DEFINE f == [lane \in lanes |-> Stored(lane)]
    <3>1. f \in [lanes -> S] /\ \A x \in S : \E lane \in lanes : f[lane] = x
      OBVIOUS
    <3> HIDE DEF f, S
    <3>2. f \in Surjection(lanes, S)
      BY <3>1 DEF Surjection
    <3> QED
      BY <1>1, <3>2, FS_Surjection
  <2>2. \A x \in S : IsStored(x, StoredPoints)
    BY <1>1, LaneIsStored DEF LaneInv, AllExact
  <2> HIDE DEF S
  <2>3. order \in Seq(S)
    BY <2>1, SeqsAreLists DEF Lists
  <2>4. /\ Decode(Encode(order)) = order
        /\ Len(Encode(order).points) =
              Cardinality(UNION {Rests(lane.points) : lane \in Range(order)})
    BY <2>2, <2>3, StoredPointsAlike, DecodeEncoded
  <2>5. \A lane \in Range(order) :
           Rests(lane.points) = {SubSeq(lane.points, i, Len(lane.points)) : i \in DOMAIN lane.points}
    <3> SUFFICES ASSUME NEW lane \in Range(order)
                 PROVE  Rests(lane.points) = {SubSeq(lane.points, i, Len(lane.points)) : i \in DOMAIN lane.points}
      OBVIOUS
    <3>1. lane \in S
      BY <2>3 DEF Range
    <3>2. lane.points \in Seq(StoredPoints)
      BY <3>1, <2>2 DEF IsStored
    <3>3. DOMAIN lane.points = 1..Len(lane.points)
      BY <3>2
    <3> QED
      BY <3>3 DEF Rests, Rest
  <2>6. UNION {Rests(lane.points) : lane \in Range(order)}
          = UNION {{SubSeq(lane.points, i, Len(lane.points)) : i \in DOMAIN lane.points} :
                      lane \in Range(order)}
    <3> DEFINE down(lane) == {SubSeq(lane.points, i, Len(lane.points)) : i \in DOMAIN lane.points}
    <3>1. \A lane \in Range(order) : Rests(lane.points) = down(lane)
      BY <2>5
    <3> HIDE DEF down
    <3>2. UNION {Rests(lane.points) : lane \in Range(order)} = UNION {down(lane) : lane \in Range(order)}
      BY <3>1
    <3> QED
      BY <3>2 DEF down
  <2> QED
    BY <2>4, <2>6
<1> QED
  BY <1>1, LanesAreFinite, LaneInvHolds, PTL
=============================================================================
