----------------------- MODULE ColourAssignmentProofs -----------------------
(***************************************************************************)
(* A choice of the cheapest colour takes that of a neighbour only if no    *)
(* colour is free (BestDiffers); loads are the weights of what wears a     *)
(* colour, placement by placement (PlaceKeeps, ShadeKeeps); and a repair,  *)
(* which looks at one segment, makes the objective of all smaller          *)
(* (PlaceImproves), for any number of segments, weights and neighbours.    *)
(*                                                                         *)
(* Placing is the inductive invariant.  The objective is, in each of its   *)
(* parts, what the other segments have and what the colour of this one     *)
(* adds to it (Rests, CostParts, Divided).                                 *)
(*                                                                         *)
(* What is said first, of numbers, recursion and sums, LaneAnalysisProofs  *)
(* also says: neither module extends the other, since both have variables. *)
(***************************************************************************)
EXTENDS ColourAssignment, FiniteSetTheorems, WellFoundedInduction, TLAPS

\* A nonempty set of numbers has a least member: the induction the proofs use.
LEMMA LeastNatural ==
  ASSUME NEW S \in SUBSET Nat, S # {}
  PROVE  \E n \in S : \A m \in S : n <= m
<1>1. PICK n \in S : \A m \in S : ~(<<m, n>> \in OpToRel(<, Nat))
  BY NatLessThanWellFounded, WFMin, Zenon
<1>2. \A m \in S : ~(m < n)
  BY <1>1 DEF OpToRel
<1> QED
  BY <1>2

\* A nonempty bounded set of numbers has a greatest member.
LEMMA GreatestNatural ==
  ASSUME NEW S \in SUBSET Nat, S # {}, NEW b \in Nat, \A s \in S : s <= b
  PROVE  \E n \in S : \A m \in S : m <= n
<1> DEFINE over == {k \in Nat : \A s \in S : s <= k}
<1>1. PICK k \in over : \A l \in over : k <= l
  BY LeastNatural
<1>2. CASE k \in S
  BY <1>2, <1>1
<1>3. CASE k \notin S
  <2>1. \A s \in S : s < k
    BY <1>3, <1>1
  <2>2. k - 1 \in Nat
    <3>1. PICK s \in S : s < k
      BY <2>1
    <3> QED
      BY <3>1
  <2>3. k - 1 \in over
    BY <2>1, <2>2
  <2> QED
    BY <2>3, <1>1
<1> QED
  BY <1>2, <1>3

\* Recursion over a rank: an equation that refers only to smaller ranks has a solution.
Recursion(D, V, F, rank) ==
    /\ V # {}
    /\ rank \in [D -> Nat]
    /\ \E bound \in Nat : \A c \in D : rank[c] < bound
    /\ F \in [D \X [D -> V] -> V]
    /\ \A c \in D : \A f, g \in [D -> V] :
          (\A d \in D : rank[d] < rank[c] => f[d] = g[d]) => F[<<c, f>>] = F[<<c, g>>]

\* The recursion has a solution.
Solvable(D, V, F) == \E f \in [D -> V] : \A c \in D : f[c] = F[<<c, f>>]

\* A recursion whose every value depends on values of smaller rank only has a
\* solution: what the recursive functions of the models are unfolded with.
LEMMA SolvedByRank ==
  ASSUME NEW D, NEW V, NEW F, NEW rank, Recursion(D, V, F, rank)
  PROVE  Solvable(D, V, F)
<1> USE DEF Recursion, Solvable
<1>v. PICK v \in V : TRUE
  OBVIOUS
<1>b. PICK bound \in Nat : \A c \in D : rank[c] < bound
  OBVIOUS
<1> DEFINE Solves(f, n) == \A c \in D : rank[c] < n => f[c] = F[<<c, f>>]
           unsolved == {n \in Nat : \A f \in [D -> V] : ~Solves(f, n)}
<1>1. unsolved = {}
  <2> SUFFICES ASSUME unsolved # {} PROVE FALSE
    OBVIOUS
  <2>1. PICK n \in unsolved : \A m \in unsolved : n <= m
    BY LeastNatural
  <2>2. n # 0
    <3>1. [c \in D |-> v] \in [D -> V] /\ Solves([c \in D |-> v], 0)
      OBVIOUS
    <3> QED
      BY <3>1
  <2>3. n - 1 \in Nat /\ n - 1 \notin unsolved
    <3> HIDE DEF Solves
    <3> QED BY <2>1, <2>2
  <2>4. PICK f \in [D -> V] : Solves(f, n - 1)
    <3> HIDE DEF Solves
    <3> QED BY <2>3
  <2> DEFINE g == [c \in D |-> IF rank[c] < n - 1 THEN f[c] ELSE F[<<c, f>>]]
  <2>5. g \in [D -> V]
    OBVIOUS
  <2>6. Solves(g, n)
    <3> SUFFICES ASSUME NEW c \in D, rank[c] < n PROVE g[c] = F[<<c, g>>]
      OBVIOUS
    <3>1. \A d \in D : rank[d] < rank[c] => f[d] = g[d]
      BY n \in Nat
    <3>2. F[<<c, f>>] = F[<<c, g>>]
      <4> HIDE DEF g
      <4> QED BY <3>1, <2>5
    <3>3. g[c] = F[<<c, f>>]
      BY <2>4
    <3> QED
      BY <3>2, <3>3
  <2> QED
    <3> HIDE DEF Solves, g
    <3> QED BY <2>5, <2>6
<1>2. PICK f \in [D -> V] : Solves(f, bound)
  <2> HIDE DEF Solves
  <2> QED BY <1>1
<1> QED
  BY <1>2, <1>b

\* Of some finite sets one has the fewest members.
LEMMA SmallestSet ==
  ASSUME NEW bad, bad # {}, \A S \in bad : IsFiniteSet(S)
  PROVE  \E S \in bad : \A T \in bad : Cardinality(S) <= Cardinality(T)
<1> DEFINE sizes == {Cardinality(S) : S \in bad}
<1>1. sizes \in SUBSET Nat
  BY FS_CardinalityType
<1>2. PICK n \in sizes : \A m \in sizes : n <= m
  <2>1. sizes # {}
    OBVIOUS
  <2> HIDE DEF sizes
  <2> QED BY <1>1, <2>1, LeastNatural
<1> QED
  BY <1>2

\* The values of a family over a finite set.
LEMMA ImageIsFinite ==
  ASSUME NEW S, IsFiniteSet(S), NEW f
  PROVE  IsFiniteSet({f[x] : x \in S})
<1> DEFINE T == {f[x] : x \in S}
           g == [x \in S |-> f[x]]
<1>1. g \in Surjection(S, T)
  <2>1. g \in [S -> T] /\ \A y \in T : \E x \in S : g[x] = y
    OBVIOUS
  <2> HIDE DEF g, T
  <2> QED BY <2>1 DEF Surjection
<1> HIDE DEF g, T
<1>2. IsFiniteSet(T)
  BY <1>1, FS_Surjection
<1> QED
  BY <1>2 DEF T

----------------------------------------------------------------------------
(* Sums.                                                                   *)

\* The sum of a family over a set, as the community modules fold it.
SumOver(f, S) == MapThenSumSet(LAMBDA x : f[x], S)

\* The partial sums, in the order in which the fold takes the elements.
PartialSums(sum, f, S) ==
    sum = [s \in SUBSET S |-> IF s = {} THEN 0
                              ELSE f[CHOOSE x \in s : TRUE] + sum[s \ {CHOOSE x \in s : TRUE}]]

\* The sum is the last of the partial sums of the fold.
LEMMA SumIsPartial ==
  ASSUME NEW f, NEW S
  PROVE  SumOver(f, S) = (CHOOSE sum : PartialSums(sum, f, S))[S]
BY DEF SumOver, MapThenSumSet, MapThenFoldSet, PartialSums

\* The partial sums of a fold over a finite set exist.
LEMMA PartialSumsExist ==
  ASSUME NEW S, IsFiniteSet(S), NEW f, \A x \in S : f[x] \in Int
  PROVE  /\ PartialSums(CHOOSE sum : PartialSums(sum, f, S), f, S)
         /\ (CHOOSE sum : PartialSums(sum, f, S)) \in [SUBSET S -> Int]
<1> DEFINE D == SUBSET S
           V == Int
           rank == [s \in D |-> Cardinality(s)]
           Value(s, g) == IF s = {} THEN 0
                          ELSE f[CHOOSE x \in s : TRUE] + g[s \ {CHOOSE x \in s : TRUE}]
           F == [a \in D \X [D -> V] |-> Value(a[1], a[2])]
           total == CHOOSE sum : PartialSums(sum, f, S)
<1>1. \A s \in D : IsFiniteSet(s) /\ Cardinality(s) \in Nat /\ Cardinality(s) <= Cardinality(S)
  BY FS_Subset, FS_CardinalityType
<1>2. rank \in [D -> Nat]
  BY <1>1
<1>a. \E n \in Nat : \A s \in D : rank[s] < n
  <2>1. Cardinality(S) + 1 \in Nat
    BY <1>1
  <2>2. \A s \in D : rank[s] < Cardinality(S) + 1
    BY <1>1, <2>1
  <2> QED
    BY <2>1, <2>2
<1>3. \A s \in D : \A g \in [D -> V] : F[<<s, g>>] = Value(s, g)
  <2> HIDE DEF Value
  <2> QED OBVIOUS
<1>b. \A s \in D : s # {} => /\ (CHOOSE x \in s : TRUE) \in s
                             /\ s \ {CHOOSE x \in s : TRUE} \in D
                             /\ rank[s \ {CHOOSE x \in s : TRUE}] < rank[s]
  <2> SUFFICES ASSUME NEW s \in D, s # {}
               PROVE  /\ (CHOOSE x \in s : TRUE) \in s
                      /\ s \ {CHOOSE x \in s : TRUE} \in D
                      /\ rank[s \ {CHOOSE x \in s : TRUE}] < rank[s]
    OBVIOUS
  <2> DEFINE x == CHOOSE x \in s : TRUE
  <2>1. x \in s
    OBVIOUS
  <2> HIDE DEF x
  <2>2. Cardinality(s \ {x}) = Cardinality(s) - 1
    BY <1>1, <2>1, FS_RemoveElement
  <2>3. s \ {x} \in D
    OBVIOUS
  <2>4. Cardinality(s \ {x}) < Cardinality(s)
    BY <2>2, <1>1
  <2> QED
    BY <2>1, <2>3, <2>4 DEF x
<1>4. F \in [D \X [D -> V] -> V]
  <2>1. ASSUME NEW s \in D, NEW g \in [D -> V] PROVE Value(s, g) \in V
    <3>1. CASE s = {}
      BY <3>1
    <3>2. CASE s # {}
      <4>1. f[CHOOSE x \in s : TRUE] \in Int
        BY <3>2, <1>b
      <4>2. g[s \ {CHOOSE x \in s : TRUE}] \in Int
        BY <3>2, <1>b
      <4> QED
        BY <3>2, <4>1, <4>2
    <3> QED
      BY <3>1, <3>2
  <2> HIDE DEF Value
  <2> QED
    BY <2>1
<1>5. \A s \in D : \A g, h \in [D -> V] :
         (\A e \in D : rank[e] < rank[s] => g[e] = h[e]) => F[<<s, g>>] = F[<<s, h>>]
  <2>1. ASSUME NEW s \in D, NEW g \in [D -> V], NEW h \in [D -> V],
               \A e \in D : rank[e] < rank[s] => g[e] = h[e]
        PROVE  Value(s, g) = Value(s, h)
    <3>1. CASE s = {}
      BY <3>1
    <3>2. CASE s # {}
      <4> DEFINE rest == s \ {CHOOSE x \in s : TRUE}
      <4>1. rest \in D /\ rank[rest] < rank[s]
        BY <3>2, <1>b
      <4>2. g[rest] = h[rest]
        <5> HIDE DEF rest, rank
        <5> QED BY <4>1, <2>1
      <4> QED
        BY <3>2, <4>2
    <3> QED
      BY <3>1, <3>2
  <2> HIDE DEF F, Value, rank, D, V
  <2> QED
    BY <2>1, <1>3
<1>6. PICK g \in [D -> V] : \A s \in D : g[s] = F[<<s, g>>]
  <2>1. Recursion(D, V, F, rank)
    <3>1. 0 \in V
      OBVIOUS
    <3> HIDE DEF F, rank, D, V
    <3> QED
      BY <3>1, <1>a, <1>2, <1>4, <1>5 DEF Recursion
  <2>2. Solvable(D, V, F)
    <3> HIDE DEF F, rank, D, V
    <3> QED
      BY <2>1, SolvedByRank
  <2> QED
    BY <2>2 DEF Solvable
<1>7. PartialSums(g, f, S)
  <2>1. \A s \in D : g[s] = Value(s, g)
    <3> HIDE DEF F, Value
    <3> QED BY <1>3, <1>6
  <2>2. g = [s \in D |-> Value(s, g)]
    <3> HIDE DEF Value
    <3> QED BY <2>1
  <2> QED
    BY <2>2 DEF PartialSums
<1>8. PartialSums(total, f, S)
  BY <1>7
<1>9. total = [s \in D |-> Value(s, total)]
  BY <1>8 DEF PartialSums
<1> HIDE DEF total
<1>10. \A s \in D : total[s] = Value(s, total)
  <2> HIDE DEF Value
  <2> QED BY <1>9
<1>11. \A s \in D : total[s] \in Int
  <2> DEFINE bad == {s \in D : total[s] \notin Int}
  <2> SUFFICES ASSUME bad # {} PROVE FALSE
    OBVIOUS
  <2>1. PICK s \in bad : \A t \in bad : Cardinality(s) <= Cardinality(t)
    <3>1. \A t \in bad : IsFiniteSet(t)
      BY <1>1
    <3> HIDE DEF bad
    <3> QED
      BY <3>1, SmallestSet
  <2>2. s # {}
    BY <2>1, <1>10
  <2> DEFINE x == CHOOSE x \in s : TRUE
  <2>3. x \in s /\ s \ {x} \in D /\ rank[s \ {x}] < rank[s]
    BY <2>1, <2>2, <1>b
  <2>4. Cardinality(s \ {x}) < Cardinality(s)
    BY <2>3, <2>1
  <2>5. s \ {x} \notin bad
    BY <2>4, <2>1, <2>3, <1>1
  <2>6. total[s] = f[x] + total[s \ {x}]
    BY <2>1, <2>2, <1>10
  <2> HIDE DEF x
  <2> QED
    BY <2>3, <2>5, <2>6, <2>1
<1> QED
  <2> HIDE DEF Value
  <2> QED BY <1>8, <1>9, <1>11 DEF total

\* Partial sums of a set and of a larger one agree.
LEMMA PartialSumsAgree ==
  ASSUME NEW U, IsFiniteSet(U), NEW S \in SUBSET U, NEW f, NEW a, NEW b,
         PartialSums(a, f, S), PartialSums(b, f, U)
  PROVE  a[S] = b[S]
<1> DEFINE bad == {s \in SUBSET S : a[s] # b[s]}
<1>1. bad = {}
  <2> SUFFICES ASSUME bad # {} PROVE FALSE
    OBVIOUS
  <2>1. \A s \in bad : IsFiniteSet(s)
    BY FS_Subset
  <2>2. PICK s \in bad : \A t \in bad : Cardinality(s) <= Cardinality(t)
    <3> HIDE DEF bad
    <3> QED
      BY <2>1, SmallestSet
  <2>3. s # {}
    BY <2>2 DEF PartialSums
  <2> DEFINE x == CHOOSE x \in s : TRUE
  <2>4. x \in s
    BY <2>3
  <2>5. a[s] = f[x] + a[s \ {x}] /\ b[s] = f[x] + b[s \ {x}]
    BY <2>2, <2>3 DEF PartialSums
  <2> HIDE DEF x
  <2>a. IsFiniteSet(s)
    BY <2>1, <2>2
  <2>b. Cardinality(s) \in Nat
    BY <2>a, FS_CardinalityType
  <2>c. Cardinality(s \ {x}) = Cardinality(s) - 1
    BY <2>a, <2>4, FS_RemoveElement
  <2>7. s \ {x} \notin bad
    <3> HIDE DEF bad
    <3> QED BY <2>2, <2>b, <2>c
  <2> QED
    BY <2>2, <2>5, <2>7
<1> QED
  BY <1>1

\* A solution gives the sum.
LEMMA SumSolved ==
  ASSUME NEW S, IsFiniteSet(S), NEW f, \A x \in S : f[x] \in Int,
         NEW sum, PartialSums(sum, f, S)
  PROVE  SumOver(f, S) = sum[S]
<1> DEFINE total == CHOOSE t : PartialSums(t, f, S)
<1>1. PartialSums(total, f, S)
  BY PartialSumsExist
<1>2. SumOver(f, S) = total[S]
  BY SumIsPartial
<1> HIDE DEF total
<1> QED
  BY <1>1, <1>2, PartialSumsAgree

\* A finite sum of integers is an integer.
LEMMA SumType ==
  ASSUME NEW S, IsFiniteSet(S), NEW f, \A x \in S : f[x] \in Int
  PROVE  SumOver(f, S) \in Int
<1> DEFINE total == CHOOSE t : PartialSums(t, f, S)
<1>1. total \in [SUBSET S -> Int]
  BY PartialSumsExist
<1>2. SumOver(f, S) = total[S]
  BY SumIsPartial
<1> HIDE DEF total
<1> QED
  BY <1>1, <1>2

\* An empty sum is zero.
LEMMA SumEmpty == \A f : SumOver(f, {}) = 0
<1> SUFFICES ASSUME NEW f PROVE SumOver(f, {}) = 0
  OBVIOUS
<1> DEFINE sum == [s \in SUBSET {} |-> 0]
<1>1. PartialSums(sum, f, {})
  BY DEF PartialSums
<1>2. sum[{}] = 0
  OBVIOUS
<1> HIDE DEF sum
<1> QED
  BY <1>1, <1>2, SumSolved, FS_EmptySet

\* The element that the fold takes first.
LEMMA SumChosen ==
  ASSUME NEW S, IsFiniteSet(S), NEW f, \A x \in S : f[x] \in Int, S # {}
  PROVE  SumOver(f, S) = f[CHOOSE x \in S : TRUE] + SumOver(f, S \ {CHOOSE x \in S : TRUE})
<1> DEFINE total == CHOOSE t : PartialSums(t, f, S)
           x == CHOOSE x \in S : TRUE
           part == CHOOSE t : PartialSums(t, f, S \ {x})
<1>1. PartialSums(total, f, S)
  BY PartialSumsExist
<1>2. SumOver(f, S) = total[S]
  BY SumIsPartial
<1>3. IsFiniteSet(S \ {x})
  BY FS_Difference
<1>4. PartialSums(part, f, S \ {x})
  <2> HIDE DEF x
  <2>1. \A y \in S \ {x} : f[y] \in Int
    OBVIOUS
  <2> QED
    BY <2>1, <1>3, PartialSumsExist
<1>5. SumOver(f, S \ {x}) = part[S \ {x}]
  BY SumIsPartial
<1>6. total[S] = f[x] + total[S \ {x}]
  <2> HIDE DEF total
  <2> QED BY <1>1 DEF PartialSums
<1> HIDE DEF total, part, x
<1>7. part[S \ {x}] = total[S \ {x}]
  BY <1>1, <1>4, PartialSumsAgree
<1> QED
  BY <1>2, <1>5, <1>6, <1>7 DEF x

\* Any element may be taken first.
LEMMA SumRemove ==
  ASSUME NEW S, IsFiniteSet(S), NEW f, \A x \in S : f[x] \in Int, NEW x \in S
  PROVE  SumOver(f, S) = f[x] + SumOver(f, S \ {x})
<1> DEFINE Ok(s) == \A y \in s : SumOver(f, s) = f[y] + SumOver(f, s \ {y})
           bad == {s \in SUBSET S : ~Ok(s)}
<1>1. bad = {}
  <2> SUFFICES ASSUME bad # {} PROVE FALSE
    OBVIOUS
  <2>1. \A s \in bad : IsFiniteSet(s)
    BY FS_Subset
  <2>2. PICK s \in bad : \A t \in bad : Cardinality(s) <= Cardinality(t)
    <3> HIDE DEF bad
    <3> QED
      BY <2>1, SmallestSet
  <2>3. IsFiniteSet(s) /\ s \in SUBSET S
    BY <2>1, <2>2
  <2>4. Cardinality(s) \in Nat
    BY <2>3, FS_CardinalityType
  <2>5. PICK y \in s : SumOver(f, s) # f[y] + SumOver(f, s \ {y})
    BY <2>2
  <2>6. ASSUME NEW z \in s PROVE s \ {z} \in SUBSET S /\ Ok(s \ {z})
    <3>1. Cardinality(s \ {z}) = Cardinality(s) - 1
      BY <2>3, FS_RemoveElement
    <3>2. s \ {z} \notin bad
      <4> HIDE DEF bad
      <4> QED BY <3>1, <2>2, <2>4
    <3> QED
      BY <3>2, <2>3
  <2> DEFINE z == CHOOSE z \in s : TRUE
  <2>7. z \in s /\ SumOver(f, s) = f[z] + SumOver(f, s \ {z})
    <3>1. \A v \in s : f[v] \in Int
      BY <2>3
    <3> QED
      BY <3>1, <2>3, <2>5, SumChosen
  <2> HIDE DEF z
  <2>8. z # y
    BY <2>5, <2>7
  <2>9. SumOver(f, s \ {z}) = f[y] + SumOver(f, (s \ {z}) \ {y})
    BY <2>6, <2>7, <2>8, <2>5
  <2>10. SumOver(f, s \ {y}) = f[z] + SumOver(f, (s \ {y}) \ {z})
    BY <2>6, <2>7, <2>8, <2>5
  <2>11. (s \ {z}) \ {y} = (s \ {y}) \ {z}
    OBVIOUS
  <2>12. f[y] \in Int /\ f[z] \in Int /\ SumOver(f, (s \ {y}) \ {z}) \in Int
    <3>1. IsFiniteSet((s \ {y}) \ {z}) /\ \A v \in (s \ {y}) \ {z} : f[v] \in Int
      BY <2>3, FS_Subset
    <3>2. SumOver(f, (s \ {y}) \ {z}) \in Int
      BY <3>1, SumType
    <3> QED
      BY <3>2, <2>3, <2>5, <2>7
  <2> DEFINE rest == SumOver(f, (s \ {y}) \ {z})
  <2>13. /\ SumOver(f, s \ {z}) = f[y] + rest /\ SumOver(f, s \ {y}) = f[z] + rest
         /\ rest \in Int
    BY <2>9, <2>10, <2>11, <2>12
  <2> HIDE DEF rest
  <2>14. SumOver(f, s) = f[z] + (f[y] + rest)
    BY <2>7, <2>13
  <2>15. f[z] + (f[y] + rest) = f[y] + (f[z] + rest)
    BY <2>12, <2>13
  <2>16. SumOver(f, s) = f[y] + SumOver(f, s \ {y})
    BY <2>13, <2>14, <2>15
  <2> QED
    BY <2>5, <2>16
<1> QED
  BY <1>1

\* One more summand.
LEMMA SumAdd ==
  ASSUME NEW S, IsFiniteSet(S), NEW x, x \notin S, NEW f, \A y \in S \cup {x} : f[y] \in Int
  PROVE  SumOver(f, S \cup {x}) = f[x] + SumOver(f, S)
<1> DEFINE whole == S \cup {x}
<1>1. IsFiniteSet(whole) /\ x \in whole /\ whole \ {x} = S
  BY FS_AddElement
<1> HIDE DEF whole
<1>2. \A y \in whole : f[y] \in Int
  BY DEF whole
<1>3. SumOver(f, whole) = f[x] + SumOver(f, whole \ {x})
  BY <1>1, <1>2, SumRemove
<1> QED
  BY <1>1, <1>3 DEF whole

\* A bijection between the indices of two families that keeps their values.
Moves(move, S, f, T, g) ==
    /\ IsFiniteSet(S) /\ \A x \in S : f[x] \in Int
    /\ IsFiniteSet(T) /\ \A x \in T : g[x] \in Int
    /\ move \in [S -> T] /\ \A x, y \in S : move[x] = move[y] => x = y
    /\ \A y \in T : \E x \in S : move[x] = y
    /\ \A x \in S : g[move[x]] = f[x]

\* The sums of two such families agree.
LEMMA SumMoved ==
  ASSUME NEW S, NEW f, NEW T, NEW g, NEW move, Moves(move, S, f, T, g)
  PROVE  SumOver(f, S) = SumOver(g, T)
<1>0. /\ IsFiniteSet(S) /\ \A x \in S : f[x] \in Int
      /\ IsFiniteSet(T) /\ \A x \in T : g[x] \in Int
      /\ move \in [S -> T] /\ \A x, y \in S : move[x] = move[y] => x = y
      /\ \A y \in T : \E x \in S : move[x] = y
      /\ \A x \in S : g[move[x]] = f[x]
  BY DEF Moves
<1> DEFINE to(s) == {move[x] : x \in s}
           bad == {s \in SUBSET S : SumOver(f, s) # SumOver(g, to(s))}
<1>1. bad = {}
  <2> SUFFICES ASSUME bad # {} PROVE FALSE
    OBVIOUS
  <2>1. \A s \in bad : IsFiniteSet(s)
    BY <1>0, FS_Subset
  <2>2. PICK s \in bad : \A t \in bad : Cardinality(s) <= Cardinality(t)
    <3> HIDE DEF bad
    <3> QED
      BY <2>1, SmallestSet
  <2>3. IsFiniteSet(s) /\ s \in SUBSET S /\ SumOver(f, s) # SumOver(g, to(s))
    BY <2>1, <2>2
  <2>4. Cardinality(s) \in Nat
    BY <2>3, FS_CardinalityType
  <2>5. s # {}
    <3> SUFFICES ASSUME s = {} PROVE FALSE
      OBVIOUS
    <3>1. to(s) = {}
      OBVIOUS
    <3> HIDE DEF to
    <3> QED
      BY <3>1, <2>3, SumEmpty
  <2>6. PICK x \in s : TRUE
    BY <2>5
  <2>7. s \ {x} \notin bad
    <3>1. Cardinality(s \ {x}) = Cardinality(s) - 1
      BY <2>3, FS_RemoveElement
    <3> HIDE DEF bad
    <3> QED BY <3>1, <2>2, <2>4
  <2>8. SumOver(f, s) = f[x] + SumOver(f, s \ {x})
    <3>1. \A y \in s : f[y] \in Int
      BY <1>0, <2>3
    <3> QED
      BY <3>1, <2>3, SumRemove
  <2>9. to(s) \ {move[x]} = to(s \ {x}) /\ move[x] \in to(s) /\ to(s) \in SUBSET T
    BY <1>0, <2>3
  <2>10. SumOver(g, to(s)) = g[move[x]] + SumOver(g, to(s) \ {move[x]})
    <3>1. IsFiniteSet(to(s)) /\ \A y \in to(s) : g[y] \in Int
      BY <1>0, <2>9, FS_Subset
    <3> HIDE DEF to
    <3> QED
      BY <3>1, <2>9, SumRemove
  <2>11. SumOver(f, s \ {x}) = SumOver(g, to(s \ {x}))
    BY <2>7, <2>3
  <2>12. g[move[x]] = f[x]
    BY <1>0, <2>3
  <2>13. SumOver(g, to(s)) = f[x] + SumOver(g, to(s \ {x}))
    <3> HIDE DEF to
    <3> QED BY <2>9, <2>10, <2>12
  <2> HIDE DEF to
  <2> QED
    BY <2>3, <2>8, <2>11, <2>13
<1>2. to(S) = T
  BY <1>0
<1> HIDE DEF to
<1> QED
  BY <1>1, <1>2

\* Sums of families that agree are equal.
LEMMA SumSame ==
  ASSUME NEW S, IsFiniteSet(S), NEW f, NEW g, \A x \in S : f[x] \in Int /\ g[x] = f[x]
  PROVE  SumOver(f, S) = SumOver(g, S)
<1> DEFINE move == [x \in S |-> x]
<1>1. Moves(move, S, f, S, g)
  BY DEF Moves
<1> HIDE DEF move
<1> QED
  BY <1>1, SumMoved

----------------------------------------------------------------------------
(* Sorting.                                                                *)

\* A strict total order of a set, as the pairs of an earlier and a later element.
Orders(R, S) ==
    /\ \A x \in S : <<x, x>> \notin R
    /\ \A x, y, z \in S : <<x, y>> \in R /\ <<y, z>> \in R => <<x, z>> \in R
    /\ \A x, y \in S : x # y => <<x, y>> \in R \/ <<y, x>> \in R

\* How many elements come before one.
Rank(R, S, x) == Cardinality({y \in S : <<y, x>> \in R})

\* Ranks are numbers below the size of the set, and grow along the order.
LEMMA RankGrows ==
  ASSUME NEW S, IsFiniteSet(S), NEW R, Orders(R, S)
  PROVE  /\ \A x \in S : Rank(R, S, x) \in 0..(Cardinality(S) - 1)
         /\ \A x, y \in S : <<x, y>> \in R => Rank(R, S, x) < Rank(R, S, y)
         /\ \A x, y \in S : Rank(R, S, x) = Rank(R, S, y) => x = y
<1> DEFINE before(x) == {y \in S : <<y, x>> \in R}
<1>1. ASSUME NEW x \in S PROVE Rank(R, S, x) \in 0..(Cardinality(S) - 1)
  <2>1. before(x) \in SUBSET S /\ x \notin before(x)
    BY DEF Orders
  <2>2. IsFiniteSet(before(x)) /\ Cardinality(before(x)) <= Cardinality(S)
        /\ (Cardinality(S) = Cardinality(before(x)) => S = before(x))
    <3> HIDE DEF before
    <3> QED BY <2>1, FS_Subset
  <2>3. Cardinality(before(x)) \in Nat /\ Cardinality(S) \in Nat
    <3> HIDE DEF before
    <3> QED BY <2>2, FS_CardinalityType
  <2>4. Cardinality(before(x)) # Cardinality(S)
    <3> HIDE DEF before
    <3> QED BY <2>1, <2>2
  <2>5. Rank(R, S, x) = Cardinality(before(x))
    BY DEF Rank
  <2> HIDE DEF before
  <2> QED
    BY <2>2, <2>3, <2>4, <2>5
<1>2. ASSUME NEW x \in S, NEW y \in S, <<x, y>> \in R PROVE Rank(R, S, x) < Rank(R, S, y)
  <2>1. before(x) \in SUBSET before(y) /\ x \in before(y) /\ x \notin before(x)
    BY <1>2 DEF Orders
  <2>2. IsFiniteSet(before(y))
    BY FS_Subset
  <2>3. /\ Cardinality(before(x)) <= Cardinality(before(y))
        /\ Cardinality(before(y)) = Cardinality(before(x)) => before(x) = before(y)
    <3> HIDE DEF before
    <3> QED BY <2>1, <2>2, FS_Subset
  <2>4. Cardinality(before(y)) # Cardinality(before(x))
    <3> HIDE DEF before
    <3> QED BY <2>1, <2>3
  <2>5. Cardinality(before(x)) = Rank(R, S, x) /\ Cardinality(before(y)) = Rank(R, S, y)
    BY DEF Rank
  <2>6. Rank(R, S, x) \in Int /\ Rank(R, S, y) \in Int
    BY <1>1
  <2> HIDE DEF before
  <2> QED
    BY <2>3, <2>4, <2>5, <2>6
<1>3. ASSUME NEW x \in S, NEW y \in S, Rank(R, S, x) = Rank(R, S, y) PROVE x = y
  <2>1. Rank(R, S, x) \in Int /\ ~(Rank(R, S, x) < Rank(R, S, y)) /\ ~(Rank(R, S, y) < Rank(R, S, x))
    BY <1>1, <1>3
  <2> QED
    BY <1>2, <2>1 DEF Orders
<1> QED
  BY <1>1, <1>2, <1>3

\* Every rank is taken.
LEMMA RankExists ==
  ASSUME NEW S, IsFiniteSet(S), NEW R, Orders(R, S)
  PROVE  \A i \in 1..Cardinality(S) : \E x \in S : Rank(R, S, x) = i - 1
<1> DEFINE n == Cardinality(S)
           T == 0..(n - 1)
           rank == [x \in S |-> Rank(R, S, x)]
<1>1. n \in Nat
  BY FS_CardinalityType
<1>2. IsFiniteSet(T) /\ Cardinality(T) = n
  <2>1. 0 \in Int /\ n - 1 \in Int
    BY <1>1
  <2>2. IsFiniteSet(0..(n - 1)) /\ Cardinality(0..(n - 1)) = IF 0 > n - 1 THEN 0 ELSE (n - 1) - 0 + 1
    BY <2>1, FS_Interval
  <2> HIDE DEF n
  <2> QED
    BY <1>1, <2>2
<1>3. rank \in Injection(S, T)
  <2>1. \A x \in S : Rank(R, S, x) \in T
    BY RankGrows
  <2>2. \A x, y \in S : Rank(R, S, x) = Rank(R, S, y) => x = y
    BY RankGrows
  <2>3. rank \in [S -> T]
    <3> HIDE DEF T
    <3> QED BY <2>1
  <2>4. \A x, y \in S : rank[x] = rank[y] => x = y
    BY <2>2
  <2> HIDE DEF rank, T
  <2> QED
    BY <2>3, <2>4 DEF Injection, IsInjective
<1>4. rank \in Surjection(S, T)
  <2> HIDE DEF rank, T
  <2> QED
    BY <1>2, <1>3, FS_Injection
<1>5. ASSUME NEW i \in 1..n PROVE \E x \in S : Rank(R, S, x) = i - 1
  <2>1. i - 1 \in T
    BY <1>1
  <2>2. PICK x \in S : rank[x] = i - 1
    <3> HIDE DEF rank, T
    <3> QED BY <1>4, <2>1 DEF Surjection
  <2> QED
    BY <2>2
<1> QED
  BY <1>5

\* A nonempty set has a first element.
LEMMA FirstExists ==
  ASSUME NEW S, IsFiniteSet(S), S # {}, NEW R, Orders(R, S)
  PROVE  \E x \in S : \A y \in S \ {x} : <<x, y>> \in R
<1>1. Cardinality(S) \in Nat /\ Cardinality(S) # 0
  BY FS_CardinalityType, FS_EmptySet
<1>2. 1 \in 1..Cardinality(S)
  BY <1>1
<1>3. PICK x \in S : Rank(R, S, x) = 0
  BY <1>2, RankExists
<1>4. ASSUME NEW y \in S \ {x} PROVE <<x, y>> \in R
  <2>1. Rank(R, S, y) >= 0 /\ Rank(R, S, y) \in Int
    BY RankGrows
  <2>2. ~(Rank(R, S, y) < Rank(R, S, x))
    BY <1>3, <2>1
  <2> QED
    BY <2>2, RankGrows DEF Orders
<1> QED
  BY <1>4

\* Keys of one length that differ put a set in an order.
LEMMA LexOrders ==
  ASSUME NEW S, NEW n \in Nat, NEW key,
         \A x \in S : DOMAIN key[x] = 1..n /\ \A i \in 1..n : key[x][i] \in Int,
         \A x, y \in S : x # y => \E i \in 1..n : key[x][i] # key[y][i],
         NEW R, \A x, y \in S : <<x, y>> \in R <=> LexLess(key[x], key[y])
  PROVE  Orders(R, S)
<1>1. ASSUME NEW x \in S PROVE <<x, x>> \notin R
  BY DEF LexLess
<1>2. ASSUME NEW x \in S, NEW y \in S, NEW z \in S, <<x, y>> \in R, <<y, z>> \in R
      PROVE  <<x, z>> \in R
  <2>1. PICK i \in 1..n : key[x][i] < key[y][i] /\ \A k \in 1..(i - 1) : key[x][k] = key[y][k]
    <3>1. LexLess(key[x], key[y]) /\ DOMAIN key[x] = 1..n
      BY <1>2
    <3> QED BY <3>1 DEF LexLess
  <2>2. PICK j \in 1..n : key[y][j] < key[z][j] /\ \A k \in 1..(j - 1) : key[y][k] = key[z][k]
    <3>1. LexLess(key[y], key[z]) /\ DOMAIN key[y] = 1..n
      BY <1>2
    <3> QED BY <3>1 DEF LexLess
  <2>3. CASE i <= j
    <3>1. key[x][i] < key[z][i]
      <4>1. key[y][i] <= key[z][i]
        BY <2>2, <2>3
      <4> QED
        BY <2>1, <4>1
    <3>2. \A k \in 1..(i - 1) : key[x][k] = key[z][k]
      BY <2>1, <2>2, <2>3
    <3>3. LexLess(key[x], key[z])
      BY <3>1, <3>2 DEF LexLess
    <3> QED
      BY <3>3
  <2>4. CASE j < i
    <3>1. key[x][j] < key[z][j]
      BY <2>1, <2>2, <2>4
    <3>2. \A k \in 1..(j - 1) : key[x][k] = key[z][k]
      BY <2>1, <2>2, <2>4
    <3>3. LexLess(key[x], key[z])
      BY <3>1, <3>2 DEF LexLess
    <3> QED
      BY <3>3
  <2> QED
    BY <2>3, <2>4
<1>3. ASSUME NEW x \in S, NEW y \in S, x # y PROVE <<x, y>> \in R \/ <<y, x>> \in R
  <2> DEFINE apart == {i \in 1..n : key[x][i] # key[y][i]}
  <2>1. apart \in SUBSET Nat /\ apart # {}
    BY <1>3
  <2>2. PICK i \in apart : \A j \in apart : i <= j
    <3> HIDE DEF apart
    <3> QED BY <2>1, LeastNatural
  <2>3. \A k \in 1..(i - 1) : key[x][k] = key[y][k]
    BY <2>2
  <2>4. key[x][i] < key[y][i] \/ key[y][i] < key[x][i]
    BY <2>2
  <2>5. LexLess(key[x], key[y]) \/ LexLess(key[y], key[x])
    BY <2>2, <2>3, <2>4 DEF LexLess
  <2> QED
    BY <2>5
<1> QED
  BY <1>1, <1>2, <1>3 DEF Orders

----------------------------------------------------------------------------
(* The sums of the model, as sums of families.                             *)

\* Sums that are not negative, and what they are zero over.
LEMMA SumOfNaturals ==
  ASSUME NEW S, IsFiniteSet(S), NEW f, \A x \in S : f[x] \in Nat
  PROVE  /\ SumOver(f, S) \in Nat
         /\ \A x \in S : SumOver(f, S) >= f[x]
<1> DEFINE bad == {s \in SUBSET S : SumOver(f, s) \notin Nat}
<1>1. bad = {}
  <2> SUFFICES ASSUME bad # {} PROVE FALSE
    OBVIOUS
  <2>1. \A s \in bad : IsFiniteSet(s)
    BY FS_Subset
  <2>2. PICK s \in bad : \A t \in bad : Cardinality(s) <= Cardinality(t)
    <3> HIDE DEF bad
    <3> QED BY <2>1, SmallestSet
  <2>3. IsFiniteSet(s) /\ s \in SUBSET S /\ SumOver(f, s) \notin Nat
    BY <2>1, <2>2
  <2>4. s # {}
    BY <2>3, SumEmpty
  <2>5. PICK x \in s : TRUE
    BY <2>4
  <2>6. Cardinality(s \ {x}) = Cardinality(s) - 1 /\ Cardinality(s) \in Nat
    BY <2>3, FS_RemoveElement, FS_CardinalityType
  <2>7. s \ {x} \notin bad
    <3> HIDE DEF bad
    <3> QED BY <2>2, <2>6
  <2>8. SumOver(f, s \ {x}) \in Nat
    BY <2>3, <2>7
  <2>9. \A y \in s : f[y] \in Int
    BY <2>3
  <2>10. SumOver(f, s) = f[x] + SumOver(f, s \ {x})
    BY <2>3, <2>9, SumRemove
  <2> QED
    BY <2>3, <2>8, <2>10
<1>2. ASSUME NEW x \in S PROVE SumOver(f, S) >= f[x]
  <2>1. SumOver(f, S \ {x}) \in Nat
    BY <1>1
  <2>2. SumOver(f, S) = f[x] + SumOver(f, S \ {x})
    BY SumRemove
  <2> QED
    BY <2>1, <2>2
<1> QED
  BY <1>1, <1>2

\* A segment: a commit has a row and a name has a number.
Segment == [weight : Nat \ {0}, identity : Nat, neighbours : SUBSET Nat]

\* Segments have a weight, a name to sort by, and neighbours among themselves.
Segmented ==
    /\ segments \in Seq(Segment)
    /\ \A s \in Ids : segments[s].neighbours \subseteq Ids \ {s}

\* Segments are numbered from 1 and have a weight.
LEMMA SegmentedIs ==
  ASSUME Segmented
  PROVE  /\ IsFiniteSet(Ids) /\ Ids = 1..Len(segments) /\ Len(segments) \in Nat
         /\ Ids \subseteq Nat \ {0}
         /\ \A s \in Ids : Weight(s) \in Nat \ {0} /\ segments[s].identity \in Nat
         /\ \A s \in Ids : segments[s].neighbours \subseteq Ids \ {s}
<1>1. Ids = 1..Len(segments) /\ Len(segments) \in Nat
  BY DEF Segmented, Ids
<1>2. IsFiniteSet(Ids)
  BY <1>1, FS_Interval
<1>3. \A s \in Ids : segments[s] \in Segment
  BY <1>1 DEF Segmented, Ids
<1>4. \A s \in Ids : Weight(s) \in Nat \ {0} /\ segments[s].identity \in Nat
  BY <1>3 DEF Weight, Segment
<1> QED
  BY <1>1, <1>2, <1>4 DEF Segmented

\* The smaller weights of a segment and others.
Smallers(s) == [t \in Ids |-> Smaller(s, t)]

\* The smaller weights add up.
LEMMA SmallerSum ==
  ASSUME Segmented, NEW s \in Ids, NEW S \in SUBSET Ids
  PROVE  /\ MapThenSumSet(LAMBDA t : Smaller(s, t), S) = SumOver(Smallers(s), S)
         /\ \A t \in Ids : Smallers(s)[t] \in Nat \ {0}
         /\ IsFiniteSet(S)
<1> DEFINE f == Smallers(s)
           Is(it) == it = [r \in SUBSET S |-> IF r = {} THEN 0
                             ELSE Smaller(s, CHOOSE x \in r : TRUE) + it[r \ {CHOOSE x \in r : TRUE}]]
           total == CHOOSE it : Is(it)
<1>1. MapThenSumSet(LAMBDA t : Smaller(s, t), S) = total[S]
  BY DEF MapThenSumSet, MapThenFoldSet
<1>2. \A t \in Ids : f[t] = Smaller(s, t) /\ f[t] \in Nat \ {0}
  BY SegmentedIs DEF Smaller, Smallers
<1>3. IsFiniteSet(S)
  BY SegmentedIs, FS_Subset
<1>a. \A x \in S : f[x] \in Int
  <2> HIDE DEF f
  <2> QED BY <1>2
<1>4. \A it : Is(it) <=> PartialSums(it, f, S)
  <2>1. \A r \in SUBSET S : r # {} => Smaller(s, CHOOSE x \in r : TRUE) = f[CHOOSE x \in r : TRUE]
    BY <1>2
  <2> DEFINE w(it) == [r \in SUBSET S |-> IF r = {} THEN 0
                        ELSE Smaller(s, CHOOSE x \in r : TRUE) + it[r \ {CHOOSE x \in r : TRUE}]]
             v(it) == [r \in SUBSET S |-> IF r = {} THEN 0
                        ELSE f[CHOOSE x \in r : TRUE] + it[r \ {CHOOSE x \in r : TRUE}]]
  <2>3. ASSUME NEW it PROVE w(it) = v(it)
    <3> HIDE DEF f
    <3> QED BY <2>1
  <2>4. \A it : (Is(it) <=> it = w(it)) /\ (PartialSums(it, f, S) <=> it = v(it))
    <3> HIDE DEF f
    <3> QED BY DEF PartialSums
  <2> HIDE DEF Is, w, v
  <2> QED
    BY <2>3, <2>4
<1>5. PartialSums(CHOOSE it : PartialSums(it, f, S), f, S)
  <2> HIDE DEF f
  <2> QED BY <1>a, <1>3, PartialSumsExist
<1>6. PartialSums(total, f, S)
  <2> HIDE DEF Is, f
  <2> QED BY <1>4, <1>5
<1>7. SumOver(f, S) = total[S]
  <2> HIDE DEF total, f
  <2> QED BY <1>a, <1>3, <1>6, SumSolved
<1> QED
  BY <1>1, <1>2, <1>3, <1>7

\* Weights.
Weights == [t \in Ids |-> Weight(t)]

\* Weights add up.
LEMMA WeightSum ==
  ASSUME Segmented, NEW S \in SUBSET Ids
  PROVE  /\ MapThenSumSet(Weight, S) = SumOver(Weights, S)
         /\ \A t \in Ids : Weights[t] \in Nat \ {0} /\ Weights[t] = Weight(t)
         /\ IsFiniteSet(S)
<1> DEFINE f == Weights
           Is(it) == it = [r \in SUBSET S |-> IF r = {} THEN 0
                             ELSE Weight(CHOOSE x \in r : TRUE) + it[r \ {CHOOSE x \in r : TRUE}]]
           total == CHOOSE it : Is(it)
<1>1. MapThenSumSet(Weight, S) = total[S]
  BY DEF MapThenSumSet, MapThenFoldSet
<1>2. \A t \in Ids : f[t] = Weight(t) /\ f[t] \in Nat \ {0}
  BY SegmentedIs DEF Weights
<1>3. IsFiniteSet(S)
  BY SegmentedIs, FS_Subset
<1>a. \A x \in S : f[x] \in Int
  <2> HIDE DEF f
  <2> QED BY <1>2
<1>4. \A it : Is(it) <=> PartialSums(it, f, S)
  <2>1. \A r \in SUBSET S : r # {} => Weight(CHOOSE x \in r : TRUE) = f[CHOOSE x \in r : TRUE]
    BY <1>2
  <2> DEFINE w(it) == [r \in SUBSET S |-> IF r = {} THEN 0
                        ELSE Weight(CHOOSE x \in r : TRUE) + it[r \ {CHOOSE x \in r : TRUE}]]
             v(it) == [r \in SUBSET S |-> IF r = {} THEN 0
                        ELSE f[CHOOSE x \in r : TRUE] + it[r \ {CHOOSE x \in r : TRUE}]]
  <2>2. ASSUME NEW it PROVE w(it) = v(it)
    <3> HIDE DEF f
    <3> QED BY <2>1
  <2>3. \A it : (Is(it) <=> it = w(it)) /\ (PartialSums(it, f, S) <=> it = v(it))
    <3> HIDE DEF f
    <3> QED BY DEF PartialSums
  <2> HIDE DEF Is, w, v
  <2> QED
    BY <2>2, <2>3
<1>5. PartialSums(CHOOSE it : PartialSums(it, f, S), f, S)
  <2> HIDE DEF f
  <2> QED BY <1>a, <1>3, PartialSumsExist
<1>6. PartialSums(total, f, S)
  <2> HIDE DEF Is, f
  <2> QED BY <1>4, <1>5
<1>7. SumOver(f, S) = total[S]
  <2> HIDE DEF total, f
  <2> QED BY <1>a, <1>3, <1>6, SumSolved
<1> QED
  BY <1>1, <1>2, <1>3, <1>7

\* Reuse of a colour nearby.
Nearness(s) == [t \in Ids |-> (Len(Family) - Distance(s, t)) * Smaller(s, t)]

\* The segments near s that have colour c.
NearBeside(s, c) == {t \in Ids \ {s} : Distance(s, t) < Len(Family) /\ colours[t] = c}

\* The reuse of a colour nearby adds up.
LEMMA ReuseSum ==
  ASSUME Segmented, NEW s \in Ids, NEW c
  PROVE  NearbyReuse(s, c) \in Int /\ NearbyReuse(s, c) = SumOver(Nearness(s), NearBeside(s, c))
<1> DEFINE S == {t \in Ids \ {s} : Distance(s, t) < Len(Family) /\ colours[t] = c}
           f == Nearness(s)
           Is(it) == it = [r \in SUBSET S |-> IF r = {} THEN 0
                             ELSE (Len(Family) - Distance(s, CHOOSE x \in r : TRUE))
                                      * Smaller(s, CHOOSE x \in r : TRUE)
                                 + it[r \ {CHOOSE x \in r : TRUE}]]
           total == CHOOSE it : Is(it)
<1>1. NearbyReuse(s, c) = total[S]
  BY DEF MapThenSumSet, MapThenFoldSet, NearbyReuse
<1>2. ASSUME NEW t \in Ids PROVE f[t] = (Len(Family) - Distance(s, t)) * Smaller(s, t) /\ f[t] \in Int
  <2>1. f[t] = (Len(Family) - Distance(s, t)) * Smaller(s, t)
    BY DEF Nearness
  <2>2. Distance(s, t) \in Int /\ Smaller(s, t) \in Int
    BY SegmentedIs DEF Distance, Smaller
  <2>3. Len(Family) = 7
    BY DEF Family
  <2> DEFINE d == 7 - Distance(s, t)
             m == Smaller(s, t)
  <2>4. d \in Int /\ m \in Int /\ f[t] = d * m
    BY <2>1, <2>2, <2>3
  <2> HIDE DEF d, m, f
  <2>5. d * m \in Int
    BY <2>4
  <2> QED
    BY <2>1, <2>4, <2>5
<1>3. IsFiniteSet(S)
  <2>1. S \in SUBSET Ids
    OBVIOUS
  <2> HIDE DEF S
  <2> QED BY <2>1, SegmentedIs, FS_Subset
<1>4. \A it : Is(it) <=> PartialSums(it, f, S)
  <2>1. S \subseteq Ids
    OBVIOUS
  <2> HIDE DEF f, S
  <2>2. \A r \in SUBSET S : r # {} =>
           (Len(Family) - Distance(s, CHOOSE x \in r : TRUE)) * Smaller(s, CHOOSE x \in r : TRUE)
               = f[CHOOSE x \in r : TRUE]
    BY <1>2, <2>1
  <2> DEFINE w(it) == [r \in SUBSET S |-> IF r = {} THEN 0
                        ELSE (Len(Family) - Distance(s, CHOOSE x \in r : TRUE))
                                * Smaller(s, CHOOSE x \in r : TRUE)
                            + it[r \ {CHOOSE x \in r : TRUE}]]
             v(it) == [r \in SUBSET S |-> IF r = {} THEN 0
                        ELSE f[CHOOSE x \in r : TRUE] + it[r \ {CHOOSE x \in r : TRUE}]]
  <2>3. ASSUME NEW it PROVE w(it) = v(it)
    <3> HIDE DEF f, S
    <3> QED BY <2>2
  <2>4. \A it : (Is(it) <=> it = w(it)) /\ (PartialSums(it, f, S) <=> it = v(it))
    <3> HIDE DEF f, S
    <3> QED BY DEF PartialSums
  <2> HIDE DEF Is, w, v
  <2> QED
    BY <2>3, <2>4
<1>a. \A x \in S : f[x] \in Int
  <2> HIDE DEF f
  <2> QED BY <1>2
<1>5. PartialSums(CHOOSE it : PartialSums(it, f, S), f, S)
  <2> HIDE DEF f, S
  <2> QED BY <1>a, <1>3, PartialSumsExist
<1>6. PartialSums(total, f, S)
  <2> HIDE DEF Is, f, S
  <2> QED BY <1>4, <1>5
<1>7. SumOver(f, S) = total[S]
  <2> HIDE DEF total, f, S
  <2> QED BY <1>a, <1>3, <1>6, SumSolved
<1>8. SumOver(f, S) \in Int
  <2> HIDE DEF f, S
  <2> QED BY <1>a, <1>3, SumType
<1>9. NearBeside(s, c) = S
  BY DEF NearBeside
<1> HIDE DEF f, S, total
<1> QED
  BY <1>1, <1>7, <1>8, <1>9 DEF f

----------------------------------------------------------------------------
(* The cheapest colour.                                                    *)

\* The seven colours of palette.rs, their families and their preferences.
LEMMA PaletteIs ==
  /\ Palette = 1..7 /\ Uncoloured \notin Palette /\ Len(Family) = 7
  /\ IsFiniteSet(Palette) /\ Cardinality(Palette) = 7
  /\ Families = {"Green", "Coral", "Blue", "Warm", "Purple"}
  /\ \A c \in Palette : Family[c] \in Families /\ Preference[c] \in Int
  /\ \A c, d \in Palette : c # d => Preference[c] # Preference[d]
<1>1. Palette = 1..7 /\ Len(Family) = 7
  BY DEF Palette, Family
<1>2. IsFiniteSet(1..7) /\ Cardinality(1..7) = 7
  <2>1. 1 \in Int /\ 7 \in Int
    OBVIOUS
  <2>2. IsFiniteSet(1..7) /\ Cardinality(1..7) = IF 1 > 7 THEN 0 ELSE 7 - 1 + 1
    BY <2>1, FS_Interval
  <2> QED
    BY <2>2
<1>3. \A c \in 1..7 : Preference[c] \in Int
  BY DEF Preference
<1>4. \A c, d \in 1..7 : c # d => Preference[c] # Preference[d]
  BY DEF Preference
<1>5. Families = {"Green", "Coral", "Blue", "Warm", "Purple"}
  <2>1. {Family[c] : c \in 1..7} = {Family[1], Family[2], Family[3], Family[4], Family[5], Family[6], Family[7]}
    OBVIOUS
  <2>2. /\ Family[1] = "Green" /\ Family[2] = "Coral" /\ Family[3] = "Blue" /\ Family[4] = "Warm"
        /\ Family[5] = "Purple" /\ Family[6] = "Blue" /\ Family[7] = "Warm"
    BY DEF Family
  <2> QED
    BY <1>1, <2>1, <2>2 DEF Families
<1> QED
  BY <1>1, <1>2, <1>3, <1>4, <1>5 DEF Uncoloured, Families

\* The colours and loads while they are given out.
Colouring ==
    /\ Segmented
    /\ colours \in [Ids -> Palette \cup {Uncoloured}]
    /\ colourLoad \in [Palette -> Int]
    /\ familyLoad \in [Families -> Int]
    /\ budget \in Int

\* The segments beside s that have colour c.
SameBeside(s, c) == {t \in segments[s].neighbours : colours[t] = c}

\* Costs are seven numbers; the first is the weight of what has the same colour
\* beside it, the last tells any two colours apart.
LEMMA CostIs ==
  ASSUME Colouring, NEW s \in Ids, NEW c \in Palette
  PROVE  /\ DOMAIN Cost(s, c) = 1..7
         /\ \A i \in 1..7 : Cost(s, c)[i] \in Int
         /\ Cost(s, c)[1] = SumOver(Smallers(s), SameBeside(s, c))
         /\ Cost(s, c)[7] = Preference[c]
<1> DEFINE weight == Weight(s)
           had == colours[s]
           same == {t \in segments[s].neighbours : colours[t] = c}
           related == {t \in segments[s].neighbours :
                           colours[t] # Uncoloured /\ Family[colours[t]] = Family[c]}
           kept == had # Uncoloured /\ Family[had] = Family[c]
           inFamily == familyLoad[Family[c]] - (IF kept THEN weight ELSE 0)
           inColour == colourLoad[c] - (IF had = c THEN weight ELSE 0)
           k1 == MapThenSumSet(LAMBDA t : Smaller(s, t), same)
           k2 == MapThenSumSet(LAMBDA t : Smaller(s, t), related)
           k3 == IF Family[c] \in Semantic
                 THEN Square(Above(inFamily + weight, budget)) - Square(Above(inFamily, budget))
                 ELSE 0
           k4 == NearbyReuse(s, c)
           k5 == Square(inFamily + weight) - Square(inFamily)
           k6 == Square(inColour + weight) - Square(inColour)
           k7 == Preference[c]
<1>1. Cost(s, c) = <<k1, k2, k3, k4, k5, k6, k7>>
  BY DEF Cost
<1>2. Segmented /\ same \in SUBSET Ids /\ related \in SUBSET Ids
  BY SegmentedIs DEF Colouring
<1>3. k1 = SumOver(Smallers(s), same) /\ k2 = SumOver(Smallers(s), related)
  <2> HIDE DEF same, related
  <2> QED BY <1>2, SmallerSum
<1>4. k1 \in Int /\ k2 \in Int
  <2>1. ASSUME NEW S \in SUBSET Ids PROVE SumOver(Smallers(s), S) \in Int
    <3>1. IsFiniteSet(S) /\ \A t \in Ids : Smallers(s)[t] \in Nat \ {0}
      BY <1>2, SmallerSum
    <3>2. \A t \in S : Smallers(s)[t] \in Int
      BY <3>1
    <3> QED
      BY <3>1, <3>2, SumType
  <2> HIDE DEF same, related, k1, k2
  <2> QED
    BY <1>2, <1>3, <2>1
<1>5. k4 \in Int
  BY <1>2, ReuseSum
<1>6. weight \in Int /\ familyLoad[Family[c]] \in Int /\ colourLoad[c] \in Int /\ budget \in Int
  <2>1. weight \in Int
    BY <1>2, SegmentedIs
  <2>2. Family[c] \in Families
    BY PaletteIs
  <2> HIDE DEF weight
  <2> QED BY <2>1, <2>2 DEF Colouring
<1>7. inFamily \in Int /\ inColour \in Int
  <2> HIDE DEF weight, had, kept
  <2> QED BY <1>6
<1>8. \A n \in Int : Square(n) \in Int
  BY DEF Square
<1>9. k5 \in Int /\ k6 \in Int /\ k3 \in Int
  <2> HIDE DEF inFamily, inColour, weight
  <2>1. /\ inFamily + weight \in Int /\ inColour + weight \in Int
        /\ Above(inFamily + weight, budget) \in Int /\ Above(inFamily, budget) \in Int
    BY <1>6, <1>7 DEF Above
  <2> QED
    BY <1>7, <1>8, <2>1
<1>10. k7 \in Int
  BY PaletteIs
<1> HIDE DEF k1, k2, k3, k4, k5, k6, k7
<1>11. /\ DOMAIN Cost(s, c) = 1..7 /\ \A i \in 1..7 : Cost(s, c)[i] \in Int
       /\ Cost(s, c)[1] = k1 /\ Cost(s, c)[7] = k7
  BY <1>1, <1>4, <1>5, <1>9, <1>10
<1> QED
  BY <1>3, <1>11 DEF SameBeside, k7

\* There is a cheapest colour, and it is the one chosen.
LEMMA BestIs ==
  ASSUME Colouring, NEW s \in Ids
  PROVE  /\ BestColour(s) \in Palette
         /\ \A d \in Palette \ {BestColour(s)} : LexLess(Cost(s, BestColour(s)), Cost(s, d))
<1> DEFINE cost == [c \in Palette |-> Cost(s, c)]
           R == {p \in Palette \X Palette : LexLess(cost[p[1]], cost[p[2]])}
<1>1. \A c \in Palette : DOMAIN cost[c] = 1..7 /\ \A i \in 1..7 : cost[c][i] \in Int
  BY CostIs
<1>2. \A c, d \in Palette : c # d => \E i \in 1..7 : cost[c][i] # cost[d][i]
  <2>1. \A c \in Palette : cost[c][7] = Preference[c]
    BY CostIs
  <2> HIDE DEF cost
  <2>2. \A c, d \in Palette : c # d => cost[c][7] # cost[d][7]
    BY <2>1, PaletteIs
  <2>3. 7 \in 1..7
    OBVIOUS
  <2> QED
    BY <2>2, <2>3
<1>3. \A c, d \in Palette : <<c, d>> \in R <=> LexLess(cost[c], cost[d])
  <2> HIDE DEF cost
  <2> QED OBVIOUS
<1>4. Orders(R, Palette)
  <2> HIDE DEF cost, R
  <2>1. 7 \in Nat
    OBVIOUS
  <2> QED BY <1>1, <1>2, <1>3, <2>1, LexOrders
<1>5. PICK c \in Palette : \A d \in Palette \ {c} : <<c, d>> \in R
  <2>1. Palette # {}
    BY PaletteIs
  <2> HIDE DEF cost, R
  <2> QED BY <1>4, <2>1, PaletteIs, FirstExists
<1>6. \A d \in Palette \ {c} : LexLess(cost[c], cost[d])
  <2> HIDE DEF cost, R
  <2> QED BY <1>3, <1>5
<1> DEFINE best == CHOOSE b \in Palette : \A d \in Palette \ {b} : LexLess(cost[b], cost[d])
<1>7. BestColour(s) = best
  BY DEF BestColour
<1>8. best \in Palette /\ \A d \in Palette \ {best} : LexLess(cost[best], cost[d])
  <2> HIDE DEF cost
  <2> QED BY <1>6
<1> HIDE DEF best
<1> QED
  BY <1>7, <1>8

\* A segment with fewer neighbours than there are colours is given a colour that
\* none of them has.
LEMMA BestDiffers ==
  ASSUME Colouring, NEW s \in Ids, Cardinality(segments[s].neighbours) < Len(Family)
  PROVE  \A t \in segments[s].neighbours : colours[t] # BestColour(s)
<1> DEFINE near == segments[s].neighbours
           best == BestColour(s)
<1>1. near \subseteq Ids \ {s} /\ IsFiniteSet(near) /\ Segmented
  <2>1. near \in SUBSET Ids /\ near \subseteq Ids \ {s}
    BY SegmentedIs DEF Colouring
  <2> HIDE DEF near
  <2> QED BY <2>1, SegmentedIs, FS_Subset DEF Colouring
<1>2. PICK free \in Palette : \A t \in near : colours[t] # free
  <2> SUFFICES ASSUME \A c \in Palette : \E t \in near : colours[t] = c PROVE FALSE
    OBVIOUS
  <2> DEFINE wearer == [c \in Palette |-> CHOOSE t \in near : colours[t] = c]
  <2>1. \A c \in Palette : wearer[c] \in near /\ colours[wearer[c]] = c
    OBVIOUS
  <2>2. wearer \in [Palette -> near]
    <3> HIDE DEF near
    <3> QED BY <2>1
  <2>3. Cardinality(near) < Cardinality(Palette)
    BY PaletteIs
  <2>4. PICK c \in Palette, d \in Palette : c # d /\ wearer[c] = wearer[d]
    <3> HIDE DEF wearer, near
    <3> QED BY <1>1, <2>2, <2>3, PaletteIs, FS_PigeonHole
  <2> HIDE DEF wearer
  <2> QED
    BY <2>1, <2>4
<1>3. best \in Palette /\ \A d \in Palette \ {best} : LexLess(Cost(s, best), Cost(s, d))
  BY BestIs
<1> SUFFICES ASSUME NEW t \in near, colours[t] = best PROVE FALSE
  BY DEF near
<1>4. best # free
  BY <1>2
<1>5. Cost(s, free)[1] = 0
  <2>1. SameBeside(s, free) = {}
    BY <1>2 DEF SameBeside
  <2>2. Cost(s, free)[1] = SumOver(Smallers(s), SameBeside(s, free))
    BY CostIs
  <2> QED
    BY <2>1, <2>2, SumEmpty
<1>6. Cost(s, best)[1] > 0
  <2>1. SameBeside(s, best) \in SUBSET Ids /\ t \in SameBeside(s, best)
    BY <1>1 DEF SameBeside
  <2>2. /\ IsFiniteSet(SameBeside(s, best))
        /\ \A u \in Ids : Smallers(s)[u] \in Nat \ {0}
    BY <1>1, <2>1, SmallerSum
  <2>3. \A u \in SameBeside(s, best) : Smallers(s)[u] \in Nat
    BY <2>1, <2>2
  <2>4. SumOver(Smallers(s), SameBeside(s, best)) >= Smallers(s)[t]
    BY <2>1, <2>2, <2>3, SumOfNaturals
  <2>5. Smallers(s)[t] > 0 /\ Smallers(s)[t] \in Nat
    BY <2>1, <2>2
  <2>6. Cost(s, best)[1] = SumOver(Smallers(s), SameBeside(s, best)) /\ Cost(s, best)[1] \in Int
    BY <1>3, CostIs
  <2> QED
    BY <2>4, <2>5, <2>6
<1>7. LexLess(Cost(s, best), Cost(s, free))
  BY <1>2, <1>3, <1>4
<1> DEFINE a == Cost(s, best)
           b == Cost(s, free)
<1>8. DOMAIN a = 1..7 /\ LexLess(a, b) /\ a[1] \in Int /\ a[1] > 0 /\ b[1] = 0
  BY <1>2, <1>3, <1>5, <1>6, <1>7, CostIs
<1> HIDE DEF a, b
<1> QED
  <2>1. PICK i \in 1..7 : a[i] < b[i] /\ \A j \in 1..(i - 1) : a[j] = b[j]
    BY <1>8 DEF LexLess
  <2>2. CASE i = 1
    BY <1>8, <2>1, <2>2
  <2>3. CASE i # 1
    <3>1. 1 \in 1..(i - 1)
      BY <2>1, <2>3
    <3>2. a[1] = b[1]
      BY <2>1, <3>1
    <3> QED
      BY <1>8, <3>2
  <2> QED
    BY <2>2, <2>3

----------------------------------------------------------------------------
(* Placing a segment.                                                      *)

\* The segments of a colour, and those of a family of colours.
Worn(c) == {s \in Ids : colours[s] = c}

WornIn(f) == {s \in Ids : colours[s] # Uncoloured /\ Family[colours[s]] = f}

\* The loads are the weights of what has a colour or a family.
Loaded ==
    /\ \A c \in Palette : colourLoad[c] = SumOver(Weights, Worn(c))
    /\ \A f \in Families : familyLoad[f] = SumOver(Weights, WornIn(f))

\* Being a neighbour is mutual.
Mutual ==
    \A s, t \in Ids : t \in segments[s].neighbours => s \in segments[t].neighbours

\* A segment with as many neighbours as there are colours.
Crowded(s) == Cardinality(segments[s].neighbours) >= Len(Family)

\* Neighbours that are not crowded differ.
Apart ==
    \A s \in Ids : \A t \in segments[s].neighbours :
        colours[s] = colours[t] /\ colours[s] # Uncoloured => Crowded(s) \/ Crowded(t)

\* What holds from the first placement to the last.
Placing ==
    /\ Colouring /\ Mutual /\ Apart /\ Loaded
    /\ turns \in [Ids -> Ids]
    /\ placed \in Nat

\* The turn is that of a segment.
LEMMA TurnIs ==
  ASSUME Placing, placed < Passes * Len(segments)
  PROVE  Turn \in Ids
<1>1. Len(segments) \in Nat /\ Ids = 1..Len(segments)
  BY SegmentedIs DEF Placing, Colouring
<1>2. Len(segments) # 0 /\ placed \in Nat
  BY <1>1 DEF Placing, Passes
<1>3. placed % Len(segments) \in 0..(Len(segments) - 1)
  BY <1>1, <1>2
<1>4. (placed % Len(segments)) + 1 \in Ids
  BY <1>1, <1>3
<1> QED
  BY <1>4 DEF Turn, Placing

\* A sum over what one element joins or leaves.
LEMMA SumWith ==
  ASSUME Segmented, NEW s \in Ids, NEW S \in SUBSET Ids
  PROVE  /\ SumOver(Weights, S) \in Int
         /\ s \in S => SumOver(Weights, S) = SumOver(Weights, S \ {s}) + Weight(s)
         /\ s \notin S => S \ {s} = S
<1>w. IsFiniteSet(S) /\ \A t \in Ids : Weights[t] \in Nat \ {0} /\ Weights[t] = Weight(t)
  BY WeightSum
<1>1. IsFiniteSet(S) /\ \A t \in S : Weights[t] \in Int
  BY <1>w
<1>2. SumOver(Weights, S) \in Int
  BY <1>1, SumType
<1>3. ASSUME s \in S PROVE SumOver(Weights, S) = SumOver(Weights, S \ {s}) + Weight(s)
  <2>1. SumOver(Weights, S) = Weights[s] + SumOver(Weights, S \ {s})
    BY <1>1, <1>3, SumRemove
  <2>2. IsFiniteSet(S \ {s}) /\ \A t \in S \ {s} : Weights[t] \in Int
    BY <1>1, FS_RemoveElement
  <2>3. SumOver(Weights, S \ {s}) \in Int
    BY <2>2, SumType
  <2>4. Weights[s] = Weight(s) /\ Weight(s) \in Int
    BY <1>w
  <2> QED
    BY <2>1, <2>3, <2>4
<1> QED
  BY <1>2, <1>3

\* The loads after one element has left S and joined, or not, what is now T.
LEMMA LoadMoves ==
  ASSUME Segmented, NEW s \in Ids, NEW S \in SUBSET Ids, NEW T \in SUBSET Ids,
         T \ {s} = S \ {s}, NEW load, load = SumOver(Weights, S),
         NEW freed, freed = IF s \in S THEN load - Weight(s) ELSE load,
         NEW new, new = IF s \in T THEN freed + Weight(s) ELSE freed
  PROVE  new = SumOver(Weights, T) /\ new \in Int
<1> DEFINE rest == SumOver(Weights, S \ {s})
           w == Weight(s)
<1>1. rest \in Int /\ w \in Int
  <2>1. S \ {s} \in SUBSET Ids
    OBVIOUS
  <2>2. rest \in Int
    BY <2>1, SumWith
  <2> QED
    BY <2>2, SegmentedIs
<1>2. s \in S => load = rest + w
  BY SumWith
<1>3. s \notin S => load = rest
  BY SumWith
<1>4. s \in T => SumOver(Weights, T) = rest + w
  BY SumWith
<1>5. s \notin T => SumOver(Weights, T) = rest
  BY SumWith
<1> HIDE DEF rest
<1>6. freed = rest
  BY <1>1, <1>2, <1>3
<1>7. new = IF s \in T THEN rest + w ELSE rest
  BY <1>6
<1> QED
  BY <1>1, <1>4, <1>5, <1>7

\* A segment that is not crowded has fewer neighbours than there are colours.
LEMMA Uncrowded ==
  ASSUME Segmented, NEW s \in Ids, ~(Cardinality(segments[s].neighbours) < Len(Family))
  PROVE  Crowded(s)
<1>1. segments[s].neighbours \in SUBSET Ids /\ IsFiniteSet(Ids)
  BY SegmentedIs
<1>2. IsFiniteSet(segments[s].neighbours)
  BY <1>1, FS_Subset
<1>3. Cardinality(segments[s].neighbours) \in Nat
  BY <1>2, FS_CardinalityType
<1>4. Len(Family) = 7
  BY PaletteIs
<1> QED
  BY <1>3, <1>4 DEF Crowded

\* What a placement keeps.
LEMMA PlaceKeeps ==
  ASSUME Placing, Place
  PROVE  Placing'
<1> DEFINE s == Turn
           new == BestColour(s)
           freed == IF colours[s] = Uncoloured THEN colourLoad
                    ELSE [colourLoad EXCEPT ![colours[s]] = @ - Weight(s)]
           freedFamily == IF colours[s] = Uncoloured THEN familyLoad
                          ELSE [familyLoad EXCEPT ![Family[colours[s]]] = @ - Weight(s)]
<1>1. /\ placed < Passes * Len(segments)
      /\ colours' = [colours EXCEPT ![s] = new]
      /\ colourLoad' = [freed EXCEPT ![new] = @ + Weight(s)]
      /\ familyLoad' = [freedFamily EXCEPT ![Family[new]] = @ + Weight(s)]
      /\ placed' = placed + 1
      /\ UNCHANGED <<segments, budget, turns>>
  BY DEF Place
<1>2. /\ Colouring /\ Segmented /\ colours \in [Ids -> Palette \cup {Uncoloured}]
      /\ colourLoad \in [Palette -> Int] /\ familyLoad \in [Families -> Int]
      /\ Ids' = Ids
  BY <1>1 DEF Placing, Colouring, Ids
<1>3. s \in Ids /\ new \in Palette /\ Family[new] \in Families
  BY <1>1, <1>2, TurnIs, BestIs, PaletteIs
<1>a. colours[s] \in Palette \cup {Uncoloured}
  BY <1>2, <1>3
<1>b. Cardinality(segments[s].neighbours) < Len(Family) =>
         \A t \in segments[s].neighbours : colours[t] # new
  BY <1>2, <1>3, BestDiffers
<1> HIDE DEF s, new
<1>4. colours' \in [Ids -> Palette \cup {Uncoloured}] /\ colours'[s] = new
      /\ \A t \in Ids : t # s => colours'[t] = colours[t]
  BY <1>1, <1>2, <1>3
<1>5. ASSUME NEW c \in Palette
      PROVE  colourLoad'[c] = SumOver(Weights, Worn(c)') /\ colourLoad'[c] \in Int
  <2>1. /\ Worn(c) \in SUBSET Ids /\ Worn(c)' \in SUBSET Ids
        /\ s \in Worn(c) <=> colours[s] = c
        /\ s \in Worn(c)' <=> new = c
        /\ Worn(c)' \ {s} = Worn(c) \ {s}
    BY <1>2, <1>3, <1>4 DEF Worn
  <2>2. freed[c] = IF s \in Worn(c) THEN colourLoad[c] - Weight(s) ELSE colourLoad[c]
    <3>1. Uncoloured # c
      BY PaletteIs
    <3> QED
      BY <1>2, <1>a, <2>1, <3>1
  <2>3. DOMAIN freed = Palette
    BY <1>2
  <2> HIDE DEF freed
  <2>4. colourLoad'[c] = IF s \in Worn(c)' THEN freed[c] + Weight(s) ELSE freed[c]
    BY <1>1, <2>1, <2>3
  <2>5. colourLoad[c] = SumOver(Weights, Worn(c))
    BY DEF Placing, Loaded
  <2> QED
    BY <1>2, <1>3, <2>1, <2>2, <2>4, <2>5, LoadMoves
<1>6. ASSUME NEW f \in Families
      PROVE  familyLoad'[f] = SumOver(Weights, WornIn(f)') /\ familyLoad'[f] \in Int
  <2>1. /\ WornIn(f) \in SUBSET Ids /\ WornIn(f)' \in SUBSET Ids
        /\ s \in WornIn(f) <=> colours[s] # Uncoloured /\ Family[colours[s]] = f
        /\ s \in WornIn(f)' <=> Family[new] = f
        /\ WornIn(f)' \ {s} = WornIn(f) \ {s}
    <3>1. new # Uncoloured
      BY <1>3, PaletteIs
    <3> QED
      BY <1>2, <1>3, <1>4, <3>1 DEF WornIn
  <2>2. freedFamily[f] = IF s \in WornIn(f) THEN familyLoad[f] - Weight(s) ELSE familyLoad[f]
    BY <1>2, <1>a, <2>1
  <2>3. DOMAIN freedFamily = Families
    BY <1>2
  <2> HIDE DEF freedFamily
  <2>4. familyLoad'[f] = IF s \in WornIn(f)' THEN freedFamily[f] + Weight(s) ELSE freedFamily[f]
    BY <1>1, <2>1, <2>3
  <2>5. familyLoad[f] = SumOver(Weights, WornIn(f))
    BY DEF Placing, Loaded
  <2> QED
    BY <1>2, <1>3, <2>1, <2>2, <2>4, <2>5, LoadMoves
<1>7. Colouring'
  <2>1. colourLoad' \in [Palette -> Int]
    <3>1. DOMAIN freed = Palette
      BY <1>2
    <3> HIDE DEF freed
    <3>2. colourLoad' = [c \in Palette |-> colourLoad'[c]]
      BY <1>1, <3>1
    <3> QED
      BY <1>5, <3>2
  <2>2. familyLoad' \in [Families -> Int]
    <3>1. DOMAIN freedFamily = Families
      BY <1>2
    <3> HIDE DEF freedFamily
    <3>2. familyLoad' = [f \in Families |-> familyLoad'[f]]
      BY <1>1, <3>1
    <3> QED
      BY <1>6, <3>2
  <2>3. Segmented' /\ budget' \in Int
    BY <1>1, <1>2 DEF Segmented, Colouring, Ids
  <2> QED
    BY <1>2, <1>4, <2>1, <2>2, <2>3 DEF Colouring
<1>8. Loaded'
  <2>1. Weights' = Weights
    BY <1>1 DEF Weights, Weight, Ids
  <2>2. \A c \in Palette : colourLoad'[c] = SumOver(Weights', Worn(c)')
    BY <1>5, <2>1
  <2>3. \A f \in Families : familyLoad'[f] = SumOver(Weights', WornIn(f)')
    BY <1>6, <2>1
  <2> QED
    BY <2>2, <2>3 DEF Loaded
<1>9. Mutual'
  BY <1>1, <1>2 DEF Placing, Mutual
<1>10. Apart'
  <2> SUFFICES ASSUME NEW a \in Ids, NEW b \in segments[a].neighbours,
                      colours'[a] = colours'[b], colours'[a] # Uncoloured
               PROVE  Crowded(a) \/ Crowded(b)
    <3>1. \A a \in Ids : Crowded(a)' <=> Crowded(a)
      BY <1>1 DEF Crowded
    <3>2. \A a \in Ids : segments'[a].neighbours = segments[a].neighbours
                         /\ segments[a].neighbours \subseteq Ids
      BY <1>1, <1>2, SegmentedIs
    <3> QED
      BY <1>2, <3>1, <3>2 DEF Apart
  <2>1. b \in Ids /\ a # b /\ a \in segments[b].neighbours
    BY <1>2, SegmentedIs DEF Placing, Mutual
  <2>2. CASE a # s /\ b # s
    BY <1>4, <2>1, <2>2 DEF Placing, Apart
  <2>3. CASE a = s
    <3>1. colours[b] = new
      BY <1>4, <2>1, <2>3
    <3>2. ~(Cardinality(segments[s].neighbours) < Len(Family))
      BY <1>b, <2>3, <3>1
    <3> QED
      BY <1>2, <1>3, <2>3, <3>2, Uncrowded
  <2>4. CASE b = s
    <3>1. colours[a] = new
      BY <1>4, <2>1, <2>4
    <3>2. ~(Cardinality(segments[s].neighbours) < Len(Family))
      BY <1>b, <2>1, <2>4, <3>1
    <3> QED
      BY <1>2, <1>3, <2>4, <3>2, Uncrowded
  <2> QED
    BY <2>2, <2>3, <2>4
<1>11. turns' \in [Ids' -> Ids'] /\ placed' \in Nat
  BY <1>1, <1>2 DEF Placing
<1> QED
  BY <1>7, <1>8, <1>9, <1>10, <1>11 DEF Placing

----------------------------------------------------------------------------
(* The shades.                                                             *)

\* The palette has two pairs of shades of one family.
LEMMA ShadesAre == Shades = {<<3, 6>>, <<4, 7>>}
<1>1. Palette = 1..7
  BY PaletteIs
<1>2. /\ Family[1] = "Green" /\ Family[2] = "Coral" /\ Family[3] = "Blue" /\ Family[4] = "Warm"
      /\ Family[5] = "Purple" /\ Family[6] = "Blue" /\ Family[7] = "Warm"
  BY DEF Family
<1>3. /\ Preference[1] = 6 /\ Preference[2] = 5 /\ Preference[3] = 0 /\ Preference[4] = 1
      /\ Preference[5] = 2 /\ Preference[6] = 3 /\ Preference[7] = 4
  BY DEF Preference
<1>4. ASSUME NEW a \in 1..7, NEW b \in 1..7
      PROVE  (Family[a] = Family[b] /\ Preference[a] < Preference[b])
                 <=> (a = 3 /\ b = 6) \/ (a = 4 /\ b = 7)
  <2>1. a \in {1, 2, 3, 4, 5, 6, 7} /\ b \in {1, 2, 3, 4, 5, 6, 7}
    OBVIOUS
  <2> QED
    BY <2>1, <1>2, <1>3
<1>5. ASSUME NEW p \in Palette \X Palette
      PROVE  (Family[p[1]] = Family[p[2]] /\ Preference[p[1]] < Preference[p[2]])
                 <=> p \in {<<3, 6>>, <<4, 7>>}
  <2>1. p[1] \in 1..7 /\ p[2] \in 1..7 /\ p = <<p[1], p[2]>>
    BY <1>1
  <2> QED
    BY <2>1, <1>4
<1>6. <<3, 6>> \in Palette \X Palette /\ <<4, 7>> \in Palette \X Palette
  BY <1>1
<1> QED
  BY <1>5, <1>6 DEF Shades

\* The exchange of two shades.
Exchange(c) ==
    IF \E p \in Exchanged : c = p[1] THEN (CHOOSE p \in Exchanged : c = p[1])[2]
    ELSE IF \E p \in Exchanged : c = p[2] THEN (CHOOSE p \in Exchanged : c = p[2])[1]
    ELSE c

\* The exchange is undone by itself, within the families.
LEMMA ExchangeWithin ==
  /\ \A c \in Palette \cup {Uncoloured} : Exchange(c) \in Palette \cup {Uncoloured}
  /\ \A c, d \in Palette \cup {Uncoloured} : Exchange(c) = Exchange(d) => c = d
  /\ \A c \in Palette \cup {Uncoloured} : Exchange(c) = Uncoloured <=> c = Uncoloured
  /\ \A c \in Palette : Exchange(Exchange(c)) = c /\ Family[Exchange(c)] = Family[c]
<1> DEFINE blue == <<3, 6>> \in Exchanged
           warm == <<4, 7>> \in Exchanged
           to(c) == IF c = 3 /\ blue THEN 6 ELSE IF c = 6 /\ blue THEN 3
                    ELSE IF c = 4 /\ warm THEN 7 ELSE IF c = 7 /\ warm THEN 4 ELSE c
<1>1. Exchanged \subseteq {<<3, 6>>, <<4, 7>>}
  BY ShadesAre DEF Exchanged
<1>2. ASSUME NEW c \in Palette \cup {Uncoloured} PROVE Exchange(c) = to(c)
  <2>1. (\E p \in Exchanged : c = p[1]) <=> (c = 3 /\ blue) \/ (c = 4 /\ warm)
    BY <1>1
  <2>2. (\E p \in Exchanged : c = p[2]) <=> (c = 6 /\ blue) \/ (c = 7 /\ warm)
    BY <1>1
  <2>3. ASSUME \E p \in Exchanged : c = p[1]
        PROVE  (CHOOSE p \in Exchanged : c = p[1])[2] = IF c = 3 THEN 6 ELSE 7
    <3> DEFINE q == CHOOSE p \in Exchanged : c = p[1]
    <3>1. q \in Exchanged /\ c = q[1]
      BY <2>3
    <3> HIDE DEF q
    <3>2. q = <<3, 6>> \/ q = <<4, 7>>
      BY <1>1, <3>1
    <3>3. q[2] = IF c = 3 THEN 6 ELSE 7
      BY <3>1, <3>2
    <3> QED
      BY <3>3 DEF q
  <2>4. ASSUME \E p \in Exchanged : c = p[2]
        PROVE  (CHOOSE p \in Exchanged : c = p[2])[1] = IF c = 6 THEN 3 ELSE 4
    <3> DEFINE q == CHOOSE p \in Exchanged : c = p[2]
    <3>1. q \in Exchanged /\ c = q[2]
      BY <2>4
    <3> HIDE DEF q
    <3>2. q = <<3, 6>> \/ q = <<4, 7>>
      BY <1>1, <3>1
    <3>3. q[1] = IF c = 6 THEN 3 ELSE 4
      BY <3>1, <3>2
    <3> QED
      BY <3>3 DEF q
  <2> HIDE DEF blue, warm
  <2>5. CASE \E p \in Exchanged : c = p[1]
    BY <2>1, <2>3, <2>5 DEF Exchange
  <2>6. CASE ~(\E p \in Exchanged : c = p[1]) /\ \E p \in Exchanged : c = p[2]
    BY <2>1, <2>2, <2>4, <2>6 DEF Exchange
  <2>7. CASE ~(\E p \in Exchanged : c = p[1]) /\ ~(\E p \in Exchanged : c = p[2])
    BY <2>1, <2>2, <2>7 DEF Exchange
  <2> QED
    BY <2>5, <2>6, <2>7
<1>3. Palette \cup {Uncoloured} = 0..7 /\ Uncoloured = 0
  BY PaletteIs DEF Uncoloured
<1>4. \A c \in 0..7 : to(c) \in 0..7
  OBVIOUS
<1>5. \A c, d \in 0..7 : to(c) = to(d) => c = d
  OBVIOUS
<1>6. \A c \in 0..7 : to(c) = 0 <=> c = 0
  OBVIOUS
<1>7. \A c \in 1..7 : to(to(c)) = c
  OBVIOUS
<1>8. \A c \in 1..7 : Family[to(c)] = Family[c]
  BY DEF Family
<1>9. Palette = 1..7
  BY PaletteIs
<1> HIDE DEF to
<1>10. \A c \in Palette : Exchange(Exchange(c)) = c /\ Family[Exchange(c)] = Family[c]
  BY <1>2, <1>3, <1>4, <1>7, <1>8, <1>9
<1> QED
  BY <1>2, <1>3, <1>4, <1>5, <1>6, <1>10

\* Colours that are exchanged stay apart.
LEMMA ExchangeIs ==
  /\ \A c \in Palette \cup {Uncoloured} : Exchange(c) \in Palette \cup {Uncoloured}
  /\ \A c, d \in Palette \cup {Uncoloured} : Exchange(c) = Exchange(d) => c = d
  /\ \A c \in Palette \cup {Uncoloured} : Exchange(c) = Uncoloured => c = Uncoloured
BY ExchangeWithin

\* What the exchange of shades keeps.
LEMMA ShadeKeeps ==
  ASSUME Placing, PreferReadableShades
  PROVE  /\ Segmented' /\ Mutual' /\ Apart'
         /\ colours' \in [Ids' -> Palette \cup {Uncoloured}]
<1>1. /\ colours' = [s \in Ids |-> Exchange(colours[s])]
      /\ UNCHANGED segments /\ Ids' = Ids
  BY DEF PreferReadableShades, Exchange, Ids
<1>2. /\ colours \in [Ids -> Palette \cup {Uncoloured}] /\ Segmented
  BY DEF Placing, Colouring
<1>3. colours' \in [Ids' -> Palette \cup {Uncoloured}]
  <2>1. \A s \in Ids : Exchange(colours[s]) \in Palette \cup {Uncoloured}
    BY <1>2, ExchangeIs
  <2> QED
    BY <1>1, <2>1
<1>4. Segmented' /\ Mutual'
  BY <1>1, <1>2 DEF Segmented, Placing, Mutual
<1>5. ASSUME NEW a \in Ids, NEW b \in segments[a].neighbours,
             colours'[a] = colours'[b], colours'[a] # Uncoloured
      PROVE  Crowded(a) \/ Crowded(b)
  <2>1. b \in Ids
    BY <1>2, SegmentedIs
  <2>2. /\ colours'[a] = Exchange(colours[a]) /\ colours'[b] = Exchange(colours[b])
        /\ colours[a] \in Palette \cup {Uncoloured} /\ colours[b] \in Palette \cup {Uncoloured}
    BY <1>1, <1>2, <2>1
  <2>3. colours[a] = colours[b]
    BY <1>5, <2>2, ExchangeIs
  <2>4. colours[a] # Uncoloured
    <3> SUFFICES ASSUME colours[a] = Uncoloured PROVE FALSE
      OBVIOUS
    <3>1. ~ \E p \in Exchanged : Uncoloured = p[1] \/ Uncoloured = p[2]
      BY ShadesAre DEF Exchanged, Uncoloured
    <3>2. Exchange(Uncoloured) = Uncoloured
      BY <3>1 DEF Exchange
    <3> QED
      BY <1>5, <2>2, <3>2
  <2> QED
    BY <2>3, <2>4 DEF Placing, Apart
<1>6. Apart'
  <2>1. \A a \in Ids : (Crowded(a)' <=> Crowded(a)) /\ segments'[a].neighbours = segments[a].neighbours
    BY <1>1 DEF Crowded
  <2>2. ASSUME NEW a \in Ids, NEW b \in segments[a].neighbours,
               colours'[a] = colours'[b], colours'[a] # Uncoloured
        PROVE  Crowded(a)' \/ Crowded(b)'
    <3>1. b \in Ids
      BY <1>2, SegmentedIs
    <3> QED
      BY <1>5, <2>1, <2>2, <3>1
  <2>3. \A a \in Ids : \A b \in segments'[a].neighbours :
           colours'[a] = colours'[b] /\ colours'[a] # Uncoloured => Crowded(a)' \/ Crowded(b)'
    BY <2>1, <2>2
  <2> QED
    BY <1>1, <2>3 DEF Apart
<1> QED
  BY <1>3, <1>4, <1>6

----------------------------------------------------------------------------
(* The turns.                                                              *)

\* Nothing has a colour.
Fresh ==
    /\ colourLoad = [c \in Palette |-> 0]
    /\ familyLoad = [f \in Families |-> 0]
    /\ placed = 0

\* Larger segments come first: a strict order.
LEMMA PrecedesOrders ==
  ASSUME Segmented
  PROVE  Orders({p \in Ids \X Ids : Precedes(p[1], p[2])}, Ids)
<1> DEFINE R == {p \in Ids \X Ids : Precedes(p[1], p[2])}
<1>1. \A s \in Ids : Weight(s) \in Int /\ segments[s].identity \in Int /\ s \in Int
  BY SegmentedIs
<1>2. \A s, t \in Ids : <<s, t>> \in R <=> Precedes(s, t)
  OBVIOUS
<1> HIDE DEF R
<1>3. \A s \in Ids : ~Precedes(s, s)
  BY <1>1 DEF Precedes
<1>4. \A s, t \in Ids : s # t => Precedes(s, t) \/ Precedes(t, s)
  BY <1>1 DEF Precedes
<1>5. \A s, t, u \in Ids : Precedes(s, t) /\ Precedes(t, u) => Precedes(s, u)
  BY <1>1 DEF Precedes
<1>6. Orders(R, Ids)
  BY <1>2, <1>3, <1>4, <1>5 DEF Orders
<1> QED
  BY <1>6 DEF R

\* The order of turns.
LEMMA TurnsExist ==
  ASSUME Segmented
  PROVE  [i \in Ids |-> CHOOSE s \in Ids : Cardinality({t \in Ids : Precedes(t, s)}) = i - 1]
             \in [Ids -> Ids]
<1> DEFINE R == {p \in Ids \X Ids : Precedes(p[1], p[2])}
<1>1. Cardinality(Ids) = Len(segments) /\ Ids = 1..Len(segments)
  <2>1. Len(segments) \in Nat /\ Ids = 1..Len(segments)
    BY SegmentedIs
  <2>2. 1 \in Int /\ Len(segments) \in Int
    BY <2>1
  <2>3. Cardinality(1..Len(segments)) = IF 1 > Len(segments) THEN 0 ELSE Len(segments) - 1 + 1
    BY <2>2, FS_Interval
  <2> QED
    BY <2>1, <2>3
<1>2. ASSUME NEW i \in Ids
      PROVE  \E s \in Ids : Cardinality({t \in Ids : Precedes(t, s)}) = i - 1
  <2>1. PICK s \in Ids : Rank(R, Ids, s) = i - 1
    <3>1. i \in 1..Cardinality(Ids)
      BY <1>1
    <3> HIDE DEF R
    <3>2. Orders(R, Ids) /\ IsFiniteSet(Ids)
      BY PrecedesOrders, SegmentedIs DEF R
    <3> QED
      BY <3>1, <3>2, RankExists
  <2>2. {t \in Ids : Precedes(t, s)} = {t \in Ids : <<t, s>> \in R}
    OBVIOUS
  <2>3. Cardinality({t \in Ids : Precedes(t, s)}) = i - 1
    BY <2>1, <2>2 DEF Rank
  <2> QED
    BY <2>3
<1>3. \A i \in Ids : (CHOOSE s \in Ids : Cardinality({t \in Ids : Precedes(t, s)}) = i - 1) \in Ids
  BY <1>2
<1> QED
  BY <1>3

\* The palette of every segment.
Coloured == colours \in [Ids -> Palette \cup {Uncoloured}]

----------------------------------------------------------------------------
(* The objective, as sums of families.                                     *)

\* The colours of the segments, whether the loads are kept up or not.
Dressed ==
    /\ Segmented
    /\ colours \in [Ids -> Palette \cup {Uncoloured}]
    /\ budget \in Int

\* The segments that have a colour, and what the objective looks at.
Wearing == {s \in Ids : colours[s] # Uncoloured}

WearingPairs == {p \in Wearing \X Wearing : p[1] < p[2]}

AdjacentPairs == {p \in WearingPairs : p[2] \in segments[p[1]].neighbours}

SamePairs == {p \in AdjacentPairs : colours[p[1]] = colours[p[2]]}

RelatedPairs == {p \in AdjacentPairs : Family[colours[p[1]]] = Family[colours[p[2]]]}

NearPairs == {p \in WearingPairs : /\ Distance(p[1], p[2]) < Len(Family)
                                   /\ colours[p[1]] = colours[p[2]]}

FamilyTotal(f) == MapThenSumSet(Weight, {s \in Wearing : Family[colours[s]] = f})

\* What is added up.
PairWeights == [p \in Ids \X Ids |-> Smaller(p[1], p[2])]

PairNearness == [p \in Ids \X Ids |-> (Len(Family) - Distance(p[1], p[2])) * Smaller(p[1], p[2])]

Excesses == [f \in Families |-> Square(Above(SumOver(Weights, WornIn(f)), budget))]

FamilySquares == [f \in Families |-> Square(SumOver(Weights, WornIn(f)))]

ColourSquares == [c \in Palette |-> Square(SumOver(Weights, Worn(c)))]

Preferred == [s \in Wearing |-> Preference[colours[s]]]

\* Squares and the excess over a limit are integers.
LEMMA SquareIs == \A n \in Int : Square(n) \in Int /\ \A limit \in Int : Above(n, limit) \in Int
BY DEF Square, Above

\* Nearness is a number, the same in both directions.
LEMMA NearnessIs ==
  ASSUME Segmented, NEW s \in Ids, NEW t \in Ids
  PROVE  /\ (Len(Family) - Distance(s, t)) * Smaller(s, t) \in Int
         /\ Distance(s, t) = Distance(t, s) /\ Smaller(s, t) = Smaller(t, s)
         /\ Smaller(s, t) \in Int /\ Distance(s, t) \in Int
<1>1. Distance(s, t) \in Int /\ Smaller(s, t) \in Int
  BY SegmentedIs DEF Distance, Smaller
<1>2. Distance(s, t) = Distance(t, s) /\ Smaller(s, t) = Smaller(t, s)
  <2>1. s \in Int /\ t \in Int /\ Weight(s) \in Int /\ Weight(t) \in Int
    BY SegmentedIs
  <2> QED
    BY <2>1 DEF Distance, Smaller
<1> DEFINE d == Len(Family) - Distance(s, t)
           m == Smaller(s, t)
<1>3. d \in Int /\ m \in Int
  BY <1>1, PaletteIs
<1>4. d * m \in Int
  <2> HIDE DEF d, m
  <2> QED BY <1>3
<1> QED
  BY <1>1, <1>2, <1>4

\* Pairs of segments are finitely many.
LEMMA PairsAreFinite ==
  ASSUME Segmented, NEW S \in SUBSET (Ids \X Ids)
  PROVE  IsFiniteSet(S)
<1>1. IsFiniteSet(Ids)
  BY SegmentedIs
<1>2. IsFiniteSet(Ids \X Ids)
  BY <1>1, FS_Product
<1> QED
  BY <1>2, FS_Subset

\* The smaller weights of pairs add up.
LEMMA PairWeightSum ==
  ASSUME Segmented, NEW S \in SUBSET (Ids \X Ids)
  PROVE  /\ MapThenSumSet(LAMBDA p : Smaller(p[1], p[2]), S) = SumOver(PairWeights, S)
         /\ \A t \in S : PairWeights[t] = Smaller(t[1], t[2]) /\ PairWeights[t] \in Int
         /\ IsFiniteSet(S)
<1> DEFINE val(t) == Smaller(t[1], t[2])
           Is(it) == it = [r \in SUBSET S |-> IF r = {} THEN 0
                             ELSE Smaller((CHOOSE x \in r : TRUE)[1], (CHOOSE x \in r : TRUE)[2])
                                  + it[r \ {CHOOSE x \in r : TRUE}]]
           total == CHOOSE it : Is(it)
<1>1. MapThenSumSet(LAMBDA p : Smaller(p[1], p[2]), S) = total[S]
  BY DEF MapThenSumSet, MapThenFoldSet
<1>2. \A t \in S : PairWeights[t] = Smaller(t[1], t[2]) /\ PairWeights[t] \in Int
  <2> SUFFICES ASSUME NEW t \in S
               PROVE  PairWeights[t] = Smaller(t[1], t[2]) /\ Smaller(t[1], t[2]) \in Int
    OBVIOUS
  <2>1. t \in Ids \X Ids /\ t[1] \in Ids /\ t[2] \in Ids
    OBVIOUS
  <2> QED
    BY <2>1, NearnessIs DEF PairWeights
<1>3. IsFiniteSet(S)
  BY PairsAreFinite
<1>4. \A it : Is(it) <=> PartialSums(it, PairWeights, S)
  <2>1. \A r \in SUBSET S : r # {} => Smaller((CHOOSE x \in r : TRUE)[1], (CHOOSE x \in r : TRUE)[2]) = PairWeights[CHOOSE x \in r : TRUE]
    BY <1>2
  <2> DEFINE w(it) == [r \in SUBSET S |-> IF r = {} THEN 0
                        ELSE Smaller((CHOOSE x \in r : TRUE)[1], (CHOOSE x \in r : TRUE)[2]) + it[r \ {CHOOSE x \in r : TRUE}]]
             v(it) == [r \in SUBSET S |-> IF r = {} THEN 0
                        ELSE PairWeights[CHOOSE x \in r : TRUE] + it[r \ {CHOOSE x \in r : TRUE}]]
  <2>2. ASSUME NEW it PROVE w(it) = v(it)
    BY <2>1
  <2>3. \A it : (Is(it) <=> it = w(it)) /\ (PartialSums(it, PairWeights, S) <=> it = v(it))
    BY DEF PartialSums
  <2> HIDE DEF Is, w, v
  <2> QED
    BY <2>2, <2>3
<1>5. PartialSums(CHOOSE it : PartialSums(it, PairWeights, S), PairWeights, S)
  BY <1>2, <1>3, PartialSumsExist
<1>6. PartialSums(total, PairWeights, S)
  <2> HIDE DEF Is
  <2> QED BY <1>4, <1>5
<1>7. SumOver(PairWeights, S) = total[S]
  <2> HIDE DEF total
  <2> QED BY <1>2, <1>3, <1>6, SumSolved
<1> QED
  BY <1>1, <1>2, <1>3, <1>7

\* The nearness of pairs adds up.
LEMMA PairNearnessSum ==
  ASSUME Segmented, NEW S \in SUBSET (Ids \X Ids)
  PROVE  /\ MapThenSumSet(LAMBDA p : ((Len(Family) - Distance(p[1], p[2])) * Smaller(p[1], p[2])), S) = SumOver(PairNearness, S)
         /\ \A t \in S : PairNearness[t] = ((Len(Family) - Distance(t[1], t[2])) * Smaller(t[1], t[2])) /\ PairNearness[t] \in Int
         /\ IsFiniteSet(S)
<1> DEFINE val(t) == ((Len(Family) - Distance(t[1], t[2])) * Smaller(t[1], t[2]))
           Is(it) == it = [r \in SUBSET S |-> IF r = {} THEN 0
                             ELSE ((Len(Family) - Distance((CHOOSE x \in r : TRUE)[1], (CHOOSE x \in r : TRUE)[2])) * Smaller((CHOOSE x \in r : TRUE)[1], (CHOOSE x \in r : TRUE)[2]))
                                  + it[r \ {CHOOSE x \in r : TRUE}]]
           total == CHOOSE it : Is(it)
<1>1. MapThenSumSet(LAMBDA p : ((Len(Family) - Distance(p[1], p[2])) * Smaller(p[1], p[2])), S) = total[S]
  BY DEF MapThenSumSet, MapThenFoldSet
<1>2. \A t \in S : PairNearness[t] = val(t) /\ PairNearness[t] \in Int
  <2> SUFFICES ASSUME NEW t \in S
               PROVE  PairNearness[t] = val(t) /\ val(t) \in Int
    OBVIOUS
  <2>1. t \in Ids \X Ids /\ t[1] \in Ids /\ t[2] \in Ids
    OBVIOUS
  <2>2. val(t) \in Int
    BY <2>1, NearnessIs
  <2> QED
    BY <2>1, <2>2 DEF PairNearness
<1>3. IsFiniteSet(S)
  BY PairsAreFinite
<1>4. \A it : Is(it) <=> PartialSums(it, PairNearness, S)
  <2>1. \A r \in SUBSET S : r # {} => ((Len(Family) - Distance((CHOOSE x \in r : TRUE)[1], (CHOOSE x \in r : TRUE)[2])) * Smaller((CHOOSE x \in r : TRUE)[1], (CHOOSE x \in r : TRUE)[2])) = PairNearness[CHOOSE x \in r : TRUE]
    BY <1>2
  <2> DEFINE w(it) == [r \in SUBSET S |-> IF r = {} THEN 0
                        ELSE ((Len(Family) - Distance((CHOOSE x \in r : TRUE)[1], (CHOOSE x \in r : TRUE)[2])) * Smaller((CHOOSE x \in r : TRUE)[1], (CHOOSE x \in r : TRUE)[2])) + it[r \ {CHOOSE x \in r : TRUE}]]
             v(it) == [r \in SUBSET S |-> IF r = {} THEN 0
                        ELSE PairNearness[CHOOSE x \in r : TRUE] + it[r \ {CHOOSE x \in r : TRUE}]]
  <2>2. ASSUME NEW it PROVE w(it) = v(it)
    BY <2>1
  <2>3. \A it : (Is(it) <=> it = w(it)) /\ (PartialSums(it, PairNearness, S) <=> it = v(it))
    BY DEF PartialSums
  <2> HIDE DEF Is, w, v
  <2> QED
    BY <2>2, <2>3
<1>5. PartialSums(CHOOSE it : PartialSums(it, PairNearness, S), PairNearness, S)
  BY <1>2, <1>3, PartialSumsExist
<1>6. PartialSums(total, PairNearness, S)
  <2> HIDE DEF Is
  <2> QED BY <1>4, <1>5
<1>7. SumOver(PairNearness, S) = total[S]
  <2> HIDE DEF total
  <2> QED BY <1>2, <1>3, <1>6, SumSolved
<1> QED
  BY <1>1, <1>2, <1>3, <1>7

\* The totals are the weights of what wears a family.
LEMMA TotalIs ==
  ASSUME Dressed
  PROVE  /\ \A f : FamilyTotal(f) = SumOver(Weights, WornIn(f)) /\ FamilyTotal(f) \in Int
         /\ \A c : c # Uncoloured =>
              /\ MapThenSumSet(Weight, {s \in Wearing : colours[s] = c}) = SumOver(Weights, Worn(c))
              /\ SumOver(Weights, Worn(c)) \in Int
<1>1. Segmented
  BY DEF Dressed
<1>2. ASSUME NEW f PROVE FamilyTotal(f) = SumOver(Weights, WornIn(f)) /\ FamilyTotal(f) \in Int
  <2> DEFINE S == {s \in Wearing : Family[colours[s]] = f}
  <2>1. S = WornIn(f) /\ S \in SUBSET Ids
    BY DEF Wearing, WornIn
  <2>2. FamilyTotal(f) = MapThenSumSet(Weight, S)
    BY DEF FamilyTotal
  <2> HIDE DEF S
  <2>3. MapThenSumSet(Weight, S) = SumOver(Weights, S) /\ SumOver(Weights, S) \in Int
    <3>1. MapThenSumSet(Weight, S) = SumOver(Weights, S)
      BY <1>1, <2>1, WeightSum
    <3>2. IsFiniteSet(S) /\ \A t \in Ids : Weights[t] \in Nat \ {0}
      BY <1>1, <2>1, WeightSum
    <3>3. \A t \in S : Weights[t] \in Int
      BY <2>1, <3>2
    <3> QED
      BY <3>1, <3>2, <3>3, SumType
  <2> QED
    BY <2>1, <2>2, <2>3
<1>3. ASSUME NEW c, c # Uncoloured
      PROVE  /\ MapThenSumSet(Weight, {s \in Wearing : colours[s] = c}) = SumOver(Weights, Worn(c))
             /\ SumOver(Weights, Worn(c)) \in Int
  <2> DEFINE S == {s \in Wearing : colours[s] = c}
  <2>1. S = Worn(c) /\ S \in SUBSET Ids
    BY <1>3 DEF Wearing, Worn
  <2> HIDE DEF S
  <2>3. MapThenSumSet(Weight, S) = SumOver(Weights, S) /\ SumOver(Weights, S) \in Int
    <3>1. MapThenSumSet(Weight, S) = SumOver(Weights, S)
      BY <1>1, <2>1, WeightSum
    <3>2. IsFiniteSet(S) /\ \A t \in Ids : Weights[t] \in Nat \ {0}
      BY <1>1, <2>1, WeightSum
    <3>3. \A t \in S : Weights[t] \in Int
      BY <2>1, <3>2
    <3> QED
      BY <3>1, <3>2, <3>3, SumType
  <2> QED
    BY <2>1, <2>3 DEF S
<1> QED
  BY <1>2, <1>3

\* There are five families.
LEMMA FamiliesAreFinite == IsFiniteSet(Families)
<1>1. Families = {Family[c] : c \in Palette}
  BY DEF Families
<1>2. IsFiniteSet({Family[c] : c \in Palette})
  BY PaletteIs, ImageIsFinite
<1> QED
  BY <1>1, <1>2

\* The squares of what exceeds the budget add up.
LEMMA ExcessSum ==
  ASSUME Dressed
  PROVE  /\ MapThenSumSet(LAMBDA f : Square(Above(FamilyTotal(f), budget)), Semantic) = SumOver(Excesses, Semantic)
         /\ \A t \in Semantic : Excesses[t] = Square(Above(FamilyTotal(t), budget)) /\ Excesses[t] \in Int
         /\ IsFiniteSet(Semantic)
<1> DEFINE val(t) == Square(Above(FamilyTotal(t), budget))
           Is(it) == it = [r \in SUBSET Semantic |-> IF r = {} THEN 0
                             ELSE Square(Above(FamilyTotal((CHOOSE x \in r : TRUE)), budget))
                                  + it[r \ {CHOOSE x \in r : TRUE}]]
           total == CHOOSE it : Is(it)
<1>1. MapThenSumSet(LAMBDA f : Square(Above(FamilyTotal(f), budget)), Semantic) = total[Semantic]
  BY DEF MapThenSumSet, MapThenFoldSet
<1>2. \A t \in Semantic : Excesses[t] = val(t) /\ Excesses[t] \in Int
  <2> SUFFICES ASSUME NEW t \in Semantic
               PROVE  Excesses[t] = val(t) /\ val(t) \in Int
    OBVIOUS
  <2>1. t \in Families
    BY PaletteIs DEF Semantic
  <2>2. FamilyTotal(t) = SumOver(Weights, WornIn(t)) /\ FamilyTotal(t) \in Int /\ budget \in Int
    BY TotalIs DEF Dressed
  <2>3. val(t) \in Int
    BY <2>2, SquareIs
  <2> QED
    BY <2>1, <2>2, <2>3 DEF Excesses
<1>3. IsFiniteSet(Semantic)
  <2>1. Semantic \subseteq Families
    BY PaletteIs DEF Semantic
  <2> QED
    BY <2>1, FamiliesAreFinite, FS_Subset
<1>4. \A it : Is(it) <=> PartialSums(it, Excesses, Semantic)
  <2>1. \A r \in SUBSET Semantic : r # {} => Square(Above(FamilyTotal((CHOOSE x \in r : TRUE)), budget)) = Excesses[CHOOSE x \in r : TRUE]
    BY <1>2
  <2> DEFINE w(it) == [r \in SUBSET Semantic |-> IF r = {} THEN 0
                        ELSE Square(Above(FamilyTotal((CHOOSE x \in r : TRUE)), budget)) + it[r \ {CHOOSE x \in r : TRUE}]]
             v(it) == [r \in SUBSET Semantic |-> IF r = {} THEN 0
                        ELSE Excesses[CHOOSE x \in r : TRUE] + it[r \ {CHOOSE x \in r : TRUE}]]
  <2>2. ASSUME NEW it PROVE w(it) = v(it)
    BY <2>1
  <2>3. \A it : (Is(it) <=> it = w(it)) /\ (PartialSums(it, Excesses, Semantic) <=> it = v(it))
    BY DEF PartialSums
  <2> HIDE DEF Is, w, v
  <2> QED
    BY <2>2, <2>3
<1>5. PartialSums(CHOOSE it : PartialSums(it, Excesses, Semantic), Excesses, Semantic)
  BY <1>2, <1>3, PartialSumsExist
<1>6. PartialSums(total, Excesses, Semantic)
  <2> HIDE DEF Is
  <2> QED BY <1>4, <1>5
<1>7. SumOver(Excesses, Semantic) = total[Semantic]
  <2> HIDE DEF total
  <2> QED BY <1>2, <1>3, <1>6, SumSolved
<1> QED
  BY <1>1, <1>2, <1>3, <1>7

\* The squares of the families' totals add up.
LEMMA FamilySquareSum ==
  ASSUME Dressed
  PROVE  /\ MapThenSumSet(LAMBDA f : Square(FamilyTotal(f)), Families) = SumOver(FamilySquares, Families)
         /\ \A t \in Families : FamilySquares[t] = Square(FamilyTotal(t)) /\ FamilySquares[t] \in Int
         /\ IsFiniteSet(Families)
<1> DEFINE val(t) == Square(FamilyTotal(t))
           Is(it) == it = [r \in SUBSET Families |-> IF r = {} THEN 0
                             ELSE Square(FamilyTotal((CHOOSE x \in r : TRUE)))
                                  + it[r \ {CHOOSE x \in r : TRUE}]]
           total == CHOOSE it : Is(it)
<1>1. MapThenSumSet(LAMBDA f : Square(FamilyTotal(f)), Families) = total[Families]
  BY DEF MapThenSumSet, MapThenFoldSet
<1>2. \A t \in Families : FamilySquares[t] = val(t) /\ FamilySquares[t] \in Int
  <2> SUFFICES ASSUME NEW t \in Families
               PROVE  FamilySquares[t] = val(t) /\ val(t) \in Int
    OBVIOUS
  <2>1. FamilyTotal(t) = SumOver(Weights, WornIn(t)) /\ FamilyTotal(t) \in Int
    BY TotalIs
  <2>2. val(t) \in Int
    BY <2>1, SquareIs
  <2> QED
    BY <2>1, <2>2 DEF FamilySquares
<1>3. IsFiniteSet(Families)
  BY FamiliesAreFinite
<1>4. \A it : Is(it) <=> PartialSums(it, FamilySquares, Families)
  <2>1. \A r \in SUBSET Families : r # {} => Square(FamilyTotal((CHOOSE x \in r : TRUE))) = FamilySquares[CHOOSE x \in r : TRUE]
    BY <1>2
  <2> DEFINE w(it) == [r \in SUBSET Families |-> IF r = {} THEN 0
                        ELSE Square(FamilyTotal((CHOOSE x \in r : TRUE))) + it[r \ {CHOOSE x \in r : TRUE}]]
             v(it) == [r \in SUBSET Families |-> IF r = {} THEN 0
                        ELSE FamilySquares[CHOOSE x \in r : TRUE] + it[r \ {CHOOSE x \in r : TRUE}]]
  <2>2. ASSUME NEW it PROVE w(it) = v(it)
    BY <2>1
  <2>3. \A it : (Is(it) <=> it = w(it)) /\ (PartialSums(it, FamilySquares, Families) <=> it = v(it))
    BY DEF PartialSums
  <2> HIDE DEF Is, w, v
  <2> QED
    BY <2>2, <2>3
<1>5. PartialSums(CHOOSE it : PartialSums(it, FamilySquares, Families), FamilySquares, Families)
  BY <1>2, <1>3, PartialSumsExist
<1>6. PartialSums(total, FamilySquares, Families)
  <2> HIDE DEF Is
  <2> QED BY <1>4, <1>5
<1>7. SumOver(FamilySquares, Families) = total[Families]
  <2> HIDE DEF total
  <2> QED BY <1>2, <1>3, <1>6, SumSolved
<1> QED
  BY <1>1, <1>2, <1>3, <1>7

\* The squares of the colours' totals add up.
LEMMA ColourSquareSum ==
  ASSUME Dressed
  PROVE  /\ MapThenSumSet(LAMBDA c : Square(MapThenSumSet(Weight, {s \in Wearing : colours[s] = c})), Palette) = SumOver(ColourSquares, Palette)
         /\ \A t \in Palette : ColourSquares[t] = Square(MapThenSumSet(Weight, {s \in Wearing : colours[s] = t})) /\ ColourSquares[t] \in Int
         /\ IsFiniteSet(Palette)
<1> DEFINE val(t) == Square(MapThenSumSet(Weight, {s \in Wearing : colours[s] = t}))
           Is(it) == it = [r \in SUBSET Palette |-> IF r = {} THEN 0
                             ELSE Square(MapThenSumSet(Weight, {s \in Wearing : colours[s] = (CHOOSE x \in r : TRUE)}))
                                  + it[r \ {CHOOSE x \in r : TRUE}]]
           total == CHOOSE it : Is(it)
<1>1. MapThenSumSet(LAMBDA c : Square(MapThenSumSet(Weight, {s \in Wearing : colours[s] = c})), Palette) = total[Palette]
  BY DEF MapThenSumSet, MapThenFoldSet
<1>2. \A t \in Palette : ColourSquares[t] = val(t) /\ ColourSquares[t] \in Int
  <2> SUFFICES ASSUME NEW t \in Palette
               PROVE  ColourSquares[t] = val(t) /\ val(t) \in Int
    OBVIOUS
  <2> DEFINE all == MapThenSumSet(Weight, {s \in Wearing : colours[s] = t})
  <2>1. all = SumOver(Weights, Worn(t)) /\ all \in Int
    <3>1. t # Uncoloured
      BY PaletteIs
    <3> QED
      BY <3>1, TotalIs
  <2>2. val(t) = Square(all)
    OBVIOUS
  <2> HIDE DEF all
  <2>3. Square(all) \in Int
    BY <2>1, SquareIs
  <2> HIDE DEF val
  <2> QED
    BY <2>1, <2>2, <2>3 DEF ColourSquares
<1>3. IsFiniteSet(Palette)
  BY PaletteIs
<1>4. \A it : Is(it) <=> PartialSums(it, ColourSquares, Palette)
  <2>1. \A r \in SUBSET Palette : r # {} => Square(MapThenSumSet(Weight, {s \in Wearing : colours[s] = (CHOOSE x \in r : TRUE)})) = ColourSquares[CHOOSE x \in r : TRUE]
    BY <1>2
  <2> DEFINE w(it) == [r \in SUBSET Palette |-> IF r = {} THEN 0
                        ELSE Square(MapThenSumSet(Weight, {s \in Wearing : colours[s] = (CHOOSE x \in r : TRUE)})) + it[r \ {CHOOSE x \in r : TRUE}]]
             v(it) == [r \in SUBSET Palette |-> IF r = {} THEN 0
                        ELSE ColourSquares[CHOOSE x \in r : TRUE] + it[r \ {CHOOSE x \in r : TRUE}]]
  <2>2. ASSUME NEW it PROVE w(it) = v(it)
    BY <2>1
  <2>3. \A it : (Is(it) <=> it = w(it)) /\ (PartialSums(it, ColourSquares, Palette) <=> it = v(it))
    BY DEF PartialSums
  <2> HIDE DEF Is, w, v
  <2> QED
    BY <2>2, <2>3
<1>5. PartialSums(CHOOSE it : PartialSums(it, ColourSquares, Palette), ColourSquares, Palette)
  BY <1>2, <1>3, PartialSumsExist
<1>6. PartialSums(total, ColourSquares, Palette)
  <2> HIDE DEF Is
  <2> QED BY <1>4, <1>5
<1>7. SumOver(ColourSquares, Palette) = total[Palette]
  <2> HIDE DEF total
  <2> QED BY <1>2, <1>3, <1>6, SumSolved
<1> QED
  BY <1>1, <1>2, <1>3, <1>7

\* The preferences of what is worn add up.
LEMMA PreferenceSum ==
  ASSUME Dressed
  PROVE  /\ MapThenSumSet(LAMBDA s : Preference[colours[s]], Wearing) = SumOver(Preferred, Wearing)
         /\ \A t \in Wearing : Preferred[t] = Preference[colours[t]] /\ Preferred[t] \in Int
         /\ IsFiniteSet(Wearing)
<1> DEFINE val(t) == Preference[colours[t]]
           Is(it) == it = [r \in SUBSET Wearing |-> IF r = {} THEN 0
                             ELSE Preference[colours[(CHOOSE x \in r : TRUE)]]
                                  + it[r \ {CHOOSE x \in r : TRUE}]]
           total == CHOOSE it : Is(it)
<1>1. MapThenSumSet(LAMBDA s : Preference[colours[s]], Wearing) = total[Wearing]
  BY DEF MapThenSumSet, MapThenFoldSet
<1>2. \A t \in Wearing : Preferred[t] = val(t) /\ Preferred[t] \in Int
  <2>1. \A t \in Wearing : colours[t] \in Palette
    BY DEF Wearing, Dressed
  <2> QED
    BY <2>1, PaletteIs DEF Preferred
<1>3. IsFiniteSet(Wearing)
  <2>1. Wearing \in SUBSET Ids /\ IsFiniteSet(Ids)
    BY SegmentedIs DEF Wearing, Dressed
  <2> QED
    BY <2>1, FS_Subset
<1>4. \A it : Is(it) <=> PartialSums(it, Preferred, Wearing)
  <2>1. \A r \in SUBSET Wearing : r # {} => Preference[colours[(CHOOSE x \in r : TRUE)]] = Preferred[CHOOSE x \in r : TRUE]
    BY <1>2
  <2> DEFINE w(it) == [r \in SUBSET Wearing |-> IF r = {} THEN 0
                        ELSE Preference[colours[(CHOOSE x \in r : TRUE)]] + it[r \ {CHOOSE x \in r : TRUE}]]
             v(it) == [r \in SUBSET Wearing |-> IF r = {} THEN 0
                        ELSE Preferred[CHOOSE x \in r : TRUE] + it[r \ {CHOOSE x \in r : TRUE}]]
  <2>2. ASSUME NEW it PROVE w(it) = v(it)
    BY <2>1
  <2>3. \A it : (Is(it) <=> it = w(it)) /\ (PartialSums(it, Preferred, Wearing) <=> it = v(it))
    BY DEF PartialSums
  <2> HIDE DEF Is, w, v
  <2> QED
    BY <2>2, <2>3
<1>5. PartialSums(CHOOSE it : PartialSums(it, Preferred, Wearing), Preferred, Wearing)
  BY <1>2, <1>3, PartialSumsExist
<1>6. PartialSums(total, Preferred, Wearing)
  <2> HIDE DEF Is
  <2> QED BY <1>4, <1>5
<1>7. SumOver(Preferred, Wearing) = total[Wearing]
  <2> HIDE DEF total
  <2> QED BY <1>2, <1>3, <1>6, SumSolved
<1> QED
  BY <1>1, <1>2, <1>3, <1>7

\* The objective, component by component.
Measures == << SumOver(PairWeights, SamePairs), SumOver(PairWeights, RelatedPairs),
               SumOver(Excesses, Semantic), SumOver(PairNearness, NearPairs),
               SumOver(FamilySquares, Families), SumOver(ColourSquares, Palette),
               SumOver(Preferred, Wearing) >>

\* Pairs are pairs of segments.
LEMMA PairsAre ==
  /\ SamePairs \in SUBSET (Ids \X Ids) /\ RelatedPairs \in SUBSET (Ids \X Ids)
  /\ NearPairs \in SUBSET (Ids \X Ids)
BY DEF SamePairs, RelatedPairs, NearPairs, AdjacentPairs, WearingPairs, Wearing

\* The objective is made of these sums.
LEMMA ObjectiveIs == Dressed => Objective = Measures
<1> SUFFICES ASSUME Dressed PROVE Objective = Measures
  OBVIOUS
<1>1. Segmented
  BY DEF Dressed
<1>2. Objective =
        << MapThenSumSet(LAMBDA p : Smaller(p[1], p[2]), SamePairs),
           MapThenSumSet(LAMBDA p : Smaller(p[1], p[2]), RelatedPairs),
           MapThenSumSet(LAMBDA f : Square(Above(FamilyTotal(f), budget)), Semantic),
           MapThenSumSet(LAMBDA p : ((Len(Family) - Distance(p[1], p[2])) * Smaller(p[1], p[2])), NearPairs),
           MapThenSumSet(LAMBDA f : Square(FamilyTotal(f)), Families),
           MapThenSumSet(LAMBDA c : Square(MapThenSumSet(Weight, {s \in Wearing : colours[s] = c})),
                         Palette),
           MapThenSumSet(LAMBDA s : Preference[colours[s]], Wearing) >>
  BY DEF Objective, FamilyTotal, SamePairs, RelatedPairs, NearPairs, AdjacentPairs, WearingPairs, Wearing
<1> DEFINE k1 == MapThenSumSet(LAMBDA p : Smaller(p[1], p[2]), SamePairs)
           k2 == MapThenSumSet(LAMBDA p : Smaller(p[1], p[2]), RelatedPairs)
           k3 == MapThenSumSet(LAMBDA f : Square(Above(FamilyTotal(f), budget)), Semantic)
           k4 == MapThenSumSet(LAMBDA p : ((Len(Family) - Distance(p[1], p[2])) * Smaller(p[1], p[2])), NearPairs)
           k5 == MapThenSumSet(LAMBDA f : Square(FamilyTotal(f)), Families)
           k6 == MapThenSumSet(LAMBDA c : Square(MapThenSumSet(Weight, {s \in Wearing : colours[s] = c})),
                         Palette)
           k7 == MapThenSumSet(LAMBDA s : Preference[colours[s]], Wearing)
<1>3. Objective = <<k1, k2, k3, k4, k5, k6, k7>>
  BY <1>2
<1>4. k1 = SumOver(PairWeights, SamePairs) /\ k2 = SumOver(PairWeights, RelatedPairs)
  BY <1>1, PairsAre, PairWeightSum
<1>5. k4 = SumOver(PairNearness, NearPairs)
  BY <1>1, PairsAre, PairNearnessSum
<1>6. k3 = SumOver(Excesses, Semantic)
  BY ExcessSum
<1>7. k5 = SumOver(FamilySquares, Families)
  BY FamilySquareSum
<1>8. k6 = SumOver(ColourSquares, Palette)
  BY ColourSquareSum
<1>9. k7 = SumOver(Preferred, Wearing)
  BY PreferenceSum
<1> HIDE DEF k1, k2, k3, k4, k5, k6, k7
<1> QED
  BY <1>3, <1>4, <1>5, <1>6, <1>7, <1>8, <1>9 DEF Measures

----------------------------------------------------------------------------
(* Sums that lose a segment.                                               *)

\* A sum over two sets that have nothing in common.
LEMMA SumSplit ==
  ASSUME NEW S, IsFiniteSet(S), NEW f, \A x \in S : f[x] \in Int, NEW T \in SUBSET S
  PROVE  /\ SumOver(f, S) = SumOver(f, S \ T) + SumOver(f, T)
         /\ SumOver(f, S \ T) \in Int /\ SumOver(f, T) \in Int
<1> DEFINE bad == {t \in SUBSET T : SumOver(f, S) # SumOver(f, S \ t) + SumOver(f, t)}
<1>0. IsFiniteSet(T)
  BY FS_Subset
<1>1. ASSUME NEW t \in SUBSET S PROVE SumOver(f, t) \in Int /\ IsFiniteSet(t)
  <2>1. IsFiniteSet(t) /\ \A x \in t : f[x] \in Int
    BY FS_Subset
  <2> QED
    BY <2>1, SumType
<1>2. bad = {}
  <2> SUFFICES ASSUME bad # {} PROVE FALSE
    OBVIOUS
  <2>1. \A t \in bad : IsFiniteSet(t)
    BY <1>0, FS_Subset
  <2>2. PICK t \in bad : \A u \in bad : Cardinality(t) <= Cardinality(u)
    <3> HIDE DEF bad
    <3> QED BY <2>1, SmallestSet
  <2>3. IsFiniteSet(t) /\ t \in SUBSET T /\ SumOver(f, S) # SumOver(f, S \ t) + SumOver(f, t)
    BY <2>1, <2>2
  <2>4. t # {}
    <3> SUFFICES ASSUME t = {} PROVE FALSE
      OBVIOUS
    <3>1. S \ t = S /\ SumOver(f, t) = 0 /\ SumOver(f, S) \in Int
      BY <1>1, SumEmpty
    <3> QED
      BY <2>3, <3>1
  <2>5. PICK x \in t : TRUE
    BY <2>4
  <2>6. Cardinality(t \ {x}) = Cardinality(t) - 1 /\ Cardinality(t) \in Nat
    BY <2>3, FS_RemoveElement, FS_CardinalityType
  <2>7. t \ {x} \notin bad
    <3> HIDE DEF bad
    <3> QED BY <2>2, <2>6
  <2>8. SumOver(f, S) = SumOver(f, S \ (t \ {x})) + SumOver(f, t \ {x})
    BY <2>3, <2>7
  <2> DEFINE rest == S \ (t \ {x})
  <2>9. rest \in SUBSET S /\ x \in rest /\ rest \ {x} = S \ t
    BY <2>3
  <2>10. SumOver(f, rest) = f[x] + SumOver(f, rest \ {x})
    <3>1. IsFiniteSet(rest) /\ \A y \in rest : f[y] \in Int
      BY <1>1, <2>9
    <3> HIDE DEF rest
    <3> QED BY <2>9, <3>1, SumRemove
  <2>11. SumOver(f, t) = f[x] + SumOver(f, t \ {x})
    <3>1. \A y \in t : f[y] \in Int
      BY <2>3
    <3> QED BY <2>3, <3>1, SumRemove
  <2>12. SumOver(f, S \ t) \in Int /\ SumOver(f, t \ {x}) \in Int /\ f[x] \in Int
    <3>1. S \ t \in SUBSET S /\ t \ {x} \in SUBSET S /\ x \in S
      BY <2>3
    <3> QED
      BY <1>1, <3>1
  <2>13. SumOver(f, S) = (f[x] + SumOver(f, S \ t)) + SumOver(f, t \ {x})
    BY <2>8, <2>9, <2>10
  <2> QED
    BY <2>3, <2>11, <2>12, <2>13
<1>3. SumOver(f, S) = SumOver(f, S \ T) + SumOver(f, T)
  BY <1>2
<1>4. S \ T \in SUBSET S
  OBVIOUS
<1> QED
  BY <1>1, <1>3, <1>4

\* The pairs without one element, and what it is paired with.
Without(s, E) == {p \in E : p[1] # s /\ p[2] # s}

Partners(s, I, E) == {t \in I : <<s, t>> \in E \/ <<t, s>> \in E}

\* Ascending pairs of integers, and a weight that does not look at their order.
Ascending(E, I) ==
    /\ IsFiniteSet(I) /\ I \subseteq Int
    /\ E \in SUBSET (I \X I) /\ \A p \in E : p[1] < p[2]

\* What pairs weigh, and what those of one element weigh.
Weighs(w, f, s, I) ==
    /\ \A p \in I \X I : w[p] \in Int
    /\ \A t \in I : f[t] = w[<<s, t>>] /\ f[t] = w[<<t, s>>]

\* A sum over pairs, as what one element has part in and what it has not.
LEMMA PairSum ==
  ASSUME NEW I, NEW E, Ascending(E, I), NEW s \in I, NEW w, NEW f, Weighs(w, f, s, I)
  PROVE  /\ SumOver(w, E) = SumOver(w, Without(s, E)) + SumOver(f, Partners(s, I, E))
         /\ SumOver(w, Without(s, E)) \in Int /\ SumOver(f, Partners(s, I, E)) \in Int
<1>1. IsFiniteSet(I) /\ I \subseteq Int /\ E \in SUBSET (I \X I) /\ \A p \in E : p[1] < p[2]
  BY DEF Ascending
<1>0. /\ \A p \in I \X I : w[p] \in Int
      /\ \A t \in I : f[t] = w[<<s, t>>] /\ f[t] = w[<<t, s>>]
  BY DEF Weighs
<1>2. IsFiniteSet(E) /\ \A p \in E : w[p] \in Int
  <2>1. IsFiniteSet(I \X I)
    BY <1>1, FS_Product
  <2> QED
    BY <1>0, <1>1, <2>1, FS_Subset
<1> DEFINE A == {p \in E : p[1] = s \/ p[2] = s}
           T == Partners(s, I, E)
           move == [t \in T |-> IF <<s, t>> \in E THEN <<s, t>> ELSE <<t, s>>]
<1>3. A \in SUBSET E /\ E \ A = Without(s, E)
  BY DEF Without
<1>4. /\ SumOver(w, E) = SumOver(w, Without(s, E)) + SumOver(w, A)
      /\ SumOver(w, Without(s, E)) \in Int /\ SumOver(w, A) \in Int
  <2> HIDE DEF A
  <2> QED BY <1>2, <1>3, SumSplit
<1>5. IsFiniteSet(A) /\ \A p \in A : w[p] \in Int
  <2> HIDE DEF A
  <2> QED BY <1>2, <1>3, FS_Subset
<1>6. T \in SUBSET I /\ IsFiniteSet(T)
  <2>1. T \in SUBSET I
    BY DEF Partners
  <2> HIDE DEF T
  <2> QED BY <1>1, <2>1, FS_Subset
<1>7. \A t \in T : f[t] \in Int
  <2>1. \A t \in I : <<s, t>> \in I \X I
    OBVIOUS
  <2> HIDE DEF T
  <2> QED BY <1>0, <1>6, <2>1
<1>8. \A t \in T : move[t] \in A /\ w[move[t]] = f[t]
  <2> SUFFICES ASSUME NEW t \in T PROVE move[t] \in A /\ w[move[t]] = f[t]
    OBVIOUS
  <2>1. t \in I /\ (<<s, t>> \in E \/ <<t, s>> \in E)
    BY DEF Partners
  <2>2. CASE <<s, t>> \in E
    BY <1>0, <2>1, <2>2
  <2>3. CASE <<s, t>> \notin E
    BY <1>0, <2>1, <2>3
  <2> QED
    BY <2>2, <2>3
<1>9. \A p \in A : \E t \in T : move[t] = p
  <2> SUFFICES ASSUME NEW p \in A PROVE \E t \in T : move[t] = p
    OBVIOUS
  <2>1. p \in E /\ p[1] \in I /\ p[2] \in I /\ p = <<p[1], p[2]>> /\ p[1] < p[2]
    BY <1>1
  <2>2. CASE p[1] = s
    <3>1. p[2] \in T /\ <<s, p[2]>> \in E
      BY <2>1, <2>2 DEF Partners
    <3>2. move[p[2]] = <<s, p[2]>>
      <4> HIDE DEF T
      <4> QED BY <3>1
    <3> QED
      BY <2>1, <2>2, <3>1, <3>2
  <2>3. CASE p[2] = s
    <3>1. p[1] \in T /\ <<p[1], s>> \in E
      BY <2>1, <2>3 DEF Partners
    <3>2. <<s, p[1]>> \notin E
      <4> SUFFICES ASSUME <<s, p[1]>> \in E PROVE FALSE
        OBVIOUS
      <4>1. s < p[1]
        BY <1>1
      <4>2. p[1] \in Int /\ s \in Int /\ p[1] < s
        BY <1>1, <2>1, <2>3
      <4> QED
        BY <4>1, <4>2
    <3>3. move[p[1]] = <<p[1], s>>
      <4> HIDE DEF T
      <4> QED BY <3>1, <3>2
    <3> QED
      BY <2>1, <2>3, <3>1, <3>3
  <2> QED
    BY <2>2, <2>3
<1>10. \A t, u \in T : move[t] = move[u] => t = u
  <2> SUFFICES ASSUME NEW t \in T, NEW u \in T, move[t] = move[u] PROVE t = u
    OBVIOUS
  <2>1. move[t] \in {<<s, t>>, <<t, s>>} /\ move[u] \in {<<s, u>>, <<u, s>>}
    OBVIOUS
  <2> HIDE DEF move
  <2> QED
    BY <2>1
<1>11. Moves(move, T, f, A, w)
  <2>1. move \in [T -> A]
    <3> HIDE DEF A, T
    <3> QED BY <1>8
  <2> HIDE DEF move, A, T
  <2> QED
    BY <1>5, <1>6, <1>7, <1>8, <1>9, <1>10, <2>1 DEF Moves
<1>12. SumOver(f, T) = SumOver(w, A)
  <2> HIDE DEF move, A, T
  <2> QED BY <1>11, SumMoved
<1> HIDE DEF A
<1> QED
  BY <1>4, <1>12

\* One summand is larger by d.
Raised(F, G, X, k, d) ==
    /\ \A x \in X : F[x] \in Int /\ G[x] \in Int /\ (x # k => F[x] = G[x])
    /\ d \in Int
    /\ k \in X => F[k] = G[k] + d
    /\ k \notin X => d = 0

\* A sum in which one summand is larger.
LEMMA SumRaised ==
  ASSUME NEW X, IsFiniteSet(X), NEW F, NEW G, NEW k, NEW d, Raised(F, G, X, k, d)
  PROVE  /\ SumOver(F, X) = SumOver(G, X) + d
         /\ SumOver(G, X) \in Int
<1>0. /\ \A x \in X : F[x] \in Int /\ G[x] \in Int /\ (x # k => F[x] = G[x])
      /\ d \in Int /\ (k \in X => F[k] = G[k] + d) /\ (k \notin X => d = 0)
  BY DEF Raised
<1>1. SumOver(G, X) \in Int /\ IsFiniteSet(X \ {k})
  <2>1. \A x \in X : G[x] \in Int
    BY <1>0
  <2>2. X \ {k} \in SUBSET X
    OBVIOUS
  <2> QED BY <2>1, <2>2, SumType, FS_Subset
<1>2. CASE k \notin X
  <2>1. SumOver(G, X) = SumOver(F, X)
    <3>1. \A x \in X : G[x] \in Int /\ F[x] = G[x]
      BY <1>0, <1>2
    <3> QED BY <3>1, SumSame
  <2> QED
    BY <1>0, <1>1, <1>2, <2>1
<1>3. CASE k \in X
  <2>1. SumOver(F, X) = F[k] + SumOver(F, X \ {k})
    BY <1>0, <1>3, SumRemove
  <2>2. SumOver(G, X) = G[k] + SumOver(G, X \ {k})
    BY <1>0, <1>3, SumRemove
  <2>3. SumOver(G, X \ {k}) = SumOver(F, X \ {k})
    <3>1. \A x \in X \ {k} : G[x] \in Int /\ F[x] = G[x]
      BY <1>0
    <3> QED BY <1>1, <3>1, SumSame
  <2>4. SumOver(G, X \ {k}) \in Int
    BY <1>0, <1>1, SumType
  <2> QED
    BY <1>0, <1>1, <1>3, <2>1, <2>2, <2>3, <2>4
<1> QED
  BY <1>2, <1>3

----------------------------------------------------------------------------
(* What the colour of a segment costs.                                     *)

\* The segments beside s that have a colour of the family of c.
RelatedBeside(s, c) ==
    {t \in segments[s].neighbours : colours[t] # Uncoloured /\ Family[colours[t]] = Family[c]}

\* The loads without a segment, and what its weight adds to squares.
FamilyRest(s, f) == SumOver(Weights, WornIn(f) \ {s})

ColourRest(s, c) == SumOver(Weights, Worn(c) \ {s})

Raise(n, weight) == Square(n + weight) - Square(n)

Overrun(n, weight) == Square(Above(n + weight, budget)) - Square(Above(n, budget))

\* What a colour costs, by what the others have.
CostParts(s, c) ==
    << SumOver(Smallers(s), SameBeside(s, c)),
       SumOver(Smallers(s), RelatedBeside(s, c)),
       IF Family[c] \in Semantic THEN Overrun(FamilyRest(s, Family[c]), Weight(s)) ELSE 0,
       SumOver(Nearness(s), NearBeside(s, c)),
       Raise(FamilyRest(s, Family[c]), Weight(s)),
       Raise(ColourRest(s, c), Weight(s)),
       Preference[c] >>

\* The loads without a segment.
LEMMA LoadsWithout ==
  ASSUME Segmented, NEW s \in Ids
  PROVE  /\ \A f : FamilyRest(s, f) \in Int /\ SumOver(Weights, WornIn(f)) =
                      IF s \in WornIn(f) THEN FamilyRest(s, f) + Weight(s) ELSE FamilyRest(s, f)
         /\ \A c : ColourRest(s, c) \in Int /\ SumOver(Weights, Worn(c)) =
                      IF s \in Worn(c) THEN ColourRest(s, c) + Weight(s) ELSE ColourRest(s, c)
<1>1. ASSUME NEW S \in SUBSET Ids
      PROVE  /\ SumOver(Weights, S \ {s}) \in Int
             /\ SumOver(Weights, S) = IF s \in S THEN SumOver(Weights, S \ {s}) + Weight(s)
                                      ELSE SumOver(Weights, S \ {s})
  <2>1. S \ {s} \in SUBSET Ids
    OBVIOUS
  <2>2. SumOver(Weights, S \ {s}) \in Int
    BY <2>1, SumWith
  <2> QED
    BY <2>2, SumWith
<1>2. \A f : WornIn(f) \in SUBSET Ids
  BY DEF WornIn
<1>3. \A c : Worn(c) \in SUBSET Ids
  BY DEF Worn
<1> QED
  BY <1>1, <1>2, <1>3 DEF FamilyRest, ColourRest

\* Costs are made of these parts.
LEMMA CostIsParts == Placing => \A s \in Ids, c \in Palette : Cost(s, c) = CostParts(s, c)
<1> SUFFICES ASSUME Placing, NEW s \in Ids, NEW c \in Palette PROVE Cost(s, c) = CostParts(s, c)
  OBVIOUS
<1>0. Segmented /\ colours \in [Ids -> Palette \cup {Uncoloured}] /\ Loaded
  BY DEF Placing, Colouring
<1> DEFINE weight == Weight(s)
           had == colours[s]
           kept == had # Uncoloured /\ Family[had] = Family[c]
           inFamily == familyLoad[Family[c]] - (IF kept THEN weight ELSE 0)
           inColour == colourLoad[c] - (IF had = c THEN weight ELSE 0)
           k1 == MapThenSumSet(LAMBDA t : Smaller(s, t), SameBeside(s, c))
           k2 == MapThenSumSet(LAMBDA t : Smaller(s, t), RelatedBeside(s, c))
           k4 == NearbyReuse(s, c)
           k7 == Preference[c]
<1>1. Cost(s, c) = << k1, k2,
           IF Family[c] \in Semantic
           THEN Square(Above(inFamily + weight, budget)) - Square(Above(inFamily, budget))
           ELSE 0,
           k4, Square(inFamily + weight) - Square(inFamily),
           Square(inColour + weight) - Square(inColour), k7 >>
  BY DEF Cost, SameBeside, RelatedBeside
<1>2. k1 = SumOver(Smallers(s), SameBeside(s, c)) /\ k2 = SumOver(Smallers(s), RelatedBeside(s, c))
  <2>1. SameBeside(s, c) \in SUBSET Ids /\ RelatedBeside(s, c) \in SUBSET Ids
    BY <1>0, SegmentedIs DEF SameBeside, RelatedBeside
  <2> QED
    BY <1>0, <2>1, SmallerSum
<1>3. k4 = SumOver(Nearness(s), NearBeside(s, c))
  BY <1>0, ReuseSum
<1>4. weight \in Int
  BY <1>0, SegmentedIs
<1>5. inFamily = FamilyRest(s, Family[c])
  <2>1. Family[c] \in Families
    BY PaletteIs
  <2>2. familyLoad[Family[c]] = SumOver(Weights, WornIn(Family[c]))
    BY <1>0, <2>1 DEF Loaded
  <2>3. s \in WornIn(Family[c]) <=> kept
    BY DEF WornIn
  <2>4. /\ FamilyRest(s, Family[c]) \in Int
        /\ SumOver(Weights, WornIn(Family[c])) =
              IF kept THEN FamilyRest(s, Family[c]) + weight ELSE FamilyRest(s, Family[c])
    BY <1>0, <2>3, LoadsWithout
  <2> HIDE DEF kept, weight
  <2> QED
    BY <1>4, <2>2, <2>4
<1>6. inColour = ColourRest(s, c)
  <2>2. colourLoad[c] = SumOver(Weights, Worn(c))
    BY <1>0 DEF Loaded
  <2>3. s \in Worn(c) <=> had = c
    BY DEF Worn
  <2>4. /\ ColourRest(s, c) \in Int
        /\ SumOver(Weights, Worn(c)) =
              IF had = c THEN ColourRest(s, c) + weight ELSE ColourRest(s, c)
    BY <1>0, <2>3, LoadsWithout
  <2> HIDE DEF had, weight
  <2> QED
    BY <1>4, <2>2, <2>4
<1> HIDE DEF inFamily, inColour, k1, k2, k4, k7
<1>7. Cost(s, c) = << k1, k2,
           IF Family[c] \in Semantic THEN Overrun(inFamily, weight) ELSE 0,
           k4, Raise(inFamily, weight), Raise(inColour, weight), k7 >>
  BY <1>1 DEF Overrun, Raise
<1> QED
  BY <1>2, <1>3, <1>5, <1>6, <1>7 DEF CostParts, k7

\* The families without a segment.
RestExcesses(s) == [f \in Families |-> Square(Above(FamilyRest(s, f), budget))]

RestFamilies(s) == [f \in Families |-> Square(FamilyRest(s, f))]

RestColours(s) == [c \in Palette |-> Square(ColourRest(s, c))]

RestPreferred(s) == [t \in Wearing \ {s} |-> Preference[colours[t]]]

\* The objective of the other segments.
Rests(s) ==
    << SumOver(PairWeights, Without(s, SamePairs)), SumOver(PairWeights, Without(s, RelatedPairs)),
       SumOver(RestExcesses(s), Semantic), SumOver(PairNearness, Without(s, NearPairs)),
       SumOver(RestFamilies(s), Families), SumOver(RestColours(s), Palette),
       SumOver(RestPreferred(s), Wearing \ {s}) >>

\* The pairs that a segment has part in.
LEMMA PairParts ==
  ASSUME Placing, NEW s \in Ids, NEW c \in Palette, colours[s] = c
  PROVE  /\ Partners(s, Ids, SamePairs) = SameBeside(s, c)
         /\ Partners(s, Ids, RelatedPairs) = RelatedBeside(s, c)
         /\ Partners(s, Ids, NearPairs) = NearBeside(s, c)
         /\ Ascending(SamePairs, Ids) /\ Ascending(RelatedPairs, Ids) /\ Ascending(NearPairs, Ids)
<1>1. /\ Segmented /\ Mutual /\ s \in Wearing /\ c # Uncoloured
      /\ IsFiniteSet(Ids) /\ Ids \subseteq Int
      /\ \A t \in Ids : segments[t].neighbours \subseteq Ids \ {t}
  <2>1. Segmented /\ Mutual
    BY DEF Placing, Colouring
  <2>2. c # Uncoloured
    BY PaletteIs
  <2>3. Ids \subseteq Int /\ \A t \in Ids : segments[t].neighbours \subseteq Ids \ {t}
    BY <2>1, SegmentedIs
  <2>4. s \in Wearing
    BY <2>2 DEF Wearing
  <2> QED
    BY <2>1, <2>2, <2>3, <2>4, SegmentedIs
<1>2. \A t \in Ids : /\ <<s, t>> \in WearingPairs <=> t \in Wearing /\ s < t
                     /\ <<t, s>> \in WearingPairs <=> t \in Wearing /\ t < s
  BY <1>1 DEF WearingPairs
<1>3. \A t \in Ids : <<s, t>> \in AdjacentPairs \/ <<t, s>> \in AdjacentPairs
                        <=> t \in Wearing /\ t \in segments[s].neighbours
  <2> SUFFICES ASSUME NEW t \in Ids
               PROVE  <<s, t>> \in AdjacentPairs \/ <<t, s>> \in AdjacentPairs
                        <=> t \in Wearing /\ t \in segments[s].neighbours
    OBVIOUS
  <2>1. <<s, t>> \in AdjacentPairs <=> t \in Wearing /\ s < t /\ t \in segments[s].neighbours
    BY <1>2 DEF AdjacentPairs
  <2>2. <<t, s>> \in AdjacentPairs <=> t \in Wearing /\ t < s /\ s \in segments[t].neighbours
    BY <1>2 DEF AdjacentPairs
  <2>3. s \in segments[t].neighbours <=> t \in segments[s].neighbours
    BY <1>1 DEF Mutual
  <2>4. t \in segments[s].neighbours => s < t \/ t < s
    BY <1>1
  <2> QED
    BY <2>1, <2>2, <2>3, <2>4
<1>4. \A t \in Ids : t \in Partners(s, Ids, SamePairs) <=> t \in SameBeside(s, c)
  <2> SUFFICES ASSUME NEW t \in Ids
               PROVE  t \in Partners(s, Ids, SamePairs) <=> t \in SameBeside(s, c)
    OBVIOUS
  <2>1. <<s, t>> \in SamePairs <=> <<s, t>> \in AdjacentPairs /\ colours[t] = c
    BY DEF SamePairs
  <2>2. <<t, s>> \in SamePairs <=> <<t, s>> \in AdjacentPairs /\ colours[t] = c
    BY DEF SamePairs
  <2>3. colours[t] = c => t \in Wearing
    BY <1>1 DEF Wearing
  <2> QED
    BY <1>3, <2>1, <2>2, <2>3 DEF Partners, SameBeside
<1>5. \A t \in Ids : t \in Partners(s, Ids, RelatedPairs) <=> t \in RelatedBeside(s, c)
  <2> SUFFICES ASSUME NEW t \in Ids
               PROVE  t \in Partners(s, Ids, RelatedPairs) <=> t \in RelatedBeside(s, c)
    OBVIOUS
  <2>1. <<s, t>> \in RelatedPairs <=> <<s, t>> \in AdjacentPairs /\ Family[colours[t]] = Family[c]
    BY DEF RelatedPairs
  <2>2. <<t, s>> \in RelatedPairs <=> <<t, s>> \in AdjacentPairs /\ Family[colours[t]] = Family[c]
    BY DEF RelatedPairs
  <2>3. colours[t] # Uncoloured <=> t \in Wearing
    BY DEF Wearing
  <2> QED
    BY <1>3, <2>1, <2>2, <2>3 DEF Partners, RelatedBeside
<1>6. \A t \in Ids : t \in Partners(s, Ids, NearPairs) <=> t \in NearBeside(s, c)
  <2> SUFFICES ASSUME NEW t \in Ids
               PROVE  t \in Partners(s, Ids, NearPairs) <=> t \in NearBeside(s, c)
    OBVIOUS
  <2>1. <<s, t>> \in NearPairs <=> /\ <<s, t>> \in WearingPairs /\ colours[t] = c
                                   /\ Distance(s, t) < Len(Family)
    BY DEF NearPairs
  <2>2. <<t, s>> \in NearPairs <=> /\ <<t, s>> \in WearingPairs /\ colours[t] = c
                                   /\ Distance(t, s) < Len(Family)
    BY DEF NearPairs
  <2>3. colours[t] = c => t \in Wearing
    BY <1>1 DEF Wearing
  <2>4. t # s <=> s < t \/ t < s
    BY <1>1
  <2>5. Distance(s, t) = Distance(t, s)
    BY <1>1, NearnessIs
  <2> QED
    BY <1>2, <2>1, <2>2, <2>3, <2>4, <2>5 DEF Partners, NearBeside
<1>7. /\ Partners(s, Ids, SamePairs) \subseteq Ids /\ SameBeside(s, c) \subseteq Ids
      /\ Partners(s, Ids, RelatedPairs) \subseteq Ids /\ RelatedBeside(s, c) \subseteq Ids
      /\ Partners(s, Ids, NearPairs) \subseteq Ids /\ NearBeside(s, c) \subseteq Ids
  BY <1>1 DEF Partners, SameBeside, RelatedBeside, NearBeside
<1>8. Ascending(SamePairs, Ids) /\ Ascending(RelatedPairs, Ids) /\ Ascending(NearPairs, Ids)
  <2>1. \A p \in WearingPairs : p[1] < p[2]
    BY DEF WearingPairs
  <2>2. SamePairs \subseteq WearingPairs /\ RelatedPairs \subseteq WearingPairs
        /\ NearPairs \subseteq WearingPairs
    BY DEF SamePairs, RelatedPairs, NearPairs, AdjacentPairs
  <2> QED
    BY <1>1, <2>1, <2>2, PairsAre DEF Ascending
<1> QED
  BY <1>4, <1>5, <1>6, <1>7, <1>8

----------------------------------------------------------------------------
(* The objective, as what the others have and that cost.                   *)

\* A sum over pairs, as what a segment has part in and what it has not.
LEMMA PairMeasures ==
  ASSUME Placing, NEW s \in Ids, NEW c \in Palette, colours[s] = c
  PROVE  /\ SumOver(PairWeights, SamePairs) =
              SumOver(PairWeights, Without(s, SamePairs)) + SumOver(Smallers(s), SameBeside(s, c))
         /\ SumOver(PairWeights, RelatedPairs) =
              SumOver(PairWeights, Without(s, RelatedPairs)) + SumOver(Smallers(s), RelatedBeside(s, c))
         /\ SumOver(PairNearness, NearPairs) =
              SumOver(PairNearness, Without(s, NearPairs)) + SumOver(Nearness(s), NearBeside(s, c))
         /\ SumOver(PairWeights, Without(s, SamePairs)) \in Int
         /\ SumOver(PairWeights, Without(s, RelatedPairs)) \in Int
         /\ SumOver(PairNearness, Without(s, NearPairs)) \in Int
<1>1. Segmented
  BY DEF Placing, Colouring
<1>2. \A p \in Ids \X Ids : PairWeights[p] \in Int /\ PairNearness[p] \in Int
  <2> SUFFICES ASSUME NEW p \in Ids \X Ids PROVE PairWeights[p] \in Int /\ PairNearness[p] \in Int
    OBVIOUS
  <2>1. p[1] \in Ids /\ p[2] \in Ids
    OBVIOUS
  <2> QED
    BY <1>1, <2>1, NearnessIs DEF PairWeights, PairNearness
<1>3. \A t \in Ids : /\ Smallers(s)[t] = PairWeights[<<s, t>>] /\ Smallers(s)[t] = PairWeights[<<t, s>>]
                     /\ Nearness(s)[t] = PairNearness[<<s, t>>] /\ Nearness(s)[t] = PairNearness[<<t, s>>]
  <2> SUFFICES ASSUME NEW t \in Ids
        PROVE /\ Smallers(s)[t] = PairWeights[<<s, t>>] /\ Smallers(s)[t] = PairWeights[<<t, s>>]
              /\ Nearness(s)[t] = PairNearness[<<s, t>>] /\ Nearness(s)[t] = PairNearness[<<t, s>>]
    OBVIOUS
  <2>1. Distance(s, t) = Distance(t, s) /\ Smaller(s, t) = Smaller(t, s)
    BY <1>1, NearnessIs
  <2>2. <<s, t>> \in Ids \X Ids /\ <<t, s>> \in Ids \X Ids
    OBVIOUS
  <2> QED
    BY <2>1, <2>2 DEF Smallers, Nearness, PairWeights, PairNearness
<1>4. /\ Partners(s, Ids, SamePairs) = SameBeside(s, c)
      /\ Partners(s, Ids, RelatedPairs) = RelatedBeside(s, c)
      /\ Partners(s, Ids, NearPairs) = NearBeside(s, c)
      /\ Ascending(SamePairs, Ids) /\ Ascending(RelatedPairs, Ids) /\ Ascending(NearPairs, Ids)
  BY PairParts
<1>5. ASSUME NEW E, Ascending(E, Ids)
      PROVE  /\ SumOver(PairWeights, E) =
                   SumOver(PairWeights, Without(s, E)) + SumOver(Smallers(s), Partners(s, Ids, E))
             /\ SumOver(PairWeights, Without(s, E)) \in Int
  <2>1. Weighs(PairWeights, Smallers(s), s, Ids)
    BY <1>2, <1>3 DEF Weighs
  <2> QED
    BY <1>5, <2>1, PairSum
<1>6. /\ SumOver(PairNearness, NearPairs) =
            SumOver(PairNearness, Without(s, NearPairs)) + SumOver(Nearness(s), Partners(s, Ids, NearPairs))
      /\ SumOver(PairNearness, Without(s, NearPairs)) \in Int
  <2>1. Weighs(PairNearness, Nearness(s), s, Ids)
    BY <1>2, <1>3 DEF Weighs
  <2> QED
    BY <1>4, <2>1, PairSum
<1> QED
  BY <1>4, <1>5, <1>6

\* A sum over families or colours, as what a segment raises.
LEMMA LoadMeasures ==
  ASSUME Placing, NEW s \in Ids, NEW c \in Palette, colours[s] = c
  PROVE  /\ SumOver(Excesses, Semantic) = SumOver(RestExcesses(s), Semantic)
               + (IF Family[c] \in Semantic THEN Overrun(FamilyRest(s, Family[c]), Weight(s)) ELSE 0)
         /\ SumOver(FamilySquares, Families) =
               SumOver(RestFamilies(s), Families) + Raise(FamilyRest(s, Family[c]), Weight(s))
         /\ SumOver(ColourSquares, Palette) =
               SumOver(RestColours(s), Palette) + Raise(ColourRest(s, c), Weight(s))
         /\ SumOver(RestExcesses(s), Semantic) \in Int /\ SumOver(RestFamilies(s), Families) \in Int
         /\ SumOver(RestColours(s), Palette) \in Int
<1>1. Segmented /\ budget \in Int /\ c # Uncoloured /\ Dressed
  BY PaletteIs DEF Placing, Colouring, Dressed
<1> DEFINE f == Family[c]
           w == Weight(s)
<1>2. w \in Int /\ f \in Families /\ Semantic \subseteq Families
  <2>1. w \in Int
    BY <1>1, SegmentedIs
  <2>2. f \in Families
    BY PaletteIs
  <2>3. Semantic \subseteq Families
    BY PaletteIs DEF Semantic
  <2> QED
    BY <2>1, <2>2, <2>3
<1>3. /\ \A g : FamilyRest(s, g) \in Int /\ SumOver(Weights, WornIn(g)) =
                   IF g = f THEN FamilyRest(s, g) + w ELSE FamilyRest(s, g)
      /\ \A d : ColourRest(s, d) \in Int /\ SumOver(Weights, Worn(d)) =
                   IF d = c THEN ColourRest(s, d) + w ELSE ColourRest(s, d)
  <2>1. \A g : s \in WornIn(g) <=> g = f
    BY <1>1 DEF WornIn
  <2>2. \A d : s \in Worn(d) <=> d = c
    BY DEF Worn
  <2> HIDE DEF f, w
  <2> QED
    BY <1>1, <2>1, <2>2, LoadsWithout DEF w
<1>4. IsFiniteSet(Families) /\ IsFiniteSet(Semantic) /\ IsFiniteSet(Palette)
  BY <1>2, FamiliesAreFinite, PaletteIs, FS_Subset
<1> HIDE DEF f, w
<1>5. \A g \in Families :
        /\ FamilySquares[g] \in Int /\ RestFamilies(s)[g] \in Int
        /\ Excesses[g] \in Int /\ RestExcesses(s)[g] \in Int
  <2> SUFFICES ASSUME NEW g \in Families
        PROVE  /\ FamilySquares[g] \in Int /\ RestFamilies(s)[g] \in Int
               /\ Excesses[g] \in Int /\ RestExcesses(s)[g] \in Int
    OBVIOUS
  <2>1. FamilyRest(s, g) \in Int /\ SumOver(Weights, WornIn(g)) \in Int
    BY <1>2, <1>3
  <2> QED
    BY <1>1, <2>1, SquareIs DEF FamilySquares, RestFamilies, Excesses, RestExcesses
<1>6. \A d \in Palette : ColourSquares[d] \in Int /\ RestColours(s)[d] \in Int
  <2> SUFFICES ASSUME NEW d \in Palette PROVE ColourSquares[d] \in Int /\ RestColours(s)[d] \in Int
    OBVIOUS
  <2>1. ColourRest(s, d) \in Int /\ SumOver(Weights, Worn(d)) \in Int
    BY <1>2, <1>3
  <2> QED
    BY <2>1, SquareIs DEF ColourSquares, RestColours
<1>7. /\ SumOver(FamilySquares, Families) =
            SumOver(RestFamilies(s), Families) + Raise(FamilyRest(s, f), w)
      /\ SumOver(RestFamilies(s), Families) \in Int
  <2> DEFINE d == Raise(FamilyRest(s, f), w)
  <2>1. \A g \in Families : g # f => FamilySquares[g] = RestFamilies(s)[g]
    BY <1>3 DEF FamilySquares, RestFamilies
  <2>2. /\ FamilySquares[f] = Square(FamilyRest(s, f) + w) /\ RestFamilies(s)[f] = Square(FamilyRest(s, f))
        /\ Square(FamilyRest(s, f) + w) \in Int /\ Square(FamilyRest(s, f)) \in Int
    BY <1>2, <1>3, SquareIs DEF FamilySquares, RestFamilies
  <2>3. d \in Int /\ FamilySquares[f] = RestFamilies(s)[f] + d
    BY <2>2 DEF Raise
  <2> HIDE DEF d
  <2>5. Raised(FamilySquares, RestFamilies(s), Families, f, d)
    BY <1>2, <1>5, <2>1, <2>3 DEF Raised
  <2>6. SumOver(FamilySquares, Families) = SumOver(RestFamilies(s), Families) + d /\ SumOver(RestFamilies(s), Families) \in Int
    BY <1>4, <2>5, SumRaised
  <2> QED
    BY <2>6 DEF d
<1>8. /\ SumOver(ColourSquares, Palette) =
            SumOver(RestColours(s), Palette) + Raise(ColourRest(s, c), w)
      /\ SumOver(RestColours(s), Palette) \in Int
  <2> DEFINE d == Raise(ColourRest(s, c), w)
  <2>1. \A g \in Palette : g # c => ColourSquares[g] = RestColours(s)[g]
    BY <1>3 DEF ColourSquares, RestColours
  <2>2. /\ ColourSquares[c] = Square(ColourRest(s, c) + w) /\ RestColours(s)[c] = Square(ColourRest(s, c))
        /\ Square(ColourRest(s, c) + w) \in Int /\ Square(ColourRest(s, c)) \in Int
    BY <1>2, <1>3, SquareIs DEF ColourSquares, RestColours
  <2>3. d \in Int /\ ColourSquares[c] = RestColours(s)[c] + d
    BY <2>2 DEF Raise
  <2> HIDE DEF d
  <2>5. Raised(ColourSquares, RestColours(s), Palette, c, d)
    BY <1>6, <2>1, <2>3 DEF Raised
  <2>6. SumOver(ColourSquares, Palette) = SumOver(RestColours(s), Palette) + d /\ SumOver(RestColours(s), Palette) \in Int
    BY <1>4, <2>5, SumRaised
  <2> QED
    BY <2>6 DEF d
<1>9. /\ SumOver(Excesses, Semantic) = SumOver(RestExcesses(s), Semantic)
               + (IF f \in Semantic THEN Overrun(FamilyRest(s, f), w) ELSE 0)
      /\ SumOver(RestExcesses(s), Semantic) \in Int
  <2> DEFINE d == IF f \in Semantic THEN Overrun(FamilyRest(s, f), w) ELSE 0
  <2>1. \A g \in Semantic : g # f => Excesses[g] = RestExcesses(s)[g]
    BY <1>2, <1>3 DEF Excesses, RestExcesses
  <2>2. /\ Excesses[f] = Square(Above(FamilyRest(s, f) + w, budget))
        /\ RestExcesses(s)[f] = Square(Above(FamilyRest(s, f), budget))
        /\ Square(Above(FamilyRest(s, f) + w, budget)) \in Int
        /\ Square(Above(FamilyRest(s, f), budget)) \in Int
    <3>1. FamilyRest(s, f) \in Int /\ FamilyRest(s, f) + w \in Int
      BY <1>2, <1>3
    <3>2. SumOver(Weights, WornIn(f)) = FamilyRest(s, f) + w
      BY <1>3
    <3>3. Above(FamilyRest(s, f) + w, budget) \in Int /\ Above(FamilyRest(s, f), budget) \in Int
      BY <1>1, <3>1, SquareIs
    <3> QED
      BY <1>2, <3>2, <3>3, SquareIs DEF Excesses, RestExcesses
  <2>3. d \in Int /\ (f \in Semantic => Excesses[f] = RestExcesses(s)[f] + d)
        /\ (f \notin Semantic => d = 0)
    BY <2>2 DEF Overrun
  <2>4. \A g \in Semantic : Excesses[g] \in Int /\ RestExcesses(s)[g] \in Int
    BY <1>2, <1>5
  <2> HIDE DEF d
  <2>5. Raised(Excesses, RestExcesses(s), Semantic, f, d)
    BY <2>1, <2>3, <2>4 DEF Raised
  <2>6. SumOver(Excesses, Semantic) = SumOver(RestExcesses(s), Semantic) + d /\ SumOver(RestExcesses(s), Semantic) \in Int
    BY <1>4, <2>5, SumRaised
  <2> QED
    BY <2>6 DEF d
<1> QED
  BY <1>7, <1>8, <1>9 DEF f, w

\* A sum over the segments that have a colour.
LEMMA PreferredMeasure ==
  ASSUME Placing, NEW s \in Ids, NEW c \in Palette, colours[s] = c
  PROVE  /\ SumOver(Preferred, Wearing) = SumOver(RestPreferred(s), Wearing \ {s}) + Preference[c]
         /\ SumOver(RestPreferred(s), Wearing \ {s}) \in Int
<1>1. Dressed /\ s \in Wearing
  BY PaletteIs DEF Placing, Colouring, Dressed, Wearing
<1>2. IsFiniteSet(Wearing) /\ \A t \in Wearing : Preferred[t] \in Int /\ Preferred[t] = Preference[colours[t]]
  BY <1>1, PreferenceSum
<1>3. SumOver(Preferred, Wearing) = Preferred[s] + SumOver(Preferred, Wearing \ {s})
  BY <1>1, <1>2, SumRemove
<1>4. IsFiniteSet(Wearing \ {s}) /\ \A t \in Wearing \ {s} : Preferred[t] \in Int
  BY <1>2, FS_RemoveElement
<1>5. SumOver(Preferred, Wearing \ {s}) \in Int
  BY <1>4, SumType
<1>6. SumOver(Preferred, Wearing \ {s}) = SumOver(RestPreferred(s), Wearing \ {s})
  <2>1. \A t \in Wearing \ {s} : RestPreferred(s)[t] = Preferred[t]
    BY <1>2 DEF RestPreferred
  <2> QED
    BY <1>4, <2>1, SumSame
<1>7. Preferred[s] = Preference[c] /\ Preference[c] \in Int
  BY <1>1, <1>2
<1> QED
  BY <1>3, <1>5, <1>6, <1>7

\* The objective is that of the other segments and what the colour of this costs.
LEMMA ObjectiveParts ==
  Placing => \A s \in Ids, c \in Palette : colours[s] = c =>
     /\ DOMAIN Objective = 1..7
     /\ \A i \in 1..7 : /\ Objective[i] = Rests(s)[i] + Cost(s, c)[i]
                        /\ Rests(s)[i] \in Int /\ Cost(s, c)[i] \in Int
<1> SUFFICES ASSUME Placing, NEW s \in Ids, NEW c \in Palette, colours[s] = c
             PROVE  /\ DOMAIN Objective = 1..7
                    /\ \A i \in 1..7 : /\ Objective[i] = Rests(s)[i] + Cost(s, c)[i]
                                       /\ Rests(s)[i] \in Int /\ Cost(s, c)[i] \in Int
  OBVIOUS
<1>1. Dressed /\ Colouring
  BY DEF Placing, Colouring, Dressed
<1>2. Objective = Measures /\ Cost(s, c) = CostParts(s, c)
  BY <1>1, ObjectiveIs, CostIsParts
<1>3. \A i \in 1..7 : Cost(s, c)[i] \in Int
  BY <1>1, CostIs
<1> DEFINE m == Measures
           r == Rests(s)
           k == CostParts(s, c)
<1>4. /\ m[1] = SumOver(PairWeights, SamePairs) /\ m[2] = SumOver(PairWeights, RelatedPairs)
      /\ m[3] = SumOver(Excesses, Semantic) /\ m[4] = SumOver(PairNearness, NearPairs)
      /\ m[5] = SumOver(FamilySquares, Families) /\ m[6] = SumOver(ColourSquares, Palette)
      /\ m[7] = SumOver(Preferred, Wearing) /\ DOMAIN m = 1..7
  BY DEF Measures
<1>5. /\ r[1] = SumOver(PairWeights, Without(s, SamePairs))
      /\ r[2] = SumOver(PairWeights, Without(s, RelatedPairs))
      /\ r[3] = SumOver(RestExcesses(s), Semantic)
      /\ r[4] = SumOver(PairNearness, Without(s, NearPairs))
      /\ r[5] = SumOver(RestFamilies(s), Families) /\ r[6] = SumOver(RestColours(s), Palette)
      /\ r[7] = SumOver(RestPreferred(s), Wearing \ {s})
  BY DEF Rests
<1>6. /\ k[1] = SumOver(Smallers(s), SameBeside(s, c))
      /\ k[2] = SumOver(Smallers(s), RelatedBeside(s, c))
      /\ k[3] = (IF Family[c] \in Semantic THEN Overrun(FamilyRest(s, Family[c]), Weight(s)) ELSE 0)
      /\ k[4] = SumOver(Nearness(s), NearBeside(s, c))
      /\ k[5] = Raise(FamilyRest(s, Family[c]), Weight(s))
      /\ k[6] = Raise(ColourRest(s, c), Weight(s)) /\ k[7] = Preference[c]
  BY DEF CostParts
<1> HIDE DEF m, r, k
<1>7. m[1] = r[1] + k[1] /\ m[2] = r[2] + k[2] /\ m[4] = r[4] + k[4]
      /\ r[1] \in Int /\ r[2] \in Int /\ r[4] \in Int
  BY <1>4, <1>5, <1>6, PairMeasures
<1>8. m[3] = r[3] + k[3] /\ m[5] = r[5] + k[5] /\ m[6] = r[6] + k[6]
      /\ r[3] \in Int /\ r[5] \in Int /\ r[6] \in Int
  BY <1>4, <1>5, <1>6, LoadMeasures
<1>9. m[7] = r[7] + k[7] /\ r[7] \in Int
  BY <1>4, <1>5, <1>6, PreferredMeasure
<1>10. \A i \in 1..7 : m[i] = r[i] + k[i] /\ r[i] \in Int
  BY <1>7, <1>8, <1>9
<1> QED
  BY <1>2, <1>3, <1>4, <1>10 DEF m, r, k

----------------------------------------------------------------------------
(* A segment that changes its colour.                                      *)

\* Only one segment may change its colour.
Recolours(s) ==
    /\ UNCHANGED <<segments, budget>>
    /\ \A t \in Ids : t # s => colours'[t] = colours[t]

\* What does not depend on the colour of a segment.
LEMMA RestsStay ==
  ASSUME NEW s \in Ids, Segmented, Recolours(s)
  PROVE  Rests(s)' = Rests(s) /\ \A c : CostParts(s, c)' = CostParts(s, c)
<1>0. UNCHANGED <<segments, budget>> /\ \A t \in Ids : t # s => colours'[t] = colours[t]
  BY DEF Recolours
<1>1. /\ Ids' = Ids /\ Weights' = Weights /\ Weight(s)' = Weight(s)
      /\ PairWeights' = PairWeights /\ PairNearness' = PairNearness
      /\ Smallers(s)' = Smallers(s) /\ Nearness(s)' = Nearness(s)
  BY <1>0 DEF Ids, Weights, Weight, PairWeights, PairNearness, Smallers, Nearness, Smaller, Distance
<1>2. Wearing' \ {s} = Wearing \ {s}
  BY <1>0, <1>1 DEF Wearing
<1>3. \A p : p[1] # s /\ p[2] # s =>
        /\ p \in WearingPairs' <=> p \in WearingPairs
        /\ p \in WearingPairs => colours'[p[1]] = colours[p[1]] /\ colours'[p[2]] = colours[p[2]]
  <2> SUFFICES ASSUME NEW p, p[1] # s, p[2] # s
        PROVE  /\ p \in WearingPairs' <=> p \in WearingPairs
               /\ p \in WearingPairs => colours'[p[1]] = colours[p[1]] /\ colours'[p[2]] = colours[p[2]]
    OBVIOUS
  <2>1. p \in WearingPairs' <=> p \in Wearing' \X Wearing' /\ p[1] < p[2]
    BY DEF WearingPairs
  <2>2. p \in WearingPairs <=> p \in Wearing \X Wearing /\ p[1] < p[2]
    BY DEF WearingPairs
  <2>3. p \in Wearing' \X Wearing' <=> p \in Wearing \X Wearing
    BY <1>2
  <2>4. p \in WearingPairs => p[1] \in Ids /\ p[2] \in Ids
    BY <2>2 DEF Wearing
  <2> QED
    BY <1>0, <2>1, <2>2, <2>3, <2>4
<1>4. \A p : p[1] # s /\ p[2] # s =>
        (p \in AdjacentPairs' <=> p \in AdjacentPairs)
  BY <1>0, <1>3 DEF AdjacentPairs
<1>5. Without(s, SamePairs)' = Without(s, SamePairs)
  <2>1. \A p : p[1] # s /\ p[2] # s => (p \in SamePairs' <=> p \in SamePairs)
    BY <1>3, <1>4 DEF SamePairs, AdjacentPairs
  <2>2. Without(s, SamePairs)' = Without(s, SamePairs')
    BY DEF Without
  <2> QED
    BY <2>1, <2>2 DEF Without
<1>6. Without(s, RelatedPairs)' = Without(s, RelatedPairs)
  <2>1. \A p : p[1] # s /\ p[2] # s => (p \in RelatedPairs' <=> p \in RelatedPairs)
    BY <1>3, <1>4 DEF RelatedPairs, AdjacentPairs
  <2>2. Without(s, RelatedPairs)' = Without(s, RelatedPairs')
    BY DEF Without
  <2> QED
    BY <2>1, <2>2 DEF Without
<1>7. Without(s, NearPairs)' = Without(s, NearPairs)
  <2>1. \A p : p[1] # s /\ p[2] # s => (p \in NearPairs' <=> p \in NearPairs)
    BY <1>3 DEF NearPairs, Distance
  <2>2. Without(s, NearPairs)' = Without(s, NearPairs')
    BY DEF Without
  <2> QED
    BY <2>1, <2>2 DEF Without
<1>8. \A f : FamilyRest(s, f)' = FamilyRest(s, f)
  <2> SUFFICES ASSUME NEW f PROVE FamilyRest(s, f)' = FamilyRest(s, f)
    OBVIOUS
  <2>1. WornIn(f)' \ {s} = WornIn(f) \ {s}
    BY <1>0, <1>1 DEF WornIn
  <2>2. FamilyRest(s, f)' = SumOver(Weights', WornIn(f)' \ {s})
    BY DEF FamilyRest
  <2> QED
    BY <1>1, <2>1, <2>2 DEF FamilyRest
<1>9. \A c : ColourRest(s, c)' = ColourRest(s, c)
  <2> SUFFICES ASSUME NEW c PROVE ColourRest(s, c)' = ColourRest(s, c)
    OBVIOUS
  <2>1. Worn(c)' \ {s} = Worn(c) \ {s}
    BY <1>0, <1>1 DEF Worn
  <2>2. ColourRest(s, c)' = SumOver(Weights', Worn(c)' \ {s})
    BY DEF ColourRest
  <2> QED
    BY <1>1, <2>1, <2>2 DEF ColourRest
<1>10. /\ RestExcesses(s)' = RestExcesses(s) /\ RestFamilies(s)' = RestFamilies(s)
       /\ RestColours(s)' = RestColours(s)
  <2>1. RestExcesses(s)' = [f \in Families |-> Square(Above(FamilyRest(s, f)', budget'))]
    BY DEF RestExcesses, Square, Above
  <2>2. RestFamilies(s)' = [f \in Families |-> Square(FamilyRest(s, f)')]
    BY DEF RestFamilies, Square
  <2>3. RestColours(s)' = [c \in Palette |-> Square(ColourRest(s, c)')]
    BY DEF RestColours, Square
  <2> QED
    BY <1>0, <1>8, <1>9, <2>1, <2>2, <2>3 DEF RestExcesses, RestFamilies, RestColours
<1>11. RestPreferred(s)' = RestPreferred(s)
  <2>1. \A t \in Wearing \ {s} : colours'[t] = colours[t]
    BY <1>0 DEF Wearing
  <2>2. RestPreferred(s)' = [t \in Wearing' \ {s} |-> Preference[colours'[t]]]
    BY DEF RestPreferred
  <2> QED
    BY <1>2, <2>1, <2>2 DEF RestPreferred
<1>12. \A c : /\ SameBeside(s, c)' = SameBeside(s, c) /\ RelatedBeside(s, c)' = RelatedBeside(s, c)
              /\ NearBeside(s, c)' = NearBeside(s, c)
  <2>1. \A t \in segments[s].neighbours : colours'[t] = colours[t]
    BY <1>0, SegmentedIs
  <2>2. \A t \in Ids \ {s} : colours'[t] = colours[t]
    BY <1>0
  <2> QED
    BY <1>0, <1>1, <2>1, <2>2 DEF SameBeside, RelatedBeside, NearBeside, Distance
<1>13. Rests(s)' = Rests(s)
  <2>1. Rests(s)' =
          << SumOver(PairWeights', Without(s, SamePairs)'), SumOver(PairWeights', Without(s, RelatedPairs)'),
             SumOver(RestExcesses(s)', Semantic), SumOver(PairNearness', Without(s, NearPairs)'),
             SumOver(RestFamilies(s)', Families), SumOver(RestColours(s)', Palette),
             SumOver(RestPreferred(s)', Wearing' \ {s}) >>
    BY DEF Rests
  <2> QED
    BY <1>1, <1>2, <1>5, <1>6, <1>7, <1>10, <1>11, <2>1 DEF Rests
<1>14. ASSUME NEW c PROVE CostParts(s, c)' = CostParts(s, c)
  <2>1. CostParts(s, c)' =
          << SumOver(Smallers(s)', SameBeside(s, c)'),
             SumOver(Smallers(s)', RelatedBeside(s, c)'),
             IF Family[c] \in Semantic THEN Overrun(FamilyRest(s, Family[c]), Weight(s))' ELSE 0,
             SumOver(Nearness(s)', NearBeside(s, c)'),
             Raise(FamilyRest(s, Family[c])', Weight(s)'),
             Raise(ColourRest(s, c)', Weight(s)'),
             Preference[c] >>
    BY DEF CostParts, Raise, Square
  <2>2. Overrun(FamilyRest(s, Family[c]), Weight(s))' = Overrun(FamilyRest(s, Family[c]), Weight(s))
    BY <1>0, <1>1, <1>8 DEF Overrun, Square, Above
  <2> QED
    BY <1>1, <1>8, <1>9, <1>12, <2>1, <2>2 DEF CostParts
<1> QED
  BY <1>13, <1>14

\* The objective and the costs, for every segment and colour.
Divided ==
    \A s \in Ids, c \in Palette : colours[s] = c =>
        /\ DOMAIN Objective = 1..7
        /\ \A i \in 1..7 : /\ Objective[i] = Rests(s)[i] + Cost(s, c)[i]
                           /\ Rests(s)[i] \in Int /\ Cost(s, c)[i] \in Int

Priced == \A s \in Ids, c \in Palette : Cost(s, c) = CostParts(s, c)

\* Both hold while colours are placed.
LEMMA PartsHold == Placing => Divided /\ Priced
BY ObjectiveParts, CostIsParts DEF Divided, Priced

\* Placing a segment again, in another colour, makes the objective better.
LEMMA PlaceImproves ==
  ASSUME Placing, Place, colours[Turn] # Uncoloured, colours' # colours
  PROVE  LexLess(Objective', Objective)
<1>1. /\ placed < Passes * Len(segments) /\ colours' = [colours EXCEPT ![Turn] = BestColour(Turn)]
      /\ UNCHANGED <<segments, budget>>
  BY DEF Place
<1>2. Colouring /\ Segmented /\ colours \in [Ids -> Palette \cup {Uncoloured}]
  BY DEF Placing, Colouring
<1>s. PICK s \in Ids : s = Turn
  BY <1>1, TurnIs
<1>n. PICK new \in Palette : new = BestColour(s)
  BY <1>2, BestIs
<1>o. PICK old \in Palette : old = colours[s]
  BY <1>2, <1>s
<1>3. s \in Ids /\ new \in Palette /\ colours' = [colours EXCEPT ![s] = new]
  BY <1>1, <1>s, <1>n
<1>4. old \in Palette /\ old = colours[s]
  BY <1>o
<1>5. new # old /\ LexLess(Cost(s, new), Cost(s, old))
  <2>1. new # old
    BY <1>2, <1>3, <1>4
  <2> QED
    BY <1>2, <1>3, <1>4, <1>n, <2>1, BestIs
<1>6. colours'[s] = new /\ \A t \in Ids : t # s => colours'[t] = colours[t]
  BY <1>1, <1>2, <1>3
<1>7. Placing' /\ Ids' = Ids
  BY <1>1, PlaceKeeps DEF Ids
<1>8. Rests(s)' = Rests(s) /\ \A c : CostParts(s, c)' = CostParts(s, c)
  <2>1. Recolours(s)
    BY <1>1, <1>6 DEF Recolours
  <2> QED
    BY <1>2, <1>3, <2>1, RestsStay
<1>9. /\ DOMAIN Objective = 1..7
      /\ \A i \in 1..7 : /\ Objective[i] = Rests(s)[i] + Cost(s, old)[i]
                         /\ Rests(s)[i] \in Int /\ Cost(s, old)[i] \in Int
  BY <1>3, <1>4, ObjectiveParts
<1>a. (Placing => Divided /\ Priced)'
  BY PartsHold, PTL
<1>b. Divided' /\ Priced'
  BY <1>7, <1>a
<1>c. Cost(s, new)' = Cost(s, new)
  <2>1. Cost(s, new) = CostParts(s, new)
    BY <1>3, CostIsParts
  <2>2. \A c \in Palette : Cost(s, c)' = CostParts(s, c)'
    BY <1>3, <1>7, <1>b DEF Priced
  <2> QED
    BY <1>3, <1>8, <2>1, <2>2
<1>10. /\ DOMAIN Objective' = 1..7
       /\ \A i \in 1..7 : Objective'[i] = Rests(s)[i] + Cost(s, new)[i] /\ Cost(s, new)[i] \in Int
  <2>1. \A c \in Palette : colours'[s] = c =>
         /\ DOMAIN Objective' = 1..7
         /\ \A i \in 1..7 : /\ Objective'[i] = Rests(s)'[i] + Cost(s, c)'[i]
                            /\ Rests(s)'[i] \in Int /\ Cost(s, c)'[i] \in Int
    BY <1>3, <1>7, <1>b DEF Divided
  <2> QED
    BY <1>2, <1>3, <1>6, <1>8, <1>c, <2>1, CostIs
<1>11. PICK i \in 1..7 : Cost(s, new)[i] < Cost(s, old)[i]
                         /\ \A j \in 1..(i - 1) : Cost(s, new)[j] = Cost(s, old)[j]
  <2>1. DOMAIN Cost(s, new) = 1..7
    BY <1>2, <1>3, CostIs
  <2> QED
    BY <1>5, <2>1 DEF LexLess
<1>12. Objective'[i] < Objective[i]
  BY <1>9, <1>10, <1>11
<1>13. \A j \in 1..(i - 1) : Objective'[j] = Objective[j]
  <2>1. \A j \in 1..(i - 1) : j \in 1..7
    OBVIOUS
  <2> QED
    BY <1>9, <1>10, <1>11, <2>1
<1> QED
  BY <1>10, <1>12, <1>13 DEF LexLess

----------------------------------------------------------------------------
(* Every segment has its turn, and shades are exchanged.                   *)

\* Every segment has a turn.
LEMMA TurnsReachAll ==
  ASSUME Segmented,
         NEW q, q = [i \in Ids |-> CHOOSE s \in Ids : Cardinality({t \in Ids : Precedes(t, s)}) = i - 1]
  PROVE  \A s \in Ids : \E i \in Ids : q[i] = s
<1> DEFINE R == {p \in Ids \X Ids : Precedes(p[1], p[2])}
<1>1. Cardinality(Ids) = Len(segments) /\ Ids = 1..Len(segments) /\ Len(segments) \in Nat
  <2>1. Len(segments) \in Nat /\ Ids = 1..Len(segments)
    BY SegmentedIs
  <2>2. 1 \in Int /\ Len(segments) \in Int
    BY <2>1
  <2>3. Cardinality(1..Len(segments)) = IF 1 > Len(segments) THEN 0 ELSE Len(segments) - 1 + 1
    BY <2>2, FS_Interval
  <2> QED
    BY <2>1, <2>3
<1>2. Orders(R, Ids) /\ IsFiniteSet(Ids)
  BY PrecedesOrders, SegmentedIs
<1>3. \A s \in Ids : Cardinality({t \in Ids : Precedes(t, s)}) = Rank(R, Ids, s)
  <2> SUFFICES ASSUME NEW s \in Ids
               PROVE  Cardinality({t \in Ids : Precedes(t, s)}) = Rank(R, Ids, s)
    OBVIOUS
  <2>1. {t \in Ids : Precedes(t, s)} = {t \in Ids : <<t, s>> \in R}
    OBVIOUS
  <2> QED
    BY <2>1 DEF Rank
<1> HIDE DEF R
<1>4. /\ \A s \in Ids : Rank(R, Ids, s) \in 0..(Cardinality(Ids) - 1)
      /\ \A s, t \in Ids : Rank(R, Ids, s) = Rank(R, Ids, t) => s = t
  BY <1>2, RankGrows
<1>5. ASSUME NEW s \in Ids PROVE \E i \in Ids : q[i] = s
  <2>1. PICK i \in Ids : i - 1 = Rank(R, Ids, s)
    <3>1. Rank(R, Ids, s) + 1 \in Ids /\ (Rank(R, Ids, s) + 1) - 1 = Rank(R, Ids, s)
      BY <1>1, <1>4
    <3> QED
      BY <3>1
  <2>2. Cardinality({t \in Ids : Precedes(t, s)}) = i - 1
    BY <1>3, <2>1
  <2>3. q[i] \in Ids /\ Cardinality({t \in Ids : Precedes(t, q[i])}) = i - 1
    BY <2>2
  <2>4. q[i] = s
    BY <1>3, <1>4, <2>1, <2>3
  <2> QED
    BY <2>4
<1> QED
  BY <1>5

\* The exchange of shades permutes what each colour is worn by.
LEMMA ShadesPermute ==
  ASSUME Placing, PreferReadableShades
  PROVE  \A i \in 1..6 : Objective'[i] = Objective[i]
<1>1. /\ colours' = [s \in Ids |-> Exchange(colours[s])]
      /\ UNCHANGED <<segments, budget>> /\ Ids' = Ids
  BY DEF PreferReadableShades, Exchange, Ids
<1>2. Dressed /\ Segmented /\ colours \in [Ids -> Palette \cup {Uncoloured}]
  BY DEF Placing, Colouring, Dressed
<1>3. Dressed'
  BY <1>1, <1>2, ShadeKeeps DEF Dressed
<1>4. \A s \in Ids : /\ colours'[s] = Exchange(colours[s]) /\ colours[s] \in Palette \cup {Uncoloured}
                     /\ colours'[s] = Uncoloured <=> colours[s] = Uncoloured
  BY <1>1, <1>2, ExchangeWithin
<1>5. \A s \in Ids : colours[s] # Uncoloured => Family[colours'[s]] = Family[colours[s]]
  <2> SUFFICES ASSUME NEW s \in Ids, colours[s] # Uncoloured
               PROVE  Family[colours'[s]] = Family[colours[s]]
    OBVIOUS
  <2>1. colours[s] \in Palette
    BY <1>4
  <2> QED
    BY <1>4, <2>1, ExchangeWithin
<1>6. \A s, t \in Ids : colours'[s] = colours'[t] <=> colours[s] = colours[t]
  BY <1>4, ExchangeIs
<1>7. Wearing' = Wearing /\ WearingPairs' = WearingPairs
  <2>1. Wearing' = Wearing
    BY <1>1, <1>4 DEF Wearing
  <2> QED
    BY <2>1 DEF WearingPairs
<1>8. \A p \in WearingPairs :
        /\ p[1] \in Ids /\ p[2] \in Ids
        /\ colours[p[1]] # Uncoloured /\ colours[p[2]] # Uncoloured
  BY DEF WearingPairs, Wearing
<1>9. AdjacentPairs' = AdjacentPairs /\ AdjacentPairs \subseteq WearingPairs
  BY <1>1, <1>7 DEF AdjacentPairs
<1>10. SamePairs' = SamePairs
  BY <1>6, <1>8, <1>9 DEF SamePairs
<1>11. RelatedPairs' = RelatedPairs
  BY <1>5, <1>8, <1>9 DEF RelatedPairs
<1>12. NearPairs' = NearPairs
  BY <1>6, <1>7, <1>8 DEF NearPairs, Distance
<1>13. /\ Weights' = Weights /\ PairWeights' = PairWeights /\ PairNearness' = PairNearness
  BY <1>1 DEF Weights, Weight, PairWeights, PairNearness, Smaller, Distance, Ids
<1>14. \A f : WornIn(f)' = WornIn(f)
  BY <1>1, <1>4, <1>5 DEF WornIn
<1>15. Excesses' = Excesses /\ FamilySquares' = FamilySquares
  <2>1. Excesses' = [f \in Families |-> Square(Above(SumOver(Weights', WornIn(f)'), budget'))]
    BY DEF Excesses, Square, Above
  <2>2. FamilySquares' = [f \in Families |-> Square(SumOver(Weights', WornIn(f)'))]
    BY DEF FamilySquares, Square
  <2> QED
    BY <1>1, <1>13, <1>14, <2>1, <2>2 DEF Excesses, FamilySquares
<1>16. PICK move : move = [c \in Palette |-> Exchange(c)]
  OBVIOUS
<1>17. \A c \in Palette : /\ move[c] = Exchange(c) /\ move[c] \in Palette
                          /\ move[move[c]] = c
  <2> SUFFICES ASSUME NEW c \in Palette
               PROVE  move[c] = Exchange(c) /\ move[c] \in Palette /\ move[move[c]] = c
    OBVIOUS
  <2>1. move[c] = Exchange(c) /\ Exchange(c) \in Palette \cup {Uncoloured} /\ c # Uncoloured
    BY <1>16, ExchangeIs, PaletteIs
  <2>2. Exchange(c) \in Palette /\ Exchange(Exchange(c)) = c
    BY <2>1, ExchangeWithin
  <2> QED
    BY <1>16, <2>1, <2>2
<1>18. \A c \in Palette : Worn(move[c])' = Worn(c)
  <2> SUFFICES ASSUME NEW c \in Palette PROVE Worn(move[c])' = Worn(c)
    OBVIOUS
  <2>1. \A s \in Ids : Exchange(colours[s]) = Exchange(c) <=> colours[s] = c
    BY <1>4, ExchangeIs
  <2>2. \A s \in Ids : colours'[s] = move[c] <=> colours[s] = c
    BY <1>4, <1>17, <2>1
  <2> QED
    BY <1>1, <2>2 DEF Worn
<1>19. SumOver(ColourSquares', Palette) = SumOver(ColourSquares, Palette)
  <2>1. \A c \in Palette : ColourSquares[c] \in Int /\ ColourSquares[c] = Square(SumOver(Weights, Worn(c)))
    <3>1. \A c \in Palette : SumOver(Weights, Worn(c)) \in Int
      BY <1>2, TotalIs, PaletteIs
    <3> QED
      BY <3>1, SquareIs DEF ColourSquares
  <2>2. ColourSquares' = [c \in Palette |-> Square(SumOver(Weights', Worn(c)'))]
    BY DEF ColourSquares, Square
  <2>3. \A c \in Palette : ColourSquares'[move[c]] = ColourSquares[c]
    <3> SUFFICES ASSUME NEW c \in Palette PROVE ColourSquares'[move[c]] = ColourSquares[c]
      OBVIOUS
    <3>1. ColourSquares'[move[c]] = Square(SumOver(Weights', Worn(move[c])'))
      BY <1>17, <2>2
    <3> QED
      BY <1>13, <1>18, <2>1, <3>1
  <2>4. \A c \in Palette : ColourSquares'[c] \in Int
    BY <1>17, <2>1, <2>3
  <2>5. Moves(move, Palette, ColourSquares, Palette, ColourSquares')
    <3>1. move \in [Palette -> Palette]
      BY <1>16, <1>17
    <3>2. \A c, d \in Palette : move[c] = move[d] => c = d
      BY <1>17
    <3>3. \A d \in Palette : \E c \in Palette : move[c] = d
      BY <1>17
    <3> QED
      BY <2>1, <2>3, <2>4, <3>1, <3>2, <3>3, PaletteIs DEF Moves
  <2> QED
    BY <2>5, SumMoved
<1>20. Objective = Measures /\ Objective' = Measures'
  <2>1. (Dressed => Objective = Measures)'
    BY ObjectiveIs, PTL
  <2> QED
    BY <1>2, <1>3, <2>1, ObjectiveIs
<1>21. Measures' =
         << SumOver(PairWeights', SamePairs'), SumOver(PairWeights', RelatedPairs'),
            SumOver(Excesses', Semantic), SumOver(PairNearness', NearPairs'),
            SumOver(FamilySquares', Families), SumOver(ColourSquares', Palette),
            SumOver(Preferred', Wearing') >>
  BY DEF Measures
<1>22. Measures' =
         << SumOver(PairWeights, SamePairs), SumOver(PairWeights, RelatedPairs),
            SumOver(Excesses, Semantic), SumOver(PairNearness, NearPairs),
            SumOver(FamilySquares, Families), SumOver(ColourSquares, Palette),
            SumOver(Preferred', Wearing) >>
  BY <1>7, <1>10, <1>11, <1>12, <1>13, <1>15, <1>19, <1>21
<1> QED
  BY <1>20, <1>22 DEF Measures
=============================================================================
