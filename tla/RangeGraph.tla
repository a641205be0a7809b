----------------------------- MODULE RangeGraph -----------------------------
(***************************************************************************)
(* Commit graphs, and the algorithms of src/src/backend/graph.rs on the    *)
(* part of one that a revision walk has returned.                          *)
(*                                                                         *)
(* Commits are numbered so that parents have smaller numbers than their    *)
(* children; a history gives every commit the set of its parents.  A range *)
(* (the code's `nodes`) is a history restricted to the commits a walk has  *)
(* returned; the parents it names may lie outside.  indexed_graph visits a *)
(* range parents first, which here is the recursion over smaller numbers.  *)
(***************************************************************************)
EXTENDS Integers, Sequences, FiniteSets, SequencesExt, FiniteSetsExt

NoCommit == 0
Unproven == -1

----------------------------------------------------------------------------
(* What Git answers: the definitions the algorithms are held against.      *)

\* All histories of the commits 1..n in which a commit has at most k parents,
\* numbered in the order in which indexed_graph makes them ready: no commit
\* before one whose last parent is older.
Histories(n, k) ==
    LET last(parents) == Max(parents \cup {0})
    IN  {h \in [1..n -> {p \in SUBSET (1..n) : Cardinality(p) <= k}] :
            /\ \A c \in 1..n : last(h[c]) < c
            /\ \A c \in 2..n : last(h[c - 1]) <= last(h[c])}

\* The commits reachable from c, c included.
Ancestry(history, c) ==
    LET reach[d \in DOMAIN history] == {d} \cup UNION {reach[p] : p \in history[d]}
    IN  reach[c]

Reachable(history, tips) == UNION {Ancestry(history, t) : t \in tips}

\* The tips no other tip reaches: git merge-base --independent.
Maximal(history, tips) ==
    {t \in tips : \A u \in tips \ {t} : t \notin Ancestry(history, u)}

\* git rev-list tips --not hidden, with the parents of every commit.
Walk(history, tips, hidden) ==
    [c \in Reachable(history, tips) \ Reachable(history, hidden) |-> history[c]]

\* The best common ancestors of a and b; git merge-base prints one of them.
BestBases(history, a, b) ==
    LET common == Ancestry(history, a) \cap Ancestry(history, b)
    IN  Maximal(history, common)

\* The answers git merge-base may give.
MergeBaseAnswers(history, a, b) ==
    IF BestBases(history, a, b) = {} THEN {NoCommit} ELSE BestBases(history, a, b)

\* The commits of head's history that descend from base: what git rev-list
\* --ancestry-path base..head prints, or all of head's history without a base.
Between(history, base, head) ==
    IF base = NoCommit
    THEN Ancestry(history, head)
    ELSE {c \in Ancestry(history, head) \ {base} : base \in Ancestry(history, c)}

----------------------------------------------------------------------------
(* src/src/backend/graph.rs                                                *)

\* The commits of a range that descend from base, a parent outside of it.
Descendants(nodes, base) ==
    LET included[c \in DOMAIN nodes] ==
            \E p \in nodes[c] : p = base \/ (p \in DOMAIN nodes /\ included[p])
    IN  {c \in DOMAIN nodes : included[c]}

\* PathState: where the corridor below a commit leaves the range, the points
\* on it with the commits each one adds (the nearest first), and the commits
\* since the last point.
PathState(base, links, gap) == [base |-> base, links |-> links, gap |-> gap]

\* Mutant of Step: a point does not count itself.
StepFromZero(id, points, below) ==
    IF id \in points
    THEN PathState(below.base, <<[id |-> id, count |-> below.gap]>> \o below.links, 0)
    ELSE PathState(below.base, below.links, below.gap + 1)

\* Mutant of Step: the gap goes on past a point.
StepKeepingGap(id, points, below) ==
    IF id \in points
    THEN PathState(below.base,
                   <<[id |-> id, count |-> below.gap + 1]>> \o below.links,
                   below.gap + 1)
    ELSE PathState(below.base, below.links, below.gap + 1)

\* One commit further up the corridor.
Step(id, points, below) ==
    IF id \in points
    THEN PathState(below.base, <<[id |-> id, count |-> below.gap + 1]>> \o below.links, 0)
    ELSE PathState(below.base, below.links, below.gap + 1)

\* linear_paths returns None when a commit of the range is a merge.
IsLinear(nodes) == \A c \in DOMAIN nodes : Cardinality(nodes[c]) <= 1

\* The state of every commit of a range without merges.
LinearPaths(nodes, points) ==
    LET state[c \in DOMAIN nodes] ==
            Step(c, points,
                 IF nodes[c] \cap DOMAIN nodes # {}
                 THEN state[CHOOSE p \in nodes[c] : TRUE]
                 ELSE PathState(IF nodes[c] = {} THEN NoCommit
                                ELSE CHOOSE p \in nodes[c] : TRUE, <<>>, 0))
    IN  state

\* The parents outside the range at which a commit's history leaves it.  The
\* code keeps none, one or "multiple" of them.
Boundary(nodes) ==
    LET outside[c \in DOMAIN nodes] ==
            (nodes[c] \ DOMAIN nodes)
                \cup UNION {outside[p] : p \in nodes[c] \cap DOMAIN nodes}
    IN  outside

\* The merge base a complete range proves for each of its commits: none when
\* the history never leaves the range, the boundary when there is just one.
ProvenBases(nodes) ==
    LET outside == Boundary(nodes)
    IN  [c \in DOMAIN nodes |->
            CASE outside[c] = {} -> NoCommit
              [] Cardinality(outside[c]) = 1 -> CHOOSE p \in outside[c] : TRUE
              [] OTHER -> Unproven]

\* For every base, how many commits of the range carry its bit when they are
\* visited; bases outside the range seed the bit through a parent, bases
\* inside it for their children only.
DescendantCounts(nodes, bases) ==
    LET below[c \in DOMAIN nodes] ==
            ((nodes[c] \cap bases) \ DOMAIN nodes)
                \cup UNION {below[p] \cup ({p} \cap bases) :
                                p \in nodes[c] \cap DOMAIN nodes}
    IN  [b \in bases |-> Cardinality({c \in DOMAIN nodes : b \in below[c]})]

=============================================================================
