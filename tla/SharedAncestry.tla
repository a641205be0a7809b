--------------------------- MODULE SharedAncestry ---------------------------
(***************************************************************************)
(* How the lanes of a group share what they have in common                 *)
(* (render/ancestry.rs).  A lane keeps its points and its rewritten        *)
(* commits from the head down; it is drawn above its base with the         *)
(* rewritten commits lowest.  Lanes share a row exactly if they agree on   *)
(* all of the path below it, so a row is a path: its commit comes last.    *)
(***************************************************************************)
EXTENDS Integers, Sequences, SequencesExt

\* A set as a sequence, by a strict order of its elements.
Sorted(S, Before(_, _)) ==
    [i \in 1..Cardinality(S) |->
        CHOOSE x \in S : Cardinality({y \in S : Before(y, x)}) = i - 1]

\* What a lane shows, from the base up, each commit with its position in the
\* list it comes from.
Numbered(commits, rewritten) ==
    Reverse([i \in DOMAIN commits |->
                [content |-> commits[i], rewritten |-> rewritten, position |-> i]])

Contents(lane) ==
    Numbered(lane.rewritten, TRUE) \o Numbered(lane.points, FALSE)

\* Two commits are one row if they are the same to Content::identity: a point
\* by its commit, a rewritten commit together with its replacement.
Identity(entry) == [oid |-> entry.content.oid,
                    replacement |-> IF entry.rewritten THEN {entry.content.replacement} ELSE {}]

PathOf(lane) == LET entries == Contents(lane)
                IN  [i \in DOMAIN entries |-> Identity(entries[i])]

\* The rows of a group of lanes: the beginnings of their paths.
Nodes(lanes) == (UNION {Prefixes(PathOf(lanes[i])) : i \in DOMAIN lanes}) \ {<<>>}

\* Mutant of LaneOf: the row belongs to the last lane that passes through it.
LastLaneOf(lanes, node) == Max({i \in DOMAIN lanes : IsPrefix(node, PathOf(lanes[i]))})

\* The first lane that passes through a row.
LaneOf(lanes, node) == Min({i \in DOMAIN lanes : IsPrefix(node, PathOf(lanes[i]))})

\* The rows right above a row, or above the base, in the order of their lanes.
RowsAbove(lanes, node) ==
    Sorted({n \in Nodes(lanes) : Len(n) = Len(node) + 1 /\ IsPrefix(node, n)},
                 LAMBDA m, n : LaneOf(lanes, m) < LaneOf(lanes, n))

LanesAbove(lanes, node) ==
    LET above == RowsAbove(lanes, node)
    IN  [k \in DOMAIN above |-> LaneOf(lanes, above[k])]

Row(lanes, node) ==
    LET entry == Contents(lanes[LaneOf(lanes, node)])[Len(node)]
    IN  [lane |-> LaneOf(lanes, node), position |-> entry.position,
         rewritten |-> entry.rewritten, children |-> LanesAbove(lanes, node)]

\* shared_ancestry: every row after the rows above it.
SharedAncestry(lanes) ==
    LET upTo[node \in Nodes(lanes) \cup {<<>>}] ==
            LET above == RowsAbove(lanes, node)
            IN  FlattenSeq([k \in DOMAIN above |-> upTo[above[k]]])
                \o IF node = <<>> THEN <<>> ELSE <<Row(lanes, node)>>
    IN  [rows |-> upTo[<<>>], roots |-> LanesAbove(lanes, <<>>)]

\* PreparedAncestry::bind: the commit a prepared row stands for.
Bound(row, lanes) ==
    IF row.rewritten THEN lanes[row.lane].rewritten[row.position]
                     ELSE lanes[row.lane].points[row.position]
=============================================================================
