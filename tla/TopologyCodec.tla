--------------------------- MODULE TopologyCodec ---------------------------
(***************************************************************************)
(* How a topology snapshot stores its lanes, src/cache/topology.rs: each   *)
(* point of a lane once, with the position of the point it follows, and    *)
(* for each lane where its head is.  Positions start at 1; 0 is no point.  *)
(* A lane is a record with its head, its base and its points from the head *)
(* down.  The names of a point are part of its commit here; annotations    *)
(* and line counts are dropped by the code and do not appear.              *)
(***************************************************************************)
EXTENDS Naturals, Sequences, SequencesExt

\* Mutant of Identity: a point is shared wherever it stands.
IdentityAnywhere(entry) == [id |-> entry.point.id, count |-> entry.point.count]

\* What points must have in common to be stored once; not main_history.
Identity(entry) ==
    [below |-> entry.below, id |-> entry.point.id, count |-> entry.point.count]

\* One point of a lane, above the one at progress.tip.
Share(progress, point) ==
    LET entry == [point |-> point, below |-> progress.tip]
        same  == {i \in DOMAIN progress.points :
                     Identity(progress.points[i]) = Identity(entry)}
    IN  IF same = {}
        THEN [points |-> Append(progress.points, entry), tip |-> Len(progress.points) + 1]
        ELSE [progress EXCEPT !.tip = CHOOSE i \in same : TRUE]

EncodeLane(topology, lane) ==
    LET shared == FoldLeft(Share, [points |-> topology.points, tip |-> 0],
                           Reverse(lane.points))
    IN  [points |-> shared.points,
         lanes  |-> Append(topology.lanes,
                           [head |-> lane.head, base |-> lane.base, tip |-> shared.tip])]

\* serialize; the groups of lanes are kept as they are.
Encode(lanes) == FoldLeft(EncodeLane, [points |-> <<>>, lanes |-> <<>>], lanes)

Broken == [broken |-> TRUE]

\* The points from every position down, up to one that is not in the table or
\* that refers to itself or upwards.
PointsFrom(table) ==
    LET from[i \in Nat] ==
            IF i = 0 THEN <<>>
            ELSE IF i > Len(table) THEN <<Broken>>
            ELSE IF table[i].below >= i THEN <<Broken>>
            ELSE <<table[i].point>> \o from[table[i].below]
    IN  from

\* deserialize: the lanes, or an error if any of them is broken.
Decode(topology) ==
    LET from == PointsFrom(topology.points)
    IN  IF \E i \in DOMAIN topology.lanes :
              Broken \in {from[topology.lanes[i].tip][k] :
                             k \in DOMAIN from[topology.lanes[i].tip]}
        THEN <<Broken>>
        ELSE [i \in DOMAIN topology.lanes |->
                 [head   |-> topology.lanes[i].head,
                  base   |-> topology.lanes[i].base,
                  points |-> from[topology.lanes[i].tip]]]
============================================================================
