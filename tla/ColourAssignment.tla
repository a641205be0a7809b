-------------------------- MODULE ColourAssignment --------------------------
(***************************************************************************)
(* The colours of the segments of the graph (render/colours/assignment.rs).*)
(* Every segment is given the cheapest colour three times, larger segments *)
(* first; then the two shades of a family may be exchanged.                *)
(***************************************************************************)
EXTENDS Integers, Sequences, SequencesExt

VARIABLES
    segments,       \* the segments in the order of their first rows
    colours,        \* the colour of every segment, or Uncoloured
    colourLoad,     \* the weight given to every colour
    familyLoad,     \* the weight given to every family
    budget,         \* how much Green and Coral may each take up
    turns,          \* the segments in the order in which they are coloured
    placed          \* how many placements have been made, in all three passes

colourVars == <<segments, colours, colourLoad, familyLoad, budget, turns, placed>>

Family == <<"Green", "Coral", "Blue", "Warm", "Purple", "Blue", "Warm">>
Preference == <<6, 5, 0, 1, 2, 3, 4>>
Palette == DOMAIN Family
Families == {Family[c] : c \in Palette}
Semantic == {"Green", "Coral"}

Uncoloured == 0
MainColour == 1         \* main keeps the first entry of the palette
NoName == 0             \* sorts before every name

Ids == DOMAIN segments
Weight(s) == segments[s].weight
Smaller(s, t) == IF Weight(s) < Weight(t) THEN Weight(s) ELSE Weight(t)
Square(n) == n * n
Distance(s, t) == IF s < t THEN t - s ELSE s - t
Above(n, limit) == IF n > limit THEN n - limit ELSE 0

\* Larger segments first, then by name, then in order.
Precedes(s, t) ==
    \/ Weight(s) > Weight(t)
    \/ Weight(s) = Weight(t) /\ segments[s].identity < segments[t].identity
    \/ Weight(s) = Weight(t) /\ segments[s].identity = segments[t].identity /\ s < t

\* Costs and sort keys are compared component by component.
LexLess(a, b) ==
    \E i \in DOMAIN a : a[i] < b[i] /\ \A j \in 1..(i - 1) : a[j] = b[j]

\* reuse_cost: the same colour within six positions, nearer ones dearer.
NearbyReuse(s, c) ==
    LET near == {t \in Ids \ {s} : Distance(s, t) < Len(Family) /\ colours[t] = c}
    IN  MapThenSumSet(LAMBDA t : (Len(Family) - Distance(s, t)) * Smaller(s, t), near)

\* Mutant of Cost: the segment's own weight stays in the loads.
CostWithSelf(s, c) ==
    LET weight == Weight(s)
        same == {t \in segments[s].neighbours : colours[t] = c}
        related == {t \in segments[s].neighbours :
                        colours[t] # Uncoloured /\ Family[colours[t]] = Family[c]}
        inFamily == familyLoad[Family[c]]
        inColour == colourLoad[c]
    IN  << MapThenSumSet(LAMBDA t : Smaller(s, t), same),
           MapThenSumSet(LAMBDA t : Smaller(s, t), related),
           IF Family[c] \in Semantic
           THEN Square(Above(inFamily + weight, budget)) - Square(Above(inFamily, budget))
           ELSE 0,
           NearbyReuse(s, c),
           Square(inFamily + weight) - Square(inFamily),
           Square(inColour + weight) - Square(inColour),
           Preference[c] >>

\* The cost of a colour for a segment, without what the segment has now.
Cost(s, c) ==
    LET weight == Weight(s)
        previous == colours[s]
        same == {t \in segments[s].neighbours : colours[t] = c}
        related == {t \in segments[s].neighbours :
                        colours[t] # Uncoloured /\ Family[colours[t]] = Family[c]}
        kept == previous # Uncoloured /\ Family[previous] = Family[c]
        inFamily == familyLoad[Family[c]] - (IF kept THEN weight ELSE 0)
        inColour == colourLoad[c] - (IF previous = c THEN weight ELSE 0)
    IN  << MapThenSumSet(LAMBDA t : Smaller(s, t), same),
           MapThenSumSet(LAMBDA t : Smaller(s, t), related),
           IF Family[c] \in Semantic
           THEN Square(Above(inFamily + weight, budget)) - Square(Above(inFamily, budget))
           ELSE 0,
           NearbyReuse(s, c),
           Square(inFamily + weight) - Square(inFamily),
           Square(inColour + weight) - Square(inColour),
           Preference[c] >>

\* Mutant of BestColour: nearby reuse counts for more than a neighbour's colour.
BestApart(s) ==
    LET cost == [c \in Palette |-> LET k == Cost(s, c)
                                   IN  <<k[4], k[1], k[2], k[3], k[5], k[6], k[7]>>]
    IN  CHOOSE c \in Palette : \A d \in Palette \ {c} : LexLess(cost[c], cost[d])

BestColour(s) ==
    LET cost == [c \in Palette |-> Cost(s, c)]
    IN  CHOOSE c \in Palette : \A d \in Palette \ {c} : LexLess(cost[c], cost[d])

----------------------------------------------------------------------------

InitColours ==
    /\ segments = <<>>
    /\ colours = <<>>
    /\ colourLoad = [c \in Palette |-> 0]
    /\ familyLoad = [f \in Families |-> 0]
    /\ budget = 0
    /\ turns = <<>>
    /\ placed = 0

\* Assignment::new, with what its caller sorts.
NewAssignment ==
    /\ colours' = [s \in Ids |-> Uncoloured]
    /\ budget' = MapThenSumSet(Weight, Ids) \div 5
    /\ turns' = [i \in Ids |-> CHOOSE s \in Ids : Cardinality({t \in Ids : Precedes(t, s)}) = i - 1]
    /\ UNCHANGED <<colourLoad, familyLoad, placed>>

Passes == 3

\* The segment whose turn it is: all of them in order, three times.
Turn == turns[(placed % Len(segments)) + 1]

\* Mutant of Place: the colour a segment had before keeps its weight.
PlaceOnTop ==
    /\ placed < Passes * Len(segments)
    /\ LET s == Turn
           new == BestColour(s)
       IN  /\ colours' = [colours EXCEPT ![s] = new]
           /\ colourLoad' = [colourLoad EXCEPT ![new] = @ + Weight(s)]
           /\ familyLoad' = [familyLoad EXCEPT ![Family[new]] = @ + Weight(s)]
    /\ placed' = placed + 1
    /\ UNCHANGED <<segments, budget, turns>>

\* place: the segment takes the colour, and its weight leaves the previous one.
Place ==
    /\ placed < Passes * Len(segments)
    /\ LET s == Turn
           new == BestColour(s)
           freed == IF colours[s] = Uncoloured THEN colourLoad
                    ELSE [colourLoad EXCEPT ![colours[s]] = @ - Weight(s)]
           freedFamily == IF colours[s] = Uncoloured THEN familyLoad
                          ELSE [familyLoad EXCEPT ![Family[colours[s]]] = @ - Weight(s)]
       IN  /\ colours' = [colours EXCEPT ![s] = new]
           /\ colourLoad' = [freed EXCEPT ![new] = @ + Weight(s)]
           /\ familyLoad' = [freedFamily EXCEPT ![Family[new]] = @ + Weight(s)]
    /\ placed' = placed + 1
    /\ UNCHANGED <<segments, budget, turns>>

\* The preferred and the other shade of each family that has two.
Shades == {p \in Palette \X Palette :
               Family[p[1]] = Family[p[2]] /\ Preference[p[1]] < Preference[p[2]]}

\* The pairs whose largest segment has the other shade.
Exchanged == {p \in Shades :
    \E s \in Ids : /\ colours[s] = p[2]
                   /\ \A t \in Ids \ {s} : colours[t] \in {p[1], p[2]} => Precedes(s, t)}

\* prefer_readable_shades: the largest segment of a family has the preferred
\* shade; where it has not, all segments of the family exchange shades.
PreferReadableShades ==
    /\ placed = Passes * Len(segments)
    /\ colours' = [s \in Ids |->
           IF \E p \in Exchanged : colours[s] = p[1]
           THEN (CHOOSE p \in Exchanged : colours[s] = p[1])[2]
           ELSE IF \E p \in Exchanged : colours[s] = p[2]
           THEN (CHOOSE p \in Exchanged : colours[s] = p[2])[1]
           ELSE colours[s]]
    /\ placed' = placed + 1
    /\ UNCHANGED <<segments, colourLoad, familyLoad, budget, turns>>

\* main's entry and then a palette entry for every segment, by the number of the
\* segment; main is number 0.
Painted(n) == IF n = 0 THEN MainColour ELSE colours[n]

\* What the placements make small, over all segments at once.
Objective ==
    LET coloured == {s \in Ids : colours[s] # Uncoloured}
        pairs == {p \in coloured \X coloured : p[1] < p[2]}
        adjacent == {p \in pairs : p[2] \in segments[p[1]].neighbours}
        near == {p \in pairs : Distance(p[1], p[2]) < Len(Family) /\ colours[p[1]] = colours[p[2]]}
        total(f) == MapThenSumSet(Weight, {s \in coloured : Family[colours[s]] = f})
    IN  << MapThenSumSet(LAMBDA p : Smaller(p[1], p[2]),
                         {p \in adjacent : colours[p[1]] = colours[p[2]]}),
           MapThenSumSet(LAMBDA p : Smaller(p[1], p[2]),
                         {p \in adjacent : Family[colours[p[1]]] = Family[colours[p[2]]]}),
           MapThenSumSet(LAMBDA f : Square(Above(total(f), budget)), Semantic),
           MapThenSumSet(LAMBDA p : (Len(Family) - Distance(p[1], p[2])) * Smaller(p[1], p[2]), near),
           MapThenSumSet(LAMBDA f : Square(total(f)), Families),
           MapThenSumSet(LAMBDA c : Square(MapThenSumSet(Weight, {s \in coloured : colours[s] = c})),
                         Palette),
           MapThenSumSet(LAMBDA s : Preference[colours[s]], coloured) >>
=============================================================================
