---------------------------- MODULE GraphDrawing ----------------------------
(***************************************************************************)
(* From the lane groups of an analysis to the rows of the graph: their     *)
(* order (lanes/grouping.rs, app/cached.rs), the segments and which of     *)
(* them are seen beside each other (render/colours/assignment/topology.rs),*)
(* their colours, and the rows (render/layout.rs, graph.rs, trunk.rs,      *)
(* orphan.rs).  A cell is a glyph and the number of its segment; main is   *)
(* number 0.  Labels stand for the commits and names they show; metadata,  *)
(* the marks of the current branch, right alignment and truncation to the  *)
(* width of the terminal are left out.                                     *)
(***************************************************************************)
EXTENDS SharedAncestry, ColourAssignment

CONSTANTS
    Width,          \* the display width of every branch name
    Repositories    \* the analyses that are drawn: groups, order and main refs

VARIABLES
    groups,         \* the lane groups
    order,          \* Newest or Oldest lanes first
    main,           \* main_oid, main_name and main_refs
    pc,             \* arrange, segments, colours, draw, done
    prepared,       \* the shared ancestry of every group
    group, row,     \* where the pass over groups and rows is
    active,         \* topology: the segment of every active lane
    edges,          \* topology: the pairs of segments seen beside each other
    previous,       \* topology: the segment of the row before
    shown,          \* drawing: the active lanes
    laneColours,    \* drawing: the segment number of every lane
    nextColour,     \* drawing: the next segment number
    started,        \* drawing: whether main has been begun
    drawn,          \* drawing: how far along main the rows have come
    historyName,    \* drawing: the name a gap in main is given
    picture         \* the rows

passVars == <<group, row>>
topologyVars == <<active, edges, previous>>
drawingVars == <<shown, laneColours, nextColour, started, drawn, historyName, picture>>
inputVars == <<groups, order, main, prepared>>
vars == <<inputVars, pc, passVars, topologyVars, colourVars, drawingVars>>

IsSequence(s) == s \in Seq(ToSet(s))

\* A lane has a head; names are numbers other than NoName.
IsLane(lane) ==
    /\ IsSequence(lane.points) /\ lane.points # <<>> /\ IsSequence(lane.rewritten)
    /\ lane.points[1].oid \in Int /\ lane.time \in Int
    /\ \A commit \in ToSet(lane.points) :
        /\ commit.names \subseteq DOMAIN Width /\ IsFiniteSet(commit.names)
        /\ commit.mainHistory \in BOOLEAN

Orphaned == -1      \* the distance of a group that is not on main

\* Lanes that are drawn together: no head is on another lane, since the heads are
\* the maximal points (LaneAnalysis, HeadsSpanPoints), and a commit is the same on
\* all of them.
Together(lanes) ==
    \A a, b \in lanes :
        /\ \A p \in ToSet(b.points) :
            /\ a.points[1].oid = p.oid => a = b
            /\ \A q \in ToSet(a.points) : q.oid = p.oid => q = p
        /\ \A m \in ToSet(a.rewritten) : \A n \in ToSet(b.rewritten) :
            m.oid = n.oid /\ m.replacement = n.replacement => m = n

\* An analysis has one group for a base, and main's own commit is at distance 0.
ASSUME DrawingAssumption ==
    /\ DOMAIN Width \subseteq Nat \ {0} /\ Width \in [DOMAIN Width -> Nat]
    /\ \A repository \in Repositories :
        /\ IsSequence(repository.groups) /\ IsSequence(repository.main.refs)
        /\ \A g \in ToSet(repository.groups) :
            /\ DOMAIN g = {"base", "distance", "lanes"}
            /\ g.base \in Int /\ g.distance \in Nat \cup {Orphaned} /\ IsSequence(g.lanes)
            /\ g.distance = 0 => g.base = repository.main.oid
            /\ \A lane \in ToSet(g.lanes) : IsLane(lane)
            /\ Together(ToSet(g.lanes))
        /\ \A g, h \in ToSet(repository.groups) : g.base = h.base => g = h

NoBase == 0
NoSegment == 0
LastTime == 1000    \* bound: later than every commit

IsConnected(g) == groups[g].distance # Orphaned
Lanes(g) == groups[g].lanes
Rows(g) == prepared[g].rows
Commit(g, r) == Bound(r, Lanes(g))

\* The names of the main refs at a commit.
References(oid) == {main.refs[i].name : i \in {j \in DOMAIN main.refs : main.refs[j].oid = oid}}

FirstReference(oid) ==
    main.refs[Min({j \in DOMAIN main.refs : main.refs[j].oid = oid})].name

Init ==
    /\ \E repository \in Repositories :
        /\ groups = repository.groups
        /\ order = repository.order
        /\ main = repository.main
    /\ pc = "arrange"
    /\ prepared = <<>>
    /\ group = 1 /\ row = 1
    /\ active = <<>> /\ edges = {} /\ previous = NoSegment
    /\ InitColours
    /\ shown = {} /\ laneColours = <<>> /\ nextColour = 1
    /\ started = FALSE /\ drawn = 0
    /\ historyName = IF References(main.oid) = {} THEN main.name ELSE FirstReference(main.oid)
    /\ picture = <<>>

----------------------------------------------------------------------------
(* The order of lanes and groups.                                          *)

Head1(lane) == lane.points[1].oid

\* ordered_lanes: by time, then by head.
LaneBefore(a, b) ==
    IF a.time = b.time THEN Head1(a) < Head1(b) ELSE (order = "Newest" <=> a.time > b.time)

OrderedLanes(lanes) == Sorted(ToSet(lanes), LaneBefore)

\* lane_group_timestamp, negated for Newest.
GroupTime(lanes) ==
    LET times == {lanes[i].time : i \in DOMAIN lanes}
    IN  IF lanes = <<>> THEN LastTime ELSE IF order = "Newest" THEN -Max(times) ELSE Min(times)

\* Mutant of GroupKey: groups are sorted by time only.
GroupKeyByTime(g) == <<GroupTime(g.lanes), g.base>>

\* lane_group_key: orphans last, then along main, then by time, then by base.
GroupKey(g) ==
    << IF g.distance = Orphaned THEN 1 ELSE 0,
       IF g.distance = Orphaned THEN 0 ELSE g.distance,
       GroupTime(g.lanes), g.base >>

\* Whether the lanes were built in this run or stored by an earlier one, they
\* are put in order before they are drawn.
Arrange ==
    /\ pc = "arrange"
    /\ LET ordered == {[g EXCEPT !.lanes = OrderedLanes(g.lanes)] : g \in ToSet(groups)}
           sorted == Sorted(ordered, LAMBDA g, h : LexLess(GroupKey(g), GroupKey(h)))
       IN  /\ groups' = sorted
           /\ prepared' = [g \in DOMAIN sorted |-> SharedAncestry(sorted[g].lanes)]
    /\ pc' = "segments"
    /\ UNCHANGED <<order, main, passVars, topologyVars, colourVars, drawingVars>>

----------------------------------------------------------------------------
(* Segments and neighbours: render/colours/assignment/topology.rs.         *)

\* connect_neighbours: a lane and those on either side of it, or these two if
\* the lane has ended.
Beside(lane, now) ==
    LET left == {l \in DOMAIN now : l < lane}
        right == {l \in DOMAIN now : l > lane}
        near == {now[l] : l \in (IF left = {} THEN {} ELSE {Max(left)})
                                \cup (IF right = {} THEN {} ELSE {Min(right)})}
    IN  IF lane \in DOMAIN now THEN {{now[lane], n} : n \in near}
        ELSE IF left # {} /\ right # {} THEN {near} ELSE {}

\* connect: nothing is its own neighbour.
Pairs(found) == {e \in found : Cardinality(e) = 2}

\* A row with several rows above it ends their lanes.
Joined(r) == IF Len(r.children) > 1 THEN ToSet(r.children) ELSE {}

\* The name a row gives to its segment, if it comes before what it has.
Identified(identity, names) ==
    LET known == names \cup ({identity} \ {NoName})
    IN  IF known = {} THEN NoName ELSE Min(known)

Names(r, commit) == IF r.rewritten THEN {} ELSE commit.names

Footprint(r, commit) == 1 + MapThenSumSet(LAMBDA n : Width[n], Names(r, commit))

\* Mutant of Met: the lanes that end in a junction are not linked with it.
MetBeside(lane, joined, now, segment) == UNION {Beside(l, now) : l \in {lane} \cup joined}

\* start: what a new segment makes neighbours.
Met(lane, joined, now, segment) ==
    (UNION {Beside(l, now) : l \in {lane} \cup joined})
    \cup {{active[l], segment} : l \in joined \cap DOMAIN active}

\* segments_prepared: a row goes on with the segment of its lane, or starts one
\* if the lane is not active or several lanes end here.
VisitRow ==
    /\ pc = "segments"
    /\ group <= Len(groups) /\ IsConnected(group) /\ row <= Len(Rows(group))
    /\ LET r == Rows(group)[row]
           commit == Commit(group, r)
           starts == r.lane \notin DOMAIN active \/ Joined(r) # {}
           segment == IF starts THEN Len(segments) + 1 ELSE active[r.lane]
           now == [l \in {r.lane} \cup (DOMAIN active \ Joined(r)) |->
                      IF l = r.lane THEN segment ELSE active[l]]
           old == IF starts THEN [weight |-> 0, identity |-> NoName, neighbours |-> {}]
                            ELSE segments[segment]
           new == [old EXCEPT !.weight = @ + Footprint(r, commit),
                              !.identity = Identified(@, Names(r, commit))]
           met == IF starts THEN Met(r.lane, Joined(r), now, segment) ELSE {}
           after == IF previous = NoSegment THEN {} ELSE {{previous, segment}}
       IN  /\ active' = now
           /\ edges' = edges \cup Pairs(met \cup after)
           /\ previous' = segment
           /\ segments' = IF starts THEN Append(segments, new)
                                    ELSE [segments EXCEPT ![segment] = new]
    /\ row' = row + 1
    /\ UNCHANGED <<inputVars, pc, group, colours, colourLoad, familyLoad, budget, turns,
                   placed, drawingVars>>

\* The next group; orphaned groups have no segments.
VisitGroup ==
    /\ pc = "segments"
    /\ group <= Len(groups)
    /\ ~IsConnected(group) \/ row > Len(Rows(group))
    /\ group' = group + 1
    /\ row' = 1
    /\ active' = <<>>
    /\ UNCHANGED <<inputVars, pc, edges, previous, colourVars, drawingVars>>

LinkSegments ==
    /\ pc = "segments"
    /\ group > Len(groups)
    /\ segments' = [s \in Ids |->
                      [segments[s] EXCEPT !.neighbours = (UNION {e \in edges : s \in e}) \ {s}]]
    /\ NewAssignment
    /\ pc' = "colours"
    /\ group' = 1 /\ row' = 0
    /\ UNCHANGED <<inputVars, topologyVars, drawingVars>>

----------------------------------------------------------------------------
(* Colours: render/colours/assignment.rs.                                  *)

Colour ==
    /\ pc = "colours"
    /\ Place
    /\ UNCHANGED <<inputVars, pc, passVars, topologyVars, drawingVars>>

Shade ==
    /\ pc = "colours"
    /\ PreferReadableShades
    /\ pc' = "draw"
    /\ UNCHANGED <<inputVars, passVars, topologyVars, drawingVars>>

----------------------------------------------------------------------------
(* The rows: render/layout.rs, graph.rs, trunk.rs, orphan.rs.              *)

Line(kind, spine, cells, label) ==
    [kind |-> kind, group |-> group, spine |-> spine, cells |-> cells, label |-> label]

MainNames == IF References(main.oid) = {} THEN {main.name} ELSE References(main.oid)

OmittedPast == Line("past", "dotted", <<>>, {})
MainTip == Line("tip", "node", <<>>, MainNames)
TopSpacer(rowsAbove) == Line("spacer", IF rowsAbove THEN "blank" ELSE "dotted", <<>>, {})

\* What precedes a connected group: main's beginning, and what is left out of
\* main since the group before.
Prelude(g) ==
    LET distance == groups[g].distance
    IN  (IF started THEN <<>>
         ELSE <<TopSpacer(distance = 0 /\ Lanes(g) # <<>>)>>
              \o (IF distance > 0 THEN <<MainTip>> ELSE <<>>))
        \o (IF distance > drawn
            THEN <<Line("gap", "dotted", <<>>, [count |-> distance - drawn, name |-> historyName])>>
            ELSE <<>>)

\* render_lane_groups begins with a connected group.
OpenGroup ==
    /\ pc = "draw"
    /\ group <= Len(groups) /\ IsConnected(group) /\ row = 0
    /\ picture' = picture \o Prelude(group)
    /\ started' = TRUE
    /\ shown' = {}
    /\ laneColours' = [l \in DOMAIN Lanes(group) |-> 0]
    /\ row' = 1
    /\ UNCHANGED <<inputVars, pc, group, topologyVars, colourVars, nextColour, drawn, historyName>>

MainSpine(g) == IF groups[g].distance = 0 THEN "blank" ELSE "line"

\* row_main_spine: the last row above main's own commit leads over to it.
RowSpine(g, n) ==
    IF groups[g].distance = 0 /\ n = Len(Rows(g)) THEN "dotted" ELSE MainSpine(g)

\* junction_prefix: the lanes that end here are led to the first of them.
JunctionCells(children, lanes) ==
    LET first == Min(children)
        last == Max(children)
    IN  [l \in DOMAIN lanes |->
            [colour |-> lanes[l],
             glyph |-> CASE l = first -> "fork"
                         [] l = last /\ l # first -> "end"
                         [] l \in children \ {first, last} -> "tee"
                         [] l \in (first..last) \ children -> "dash"
                         [] l \in shown \ (first..last) -> "line"
                         [] OTHER -> "blank"]]

\* row_prefix_with_marker
RowCells(lane, visible, lanes) ==
    [l \in DOMAIN lanes |->
        [colour |-> lanes[l],
         glyph |-> IF l = lane THEN "commit" ELSE IF l \in visible THEN "line" ELSE "blank"]]

\* trunk_prefix_with_roots: main's commit is led to the lanes that end on it.
TrunkCells(roots, lanes) ==
    LET last == IF roots = {} THEN 1 ELSE Max(roots)
    IN  [l \in DOMAIN lanes |->
            [colour |-> lanes[l],
             glyph |-> CASE l > last -> "blank"
                         [] l = last -> "end"
                         [] l \in roots /\ l < last -> "tee"
                         [] OTHER -> "dash"]]

\* render_branch_point_row, render_rewritten_row: what a row shows of its commit.
\* A commit of main's has the names of main's refs, in main's colour, instead of
\* those of its branches in the colour of the lane; without a ref, its title only.
Text(r, commit) ==
    IF r.rewritten THEN [marker |-> "rewritten", ofMain |-> FALSE, names |-> {}]
    ELSE LET refs == References(commit.oid)
             ofMain == refs # {} \/ commit.mainHistory
         IN  [marker |-> IF commit.mainHistory THEN "main" ELSE "branch",
              ofMain |-> ofMain,
              names |-> IF ofMain THEN refs ELSE commit.names]

CommitRow(r, commit, spine, cells) ==
    [kind |-> "commit", group |-> group, spine |-> spine, cells |-> cells,
     label |-> <<r.rewritten, commit>>, text |-> Text(r, commit)]

\* render_group: one row, below a junction if several lanes end in it.
DrawRow ==
    /\ pc = "draw"
    /\ group <= Len(groups) /\ IsConnected(group) /\ row \in 1..Len(Rows(group))
    /\ LET r == Rows(group)[row]
           junction == IF Joined(r) = {} THEN <<>>
                       ELSE <<Line("junction", MainSpine(group),
                                   JunctionCells(Joined(r), laneColours), {})>>
           left == shown \ Joined(r)
           lanes == IF r.lane \in left THEN laneColours
                    ELSE [laneColours EXCEPT ![r.lane] = nextColour]
       IN  /\ shown' = left \cup {r.lane}
           /\ laneColours' = lanes
           /\ nextColour' = IF r.lane \in left THEN nextColour ELSE nextColour + 1
           /\ picture' = Append(picture \o junction,
                  CommitRow(r, Commit(group, r), RowSpine(group, row),
                            RowCells(r.lane, shown', lanes)))
    /\ row' = row + 1
    /\ UNCHANGED <<inputVars, pc, group, topologyVars, colourVars, started, drawn, historyName>>

\* render_group ends with the base; the gap below is named by a ref at it.
DrawTrunk ==
    /\ pc = "draw"
    /\ group <= Len(groups) /\ IsConnected(group) /\ row = Len(Rows(group)) + 1
    /\ LET base == groups[group].base
           names == IF groups[group].distance = 0 THEN MainNames ELSE References(base)
       IN  /\ picture' = Append(picture, Line("trunk", "node",
                      TrunkCells(ToSet(prepared[group].roots), laneColours), names))
           /\ historyName' = IF References(base) = {} THEN historyName ELSE FirstReference(base)
    /\ drawn' = groups[group].distance
    /\ group' = group + 1
    /\ row' = 0
    /\ UNCHANGED <<inputVars, pc, topologyVars, colourVars, shown, laneColours, nextColour, started>>

\* render_orphaned_group: every point in a lane of its own, below main.
DrawOrphans ==
    /\ pc = "draw"
    /\ group <= Len(groups) /\ ~IsConnected(group)
    /\ LET points == FlattenSeq([l \in DOMAIN Lanes(group) |-> Lanes(group)[l].points])
           begin == IF started THEN <<>> ELSE <<TopSpacer(FALSE), MainTip>>
       IN  picture' = picture \o begin \o
                      [i \in DOMAIN points |-> Line("orphan", "dotted", <<>>, <<FALSE, points[i]>>)]
    /\ started' = TRUE
    /\ group' = group + 1
    /\ UNCHANGED <<inputVars, pc, row, topologyVars, colourVars, shown, laneColours, nextColour,
                   drawn, historyName>>

\* The end of main; without any group main is drawn alone.
Finish ==
    /\ pc = "draw"
    /\ group > Len(groups)
    /\ picture' = (IF groups = <<>> THEN <<TopSpacer(FALSE), MainTip>> ELSE picture)
                  \o <<OmittedPast>>
    /\ pc' = "done"
    /\ UNCHANGED <<inputVars, passVars, topologyVars, colourVars, shown, laneColours, nextColour,
                   started, drawn, historyName>>

Next ==
    \/ Arrange
    \/ VisitRow \/ VisitGroup \/ LinkSegments
    \/ Colour \/ Shade
    \/ OpenGroup \/ DrawRow \/ DrawTrunk \/ DrawOrphans \/ Finish

Spec == Init /\ [][Next]_vars

----------------------------------------------------------------------------
(* Properties                                                              *)

Numbers == 0..Len(segments)
Glyphs == {"commit", "line", "fork", "tee", "end", "dash", "blank"}

\* Shapes of the state; and, while colours are placed, the loads that are kept
\* up to date are the weights of the segments of each colour and family
\* (assignment.rs subtracts unsigned numbers from them).
TypeOK ==
    /\ pc \in {"arrange", "segments", "colours", "draw", "done"}
    /\ \A e \in edges : e \subseteq Ids /\ Cardinality(e) = 2
    /\ \A s \in Ids : segments[s].weight > 0 /\ segments[s].neighbours \subseteq Ids \ {s}
    /\ colours \in [DOMAIN colours -> Palette \cup {Uncoloured}]
    /\ pc = "colours" =>
        /\ \A c \in Palette :
            colourLoad[c] = MapThenSumSet(Weight, {s \in Ids : colours[s] = c})
        /\ \A f \in Families :
            familyLoad[f] = MapThenSumSet(Weight,
                {s \in Ids : colours[s] # Uncoloured /\ Family[colours[s]] = f})
    /\ \A i \in DOMAIN picture : \A l \in DOMAIN picture[i].cells :
        /\ picture[i].cells[l].glyph \in Glyphs
        /\ picture[i].cells[l].colour \in Numbers

Done == pc = "done"

\* The rows of a connected group, which are one below the other, down to its base.
Part(lines, g) ==
    {i \in DOMAIN lines : lines[i].group = g /\ lines[i].kind \in {"commit", "junction", "trunk"}}
Drawn(g) == SubSeq(picture, Min(Part(picture, g)), Max(Part(picture, g)))

Glyph(p, l) == p.cells[l].glyph

\* Where the connection that begins below lane l of a junction leads.
LedTo(p, l) ==
    Max({0} \cup {k \in 1..(l - 1) : /\ Glyph(p, k) = "fork"
                                     /\ \A j \in (k + 1)..(l - 1) : Glyph(p, j) \in {"dash", "tee"}})

Broken == <<>>

\* What the eye meets when it follows a lane down from a row.
Followed(g) ==
    LET rows == Drawn(g)
        down[at \in (1..(Len(rows) + 1)) \X (0..Len(Lanes(g)))] ==
            LET i == at[1]
                l == at[2]
            IN  IF l = 0 \/ i > Len(rows) THEN <<Broken>>
                ELSE IF rows[i].kind = "trunk"
                THEN IF Glyph(rows[i], l) \in {"tee", "end"} THEN <<>> ELSE <<Broken>>
                ELSE CASE Glyph(rows[i], l) = "commit" -> <<rows[i].label>> \o down[<<i + 1, l>>]
                       [] Glyph(rows[i], l) \in {"line", "fork"} -> down[<<i + 1, l>>]
                       [] Glyph(rows[i], l) \in {"tee", "end"} ->
                              down[<<i + 1, LedTo(rows[i], l)>>]
                       [] OTHER -> <<Broken>>
    IN  down

\* A lane as it should be read: points from the head down, then rewritten commits.
Shown(lane) == [i \in DOMAIN lane.points |-> <<FALSE, lane.points[i]>>]
               \o [i \in DOMAIN lane.rewritten |-> <<TRUE, lane.rewritten[i]>>]

\* Whoever follows a lane from its topmost commit through the junctions meets
\* exactly the commits of that lane and then its base; nothing hangs in the air;
\* and no two rows have the same path below them (README.md, "Visible main or
\* stack ancestry"; docs/colour-assignment.md: shared paths are rendered once).
DrawingTracesLanes ==
    Done => \A g \in DOMAIN groups : IsConnected(g) =>
        LET rows == Drawn(g)
            followed == Followed(g)
            commits(l) == {i \in DOMAIN rows : rows[i].kind = "commit" /\ Glyph(rows[i], l) = "commit"}
            lowest == {c \in (DOMAIN rows) \X (DOMAIN Lanes(g)) : c[1] \in commits(c[2])}
        IN  /\ \A l \in DOMAIN Lanes(g) :
                   commits(l) # {} /\ followed[<<Min(commits(l)), l>>] = Shown(Lanes(g)[l])
            /\ \A i \in DOMAIN rows : \A l \in DOMAIN Lanes(g) :
                   Glyph(rows[i], l) \in {"line", "fork", "tee", "end"} =>
                       i > 1 /\ Glyph(rows[i - 1], l) \in {"commit", "line", "fork"}
            /\ \A a, b \in lowest : a # b => followed[a] # followed[b]

Marked == {i \in DOMAIN picture : picture[i].kind = "commit"}
MarkedLane(i) == CHOOSE l \in DOMAIN picture[i].cells : Glyph(picture[i], l) = "commit"
MarkedColour(i) == picture[i].cells[MarkedLane(i)].colour

\* The lanes of a row that are active, not merely crossed.
Solid(i) == {l \in DOMAIN picture[i].cells : Glyph(picture[i], l) \notin {"blank", "dash"}}

Linked(m, n) == m = n \/ n \in segments[m].neighbours

NamesOf(i) == IF picture[i].label[1] THEN {} ELSE picture[i].label[2].names

\* The commit of a row is main's own: below a ref of main that is not merged.
OfMain(i) == ~picture[i].label[1] /\ (picture[i].label[2].mainHistory
                                       \/ References(picture[i].label[2].oid) # {})

\* What the assignment weighs and keeps apart is what is drawn: the weight of a
\* segment is the number of the rows drawn in its colour and the widths of the
\* names of the branches on them, all of which a row shows in that colour unless
\* its commit is main's own, which is shown by main's refs instead; and any two
\* segments that are beside each other in a row, follow each other, or meet in a
\* junction are neighbours (docs/colour-assignment.md, "Each segment is weighted by
\* its logical coloured footprint", "Visual neighbours").
SegmentsAreWhatIsSeen ==
    Done =>
        /\ \A s \in Ids :
            Weight(s) = MapThenSumSet(
                LAMBDA i : 1 + MapThenSumSet(LAMBDA n : Width[n], NamesOf(i)),
                {i \in Marked : MarkedColour(i) = s})
        /\ \A i \in Marked :
            LET text == picture[i].text
            IN  IF OfMain(i) THEN text.ofMain /\ text.names = References(picture[i].label[2].oid)
                             ELSE ~text.ofMain /\ text.names = NamesOf(i)
        /\ \A i \in DOMAIN picture : picture[i].kind \in {"commit", "junction"} =>
            \A k, l \in Solid(i) :
                k < l /\ (\A j \in Solid(i) : j <= k \/ j >= l) =>
                    Linked(picture[i].cells[k].colour, picture[i].cells[l].colour)
        /\ \A i, j \in Marked :
            i < j /\ (\A k \in Marked : k <= i \/ k >= j) => Linked(MarkedColour(i), MarkedColour(j))
        /\ \A i \in Marked : picture[i - 1].kind = "junction" =>
            \A l \in DOMAIN picture[i].cells :
                Glyph(picture[i - 1], l) \in {"fork", "tee", "end"} =>
                    Linked(picture[i - 1].cells[l].colour, MarkedColour(i))

\* Neighbours have different colours, unless one of them has seven neighbours or
\* more, as many as there are colours (docs/colour-assignment.md: identical
\* colours have the highest penalty).
NeighboursDiffer ==
    pc # "segments" =>
        \A s \in Ids : \A t \in segments[s].neighbours :
            colours[s] = colours[t] /\ colours[s] # Uncoloured =>
                \E u \in {s, t} : Cardinality(segments[u].neighbours) >= Len(Family)

\* A repair, which looks at one segment, changes its colour only if that makes the
\* objective of all segments better, and the exchange of shades leaves all but the
\* preferences as they are (docs/colour-assignment.md: "Each local repair is
\* non-increasing in the same objective", "This permutation preserves colour
\* equality, family membership, nearby reuse and both exposure-concentration
\* measures").
RepairsNeverWorsen ==
    [][pc = "colours" /\ placed >= Len(segments) /\ colours' # colours =>
          LET before == Objective
              after == Objective'
          IN  IF pc' = "colours" THEN LexLess(after, before)
                                 ELSE \A i \in 1..6 : before[i] = after[i]]_vars

\* Main is drawn once and in one piece: nothing of it above its tip but the row
\* that leads to it, no row without it below; what is left out above a base adds
\* up to its distance; and a gap has the name of the last ref drawn above it
\* (README.md of the repository, "Mainline references").
MainIsWhole ==
    Done =>
        LET tips == {i \in DOMAIN picture :
                        \/ picture[i].kind = "tip"
                        \/ picture[i].kind = "trunk" /\ groups[picture[i].group].distance = 0}
            tip == CHOOSE i \in tips : TRUE
            bases == {i \in DOMAIN picture : picture[i].kind = "trunk"}
            gaps == {i \in DOMAIN picture : picture[i].kind = "gap"}
            named == {i \in {tip} \cup bases : picture[i].label # {}}
        IN  /\ Cardinality(tips) = 1
            /\ \A i \in DOMAIN picture :
                IF i > tip THEN picture[i].spine # "blank"
                ELSE i = tip \/ picture[i].spine = (IF i = tip - 1 THEN "dotted" ELSE "blank")
            /\ picture[Len(picture)].kind = "past"
            /\ \A i \in bases :
                groups[picture[i].group].distance =
                    MapThenSumSet(LAMBDA k : picture[k].label.count, {k \in gaps : k < i})
            /\ \A k \in gaps :
                picture[k].label.name \in picture[Max({i \in named : i < k})].label
=============================================================================
