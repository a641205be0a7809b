---------------------------- MODULE LaneAnalysis ----------------------------
(***************************************************************************)
(* The analysis that finds the lanes of a repository: the selection of     *)
(* main, points and heads (lanes/selection.rs), by plain Git or by         *)
(* git-branchless, a lane for every head (lanes/construction.rs) and the   *)
(* groups of lanes along main (lanes/grouping.rs), on either backend.      *)
(*                                                                         *)
(* The repository is captured before the analysis and does not change      *)
(* during it.  A branch is the commit it points to; two branches on one    *)
(* commit are one point.  Times, names and metadata are left out, and with *)
(* them the order of lanes and groups.                                     *)
(***************************************************************************)
EXTENDS AncestryBackend, TopologyCodec

CONSTANTS
    CommitCount,    \* bound: commits of a repository
    ParentLimit,    \* bound: parents of a commit
    TopicLimit      \* bound: commits with a branch other than main

ASSUME CommitCountAssumption == CommitCount \in Nat \ {0}

VARIABLES
    refs,           \* local main, its upstream if it has one, the other branches
    plain,          \* whether plain Git selects, not git-branchless
    pc,             \* the step the analysis is at
    main,           \* main_oid, the commit lanes are measured against
    points,         \* the keys of points_by_oid
    marked,         \* the points with main_history
    ends,           \* the commits of main_refs that main does not reach
    heads,          \* head_oids
    rewritten,      \* the commits git-branchless reports as moved to a point
    left,           \* the heads that have no lane yet
    lanes,          \* BuiltLanes
    groups          \* the lane groups, the lanes of each found by its base

laneVars == <<refs, main, points, marked, ends, heads, rewritten, left, lanes, groups>>
vars == <<backendVars, plain, pc, laneVars>>

Commits == DOMAIN history
MaybeCommit == Commits \cup {NoCommit}

\* repository.main_refs: both, or none without an upstream.
MainRefs == IF refs.upstream = NoCommit THEN {} ELSE {refs.local, refs.upstream}

\* Every repository within the bounds all of whose commits some ref reaches.
Init ==
    /\ history \in Histories(CommitCount, ParentLimit)
    /\ native \in BOOLEAN
    /\ shallow \in BOOLEAN /\ (shallow => native)     \* nobody else asks
    /\ selection = NoSelection
    /\ summaries = NoSummaries
    /\ refs \in [local : Commits, upstream : MaybeCommit,
                 topics : {t \in SUBSET Commits : Cardinality(t) <= TopicLimit}]
    /\ Reachable(history, {refs.local} \cup MainRefs \cup refs.topics) = Commits
    /\ plain \in BOOLEAN
    /\ pc = "main"
    /\ main = NoCommit
    /\ points = {} /\ marked = {} /\ ends = {}
    /\ heads = {} /\ rewritten = {} /\ left = {} /\ lanes = {} /\ groups = {}

----------------------------------------------------------------------------
(* lanes/selection.rs                                                      *)

\* The default revset does not fail with git-branchless: when a query fails
\* or selects nothing, plain Git selects instead.
FallBack ==
    /\ pc = "main"
    /\ ~plain
    /\ plain' = TRUE
    /\ UNCHANGED <<backendVars, pc, laneVars>>

\* mainline_repository: local main unless its upstream is ahead or diverged.
ResolveMain ==
    /\ pc = "main"
    /\ IF refs.upstream \in {NoCommit, refs.local}
       THEN main' = refs.local
       ELSE \E base \in MergeBase(refs.local, refs.upstream) :
                main' = IF base = refs.upstream THEN refs.local ELSE refs.upstream
    /\ pc' = "filter"
    /\ UNCHANGED <<backendVars, plain, refs, points, marked, ends, heads,
                   rewritten, left, lanes, groups>>

\* plain_git_branch_names: the branches main does not contain, main excepted.
FilterBranches ==
    /\ pc = "filter"
    /\ plain
    /\ LET tips == refs.topics \cup {refs.local}
       IN  /\ UnmergedTips(main, tips)
           /\ points' = refs.topics \cap Unmerged(main, tips)
    /\ pc' = IF MainRefs = {} THEN "heads" ELSE "retain"
    /\ UNCHANGED <<plain, refs, main, marked, ends, heads, rewritten, left,
                   lanes, groups>>

\* query_branchless_lane_selection: the branches of the revset that are not
\* public, that is, not contained in local main.
SelectBranches ==
    /\ pc = "filter"
    /\ ~plain
    /\ points' = refs.topics \ Ancestry(history, refs.local)
    /\ pc' = IF MainRefs = {} THEN "heads" ELSE "retain"
    /\ UNCHANGED <<backendVars, plain, refs, main, marked, ends, heads,
                   rewritten, left, lanes, groups>>

\* include_mainline_points: which points and main refs main does not reach.
RetainPoints ==
    /\ pc = "retain"
    /\ LET unmerged == Unmerged(main, points \cup MainRefs)
       IN  /\ UnmergedTips(main, points \cup MainRefs)
           /\ points' = points \cap unmerged
           /\ ends' = MainRefs \cap unmerged
    /\ pc' = "forks"
    /\ UNCHANGED <<plain, refs, main, marked, heads, rewritten, left, lanes,
                   groups>>

\* Mutant of AddForks: the main ref itself does not become a point.
AddForksOnly ==
    /\ pc = "forks"
    /\ \E base \in [ends \X points -> MaybeCommit] :
        /\ \A pair \in ends \X points : base[pair] \in MergeBase(pair[1], pair[2])
        /\ LET bases == {base[pair] : pair \in ends \X points} \ {NoCommit}
               forks == Unmerged(main, bases)
           IN  /\ UnmergedTips(main, bases)
               /\ points' = points \cup forks
               /\ marked' = forks
    /\ pc' = "heads"
    /\ UNCHANGED <<plain, refs, main, ends, heads, rewritten, left, lanes, groups>>

\* include_mainline_points: where the points leave an unmerged main ref, and
\* the ref itself, become points marked as main history.
AddForks ==
    /\ pc = "forks"
    /\ \E base \in [ends \X points -> MaybeCommit] :
        /\ \A pair \in ends \X points : base[pair] \in MergeBase(pair[1], pair[2])
        /\ LET bases == {base[pair] : pair \in ends \X points} \ {NoCommit}
               forks == Unmerged(main, bases)
           IN  /\ UnmergedTips(main, bases)
               /\ points' = points \cup forks \cup ends
               /\ marked' = forks \cup ends
    /\ pc' = "heads"
    /\ UNCHANGED <<plain, refs, main, ends, heads, rewritten, left, lanes, groups>>

\* plain_git_stack_heads, or the heads git-branchless has given when there
\* are no main refs to add; nothing for an empty selection.
FindHeads ==
    /\ pc = "heads"
    /\ heads' = CASE points = {}                -> {}
                  [] ~plain /\ MainRefs = {}    -> Maximal(history, points)
                  [] OTHER                      -> Independent(main, points)
    /\ left' = heads'
    /\ pc' = IF points = {} THEN "group" ELSE "prepare"
    /\ UNCHANGED <<backendVars, plain, refs, main, points, marked, ends,
                   rewritten, lanes, groups>>

----------------------------------------------------------------------------
(* lanes/construction.rs                                                   *)

\* Mutant of Prepare: summaries are cut at heads only.
PrepareHeads ==
    /\ pc = "prepare"
    /\ plain
    /\ PrepareAncestry(main, heads)
    /\ pc' = "lanes"
    /\ UNCHANGED <<plain, laneVars>>

\* build_lanes: one preparation for all heads, with all points.
Prepare ==
    /\ pc = "prepare"
    /\ plain
    /\ PrepareAncestry(main, points)
    /\ pc' = "lanes"
    /\ UNCHANGED <<plain, laneVars>>

\* rewritten_commits_for_path, asked here for all lanes at once: any commits
\* that are not points may have one current version that is.
DetectRewrites ==
    /\ pc = "prepare"
    /\ ~plain
    /\ \E some \in SUBSET (Reachable(history, heads)
                            \ (Ancestry(history, main) \cup points)) :
            rewritten' = some
    /\ pc' = "lanes"
    /\ UNCHANGED <<backendVars, plain, refs, main, points, marked, ends,
                   heads, left, lanes, groups>>

\* The places of a set, in ascending order.
Ascending(places) ==
    LET order[some \in SUBSET places] ==
            IF some = {} THEN <<>>
            ELSE Append(order[some \ {Max(some)}], Max(some))
    IN  order[places]

\* The entries of a sequence that stand at some places, in their order.
Entries(seq, places) ==
    LET order == Ascending(places)
    IN  [k \in DOMAIN order |-> seq[order[k]]]

\* branch_points_for_path: the points on a path, head first, each with the
\* commits it adds to the point before; the head alone if there are none.
PointsOnPath(path, head) ==
    LET at    == {i \in DOMAIN path : path[i] \in points}
        below == [i \in at |-> {0} \cup {j \in at : j < i}]
        order == Reverse(Ascending(at))
    IN  IF at # {}
        THEN [k \in DOMAIN order |->
                [id |-> path[order[k]],
                 count |-> order[k] - CHOOSE j \in below[order[k]] :
                                          \A i \in below[order[k]] : i <= j]]
        ELSE IF head \in points
        THEN <<[id |-> head, count |-> IF path = <<>> THEN 1 ELSE Len(path)]>>
        ELSE <<>>

AddLane(head, base, links) ==
    lanes' = IF links = <<>> THEN lanes
             ELSE lanes \cup {[head |-> head, base |-> base, links |-> links]}

\* build_lane: from the summary of the head if there is one, else from the
\* path between its merge base and itself.
BuildLane ==
    /\ pc = "lanes"
    /\ \E head \in left :
        /\ \A other \in left : head <= other
        /\ left' = left \ {head}
        /\ \/ /\ plain
              /\ HasSummary(main, head)
              /\ LET links == summaries[head].links
                 IN  AddLane(head, summaries[head].base,
                             Entries(links, {i \in DOMAIN links : links[i].id \in points}))
           \/ /\ ~(plain /\ HasSummary(main, head))
              /\ \E base \in MergeBase(main, head) :
                    \E path \in AncestryPaths(base, head) :
                        AddLane(head, base,
                                PointsOnPath(Entries(path, {i \in DOMAIN path : path[i] \notin rewritten}),
                                             head))
    /\ pc' = IF left' = {} THEN "group" ELSE "lanes"
    /\ UNCHANGED <<backendVars, plain, refs, main, points, marked, ends,
                   heads, rewritten, groups>>

----------------------------------------------------------------------------
(* lanes/grouping.rs                                                       *)

\* build_lane_groups: a group for every base, with its distance from main.
BuildGroups ==
    /\ pc = "group"
    /\ LET bases == {lane.base : lane \in lanes}
       IN  \E distance \in Distances(main, bases \ {NoCommit}) :
               groups' = {[base |-> b, distance |-> IF b = NoCommit
                                                    THEN NoDistance
                                                    ELSE distance[b]] : b \in bases}
    /\ pc' = "endpoints"
    /\ UNCHANGED <<backendVars, plain, refs, main, points, marked, ends,
                   heads, rewritten, left, lanes>>

\* include_mainline_groups: a group without lanes for a main ref that main
\* reaches and no lane starts from.
AddEndpoints ==
    /\ pc = "endpoints"
    /\ LET ids == MainRefs \ {main}
       IN  \E distance \in Distances(main, ids) :
               groups' = groups \cup
                   {[base |-> id, distance |-> distance[id]] :
                       id \in {id \in ids : /\ distance[id] # NoDistance
                                            /\ \A g \in groups : g.base # id}}
    /\ pc' = "done"
    /\ UNCHANGED <<backendVars, plain, refs, main, points, marked, ends,
                   heads, rewritten, left, lanes>>

Next ==
    \/ FallBack \/ ResolveMain \/ FilterBranches \/ SelectBranches
    \/ RetainPoints \/ AddForks \/ FindHeads
    \/ Prepare \/ DetectRewrites \/ BuildLane \/ BuildGroups \/ AddEndpoints

Spec == Init /\ [][Next]_vars

----------------------------------------------------------------------------
(* Properties                                                              *)

Links == [id : Commits, count : 1..CommitCount]

\* Every variable has a value the code's types allow.
TypeOK ==
    /\ pc \in {"main", "filter", "retain", "forks", "heads", "prepare", "lanes",
               "group", "endpoints", "done"}
    /\ main \in MaybeCommit
    /\ points \subseteq Commits /\ marked \subseteq points /\ ends \subseteq MainRefs
    /\ heads \subseteq points /\ left \subseteq heads
    /\ rewritten \subseteq Commits \ points
    /\ \A lane \in lanes :
        /\ lane.head \in heads \ left
        /\ lane.base \in MaybeCommit
        /\ \A i \in DOMAIN lane.links : lane.links[i] \in Links
    /\ groups \subseteq [base : MaybeCommit, distance : {NoDistance} \cup 0..CommitCount]
    /\ selection.retained => Cardinality(DOMAIN selection.nodes) <= RetainLimit

\* Every point is on the way to some head and no head on the way to another:
\* the heads found from the parents of a range (gix/graph.rs:90,
\* batch.rs:57), or kept by an earlier query (gix.rs:365), are those of
\* git merge-base --independent for exactly the points of this analysis.
HeadsSpanPoints ==
    pc \notin {"main", "filter", "retain", "forks", "heads"} =>
        /\ \A p \in points : \E h \in heads : p \in Ancestry(history, h)
        /\ \A h, g \in heads : h # g => h \notin Ancestry(history, g)

\* A lane starts at a best common ancestor of its head and main, or nowhere
\* when they share nothing, although the native backend may never have
\* searched for it: a kept range proved it (graph.rs:174) or a summary of
\* that range carried it along (graph.rs:81).
BasesAreBest ==
    \A lane \in lanes : lane.base \in MergeBaseAnswers(history, main, lane.head)

\* A lane has the points that lie between its base and its head, no others,
\* and their counts add up to the commits between the two, those rewritten
\* left out; without merges each count is the distance to the next point.  Summary and walk
\* (construction.rs:267, construction.rs:100) are bound to the same answer.
LanesAreExact ==
    \A lane \in lanes :
        LET between(b, c) == Between(history, b, c) \ rewritten
            path    == between(lane.base, lane.head)
            links   == lane.links
            before  == [i \in DOMAIN links |->
                          IF i = Len(links) THEN lane.base ELSE links[i + 1].id]
        IN  /\ {links[i].id : i \in DOMAIN links} = points \cap path
            /\ links[1].id = lane.head
            /\ FoldSeq(LAMBDA link, sum : sum + link.count, 0, links) = Cardinality(path)
            /\ (\A c \in Between(history, lane.base, lane.head) :
                    Cardinality(history[c]) <= 1) =>
                \A i \in DOMAIN links :
                    links[i].count = Cardinality(between(before[i], links[i].id))

\* The distance shown at a base is the number of commits of main that descend
\* from it, zero for main, none for what main does not reach: corridor, mask
\* and folded boundary (gix/graph.rs:124, batch.rs:93) agree on it.
DistancesAreExact ==
    \A g \in groups :
        g.distance = CASE g.base = main -> 0
                       [] g.base \notin Ancestry(history, main) -> NoDistance
                       [] OTHER -> Cardinality(Between(history, g.base, main))

\* When a branch shares commits that main lacks with a main ref, the place
\* where it leaves them is a point of its own, marked as main history, so
\* that the lane does not count them as the branch's (selection.rs:315).  Of
\* several such places Git names one; nothing is promised when that may be
\* one that main reaches.
ForksAreMarked ==
    pc \notin {"main", "filter", "retain", "forks"} =>
        \A r \in ends, t \in points :
            LET best == BestBases(history, r, t)
            IN  best \cap Ancestry(history, main) = {} => best = {} \/ best \cap marked # {}

Shown(c) == \E lane \in lanes : \E i \in DOMAIN lane.links : lane.links[i].id = c

\* The commits of the points that main does not reach contain a merge.
MergesAhead ==
    \E c \in Reachable(history, points) \ Ancestry(history, main) :
        Cardinality(history[c]) > 1

\* The branches that main does not contain; git-branchless also leaves out
\* those that local main contains.
Selectable ==
    refs.topics \ Reachable(history, IF plain THEN {main} ELSE {main, refs.local})

\* A branch that main does not contain is on some lane, whatever selection,
\* shared summary and path walk did in between, as long as no merge lies
\* between main and the heads (selection.rs:377, construction.rs:267).
ShownWithoutMerges ==
    pc = "done" /\ ~MergesAhead =>
        \A t \in Selectable : Shown(t)

\* "Different reference positions remain visible" (README.md:50): a main ref
\* that main reaches is the base of a group, one that it does not reach is on
\* a lane, even without any branch, again as long as no merge interferes.
EndpointsVisible ==
    pc = "done" =>
        \A r \in MainRefs \ {main} :
            IF r \in Ancestry(history, main)
            THEN \E g \in groups : g.base = r
            ELSE Shown(r) \/ MergesAhead

\* A lane as it goes into a snapshot.
Stored(lane) ==
    [head |-> lane.head, base |-> lane.base,
     points |-> [i \in DOMAIN lane.links |->
                    [id |-> lane.links[i].id, count |-> lane.links[i].count,
                     main_history |-> lane.links[i].id \in marked]]]

\* A snapshot gives the lanes back as they were, in every order, although
\* points are shared without regard to main_history (topology.rs:48), and it
\* stores a point once for every way down from it that some lane takes, not
\* once for every lane.
SnapshotDecodes ==
    pc = "done" =>
        \A order \in SetToSeqs({Stored(lane) : lane \in lanes}) :
            LET topology == Encode(order)
            IN  /\ Decode(topology) = order
                /\ Len(topology.points) =
                       Cardinality(UNION {{SubSeq(lane.points, i, Len(lane.points)) :
                                              i \in DOMAIN lane.points} : lane \in Range(order)})

\* "It then selects local branches not already contained in main, identifies
\* stack heads by ancestry, and renders them" (docs/commands.md:48): every
\* branch that main does not contain is on some lane.
SelectedBranchesShown ==
    pc = "done" /\ plain => \A t \in Selectable : Shown(t)

=============================================================================
