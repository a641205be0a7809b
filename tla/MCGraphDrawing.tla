--------------------------- MODULE MCGraphDrawing ---------------------------
(***************************************************************************)
(* What is drawn: every shape of up to four lanes over five commits; groups*)
(* along main with refs, ties and orphans; and wide groups with more       *)
(* segments than colours.  Commits have the number of their branch.        *)
(***************************************************************************)
EXTENDS GraphDrawing

CONSTANT Narrow, Wide      \* the display widths of names

\* Commit 3 has two branches.
Point(n) == [oid |-> n, mainHistory |-> FALSE, names |-> IF n = 3 THEN {3, 103} ELSE {n}]

\* Even names are narrow, those above 100 wide.
MCWidth == [n \in 1..130 |-> IF n > 100 THEN Wide ELSE Narrow + (n % 2)]

Moved == [oid |-> 90, replacement |-> 4]

\* A lane over some commits, the greatest of which is its head.
LaneOver(commits, moved, time) ==
    LET up == Sorted(commits, LAMBDA a, b : a > b)
    IN  [points |-> [i \in DOMAIN up |-> Point(up[i])],
         rewritten |-> IF moved THEN <<Moved>> ELSE <<>>, time |-> time]

Drawing(groupList, how, mainline) == [groups |-> groupList, order |-> how, main |-> mainline]

Oids(lane) == {lane.points[i].oid : i \in DOMAIN lane.points}

\* The lanes when main's ref of some name is on one of their commits: what is below
\* it on a lane is main's own history; a fork of it that other lanes have too has no
\* branch, and the ref itself is in place of one.
Diverged(lanes, ref, name) ==
    LET holds(l) == ref \in Oids(lanes[l])
        own == UNION {{c \in Oids(lanes[l]) : c <= ref} : l \in {k \in DOMAIN lanes : holds(k)}}
        others == UNION {Oids(lanes[l]) : l \in {k \in DOMAIN lanes : ~holds(k)}}
        marked(p) == IF p.oid \notin own THEN p
                     ELSE [p EXCEPT !.mainHistory = TRUE,
                                    !.names = IF p.oid = ref THEN {name}
                                              ELSE IF p.oid \in others THEN {} ELSE @]
    IN  [l \in DOMAIN lanes |->
            [lanes[l] EXCEPT !.points = [i \in DOMAIN @ |-> marked(@[i])]]]

\* The lanes with some heads, each over commits below it that are not heads.
PathsOver(heads, commits) ==
    {below \in [heads -> SUBSET (commits \ heads)] : \A h \in heads : \A c \in below[h] : c < h}

\* The same lanes in every order, of which some have a rewritten commit.
LanesOf(below, moved) ==
    LET heads == Sorted(DOMAIN below, LAMBDA a, b : a < b)
    IN  {[i \in DOMAIN heads |->
             LaneOver(below[heads[i]] \cup {heads[i]}, heads[i] \in moved, times[i])] :
            times \in Bijection(DOMAIN heads, DOMAIN heads)}

OneGroup(lanes) == <<[base |-> 52, distance |-> 1, lanes |-> lanes]>>
LocalMain == [oid |-> 51, name |-> 8, refs |-> <<>>]

\* Main has diverged from its upstream, and is on commit 4 of the lanes.
DivergedMain == [oid |-> 51, name |-> 8, refs |-> <<[oid |-> 4, name |-> 8], [oid |-> 51, name |-> 9]>>]

Stack(lanes, how) ==
    IF \E l \in DOMAIN lanes : 4 \in Oids(lanes[l])
    THEN Drawing(OneGroup(Diverged(lanes, 4, 8)), how, DivergedMain)
    ELSE Drawing(OneGroup(lanes), how, LocalMain)

HeadSets(commits, most) == {h \in (SUBSET commits) \ {{}} : Cardinality(h) <= most}

\* One group of up to four lanes; and of up to three with rewritten commits.
Stacks ==
    UNION {UNION {{Stack(lanes, "Newest") : lanes \in LanesOf(below, {})} :
                     below \in PathsOver(heads, 1..5)} : heads \in HeadSets(1..5, 4)}
    \cup
    UNION {UNION {UNION {{Stack(lanes, "Oldest") : lanes \in LanesOf(below, moved)} :
                     moved \in (SUBSET heads) \ {{}}} :
                     below \in PathsOver(heads, 1..4)} : heads \in HeadSets(1..4, 3)}

----------------------------------------------------------------------------

\* The lanes of a group whose commits are numbered from n: none, one, two from
\* the base, two that share a commit.
LanesFrom(n) ==
    { <<>>,
      <<LaneOver({n}, FALSE, n % 3)>>,
      <<LaneOver({n}, FALSE, 1), LaneOver({n + 1}, FALSE, 2)>>,
      <<LaneOver({n, n + 1}, FALSE, 1), LaneOver({n, n + 2}, TRUE, 1)>> }

\* A group on main's tip, two along main, at one distance or two, and orphans.
GroupLists ==
    LET some(base, distance, n) ==
            {<<>>} \cup {<<[base |-> base, distance |-> distance, lanes |-> lanes]>> :
                            lanes \in LanesFrom(n)}
        tips == some(1, 0, 11) \ {<<[base |-> 1, distance |-> 0, lanes |-> <<>>]>>}
        orphans == {<<>>, <<[base |-> NoBase, distance |-> Orphaned,
                             lanes |-> <<LaneOver({41, 42}, FALSE, 1), LaneOver({43}, FALSE, 2)>>]>>}
    IN  {d \o c \o b \o a : a \in tips, b \in some(2, 2, 21),
                            c \in some(3, 2, 31) \cup some(3, 5, 31), d \in orphans}

\* Main alone, its upstream ahead (then it is the main that is drawn), behind,
\* beside it on one commit, and diverged: main on a lane, or on an orphan.
MainRefs ==
    {[oid |-> 1, name |-> 1, refs |-> refs] :
        refs \in { <<>>,
                   <<[oid |-> 2, name |-> 1], [oid |-> 1, name |-> 7]>>,
                   <<[oid |-> 1, name |-> 1], [oid |-> 3, name |-> 7]>>,
                   <<[oid |-> 1, name |-> 1], [oid |-> 1, name |-> 7]>>,
                   <<[oid |-> 22, name |-> 1], [oid |-> 1, name |-> 7]>>,
                   <<[oid |-> 43, name |-> 1], [oid |-> 1, name |-> 7]>> }}

OnLanes(list) == UNION {UNION {Oids(lane) : lane \in ToSet(list[i].lanes)} : i \in DOMAIN list}

\* A group stands for a ref that is not the main that is drawn, or has lanes; a ref
\* that is not merged is on one of them.
HasEndpoints(list, mainline) ==
    LET bases == {list[i].base : i \in DOMAIN list}
        refs == {mainline.refs[i].oid : i \in DOMAIN mainline.refs}
    IN  /\ refs \cap {2, 3} \subseteq bases
        /\ refs \cap {22, 43} \subseteq OnLanes(list)
        /\ \A i \in DOMAIN list : list[i].lanes = <<>> => list[i].base \in refs

MarkedGroups(list, mainline) ==
    LET refs == {mainline.refs[i].oid : i \in DOMAIN mainline.refs}
        lanes(l) == IF refs \cap {22, 43} = {} THEN l
                    ELSE Diverged(l, CHOOSE r \in refs \cap {22, 43} : TRUE, 1)
    IN  [i \in DOMAIN list |-> [list[i] EXCEPT !.lanes = lanes(@)]]

AlongMain ==
    {Drawing(MarkedGroups(list, mainline), how, mainline) :
        <<list, how, mainline>> \in {d \in GroupLists \X {"Newest", "Oldest"} \X MainRefs :
                                        HasEndpoints(d[1], d[3])}}

----------------------------------------------------------------------------

\* Eight lanes: all on one shared commit, each on the shared commits of the one
\* before, or all on the base; any of their names may be wide.
Wide8 ==
    LET head(i, wide) == IF i \in wide THEN 110 + i ELSE 10 + i
        lanes(below(_), wide) ==
            [i \in 1..8 |-> [LaneOver(below(i) \cup {10 + i}, FALSE, i)
                             EXCEPT !.points[1].names = {head(i, wide)}]]
    IN  UNION {{Drawing(OneGroup(lanes(LAMBDA i : {1}, wide)), "Oldest", LocalMain),
                Drawing(OneGroup(lanes(LAMBDA i : 1..i, wide)), "Oldest", LocalMain),
                Drawing(OneGroup(lanes(LAMBDA i : {}, wide)), "Newest", LocalMain)} :
                   wide \in SUBSET {1, 4, 5, 8}}

MCRepositories == Stacks \cup AlongMain \cup Wide8
=============================================================================
