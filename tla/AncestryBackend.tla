-------------------------- MODULE AncestryBackend --------------------------
(***************************************************************************)
(* The ancestry queries of the two backends: GixBackend                    *)
(* (src/src/backend/gix.rs, gix/graph.rs), which walks the commits itself  *)
(* and keeps the result of its last tip selection, and the Git command     *)
(* line (src/src/backend/batch.rs, shell.rs), which keeps nothing.         *)
(*                                                                         *)
(* A query that can have several right answers (a merge base, a boundary   *)
(* found from merge bases, the order of a walk by commit time) is the set  *)
(* of its possible answers.  The memo of parents (gix/graph.rs:34) is left *)
(* out: a commit's parents never change.  A shallow boundary is part of    *)
(* the history: both backends see the commits at the boundary as roots,    *)
(* and the native one never takes the corridor (shallow).                  *)
(***************************************************************************)
EXTENDS RangeGraph

CONSTANTS
    RetainLimit,    \* PARENT_CACHE_LIMIT: commits of a range that are kept
    ArgLimit        \* the tips passed to merge-base --independent at once

ASSUME RetainLimitAssumption == RetainLimit \in Nat
ASSUME ArgLimitAssumption == ArgLimit \in Nat

VARIABLES
    history,        \* the parents of every commit
    native,         \* whether GixBackend answers
    shallow,        \* whether it finds the repository to be shallow
    selection,      \* GixBackend::selection, the last TipAnalysis
    summaries       \* GixBackend::summaries, the prepared PathState of commits

backendVars == <<history, native, shallow, selection, summaries>>

NoDistance == -1

\* No selection: no commit is NoCommit, so that no query finds it.
NoSelection == [main |-> NoCommit, unmerged |-> {}, heads |-> {},
                bases |-> <<>>, retained |-> FALSE, nodes |-> <<>>]

\* No summaries: no commit has one.
NoSummaries == <<>>

----------------------------------------------------------------------------
(* GixBackend                                                              *)

\* Mutant of Analysis: a range that exceeds the limit is cut short
\* instead of given up.
AnalysisOfPrefix(main, tips) ==
    LET whole    == Walk(history, tips, {main})
        nodes    == [c \in {c \in DOMAIN whole :
                        Cardinality({d \in DOMAIN whole : d > c}) < RetainLimit} |-> whole[c]]
        unmerged == tips \cap DOMAIN whole
        heads    == unmerged \ UNION {whole[c] : c \in DOMAIN whole}
        proven   == ProvenBases(nodes)
        bases    == {h \in heads \cap DOMAIN nodes : proven[h] # Unproven}
    IN  [main |-> main, unmerged |-> unmerged, heads |-> heads,
         bases |-> [h \in bases |-> proven[h]], retained |-> TRUE, nodes |-> nodes]

\* One walk from the tips that main does not reach.  A tip that is a parent
\* within the walk is not a head; a range that exceeds the limit proves
\* nothing and is not kept.
Analysis(main, tips) ==
    LET nodes    == Walk(history, tips, {main})
        retained == Cardinality(DOMAIN nodes) <= RetainLimit
        unmerged == tips \cap DOMAIN nodes
        heads    == unmerged \ UNION {nodes[c] : c \in DOMAIN nodes}
        proven   == ProvenBases(nodes)
        bases    == IF retained THEN {h \in heads : proven[h] # Unproven} ELSE {}
    IN  [main |-> main, unmerged |-> unmerged, heads |-> heads,
         bases |-> [h \in bases |-> proven[h]],
         retained |-> retained, nodes |-> IF retained THEN nodes ELSE <<>>]

\* Mutant of CommonBoundaries: one base is hidden instead of a common one.
AnyBase(bases) ==
    IF bases = {} THEN {NoCommit} ELSE bases

\* A boundary after one more base; without any it stays so.
Folded(boundary, base) ==
    IF boundary = NoCommit THEN {NoCommit}
    ELSE MergeBaseAnswers(history, boundary, base)

\* Every boundary the folding over the bases can end with, whatever their
\* order and whichever merge base is given each time.
CommonBoundaries(bases) ==
    LET folded[some \in SUBSET bases] ==
            IF some = {} THEN {NoCommit}
            ELSE IF Cardinality(some) = 1 THEN some
            ELSE UNION {UNION {Folded(previous, last) : previous \in folded[some \ {last}]} :
                            last \in some}
    IN  folded[bases]

\* The distances counted over main's history outside a boundary.
CountedFrom(main, bases, boundary) ==
    LET nodes  == Walk(history, {main}, {boundary} \ {NoCommit})
        counts == DescendantCounts(nodes, bases)
    IN  [b \in bases |-> CASE b = main      -> 0
                           [] b # main /\ counts[b] > 0 -> counts[b]
                           [] OTHER         -> NoDistance]

DagDistances(main, bases) ==
    {CountedFrom(main, bases, boundary) : boundary \in CommonBoundaries(bases)}

\* The commits from main along single parents, a root or a merge at the end.
Corridor(main) ==
    LET line[c \in DOMAIN history] ==
            IF Cardinality(history[c]) = 1
            THEN <<c>> \o line[CHOOSE p \in history[c] : TRUE]
            ELSE <<c>>
    IN  line[main]

\* main_distances of GixBackend: steps along the corridor while they suffice,
\* unless the repository is shallow.
NativeDistances(main, bases) ==
    LET line == Corridor(main)
        step == [b \in bases |-> {i \in DOMAIN line : line[i] = b}]
        near == (\A b \in bases : step[b] # {}) \/ history[Last(line)] = {}
    IN  IF bases = {} \/ (~shallow /\ near)
        THEN {[b \in bases |-> IF step[b] = {} THEN NoDistance
                               ELSE CHOOSE d \in 0..Len(line) : d + 1 \in step[b]]}
        ELSE DagDistances(main, bases)

----------------------------------------------------------------------------
(* The Git command line                                                    *)

ShellUnmerged(main, tips) ==
    IF tips \subseteq {main} THEN {} ELSE tips \cap DOMAIN Walk(history, tips, {main})

\* Few tips are reduced by Git, many from the parents of one range.
ShellIndependent(main, tips) ==
    IF Cardinality(tips) <= ArgLimit
    THEN Maximal(history, tips)
    ELSE LET nodes == Walk(history, tips, {main})
         IN  tips \ UNION {nodes[c] : c \in DOMAIN nodes}

\* The folding leaves main out; main itself is zero commits away.
ShellDistances(main, bases) ==
    IF bases \subseteq {main}
    THEN {[b \in bases |-> 0]}
    ELSE {CountedFrom(main, bases, boundary) : boundary \in CommonBoundaries(bases \ {main})}

----------------------------------------------------------------------------
(* The queries, answered by the backend in use                             *)

Unmerged(main, tips) ==
    IF native THEN Analysis(main, tips).unmerged ELSE ShellUnmerged(main, tips)

\* unmerged_tips keeps its analysis and forgets the summaries of the one before.
UnmergedTips(main, tips) ==
    /\ IF native
       THEN /\ selection' = Analysis(main, tips)
            /\ summaries' = NoSummaries
       ELSE UNCHANGED <<selection, summaries>>
    /\ UNCHANGED <<history, native, shallow>>

\* Mutant of Independent: the kept heads answer for any tips.
IndependentOfAnyTips(main, tips) ==
    IF ~native THEN ShellIndependent(main, tips)
    ELSE IF selection.main = main THEN selection.heads
    ELSE Analysis(main, tips).heads

\* independent_heads uses the selection if it is about the same tips.
Independent(main, tips) ==
    IF ~native THEN ShellIndependent(main, tips)
    ELSE IF selection.main = main /\ selection.unmerged = tips THEN selection.heads
    ELSE Analysis(main, tips).heads

\* merge_base answers from the selection what its range has proved.
\* Mutant of MergeBase: the kept bases answer for any main.
MergeBaseForAnyMain(main, head) ==
    IF native /\ head \in DOMAIN selection.bases
    THEN {selection.bases[head]}
    ELSE MergeBaseAnswers(history, main, head)

MergeBase(main, head) ==
    IF native /\ selection.main = main /\ head \in DOMAIN selection.bases
    THEN {selection.bases[head]}
    ELSE MergeBaseAnswers(history, main, head)

Distances(main, bases) ==
    IF native THEN NativeDistances(main, bases) ELSE ShellDistances(main, bases)

\* prepare_ancestry summarises the kept range if it belongs to main and has
\* no merges; otherwise there are no summaries.
PrepareAncestry(main, points) ==
    /\ summaries' = IF /\ native
                       /\ selection.main = main
                       /\ selection.retained
                       /\ IsLinear(selection.nodes)
                    THEN LinearPaths(selection.nodes, points)
                    ELSE NoSummaries
    /\ UNCHANGED <<history, native, shallow, selection>>

HasSummary(main, head) == selection.main = main /\ head \in DOMAIN summaries

\* The commits ancestry_path returns.
PathCommits(base, head) ==
    IF native /\ base # NoCommit
    THEN Descendants(Walk(history, {head}, {base}), base)
    ELSE Between(history, base, head)

\* The orders in which a reversed walk by commit time can list the commits of
\* a path to head: each one before some child of its own, whatever its time.
AncestryPaths(base, head) ==
    {path \in SetToSeqs(PathCommits(base, head)) :
        \A i \in DOMAIN path :
            \/ path[i] = head
            \/ \E j \in i + 1 .. Len(path) : path[i] \in history[path[j]]}

=============================================================================
