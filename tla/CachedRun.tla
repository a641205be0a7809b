----------------------------- MODULE CachedRun -----------------------------
(***************************************************************************)
(* One command with persistent reuse, src/app/cached.rs (execute_cached),  *)
(* beside other commands and a repository that changes under all of them.  *)
(* The store is the AtomicCache that CacheStore implements.                *)
(*                                                                         *)
(* What an answer about commits says depends on how the commit graph is    *)
(* interpreted: where it is cut off (the shallow boundary) and whether     *)
(* replacement refs or grafts alter it.  Keys carry the boundary; altered  *)
(* graphs are never cached.  The three are read one after the other, and   *)
(* any of them may change in between.  An answer is modelled by the        *)
(* interpretation it was computed under.  Commit metadata and diff         *)
(* statistics do not depend on it and are left out, as is the retention of *)
(* facts.                                                                  *)
(***************************************************************************)
EXTENDS Naturals

CONSTANTS
    Procs,          \* commands running beside each other
    Backends,       \* the backends commands ask for
    Modes,          \* how they use the store
    Boundaries,     \* shallow boundaries
    Complete,       \* the empty one among them
    Branches,       \* states of the local branches
    Mains,          \* values of branchless.core.mainBranch
    Upstreams,      \* states of the upstream references
    Queries,        \* questions an analysis asks about the graph
    Persisted,      \* those whose answers are facts (merge bases, distances)
    Names, NameOf,  \* files of the store and the file of every key
    Miss,           \* nothing stored, not asked yet
    MayReturn,      \* parts of the graph which may return to an earlier state
    MaxChanges      \* bound on the changes of the repository

ASSUME QueriesAssumption ==
    /\ Backends \subseteq {"gix", "shell"}
    /\ Modes \subseteq {"use", "refresh", "clear"}
    /\ Persisted \subseteq Queries
    /\ Complete \in Boundaries
    /\ MayReturn \subseteq {"boundary", "grafts", "replacements"}
    /\ MaxChanges \in Nat

Graph == [boundary : Boundaries, grafts : BOOLEAN, replacements : BOOLEAN]
Plain(b) == [boundary |-> b, grafts |-> FALSE, replacements |-> FALSE]
World == [graph : Graph, branches : Branches, main : Mains, upstreams : Upstreams]

\* Inputs of src/backend/session.rs, FactsKey and SnapshotKey.
Inputs == [branches : Branches, main : Mains, upstreams : Upstreams]
FactsKey == [backend : Backends, boundary : Boundaries]
SnapshotKey == [backend : Backends, boundary : Boundaries, inputs : Inputs]
ASSUME NamesAssumption == NameOf \in [FactsKey \cup SnapshotKey -> Names]

\* The neutral groups of a snapshot: the interpretations behind them and the
\* inputs they were built from.  A facts file answers some of the queries.
Snapshot == [graphs : SUBSET Graph, inputs : Inputs]
Facts == [Persisted -> Graph \cup {Miss}]
NoFacts == [q \in Persisted |-> Miss]

VARIABLES
    world,      \* the repository
    past,       \* the interpretations it has left
    changes,    \* how often it has changed
    cache,      \* file of the store -> its entry, or Miss
    pc,         \* command -> where it is
    run,        \* command -> its local variables
    lived,      \* history: interpretations that were live since it opened
    later       \* history: states of the repository since it rendered

vars == <<world, past, changes, cache, pc, run, lived, later>>
repository == <<world, past, changes>>
history == <<lived, later>>

Store == INSTANCE AtomicCache WITH
    Keys <- FactsKey \cup SnapshotKey,
    Values <- Facts \cup Snapshot,
    asked <- [p \in Procs |-> Miss],
    seen <- [p \in Procs |-> Miss]

\* backend is the requested one, native tells whether gix answers; pinned and
\* pinnedMain are what its handle captured when it was opened.  boundary and
\* main are the CacheLocation, found the snapshot that was read, original the
\* facts that were read, answers what the session knows.
Unset(S) == S \cup {Miss}
Run == [backend : Unset(Backends), mode : Unset(Modes), native : BOOLEAN,
        pinned : Unset(Boundaries), pinnedMain : Unset(Mains),
        boundary : Unset(Boundaries), main : Unset(Mains),
        inputs : [branches : Unset(Branches), main : Unset(Mains),
                  upstreams : Unset(Upstreams)],
        found : Unset(Snapshot), original : Facts,
        answers : [Queries -> Unset(Graph)]]
NoRun ==
    [backend |-> Miss, mode |-> Miss, native |-> FALSE,
     pinned |-> Miss, pinnedMain |-> Miss, boundary |-> Miss, main |-> Miss,
     inputs |-> [branches |-> Miss, main |-> Miss, upstreams |-> Miss],
     found |-> Miss, original |-> NoFacts, answers |-> [q \in Queries |-> Miss]]

Init ==
    /\ world \in World
    /\ past = {}
    /\ changes = 0
    /\ cache = [n \in Names |-> Miss]
    /\ pc = [p \in Procs |-> "idle"]
    /\ run = [p \in Procs |-> NoRun]
    /\ lived = [p \in Procs |-> {}]
    /\ later = [p \in Procs |-> {}]

-----------------------------------------------------------------------------
(* Steps of a command.                                                     *)

Goto(p, label) == pc' = [pc EXCEPT ![p] = label]

\* The command is over; what it left in memory means nothing any more.
End(p) ==
    /\ Goto(p, "idle")
    /\ run' = [run EXCEPT ![p] = NoRun]
    /\ lived' = [lived EXCEPT ![p] = {}]
    /\ later' = [later EXCEPT ![p] = {}]

\* GixBackend::discover captures the configuration and then the boundary.
Start(p, backend, mode) ==
    /\ pc[p] = "idle"
    /\ run' = [run EXCEPT
                 ![p].backend = backend,
                 ![p].mode = mode,
                 ![p].pinnedMain = IF backend = "gix" THEN world.main ELSE Miss]
    /\ lived' = [lived EXCEPT ![p] = {world.graph}]
    /\ Goto(p, IF backend = "gix" THEN "open" ELSE "prepare")
    /\ UNCHANGED <<repository, cache, later>>

Open(p) ==
    /\ pc[p] = "open"
    /\ run' = [run EXCEPT ![p].pinned = world.graph.boundary]
    /\ Goto(p, "choose")
    /\ UNCHANGED <<repository, cache, history>>

\* requires_shell_graph: a graph altered by grafts, or by replacement refs, is
\* left to Git itself.
Choose(p) ==
    /\ pc[p] = "choose"
    /\ Goto(p, IF world.graph.grafts THEN "prepare" ELSE "choose replacements")
    /\ UNCHANGED <<repository, cache, run, history>>

ChooseReplacements(p) ==
    /\ pc[p] = "choose replacements"
    /\ run' = [run EXCEPT ![p].native = ~world.graph.replacements]
    /\ Goto(p, "prepare")
    /\ UNCHANGED <<repository, cache, history>>

\* prepare_cache: --clear-cache empties the store as far as it can.
PrepareClear(p) ==
    /\ pc[p] = "prepare"
    /\ run[p].mode = "clear"
    /\ \E gone \in SUBSET Names :
          cache' = [n \in Names |-> IF n \in gone THEN Miss ELSE cache[n]]
    /\ Goto(p, "uncached")
    /\ UNCHANGED <<repository, run, history>>

-----------------------------------------------------------------------------
(* The location: configuration, grafts, replacement refs and boundary are  *)
(* read one after the other.                                               *)

\* The command may not use the store, a test of location does not hold, a
\* read of it fails, or the store cannot be opened.
Bypass(p) ==
    /\ pc[p] \in {"prepare", "grafts", "replacements", "boundary"}
    /\ run[p].mode # "clear"
    /\ Goto(p, "uncached")
    /\ UNCHANGED <<repository, cache, run, history>>

\* The repository is discovered and its configuration read.
LocateMain(p) ==
    /\ pc[p] = "prepare"
    /\ run[p].mode # "clear"
    /\ run' = [run EXCEPT ![p].main = world.main]
    /\ Goto(p, "grafts")
    /\ UNCHANGED <<repository, cache, history>>

LocateGrafts(p) ==
    /\ pc[p] = "grafts"
    /\ ~world.graph.grafts
    /\ Goto(p, "replacements")
    /\ UNCHANGED <<repository, cache, run, history>>

LocateReplacements(p) ==
    /\ pc[p] = "replacements"
    /\ ~world.graph.replacements
    /\ Goto(p, "boundary")
    /\ UNCHANGED <<repository, cache, run, history>>

\* Mutant of Matches: the boundary of the handle is not compared.
MatchesAlways(p, boundary) == TRUE

\* CacheLocation::matches_backend
Matches(p, boundary) == run[p].native => run[p].pinned = boundary

LocateBoundary(p) ==
    /\ pc[p] = "boundary"
    /\ Matches(p, world.graph.boundary)
    /\ run' = [run EXCEPT ![p].boundary = world.graph.boundary]
    /\ Goto(p, "branches")
    /\ UNCHANGED <<repository, cache, history>>

\* execute without a store: nothing of it is kept.
Uncached(p) ==
    /\ pc[p] = "uncached"
    /\ End(p)
    /\ UNCHANGED <<repository, cache>>

-----------------------------------------------------------------------------
(* Inputs::capture reads one thing after the other.                        *)

\* main_branch_name: the configuration of the gix handle, or the live one.
MainSeen(p) == IF run[p].native THEN run[p].pinnedMain ELSE world.main

CaptureBranches(p) ==
    /\ pc[p] = "branches"
    /\ run' = [run EXCEPT ![p].inputs.branches = world.branches]
    /\ Goto(p, "main")
    /\ UNCHANGED <<repository, cache, history>>

CaptureMain(p) ==
    /\ pc[p] = "main"
    /\ run' = [run EXCEPT ![p].inputs.main = MainSeen(p)]
    /\ Goto(p, "upstreams")
    /\ UNCHANGED <<repository, cache, history>>

CaptureUpstreams(p) ==
    /\ pc[p] = "upstreams"
    /\ run' = [run EXCEPT ![p].inputs.upstreams = world.upstreams]
    /\ Goto(p, IF run[p].mode = "refresh" THEN "analyse" ELSE "snapshot")
    /\ UNCHANGED <<repository, cache, history>>

FactsKeyOf(p) == [backend |-> run[p].backend, boundary |-> run[p].boundary]
SnapshotKeyOf(p) ==
    [backend |-> run[p].backend, boundary |-> run[p].boundary,
     inputs |-> run[p].inputs]

ReadSnapshot(p) ==
    /\ pc[p] = "snapshot"
    /\ run' = [run EXCEPT ![p].found = Store!Answer(SnapshotKeyOf(p))]
    /\ Goto(p, "facts")
    /\ UNCHANGED <<repository, cache, history>>

\* unwrap_or_default; Session::with_facts then starts from these answers.
ReadFacts(p) ==
    LET stored == Store!Answer(FactsKeyOf(p))
        facts == IF stored = Miss THEN NoFacts ELSE stored
    IN  /\ pc[p] = "facts"
        /\ run' = [run EXCEPT
                     ![p].original = facts,
                     ![p].answers = [q \in Queries |->
                         IF q \in Persisted THEN facts[q] ELSE Miss]]
        /\ Goto(p, "analyse")
        /\ UNCHANGED <<repository, cache, history>>

-----------------------------------------------------------------------------
(* Analysis.                                                               *)

Hit(p) == run[p].found # Miss

\* Git reads the live repository.  The native walks mix the live boundary
\* (is_shallow, the walks of gix) with the captured one (effective_parents).
Interpretations(p) ==
    {world.graph} \cup
    (IF run[p].native
     THEN {[world.graph EXCEPT !.boundary = run[p].pinned]}
     ELSE {})

\* The session asks what it does not know; on a hit only the choice of the
\* mainline may need a merge base.
Ask(p, q) ==
    /\ pc[p] = "analyse"
    /\ run[p].answers[q] = Miss
    /\ Hit(p) => q \in Persisted
    /\ \E g \in Interpretations(p) :
          run' = [run EXCEPT ![p].answers[q] = g]
    /\ UNCHANGED <<repository, cache, pc, history>>

Range(f) == {f[q] : q \in DOMAIN f}

\* Mutant of Render: a query that failed counts as answered.
RenderUnfinished(p) ==
    /\ pc[p] = "analyse"
    /\ later' = [later EXCEPT ![p] = {world}]
    /\ Goto(p, "rendered")
    /\ UNCHANGED <<repository, cache, run, lived>>

Render(p) ==
    /\ pc[p] = "analyse"
    /\ Hit(p) \/ Miss \notin Range(run[p].answers)
    /\ later' = [later EXCEPT ![p] = {world}]
    /\ Goto(p, "rendered")
    /\ UNCHANGED <<repository, cache, run, lived>>

KnownFacts(p) == [q \in Persisted |-> run[p].answers[q]]

\* A hit that learnt nothing new is not published again.
Decide(p) ==
    /\ pc[p] = "rendered"
    /\ IF Hit(p) /\ KnownFacts(p) = run[p].original
       THEN End(p)
       ELSE Goto(p, "same branches") /\ UNCHANGED <<run, history>>
    /\ UNCHANGED <<repository, cache>>

-----------------------------------------------------------------------------
(* Revalidation reads everything once more, in the same order, and then    *)
(* takes a new location, again part by part; a difference discards the     *)
(* results.                                                                *)

Check(p, at, same, next) ==
    /\ pc[p] = at
    /\ IF same THEN Goto(p, next) /\ UNCHANGED <<run, history>> ELSE End(p)
    /\ UNCHANGED <<repository, cache>>

SameBranches(p) ==
    Check(p, "same branches", world.branches = run[p].inputs.branches, "same main")

\* Mutant of SameMain: the location's own reading is not compared.
SameMainUnchecked(p) ==
    Check(p, "same main", MainSeen(p) = run[p].inputs.main, "same upstreams")

\* The location's own reading of the main branch must agree, too.
SameMain(p) ==
    Check(p, "same main",
          MainSeen(p) = run[p].inputs.main /\ run[p].main = run[p].inputs.main,
          "same upstreams")

SameUpstreams(p) ==
    Check(p, "same upstreams", world.upstreams = run[p].inputs.upstreams,
          "same location")

\* The second location.
SameLocation(p) ==
    Check(p, "same location", world.main = run[p].main, "same grafts")

SameGrafts(p) ==
    Check(p, "same grafts", ~world.graph.grafts, "same replacements")

SameReplacements(p) ==
    Check(p, "same replacements", ~world.graph.replacements, "same boundary")

\* Mutant of SameBoundary: the two boundaries are not compared.
SameBoundarySkipped(p) == Check(p, "same boundary", TRUE, "put facts")

SameBoundary(p) ==
    Check(p, "same boundary", world.graph.boundary = run[p].boundary, "put facts")

\* Each publication takes the lock for itself and may be skipped.
PutFacts(p) ==
    /\ pc[p] = "put facts"
    /\ \/ Store!Publish([key |-> FactsKeyOf(p), value |-> KnownFacts(p)])
       \/ UNCHANGED cache
    /\ IF Hit(p)
       THEN End(p)
       ELSE Goto(p, "put snapshot") /\ UNCHANGED <<run, history>>
    /\ UNCHANGED repository

\* Mutant of Neutral: the session passes the reading of the branches on to
\* the live repository.
NeutralLive(p) ==
    [graphs |-> Range(run[p].answers),
     inputs |-> [run[p].inputs EXCEPT !.branches = world.branches]]

\* The groups of the analysis, whose session answers from the frozen inputs.
Neutral(p) == [graphs |-> Range(run[p].answers), inputs |-> run[p].inputs]

PutSnapshot(p) ==
    /\ pc[p] = "put snapshot"
    /\ \/ Store!Publish([key |-> SnapshotKeyOf(p), value |-> Neutral(p)])
       \/ UNCHANGED cache
    /\ End(p)
    /\ UNCHANGED repository

\* A call fails and its error ends the command, or the process dies.
Stop(p) ==
    /\ pc[p] # "idle"
    /\ End(p)
    /\ UNCHANGED <<repository, cache>>

-----------------------------------------------------------------------------
(* The environment.                                                        *)

\* A part of the graph becomes what it was in none of the graphs left behind.
Fresh(part, value) == \A g \in past : g[part] # value

\* A fetch, a commit, a config command: one part of the repository changes.
Change ==
    /\ changes < MaxChanges
    /\ changes' = changes + 1
    /\ \/ \E g \in Graph, part \in DOMAIN world.graph :
             /\ g # world.graph
             /\ g = [world.graph EXCEPT ![part] = g[part]]
             /\ part \in MayReturn \/ Fresh(part, g[part])
             /\ world' = [world EXCEPT !.graph = g]
             /\ past' = past \cup {world.graph}
       \/ /\ \/ \E b \in Branches \ {world.branches} :
                   world' = [world EXCEPT !.branches = b]
             \/ \E m \in Mains \ {world.main} :
                   world' = [world EXCEPT !.main = m]
             \/ \E u \in Upstreams \ {world.upstreams} :
                   world' = [world EXCEPT !.upstreams = u]
          /\ UNCHANGED past
    /\ lived' = [p \in Procs |->
                   IF pc[p] = "idle" THEN {} ELSE lived[p] \cup {world'.graph}]
    /\ later' = [p \in Procs |->
                   IF later[p] = {} THEN {} ELSE later[p] \cup {world'}]
    /\ UNCHANGED <<cache, pc, run>>

\* Maintenance, another command's clear, damage.
Lose(n) ==
    /\ Store!Discard(n)
    /\ UNCHANGED <<repository, pc, run, history>>

Next ==
    \/ \E p \in Procs :
          \/ \E b \in Backends, m \in Modes : Start(p, b, m)
          \/ Open(p) \/ Choose(p) \/ ChooseReplacements(p)
          \/ PrepareClear(p) \/ Bypass(p) \/ Uncached(p)
          \/ LocateMain(p) \/ LocateGrafts(p)
          \/ LocateReplacements(p) \/ LocateBoundary(p)
          \/ CaptureBranches(p) \/ CaptureMain(p) \/ CaptureUpstreams(p)
          \/ ReadSnapshot(p) \/ ReadFacts(p)
          \/ \E q \in Queries : Ask(p, q)
          \/ Render(p) \/ Decide(p)
          \/ SameBranches(p) \/ SameMain(p) \/ SameUpstreams(p)
          \/ SameLocation(p) \/ SameGrafts(p)
          \/ SameReplacements(p) \/ SameBoundary(p)
          \/ PutFacts(p) \/ PutSnapshot(p)
          \/ Stop(p)
    \/ Change
    \/ \E n \in Names : Lose(n)

Spec == Init /\ [][Next]_vars

-----------------------------------------------------------------------------
(* Properties.                                                             *)

Labels ==
    {"idle", "open", "choose", "choose replacements", "prepare", "uncached",
     "grafts", "replacements", "boundary", "branches", "main", "upstreams",
     "snapshot", "facts", "analyse", "rendered", "same branches", "same main",
     "same upstreams", "same location", "same grafts", "same replacements",
     "same boundary", "put facts", "put snapshot"}

\* Every variable keeps its type.
TypeOK ==
    /\ world \in World
    /\ past \subseteq Graph
    /\ changes \in 0..MaxChanges
    /\ \A n \in Names : cache[n] # Miss =>
          \/ /\ cache[n].key \in FactsKey
             /\ cache[n].value \in Facts
          \/ /\ cache[n].key \in SnapshotKey
             /\ cache[n].value \in Snapshot
    /\ pc \in [Procs -> Labels]
    /\ run \in [Procs -> Run]
    /\ lived \in [Procs -> SUBSET Graph]
    /\ later \in [Procs -> SUBSET World]

\* What a stored entry says is what its key promises (docs/performance.md,
\* "graph-interpretation changes"): every fact, and everything a snapshot
\* rests on, was computed on the plain graph cut at the boundary in the key,
\* from exactly the inputs in the key.
EntrySound(e) ==
    IF e.key \in FactsKey
    THEN Range(e.value) \subseteq {Plain(e.key.boundary), Miss}
    ELSE /\ e.value.graphs \subseteq {Plain(e.key.boundary)}
         /\ e.value.inputs = e.key.inputs

StoreSound == \A n \in Names : cache[n] # Miss => EntrySound(cache[n])

\* What a command takes over from the store was computed on a graph that has
\* been live since the command opened the repository, however old the entry
\* is and whatever happened between the location and the two reads.
ReusedWasLive ==
    \A p \in Procs :
        /\ Range(run[p].original) \ {Miss} \subseteq lived[p]
        /\ Hit(p) => run[p].found.graphs \subseteq lived[p]

\* docs/configuration.md: configuration or references which change during
\* computation prevent publication.  When a command publishes, each of its
\* inputs and each part of the graph has had its captured value again after
\* the output was complete, not all of them necessarily together.  As long
\* as no part of the graph returns to a state it has left, one state of the
\* repository since then had the boundary, an unaltered graph and the main
\* branch together, although no read of the command sees more than one of
\* them.
PublicationConfirmed ==
    \A p \in Procs : pc[p] \in {"put facts", "put snapshot"} =>
        /\ \E w \in later[p] : w.branches = run[p].inputs.branches
        /\ \E w \in later[p] : w.upstreams = run[p].inputs.upstreams
        /\ \E w \in later[p] : w.main = run[p].inputs.main
        /\ \E w \in later[p] : ~w.graph.grafts
        /\ \E w \in later[p] : ~w.graph.replacements
        /\ \E w \in later[p] : w.graph.boundary = run[p].boundary
        /\ MayReturn = {} =>
              \E w \in later[p] :
                 /\ w.graph = Plain(run[p].boundary)
                 /\ w.main = run[p].inputs.main
=============================================================================
