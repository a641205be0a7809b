--------------------------- MODULE DiffStatistics ---------------------------
(***************************************************************************)
(* The line counts of layers: which are asked for (lanes/diff.rs), which   *)
(* are reused and which are computed (backend/session/statistics.rs), and  *)
(* what of them is kept for the next command (app/cached.rs, with the      *)
(* policy of FactRetention).                                               *)
(*                                                                         *)
(* What Git counts depends on the two trees, on its executable, on the     *)
(* configuration and on the attributes of the paths that differ.  All but  *)
(* the trees may change at any time; commands follow one another.  A count *)
(* is modelled by everything it was measured under.                        *)
(***************************************************************************)
EXTENDS FactRetention, Sequences

CONSTANTS
    Executables,        \* the Git executables PATH may lead to
    Configs,            \* effective configurations
    Attrs,              \* effective attributes of one path
    Paths, Volatile,    \* paths, and those whose attributes change
    Commits,            \* numbers, in the order of their names
    NoCommit,           \* the base of an orphan root
    TreeOf,             \* the tree of every commit, the empty one of NoCommit
    PathsOf,            \* the paths in which the two trees of a pair differ
    Analyses,           \* what analyses ask of their session and the lanes they find
    DependencyLimit,    \* bound on the paths a context is captured for
    QueryLimit,         \* entries a session collects (65,536)
    Rooms,              \* how many answers may fit into an entry
    FirstWorlds,        \* what Git may run under at first
    StoredFacts,        \* facts the first command may find
    Zero,               \* the counts of equal trees
    Miss,
    MayReturn,          \* whether what changes may be as before
    MaxChanges, MaxRuns \* bounds: changes of the world, commands

ASSUME DiffAssumption ==
    /\ Commits \subseteq Nat
    /\ DOMAIN TreeOf = Commits \cup {NoCommit}
    /\ \A t \in DOMAIN PathsOf : PathsOf[t] \subseteq Paths
    /\ Volatile \subseteq Paths /\ MayReturn \in BOOLEAN
    /\ {"executable", "config"} \cap Paths = {}
    /\ Miss \notin Executables
    /\ MaxChanges \in Nat /\ MaxRuns \in Nat
    /\ QueryLimit \in Nat /\ Limit < QueryLimit

Pairs == DOMAIN PathsOf
World == [executable : Executables, config : Configs, attributes : [Paths -> Attrs]]
ASSUME WorldsAssumption == FirstWorlds \subseteq World

\* DiffContext of backend/diff.rs.  The root of the worktree is part of the
\* scope as well and stands for itself here: a command has one worktree.
Fingerprint(context, paths) ==
    [configuration |-> context.configuration,
     attributes |-> Restrict(context.attributes, paths)]

VARIABLES
    world,      \* what Git runs under
    changes,    \* how often that has changed
    stored,     \* the facts file
    runs,       \* commands so far
    pc,         \* where the command is
    run,        \* its local variables
    facts,      \* Session.facts
    lived       \* history: what the world was from the start of the command to its output

vars == <<world, changes, stored, runs, pc, run, facts, lived>>
environment == <<world, changes>>

NoContext == [scope |-> Miss, configuration |-> Miss, attributes |-> <<>>]
NothingUsed == [bases |-> {}, distances |-> {}, metadata |-> {}, trees |-> {}, entries |-> {}]

\* hit: there was a topology snapshot.  captured: the configuration that was
\* read with the options.  before, after: the two contexts, snap the one that
\* is being captured.  launched: what a diff process started with.  final: its
\* counts are shown as they are.  room: how many answers fit into an entry,
\* which depends on the lengths of names and subjects.  used: history, what the command has touched.
NoRun ==
    [mode |-> Miss, hit |-> FALSE, lanes |-> {}, asks |-> <<>>, captured |-> Miss,
     requested |-> {}, before |-> NoContext, after |-> NoContext, snap |-> NoContext,
     hits |-> <<>>, todo |-> {}, launched |-> NoContext, measured |-> <<>>,
     final |-> FALSE, result |-> <<>>, new |-> FALSE, original |-> NoFacts,
     room |-> 0, encoded |-> FALSE, used |-> NothingUsed]

Live(w) ==
    {<<"executable", w.executable>>, <<"config", w.config>>}
        \cup {<<p, w.attributes[p]>> : p \in Paths}

Init ==
    /\ world \in FirstWorlds
    /\ changes = 0
    /\ stored \in StoredFacts
    /\ runs = 0
    /\ pc = "idle"
    /\ run = NoRun
    /\ facts = NoFacts
    /\ lived = {}

-----------------------------------------------------------------------------
(* The layers of the lanes.                                                *)

\* Mutant of BaseOf: a layer starts at the preceding layer with counts.
BaseOfCounted(lane, i) ==
    LET below == {j \in i + 1 .. Len(lane.points) : ~lane.points[j].main_history}
    IN  IF below = {} THEN lane.base ELSE lane.points[Min(below)].oid

\* populate_diff_stats; points are listed from the head to the base.
BaseOf(lane, i) ==
    IF i = Len(lane.points) THEN lane.base ELSE lane.points[i + 1].oid

Layers(lanes) ==
    UNION {{<<lane, i>> : i \in {j \in DOMAIN lane.points : ~lane.points[j].main_history}} :
              lane \in lanes}
CommitPairs(lanes) ==
    {<<BaseOf(l[1], l[2]), l[1].points[l[2]].oid>> : l \in Layers(lanes)}

\* The ends whose trees are read, in the order of their names.
CommitIds(pairs) == (UNION {{c[1], c[2]} : c \in pairs}) \cap Commits

\* resolved_pairs, without the pairs whose trees are equal.
TreePair(c) == <<TreeOf[c[1]], TreeOf[c[2]]>>
Requested(pairs) == {t \in {TreePair(c) : c \in pairs} : t[1] # t[2]}

\* The row of a layer shows the result of its trees.
Row(layer) ==
    LET t == TreePair(<<BaseOf(layer[1], layer[2]), layer[1].points[layer[2]].oid>>)
    IN  IF t[1] = t[2] THEN Zero ELSE run.result[t]

Dependencies(pairs) == UNION {PathsOf[t] : t \in pairs}

\* The questions of the analyses, by table and key.
Asked == UNION {Range(analysis.asks) : analysis \in Analyses}

ASSUME AnalysesAssumption ==
    /\ \A analysis \in Analyses :
          /\ analysis.asks \in Seq(Asked)
          /\ IsFiniteSet(analysis.lanes)
          /\ \A lane \in analysis.lanes : lane.points \in Seq(Range(lane.points))
          /\ Requested(CommitPairs(analysis.lanes)) \subseteq Pairs
    /\ \A ask \in Asked :
          /\ ask[1] \in {"bases", "distances", "metadata"}
          /\ ask[1] = "metadata" => ask[2] \in Commits

-----------------------------------------------------------------------------
(* A command up to its statistics.                                         *)

End == pc' = "idle" /\ run' = NoRun /\ facts' = NoFacts /\ lived' = {}

Start(mode, hit, analysis, captured) ==
    /\ pc = "idle"
    /\ runs < MaxRuns
    /\ hit => mode = "use"
    /\ mode = "uncached" => captured = Miss
    /\ runs' = runs + 1
    /\ facts' = IF mode = "use" /\ stored # Miss THEN stored ELSE NoFacts
    /\ run' = [NoRun EXCEPT !.mode = mode, !.hit = hit, !.lanes = analysis.lanes,
                            !.asks = IF mode = "uncached" THEN <<>> ELSE analysis.asks,
                            !.captured = captured,
                            !.original = IF hit THEN facts' ELSE NoFacts]
    /\ lived' = Live(world)
    /\ pc' = IF mode = "uncached" THEN "count" ELSE "ask"
    /\ UNCHANGED <<environment, stored>>

\* merge_base, main_distances and cache_commit_metas of Session.
Ask ==
    /\ pc = "ask" /\ run.asks # <<>>
    /\ LET table == Head(run.asks)[1]
           key == Head(run.asks)[2]
           known == key \in facts[table]
           kept == known \/ Cardinality(facts[table]) < QueryLimit
       IN  /\ facts' = IF kept THEN Touch([facts EXCEPT ![table] = @ \cup {key}], key)
                       ELSE facts
           /\ run' = [run EXCEPT !.asks = Tail(@),
                                 !.new = @ \/ (kept /\ ~known),
                                 !.used[table] = IF kept THEN @ \cup {key} ELSE @]
    /\ UNCHANGED <<environment, stored, runs, pc, lived>>

\* The first time some pair is asked for, its trees become facts.
WithTrees(f, ids) ==
    [f EXCEPT !.diff.trees = @ \cup ids,
              !.clock = @ + Cardinality(ids),
              !.recency =
                  [k \in DOMAIN @ \cup ids |->
                      IF k \in ids THEN f.clock + Cardinality({i \in ids : i <= k})
                      ELSE @[k]]]

\* A process is to count the pairs; final if its counts are all there is.
Measure(pairs, final, r) ==
    /\ run' = [r EXCEPT !.todo = pairs, !.final = final, !.measured = <<>>]
    /\ pc' = "launch"

\* What the statistics were made from means nothing any more.
Show(result, r) ==
    /\ run' = [r EXCEPT !.result = result, !.captured = Miss, !.launched = NoContext,
                        !.before = NoContext, !.after = NoContext, !.measured = <<>>]
    /\ pc' = "shown"

\* Session::diff_stats and reuse_statistics up to the first context; without
\* persistence all pairs are counted at once.
Count ==
    /\ pc = "count" \/ (pc = "ask" /\ run.asks = <<>>)
    /\ LET pairs == CommitPairs(run.lanes)
           ids == CommitIds(pairs)
           requested == Requested(pairs)
           cached == pc = "ask" /\ pairs # {}
           r == IF cached
                THEN [run EXCEPT !.requested = requested,
                                 !.new = @ \/ ~(ids \subseteq facts.diff.trees),
                                 !.used.trees = ids]
                ELSE run
       IN  /\ facts' = IF cached THEN WithTrees(facts, ids) ELSE facts
           /\ \/ /\ requested = {}
                 /\ Show(<<>>, r)
              \/ /\ requested # {}
                 /\ \/ ~cached
                    \/ Cardinality(Dependencies(requested)) > DependencyLimit
                 /\ Measure(requested, TRUE, r)
              \/ /\ requested # {}
                 /\ cached
                 /\ Cardinality(Dependencies(requested)) <= DependencyLimit
                 /\ run' = r
                 /\ pc' = "config"
    /\ UNCHANGED <<environment, stored, runs, lived>>

-----------------------------------------------------------------------------
(* diff_snapshot of backend/process.rs: three reads, each of which may     *)
(* fail.                                                                   *)

First == run.before = NoContext

\* The configuration read with the options serves the first context.
ReadConfig ==
    /\ pc = "config"
    /\ run' = [run EXCEPT !.snap.configuration =
                   IF First /\ run.captured # Miss THEN run.captured ELSE world.config]
    /\ pc' = "attributes"
    /\ UNCHANGED <<environment, stored, runs, facts, lived>>

ReadAttributes ==
    /\ pc = "attributes"
    /\ run' = [run EXCEPT !.snap.attributes =
                   Restrict(world.attributes, Dependencies(run.requested))]
    /\ pc' = "executable"
    /\ UNCHANGED <<environment, stored, runs, facts, lived>>

ReadExecutable ==
    /\ pc = "executable"
    /\ LET context == [run.snap EXCEPT !.scope = world.executable]
       IN  run' = IF First THEN [run EXCEPT !.before = context, !.snap = NoContext]
                  ELSE [run EXCEPT !.after = context, !.snap = NoContext]
    /\ pc' = IF First THEN "lookup" ELSE "decide"
    /\ UNCHANGED <<environment, stored, runs, facts, lived>>

\* Some read has failed.  Without a first context nothing is reused, without a
\* second nothing is kept.
Unsupported ==
    /\ pc = "executable"
    /\ \/ First /\ Measure(run.requested, TRUE, run)
       \/ ~First /\ run' = [run EXCEPT !.snap = NoContext] /\ pc' = "decide"
    /\ UNCHANGED <<environment, stored, runs, facts, lived>>

-----------------------------------------------------------------------------
(* Reuse, measurement and retention of statistics.                         *)

Scopes(f) == DOMAIN f.diff.scopes
Value(f, s, t) == f.diff.scopes[s].values[t]


\* The test of a retained value in cached_statistics.
Valid(value, context, t) == value.fingerprint = Fingerprint(context, PathsOf[t])

\* Mutant of Refreshed: a value that was reused keeps the time of its first use.
RefreshedScope(f, s, hits) ==
    [f EXCEPT !.diff.clock = @ + 1, !.diff.scopes[s].used = f.diff.clock + 1]

\* The times of use of a scope and of the values that answered.
Refreshed(f, s, hits) ==
    LET used == f.diff.clock + 1
    IN  [f EXCEPT !.diff.clock = used,
                  !.diff.scopes[s] =
                      [used |-> used,
                       values |-> [t \in DOMAIN @.values |->
                                      IF t \in hits THEN [@.values[t] EXCEPT !.used = used]
                                      ELSE @.values[t]]]]

\* cached_statistics
Lookup ==
    /\ pc = "lookup"
    /\ LET s == run.before.scope
           hits == IF s \in Scopes(facts)
                   THEN {t \in run.requested \cap DOMAIN facts.diff.scopes[s].values :
                            Valid(Value(facts, s, t), run.before, t)}
                   ELSE {}
           found == [t \in hits |-> Value(facts, s, t).stat]
           r == [run EXCEPT !.hits = found, !.used.entries = {<<s, t>> : t \in hits}]
       IN  /\ facts' = IF s \in Scopes(facts) THEN Refreshed(facts, s, hits)
                       ELSE [facts EXCEPT !.diff.clock = @ + 1]
           /\ IF hits = run.requested THEN Show(found, r)
              ELSE Measure(run.requested \ hits, FALSE, r)
    /\ UNCHANGED <<environment, stored, runs, lived>>

\* git diff-tree starts.
Launch ==
    /\ pc = "launch"
    /\ run' = [run EXCEPT !.launched = [NoContext EXCEPT !.scope = world.executable,
                                                         !.configuration = world.config]]
    /\ pc' = "measure"
    /\ UNCHANGED <<environment, stored, runs, facts, lived>>

\* f where it is defined, g elsewhere.
Over(f, g) == [x \in DOMAIN f \cup DOMAIN g |-> IF x \in DOMAIN f THEN f[x] ELSE g[x]]

\* It counts one pair and reads the attributes of its paths.
MeasurePair ==
    /\ pc = "measure"
    /\ \E t \in run.todo :
          LET stat == [pair |-> t, scope |-> run.launched.scope,
                       fingerprint |->
                           Fingerprint([run.launched EXCEPT !.attributes = world.attributes],
                                       PathsOf[t])]
              r == [run EXCEPT !.todo = @ \ {t}, !.measured = Over([u \in {t} |-> stat], @)]
          IN  IF r.todo # {} THEN run' = r /\ pc' = pc
              ELSE IF run.final THEN Show(r.measured, r)
              ELSE run' = [r EXCEPT !.launched = NoContext] /\ pc' = "config"
    /\ UNCHANGED <<environment, stored, runs, facts, lived>>

\* retain_statistics; when the scope fills up, which values it takes is a matter
\* of their names.
Retained(f, context, measured) ==
    LET s == context.scope
        used == f.diff.clock + 1
        old == IF s \in Scopes(f) THEN f.diff.scopes[s].values ELSE <<>>
        Grown(kept) ==
            Over([t \in kept |->
                     [stat |-> measured[t], fingerprint |-> Fingerprint(context, PathsOf[t]),
                      used |-> used]],
                 old)
    IN  {[f EXCEPT !.diff.clock = used,
                   !.diff.scopes =
                       Over([x \in {s} |-> [used |-> used, values |-> Grown(kept)]], @)] :
            kept \in {k \in SUBSET DOMAIN measured :
                         LET size == Cardinality(DOMAIN old \cup k)
                         IN  \/ k = DOMAIN measured /\ size <= QueryLimit
                             \/ size = QueryLimit}}

\* Mutant of Stable: the contexts are not compared.
StableAlways(covered) == covered

\* The counts belong to the first context: it is the second one, too.
Stable(covered) == covered /\ run.after = run.before

\* Mutant of Decide: what was found is shown beside what was measured, although
\* the context has changed.
DecideMixed(covered) ==
    /\ pc = "decide"
    /\ facts' \in IF Stable(covered) THEN Retained(facts, run.before, run.measured) ELSE {facts}
    /\ Show(Over(run.measured, run.hits), [run EXCEPT !.new = @ \/ Stable(covered)])
    /\ UNCHANGED <<environment, stored, runs, lived>>

\* The end of reuse_statistics.  covered: Git named no path but those whose
\* attributes were captured, which the backends promise.
Decide(covered) ==
    /\ pc = "decide"
    /\ LET both == Over(run.measured, run.hits)
           entries == {<<run.before.scope, t>> : t \in DOMAIN run.measured}
       IN  \/ /\ Stable(covered)
              /\ facts' \in Retained(facts, run.before, run.measured)
              /\ LET kept == {e \in entries \cap Entries(facts'.diff.scopes) :
                                ValueAt(facts'.diff.scopes, e).used = facts'.diff.clock}
                 IN  Show(both, [run EXCEPT !.new = TRUE, !.used.entries = @ \cup kept])
           \/ /\ ~Stable(covered)
              /\ facts' = facts
              /\ IF DOMAIN run.hits = {} THEN Show(both, run)
                 ELSE Measure(run.requested, TRUE, run)
    /\ UNCHANGED <<environment, stored, runs, lived>>

-----------------------------------------------------------------------------
(* What the command keeps, admit_facts and the rest of execute_cached.     *)

Leave ==
    /\ pc = "shown"
    /\ run.mode = "uncached" \/ (run.hit /\ ~run.new)
    /\ End
    /\ UNCHANGED <<environment, stored, runs>>

Compact ==
    /\ pc = "shown"
    /\ run.mode # "uncached" /\ (run.hit => run.new)
    /\ facts' \in Compacted(facts, Limit)
    /\ \E room \in Rooms :
          run' = [NoRun EXCEPT !.hit = run.hit, !.original = run.original, !.room = room]
    /\ lived' = {}
    /\ pc' = "fit"
    /\ UNCHANGED <<environment, stored, runs>>

\* encode: the entry with its key within the limit.
Fits(f) == Answered(f) < run.room

Fitting == pc = "fit" /\ UNCHANGED <<environment, stored, runs, lived>>

GiveUpDiff ==
    /\ Fitting /\ ~Fits(facts) /\ HasDiff(facts)
    /\ facts' \in DropDiff(facts)
    /\ UNCHANGED <<pc, run>>

GiveUpMetadata ==
    /\ Fitting /\ ~Fits(facts) /\ ~HasDiff(facts) /\ facts.metadata # {}
    /\ facts' \in HalveMetadata(facts)
    /\ UNCHANGED <<pc, run>>

GiveUpGraph ==
    /\ Fitting /\ ~Fits(facts) /\ ~HasDiff(facts) /\ facts.metadata = {} /\ HasGraph(facts)
    /\ facts' \in HalveGraph(facts)
    /\ UNCHANGED <<pc, run>>

\* Either it fits, or nothing is left to give up.
Admit ==
    /\ Fitting
    /\ Fits(facts) \/ (~HasDiff(facts) /\ facts.metadata = {} /\ ~HasGraph(facts))
    /\ run' = [run EXCEPT !.encoded = Fits(facts)]
    /\ pc' = "publish"
    /\ UNCHANGED facts

\* Publication is skipped when it would change nothing, and discarded when the
\* inputs have changed or the store is busy.
Publish ==
    /\ pc = "publish"
    /\ \/ stored' = stored
       \/ /\ run.encoded
          /\ ~(run.hit /\ Answers(facts) = Answers(run.original))
          /\ stored' = facts
    /\ End
    /\ UNCHANGED <<environment, runs>>

\* An error from the repository or from Git ends the command at once.
Fail ==
    /\ pc \in {"ask", "count", "launch", "measure"}
    /\ End
    /\ UNCHANGED <<environment, stored, runs>>

-----------------------------------------------------------------------------
(* The world.                                                              *)

\* After the output a change is one before the next command.
Change(w) ==
    /\ changes < MaxChanges
    /\ pc \notin {"shown", "fit", "publish"}
    /\ w # world
    /\ MayReturn \/ (Live(w) \ Live(world)) \cap lived = {}
    /\ world' = w
    /\ changes' = changes + 1
    /\ lived' = IF lived = {} THEN {} ELSE lived \cup Live(w)
    /\ UNCHANGED <<stored, runs, pc, run, facts>>

ChangeExecutable == \E e \in Executables : Change([world EXCEPT !.executable = e])
ChangeConfig == \E c \in Configs : Change([world EXCEPT !.config = c])
ChangeAttributes ==
    \E p \in Volatile, a \in Attrs : Change([world EXCEPT !.attributes[p] = a])

\* The facts file is cleared, evicted or fails its checksum.
Lose ==
    /\ pc = "idle"
    /\ stored' = Miss
    /\ UNCHANGED <<environment, runs, pc, run, facts, lived>>

Next ==
    \/ \E mode \in {"uncached", "use", "refresh"}, hit \in BOOLEAN,
          analysis \in Analyses, captured \in {world.config, Miss} :
             Start(mode, hit, analysis, captured)
    \/ Ask \/ Count
    \/ ReadConfig \/ ReadAttributes \/ ReadExecutable \/ Unsupported
    \/ Lookup \/ Launch \/ MeasurePair
    \/ \E covered \in BOOLEAN : Decide(covered)
    \/ Leave \/ Compact
    \/ GiveUpDiff \/ GiveUpMetadata \/ GiveUpGraph \/ Admit \/ Publish \/ Fail
    \/ ChangeExecutable \/ ChangeConfig \/ ChangeAttributes \/ Lose

Spec == Init /\ [][Next]_vars

-----------------------------------------------------------------------------
(* Properties.                                                             *)

Labels == {"idle", "ask", "count", "config", "attributes", "executable", "lookup",
           "launch", "measure", "decide", "shown", "fit", "publish"}
Stat == [pair : Pairs, scope : Executables,
         fingerprint : [configuration : Configs,
                        attributes : UNION {[q -> Attrs] : q \in SUBSET Paths}]]
ASSUME ZeroAssumption == Zero \notin Stat

TypedFacts(f) ==
    /\ f.clock \in Nat /\ f.diff.clock \in Nat
    /\ f.metadata \cup f.diff.trees \subseteq Commits
    /\ \A k \in DOMAIN f.recency : f.recency[k] \in 1 .. f.clock
    /\ Scopes(f) \subseteq Executables
    /\ \A s \in Scopes(f) : f.diff.scopes[s].used \in 1 .. f.diff.clock
    /\ \A e \in Entries(f.diff.scopes) :
          LET v == ValueAt(f.diff.scopes, e)
          IN  v.stat \in Stat /\ v.used \in 1 .. f.diff.clock

\* Types, and the clocks of use: no entry is from a time to come, so that the
\* order of use is one order over all commands that wrote the facts.
TypeOK ==
    /\ world \in World
    /\ pc \in Labels
    /\ TypedFacts(facts)
    /\ stored # Miss => TypedFacts(stored)
    /\ DOMAIN run.result \subseteq Pairs
    /\ \A t \in DOMAIN run.result : run.result[t] \in Stat
    /\ DOMAIN run.hits \cap run.todo # {} => run.final

\* A retained count was measured for its pair, by the executable of its scope
\* and under the configuration and attributes of its fingerprint, although
\* all of them may change before, while and after it is measured.
SoundFacts(f) ==
    \A e \in Entries(f.diff.scopes) :
       LET v == ValueAt(f.diff.scopes, e)
       IN  v.stat = [pair |-> e[2], scope |-> e[1], fingerprint |-> v.fingerprint]
StatisticsSound == SoundFacts(facts) /\ (stored # Miss => SoundFacts(stored))

\* A file holds finitely many facts.
FiniteFacts(f) ==
    /\ IsFiniteSet(f.bases) /\ IsFiniteSet(f.distances)
    /\ IsFiniteSet(f.metadata) /\ IsFiniteSet(f.diff.trees)
    /\ IsFiniteSet(Scopes(f))
    /\ \A s \in Scopes(f) : IsFiniteSet(DOMAIN f.diff.scopes[s].values)

\* The facts that the first command finds are those of earlier ones.
ASSUME StoredAssumption ==
    \A f \in StoredFacts \ {Miss} :
       /\ DOMAIN f = DOMAIN NoFacts /\ DOMAIN f.diff = DOMAIN NoDiff
       /\ \A s \in Scopes(f) : DOMAIN f.diff.scopes[s] = {"used", "values"}
       /\ \A e \in Entries(f.diff.scopes) :
             DOMAIN ValueAt(f.diff.scopes, e) = {"stat", "fingerprint", "used"}
       /\ SoundFacts(f) /\ TypedFacts(f) /\ FiniteFacts(f)

\* Every row of the output is the count of its own layer, the trees of the
\* preceding branch point and of its own, under an executable, a configuration
\* and attributes each of which was live while the command ran: a reused count
\* is never one of a world that was over before the command began.
RowsAreTrue ==
    pc = "shown" =>
       \A l \in Layers(run.lanes) :
          LET lane == l[1]
              i == l[2]
              from == TreeOf[IF i < Len(lane.points) THEN lane.points[i + 1].oid ELSE lane.base]
              to == TreeOf[lane.points[i].oid]
              row == Row(l)
          IN  IF from = to THEN row = Zero
              ELSE /\ row # Zero
                   /\ row.pair = <<from, to>>
                   /\ <<"executable", row.scope>> \in lived
                   /\ <<"config", row.fingerprint.configuration>> \in lived
                   /\ \A p \in PathsOf[row.pair] :
                         <<p, row.fingerprint.attributes[p]>> \in lived

\* When some counts of an output were reused and others are fresh, all of them
\* are counts under one executable, one configuration and one set of attributes.
NeverMixed ==
    pc = "shown" /\ DOMAIN run.hits # {} /\ ~run.final =>
       \A t, u \in DOMAIN run.result :
          LET a == run.result[t]
              b == run.result[u]
          IN  /\ a.scope = b.scope
              /\ a.fingerprint.configuration = b.fingerprint.configuration
              /\ \A p \in PathsOf[t] \cap PathsOf[u] :
                    a.fingerprint.attributes[p] = b.fingerprint.attributes[p]

\* What a command has used survives compaction unless it alone exceeds the
\* limit, whatever was stored before: neither the tables, which share one order
\* of use, nor the scopes push out what is in use for what is not.
UsedKeys == run.used.bases \cup run.used.distances \cup run.used.metadata \cup run.used.trees
JustUsedSurvives ==
    [][Compact =>
          /\ Cardinality(UsedKeys) <= Limit =>
                /\ run.used.bases \subseteq facts'.bases
                /\ run.used.distances \subseteq facts'.distances
                /\ run.used.metadata \subseteq facts'.metadata
                /\ run.used.trees \subseteq facts'.diff.trees
          /\ Cardinality(run.used.entries) <= Limit =>
                run.used.entries \subseteq Entries(facts'.diff.scopes)]_vars

\* The loop of fit ends for every size of its entry: as long as it goes on there
\* is something left to give up, and each round gives up at least one answer,
\* also when there is only one to halve.
FitProgresses ==
    pc = "fit" /\ ~Fits(facts) /\ Answered(facts) > 0 =>
       LET next == IF HasDiff(facts) THEN DropDiff(facts)
                   ELSE IF facts.metadata # {} THEN HalveMetadata(facts)
                   ELSE HalveGraph(facts)
       IN  next # {} /\ \A f \in next : Answered(f) < Answered(facts)
=============================================================================
