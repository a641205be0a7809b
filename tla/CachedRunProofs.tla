-------------------------- MODULE CachedRunProofs --------------------------
(***************************************************************************)
(* What a command publishes and what it takes over from the store, for all *)
(* numbers of commands, backends, boundaries, inputs and questions.        *)
(***************************************************************************)
EXTENDS CachedRun, TLAPS

\* Where a command has a location, and what it has done since.
Opening == {"idle", "open", "choose", "choose replacements", "prepare", "uncached"}
Locating == {"grafts", "replacements", "boundary"}
Early == Opening \cup Locating
Located == Labels \ Early
HasBranches == Located \ {"branches"}
HasMain == HasBranches \ {"main"}
HasInputs == HasMain \ {"upstreams"}
Publishing == {"put facts", "put snapshot"}
BoundaryNext == {"same boundary"} \cup Publishing
ReplacementsNext == {"same replacements"} \cup BoundaryNext
GraftsNext == {"same grafts"} \cup ReplacementsNext
LocationNext == {"same location"} \cup GraftsNext
UpstreamsNext == {"same upstreams"} \cup LocationNext
MainNext == {"same main"} \cup UpstreamsNext
Rendered == {"rendered", "same branches"} \cup MainNext

\* A command at label, with variables r, whose history since it rendered is after,
\* has what the label calls for.
Captured(label, r) ==
    /\ label # "idle" =>
          /\ r.backend \in Backends
          /\ r.backend = "gix" => r.pinnedMain \in Mains
          /\ r.backend = "gix" /\ label # "open" => r.pinned \in Boundaries
          /\ r.native => r.backend = "gix"
    /\ label \in {"idle", "open"} => r.native = FALSE
    /\ label \in {"open", "choose", "choose replacements"} => r.backend = "gix"
    /\ label \in Locating \cup Located => r.main \in Mains
    /\ label \in Located => r.boundary \in Boundaries
    /\ label \in HasBranches => r.inputs.branches \in Branches
    /\ label \in HasMain => r.inputs.main \in Mains
    /\ label \in HasInputs => r.inputs.upstreams \in Upstreams

Answered(label, r) ==
    /\ label \in Rendered => r.found # Miss \/ Miss \notin Range(r.answers)
    /\ label = "put snapshot" => r.found = Miss

Confirmed(label, r, after, now) ==
    /\ label \in Rendered => now \in after
    /\ label \in MainNext => \E w \in after : w.branches = r.inputs.branches
    /\ label \in UpstreamsNext => r.main = r.inputs.main
    /\ label \in LocationNext => \E w \in after : w.upstreams = r.inputs.upstreams
    /\ label \in GraftsNext => \E w \in after : w.main = r.main
    /\ label \in ReplacementsNext => \E w \in after : ~w.graph.grafts
    /\ label \in BoundaryNext => \E w \in after : ~w.graph.replacements
    /\ label \in Publishing => \E w \in after : w.graph.boundary = r.boundary

Local(label, r, after, now) ==
    /\ Captured(label, r)
    /\ Answered(label, r)
    /\ Confirmed(label, r, after, now)

Files(c) ==
    /\ DOMAIN c = Names
    /\ \A n \in Names : c[n] # Miss =>
          \/ c[n].key \in FactsKey /\ c[n].value \in Facts
          \/ c[n].key \in SnapshotKey /\ c[n].value \in Snapshot

Shapes ==
    /\ world \in World
    /\ past \subseteq Graph
    /\ changes \in 0 .. MaxChanges
    /\ Files(cache)
    /\ pc \in [Procs -> Labels]
    /\ run \in [Procs -> Run]
    /\ lived \in [Procs -> SUBSET Graph]
    /\ later \in [Procs -> SUBSET World]

Inv ==
    /\ Shapes
    /\ \A p \in Procs : Local(pc[p], run[p], later[p], world)

-----------------------------------------------------------------------------
LEMMA NoRunType ==
  /\ NoRun \in Run
  /\ NoFacts \in Facts /\ Range(NoFacts) \subseteq {Miss}
  /\ NoRun.found = Miss /\ NoRun.original = NoFacts /\ NoRun.answers = [q \in Queries |-> Miss]
<1>1. NoFacts \in Facts /\ Range(NoFacts) \subseteq {Miss}
  BY DEF NoFacts, Facts, Range
<1>2. [q \in Queries |-> Miss] \in [Queries -> Unset(Graph)]
  BY DEF Unset
<1> HIDE DEF NoFacts
<1>3. NoRun \in Run
  BY <1>1, <1>2 DEF NoRun, Run, Unset
<1> QED
  BY <1>1, <1>3 DEF NoRun

\* Keys of facts and of snapshots are told apart by their fields.
LEMMA KeysApart ==
  /\ \A k \in FactsKey : k \notin SnapshotKey
  /\ \A b, c, i : [backend |-> b, boundary |-> c, inputs |-> i] \notin FactsKey
<1>1. \A k \in FactsKey : DOMAIN k = {"backend", "boundary"}
  BY DEF FactsKey
<1>2. \A k \in SnapshotKey : DOMAIN k = {"backend", "boundary", "inputs"}
  BY DEF SnapshotKey
<1>3. \A b, c, i : DOMAIN [backend |-> b, boundary |-> c, inputs |-> i] = {"backend", "boundary", "inputs"}
  OBVIOUS
<1>4. {"backend", "boundary"} # {"backend", "boundary", "inputs"}
  <2>1. "inputs" \notin {"backend", "boundary"} /\ "inputs" \in {"backend", "boundary", "inputs"}
    OBVIOUS
  <2> QED
    BY <2>1
<1> QED
  BY <1>1, <1>2, <1>3, <1>4

LEMMA PlainType == \A b \in Boundaries : Plain(b) \in Graph
BY DEF Plain, Graph

LEMMA PlainCut == \A b : [Plain(b) EXCEPT !.boundary = b] = Plain(b)
<1>1. ASSUME NEW b PROVE [Plain(b) EXCEPT !.boundary = b] = Plain(b)
  <2>1. Plain(b) = [x \in {"boundary", "grafts", "replacements"} |-> Plain(b)[x]]
    BY DEF Plain
  <2>2. Plain(b).boundary = b
    BY DEF Plain
  <2> HIDE DEF Plain
  <2> QED
    BY <2>1, <2>2
<1> QED
  BY <1>1

\* The parts of a graph.
Parts == {"boundary", "grafts", "replacements"}

\* A graph that has the parts of a plain one is that plain one.
LEMMA PlainParts ==
  ASSUME NEW g \in Graph
  PROVE  /\ DOMAIN g = Parts
         /\ \A b : (\A part \in Parts : g[part] = Plain(b)[part]) => g = Plain(b)
<1>1. DOMAIN g = Parts /\ g = [x \in Parts |-> g[x]]
  BY DEF Graph, Parts
<1>2. \A b : Plain(b) = [x \in Parts |-> Plain(b)[x]]
  BY DEF Plain, Parts
<1> QED
  BY <1>1, <1>2

LEMMA InvTyped == Inv => TypeOK
BY DEF Inv, Shapes, Files, TypeOK

LEMMA IdleLocal == \A after, now : Local("idle", NoRun, after, now)
BY DEF NoRun, Local, Captured, Answered, Confirmed, Located, Early, HasBranches, HasMain,
       HasInputs, Rendered, MainNext, UpstreamsNext, LocationNext, GraftsNext,
       ReplacementsNext, BoundaryNext, Opening, Locating, Publishing

LEMMA InitInv == Init => Inv
<1> SUFFICES ASSUME Init PROVE Inv
  OBVIOUS
<1>1. Shapes
  BY NoRunType, QueriesAssumption DEF Init, Shapes, Files, Labels
<1>2. \A p \in Procs : Local(pc[p], run[p], later[p], world)
  BY IdleLocal DEF Init
<1> QED
  BY <1>1, <1>2 DEF Inv

-----------------------------------------------------------------------------
\* A step of one command.
LEMMA StepInv ==
  ASSUME Inv, NEW p \in Procs, UNCHANGED repository, Files(cache'),
         NEW label \in Labels, NEW r \in Run, NEW alive \in SUBSET Graph, NEW after \in SUBSET World,
         pc' = [pc EXCEPT ![p] = label], run' = [run EXCEPT ![p] = r],
         lived' = [lived EXCEPT ![p] = alive], later' = [later EXCEPT ![p] = after],
         Local(label, r, after, world)
  PROVE  Inv'
<1>1. Shapes'
  BY DEF Inv, Shapes, repository
<1>2. \A q \in Procs : Local(pc'[q], run'[q], later'[q], world')
  <2> TAKE q \in Procs
  <2>1. CASE q = p
    BY <2>1 DEF Inv, Shapes, repository
  <2>2. CASE q # p
    BY <2>2 DEF Inv, Shapes, repository
  <2> QED
    BY <2>1, <2>2
<1> QED
  BY <1>1, <1>2 DEF Inv

\* Variables that stay are as if they were assigned what they are.
LEMMA Same == \A D, R : \A f \in [D -> R], x \in D : f = [f EXCEPT ![x] = f[x]]
OBVIOUS

\* A command ends.
LEMMA EndInv ==
  ASSUME Inv, NEW p \in Procs, UNCHANGED repository, Files(cache'), End(p)
  PROVE  Inv'
<1>1. "idle" \in Labels /\ {} \in SUBSET Graph /\ {} \in SUBSET World
  BY DEF Labels
<1> QED
  BY <1>1, NoRunType, IdleLocal, StepInv DEF End, Goto

\* A command goes on to a label.
LEMMA GotoInv ==
  ASSUME Inv, NEW p \in Procs, UNCHANGED repository, Files(cache'),
         NEW label \in Labels, Goto(p, label), UNCHANGED <<run, history>>,
         Local(label, run[p], later[p], world)
  PROVE  Inv'
<1>1. /\ run[p] \in Run /\ lived[p] \in SUBSET Graph /\ later[p] \in SUBSET World
      /\ run = [run EXCEPT ![p] = run[p]]
      /\ lived = [lived EXCEPT ![p] = lived[p]]
      /\ later = [later EXCEPT ![p] = later[p]]
  BY Same DEF Inv, Shapes
<1>2. run' = run /\ lived' = lived /\ later' = later
  BY DEF history
<1> HIDE DEF Inv
<1> QED
  BY <1>1, <1>2, StepInv DEF Goto

\* A command changes its variables on the way to a label.
LEMMA AssignInv ==
  ASSUME Inv, NEW p \in Procs, UNCHANGED repository, Files(cache'),
         NEW label \in Labels, Goto(p, label), NEW r \in Run, run' = [run EXCEPT ![p] = r],
         UNCHANGED history, Local(label, r, later[p], world)
  PROVE  Inv'
<1>1. /\ lived[p] \in SUBSET Graph /\ later[p] \in SUBSET World
      /\ lived = [lived EXCEPT ![p] = lived[p]]
      /\ later = [later EXCEPT ![p] = later[p]]
  BY Same DEF Inv, Shapes
<1>2. lived' = lived /\ later' = later
  BY DEF history
<1> QED
  BY <1>1, <1>2, StepInv DEF Goto

-----------------------------------------------------------------------------
LEMMA StartInv ==
  ASSUME Inv, NEW p \in Procs, NEW backend \in Backends, NEW mode \in Modes, Start(p, backend, mode)
  PROVE  Inv'
<1> DEFINE pinMain == IF backend = "gix" THEN world.main ELSE Miss
           label == IF backend = "gix" THEN "open" ELSE "prepare"
           r == [run[p] EXCEPT !.backend = backend, !.mode = mode, !.pinnedMain = pinMain]
<1>1. world.graph \in Graph /\ world.main \in Mains
  BY DEF Inv, Shapes, World
<1>2. pinMain \in Unset(Mains) /\ run[p] \in Run /\ (backend = "gix" => pinMain \in Mains)
  BY <1>1 DEF Unset, Inv, Shapes
<1> HIDE DEF pinMain
<1>3. r \in Run /\ r.backend = backend /\ r.pinnedMain = pinMain /\ r.native = run[p].native
  BY <1>2 DEF Run, Unset
<1>4. run' = [run EXCEPT ![p] = r]
  BY DEF Start, pinMain
<1>5. run[p].native = FALSE
  BY DEF Start, Inv, Local, Captured
<1> HIDE DEF r
<1>6. Local(label, r, later[p], world)
  BY <1>2, <1>3, <1>5 DEF Local, Captured, Answered, Confirmed, Located, Early, HasBranches, HasMain,
       HasInputs, Rendered, MainNext, UpstreamsNext, LocationNext, GraftsNext, ReplacementsNext,
       BoundaryNext, Opening, Locating, Publishing
<1>7. label \in Labels /\ Files(cache') /\ UNCHANGED repository
  BY DEF Labels, Start, Inv, Shapes
<1>8. later = [later EXCEPT ![p] = later[p]] /\ later[p] \in SUBSET World
  BY Same DEF Inv, Shapes
<1>9. pc' = [pc EXCEPT ![p] = label] /\ lived' = [lived EXCEPT ![p] = {world.graph}] /\ later' = later
  BY DEF Start, Goto
<1> HIDE DEF label
<1> QED
  BY <1>1, <1>3, <1>4, <1>6, <1>7, <1>8, <1>9, StepInv

LEMMA OpenInv ==
  ASSUME Inv, NEW p \in Procs, Open(p)
  PROVE  Inv'
<1> DEFINE r == [run[p] EXCEPT !.pinned = world.graph.boundary]
<1>1. /\ run[p] \in Run /\ pc[p] = "open" /\ Local("open", run[p], later[p], world)
      /\ world.graph.boundary \in Boundaries
  BY DEF Open, Inv, Shapes, World, Graph
<1>2. /\ r \in Run /\ r.backend = run[p].backend /\ r.pinned = world.graph.boundary
      /\ r.pinnedMain = run[p].pinnedMain /\ r.native = run[p].native
  BY <1>1 DEF Run, Unset
<1>3. run' = [run EXCEPT ![p] = r]
  BY DEF Open
<1> HIDE DEF r
<1>4. Local("choose", r, later[p], world)
  BY <1>1, <1>2 DEF Local, Captured, Answered, Confirmed, Located, Early, HasBranches, HasMain,
       HasInputs, Rendered, MainNext, UpstreamsNext, LocationNext, GraftsNext, ReplacementsNext,
       BoundaryNext, Opening, Locating, Publishing
<1>5. "choose" \in Labels /\ Files(cache') /\ UNCHANGED <<repository, history>>
  BY DEF Labels, Open, Inv, Shapes
<1> QED
  BY <1>2, <1>3, <1>4, <1>5, AssignInv DEF Open

LEMMA ChooseInv ==
  ASSUME Inv, NEW p \in Procs, Choose(p) \/ ChooseReplacements(p)
  PROVE  Inv'
<1>1. CASE Choose(p)
  <2> DEFINE label == IF world.graph.grafts THEN "prepare" ELSE "choose replacements"
  <2>1. Local("choose", run[p], later[p], world)
    BY <1>1 DEF Choose, Inv
  <2>2. label \in {"prepare", "choose replacements"}
    OBVIOUS
  <2>3. Goto(p, label) /\ Files(cache') /\ UNCHANGED <<repository, run, history>>
    BY <1>1 DEF Choose, Inv, Shapes
  <2> HIDE DEF label
  <2>4. Local(label, run[p], later[p], world)
    BY <2>1, <2>2 DEF Local, Captured, Answered, Confirmed, Located, Early, HasBranches, HasMain,
         HasInputs, Rendered, MainNext, UpstreamsNext, LocationNext, GraftsNext, ReplacementsNext,
         BoundaryNext, Opening, Locating, Publishing
  <2>5. label \in Labels
    BY <2>2 DEF Labels
  <2> QED
    BY <2>3, <2>4, <2>5, GotoInv
<1>2. CASE ChooseReplacements(p)
  <2> DEFINE new == ~world.graph.replacements
             r == [run[p] EXCEPT !.native = new]
  <2>1. /\ run[p] \in Run /\ new \in BOOLEAN /\ pc[p] = "choose replacements"
        /\ Local("choose replacements", run[p], later[p], world)
    BY <1>2 DEF ChooseReplacements, Inv, Shapes
  <2> HIDE DEF new
  <2>2. /\ r \in Run /\ r.backend = run[p].backend /\ r.pinned = run[p].pinned
        /\ r.pinnedMain = run[p].pinnedMain
    BY <2>1 DEF Run
  <2>3. run' = [run EXCEPT ![p] = r]
    BY <1>2 DEF ChooseReplacements, new
  <2> HIDE DEF r
  <2>4. Local("prepare", r, later[p], world)
    BY <2>1, <2>2 DEF Local, Captured, Answered, Confirmed, Located, Early, HasBranches, HasMain,
         HasInputs, Rendered, MainNext, UpstreamsNext, LocationNext, GraftsNext, ReplacementsNext,
         BoundaryNext, Opening, Locating, Publishing
  <2>5. "prepare" \in Labels /\ Files(cache') /\ UNCHANGED <<repository, history>>
    BY <1>2 DEF Labels, ChooseReplacements, Inv, Shapes
  <2> QED
    BY <1>2, <2>2, <2>3, <2>4, <2>5, AssignInv DEF ChooseReplacements
<1> QED
  BY <1>1, <1>2

\* A command that does without the store, or goes on without having learnt more
\* than that a graph is not altered.
LEMMA PlainStepsInv ==
  ASSUME Inv, NEW p \in Procs,
         PrepareClear(p) \/ Bypass(p) \/ LocateGrafts(p) \/ LocateReplacements(p)
  PROVE  Inv'
<1>1. /\ Local(pc[p], run[p], later[p], world) /\ UNCHANGED <<repository, run, history>>
      /\ Files(cache)
  BY DEF PrepareClear, Bypass, LocateGrafts, LocateReplacements, Inv, Shapes
<1>2. Files(cache')
  BY <1>1 DEF PrepareClear, Bypass, LocateGrafts, LocateReplacements, Files
<1>3. PICK label \in {"uncached", "replacements", "boundary"} :
         /\ Goto(p, label)
         /\ label = "uncached" => pc[p] \in {"prepare", "grafts", "replacements", "boundary"}
         /\ label # "uncached" => pc[p] \in {"grafts", "replacements"}
  BY DEF PrepareClear, Bypass, LocateGrafts, LocateReplacements
<1>4. Local(label, run[p], later[p], world)
  BY <1>1, <1>3 DEF Local, Captured, Answered, Confirmed, Located, Early, HasBranches, HasMain,
       HasInputs, Rendered, MainNext, UpstreamsNext, LocationNext, GraftsNext, ReplacementsNext,
       BoundaryNext, Opening, Locating, Publishing
<1>5. label \in Labels
  BY <1>3 DEF Labels
<1> QED
  BY <1>1, <1>2, <1>3, <1>4, <1>5, GotoInv

LEMMA LocateInv ==
  ASSUME Inv, NEW p \in Procs, LocateMain(p) \/ LocateBoundary(p)
  PROVE  Inv'
<1>1. /\ run[p] \in Run /\ Local(pc[p], run[p], later[p], world)
      /\ UNCHANGED <<repository, history>> /\ Files(cache')
      /\ world.graph.boundary \in Boundaries /\ world.main \in Mains
  BY DEF LocateMain, LocateBoundary, Inv, Shapes, World, Graph
<1>2. CASE LocateMain(p)
  <2> DEFINE r == [run[p] EXCEPT !.main = world.main]
  <2>1. /\ r \in Run /\ r.backend = run[p].backend /\ r.pinned = run[p].pinned
        /\ r.pinnedMain = run[p].pinnedMain /\ r.native = run[p].native
        /\ r.main \in Mains
    BY <1>1 DEF Run, Unset
  <2>2. run' = [run EXCEPT ![p] = r]
    BY <1>2 DEF LocateMain
  <2> HIDE DEF r
  <2>3. Local("grafts", r, later[p], world)
    BY <1>1, <1>2, <2>1 DEF LocateMain, Local, Captured, Answered, Confirmed, Located, Early, HasBranches, HasMain,
         HasInputs, Rendered, MainNext, UpstreamsNext, LocationNext, GraftsNext, ReplacementsNext,
         BoundaryNext, Opening, Locating, Publishing
  <2>4. "grafts" \in Labels
    BY DEF Labels
  <2> QED
    BY <1>1, <1>2, <2>1, <2>2, <2>3, <2>4, AssignInv DEF LocateMain
<1>3. CASE LocateBoundary(p)
  <2> DEFINE r == [run[p] EXCEPT !.boundary = world.graph.boundary]
  <2>1. /\ r \in Run /\ r.backend = run[p].backend /\ r.pinned = run[p].pinned
        /\ r.pinnedMain = run[p].pinnedMain /\ r.native = run[p].native
        /\ r.main = run[p].main /\ r.boundary \in Boundaries
    BY <1>1 DEF Run, Unset
  <2>2. run' = [run EXCEPT ![p] = r]
    BY <1>3 DEF LocateBoundary
  <2> HIDE DEF r
  <2>3. Local("branches", r, later[p], world)
    BY <1>1, <1>3, <2>1 DEF LocateBoundary, Local, Captured, Answered, Confirmed, Located, Early, HasBranches, HasMain,
         HasInputs, Rendered, MainNext, UpstreamsNext, LocationNext, GraftsNext, ReplacementsNext,
         BoundaryNext, Opening, Locating, Publishing
  <2>4. "branches" \in Labels
    BY DEF Labels
  <2> QED
    BY <1>1, <1>3, <2>1, <2>2, <2>3, <2>4, AssignInv DEF LocateBoundary
<1> QED
  BY <1>2, <1>3

\* What the backend says of the main branch is one of its values.
LEMMA MainSeenType ==
  ASSUME Inv, NEW p \in Procs, pc[p] # "idle"
  PROVE  MainSeen(p) \in Mains
BY DEF MainSeen, Inv, Shapes, World, Local, Captured

LEMMA CaptureInv ==
  ASSUME Inv, NEW p \in Procs, CaptureBranches(p) \/ CaptureMain(p) \/ CaptureUpstreams(p)
  PROVE  Inv'
<1>1. /\ run[p] \in Run /\ Local(pc[p], run[p], later[p], world)
      /\ UNCHANGED <<repository, history>> /\ Files(cache')
  BY DEF CaptureBranches, CaptureMain, CaptureUpstreams, Inv, Shapes
<1>2. world.branches \in Branches /\ world.upstreams \in Upstreams
  BY DEF Inv, Shapes, World
<1>3. CASE CaptureBranches(p)
  <2> DEFINE r == [run[p] EXCEPT !.inputs.branches = world.branches]
  <2>1. /\ r \in Run /\ r.backend = run[p].backend /\ r.pinned = run[p].pinned
        /\ r.pinnedMain = run[p].pinnedMain /\ r.native = run[p].native
        /\ r.boundary = run[p].boundary /\ r.main = run[p].main
        /\ r.inputs.branches = world.branches
    BY <1>1, <1>2 DEF Run, Unset
  <2>2. run' = [run EXCEPT ![p] = r]
    BY <1>3 DEF CaptureBranches
  <2> HIDE DEF r
  <2>3. Local("main", r, later[p], world)
    BY <1>1, <1>2, <1>3, <2>1 DEF CaptureBranches, Local, Captured, Answered, Confirmed, Located, Early,
         HasBranches, HasMain, HasInputs, Rendered, MainNext, UpstreamsNext, LocationNext, GraftsNext,
       ReplacementsNext, BoundaryNext, Opening, Locating, Publishing, Labels
  <2>4. "main" \in Labels
    BY DEF Labels
  <2> QED
    BY <1>1, <1>3, <2>1, <2>2, <2>3, <2>4, AssignInv DEF CaptureBranches
<1>4. CASE CaptureMain(p)
  <2> DEFINE m == MainSeen(p)
             r == [run[p] EXCEPT !.inputs.main = m]
  <2>1. m \in Mains
    BY <1>4, MainSeenType DEF CaptureMain
  <2>2. run' = [run EXCEPT ![p] = r]
    BY <1>4 DEF CaptureMain
  <2> HIDE DEF m
  <2>3. /\ r \in Run /\ r.backend = run[p].backend /\ r.pinned = run[p].pinned
        /\ r.pinnedMain = run[p].pinnedMain /\ r.native = run[p].native
        /\ r.boundary = run[p].boundary /\ r.main = run[p].main
        /\ r.inputs.branches = run[p].inputs.branches /\ r.inputs.main = m
    BY <1>1, <2>1 DEF Run, Unset
  <2> HIDE DEF r
  <2>4. Local("upstreams", r, later[p], world)
    BY <1>1, <1>4, <2>1, <2>3 DEF CaptureMain, Local, Captured, Answered, Confirmed, Located, Early,
         HasBranches, HasMain, HasInputs, Rendered, MainNext, UpstreamsNext, LocationNext, GraftsNext,
       ReplacementsNext, BoundaryNext, Opening, Locating, Publishing, Labels
  <2>5. "upstreams" \in Labels
    BY DEF Labels
  <2> QED
    BY <1>1, <1>4, <2>2, <2>3, <2>4, <2>5, AssignInv DEF CaptureMain
<1>5. CASE CaptureUpstreams(p)
  <2> DEFINE r == [run[p] EXCEPT !.inputs.upstreams = world.upstreams]
             label == IF run[p].mode = "refresh" THEN "analyse" ELSE "snapshot"
  <2>1. /\ r \in Run /\ r.backend = run[p].backend /\ r.pinned = run[p].pinned
        /\ r.pinnedMain = run[p].pinnedMain /\ r.native = run[p].native
        /\ r.boundary = run[p].boundary /\ r.main = run[p].main
        /\ r.inputs.branches = run[p].inputs.branches /\ r.inputs.main = run[p].inputs.main
        /\ r.inputs.upstreams = world.upstreams
    BY <1>1, <1>2 DEF Run, Unset
  <2>2. run' = [run EXCEPT ![p] = r]
    BY <1>5 DEF CaptureUpstreams
  <2> HIDE DEF r
  <2>3. label \in {"analyse", "snapshot"}
    OBVIOUS
  <2>4. Goto(p, label)
    BY <1>5 DEF CaptureUpstreams
  <2> HIDE DEF label
  <2>5. Local(label, r, later[p], world)
    BY <1>1, <1>2, <1>5, <2>1, <2>3 DEF CaptureUpstreams, Local, Captured, Answered, Confirmed, Located, Early,
         HasBranches, HasMain, HasInputs, Rendered, MainNext, UpstreamsNext, LocationNext, GraftsNext,
       ReplacementsNext, BoundaryNext, Opening, Locating, Publishing, Labels
  <2>6. label \in Labels
    BY <2>3 DEF Labels
  <2> QED
    BY <1>1, <2>1, <2>2, <2>4, <2>5, <2>6, AssignInv
<1> QED
  BY <1>3, <1>4, <1>5

-----------------------------------------------------------------------------
\* The keys a command reads and publishes under.
LEMMA KeysType ==
  ASSUME Inv, NEW p \in Procs, pc[p] \in HasInputs
  PROVE  /\ FactsKeyOf(p) \in FactsKey /\ SnapshotKeyOf(p) \in SnapshotKey
         /\ run[p].inputs \in Inputs /\ run[p].boundary \in Boundaries
<1>1. run[p] \in Run /\ Captured(pc[p], run[p])
  BY DEF Inv, Shapes, Local
<1>2. pc[p] \in Located /\ pc[p] \in HasBranches /\ pc[p] \in HasMain /\ pc[p] # "idle"
  BY DEF HasInputs, HasMain, HasBranches, Located, Early, Opening, Locating
<1>3. run[p].backend \in Backends /\ run[p].boundary \in Boundaries
      /\ run[p].inputs.branches \in Branches /\ run[p].inputs.main \in Mains
      /\ run[p].inputs.upstreams \in Upstreams
  BY <1>1, <1>2 DEF Captured
<1>4. run[p].inputs \in Inputs
  BY <1>1, <1>3 DEF Run, Inputs
<1> QED
  BY <1>3, <1>4 DEF FactsKeyOf, SnapshotKeyOf, FactsKey, SnapshotKey

\* An answer is the value of an entry that is stored under its key.
LEMMA AnswerStored ==
  ASSUME NEW k \in FactsKey \cup SnapshotKey, Store!Answer(k) # Miss
  PROVE  \E n \in Names : cache[n] # Miss /\ cache[n].key = k /\ cache[n].value = Store!Answer(k)
<1>1. NameOf[k] \in Names
  BY NamesAssumption
<1> QED
  BY <1>1 DEF Store!Answer

LEMMA AnswerType ==
  ASSUME Inv
  PROVE  /\ \A k \in FactsKey : Store!Answer(k) # Miss => Store!Answer(k) \in Facts
         /\ \A k \in SnapshotKey : Store!Answer(k) # Miss => Store!Answer(k) \in Snapshot
BY AnswerStored, KeysApart DEF Inv, Shapes, Files

LEMMA ReadSnapshotInv ==
  ASSUME Inv, NEW p \in Procs, ReadSnapshot(p)
  PROVE  Inv'
<1> DEFINE e == Store!Answer(SnapshotKeyOf(p))
           r == [run[p] EXCEPT !.found = e]
<1>1. /\ run[p] \in Run /\ Local("snapshot", run[p], later[p], world) /\ pc[p] \in HasInputs
      /\ UNCHANGED <<repository, history>> /\ Files(cache')
  BY DEF ReadSnapshot, Inv, Shapes, HasInputs, HasMain, HasBranches, Located, Early, Opening, Locating, Labels
<1>2. e \in Unset(Snapshot)
  BY <1>1, KeysType, AnswerType DEF Unset
<1>3. run' = [run EXCEPT ![p] = r] /\ Goto(p, "facts") /\ "facts" \in Labels
  BY DEF ReadSnapshot, Labels
<1> HIDE DEF e
<1>4. /\ r \in Run /\ r.backend = run[p].backend /\ r.pinned = run[p].pinned
      /\ r.pinnedMain = run[p].pinnedMain /\ r.native = run[p].native
      /\ r.boundary = run[p].boundary /\ r.main = run[p].main /\ r.inputs = run[p].inputs
  BY <1>1, <1>2 DEF Run
<1> HIDE DEF r
<1>5. Local("facts", r, later[p], world)
  BY <1>1, <1>4 DEF Local, Captured, Answered, Confirmed, Located, Early,
       HasBranches, HasMain, HasInputs, Rendered, MainNext, UpstreamsNext, LocationNext, GraftsNext,
       ReplacementsNext, BoundaryNext, Opening, Locating, Publishing, Labels
<1> QED
  BY <1>1, <1>3, <1>4, <1>5, AssignInv

LEMMA ReadFactsInv ==
  ASSUME Inv, NEW p \in Procs, ReadFacts(p)
  PROVE  Inv'
<1> DEFINE stored == Store!Answer(FactsKeyOf(p))
           facts == IF stored = Miss THEN NoFacts ELSE stored
           known == [q \in Queries |-> IF q \in Persisted THEN facts[q] ELSE Miss]
           r == [run[p] EXCEPT !.original = facts, !.answers = known]
<1>1. /\ run[p] \in Run /\ Local("facts", run[p], later[p], world) /\ pc[p] \in HasInputs
      /\ UNCHANGED <<repository, history>> /\ Files(cache')
  BY DEF ReadFacts, Inv, Shapes, HasInputs, HasMain, HasBranches, Located, Early, Opening, Locating, Labels
<1>2. facts \in Facts
  BY <1>1, KeysType, AnswerType, NoRunType
<1>3. run' = [run EXCEPT ![p] = r] /\ Goto(p, "analyse") /\ "analyse" \in Labels
  BY DEF ReadFacts, Labels
<1> HIDE DEF facts
<1>4. known \in [Queries -> Unset(Graph)]
  BY <1>2 DEF Facts, Unset
<1> HIDE DEF known
<1>5. /\ r \in Run /\ r.backend = run[p].backend /\ r.pinned = run[p].pinned
      /\ r.pinnedMain = run[p].pinnedMain /\ r.native = run[p].native
      /\ r.boundary = run[p].boundary /\ r.main = run[p].main /\ r.inputs = run[p].inputs
  BY <1>1, <1>2, <1>4 DEF Run
<1> HIDE DEF r
<1>6. Local("analyse", r, later[p], world)
  BY <1>1, <1>5 DEF Local, Captured, Answered, Confirmed, Located, Early,
       HasBranches, HasMain, HasInputs, Rendered, MainNext, UpstreamsNext, LocationNext, GraftsNext,
       ReplacementsNext, BoundaryNext, Opening, Locating, Publishing, Labels
<1> QED
  BY <1>1, <1>3, <1>5, <1>6, AssignInv

\* Whatever is asked, the answer is computed on some graph.
LEMMA InterpretationsType ==
  ASSUME Inv, NEW p \in Procs, pc[p] # "idle"
  PROVE  Interpretations(p) \subseteq Graph
<1>1. world.graph \in Graph
  BY DEF Inv, Shapes, World
<1>2. run[p].native => run[p].pinned \in Boundaries
  BY DEF Inv, Shapes, Local, Captured
<1>3. run[p].native => [world.graph EXCEPT !.boundary = run[p].pinned] \in Graph
  BY <1>1, <1>2 DEF Graph
<1> QED
  BY <1>1, <1>3 DEF Interpretations

LEMMA AskInv ==
  ASSUME Inv, NEW p \in Procs, NEW q \in Queries, Ask(p, q)
  PROVE  Inv'
<1>1. PICK g \in Interpretations(p) : run' = [run EXCEPT ![p].answers[q] = g]
  BY DEF Ask
<1> DEFINE known == [run[p].answers EXCEPT ![q] = g]
           r == [run[p] EXCEPT !.answers = known]
<1>2. /\ run[p] \in Run /\ Local("analyse", run[p], later[p], world) /\ pc[p] = "analyse"
      /\ UNCHANGED <<repository, history, pc>> /\ Files(cache')
  BY DEF Ask, Inv, Shapes
<1>3. g \in Graph
  BY <1>2, InterpretationsType
<1>4. known \in [Queries -> Unset(Graph)]
  BY <1>2, <1>3 DEF Run, Unset
<1>5. run' = [run EXCEPT ![p] = r]
  BY <1>1
<1> HIDE DEF known
<1>6. /\ r \in Run /\ r.backend = run[p].backend /\ r.pinned = run[p].pinned
      /\ r.pinnedMain = run[p].pinnedMain /\ r.native = run[p].native
      /\ r.boundary = run[p].boundary /\ r.main = run[p].main /\ r.inputs = run[p].inputs
  BY <1>2, <1>4 DEF Run
<1> HIDE DEF r
<1>7. Local("analyse", r, later[p], world)
  BY <1>2, <1>6 DEF Local, Captured, Answered, Confirmed, Located, Early,
       HasBranches, HasMain, HasInputs, Rendered, MainNext, UpstreamsNext, LocationNext, GraftsNext,
       ReplacementsNext, BoundaryNext, Opening, Locating, Publishing, Labels
<1>8. "analyse" \in Labels
  BY DEF Labels
<1>9. pc = [pc EXCEPT ![p] = pc[p]]
  BY Same DEF Inv, Shapes
<1>10. Goto(p, "analyse")
  BY <1>2, <1>9 DEF Goto
<1> QED
  BY <1>2, <1>5, <1>6, <1>7, <1>8, <1>10, AssignInv

LEMMA RenderInv ==
  ASSUME Inv, NEW p \in Procs, Render(p)
  PROVE  Inv'
<1>1. /\ run[p] \in Run /\ Local("analyse", run[p], later[p], world)
      /\ lived[p] \in SUBSET Graph /\ world \in World /\ Files(cache')
      /\ run = [run EXCEPT ![p] = run[p]] /\ lived = [lived EXCEPT ![p] = lived[p]]
  BY Same DEF Render, Inv, Shapes
<1>2. /\ UNCHANGED <<run, lived, repository>> /\ later' = [later EXCEPT ![p] = {world}]
      /\ pc' = [pc EXCEPT ![p] = "rendered"] /\ "rendered" \in Labels
      /\ run[p].found # Miss \/ Miss \notin Range(run[p].answers)
  BY DEF Render, Goto, Hit, Labels
<1>3. Local("rendered", run[p], {world}, world)
  BY <1>1, <1>2 DEF Local, Captured, Answered, Confirmed, Located, Early,
       HasBranches, HasMain, HasInputs, Rendered, MainNext, UpstreamsNext, LocationNext, GraftsNext,
       ReplacementsNext, BoundaryNext, Opening, Locating, Publishing, Labels
<1>4. {world} \in SUBSET World
  BY <1>1
<1> QED
  BY <1>1, <1>2, <1>3, <1>4, StepInv

LEMMA RevalidateInv ==
  ASSUME Inv, NEW p \in Procs,
         \/ Decide(p) \/ SameBranches(p) \/ SameMain(p) \/ SameUpstreams(p)
         \/ SameLocation(p) \/ SameGrafts(p) \/ SameReplacements(p) \/ SameBoundary(p)
  PROVE  Inv'
<1>1. /\ UNCHANGED repository /\ Files(cache') /\ Local(pc[p], run[p], later[p], world)
  BY DEF Decide, SameBranches, SameMain, SameUpstreams, SameLocation, SameGrafts,
         SameReplacements, SameBoundary, Check, Inv, Shapes
<1>2. CASE End(p)
  BY <1>1, <1>2, EndInv
<1>3. ASSUME ~End(p), Decide(p)
      PROVE  Inv'
  <2>1. Goto(p, "same branches") /\ UNCHANGED <<run, history>> /\ pc[p] = "rendered"
    BY <1>3 DEF Decide
  <2>2. Local("same branches", run[p], later[p], world) /\ "same branches" \in Labels
    BY <1>1, <2>1 DEF Local, Captured, Answered, Confirmed, Located, Early,
         HasBranches, HasMain, HasInputs, Rendered, MainNext, UpstreamsNext, LocationNext, GraftsNext,
       ReplacementsNext, BoundaryNext, Opening, Locating, Publishing, Labels
  <2> QED
    BY <1>1, <2>1, <2>2, GotoInv
<1>4. ASSUME ~End(p), SameBranches(p)
      PROVE  Inv'
  <2>1. Goto(p, "same main") /\ UNCHANGED <<run, history>> /\ pc[p] = "same branches"
        /\ world.branches = run[p].inputs.branches
    BY <1>4 DEF SameBranches, Check
  <2>2. Local("same main", run[p], later[p], world) /\ "same main" \in Labels
    BY <1>1, <2>1 DEF Local, Captured, Answered, Confirmed, Located, Early,
         HasBranches, HasMain, HasInputs, Rendered, MainNext, UpstreamsNext, LocationNext, GraftsNext,
       ReplacementsNext, BoundaryNext, Opening, Locating, Publishing, Labels
  <2> QED
    BY <1>1, <2>1, <2>2, GotoInv
<1>5. ASSUME ~End(p), SameMain(p)
      PROVE  Inv'
  <2>1. Goto(p, "same upstreams") /\ UNCHANGED <<run, history>> /\ pc[p] = "same main"
        /\ run[p].main = run[p].inputs.main
    BY <1>5 DEF SameMain, Check
  <2>2. Local("same upstreams", run[p], later[p], world) /\ "same upstreams" \in Labels
    BY <1>1, <2>1 DEF Local, Captured, Answered, Confirmed, Located, Early,
         HasBranches, HasMain, HasInputs, Rendered, MainNext, UpstreamsNext, LocationNext, GraftsNext,
       ReplacementsNext, BoundaryNext, Opening, Locating, Publishing, Labels
  <2> QED
    BY <1>1, <2>1, <2>2, GotoInv
<1>6. ASSUME ~End(p), SameUpstreams(p)
      PROVE  Inv'
  <2>1. Goto(p, "same location") /\ UNCHANGED <<run, history>> /\ pc[p] = "same upstreams"
        /\ world.upstreams = run[p].inputs.upstreams
    BY <1>6 DEF SameUpstreams, Check
  <2>2. Local("same location", run[p], later[p], world) /\ "same location" \in Labels
    BY <1>1, <2>1 DEF Local, Captured, Answered, Confirmed, Located, Early,
         HasBranches, HasMain, HasInputs, Rendered, MainNext, UpstreamsNext, LocationNext, GraftsNext,
       ReplacementsNext, BoundaryNext, Opening, Locating, Publishing, Labels
  <2> QED
    BY <1>1, <2>1, <2>2, GotoInv
<1>7. ASSUME ~End(p), SameLocation(p)
      PROVE  Inv'
  <2>1. Goto(p, "same grafts") /\ UNCHANGED <<run, history>> /\ pc[p] = "same location"
        /\ world.main = run[p].main
    BY <1>7 DEF SameLocation, Check
  <2>2. Local("same grafts", run[p], later[p], world) /\ "same grafts" \in Labels
    BY <1>1, <2>1 DEF Local, Captured, Answered, Confirmed, Located, Early,
         HasBranches, HasMain, HasInputs, Rendered, MainNext, UpstreamsNext, LocationNext, GraftsNext,
         ReplacementsNext, BoundaryNext, Opening, Locating, Publishing, Labels
  <2> QED
    BY <1>1, <2>1, <2>2, GotoInv
<1>8. ASSUME ~End(p), SameGrafts(p)
      PROVE  Inv'
  <2>1. Goto(p, "same replacements") /\ UNCHANGED <<run, history>> /\ pc[p] = "same grafts"
        /\ ~world.graph.grafts
    BY <1>8 DEF SameGrafts, Check
  <2>2. Local("same replacements", run[p], later[p], world) /\ "same replacements" \in Labels
    BY <1>1, <2>1 DEF Local, Captured, Answered, Confirmed, Located, Early,
         HasBranches, HasMain, HasInputs, Rendered, MainNext, UpstreamsNext, LocationNext, GraftsNext,
         ReplacementsNext, BoundaryNext, Opening, Locating, Publishing, Labels
  <2> QED
    BY <1>1, <2>1, <2>2, GotoInv
<1>9. ASSUME ~End(p), SameReplacements(p)
      PROVE  Inv'
  <2>1. Goto(p, "same boundary") /\ UNCHANGED <<run, history>> /\ pc[p] = "same replacements"
        /\ ~world.graph.replacements
    BY <1>9 DEF SameReplacements, Check
  <2>2. Local("same boundary", run[p], later[p], world) /\ "same boundary" \in Labels
    BY <1>1, <2>1 DEF Local, Captured, Answered, Confirmed, Located, Early,
         HasBranches, HasMain, HasInputs, Rendered, MainNext, UpstreamsNext, LocationNext, GraftsNext,
         ReplacementsNext, BoundaryNext, Opening, Locating, Publishing, Labels
  <2> QED
    BY <1>1, <2>1, <2>2, GotoInv
<1>10. ASSUME ~End(p), SameBoundary(p)
      PROVE  Inv'
  <2>1. Goto(p, "put facts") /\ UNCHANGED <<run, history>> /\ pc[p] = "same boundary"
        /\ world.graph.boundary = run[p].boundary
    BY <1>10 DEF SameBoundary, Check
  <2>2. Local("put facts", run[p], later[p], world) /\ "put facts" \in Labels
    BY <1>1, <2>1 DEF Local, Captured, Answered, Confirmed, Located, Early,
         HasBranches, HasMain, HasInputs, Rendered, MainNext, UpstreamsNext, LocationNext, GraftsNext,
         ReplacementsNext, BoundaryNext, Opening, Locating, Publishing, Labels
  <2> QED
    BY <1>1, <2>1, <2>2, GotoInv
<1> QED
  BY <1>2, <1>3, <1>4, <1>5, <1>6, <1>7, <1>8, <1>9, <1>10

-----------------------------------------------------------------------------
\* A store to which an entry of the right kind is published.
LEMMA FilesPublished ==
  ASSUME Files(cache), NEW e, Store!Publish(e),
         \/ e.key \in FactsKey /\ e.value \in Facts
         \/ e.key \in SnapshotKey /\ e.value \in Snapshot
  PROVE  /\ Files(cache')
         /\ \A n \in Names : cache'[n] = cache[n] \/ cache'[n] = e
BY DEF Files, Store!Publish

LEMMA FilesDiscarded ==
  ASSUME Files(cache), NEW n, Store!Discard(n)
  PROVE  /\ Files(cache')
         /\ \A m \in Names : cache'[m] = cache[m] \/ cache'[m] = Miss
BY DEF Files, Store!Discard

\* What a command has learnt, and the entries it makes of it.
LEMMA EntryTypes ==
  ASSUME Inv, NEW p \in Procs, pc[p] \in Publishing
  PROVE  /\ FactsKeyOf(p) \in FactsKey /\ SnapshotKeyOf(p) \in SnapshotKey
         /\ KnownFacts(p) \in Facts
         /\ pc[p] = "put snapshot" => Neutral(p) \in Snapshot /\ Miss \notin Range(run[p].answers)
<1>1. pc[p] \in HasInputs /\ pc[p] \in Rendered
  BY DEF Publishing, HasInputs, HasMain, HasBranches, Located, Early, Opening, Locating, Labels, Rendered, MainNext,
         UpstreamsNext, LocationNext, GraftsNext, ReplacementsNext, BoundaryNext, Opening, Locating
<1>2. run[p].answers \in [Queries -> Unset(Graph)] /\ Answered(pc[p], run[p])
  BY DEF Inv, Shapes, Run, Local
<1>3. KnownFacts(p) \in Facts
  BY <1>2, QueriesAssumption DEF KnownFacts, Facts, Unset
<1>4. pc[p] = "put snapshot" => Miss \notin Range(run[p].answers)
  BY <1>1, <1>2 DEF Answered
<1>5. Range(run[p].answers) \subseteq Unset(Graph)
  BY <1>2 DEF Range
<1>6. run[p].inputs \in Inputs
  BY <1>1, KeysType
<1> QED
  BY <1>1, <1>3, <1>4, <1>5, <1>6, KeysType DEF Neutral, Snapshot, Unset

LEMMA PutInv ==
  ASSUME Inv, NEW p \in Procs, PutFacts(p) \/ PutSnapshot(p)
  PROVE  Inv'
<1>1. /\ Files(cache) /\ Local(pc[p], run[p], later[p], world) /\ UNCHANGED repository
      /\ pc[p] \in Publishing
  BY DEF Inv, Shapes, PutFacts, PutSnapshot, Publishing
<1>2. Files(cache')
  <2>1. CASE UNCHANGED cache
    BY <1>1, <2>1
  <2>2. CASE Store!Publish([key |-> FactsKeyOf(p), value |-> KnownFacts(p)])
    <3> DEFINE e == [key |-> FactsKeyOf(p), value |-> KnownFacts(p)]
    <3>1. e.key \in FactsKey /\ e.value \in Facts
      BY <1>1, EntryTypes
    <3> HIDE DEF e
    <3>2. Store!Publish(e)
      BY <2>2 DEF e
    <3> QED
      BY <1>1, <3>1, <3>2, FilesPublished
  <2>3. CASE pc[p] = "put snapshot" /\ Store!Publish([key |-> SnapshotKeyOf(p), value |-> Neutral(p)])
    <3> DEFINE e == [key |-> SnapshotKeyOf(p), value |-> Neutral(p)]
    <3>1. e.key \in SnapshotKey /\ e.value \in Snapshot
      BY <1>1, <2>3, EntryTypes
    <3> HIDE DEF e
    <3>2. Store!Publish(e)
      BY <2>3 DEF e
    <3> QED
      BY <1>1, <3>1, <3>2, FilesPublished
  <2> QED
    BY <2>1, <2>2, <2>3 DEF PutFacts, PutSnapshot
<1>3. CASE End(p)
  BY <1>1, <1>2, <1>3, EndInv
<1>4. CASE ~End(p)
  <2>1. pc[p] = "put facts" /\ run[p].found = Miss /\ Goto(p, "put snapshot") /\ UNCHANGED <<run, history>>
    BY <1>4 DEF PutFacts, PutSnapshot, Hit
  <2>2. Local("put snapshot", run[p], later[p], world) /\ "put snapshot" \in Labels
    BY <1>1, <2>1 DEF Local, Captured, Answered, Confirmed, Located, Early,
         HasBranches, HasMain, HasInputs, Rendered, MainNext, UpstreamsNext, LocationNext, GraftsNext,
       ReplacementsNext, BoundaryNext, Opening, Locating, Publishing, Labels
  <2> QED
    BY <1>1, <1>2, <2>1, <2>2, GotoInv
<1> QED
  BY <1>3, <1>4

LEMMA StopInv ==
  ASSUME Inv, NEW p \in Procs, Uncached(p) \/ Stop(p)
  PROVE  Inv'
<1>1. UNCHANGED repository /\ Files(cache') /\ End(p)
  BY DEF Uncached, Stop, Inv, Shapes
<1> QED
  BY <1>1, EndInv

\* The repository changes under a command, which takes note of it.
LEMMA ChangeTypes ==
  ASSUME Inv, Change
  PROVE  /\ world' \in World /\ past' \subseteq Graph /\ changes' \in 0 .. MaxChanges
         /\ lived' \in [Procs -> SUBSET Graph] /\ later' \in [Procs -> SUBSET World]
         /\ \A p \in Procs : later[p] \subseteq later'[p]
                             /\ (later[p] # {} => world' \in later'[p])
<1>1. world \in World /\ world.graph \in Graph /\ past \subseteq Graph
  BY DEF Inv, Shapes, World
<1>2. changes' \in 0 .. MaxChanges
  BY QueriesAssumption DEF Change, Inv, Shapes
<1>3. world' \in World /\ past' \subseteq Graph
  <2>1. ASSUME NEW g \in Graph, world' = [world EXCEPT !.graph = g], past' = past \cup {world.graph}
        PROVE  world' \in World /\ past' \subseteq Graph
    BY <1>1, <2>1 DEF World
  <2>2. ASSUME NEW b \in Branches, world' = [world EXCEPT !.branches = b]
        PROVE  world' \in World
    BY <1>1, <2>2 DEF World
  <2>3. ASSUME NEW m \in Mains, world' = [world EXCEPT !.main = m]
        PROVE  world' \in World
    BY <1>1, <2>3 DEF World
  <2>4. ASSUME NEW u \in Upstreams, world' = [world EXCEPT !.upstreams = u]
        PROVE  world' \in World
    BY <1>1, <2>4 DEF World
  <2> QED
    BY <1>1, <2>1, <2>2, <2>3, <2>4 DEF Change
<1>4. world'.graph \in Graph
  BY <1>3 DEF World
<1>5. lived' \in [Procs -> SUBSET Graph] /\ later' \in [Procs -> SUBSET World]
  BY <1>3, <1>4 DEF Change, Inv, Shapes
<1>6. \A p \in Procs : later[p] \subseteq later'[p] /\ (later[p] # {} => world' \in later'[p])
  BY DEF Change
<1> QED
  BY <1>2, <1>3, <1>5, <1>6

LEMMA ChangeInv == ASSUME Inv, Change PROVE Inv'
<1>1. UNCHANGED <<cache, pc, run>>
  BY DEF Change
<1>2. Shapes'
  BY <1>1, ChangeTypes DEF Inv, Shapes
<1>3. ASSUME NEW p \in Procs
      PROVE  Local(pc[p], run[p], later'[p], world')
  <2>1. Local(pc[p], run[p], later[p], world)
    BY DEF Inv
  <2>2. Confirmed(pc[p], run[p], later'[p], world')
    BY <2>1, ChangeTypes DEF Local, Confirmed
  <2> QED
    BY <2>1, <2>2 DEF Local
<1> QED
  BY <1>1, <1>2, <1>3 DEF Inv

LEMMA NextInv == Inv /\ [Next]_vars => Inv'
<1> SUFFICES ASSUME Inv, [Next]_vars PROVE Inv'
  OBVIOUS
<1>1. ASSUME NEW p \in Procs,
             \/ \E b \in Backends, m \in Modes : Start(p, b, m)
             \/ Open(p) \/ Choose(p) \/ ChooseReplacements(p)
             \/ PrepareClear(p) \/ Bypass(p) \/ Uncached(p)
             \/ LocateMain(p) \/ LocateGrafts(p)
             \/ LocateReplacements(p) \/ LocateBoundary(p)
             \/ CaptureBranches(p) \/ CaptureMain(p) \/ CaptureUpstreams(p)
             \/ ReadSnapshot(p) \/ ReadFacts(p)
             \/ \E q \in Queries : Ask(p, q)
             \/ Render(p) \/ Decide(p)
             \/ SameBranches(p) \/ SameMain(p) \/ SameUpstreams(p)
             \/ SameLocation(p) \/ SameGrafts(p)
             \/ SameReplacements(p) \/ SameBoundary(p)
             \/ PutFacts(p) \/ PutSnapshot(p)
             \/ Stop(p)
      PROVE  Inv'
  BY <1>1, StartInv, OpenInv, ChooseInv, PlainStepsInv, LocateInv, CaptureInv, ReadSnapshotInv, ReadFactsInv, AskInv,
     RenderInv, RevalidateInv, PutInv, StopInv
<1>2. ASSUME NEW n \in Names, Lose(n)
      PROVE  Inv'
  <2>1. Files(cache') /\ UNCHANGED <<repository, pc, run, history>>
    BY <1>2, FilesDiscarded DEF Lose, Inv, Shapes
  <2> QED
    BY <2>1 DEF Inv, Shapes, repository, history
<1>3. CASE UNCHANGED vars
  BY <1>3 DEF vars, Inv, Shapes
<1> QED
  BY <1>1, <1>2, <1>3, ChangeInv DEF Next

\* What every command knows of its inputs and the store of its entries, taken
\* together, is inductive.
THEOREM Invariance == Spec => []Inv
<1>1. Init => Inv
  BY InitInv
<1>2. Inv /\ [Next]_vars => Inv'
  BY NextInv
<1> QED
  BY <1>1, <1>2, PTL DEF Spec

\* Type correctness of the repository, the store and the commands.
THEOREM CommandsAreTyped == Spec => []TypeOK
BY Invariance, InvTyped, PTL

-----------------------------------------------------------------------------
(* While no part of the graph returns to what it was, a part that had its  *)
(* value at the first location and has it again at the second one had it   *)
(* all the time.  What a command knows is then of the plain graph cut at   *)
(* the boundary of its location, or a comparison still to come will fail.  *)

\* The part had this value in a graph that was left, and has another one now.
Gone(part, value, now, left) ==
    now.graph[part] # value /\ \E g \in left : g[part] = value

\* The parts that the first location has read at label, and those that the
\* second one has yet to read.
Known(label) ==
    IF label \in Located THEN Parts
    ELSE IF label = "boundary" THEN {"grafts", "replacements"}
    ELSE IF label = "replacements" THEN {"grafts"}
    ELSE {}

Pending(label) ==
    IF label \in Publishing THEN {}
    ELSE IF label = "same boundary" THEN {"boundary"}
    ELSE IF label = "same replacements" THEN {"boundary", "replacements"}
    ELSE Parts

\* A part that was read is as it was read, or has been left for good.
Held(known, b, now, left) ==
    \A part \in known :
        now.graph[part] = Plain(b)[part] \/ Gone(part, Plain(b)[part], now, left)

\* A graph that was left before the command began differs from what it reads.
Behind(known, b, alive, now, left) ==
    \A g \in left \ alive : \E part \in Parts :
        Gone(part, g[part], now, left) /\ (part \in known => g[part] # Plain(b)[part])

AnswersPlain(r, now, left) ==
    Range(r.answers) \ {Miss} \subseteq {Plain(r.boundary)} \cap (left \cup {now.graph})

Together(r, after) ==
    \E w \in after : w.graph = Plain(r.boundary) /\ w.main = r.main

Taken(label, r, alive) ==
    /\ Range(r.original) \ {Miss} \subseteq {Plain(r.boundary)} \cap alive
    /\ r.found # Miss => r.found.graphs \subseteq {Plain(r.boundary)} \cap alive
    /\ label \notin Located =>
          r.found = Miss /\ r.original = NoFacts /\ r.answers = [q \in Queries |-> Miss]

Settled(label, r, after, now, left) ==
    \/ \E part \in Pending(label) : Gone(part, Plain(r.boundary)[part], now, left)
    \/ /\ AnswersPlain(r, now, left)
       /\ label \in GraftsNext => Together(r, after)

\* A command at label, with variables r, that has seen the graphs alive live and the
\* states after since it rendered, in a repository now that has left the graphs left.
Kept(label, r, alive, after, now, left) ==
    /\ Taken(label, r, alive)
    /\ label # "idle" => now.graph \in alive /\ Behind(Known(label), r.boundary, alive, now, left)
    /\ Held(Known(label), r.boundary, now, left)
    /\ label \in Located => (r.native => r.pinned = r.boundary)
    /\ label \in Located => Settled(label, r, after, now, left)

\* Entries are sound, and of graphs that the repository has had.
EntryLive(e, ever) ==
    IF e.key \in FactsKey THEN Range(e.value) \ {Miss} \subseteq ever ELSE e.value.graphs \subseteq ever

StoreKept(c, ever) ==
    \A n \in Names : c[n] # Miss => EntrySound(c[n]) /\ EntryLive(c[n], ever)

GraphInv ==
    /\ StoreKept(cache, past \cup {world.graph})
    /\ \A p \in Procs : Kept(pc[p], run[p], lived[p], later[p], world, past)

-----------------------------------------------------------------------------
LEMMA LabelSets ==
  /\ Located = {"branches", "main", "upstreams", "snapshot", "facts", "analyse", "rendered",
                "same branches", "same main", "same upstreams", "same location", "same grafts",
                "same replacements", "same boundary", "put facts", "put snapshot"}
  /\ GraftsNext = {"same grafts", "same replacements", "same boundary", "put facts", "put snapshot"}
  /\ Publishing = {"put facts", "put snapshot"}
BY DEF Located, Labels, Early, Opening, Locating, GraftsNext, ReplacementsNext, BoundaryNext, Publishing

LEMMA IdleKept == \A alive, after, now, left : Kept("idle", NoRun, alive, after, now, left)
BY NoRunType, LabelSets DEF Kept, Taken, Known, Held

LEMMA InitGraph == Init => GraphInv
BY IdleKept DEF Init, GraphInv, StoreKept

LEMMA StepGraph ==
  ASSUME Inv, GraphInv, NEW p \in Procs, UNCHANGED repository,
         StoreKept(cache', past \cup {world.graph}),
         NEW label, NEW r, NEW alive, NEW after,
         pc' = [pc EXCEPT ![p] = label], run' = [run EXCEPT ![p] = r],
         lived' = [lived EXCEPT ![p] = alive], later' = [later EXCEPT ![p] = after],
         Kept(label, r, alive, after, world, past)
  PROVE  GraphInv'
<1>1. \A q \in Procs : Kept(pc'[q], run'[q], lived'[q], later'[q], world', past')
  <2> TAKE q \in Procs
  <2>1. CASE q = p
    BY <2>1 DEF Inv, Shapes, repository
  <2>2. CASE q # p
    BY <2>2 DEF Inv, Shapes, GraphInv, repository
  <2> QED
    BY <2>1, <2>2
<1> QED
  BY <1>1 DEF GraphInv, repository

\* A step that leaves the history as it is.
LEMMA AssignGraph ==
  ASSUME Inv, GraphInv, NEW p \in Procs, UNCHANGED <<repository, history>>,
         StoreKept(cache', past \cup {world.graph}),
         NEW label, NEW r, Goto(p, label), run' = [run EXCEPT ![p] = r],
         Kept(label, r, lived[p], later[p], world, past)
  PROVE  GraphInv'
<1>1. lived' = [lived EXCEPT ![p] = lived[p]] /\ later' = [later EXCEPT ![p] = later[p]]
  BY Same DEF Inv, Shapes, history
<1> QED
  BY <1>1, StepGraph DEF Goto

LEMMA GotoGraph ==
  ASSUME Inv, GraphInv, NEW p \in Procs, UNCHANGED <<repository, history, run>>,
         StoreKept(cache', past \cup {world.graph}),
         NEW label, Goto(p, label),
         Kept(label, run[p], lived[p], later[p], world, past)
  PROVE  GraphInv'
<1>1. run' = [run EXCEPT ![p] = run[p]]
  BY Same DEF Inv, Shapes
<1> QED
  BY <1>1, AssignGraph

LEMMA EndGraph ==
  ASSUME Inv, GraphInv, NEW p \in Procs, UNCHANGED repository,
         StoreKept(cache', past \cup {world.graph}), End(p)
  PROVE  GraphInv'
BY IdleKept, StepGraph DEF End, Goto

\* A command goes on, with the same knowledge, before it takes the second location.
LEMMA OnwardGraph ==
  ASSUME Inv, GraphInv, NEW p \in Procs, UNCHANGED <<repository, lived, cache>>,
         NEW label, Goto(p, label), NEW r, run' = [run EXCEPT ![p] = r],
         NEW after, later' = [later EXCEPT ![p] = after],
         pc[p] \in Located \ GraftsNext, label \in Located \ GraftsNext,
         r.boundary = run[p].boundary, r.native = run[p].native, r.pinned = run[p].pinned,
         r.original = run[p].original, r.found = run[p].found, r.answers = run[p].answers
  PROVE  GraphInv'
<1>1. lived' = [lived EXCEPT ![p] = lived[p]]
  BY Same DEF Inv, Shapes
<1>2. Kept(pc[p], run[p], lived[p], later[p], world, past) /\ StoreKept(cache, past \cup {world.graph})
  BY DEF GraphInv
<1>3. Known(label) = Known(pc[p]) /\ Pending(label) = Pending(pc[p]) /\ pc[p] # "idle"
  BY LabelSets DEF Known, Pending
<1>4. Kept(label, r, lived[p], after, world, past)
  BY <1>2, <1>3 DEF Kept, Taken, Settled, AnswersPlain
<1> QED
  BY <1>1, <1>2, <1>4, StepGraph DEF Goto

-----------------------------------------------------------------------------
(* Opening the repository and the first location.                          *)

LEMMA StartGraph ==
  ASSUME Inv, GraphInv, NEW p \in Procs, NEW b \in Backends, NEW m \in Modes, Start(p, b, m)
  PROVE  GraphInv'
<1> DEFINE pinMain == IF b = "gix" THEN world.main ELSE Miss
           label == IF b = "gix" THEN "open" ELSE "prepare"
           r == [run[p] EXCEPT !.backend = b, !.mode = m, !.pinnedMain = pinMain]
<1>1. /\ run[p] \in Run /\ Kept("idle", run[p], lived[p], later[p], world, past)
      /\ UNCHANGED <<repository, cache>> /\ StoreKept(cache, past \cup {world.graph})
      /\ past \subseteq Graph /\ world.graph \in Graph
  BY DEF Start, Inv, Shapes, GraphInv, World
<1>2. run' = [run EXCEPT ![p] = r] /\ pc' = [pc EXCEPT ![p] = label] /\ pc[p] = "idle"
      /\ lived' = [lived EXCEPT ![p] = {world.graph}] /\ later' = [later EXCEPT ![p] = later[p]]
  <2>1. later = [later EXCEPT ![p] = later[p]]
    BY Same DEF Inv, Shapes
  <2> QED
    BY <2>1 DEF Start, Goto
<1> HIDE DEF pinMain
<1>3. /\ r.boundary = run[p].boundary
      /\ r.original = run[p].original /\ r.found = run[p].found /\ r.answers = run[p].answers
  BY <1>1 DEF Run
<1>4. label \notin Located /\ "idle" \notin Located /\ Known(label) = {}
  BY LabelSets DEF Known
<1> HIDE DEF r, label
\* A graph that was left and is not the present one differs in a part.
<1>5. Behind({}, r.boundary, {world.graph}, world, past)
  <2> SUFFICES ASSUME NEW g \in past, g # world.graph
               PROVE  \E part \in Parts : Gone(part, g[part], world, past)
    BY DEF Behind
  <2>1. \E part \in Parts : g[part] # world.graph[part]
    <3>1. /\ g = [x \in Parts |-> g[x]] /\ world.graph = [x \in Parts |-> world.graph[x]]
      BY <1>1 DEF Graph, Parts
    <3> QED
      BY <3>1
  <2> QED
    BY <2>1 DEF Gone
<1>6. Taken(label, r, {world.graph})
  BY <1>1, <1>3, <1>4, NoRunType DEF Kept, Taken
<1>7. Kept(label, r, {world.graph}, later[p], world, past)
  BY <1>4, <1>5, <1>6 DEF Kept, Held
<1> QED
  BY <1>1, <1>2, <1>7, StepGraph

\* A command that has not begun its location, or gives it up.
LEMMA OpeningKept ==
  ASSUME NEW from, NEW to, NEW r, NEW s, NEW alive, NEW after,
         Kept(from, r, alive, after, world, past), from \notin Located, from # "idle",
         to \in {"choose", "choose replacements", "prepare", "uncached", "grafts"},
         s.boundary = r.boundary, s.original = r.original, s.found = r.found, s.answers = r.answers
  PROVE  Kept(to, s, alive, after, world, past)
<1>1. to \notin Located /\ Known(to) = {} /\ to # "idle"
  BY LabelSets DEF Known
<1>2. Behind({}, s.boundary, alive, world, past)
  BY DEF Kept, Behind
<1> QED
  BY <1>1, <1>2 DEF Kept, Taken, Held

LEMMA OpeningGraph ==
  ASSUME Inv, GraphInv, NEW p \in Procs,
         \/ Open(p) \/ Choose(p) \/ ChooseReplacements(p)
         \/ PrepareClear(p) \/ Bypass(p) \/ LocateMain(p)
  PROVE  GraphInv'
<1>1. /\ run[p] \in Run /\ Kept(pc[p], run[p], lived[p], later[p], world, past)
      /\ UNCHANGED <<repository, history>> /\ StoreKept(cache, past \cup {world.graph})
  BY DEF Open, Choose, ChooseReplacements, PrepareClear, Bypass, LocateMain, Inv, Shapes, GraphInv
<1>2. StoreKept(cache', past \cup {world.graph})
  BY <1>1 DEF Open, Choose, ChooseReplacements, PrepareClear, Bypass, LocateMain, StoreKept
<1>3. pc[p] \notin Located /\ pc[p] # "idle"
  BY LabelSets DEF Open, Choose, ChooseReplacements, PrepareClear, Bypass, LocateMain
<1>4. CASE UNCHANGED run
  <2>1. PICK to \in {"choose", "choose replacements", "prepare", "uncached", "grafts"} : Goto(p, to)
    BY DEF Open, Choose, ChooseReplacements, PrepareClear, Bypass, LocateMain
  <2> QED
    BY <1>1, <1>2, <1>3, <1>4, <2>1, OpeningKept, GotoGraph
<1>5. CASE Open(p)
  <2> DEFINE r == [run[p] EXCEPT !.pinned = world.graph.boundary]
  <2>1. run' = [run EXCEPT ![p] = r] /\ Goto(p, "choose")
    BY <1>5 DEF Open
  <2>2. /\ r.boundary = run[p].boundary /\ r.original = run[p].original
        /\ r.found = run[p].found /\ r.answers = run[p].answers
    BY <1>1 DEF Run
  <2> HIDE DEF r
  <2> QED
    BY <1>1, <1>2, <1>3, <2>1, <2>2, OpeningKept, AssignGraph
<1>6. CASE ChooseReplacements(p)
  <2> DEFINE new == ~world.graph.replacements
             r == [run[p] EXCEPT !.native = new]
  <2>1. run' = [run EXCEPT ![p] = r] /\ Goto(p, "prepare")
    BY <1>6 DEF ChooseReplacements
  <2> HIDE DEF new
  <2>2. /\ r.boundary = run[p].boundary /\ r.original = run[p].original
        /\ r.found = run[p].found /\ r.answers = run[p].answers
    BY <1>1 DEF Run
  <2> HIDE DEF r
  <2> QED
    BY <1>1, <1>2, <1>3, <2>1, <2>2, OpeningKept, AssignGraph
<1>7. CASE LocateMain(p)
  <2> DEFINE r == [run[p] EXCEPT !.main = world.main]
  <2>1. run' = [run EXCEPT ![p] = r] /\ Goto(p, "grafts")
    BY <1>7 DEF LocateMain
  <2>2. /\ r.boundary = run[p].boundary /\ r.original = run[p].original
        /\ r.found = run[p].found /\ r.answers = run[p].answers
    BY <1>1 DEF Run
  <2> HIDE DEF r
  <2> QED
    BY <1>1, <1>2, <1>3, <2>1, <2>2, OpeningKept, AssignGraph
<1> QED
  BY <1>4, <1>5, <1>6, <1>7 DEF Choose, PrepareClear, Bypass

\* What is read is as in the plain graph, and as in no graph that was left with
\* another value of this part.
LEMMA ReadPart ==
  ASSUME NEW known, NEW part, NEW b, NEW c, NEW alive,
         Behind(known, b, alive, world, past), Held(known, b, world, past),
         world.graph[part] = Plain(c)[part],
         \A q \in known : Plain(c)[q] = Plain(b)[q]
  PROVE  /\ Behind(known \cup {part}, c, alive, world, past)
         /\ Held(known \cup {part}, c, world, past)
<1>1. Held(known \cup {part}, c, world, past)
  BY DEF Held
<1>2. ASSUME NEW g \in past \ alive
      PROVE  \E q \in Parts : /\ Gone(q, g[q], world, past)
                              /\ q \in known \cup {part} => g[q] # Plain(c)[q]
  <2>1. PICK q \in Parts : Gone(q, g[q], world, past) /\ (q \in known => g[q] # Plain(b)[q])
    BY <1>2 DEF Behind
  <2>2. q = part => g[q] # Plain(c)[q]
    BY <2>1 DEF Gone
  <2> QED
    BY <2>1, <2>2
<1> QED
  BY <1>1, <1>2 DEF Behind

LEMMA LocatePartGraph ==
  ASSUME Inv, GraphInv, NEW p \in Procs, LocateGrafts(p) \/ LocateReplacements(p)
  PROVE  GraphInv'
<1>1. /\ Kept(pc[p], run[p], lived[p], later[p], world, past) /\ world.graph \in Graph
      /\ UNCHANGED <<repository, history, cache, run>> /\ StoreKept(cache, past \cup {world.graph})
  BY DEF LocateGrafts, LocateReplacements, Inv, Shapes, GraphInv, World
<1> DEFINE b == run[p].boundary
<1>2. Plain(b)["grafts"] = FALSE /\ Plain(b)["replacements"] = FALSE
  BY DEF Plain
<1>3. world.graph["grafts"] \in BOOLEAN /\ world.graph["replacements"] \in BOOLEAN
  BY <1>1 DEF Graph
<1>4. CASE LocateGrafts(p)
  <2>1. pc[p] = "grafts" /\ Goto(p, "replacements") /\ world.graph["grafts"] = Plain(b)["grafts"]
    BY <1>2, <1>3, <1>4 DEF LocateGrafts
  <2>2. Known("grafts") = {} /\ Known("replacements") = Known("grafts") \cup {"grafts"}
    BY LabelSets DEF Known
  <2>3. Behind(Known("grafts"), b, lived[p], world, past) /\ Held(Known("grafts"), b, world, past)
    BY <1>1, <2>1 DEF Kept
  <2>4. /\ Behind(Known("replacements"), b, lived[p], world, past)
        /\ Held(Known("replacements"), b, world, past)
    BY <2>1, <2>2, <2>3, ReadPart
  <2>5. Kept("replacements", run[p], lived[p], later[p], world, past)
    BY <1>1, <2>1, <2>4, LabelSets DEF Kept, Taken
  <2> QED
    BY <1>1, <2>1, <2>5, GotoGraph
<1>5. CASE LocateReplacements(p)
  <2>1. pc[p] = "replacements" /\ Goto(p, "boundary")
        /\ world.graph["replacements"] = Plain(b)["replacements"]
    BY <1>2, <1>3, <1>5 DEF LocateReplacements
  <2>2. Known("boundary") = Known("replacements") \cup {"replacements"}
    BY LabelSets DEF Known
  <2>3. /\ Behind(Known("replacements"), b, lived[p], world, past)
        /\ Held(Known("replacements"), b, world, past)
    BY <1>1, <2>1 DEF Kept
  <2>4. /\ Behind(Known("boundary"), b, lived[p], world, past)
        /\ Held(Known("boundary"), b, world, past)
    BY <2>1, <2>2, <2>3, ReadPart
  <2>5. Kept("boundary", run[p], lived[p], later[p], world, past)
    BY <1>1, <2>1, <2>4, LabelSets DEF Kept, Taken
  <2> QED
    BY <1>1, <2>1, <2>5, GotoGraph
<1> QED
  BY <1>4, <1>5

LEMMA LocateBoundaryGraph ==
  ASSUME Inv, GraphInv, NEW p \in Procs, LocateBoundary(p)
  PROVE  GraphInv'
<1> DEFINE b == world.graph.boundary
           r == [run[p] EXCEPT !.boundary = b]
<1>1. /\ run[p] \in Run /\ Kept("boundary", run[p], lived[p], later[p], world, past)
      /\ UNCHANGED <<repository, history, cache>> /\ StoreKept(cache, past \cup {world.graph})
      /\ pc[p] = "boundary" /\ Goto(p, "branches") /\ run' = [run EXCEPT ![p] = r]
      /\ run[p].native => run[p].pinned = b
  BY DEF LocateBoundary, Matches, Inv, Shapes, GraphInv
<1>2. /\ r.boundary = b /\ r.native = run[p].native /\ r.pinned = run[p].pinned
      /\ r.original = run[p].original /\ r.found = run[p].found /\ r.answers = run[p].answers
  BY <1>1 DEF Run
<1> HIDE DEF r
<1>3. Known("branches") = Known("boundary") \cup {"boundary"}
      /\ Known("boundary") = {"grafts", "replacements"}
  BY LabelSets DEF Known, Parts
<1>4. /\ world.graph["boundary"] = Plain(b)["boundary"]
      /\ \A q \in Known("boundary") : Plain(b)[q] = Plain(run[p].boundary)[q]
  <2>1. \A x, y : /\ Plain(x)["boundary"] = x
                  /\ Plain(x)["grafts"] = Plain(y)["grafts"]
                  /\ Plain(x)["replacements"] = Plain(y)["replacements"]
    BY DEF Plain
  <2> HIDE DEF b
  <2>2. world.graph["boundary"] = b
    BY DEF b
  <2> QED
    BY <1>3, <2>1, <2>2
<1>5. /\ Behind(Known("boundary"), run[p].boundary, lived[p], world, past)
      /\ Held(Known("boundary"), run[p].boundary, world, past)
  BY <1>1 DEF Kept
<1>6. /\ Behind(Known("branches"), b, lived[p], world, past)
      /\ Held(Known("branches"), b, world, past)
  <2> HIDE DEF b
  <2> QED
    BY <1>3, <1>4, <1>5, ReadPart
<1>7. r.original = NoFacts /\ r.found = Miss /\ r.answers = [q \in Queries |-> Miss]
  BY <1>1, <1>2, LabelSets DEF Kept, Taken
<1>8. Range(r.answers) \subseteq {Miss}
  BY <1>7 DEF Range
<1> HIDE DEF b
<1>9. Settled("branches", r, later[p], world, past)
  BY <1>8, LabelSets DEF Settled, AnswersPlain
<1>10. Taken("branches", r, lived[p])
  BY <1>7, NoRunType, LabelSets DEF Taken
<1>11. Kept("branches", r, lived[p], later[p], world, past)
  BY <1>1, <1>2, <1>6, <1>9, <1>10 DEF Kept
<1> QED
  BY <1>1, <1>11, AssignGraph

-----------------------------------------------------------------------------
(* Inputs, the store and the analysis.                                     *)

LEMMA CaptureGraph ==
  ASSUME Inv, GraphInv, NEW p \in Procs, CaptureBranches(p) \/ CaptureMain(p) \/ CaptureUpstreams(p)
  PROVE  GraphInv'
<1>1. run[p] \in Run /\ UNCHANGED <<repository, history, cache>>
  BY DEF CaptureBranches, CaptureMain, CaptureUpstreams, Inv, Shapes
<1>2. \E label \in Located \ GraftsNext : \E inputs :
         /\ Goto(p, label) /\ pc[p] \in Located \ GraftsNext
         /\ run' = [run EXCEPT ![p] = [run[p] EXCEPT !.inputs = inputs]]
  <2>1. {"branches", "main", "upstreams", "snapshot", "analyse"} \subseteq Located \ GraftsNext
    BY LabelSets
  <2>2. CASE CaptureBranches(p)
    <3>1. run' = [run EXCEPT ![p] = [run[p] EXCEPT !.inputs = [run[p].inputs EXCEPT !.branches = world.branches]]]
      BY <2>2 DEF CaptureBranches
    <3> QED
      BY <2>1, <2>2, <3>1 DEF CaptureBranches
  <2>3. CASE CaptureMain(p)
    <3>1. run' = [run EXCEPT ![p] = [run[p] EXCEPT !.inputs = [run[p].inputs EXCEPT !.main = MainSeen(p)]]]
      BY <2>3 DEF CaptureMain
    <3> QED
      BY <2>1, <2>3, <3>1 DEF CaptureMain
  <2>4. CASE CaptureUpstreams(p)
    <3>1. run' = [run EXCEPT ![p] = [run[p] EXCEPT !.inputs = [run[p].inputs EXCEPT !.upstreams = world.upstreams]]]
      BY <2>4 DEF CaptureUpstreams
    <3> QED
      BY <2>1, <2>4, <3>1 DEF CaptureUpstreams
  <2> QED
    BY <2>2, <2>3, <2>4
<1>3. PICK label \in Located \ GraftsNext : \E inputs :
         /\ Goto(p, label) /\ pc[p] \in Located \ GraftsNext
         /\ run' = [run EXCEPT ![p] = [run[p] EXCEPT !.inputs = inputs]]
  BY <1>2
<1>4. PICK inputs :
         /\ Goto(p, label) /\ pc[p] \in Located \ GraftsNext
         /\ run' = [run EXCEPT ![p] = [run[p] EXCEPT !.inputs = inputs]]
  BY <1>3
<1> DEFINE r == [run[p] EXCEPT !.inputs = inputs]
<1>5. /\ r.boundary = run[p].boundary /\ r.native = run[p].native /\ r.pinned = run[p].pinned
      /\ r.original = run[p].original /\ r.found = run[p].found /\ r.answers = run[p].answers
  BY <1>1 DEF Run
<1>6. run' = [run EXCEPT ![p] = r] /\ later' = [later EXCEPT ![p] = later[p]]
  BY <1>1, <1>4, Same DEF Inv, Shapes, history
<1> HIDE DEF r
<1> QED
  BY <1>1, <1>4, <1>5, <1>6, OnwardGraph DEF history

\* The plain graph of the location has been live since the command began, if it
\* ever was.
LEMMA SeenLive ==
  ASSUME Inv, GraphInv, NEW p \in Procs, pc[p] \in Located
  PROVE  {Plain(run[p].boundary)} \cap (past \cup {world.graph}) \subseteq lived[p]
<1>1. Kept(pc[p], run[p], lived[p], later[p], world, past) /\ pc[p] # "idle" /\ Known(pc[p]) = Parts
  BY LabelSets DEF GraphInv, Known
<1>2. world.graph \in lived[p] /\ Behind(Parts, run[p].boundary, lived[p], world, past)
  BY <1>1 DEF Kept
<1>3. ASSUME Plain(run[p].boundary) \in past \ lived[p]
      PROVE  FALSE
  BY <1>2, <1>3 DEF Behind
<1> QED
  BY <1>2, <1>3

LEMMA ReadSnapshotGraph ==
  ASSUME Inv, GraphInv, NEW p \in Procs, ReadSnapshot(p)
  PROVE  GraphInv'
<1> DEFINE e == Store!Answer(SnapshotKeyOf(p))
           r == [run[p] EXCEPT !.found = e]
<1>1. /\ run[p] \in Run /\ Kept("snapshot", run[p], lived[p], later[p], world, past)
      /\ StoreKept(cache, past \cup {world.graph})
      /\ UNCHANGED <<repository, history, cache>> /\ pc[p] = "snapshot" /\ pc[p] \in HasInputs
      /\ pc[p] \in Located
  BY LabelSets DEF ReadSnapshot, Inv, Shapes, GraphInv, HasInputs, HasMain, HasBranches
<1>2. ASSUME e # Miss
      PROVE  e.graphs \subseteq {Plain(run[p].boundary)} \cap lived[p]
  <2>1. PICK n \in Names : cache[n] # Miss /\ cache[n].key = SnapshotKeyOf(p) /\ cache[n].value = e
    BY <1>1, <1>2, KeysType, AnswerStored
  <2>2. EntrySound(cache[n]) /\ EntryLive(cache[n], past \cup {world.graph})
    BY <1>1, <2>1 DEF StoreKept
  <2>3. SnapshotKeyOf(p) \notin FactsKey /\ SnapshotKeyOf(p).boundary = run[p].boundary
    BY KeysApart DEF SnapshotKeyOf
  <2>4. e.graphs \subseteq {Plain(run[p].boundary)} \cap (past \cup {world.graph})
    BY <2>1, <2>2, <2>3 DEF EntrySound, EntryLive
  <2> QED
    BY <1>1, <2>4, SeenLive
<1>3. run' = [run EXCEPT ![p] = r] /\ Goto(p, "facts")
  BY DEF ReadSnapshot
<1> HIDE DEF e
<1>4. /\ r.boundary = run[p].boundary /\ r.native = run[p].native /\ r.pinned = run[p].pinned
      /\ r.original = run[p].original /\ r.found = e /\ r.answers = run[p].answers
  BY <1>1 DEF Run
<1> HIDE DEF r
<1>5. Known("facts") = Known("snapshot") /\ Pending("facts") = Pending("snapshot")
  BY LabelSets DEF Known, Pending
<1>6. Kept("facts", r, lived[p], later[p], world, past)
  BY <1>1, <1>2, <1>4, <1>5, LabelSets DEF Kept, Taken, Settled, AnswersPlain
<1> QED
  BY <1>1, <1>3, <1>6, AssignGraph

LEMMA ReadFactsGraph ==
  ASSUME Inv, GraphInv, NEW p \in Procs, ReadFacts(p)
  PROVE  GraphInv'
<1> DEFINE stored == Store!Answer(FactsKeyOf(p))
           facts == IF stored = Miss THEN NoFacts ELSE stored
           known == [q \in Queries |-> IF q \in Persisted THEN facts[q] ELSE Miss]
           r == [run[p] EXCEPT !.original = facts, !.answers = known]
<1>1. /\ run[p] \in Run /\ Kept("facts", run[p], lived[p], later[p], world, past)
      /\ StoreKept(cache, past \cup {world.graph})
      /\ UNCHANGED <<repository, history, cache>> /\ pc[p] = "facts" /\ pc[p] \in HasInputs
      /\ pc[p] \in Located
  BY LabelSets DEF ReadFacts, Inv, Shapes, GraphInv, HasInputs, HasMain, HasBranches
<1>2. Range(facts) \ {Miss} \subseteq {Plain(run[p].boundary)} \cap (past \cup {world.graph})
  <2>1. ASSUME stored # Miss
        PROVE  Range(stored) \ {Miss} \subseteq {Plain(run[p].boundary)} \cap (past \cup {world.graph})
    <3>1. FactsKeyOf(p) \in FactsKey /\ FactsKeyOf(p).boundary = run[p].boundary
      BY <1>1, KeysType DEF FactsKeyOf
    <3>2. PICK n \in Names : cache[n] # Miss /\ cache[n].key = FactsKeyOf(p) /\ cache[n].value = stored
      BY <2>1, <3>1, AnswerStored
    <3>3. EntrySound(cache[n]) /\ EntryLive(cache[n], past \cup {world.graph})
      BY <1>1, <3>2 DEF StoreKept
    <3> QED
      BY <3>1, <3>2, <3>3 DEF EntrySound, EntryLive
  <2> QED
    BY <2>1, NoRunType
<1>3. facts \in Facts
  BY <1>1, KeysType, AnswerType, NoRunType
<1>4. run' = [run EXCEPT ![p] = r] /\ Goto(p, "analyse")
  BY DEF ReadFacts
<1> HIDE DEF facts
<1>5. Range(known) \ {Miss} \subseteq Range(facts) \ {Miss}
  BY <1>3 DEF Range, Facts
<1> HIDE DEF known
<1>6. /\ r.boundary = run[p].boundary /\ r.native = run[p].native /\ r.pinned = run[p].pinned
      /\ r.original = facts /\ r.found = run[p].found /\ r.answers = known
  BY <1>1 DEF Run
<1> HIDE DEF r
<1>7. Known("analyse") = Known("facts") /\ "analyse" \in Located /\ "analyse" \notin GraftsNext
  BY LabelSets DEF Known
<1>8. Taken("analyse", r, lived[p])
  BY <1>1, <1>2, <1>6, <1>7, SeenLive DEF Kept, Taken
<1>9. Settled("analyse", r, later[p], world, past)
  BY <1>2, <1>5, <1>6, <1>7 DEF Settled, AnswersPlain
<1>10. Kept("analyse", r, lived[p], later[p], world, past)
  BY <1>1, <1>6, <1>7, <1>8, <1>9, LabelSets DEF Kept
<1> QED
  BY <1>1, <1>4, <1>10, AssignGraph

\* A graph all of whose parts are as they were read is the plain one.
LEMMA HeldPlain ==
  ASSUME NEW b, world.graph \in Graph, Held(Parts, b, world, past),
         \A part \in Parts : ~Gone(part, Plain(b)[part], world, past)
  PROVE  world.graph = Plain(b)
BY PlainParts DEF Held

\* As long as the graph is that of the location, both ways to read it agree.
LEMMA AskGraph ==
  ASSUME Inv, GraphInv, NEW p \in Procs, NEW q \in Queries, Ask(p, q)
  PROVE  GraphInv'
<1>1. PICK g \in Interpretations(p) : run' = [run EXCEPT ![p].answers[q] = g]
  BY DEF Ask
<1> DEFINE known == [run[p].answers EXCEPT ![q] = g]
           r == [run[p] EXCEPT !.answers = known]
           b == run[p].boundary
<1>2. /\ run[p] \in Run /\ Kept("analyse", run[p], lived[p], later[p], world, past)
      /\ StoreKept(cache, past \cup {world.graph}) /\ world.graph \in Graph
      /\ UNCHANGED <<repository, history, cache, pc>> /\ pc[p] = "analyse"
      /\ pc = [pc EXCEPT ![p] = pc[p]]
  BY Same DEF Ask, Inv, Shapes, GraphInv, World
<1>3. "analyse" \in Located /\ "analyse" \notin GraftsNext /\ Known("analyse") = Parts
      /\ Pending("analyse") = Parts
  BY LabelSets DEF Known, Pending
<1>4. ASSUME world.graph = Plain(b), AnswersPlain(run[p], world, past)
      PROVE  Range(known) \ {Miss} \subseteq {Plain(b)} \cap (past \cup {world.graph})
  <2>1. run[p].native => run[p].pinned = b
    BY <1>2, <1>3 DEF Kept
  <2>2. run[p].native => [world.graph EXCEPT !.boundary = run[p].pinned] = Plain(b)
    BY <1>4, <2>1, PlainCut
  <2>3. g = Plain(b) /\ g = world.graph
    BY <1>4, <2>2 DEF Interpretations
  <2>4. run[p].answers \in [Queries -> Unset(Graph)]
    BY <1>2 DEF Run
  <2>5. Range(known) \subseteq Range(run[p].answers) \cup {g}
    BY <2>4 DEF Range
  <2> QED
    BY <1>4, <2>3, <2>5 DEF AnswersPlain
<1>5. run' = [run EXCEPT ![p] = r]
  BY <1>1
<1> HIDE DEF known
<1>6. /\ r.boundary = b /\ r.native = run[p].native /\ r.pinned = run[p].pinned
      /\ r.original = run[p].original /\ r.found = run[p].found /\ r.answers = known
  BY <1>2 DEF Run
<1> HIDE DEF r
<1>7. Settled("analyse", r, later[p], world, past)
  <2>1. CASE \E part \in Parts : Gone(part, Plain(b)[part], world, past)
    BY <1>3, <1>6, <2>1 DEF Settled
  <2>2. CASE \A part \in Parts : ~Gone(part, Plain(b)[part], world, past)
    <3>1. Held(Parts, b, world, past) /\ AnswersPlain(run[p], world, past)
      BY <1>2, <1>3, <2>2 DEF Kept, Settled
    <3>2. world.graph = Plain(b)
      BY <1>2, <2>2, <3>1, HeldPlain
    <3> QED
      BY <1>3, <1>4, <1>6, <3>1, <3>2 DEF Settled, AnswersPlain
  <2> QED
    BY <2>1, <2>2
<1>8. Kept("analyse", r, lived[p], later[p], world, past)
  BY <1>2, <1>3, <1>6, <1>7, LabelSets DEF Kept, Taken
<1>9. Goto(p, "analyse")
  BY <1>2 DEF Goto
<1> QED
  BY <1>2, <1>5, <1>8, <1>9, AssignGraph

-----------------------------------------------------------------------------
(* Revalidation.                                                           *)

LEMMA RevalidateGraph ==
  ASSUME Inv, GraphInv, NEW p \in Procs,
         Render(p) \/ Decide(p) \/ SameBranches(p) \/ SameMain(p) \/ SameUpstreams(p)
  PROVE  GraphInv'
<1>1. UNCHANGED <<repository, cache>> /\ StoreKept(cache, past \cup {world.graph})
  BY DEF Render, Decide, SameBranches, SameMain, SameUpstreams, Check, GraphInv
<1>2. CASE End(p)
  BY <1>1, <1>2, EndGraph
<1>3. CASE ~End(p)
  <2>1. /\ pc[p] \in Located \ GraftsNext /\ UNCHANGED <<run, lived>>
        /\ \E label \in Located \ GraftsNext : Goto(p, label)
    BY <1>3, LabelSets DEF Render, Decide, SameBranches, SameMain, SameUpstreams, Check, history
  <2>2. run = [run EXCEPT ![p] = run[p]] /\ later = [later EXCEPT ![p] = later[p]]
    BY Same DEF Inv, Shapes
  <2>3. \E after : later' = [later EXCEPT ![p] = after]
    BY <1>3, <2>2 DEF Render, Decide, SameBranches, SameMain, SameUpstreams, Check, history
  <2> QED
    BY <1>1, <2>1, <2>2, <2>3, OnwardGraph
<1> QED
  BY <1>2, <1>3

\* When the configuration of the second location agrees, either the graph is still
\* that of the first one, or a later comparison will fail.
LEMMA SameLocationGraph ==
  ASSUME Inv, GraphInv, NEW p \in Procs, SameLocation(p)
  PROVE  GraphInv'
<1> DEFINE b == run[p].boundary
<1>1. /\ UNCHANGED <<repository, cache>> /\ StoreKept(cache, past \cup {world.graph})
      /\ Kept("same location", run[p], lived[p], later[p], world, past)
      /\ pc[p] = "same location" /\ world.graph \in Graph
      /\ Confirmed("same location", run[p], later[p], world)
  BY DEF SameLocation, Check, GraphInv, Inv, Shapes, World, Local
<1>2. CASE End(p)
  BY <1>1, <1>2, EndGraph
<1>3. CASE ~End(p)
  <2>1. Goto(p, "same grafts") /\ world.main = run[p].main /\ UNCHANGED <<run, history>>
    BY <1>3 DEF SameLocation, Check
  <2>2. /\ "same location" \in Located /\ "same grafts" \in Located
        /\ Known("same location") = Parts /\ Known("same grafts") = Parts
        /\ Pending("same location") = Parts /\ Pending("same grafts") = Parts
    BY LabelSets DEF Known, Pending
  <2>3. world \in later[p]
    BY <1>1 DEF Confirmed, Rendered, MainNext, UpstreamsNext, LocationNext
  <2>4. Settled("same grafts", run[p], later[p], world, past)
    <3>1. CASE \E part \in Parts : Gone(part, Plain(b)[part], world, past)
      BY <2>2, <3>1 DEF Settled
    <3>2. CASE \A part \in Parts : ~Gone(part, Plain(b)[part], world, past)
      <4>1. Held(Parts, b, world, past) /\ AnswersPlain(run[p], world, past)
        BY <1>1, <2>2, <3>2 DEF Kept, Settled
      <4>2. world.graph = Plain(b)
        BY <1>1, <3>2, <4>1, HeldPlain
      <4> QED
        BY <2>1, <2>3, <4>1, <4>2 DEF Settled, Together
    <3> QED
      BY <3>1, <3>2
  <2>5. Kept("same grafts", run[p], lived[p], later[p], world, past)
    BY <1>1, <2>2, <2>4, LabelSets DEF Kept, Taken
  <2> QED
    BY <1>1, <2>1, <2>5, GotoGraph
<1> QED
  BY <1>2, <1>3

\* A part that is as it was at the first location is not gone.
LEMMA ConfirmPart ==
  ASSUME Inv, GraphInv, NEW p \in Procs, UNCHANGED <<repository, cache, run, history>>,
         NEW label \in GraftsNext, pc[p] \in GraftsNext, Goto(p, label), NEW part,
         Pending(pc[p]) \subseteq Pending(label) \cup {part},
         world.graph[part] = Plain(run[p].boundary)[part]
  PROVE  GraphInv'
<1>1. /\ Kept(pc[p], run[p], lived[p], later[p], world, past)
      /\ StoreKept(cache, past \cup {world.graph})
  BY DEF GraphInv
<1>2. Known(pc[p]) = Parts /\ Known(label) = Parts /\ pc[p] \in Located /\ label \in Located /\ pc[p] # "idle"
  BY LabelSets DEF Known
<1>3. Settled(label, run[p], later[p], world, past)
  BY <1>1, <1>2 DEF Kept, Settled, Gone
<1>4. Kept(label, run[p], lived[p], later[p], world, past)
  BY <1>1, <1>2, <1>3 DEF Kept, Taken
<1> QED
  BY <1>1, <1>4, GotoGraph

LEMMA SamePartGraph ==
  ASSUME Inv, GraphInv, NEW p \in Procs, SameGrafts(p) \/ SameReplacements(p) \/ SameBoundary(p)
  PROVE  GraphInv'
<1>1. UNCHANGED <<repository, cache>> /\ StoreKept(cache, past \cup {world.graph}) /\ world.graph \in Graph
  BY DEF SameGrafts, SameReplacements, SameBoundary, Check, GraphInv, Inv, Shapes, World
<1>2. CASE End(p)
  BY <1>1, <1>2, EndGraph
<1>3. CASE ~End(p)
  <2> DEFINE b == run[p].boundary
  <2>1. /\ Plain(b)["grafts"] = FALSE /\ Plain(b)["replacements"] = FALSE /\ Plain(b)["boundary"] = b
        /\ world.graph["grafts"] \in BOOLEAN /\ world.graph["replacements"] \in BOOLEAN
    BY <1>1 DEF Plain, Graph
  <2>2. UNCHANGED <<run, history>> /\ pc[p] \in GraftsNext
    BY <1>3, LabelSets DEF SameGrafts, SameReplacements, SameBoundary, Check
  <2>3. CASE SameGrafts(p)
    <3>1. pc[p] = "same grafts" /\ Goto(p, "same replacements") /\ world.graph["grafts"] = Plain(b)["grafts"]
      BY <1>3, <2>1, <2>3 DEF SameGrafts, Check
    <3>2. Pending(pc[p]) \subseteq Pending("same replacements") \cup {"grafts"}
      BY <3>1, LabelSets DEF Pending, Parts
    <3> QED
      BY <1>1, <2>2, <3>1, <3>2, LabelSets, ConfirmPart
  <2>4. CASE SameReplacements(p)
    <3>1. pc[p] = "same replacements" /\ Goto(p, "same boundary")
          /\ world.graph["replacements"] = Plain(b)["replacements"]
      BY <1>3, <2>1, <2>4 DEF SameReplacements, Check
    <3>2. Pending(pc[p]) \subseteq Pending("same boundary") \cup {"replacements"}
      BY <3>1, LabelSets DEF Pending, Parts
    <3> QED
      BY <1>1, <2>2, <3>1, <3>2, LabelSets, ConfirmPart
  <2>5. CASE SameBoundary(p)
    <3>1. pc[p] = "same boundary" /\ Goto(p, "put facts") /\ world.graph["boundary"] = Plain(b)["boundary"]
      BY <1>3, <2>1, <2>5 DEF SameBoundary, Check
    <3>2. Pending(pc[p]) \subseteq Pending("put facts") \cup {"boundary"}
      BY <3>1, LabelSets DEF Pending
    <3> QED
      BY <1>1, <2>2, <3>1, <3>2, LabelSets, ConfirmPart
  <2> QED
    BY <2>3, <2>4, <2>5
<1> QED
  BY <1>2, <1>3

-----------------------------------------------------------------------------
(* Publication, and steps of the environment.                              *)

LEMMA StorePublished ==
  ASSUME Files(cache), NEW ever, StoreKept(cache, ever), NEW e, Store!Publish(e), EntrySound(e),
         EntryLive(e, ever)
  PROVE  StoreKept(cache', ever)
<1>1. \A n \in Names : cache'[n] = cache[n] \/ cache'[n] = e
  BY DEF Files, Store!Publish
<1> QED
  BY <1>1 DEF StoreKept

\* The entries that a command publishes say what their keys promise.
LEMMA EntriesSound ==
  ASSUME Inv, GraphInv, NEW p \in Procs, pc[p] \in Publishing
  PROVE  LET f == [key |-> FactsKeyOf(p), value |-> KnownFacts(p)]
             e == [key |-> SnapshotKeyOf(p), value |-> Neutral(p)]
             ever == past \cup {world.graph}
         IN  /\ EntrySound(f) /\ EntryLive(f, ever)
             /\ pc[p] = "put snapshot" => EntrySound(e) /\ EntryLive(e, ever)
<1> DEFINE f == [key |-> FactsKeyOf(p), value |-> KnownFacts(p)]
           e == [key |-> SnapshotKeyOf(p), value |-> Neutral(p)]
           ever == past \cup {world.graph}
<1>1. Range(run[p].answers) \ {Miss} \subseteq {Plain(run[p].boundary)} \cap ever
  <2>1. Kept(pc[p], run[p], lived[p], later[p], world, past) /\ pc[p] \in Located /\ Pending(pc[p]) = {}
    BY LabelSets DEF GraphInv, Pending
  <2> QED
    BY <2>1 DEF Kept, Settled, AnswersPlain
<1>2. EntrySound(f) /\ EntryLive(f, ever)
  <2>1. run[p].answers \in [Queries -> Unset(Graph)]
    BY DEF Inv, Shapes, Run
  <2>2. Range(KnownFacts(p)) \subseteq Range(run[p].answers)
    BY <2>1, QueriesAssumption DEF KnownFacts, Range
  <2>3. FactsKeyOf(p) \in FactsKey /\ FactsKeyOf(p).boundary = run[p].boundary
    BY EntryTypes DEF FactsKeyOf
  <2> QED
    BY <1>1, <2>2, <2>3 DEF EntrySound, EntryLive
<1>3. ASSUME pc[p] = "put snapshot"
      PROVE  EntrySound(e) /\ EntryLive(e, ever)
  <2>1. /\ Neutral(p).graphs \subseteq {Plain(run[p].boundary)} \cap ever
        /\ Neutral(p).inputs = run[p].inputs
    BY <1>1, <1>3, EntryTypes DEF Neutral
  <2>2. /\ SnapshotKeyOf(p) \notin FactsKey /\ SnapshotKeyOf(p).boundary = run[p].boundary
        /\ SnapshotKeyOf(p).inputs = run[p].inputs
    BY KeysApart DEF SnapshotKeyOf
  <2> QED
    BY <2>1, <2>2 DEF EntrySound, EntryLive
<1> QED
  BY <1>2, <1>3

LEMMA PutGraph ==
  ASSUME Inv, GraphInv, NEW p \in Procs, PutFacts(p) \/ PutSnapshot(p)
  PROVE  GraphInv'
<1>1. /\ UNCHANGED repository /\ Kept(pc[p], run[p], lived[p], later[p], world, past)
      /\ StoreKept(cache, past \cup {world.graph}) /\ Files(cache) /\ pc[p] \in Publishing
  BY DEF PutFacts, PutSnapshot, Publishing, GraphInv, Inv, Shapes
<1>2. StoreKept(cache', past \cup {world.graph})
  <2> DEFINE f == [key |-> FactsKeyOf(p), value |-> KnownFacts(p)]
             e == [key |-> SnapshotKeyOf(p), value |-> Neutral(p)]
             ever == past \cup {world.graph}
  <2>1. EntrySound(f) /\ EntryLive(f, ever)
        /\ (pc[p] = "put snapshot" => EntrySound(e) /\ EntryLive(e, ever))
    BY <1>1, EntriesSound
  <2>2. UNCHANGED cache \/ Store!Publish(f) \/ (pc[p] = "put snapshot" /\ Store!Publish(e))
    BY DEF PutFacts, PutSnapshot
  <2> HIDE DEF f, e
  <2> QED
    BY <1>1, <2>1, <2>2, StorePublished
<1>3. CASE End(p)
  BY <1>1, <1>2, <1>3, EndGraph
<1>4. CASE ~End(p)
  <2>1. Goto(p, "put snapshot") /\ UNCHANGED <<run, history>>
    BY <1>4 DEF PutFacts, PutSnapshot
  <2>2. /\ pc[p] \in Located /\ pc[p] \in GraftsNext /\ pc[p] # "idle"
        /\ Known(pc[p]) = Known("put snapshot") /\ Pending(pc[p]) = Pending("put snapshot")
    BY <1>1, LabelSets DEF Known, Pending
  <2>3. Kept("put snapshot", run[p], lived[p], later[p], world, past)
    BY <1>1, <2>2, LabelSets DEF Kept, Taken, Settled
  <2> QED
    BY <1>1, <1>2, <2>1, <2>3, GotoGraph
<1> QED
  BY <1>3, <1>4

LEMMA StopGraph ==
  ASSUME Inv, GraphInv, NEW p \in Procs, Uncached(p) \/ Stop(p)
  PROVE  GraphInv'
<1>1. UNCHANGED repository /\ StoreKept(cache', past \cup {world.graph}) /\ End(p)
  BY DEF Uncached, Stop, GraphInv
<1> QED
  BY <1>1, EndGraph

\* What a change of the repository leaves as it was: a part that is gone stays so,
\* and a part that was held is held or gone.
LEMMA ChangeParts ==
  ASSUME MayReturn = {}, Inv, Change
  PROVE  /\ past \subseteq past' /\ past' \cup {world'.graph} = past \cup {world.graph, world'.graph}
         /\ \A part \in Parts : \A value :
               /\ Gone(part, value, world, past) => Gone(part, value, world', past')
               /\ world.graph[part] = value =>
                     world'.graph[part] = value \/ Gone(part, value, world', past')
<1>1. world \in World /\ world.graph \in Graph /\ DOMAIN world.graph = Parts
  BY DEF Inv, Shapes, World, Graph, Parts
<1>2. CASE \E g \in Graph, part \in Parts :
             /\ g # world.graph /\ g = [world.graph EXCEPT ![part] = g[part]]
             /\ Fresh(part, g[part])
             /\ world' = [world EXCEPT !.graph = g]
             /\ past' = past \cup {world.graph}
  <2>1. PICK g \in Graph, part \in Parts :
             /\ g # world.graph /\ g = [world.graph EXCEPT ![part] = g[part]]
             /\ Fresh(part, g[part])
             /\ world' = [world EXCEPT !.graph = g]
             /\ past' = past \cup {world.graph}
    BY <1>2
  <2>2. world'.graph = g
    BY <1>1, <2>1 DEF World
  <2>3. \A other \in Parts \ {part} : g[other] = world.graph[other]
    BY <1>1, <2>1
  <2>4. \A h \in past : h[part] # g[part]
    BY <2>1 DEF Fresh
  <2>5. ASSUME NEW other \in Parts, NEW value
        PROVE  /\ Gone(other, value, world, past) => Gone(other, value, world', past')
               /\ world.graph[other] = value =>
                     world'.graph[other] = value \/ Gone(other, value, world', past')
    BY <2>1, <2>2, <2>3, <2>4 DEF Gone
  <2> QED
    BY <2>1, <2>2, <2>5
<1>3. CASE UNCHANGED past /\ world'.graph = world.graph
  BY <1>3 DEF Gone
<1>4. \/ \E b \in Branches : world' = [world EXCEPT !.branches = b]
      \/ \E m \in Mains : world' = [world EXCEPT !.main = m]
      \/ \E u \in Upstreams : world' = [world EXCEPT !.upstreams = u]
      => world'.graph = world.graph
  BY <1>1 DEF World
<1> QED
  BY <1>1, <1>2, <1>3, <1>4 DEF Change

LEMMA ChangeGraph ==
  ASSUME MayReturn = {}, Inv, GraphInv, Change
  PROVE  GraphInv'
<1>1. UNCHANGED <<cache, pc, run>>
  BY DEF Change
<1>2. StoreKept(cache', past' \cup {world'.graph})
  BY <1>1, ChangeParts DEF GraphInv, StoreKept, EntryLive
<1>3. ASSUME NEW p \in Procs
      PROVE  Kept(pc[p], run[p], lived'[p], later'[p], world', past')
  <2> DEFINE b == run[p].boundary
             label == pc[p]
  <2>1. Kept(label, run[p], lived[p], later[p], world, past)
    BY DEF GraphInv
  <2>2. /\ label # "idle" => lived'[p] = lived[p] \cup {world'.graph} /\ world.graph \in lived[p]
        /\ label = "idle" => lived'[p] = {} /\ run[p].original = NoFacts /\ run[p].found = Miss
        /\ later[p] \subseteq later'[p]
    BY <2>1, ChangeTypes, LabelSets DEF Change, Kept, Taken
  <2>3. Known(label) \subseteq Parts /\ Pending(label) \subseteq Parts
    BY DEF Known, Pending, Parts
  <2>4. Held(Known(label), b, world', past')
    BY <2>1, <2>3, ChangeParts DEF Kept, Held
  <2>5. ASSUME label # "idle"
        PROVE  Behind(Known(label), b, lived'[p], world', past')
    <3> SUFFICES ASSUME NEW g \in past' \ lived'[p]
                 PROVE  \E part \in Parts :
                           /\ Gone(part, g[part], world', past')
                           /\ part \in Known(label) => g[part] # Plain(b)[part]
      BY DEF Behind
    <3>1. g \in past \ lived[p]
      BY <2>2, <2>5, ChangeParts
    <3>2. PICK part \in Parts : Gone(part, g[part], world, past)
                                /\ (part \in Known(label) => g[part] # Plain(b)[part])
      BY <2>1, <2>5, <3>1 DEF Kept, Behind
    <3> QED
      BY <3>2, ChangeParts
  <2>6. ASSUME label \in Located
        PROVE  Settled(label, run[p], later'[p], world', past')
    <3>1. CASE \E part \in Pending(label) : Gone(part, Plain(b)[part], world, past)
      BY <2>3, <3>1, ChangeParts DEF Settled
    <3>2. CASE AnswersPlain(run[p], world, past) /\ (label \in GraftsNext => Together(run[p], later[p]))
      <4>1. AnswersPlain(run[p], world', past')
        BY <3>2, ChangeParts DEF AnswersPlain
      <4>2. label \in GraftsNext => Together(run[p], later'[p])
        BY <2>2, <3>2 DEF Together
      <4> QED
        BY <4>1, <4>2 DEF Settled
    <3> QED
      BY <2>1, <2>6, <3>1, <3>2 DEF Kept, Settled
  <2>7. Taken(label, run[p], lived'[p])
    BY <2>1, <2>2, NoRunType DEF Kept, Taken
  <2> HIDE DEF label
  <2> QED
    BY <2>1, <2>2, <2>4, <2>5, <2>6, <2>7 DEF Kept, label
<1> QED
  BY <1>1, <1>2, <1>3 DEF GraphInv

LEMMA LoseGraph ==
  ASSUME Inv, GraphInv, NEW n \in Names, Lose(n)
  PROVE  GraphInv'
<1>1. \A m \in Names : cache'[m] = cache[m] \/ cache'[m] = Miss
  BY FilesDiscarded DEF Lose, Inv, Shapes
<1>2. UNCHANGED <<repository, pc, run, history>>
  BY DEF Lose
<1> QED
  BY <1>1, <1>2 DEF GraphInv, StoreKept, repository, history

LEMMA NextGraph == ASSUME MayReturn = {} PROVE Inv /\ GraphInv /\ [Next]_vars => GraphInv'
<1> SUFFICES ASSUME Inv, GraphInv, [Next]_vars PROVE GraphInv'
  OBVIOUS
<1>1. ASSUME NEW p \in Procs,
             \/ \E b \in Backends, m \in Modes : Start(p, b, m)
             \/ Open(p) \/ Choose(p) \/ ChooseReplacements(p)
             \/ PrepareClear(p) \/ Bypass(p) \/ Uncached(p)
             \/ LocateMain(p) \/ LocateGrafts(p)
             \/ LocateReplacements(p) \/ LocateBoundary(p)
             \/ CaptureBranches(p) \/ CaptureMain(p) \/ CaptureUpstreams(p)
             \/ ReadSnapshot(p) \/ ReadFacts(p)
             \/ \E q \in Queries : Ask(p, q)
             \/ Render(p) \/ Decide(p)
             \/ SameBranches(p) \/ SameMain(p) \/ SameUpstreams(p)
             \/ SameLocation(p) \/ SameGrafts(p)
             \/ SameReplacements(p) \/ SameBoundary(p)
             \/ PutFacts(p) \/ PutSnapshot(p)
             \/ Stop(p)
      PROVE  GraphInv'
  BY <1>1, StartGraph, OpeningGraph, LocatePartGraph, LocateBoundaryGraph, CaptureGraph,
     ReadSnapshotGraph, ReadFactsGraph, AskGraph, RevalidateGraph, SameLocationGraph, SamePartGraph,
     PutGraph, StopGraph
<1>2. CASE UNCHANGED vars
  BY <1>2 DEF vars, GraphInv
<1> QED
  BY <1>1, <1>2, ChangeGraph, LoseGraph DEF Next

\* What commands know, the graphs the repository has left and the entries of the
\* store, taken together, is inductive while no part of the graph returns.
THEOREM GraphInvariance == ASSUME MayReturn = {} PROVE Spec => [](Inv /\ GraphInv)
<1>1. Init => GraphInv
  BY InitGraph
<1>2. Inv /\ GraphInv /\ [Next]_vars => GraphInv'
  BY NextGraph
<1> QED
  BY <1>1, <1>2, Invariance, PTL DEF Spec

\* Every stored fact and snapshot is of the plain graph at the boundary and of the
\* inputs in its key, unless a part of the graph returns to what it was before, however
\* the reads of the two locations fall between the changes.
THEOREM EntriesKeepTheirPromise == ASSUME MayReturn = {} PROVE Spec => []StoreSound
<1>1. Inv /\ GraphInv => StoreSound
  BY DEF GraphInv, StoreKept, StoreSound
<1> QED
  BY <1>1, GraphInvariance, PTL

\* Whatever a command takes over from the store was computed on a graph that has
\* been live since it opened the repository, unless a part of the graph returns.
THEOREM ReuseIsOfLiveGraphs == ASSUME MayReturn = {} PROVE Spec => []ReusedWasLive
<1>1. Inv /\ GraphInv => ReusedWasLive
  BY DEF GraphInv, Kept, Taken, ReusedWasLive, Hit
<1> QED
  BY <1>1, GraphInvariance, PTL

\* Nothing is published unless every input and every part of the graph had its
\* captured value again after the output was complete and, if no part returns, the
\* whole graph and the main branch had theirs in one state of the repository.
THEOREM PublicationIsConfirmed == Spec => []PublicationConfirmed
<1> DEFINE Each == \A p \in Procs : pc[p] \in {"put facts", "put snapshot"} =>
                      /\ \E w \in later[p] : w.branches = run[p].inputs.branches
                      /\ \E w \in later[p] : w.upstreams = run[p].inputs.upstreams
                      /\ \E w \in later[p] : w.main = run[p].inputs.main
                      /\ \E w \in later[p] : ~w.graph.grafts
                      /\ \E w \in later[p] : ~w.graph.replacements
                      /\ \E w \in later[p] : w.graph.boundary = run[p].boundary
           All == \A p \in Procs : pc[p] \in {"put facts", "put snapshot"} =>
                      \E w \in later[p] :
                         /\ w.graph = Plain(run[p].boundary)
                         /\ w.main = run[p].inputs.main
<1>1. Inv => Each
  <2> SUFFICES ASSUME Inv, NEW p \in Procs, pc[p] \in {"put facts", "put snapshot"}
               PROVE  /\ \E w \in later[p] : w.branches = run[p].inputs.branches
                      /\ \E w \in later[p] : w.upstreams = run[p].inputs.upstreams
                      /\ \E w \in later[p] : w.main = run[p].inputs.main
                      /\ \E w \in later[p] : ~w.graph.grafts
                      /\ \E w \in later[p] : ~w.graph.replacements
                      /\ \E w \in later[p] : w.graph.boundary = run[p].boundary
    OBVIOUS
  <2>1. Confirmed(pc[p], run[p], later[p], world)
    BY DEF Inv, Local
  <2> QED
    BY <2>1 DEF Confirmed, MainNext, UpstreamsNext, LocationNext, GraftsNext, ReplacementsNext,
       BoundaryNext, Publishing
<1>2. Inv /\ GraphInv => All
  <2> SUFFICES ASSUME Inv, GraphInv, NEW p \in Procs, pc[p] \in {"put facts", "put snapshot"}
               PROVE  \E w \in later[p] :
                         w.graph = Plain(run[p].boundary) /\ w.main = run[p].inputs.main
    OBVIOUS
  <2>1. pc[p] \in Located /\ pc[p] \in GraftsNext /\ Pending(pc[p]) = {}
    BY LabelSets DEF Pending
  <2>2. Together(run[p], later[p])
    BY <2>1 DEF GraphInv, Kept, Settled
  <2>3. run[p].main = run[p].inputs.main
    BY DEF Inv, Local, Confirmed, UpstreamsNext, LocationNext, GraftsNext, ReplacementsNext,
       BoundaryNext, Publishing
  <2> QED
    BY <2>2, <2>3 DEF Together
<1>3. Each /\ (MayReturn = {} => All) => PublicationConfirmed
  BY DEF PublicationConfirmed
<1> HIDE DEF Each, All
<1>4. Inv /\ (MayReturn = {} => GraphInv) => PublicationConfirmed
  BY <1>1, <1>2, <1>3
<1>5. CASE MayReturn = {}
  <2>1. Inv /\ GraphInv => PublicationConfirmed
    BY <1>4
  <2> QED
    BY <1>5, <2>1, GraphInvariance, PTL
<1>6. CASE MayReturn # {}
  <2>1. Inv => PublicationConfirmed
    BY <1>4, <1>6
  <2> QED
    BY <2>1, Invariance, PTL
<1> QED
  BY <1>5, <1>6
=============================================================================
