# Specifications of git-ls

git-ls prints the local branches of a Git repository as a graph. The program
itself is sequential, but its runs are not alone: commands in several worktrees
and detached maintenance workers share one directory of cached results, and the
repository changes while they read it. One half of these specifications is
about that: what may be stored, what may be reused, and what survives crashes,
failed calls and unlucky orders. The other half is about the graph: whether the
lanes, counts and distances are those of the commit graph, however the backend
came by them, and whether the rows, connectors and colours that are drawn show
these lanes and no others.

Paths such as `src/src/cache.rs` are relative to the directory that holds the
repository's checkout `src/`.

## Inventory

| Component | Source | State | Operations | Modelled by |
|---|---|---|---|---|
| cache store | `cache.rs` | directory `git-ls/cache/v1`: 32 snapshot slots, two fact files, maintenance state and report, `publication.lock`, `publication.tmp` | `open`, `read`, `lock`, `publish`, `publish_encoded`, `clear` | `AtomicCache`, `CacheStore` |
| cached command | `app/cached.rs`, `app/env.rs`, `app.rs` | location, captured inputs, snapshot, facts | `location`, `prepare_cache`, `execute_cached` | `CachedRun` |
| cache maintenance | `cache/maintenance.rs`, `cache/policy.rs` | counters, last attempt | `after_render`, `spawn`, `run`, policy functions | `Maintenance` |
| cache keys | `cache/compatibility.rs` | none | `FactsKey::encode`, `snapshot` | keys of `CachedRun` |
| backend session | `backend/session.rs` | facts, frozen inputs, rewrites | queries of all backend traits | `CachedRun` (graph queries), `RewriteSearch` (rewrites) |
| diff statistics | `backend/session/statistics.rs`, `backend/diff.rs` | scopes of statistics, fingerprints | `diff_stats` | `DiffStatistics` |
| fact retention | `cache/facts.rs` | maps of answers, recency | `fit`, `compact`, `touch` | `FactRetention` |
| topology codec | `cache/topology.rs` | none | `serialize`, `deserialize` | `TopologyCodec` |
| graph algorithms | `backend/graph.rs`, `backend/gix/graph.rs`, `backend/batch.rs` | parent cache | descendants, linear paths, proven bases, counts, tips, heads, distances | `RangeGraph`, `AncestryBackend` |
| native backend | `backend/gix.rs` | repository handle, captured boundary, last selection, summaries | `discover`, `requires_shell_graph`, queries | `CachedRun` (capture), `AncestryBackend` (ancestry) |
| subprocess backend | `backend/shell.rs`, `process.rs`, `metadata.rs` | captured configuration | one `git` process per query | `RewriteSearch` (search for rewrites), `AncestryBackend` (graph queries) |
| lane selection, construction | `lanes/*.rs` | main, points, heads, lanes of one analysis | selection, heads, lanes, groups | `LaneAnalysis` |
| ancestry and trunk rendering | `render/ancestry.rs`, `graph.rs`, `trunk.rs`, `branch.rs` | prepared topology | sharing, binding, prefixes of rows, pieces of main | `SharedAncestry`, `GraphDrawing` |
| colour assignment | `render/colours/**` | colours, loads of colours and families | segments, neighbours, three passes, shades | `ColourAssignment`, `GraphDrawing` |
| text layout | `render/layout.rs`, `line.rs`, `metadata.rs`, `orphan.rs` and others | lanes in progress, next colour | order of rows, gaps, orphans, columns and widths | `GraphDrawing` (rows and gaps), text not |
| terminal, command line, configuration, diagnostics | `terminal*`, `cli/*`, `diagnostics.rs` | none | detection, parsing, messages | not modelled |

How they interact. `app/env.rs` opens a backend, preferring gix and falling back
to the subprocess backend when replacement refs or grafts alter the graph.
`execute_cached` takes a *location* (boundary, configured main branch), captures
the *inputs* (branches, main branch, upstreams), looks up a snapshot and a facts
file in the store, lets the session answer from facts or from the backend,
writes its output, and only then revalidates the inputs and the location and
publishes. Built or stored, lanes and groups are put in order, their ancestry is
prepared once, and two separate walks over it number the segments: one weighs
and colours them (`render/colours/assignment/topology.rs`), the other draws them
(`render/layout.rs`); only the order of the rows keeps the two together.
`after_render` counts the publication in the maintenance state under
`publication.lock`, and now and then reserves an attempt and starts a worker,
the same executable in a private mode, which holds `maintenance.lock` and
`publication.lock` while it evicts snapshots. All of this meets in the store's
files; there is no other channel between processes.

What is hard here:

- two publishers, a clear and a worker share one lock that is tried and never
  waited for, and one temporary file; readers take no lock at all;
- any process may die between any two file-system calls, and any call may fail;
- the repository changes between the reads of one command, even between those
  that make up its location, and the native handle remembers some of it (the
  boundary, the configuration) and reads the rest live;
- the native backend answers from the last tip selection and from summaries
  prepared for it, while the analysis replaces that selection several times; it
  proves merge bases from ranges that may be too long to keep, and has two ways
  to a distance;
- rewritten commits are found by a bisection of queries to git-branchless, whose
  event log may change between any two of them, and the session remembers
  results for lanes that share commits;
- the drawing has columns that are reused, joined and crossed, and a colouring
  that is repaired under running totals of unsigned numbers;
- histories have merges, several merge bases, unrelated roots and a main branch
  that has diverged from its upstream;
- maintenance decides on counters which other commands change or which cannot be
  read, under a clock that may be set back, with a scan that may be cut short or
  pass over files.

What makes each component correct:

- *store*: a final name shows a complete entry or none; an answer was stored
  under exactly the key asked for; a clear is complete or says that it is not;
  the lock is always let go of;
- *command*: an entry says what its key promises; what is reused was true of a
  graph that was live during the command; nothing is published unless the
  inputs were confirmed after the output was complete;
- *maintenance*: the triggering and the most recent snapshots survive a pass,
  the removed files fit the budget, work that is put off stays recorded, attempts
  are an interval apart;
- *graph algorithms, selection, lanes*: the native and the subprocess backend
  agree with each other and with reachability in the commit graph: heads span
  the selected points, bases are merge bases, points and counts are those of the
  ancestry path, distances count descendants on main;
- *rewrites*: what a lane shows of a commit is what one state of the event log
  during the command gives, lanes agree about the commits they share, and the
  search ends;
- *drawing*: whoever follows a lane down from its head meets its commits and its
  base and nothing else; main is drawn once, in one piece, with all that is left
  out of it counted; the segments that are coloured are those that are drawn;
- *colours*: neighbours differ where the palette allows, the running totals are
  the sums they stand for, and a repair never makes the whole worse;
- *retention and codec*: retention ends within the limit and keeps what has just
  been used; decoding an encoded topology gives it back;
- *diff statistics*: a count is shown or kept only for the trees, executable,
  configuration and attributes it was measured under, and one rendering never
  mixes reused counts with those of another context.

## Modules

- `AtomicCache` is what the store promises: names hold a whole entry or nothing,
  a publication takes effect at once, an entry may disappear at any time, a
  reader gets what was stored under its very key.
- `CacheStore` is `src/src/cache.rs` call by call. `files` and `temp` are the
  directory entries, `lock` is `publication.lock`, `pc` the next call of each
  process, `job` what it still has to do under the lock: remove some paths, then
  publish some entries. `publish` and `publish_encoded` have one entry and no
  path, `clear` every path and no entry, a maintenance pass
  (`maintenance::run`) some slots, the temporary file and two entries.
  `Encode`, `Reclaim`, `Create`, `Write`, `Rename`, `Abandon` are the calls of
  `encoded_entry` and `write_locked`, each with its failure. `Open` and `Load`
  are `Store::read`: the descriptor opened first is what is decoded later.
  `Crash` drops the process and its lock but not its temporary file; `Damage`
  spoils a file behind the program's back.
- `CachedRun` is one command of `src/src/app/cached.rs`, several of them beside
  each other, over `Store == INSTANCE AtomicCache`. Each label of `pc` stands
  before one read or write of shared state: the two captures of the handle that
  is opened, the two tests that choose the backend, the four reads of `location`
  (configuration, grafts, replacement refs, boundary: `LocateMain`,
  `LocateGrafts`, `LocateReplacements`, `LocateBoundary`), the three reads of
  `Inputs::capture`, the two reads of the store, every question of the analysis,
  the three reads of the revalidation, the four of the second location
  (`SameLocation` to `SameBoundary`), the two publications. `world` is the
  repository, `Change` a change of any one part of it between any two of these. An
  answer is modelled by the interpretation of the graph it was computed under
  (boundary, and whether grafts or replacement refs altered it), which is all
  that the properties tell apart.
- `Maintenance` is `src/src/cache/maintenance.rs` and `policy.rs`: `Render`,
  `Count`, `Postpone`, `Attempt`, `Spawn`, `Leave` are a command after its
  output, `Scan`, `Evict`, `Finish`, `Quit` are a worker. The policy functions
  keep their names. `Count` reads the state as the code does: a file that is
  missing, and one that is there but cannot be read or decoded (`lost`), count as
  the default. `Scan` may be cut short anywhere, and it passes over any slots whose
  metadata it does not get (`unseen`) without recording them. `forgotten` is a
  history variable: the time of the last attempt is not in the state any more. The
  two locks of a worker are taken together, since
  `maintenance.lock` is only held by a process that goes on to take
  `publication.lock` or quits at once.
- `RangeGraph` is `src/src/backend/graph.rs`: its algorithms on the range a
  revision walk has returned, beside the definitions of what Git answers
  (reachability, walks, merge bases, ancestry paths), which are external. A
  history maps a commit to its set of parents; commits are numbered in the order
  in which `indexed_graph` visits them. A bit mask is the set of bases whose
  bits are set, a boundary the set of outside parents (the code stops telling
  them apart at two).
- `AncestryBackend` is the ancestry queries of `GixBackend`
  (`src/src/backend/gix.rs`, `gix/graph.rs`) with their memo, `selection` and
  `summaries`, and those of the subprocess backend (`batch.rs`). A query is the
  set of its possible answers, since Git may name any of several merge bases and
  list a merged path in several orders.
- `LaneAnalysis` is one analysis: `ResolveMain`, `FilterBranches`,
  `SelectBranches`, `RetainPoints`, `AddForks`, `FindHeads` are
  `lanes/selection.rs`, `Prepare`, `DetectRewrites`, `BuildLane` are
  `lanes/construction.rs`, `BuildGroups`, `AddEndpoints` are `lanes/grouping.rs`.
  Each action ends with the query that may replace the memo of the backend. The
  commits that git-branchless reports as rewritten are chosen once for all
  lanes; the code asks for each lane, about commits whose answers do not change.
- `TopologyCodec` is `src/src/cache/topology.rs`: `Encode` stores the points of
  lanes once for each way down, `Decode` follows the positions and rejects a
  table with a position out of range or upwards. `LaneAnalysis` states the round
  trip about the lanes it has found.
- `FactRetention` is `src/src/cache/facts.rs`: the tables of facts, `Touch`, and
  the policy `Compacted` with the rounds of `Facts::fit` (`DropDiff`,
  `HalveMetadata`, `HalveGraph`). Merge bases, distances, commit records and
  trees follow from their keys, so that a table of them is a set of keys; ties
  of recency, which the code breaks by name, are left open.
- `DiffStatistics` is a command's work on line counts, commands following one
  another: the layers of its lanes (`src/src/lanes/diff.rs`), what is asked and
  touched before (`Ask`), `diff_stats` and `reuse_statistics`
  (`src/src/backend/session/statistics.rs`) read by read, with both captures of
  the context (`src/src/backend/process.rs`), one step for each pair that Git
  counts, and the admission of facts at the end (`Compact`, `GiveUp...`,
  `Admit`, `Publish`). `world` is what Git runs under, and a count is the record
  of what it was measured under. Before a pair is measured any part of `world`
  may change, so that the pairs of one process may differ.
- `RewriteSearch` is the search for rewritten commits: `Begin` and `Answer` are
  the two halves of `Session::rewrite_results` (`src/src/backend/session.rs`),
  `QueryRange` is the first query of `shell_path_rewrites`, `NextBatch` and
  `QueryGroup` are the loops of `shell_query_rewrites`
  (`src/src/backend/shell.rs`). A query reads `current` of a set of commits in one
  step; `Change` moves the event log on between queries, and `was` remembers what
  it has said. Batches and halves are sets of commits, cut in the order of the
  path.
- `SharedAncestry` is `src/src/render/ancestry.rs`: a row is a path from the base
  up, so that two lanes share it exactly if they agree on all below it.
- `ColourAssignment` is `src/src/render/colours/assignment.rs`: `Place` is one
  turn of the greedy pass or of a repair pass, `Cost` the seven costs in their
  order, `PreferReadableShades` the exchange at the end.
- `GraphDrawing` is one rendering from analysed groups to rows. `Arrange` puts
  lanes and groups in order and prepares their ancestry; `VisitRow`,
  `VisitGroup`, `LinkSegments` are the walk of
  `src/src/render/colours/assignment/topology.rs`; `Colour` and `Shade` are steps
  of `ColourAssignment`; `OpenGroup`, `DrawRow`, `DrawTrunk`, `DrawOrphans`,
  `Finish` are the walk of `src/src/render/layout.rs` with the prefixes of
  `graph.rs` and `trunk.rs`. A row of `picture` has its kind, main's spine, one
  cell (glyph and segment number) for each lane, and what its label is about. The
  row of a commit has a `Text` as well: its marker and the names it shows. A commit
  of main's own on a lane, which main and its upstream have when they diverge, has
  the names of main's refs in main's colour, all others those of their branches in
  the colour of their segment.
- `CacheStoreProofs` proves the safety properties of `CacheStore` and that it
  implements `AtomicCache`; `CachedRunProofs`, `MaintenanceProofs`,
  `RewriteSearchProofs`, `DiffStatisticsProofs`, `LaneAnalysisProofs` and
  `GraphDrawingProofs` prove those of the modules they are named after, the last
  all but `SegmentsAreWhatIsSeen`. `LaneAnalysisProofs` begins with the algorithms
  of `RangeGraph`; `GraphDrawingProofs` rests on `ColourAssignmentProofs`.
- `MCCacheStore`, `MCCachedRun`, `MCMaintenance`, `MCLaneAnalysis`,
  `MCDiffStatistics`, `MCRewriteSearch`, `MCGraphDrawing` are what the runs
  instantiate; they define the constants that a configuration cannot write down:
  the file of each key, the trees and lanes of an example and the facts it starts
  with, the states of an event log, the analyses that are drawn.

## Runs

| Run | Configuration | Question |
|---|---|---|
| `store` | `MCCacheStore.cfg` | Does the store implement `AtomicCache`, are its files never torn, its temporary file never shared, its clears complete, and does every holder let go of the lock? |
| `cached_command` | `MCCachedRun.cfg` | Are stored entries what their keys say, and is publication confirmed, with both backends, all modes and a repository that changes in every way? |
| `cached_pair` | `MCCachedRunPair.cfg` | Is what a command reuses from another one true of a graph it has seen live? |
| `eviction` | `MCMaintenance.cfg` | What may a pass remove, how much, and what must it record? |
| `attempt_spacing` | `MCMaintenanceSpacing.cfg` | Are attempts an interval apart when two commands and a worker race, unless the state was lost or unreadable in between? |
| `lane_analysis` | `MCLaneAnalysis.cfg` | Are heads, bases, points, counts and distances those of the commit graph, on both backends and both selections, and does a snapshot give the lanes back? |
| `diff_statistics` | `MCDiffStatistics.cfg` | Is every count that is shown or kept one of its pair and context while all of it may change, and does retention end and keep what was used last? |
| `rewrite_search` | `MCRewriteSearch.cfg` | Are the rewrites that lanes show true of the event log, alike between lanes, and found in the end, while the log changes? |
| `graph_drawing` | `MCGraphDrawing.cfg` | Do the rows show the lanes, all of main, and the segments that were coloured, and is the colouring what it promises? |
| `boundary_returns` | `MCCachedRunReturn.cfg` | Is an entry sound even if the boundary changes and returns during the analysis? (No.) |
| `spacing_after_clear` | `MCMaintenanceForget.cfg` | Are attempts spaced across a `--clear-cache`? (No.) |
| `merged_branch` | `MCLaneAnalysisShown.cfg` | Is every selected branch on some lane? (No, not behind a merge.) |

Bounds, and why they are enough.

- Store: two processes, because every rule is about one holder against one
  other process or one crash and its successor; a slot shared by two keys
  (collisions), a second name for facts and maintenance records
  (one record, since state and report are written alike), payloads of which one
  exceeds the limit. The liveness property forbids symmetry. The proofs
  cover all other numbers.
- Command: one process suffices for what a repository can do to a command and
  what the command leaves for the next one, and two processes for reuse across
  commands. `MaxChanges` bounds the changes of the repository. With the three of
  `cached_command`, replacement refs appear after they were looked for and the
  boundary is cut before it is read, or the other way round, and an input changes
  besides; that they vanish again in time for the second location is what
  `MayReturn` excludes (below). There are two boundaries, two states of each input and
  two questions, one of which is persisted. `cached_pair` has two changes and
  leaves grafts out (`CONSTRAINT Ungrafted`): the code treats them like
  replacement refs, one read earlier, and `cached_command` has both.
- Maintenance, `eviction`: three slots of which one rank is recent, published files
  of exactly the limit for an entry (two bytes) and foreign ones of one byte more, a
  budget of four bytes, which takes two files of the limit or one oversized file, but
  no more; ages and intervals of one unit and a clock with two
  readings that moves both ways, so that "old", "recent" and "from the future"
  and ties all happen; the state is cleared at any time, and any part of the
  directory is cut off or passed over by a scan. `attempt_spacing`: two commands
  and a worker, an interval of two units on a clock of five, two publications to be
  due, a state that is cleared or cannot be read. The counters stop at the values
  at which they are due, since larger ones make no difference to `due`.
- Lanes: every history of five commits with at most two parents each, local main
  and its upstream on any commits, up to two commits with other branches, such
  that every commit is reachable from one of them. Five commits hold a
  criss-cross merge with both sides, a merge of an older fork, and a diverged
  main with a branch on top. Ranges of more than three commits are not kept
  (`RetainLimit`), and two tips are already too many for one
  `merge-base --independent` (`ArgLimit`), so both limits are passed on both
  sides. A repository that the native backend finds to be shallow may have any of
  these histories, since both backends see the commits at the boundary as roots;
  distances then never come from the corridor (`shallow`).
  `merged_branch` needs four commits only.
- Statistics: four commits. Three are a stack whose top reverts the layer below,
  so that different commits share a tree and both directions of a pair occur;
  the fourth is an orphan root with more paths than `DependencyLimit` admits.
  Two commands run after an earlier one or after none, and two changes of
  executable, configuration or an attribute fall anywhere: one may precede and
  one interrupt a capture. `Limit` (4096 in the code), `ScopeLimit` (4) and
  `QueryLimit` (65,536) are 2, 2 and 3 in the same order as in the code, with
  three executables and so many older facts that each of them is exceeded. The
  sizes in `Rooms` let everything, something or nothing fit, which reaches
  every branch of `fit`; a size is a number of answers.

- Rewrites: two lanes that share one, two or four commits, in six repositories. The
  batches have more commits than `GroupLimit`, with halves of one and two.
  `MemoLimit` is three: two lanes that share one commit have no more than three to
  ask about, so that the session retains everything and lanes have to agree; of
  longer ones it runs out of room within the second lane or within the first, and
  then lanes that share the commit for which there was no room (5) do disagree when
  the log changes between them. Commits are hidden, rewritten to one or to two
  versions, alone or two at once, and the log changes twice, which is what it
  takes to be there and back between two queries.
- Drawing, in three families. All sets of up to four lanes over five commits, in
  every order of time, and of up to three over four with a rewritten commit: with
  these every shape of a fork, a join and a crossing of lanes occurs. Groups on
  main's tip, two along main at equal and unequal distances, orphans, and main
  alone, behind, ahead of, beside and diverged from its upstream, then on a commit
  of a lane or of an orphan. In the first two families what lies below a diverged
  main on its lane is main's own history, and a commit where other lanes leave it
  has no branch. One group of
  eight lanes, on one shared commit, on a staircase of shared commits or on the
  base, in which names of two widths decide the order of placement: segments
  have more neighbours than there are colours, later passes do repair, and shades
  are exchanged. Within these bounds no neighbours do get the same colour.

Assumptions the passing runs make, and the code does not enforce.

- `MayReturn = {}` in `cached_command` and `cached_pair`: no part of the graph (the
  boundary, whether there are grafts, whether there are replacement refs) returns
  to a state it has left. Since a location is read part by part, it is not enough
  that no graph as a whole returns: replacement refs that appear after they were
  looked for, a boundary that is cut before it is read and replacement refs that
  vanish again leave a graph that there never was before, and yet answers of the
  altered one would be published. Without the assumption `StoreSound` fails;
  `boundary_returns` shows it for the boundary, whose return a document excludes.
- `MayReturn = FALSE` in `diff_statistics`, too: a context that changes while
  pairs are counted and is as before at the second capture is not noticed, as
  with the boundary. `StatisticsSound` is about all other changes.
- In `DiffStatistics` commands follow one another. That another command
  overwrites the facts, or that they are lost, is the subject of `CachedRun` and
  is `Lose` here. A change after the output is one before the next command. The
  root of the worktree, part of the scope, stands for itself, the clocks of use
  do not saturate, and whether Git named a path whose attributes were not
  captured is left open. That a refused or failed publication keeps
  the older facts (and with them the older recency) is `Publish` without effect;
  a command that only hits publishes nothing, and its use is not recorded.
- `ClockTurnsBack = FALSE` in `attempt_spacing`: the distance of attempts is measured
  with a clock that runs forward. `eviction` drops this. That the state is lost, by
  a clear or because a read of it fails, is in both the model and the run:
  `SpacedUnlessForgotten` promises the interval unless, since the last attempt, the
  state was removed or the command in question or one that wrote it before could
  not read it.
- `NothingForgotten` excepts the slots that a scan has passed over without a word
  (`src/src/cache/maintenance.rs:164-171`): a file that should go may stay while the
  state says that nothing is pending, although `docs/configuration.md:116` has
  deferred reclamation remain eligible. `KeepsRecent` and `BudgetKept` hold
  whatever is passed over.
- In `CachedRun` the gix handle captures the boundary and the configuration
  only. What gix itself remembers of replacement refs inside an open handle is
  external; the code chooses the backend by a live test, and so does the model. One
  question of the analysis is one step under one interpretation of the graph,
  although a walk reads many objects; that the native backend may mix the boundary
  it has captured with the live one between questions is in `Interpretations`.
- While a pass holds the lock no foreign program changes the directory, and a
  publication is a single step of `Maintenance` (that it is one is what
  `CacheStore` is about). A failing removal in a pass is the case in which the
  entry stays and is recorded as pending.
- `LaneAnalysis`: the repository stands still during one analysis (the session
  replays the captured branches and commits do not change; what happens when the
  graph itself changes is the subject of `CachedRun`). The analysis of one
  repository ends, so its configurations turn the deadlock check off.
- `ShownWithoutMerges` and `EndpointsVisible` are about repositories without a
  merge between main and the heads; `merged_branch` shows why. `ForksAreMarked`
  promises nothing when one of several merge bases is reachable from main: Git
  may name that one, and then the fork is not marked.

- `RewriteSearch`: a query sees one state of the event log, as a `git branchless`
  process does that loads it once. Whether an expression is longer than 8192
  bytes, and the range query left out, is a free choice. The range of a query is
  the interior of the lane's path; in a merged history it is a superset, which
  can only make the range query skip less.
- `GraphDrawing` starts from groups as `LaneAnalysis` finds them: no head lies on
  another lane, refs of main that are not its tip have a group, orphans are one
  group. Left out are the width of the terminal and the truncation of lanes, the
  padding to a common lane field, text and metadata columns, the marks of the
  current commit and branch, and drawing without colours; the three lines of a
  gap in main are one. Numbers stand for names in their alphabetical order.
  Rewritten commits are drawn lowest in their lane whatever their place in
  history is, as in the code, so that two lanes share a point only if they also
  share all rewritten commits.

Fairness. `FairSpec` of `RewriteSearch` asks that the search goes on
(`WF(Search)`): git-branchless answers a query or the command fails, and the
event log changes only finitely often while one command runs. `FairSpec` of
`CacheStore` asks that a holder of the lock goes on with its next call
(`WF(Proceed(p))` for each process). No call of a holder waits for another
process: the lock is tried, files are local, workers are not waited for. So only
the operating system's scheduler can keep a holder from proceeding, and weak
fairness says that it does not do so for ever. Nothing is assumed of readers, of
new jobs, of crashes or of success: any call may fail every time.

## Proofs

Eight modules hold proofs. `CacheStoreProofs` proves for all processes, names,
keys and payloads, under the assumptions named in `CacheStore` (slots are names, every key has a name, "no
file" is not a file):

- `StoreIsTyped`, `RenamedFileIsOwn`, `PublicationIsAtomic`, `ClearIsComplete`:
  the four invariants of `store`;
- `StoreImplementsAtomicCache`: every behaviour of `CacheStore` is one of
  `AtomicCache` under the mapping that shows a file as its entry if it is whole,
  and a reader as the key it asked for and what its open descriptor will yield.

The argument. `NeverTorn` alone is not inductive: a rename makes a torn file if
the temporary file is not complete, or not the renamer's own. `TempIsOwn` says
that it is, and that exactly the holder of the lock is past it; it holds because
`Reclaim` leaves no temporary file, `Create` refuses an existing one and no other
process touches it under the lock. `JobsMatch` adds that the label of a process
agrees with its job (a publishing process has an entry left whose encoding fits
unless it is still to be encoded, a clear has none), without which neither
`EndWrite` nor the bound on file sizes could be shown. `ClearedStaysClear` needs
`TempIsOwn` again: no one else holds the lock during a clear. Their conjunction
with `TypeOK` is `Inv`; there is one lemma for each action, and the temporal
steps are at the end. For the refinement, `Rename` is `Publish`, `Remove` and
`Damage` are `Discard`, `Open` is `Read`, `Load` and `Crash` are `Return`, and all
other steps stutter; that the renamed file is whole and stored under its key's
name comes from `Inv`.

`CachedRunProofs` proves for all numbers of commands and changes, all backends,
boundaries, inputs and questions, under the assumptions named in `CachedRun`
(there are two backends and three modes, persisted questions are questions,
every key has a file):

- `CommandsAreTyped` and `PublicationIsConfirmed`: `TypeOK` and
  `PublicationConfirmed`, without any assumption about how the repository changes:
  each input and each part of the graph had its captured value again after the
  output, one by one. That the graph and the main branch had theirs together is
  the last conjunct of `PublicationConfirmed`, and holds if `MayReturn = {}`;
- `EntriesKeepTheirPromise` and `ReuseIsOfLiveGraphs`: `StoreSound` and
  `ReusedWasLive`, assuming `MayReturn = {}`. `boundary_returns` shows that this
  assumption cannot be dropped for the first.

The argument. `Confirmed` says for each label which comparisons of the
revalidation lie behind a command, each as a state of the repository since the
output that agrees with it; a change of the repository only adds to these states.
For the graph, no read sees more than one part of it. `Gone` says of a part that
it had a value and has been left, and will then never have it again. A part that
the first location has read is still as it was read or is `Gone` (`Held`), and
`Settled` is a disjunction that holds from the location on: either one of the parts
that the second location has yet to read is `Gone`, so that this read will differ,
or all that was answered is of the plain graph at the boundary of the location,
whichever way it was read, since the native handle has pinned the same boundary.
Once the first part was read again, a state with all parts and the main branch
together lies behind (`Together`). That what is reused was live while the command
ran needs the same of the graphs left before it began: each differs in a part from
all that the location can find (`Behind`). What is reused comes in through
`StoreSound` itself, and so the soundness of the store, the knowledge of each
command and the graphs the repository has left are one invariant (`GraphInv`), on
top of the typed one.

`MaintenanceProofs` proves for all commands, workers, slots, sizes and limits,
under the assumptions named in `Maintenance` (limits and times are natural
numbers, published snapshots are within the entry limit, the clock is past the
first interval, "no file" and "no process" are nothing else):

- `MaintenanceIsTyped`, `RecentAreKept`, `NothingIsForgotten`, `BudgetIsKept`: the
  four invariants of `eviction`, with a clock that may be set back;
- `AttemptsAreSpaced`: `SpacedUnlessForgotten`, assuming `~ClockTurnsBack`.
  `spacing_after_clear` shows why it says "unless".

The argument. `Holders` says that the lock belongs to whoever is between reading
and writing; so there is at most one pass, and the directory changes during it by
its own removals only. `Sound` says what a pass has made of the directory it has
found: only condemned files are gone, all of them that it could see unless work is
pending, and the bytes of those that are gone add up to what it has counted, which
is no more than the budget (a pair of a slot and a byte stands for each byte, so
that the sum is a cardinality). What is condemned is decided by the rank in the list that was
read, which may be cut short; `Ranks` relates it to the ranks in the whole
directory: it counts only files that are not older, and every newer one if the
list is complete. For the spacing, the latest attempt is known wherever the
counters are, in the file or in a command that has read it (`Spacing`), until the
state is forgotten; a command that is due has read them under the lock, so no other
one has.

`DiffStatisticsProofs` proves for all trees, paths, lanes, executables,
configurations and attributes and all limits, under the assumptions named in
`DiffStatistics` and `FactRetention` (the keys of what changes are different,
"nothing" and the counts of equal trees are no executable and no statistic, an
analysis finds finitely many lanes, which ask for pairs of which the paths are
known, the facts the first command finds are finite, typed and sound, at least
one scope is kept):

- `KeptIsSound`, `OutputIsTrue`, `OutputIsOfOneContext`: `StatisticsSound`,
  `RowsAreTrue` and `NeverMixed` of `diff_statistics`, assuming `~MayReturn`;
- `StatisticsAreTyped`, `FittingEnds`, `UsedSurvives`: `TypeOK`, `FitProgresses`
  and `JustUsedSurvives`, whatever changes and returns.

The argument. `git diff-tree` starts, and reads attributes path by path, between
the two contexts, while everything may change. `Agreement` says what the command
may conclude: as long as a part of the first context (the executable, the
configuration, the attributes of a path) is the case, every count so far was
measured under it. A change keeps this, because a part that has gone does not come
back (`NothingReturns`); a count that is added keeps it, because it is measured
under what is the case; and when the second context reads a part and finds it as
it was, the conclusion holds for good and no longer depends on the world. So when
the second context equals the first, all of the counts were measured under it
(`Confirmed`), and may be kept under its fingerprint (`RetainedWhole`) and shown
beside those that were reused (`OutputIsOfOneContext`). `Counts` adds that what is
reused, measured and still to be measured makes up exactly what is wanted, so that
no row is without a count. Compaction and fitting drop values and change none
(`CompactWithin`), whichever they choose.

The second three rest on an invariant of their own, `Retains`. `Tidy` says that
all tables are finite and no time of use is ahead of its clock. For what survives,
it is not enough that a command touches what it uses, since another table may
hold keys that were touched later: `Recent` says that every key in use was touched
after every key that is not, over all tables together, and `Current` the same of
the values in use and of their scope, of which there is only one before the output
(`Using`). Each answer, each reuse and each retention keeps this at the next time
of the clock (`AskedKept`, `TreesKept`, `RefreshedKept`, `RetainedKept`). That
compaction keeps them is then counting (`UsedIsKept`): if a key in use were given
up for the newest of its table, all of these would be in use as well, with it one
more than the limit. `FitProgresses` needs in addition that no scope is empty
after compaction (`NoEmptyScope`), otherwise a round could drop a scope and no
answer; that every round has an outcome is `NewestExist`, by taking away the oldest
element of a set as long as it is too large.

`RewriteSearchProofs` proves for all paths, sets of branch points, states and
changes of the event log and limits, under the assumptions named in
`RewriteSearch` (finitely many commits, paths and branch points are commits,
limits are natural numbers, a batch holds at least one commit):

- `TypeCorrect`: the type invariant;
- `ShownWasTrue` and `SharedCommitsAgree`: `AnswersWereTrue` and `LanesAgree` of
  `rewrite_search`.

The argument. An answer is put together from what is found over many queries, so
`SearchWasTrue` says where each missing commit stands: it waits in a group or in
no batch yet and nothing is found of it, or what is found is `Possible`, what one
state of the log since the beginning gives. A group that is skipped holds no
target among the versions of all its commits, so at this moment none of them is
rewritten to one (`Irrelevant`); a group that is cut loses no commit (`HalvesSplit`);
a single commit is found what its versions say now. The empty result is therefore
as much a statement as a replacement, which is why the memo may keep it
(`MemoWasTrue`). `AnswersAreRetained` is what agreement needs: an answer of an
earlier lane is the one the memo holds, unless the memo is full and has none about
this commit, and the memo never forgets or changes what it holds. `Stage` ties these to the phases of a lane.

`LaneAnalysisProofs` proves for all histories, with any number of commits, merges,
branches and main refs, for both backends and every content of their memo, under
the assumptions named in `LaneAnalysis` and `AncestryBackend` (there is at least one commit, limits are natural numbers):

- `TypeTheorem`, `HeadsTheorem`, `BasesTheorem`, `LanesTheorem`, `ForksTheorem`,
  `DistancesTheorem`: `TypeOK`, `HeadsSpanPoints`, `BasesAreBest`,
  `LanesAreExact`, `ForksAreMarked`, `DistancesAreExact` of `lane_analysis`;
- `SnapshotTheorem`: `SnapshotDecodes`, for lanes in every order;
- `EndpointsTheorem`, `ShownTheorem`: `EndpointsVisible` and
  `ShownWithoutMerges`; `merged_branch` shows why the latter excludes merges.

The argument. The algorithms are recursive functions along parents or children. A
recursive definition is a choice of a solution, so `SolvedByRank` first proves that
there is one, for any recursion that leads from a commit to commits of smaller
rank (`AncestryUnfolds`, `BoundaryUnfolds`, `LinearUnfolds`, `DescendantsUnfold`,
`CarriesUnfolds`); what it computes follows by taking the least commit for which it
would not (`LeastNatural`), which the well-founded order of the natural numbers
provides. So: a boundary of a range is where the commits below leave it
(`BoundaryIsExit`), and if there is only one, it is the only best common ancestor
(`BestOfOneExit`, `ProvenIsBest`); without merges what lies between two commits is a
line (`BetweenIsLine`) and a summary holds the point it stands for, its distance and
the base (`LinearBase`, `LinkedPaths`); the bit of a base reaches exactly the commits
above it, so that counting carriers counts descendants (`CountsAreExact`).
The second half shows that the stages put this together: `Inv` says that the
memo is true of the repository, whichever query filled it, and that each stage has
selected what it should; a lane is then exact both by walk (`WalkLane`) and by
summary (`SummaryLane`). `LaneInv` is needed on top of it for what might be lost
between stages: what was selected is still among the points (`KeptOK`) and every
head has its lane or waits for it (`LeftOK`). A point has a head above it, and
without merges above main no two ancestry paths to that head separate
(`SharedBelow`), so that the point is on its lane. `Ascending`, `Entries`
and `Folded` are written as functions and not with the library's `SortSeq`,
`SelectSeq` and `FoldLeft`, which take an operator and cannot be unfolded by the
prover.

A snapshot is a table (`Table`) in which each point stands above one that comes
before it, so that a position has a way down (`Way`), and different positions have
different ways (`WaysDiffer`). Adding a point either finds its way down or appends
it (`ShareIs`); what was in the table keeps its way (`WaysKept`). The table of all
lanes therefore has exactly the ways down of their points, and each head leads
to its lane (`DecodeEncoded`). The code compares points without `main_history`
(`src/src/lanes/topology.rs:48`); that this confuses nothing (`Alike`) holds since
`main_history` depends on the commit alone.

`ColourAssignmentProofs` and `GraphDrawingProofs` prove for all repositories, with
any number of groups, lanes, rewritten commits, shared commits and segments:

- `DrawingIsTyped`: `TypeOK` of `graph_drawing`, which says of the loads of
  colours and families that they are the weights of what wears them, however often
  a segment is recoloured and shades are exchanged, and of every cell of the
  picture that the lookup of its segment's colour succeeds;
- `NeighboursAreApart`: `NeighboursDiffer`, after every single placement and not
  only at the end;
- `RepairsImprove`: `RepairsNeverWorsen`, an action property of the second and the
  third pass and of the exchange of shades;
- `MainDrawnWhole`: `MainIsWhole`, for groups at every distance and for rows of
  main's own commit at every place;
- `LanesAreTraced`: `DrawingTracesLanes`, for lanes that share and part as they like.

`DrawingAssumption` of `GraphDrawing` says what is drawn: groups with different
bases, the one at distance 0 with main's own commit, no lane without a point; and
of the lanes of a group (`Together`) that the head of one is on no other, since
heads are maximal points (`HeadsSpanPoints` of `lane_analysis`), and that a commit
is the same on all of them. The first are the keys by which
`src/src/lanes/grouping.rs` and `src/src/lanes/construction.rs` collect groups and
lanes, and they make the order of both total. If a head were on another lane, its
own lane would end in the middle of that one and could not be told from it.

The argument. `Sound` says for each stage what the next one rests on. A choice of
the cheapest colour never takes that of a neighbour while another colour is free:
then the one without neighbours is cheaper in the first cost that differs
(`BestDiffers`), the seven costs are total on the palette, and fewer than seven
neighbours leave one free. An exchange of two shades is a permutation of colours.
Both need the loads to be exact (`Loaded`), and they are kept by subtracting before
the choice and adding after it. That the numbers of cells are those of segments
relates two walks over the same rows, one that makes segments and one that draws
them (`src/src/render/colours/assignment/topology.rs`,
`src/src/render/layout.rs`), which decide by different state when a lane begins
anew. `Counting` says that the first has made one segment for each beginning so far,
`NumberedSoFar` that the second has numbered as many. The two agree because the rows
are those of a post-order walk of the shared ancestry (`RowsAre`), which is
proved of the recursion first (`AncestrySolved`): a lane that was joined does not
come back (`LaneComesBack`), so that a lane is active in the first walk exactly when
it is drawn in the second (`BeginsAre`).

A repair looks at the costs of one segment only. The objective is, in each of its
parts, what the other segments have plus what this one adds (`Measures`, `Rests`,
`CostParts`), so the cheapest colour makes it no worse, and a colour that changes
makes it better in the first part that differs. `Taken` says that every segment has
a colour once it has had its turn: only then is its old colour among those that are
compared. An exchange permutes the shades of a family, and all parts but the
preference for exact colours count families or pairs of different colours.

`MainSound` says how far along main the rows have come: until main's own commit,
nothing of main is drawn but what leads to it; after it, main goes down to where
the next line continues, and what is left out so far adds up to the difference of
the distances (`MainAt`, `Along`).

That lanes can be traced rests on the order of the rows. They are the paths of a
forest, depth first, with the leftmost lane first; a lane that waits for its next
row therefore passes every row in between at its left (`PassesLeft`), and nothing
else comes between it and the junction that joins it. `Follows` is what the eye
meets from a row and a lane down; from a row it passes the rows of other paths
without a commit and falls to the row below it in the forest, on the lane that
owns that row (`HasBelow`, `UntilBelow`). Going up from the base, each row
then reads as its own path (`GroupIsTraced`), the topmost one as the whole lane, and
different rows have different paths. `PictureAt` says that the lines drawn so far
are the lines of the rows so far, with the glyphs as functions of the row
(`CommitLine`, `JunctionLine`, `TrunkLine`), and `Woven` that a finished group
stays in the picture as it is (`FinishedIn`).

Only model-checked: `LockIsReleased` and `SearchEnds`, since liveness is out of the
prover's reach; and `SegmentsAreWhatIsSeen` of `GraphDrawing`. It relates what the
walk for segments notes down, weights and pairs of neighbours, to what the picture
shows side by side. The numbers agree by `NumberedSoFar`; what is missing is an
invariant over the edges and the footprints of all rows so far.

## What the runs found

- `boundary_returns`: the location is compared before and after the analysis
  (`src/src/app/cached.rs:374`), so a boundary that changes and returns in
  between is not noticed, while `docs/performance-updates.md:133` promises that
  results are discarded if the boundary changed during execution.
- `spacing_after_clear`: `Store::clear` removes `maintenance-state.json` and the
  time of the last attempt with it, so the hour between attempts that
  `docs/configuration.md:107` states does not survive a `--clear-cache`.
- `merged_branch`: a lane is the ancestry path from one merge base of main and
  its head (`src/src/lanes/construction.rs:55`). A selected branch that was
  merged into the head, but left main before that merge base or is unrelated to
  it, is neither a head nor on that path and is not printed, while
  `docs/commands.md:48` says that the selected branches are rendered. The same
  happens to a local main that has diverged and was merged back into a branch
  based on its upstream (`README.md:50` of the repository: "Different reference
  positions remain visible").

Met on the way, without a run: `docs/configuration.md:79` says that each category
of facts retains up to 512 entries, while `admit_facts`
(`src/src/app/cached.rs`) passes 4096, as `docs/diff-stat-performance.md:88`
says; `Limit` is a constant here, and the properties do not depend on it.
`docs/configuration.md:98` says that shallow repositories are bypassed, while
`location` (`src/src/app/cached.rs:172`) admits them, as `docs/performance.md:85`
describes; the model follows the code.

## Plan

1. Done: the store and its abstraction, the cached command, maintenance, the
   graph algorithms and the analysis of lanes, the statistics of layers and the
   retention of facts, the topology codec, the search for rewrites, the drawing
   of the graph and its colours; the proofs of their safety properties.
2. The proof of `SegmentsAreWhatIsSeen`: the edges and weights of the first walk,
   row by row, from what `CommitLine` and `JunctionLine` say of the cells.
3. Selection among several names of main, truncation of lanes to the width of the
   terminal.

Not planned: parsing of command lines, configuration and `git` output, wording
and columns of text and terminal detection, which keep no state and are covered by unit tests.
