\* Every repository of five commits: linear, merged and unrelated histories,
\* main with and without an upstream.
SPECIFICATION Spec
CONSTANTS
    CommitCount = 5
    ParentLimit = 2
    TopicLimit = 2
    RetainLimit = 3
    ArgLimit = 1
INVARIANTS
    TypeOK
    HeadsSpanPoints
    BasesAreBest
    LanesAreExact
    DistancesAreExact
    ForksAreMarked
    EndpointsVisible
    ShownWithoutMerges
    SnapshotDecodes
\* The analysis ends.
CHECK_DEADLOCK FALSE
