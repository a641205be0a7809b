SPECIFICATION Spec
CONSTANTS
    Narrow = 1
    Wide = 6
    Width <- MCWidth
    Repositories <- MCRepositories
INVARIANTS
    TypeOK
    DrawingTracesLanes
    SegmentsAreWhatIsSeen
    NeighboursDiffer
    MainIsWhole
PROPERTIES
    RepairsNeverWorsen
\* The drawing ends.
CHECK_DEADLOCK FALSE
