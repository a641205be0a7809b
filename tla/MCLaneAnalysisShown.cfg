\* A selected branch can be missing from every lane when a merge joins it.
SPECIFICATION Spec
CONSTANTS
    CommitCount = 4
    ParentLimit = 2
    TopicLimit = 2
    RetainLimit = 2
    ArgLimit = 1
INVARIANTS
    SelectedBranchesShown
\* The analysis ends.
CHECK_DEADLOCK FALSE
