CONSTANTS
    e1 = e1
    e2 = e2
    e3 = e3
    c1 = c1
    a1 = a1
    k1 = k1
    k2 = k2
    k3 = k3
    Executables = {e1, e2, e3}
    Configs = {c1, c2}
    Attrs = {a1, a2}
    Paths = {"x", "y", "z"}
    Volatile = {"x", "y"}
    Commits = {1, 2, 3, 4}
    NoCommit = NoCommit
    TreeOf <- MCTreeOf
    PathsOf <- MCPathsOf
    Analyses <- MCAnalyses
    DependencyLimit = 2
    QueryLimit = 3
    Rooms = {0, 4, 20}
    FirstWorlds <- MCFirstWorlds
    StoredFacts <- MCStoredFacts
    Zero = Zero
    Miss = Miss
    MayReturn = FALSE
    MaxChanges = 2
    MaxRuns = 2
    Limit = 2
    ScopeLimit = 2
SPECIFICATION Spec
INVARIANTS TypeOK StatisticsSound RowsAreTrue NeverMixed FitProgresses
PROPERTY JustUsedSurvives
