\* Two lanes in each repository; the batches, the halving and the limit of
\* the memo all fall within them.
SPECIFICATION FairSpec
CONSTANTS
    Commits <- McCommits
    Repositories <- McRepositories
    Logs <- McLogs
    GroupLimit = 3
    MemoLimit = 3
    ChangeLimit = 2
INVARIANTS
    AnswersWereTrue
    LanesAgree
PROPERTY
    SearchEnds
\* The search ends.
CHECK_DEADLOCK FALSE
