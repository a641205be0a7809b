CONSTANTS
    Commands = {c1}
    Workers = {w1}
    Last = 2
    Sizes = {2}
    EntryLimit = 2
    PassBytes = 4
    Recent = 1
    MaxAge = 1
    Interval = 1
    DueCount = 1
    DueBytes = 1
    FirstTime = 1
    LastTime = 2
    ClockTurnsBack = TRUE
    Losses = {"cleared"}
    Nothing = Nothing
SPECIFICATION Spec
INVARIANTS TypeOK KeepsRecent NothingForgotten BudgetKept
