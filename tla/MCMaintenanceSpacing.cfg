CONSTANTS
    Commands = {c1, c2}
    Workers = {w1}
    Last = 0
    Sizes = {1}
    EntryLimit = 1
    PassBytes = 8
    Recent = 1
    MaxAge = 9
    Interval = 2
    DueCount = 2
    DueBytes = 9
    FirstTime = 2
    LastTime = 6
    ClockTurnsBack = FALSE
    Losses = {"cleared", "unread"}
    Nothing = Nothing
SPECIFICATION Spec
SYMMETRY Symmetry
PROPERTIES SpacedUnlessForgotten
