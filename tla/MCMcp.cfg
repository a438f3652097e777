SPECIFICATION MCSpec
CONSTANTS
    Values = {v1, v2}
    Kinds = {"call", "cancel", "batch", "odd"}
    Shapes <- OddShapes
    Spellings = {"plain"}
    Batching = TRUE
    Limit = 2
    MaxLines = 3
    Calls = {c1, c2, c3, c4}
    Wait = c1
    MaxConcurrent = 3
    MaxWaiters = 1
    Budgets = {0, 1, 2, 3, 4}
    Timeout = 2
    Interval = 1
    MaxStart = 2
    MaxTime = 9
    Jobs = {j1, j2}
    Filter = j1
    NoFilter = NoFilter
    Sizes = {1, 2, 4}
    MaxInline = 2
    MaxResult = 3
    MaxEvents = 2
    MaxLog = 3
    MaxStores = 2
    MaxLost = 1
    Widths = {1, 3, 4}
    PageSizes = {4, 5}
    MaxChunkBytes = 4
    MaxOutputBytes = 10
    MaxRunes = 3
CHECK_DEADLOCK FALSE
INVARIANTS
    
    WaitIsHonest
    NothingSkipped
    PagesAreText
PROPERTIES
    ControlStaysOpen
