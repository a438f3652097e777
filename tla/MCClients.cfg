SPECIFICATION MCSpec
CONSTANTS
    Attempts = {a1, a2}
    Stores = {s1, s2}
    NoStore = NoStore
    NoAttempt = NoAttempt
    Jobs = {j1, j2}
    NoCursor = NoCursor
    MaxLog = 2
    MaxStores = 2
    MaxLoops = 2
    MaxBreaks = 1
    MaxFaults = 2
    PromptClose = {"page"}
    Keys = 2
    MaxChanges = 2
CHECK_DEADLOCK FALSE
INVARIANTS
    
    
    ShowsThePast
PROPERTIES
    Resolved
    NeverBack
    CatchesUp
