SPECIFICATION MCSpec
CONSTANTS
    JobSizes <- LargeJobs
    Recovered <- Stores
    MaxCommits = 6
    Procs = {p1, p2}
    NoProc = NoProc
    HeaderSize = 2
    PrefixSize = 1
    FrameSize = 2
    MaxPayload = 2
    MaxAppends = 3
    MaxLosses = 1
    MaxErrors = 0
    Devices = {"ordered"}
    EntryLoss = TRUE
SYMMETRY Symmetric
CHECK_DEADLOCK FALSE
INVARIANTS
    AckedRecovered
