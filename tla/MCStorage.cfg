SPECIFICATION MCSpec
CONSTANTS
    JobSizes <- LargeJobs
    Recovered <- Stores
    MaxCommits = 6
    Procs = {p1, p2}
    NoProc = NoProc
    HeaderSize = 2
    PrefixSize = 1
    FrameSize = 2
    MaxPayload = 2
    MaxAppends = 2
    MaxLosses = 1
    MaxErrors = 1
    Devices = {"ordered", "free"}
    EntryLoss = FALSE
SYMMETRY Symmetric
CHECK_DEADLOCK FALSE
INVARIANTS
    AckedRecovered
    Reopens
    LifecycleFits
PROPERTIES
    WholeFramesStay
    ImplementsAppendLog
