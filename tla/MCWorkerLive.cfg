SPECIFICATION FairSpec
CONSTANTS
    Keys = {k1, k2}
    Origins = {o1}
    Requests = {r1}
    ValidRequests = {r1}
    NoRequest = none
    BackendErrors = {"internal"}
    MaxPending = 1
    MaxJobs = 2
    MaxOutput = 1
    MaxHistory = 1
    MaxSeq = 10
    MaxPiece = 2
    PowerLoss = FALSE
PROPERTIES
    CancelCompletes
    ShutdownCloses
