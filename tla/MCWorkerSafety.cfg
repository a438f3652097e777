SPECIFICATION Spec
CONSTANTS
    Keys = {k1, k2, k3}
    Origins = {o1}
    Requests = {r1}
    ValidRequests = {r1}
    NoRequest = none
    BackendErrors = {"internal"}
    MaxPending = 2
    MaxJobs = 3
    MaxOutput = 1
    MaxHistory = 1
    MaxSeq = 14
    MaxPiece = 2
    PowerLoss = TRUE
SYMMETRY Symmetric
INVARIANTS
    CommitsAccepted
    SingleInference
    StopReachesBackend
    WorkConserving
    OneJobPerKey
