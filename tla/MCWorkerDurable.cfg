SPECIFICATION Spec
CONSTANTS
    Keys = {k1, k2, k3}
    Origins = {o1}
    Requests = {r1, r2, bad}
    ValidRequests = {r1, r2}
    NoRequest = none
    BackendErrors = {"internal"}
    MaxPending = 2
    MaxJobs = 3
    MaxOutput = 1
    MaxHistory = 3
    MaxSeq = 13
    MaxPiece = 2
    PowerLoss = FALSE
SYMMETRY Symmetric
INVARIANTS
    PublishedRecoverable
PROPERTIES
    ImplementsLedger
