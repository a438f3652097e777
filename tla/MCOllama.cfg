SPECIFICATION MCSpec
CONSTANTS
    Words = {"w"}
    Candidates <- MCCandidates
    Models <- MCModels
    Requests <- MCRequests
    Allocations = {3, 7}
    MaxInt = 7
    MaxOutputBytes = 2
    StreamLimit = 3
    MaxChanges = 2
    Absent = Absent
    None = None
CHECK_DEADLOCK FALSE
INVARIANTS
    PromptFits
    HonestCause
    WholeAnswer
    NothingHidden
