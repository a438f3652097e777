SPECIFICATION MCSpec
CONSTANTS
    Processes = {p1, p2, p3}
    MaxCalls = 2
    MaxStarts = 4
    None = None
    Requests = {r1, r2}
    NoRequest = NoRequest
    Inputs <- Mixed
    MaxSlots = 1
    MaxSeq = 1
    Buffer = 1
    Absent = Absent
CHECK_DEADLOCK FALSE
INVARIANTS
    OnlyOwnerWrites
    OneBackend
    
    StreamContiguous
PROPERTIES
    StopEnds
    SlotsComeBack
    Returns
