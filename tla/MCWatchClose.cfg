SPECIFICATION MCSpec
CONSTANTS
    Streams = {s1}
    MaxSeq = 2
    MaxShared = 2
    MaxObserverEvents = 2
    MaxObserverBytes = 2
    MaxEventSize = 1
CHECK_DEADLOCK FALSE
INVARIANTS
    OrderlyClose
