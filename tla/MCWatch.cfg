SPECIFICATION MCSpec
CONSTANTS
    Streams = {s1, s2}
    MaxSeq = 3
    MaxShared = 1
    MaxObserverEvents = 2
    MaxObserverBytes = 3
    MaxEventSize = 2
CHECK_DEADLOCK FALSE
INVARIANTS
    Exact
    StreamSound
    PoisonIsHonest
PROPERTIES
    EventuallySeen
