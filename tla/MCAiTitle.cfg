SPECIFICATION FairSpec
CONSTANTS
    Keys = {k1, k2, k3}
    MaxConcurrent = 1
    MaxQueue = 1
    MaxEntries = 2
    MaxSaves = 2
INVARIANTS
    TypeOK
    SlotsAreUsed
    CacheIsCurrent
PROPERTIES
    EveryRunEnds
CHECK_DEADLOCK FALSE
