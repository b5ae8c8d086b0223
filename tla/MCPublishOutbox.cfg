SPECIFICATION OutboxFairSpec
CONSTANTS
    Commands = {c1, c2}
    Dispatchers = {d1, d2}
    DispatcherIds = {pid1, pid2}
    NoLease = NoLease
    BatchSize = 2
    MaxFaults = 2
INVARIANTS
    OutboxTypeOK
PROPERTIES
    EveryCommandDelivered
    EventuallyAllDispatched
CHECK_DEADLOCK FALSE
