SPECIFICATION FairSpec
CONSTANTS
    n1 = n1
    n2 = n2
    unscoped = unscoped
    business = business
    r1 = r1
    r2 = r2
    Notices = {n1, n2, unscoped, business}
    Requests = {r1, r2}
    Carriages <- MCCarriages
    Audits = {n1, n2, unscoped}
    Receives = {}
    Scoped = {n1, n2}
    OccurredAt <- MCOccurredAt
    Workers = {w1, w2}
    NoWorker = NoWorker
    MaxAttempts = 2
    MaxFaults = 1
INVARIANTS
    TypeOK
    ProcessedWasApplied
    HandledOneAtATime
PROPERTIES
    ReviewNeverRegresses
    AcceptedNoticeHandled
CHECK_DEADLOCK FALSE
