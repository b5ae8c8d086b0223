SPECIFICATION FairSpec
CONSTANTS
    Workers = {w1}
    Launchers = {}
    Schedulers = {s1, s2}
    Nobody = Nobody
    NTargets = 1
    Lanes = 1
    MaxJobs = 2
    MaxAttempts = 1
    MaxFaults = 1
INVARIANTS
    MonthlyOnce
PROPERTIES
    RefreshEnds
CHECK_DEADLOCK FALSE
