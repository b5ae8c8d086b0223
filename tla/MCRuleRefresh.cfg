SPECIFICATION Spec
CONSTANTS
    Workers = {w1, w2}
    Launchers = {web}
    Schedulers = {}
    Nobody = Nobody
    NTargets = 2
    Lanes = 2
    MaxJobs = 2
    MaxAttempts = 2
    MaxFaults = 1
SYMMETRY ProcessSymmetry
INVARIANTS
    TypeOK
    SucceededIsComplete
    RetryRepairs
CHECK_DEADLOCK FALSE
