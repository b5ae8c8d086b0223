SPECIFICATION Spec
CONSTANTS
    s1 = s1
    s2 = s2
    Skcs = {s1, s2}
    Asked <- MCAsked
    Workers = {w1, w2}
    Requests = {r1, r2}
    Tokens = {t1}
    NoToken = NoToken
    NoWorker = NoWorker
    NoSkc = NoSkc
    MaxJobs = 1
    MaxReviews = 1
    MaxDrafts = 1
    MaxAttempts = 2
    MaxFaults = 1
SYMMETRY Symmetry
INVARIANTS
    TypeOK
    OneWritePerConfirmation
    SucceededIsComplete
CHECK_DEADLOCK FALSE
