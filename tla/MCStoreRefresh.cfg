SPECIFICATION FairSpec
CONSTANTS
    Workers = {w1, w2}
    Launchers = {web, scheduler}
    NoWorker = NoWorker
    Quotas = {quota}
    NoQuota = NoQuota
    MaxJobs = 2
    MaxVersion = 2
    MaxNotices = 1
    MaxAttempts = 2
    MaxFaults = 1
INVARIANTS
    TypeOK
    ActiveMeansRefreshing
    MarkerCoversData
PROPERTIES
    NothingGoesBack
    RefreshEnds
CHECK_DEADLOCK FALSE
