SPECIFICATION FairSpec
CONSTANTS
    Jobs = {j1}
    Workers = {w1}
    NoJob = NoJob
    MaxAttempts = 2
    MaxRedeliveries = 1
PROPERTIES
    LapsedClaimsBecomeUnknown
CHECK_DEADLOCK FALSE
