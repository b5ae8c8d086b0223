SPECIFICATION DirectSpec
CONSTANTS
    Items = {i1}
    Sessions = {s1, s2}
    Versions = {v1}
    NoSource = NoSource
    MaxGen = 2
    MaxRuns = 2
INVARIANTS
    OneRunPerRequest
CHECK_DEADLOCK FALSE
