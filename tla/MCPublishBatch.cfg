SPECIFICATION Spec
CONSTANTS
    Items = {i1}
    Sessions = {s1, s2}
    Versions = {v1}
    NoSource = NoSource
    MaxGen = 2
    MaxRuns = 2
SYMMETRY Symmetry
INVARIANTS
    TypeOK
    DocumentIsCurrent
    RunsStandApart
PROPERTIES
    WritesWereConfirmed
    ConsumedAsPlanned
CHECK_DEADLOCK FALSE
