SPECIFICATION Spec
CONSTANTS
    Jobs = {j1, j2}
    Workers = {w1, w2}
    NoJob = NoJob
    MaxAttempts = 2
    MaxRedeliveries = 1
SYMMETRY Symmetry
INVARIANTS
    TypeOK
    NoDoubleWrite
    ReceiptsAreTrue
    ProjectionsAgree
PROPERTIES
    ImplementsContract
CHECK_DEADLOCK FALSE
