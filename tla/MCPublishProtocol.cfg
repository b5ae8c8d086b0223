SPECIFICATION Spec
CONSTANTS
    Requests = {r1, r2}
    Runs = {run1, run2}
    NoRun = NoRun
    MaxAttempts = 2
SYMMETRY Symmetry
INVARIANTS
    TypeOK
    CompletedIsProven
    EvidenceOnlyAfterAcceptance
    CompletionIsComplete
PROPERTIES
    ImplementsContract
CHECK_DEADLOCK FALSE
