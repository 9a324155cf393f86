SPECIFICATION LifecycleSpec
CONSTANTS
    Requests = {q1, q2}
    MaxRuns = 2
INVARIANTS
    NoWriteAfterClose
    ExitsOnlyWhenTold
PROPERTIES
    NothingLeftBehind
    
CHECK_DEADLOCK FALSE
