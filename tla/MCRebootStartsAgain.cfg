SPECIFICATION LifecycleSpec
CONSTANTS
    Requests = {q1}
    MaxRuns = 2
INVARIANT
    RebootStartsAgain
CHECK_DEADLOCK FALSE
