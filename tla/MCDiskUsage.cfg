SPECIFICATION DiskSpec
CONSTANTS
    big = big
    small = small
    Requests = {r1}
    Tree <- SmallTree
    MaxWorkers = 2
    Limit = 5
    MaxItems = 1
    TTL = 1
    CacheCap = 1
    MaxTime = 1
INVARIANTS
    AnswersAreHonest
PROPERTY
    ScansEnd
CHECK_DEADLOCK FALSE
