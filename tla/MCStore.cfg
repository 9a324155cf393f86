SPECIFICATION StoreSpec
CONSTANTS
    Mounts = {m1}
    Queries = {q1}
    Retention = 1
    Dur = 1
    Bucket = 2
    SubscriberBuffer = 1
    MaxTime = 2
    MaxSamples = 2
    MaxSteps = 1
    MaxRestarts = 1
INVARIANTS
    TablesAgree
PROPERTIES
    NeverWrittenAgain
    PointsShowTheirDisks
    QueriesAreAnswered
    PumpIsNeverLockedOut
CHECK_DEADLOCK FALSE
