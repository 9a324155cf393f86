SPECIFICATION LiveSpec
CONSTANTS
    Cap = 2
    Zero = 0
    SubscriberBuffer = 1
    MaxSubs = 2
    MaxTick = 3
    MaxConns = 2
    MaxSSE = 2
    WireCap = 1
    ViewCap = 2
    Unfit = {1}
INVARIANTS
    NothingFallsBetween
    SnapshotsAscend
    OpenIffRegistered
PROPERTIES
    ReconnectNeverGoesBack
    DeadStreamsAreReaped
    ShutdownEndsStreams
    ImplementsBroadcast
CHECK_DEADLOCK FALSE
