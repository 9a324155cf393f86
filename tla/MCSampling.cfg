SPECIFICATION SamplingSpec
CONSTANTS
    MountCount = 2
    DiskUsageTimeout = 1
    DiskReprobe = 2
    GPUQueryTimeout = 1
    GPUReprobe = 3
    ProcessInterval = 1
    ProcessTimeout = 1
    MaxNow = 2
INVARIANTS
    ProbesAreRationed
    MissingForAReason
    SharesSpanOneInterval
PROPERTIES
    EverySampleEnds
CHECK_DEADLOCK FALSE
