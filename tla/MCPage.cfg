SPECIFICATION PageSpec
CONSTANTS
    MaxToken = 3
    MaxPosts = 2
    MaxLate = 2
INVARIANTS
    RejectionIsTrue
    ShownIsCurrent
PROPERTIES
    GateForAReason
    RightTokenGetsIn
    DimmingEnds
CHECK_DEADLOCK FALSE
