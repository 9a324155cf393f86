SPECIFICATION PeersSpec
CONSTANTS
    Peers = {p1}
    Viewers = {v1}
    Cap = 3
    Zero = 0
    SubscriberBuffer = 1
    BaseBackoff = 2
    MaxBackoff = 3
    MaxUp = 4
INVARIANTS
    OnlineMeansStreaming
    OneSeam
PROPERTIES
    PeersComeBack
    ViewersAreReleased
CHECK_DEADLOCK FALSE
