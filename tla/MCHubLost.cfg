SPECIFICATION HubSpec
CONSTANTS
    Peers = {p1}
    Viewers = {page, overview}
    Page = page
    Overview = overview
    Shown = p1
    MaxSSE = 1
    Cap = 1
    Zero = 0
    SubscriberBuffer = 1
    BaseBackoff = 1
    MaxBackoff = 1
    MaxUp = 1
    WireCap = 1
INVARIANTS
    NeverShownLiveWhenDead
CHECK_DEADLOCK FALSE
