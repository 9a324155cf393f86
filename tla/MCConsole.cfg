SPECIFICATION ConsoleSpec
CONSTANTS
    Interval = 20
    Heartbeat = 15
    Stall = 15
    Posts = {p1, p2}
PROPERTIES
    ButtonComesBack
    PageReconnects
    HealthyStreamIsKept
