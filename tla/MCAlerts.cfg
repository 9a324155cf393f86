SPECIFICATION AlertsSpec
CONSTANTS
    Rules = {cpu, disk}
    Optional = {disk}
    SubscriberBuffer = 1
    For = 2
    Cooldown = 5
    RetryAfter = 2
    MaxTick = 7
INVARIANTS
    SilenceIsExplained
    MailMeansBreach
PROPERTIES
    DeliveriesApart
CHECK_DEADLOCK FALSE
