SPECIFICATION FairSpec
CONSTANTS
    Players = {p1}
    Workers = {w1, w2, w3}
    None = None
    Cooldown = 2
    InitialDelay = 1
    MaxEvents = 3
    SendMayFail = TRUE
INVARIANTS
    TypeOK
    PendingIsLive
    NoLostUpdate
    RefreshGoesOn
PROPERTIES
    RateLimit
    OnlineTopicHeals
CHECK_DEADLOCK FALSE
