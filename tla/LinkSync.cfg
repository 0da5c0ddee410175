SPECIFICATION FairSpec
CONSTANTS
    Players = {p1, p2}
    Users = {u1, u2}
    None = None
    MaxCommands = 2
    MaxSessions = 1
    MaxStarts = 2
    FastReset = FALSE
INVARIANTS
    TypeOK
    StoreIsTheLog
    RestoredLinksHold
    PlayersAreListed
PROPERTIES
    EventuallyRestored
CHECK_DEADLOCK FALSE
