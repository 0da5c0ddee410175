SPECIFICATION SyncSpec
CONSTANTS
    Players = {p1, p2}
    u1 = u1
    u2 = u2
    Users <- MCUsers
    None = None
    Owner = u2
PROPERTY
    NoChurn
CHECK_DEADLOCK FALSE
