SPECIFICATION FairSpec
CONSTANTS
    c1 = c1
    c2 = c2
    botRole = botRole
    linkedRole = linkedRole
    Channels = {c1, c2}
    TopicChannel = c1
    Roles = {botRole, linkedRole}
    Everyone = Everyone
    Bot = Bot
    LinkedRole = linkedRole
    Position <- MCPosition
    Needs = {"roles", "topic"}
    Grants <- MCGrants
    Overwrites <- MCOverwrites
    Editable <- MCEditable
    MaxEdits = 1
    HasWarnRoute = TRUE
INVARIANTS
    ReportIsTrue
PROPERTIES
    StopsWhenGranted
    EventuallyDone
CHECK_DEADLOCK FALSE
