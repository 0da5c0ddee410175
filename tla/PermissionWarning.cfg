SPECIFICATION Spec
CONSTANTS
    c1 = c1
    c2 = c2
    botRole = botRole
    linkedRole = linkedRole
    Channels = {c1, c2}
    TopicChannel = c1
    Roles = {botRole, linkedRole}
    Everyone = Everyone
    Bot = Bot
    LinkedRole = linkedRole
    Position <- MCPosition
    Needs = {"roles", "topic"}
    Grants <- MCGrants
    Overwrites <- MCOverwrites
    Editable <- MCEditable
    MaxEdits = 0
    HasWarnRoute = TRUE
INVARIANTS
    WarnedWhenMissing
CHECK_DEADLOCK FALSE
