SPECIFICATION FairSpec
CONSTANTS
    a = a
    b = b
    Messages = {a, b}
    None = None
    Inputs <- MCInputs
    MaxCommandLen = 7
    MaxDials = 3
INVARIANTS
    TypeOK
    RepliesInStep
    AckedInOrder
    AtMostTwice
    MessageIsWhole
PROPERTIES
    EventuallyWorkedOff
CHECK_DEADLOCK FALSE
