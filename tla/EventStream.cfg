SPECIFICATION FairSpec
CONSTANTS
    LineEnds <- MCLineEnds
    MaxStarts = 2
    RegrowthRace = FALSE
    StatMayFail = TRUE
INVARIANTS
    DeliveredInOrder
    TornOnlyAtStart
    CaughtUp
PROPERTIES
    ImplementsFeed
    EventuallyEmitted
CHECK_DEADLOCK FALSE
