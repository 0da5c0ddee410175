SPECIFICATION Spec
CONSTANTS
    Settings <- MCSettings
    Environments <- MCEnvironments
    EnvFiles <- MCEnvFiles
    Files <- MCFiles
    Answers <- MCAnswers
    Connects = {"typed", "real"}
    TextChannels <- MCTextChannels
    References <- MCReferences
    Scalars <- MCScalars
    Quoted <- MCQuoted
    Seconds <- MCSeconds
    WriteMayFail = TRUE
    MaxEdits = 3
INVARIANTS
    RealEnvironmentWins
    OverridesHold
PROPERTIES
    SetupStarts
CHECK_DEADLOCK FALSE
