SPECIFICATION Spec
CONSTANTS
    Clients = {a, b}
    c1 = c1
    c2 = c2
    c3 = c3
    Channels = {c1, c2, c3}
    None = None
    Sources <- MCSources
    Tables <- MCTables
    FileTable <- MCFile
    MaxUpdates = 3
SYMMETRY ClientSymmetry
INVARIANTS
    InboundOfRoutes
    InboundIsOneTable
    AnswerIsApplied
