SPECIFICATION Spec
CONSTANTS
    alice = alice
    bob = bob
    People = {alice, bob}
    Codes = {c1, c2}
    None = None
    Handlers = {h1, h2}
    CommandList <- MCCommands
    SlashName <- MCSlashName
    AdminUsers = {}
    AdminRoles = {"admins"}
    Fallback = FALSE
    RolesOf <- MCRolesOf
    IsAdmin = {bob}
    TTL = 1
    MaxWire = 2
    MaxLoads = 1
    MaxAsks = 3
SYMMETRY CodeSymmetry
CHECK_DEADLOCK FALSE
INVARIANTS
    ToldCodesWork
PROPERTIES
    OnlyEntitledUnlink
    ImplementsOneTimeCodes
