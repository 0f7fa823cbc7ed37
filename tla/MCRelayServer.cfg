CONSTANTS
    a1 = a1
    a2 = a2
    a3 = a3
    a4 = a4
    x1 = x1
    x2 = x2
    Address <- Addresses4
    Position <- TwoPositions
    NoPosition = NoPosition
    MaxPlayers = 3
    MaxPackets = 1
    AnchorMode = TRUE
    SpawnConfigured = FALSE
    ConfigSpawn = x1
    Persistent = TRUE
SYMMETRY Symmetry
SPECIFICATION Spec
INVARIANTS
    UniqueIdentity
    ViewExact
    SilentUntilSpawned
    GhostsAreRateLimited
    FarewellComplete
PROPERTIES
    IdentityKept
    NothingAboutStrangers
    NewcomerMeetsSomebody
    ImplementsPresence
