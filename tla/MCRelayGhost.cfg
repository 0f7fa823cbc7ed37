CONSTANTS
    a1 = a1
    a2 = a2
    a3 = a3
    a4 = a4
    x1 = x1
    x2 = x2
    Address <- Addresses2
    Position <- OnePosition
    NoPosition = NoPosition
    MaxPlayers = 2
    MaxPackets = 1
    AnchorMode = TRUE
    SpawnConfigured = FALSE
    ConfigSpawn = x1
    Persistent = FALSE
SPECIFICATION Spec
INVARIANT NoGhosts
