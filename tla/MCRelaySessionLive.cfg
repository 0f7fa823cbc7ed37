CONSTANTS
    a1 = a1
    a2 = a2
    a3 = a3
    x1 = x1
    Address <- Addresses2
    Position <- OnePosition
    NoPosition = NoPosition
    MaxPlayers = 2
    MaxPackets = 1
    AnchorMode = FALSE
    SpawnConfigured = FALSE
    ConfigSpawn = x1
    Persistent = FALSE
    MaxQueue = 1
    StaleLoads = FALSE
SPECIFICATION FairSpec
PROPERTY JoinerEntersWorld
