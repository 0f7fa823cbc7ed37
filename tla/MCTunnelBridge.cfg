CONSTANTS
    g1 = g1
    g2 = g2
    p1 = p1
    p2 = p2
    Game <- Games2
    Port <- Ports2
    NoPort = NoPort
    NoAddress = NoAddress
    MaxQueue = 1
SPECIFICATION FairSpec
PROPERTY LatchedGameHears
