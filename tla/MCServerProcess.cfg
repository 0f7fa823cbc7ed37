CONSTANTS
    c1 = c1
    Conn <- Conns
    MaxConnections = 1
    Numbers <- Edges
    Environments <- Samples
    Unset = Unset
    Garbage = Garbage
    PortModulus = 65536
    short = short
    long = long
    strange = strange
    digits = digits
    words = words
    Spot <- Spots
    Text <- Lines
    Printed <- Printing
    Scanned <- Scanning
    NoSpot = NoSpot
    MaxRuns = 2
SPECIFICATION ProcessSpec
INVARIANTS
    TunnelPortDiffers
    AnswersFromLiveServers
    TunnelServesLiveRelay
    EverythingReleased
    KnownMeansSaved
PROPERTIES
    RedeployKeepsSpot
    SignalEndsProcess
CHECK_DEADLOCK FALSE
