CONSTANTS
    a1 = a1
    a2 = a2
    a3 = a3
    Address <- Addresses3
    Slots = 4
    MaxAvatars = 3
    MaySpectate = TRUE
    MaxFaults = 1
SYMMETRY Symmetry
SPECIFICATION Spec
INVARIANTS
    ConnectionsDistinct
    HostView
    OwnIdFirst
    NeverBroken
PROPERTIES
    AnnouncedOnce
    HostImplementsPresence
CHECK_DEADLOCK FALSE
