CONSTANTS
    Base = 2
    MaxDatagram = 2
    MaxStream = 6
    Peers <- Anyone
SPECIFICATION Spec
INVARIANTS
    RoomForMore
    NothingHeldBack
    ClosedForAReason
PROPERTY DeliversInOrder
CHECK_DEADLOCK FALSE
