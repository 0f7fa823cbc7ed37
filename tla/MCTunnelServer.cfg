CONSTANTS
    c1 = c1
    c2 = c2
    c3 = c3
    Conn <- Conns3
    MaxConnections = 1
SPECIFICATION FairSpec
INVARIANTS
    ActiveExact
    SocketsClosed
PROPERTIES
    EveryoneAnswered
    WorkersUnwind
CHECK_DEADLOCK FALSE
