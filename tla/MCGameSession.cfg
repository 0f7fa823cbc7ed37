CONSTANTS
    MaxId = 2
    MaxSessions = 3
SPECIFICATION Spec
INVARIANTS
    CallbacksMatchPlayers
    LeftBehind
PROPERTY KeyEndsSession
CHECK_DEADLOCK FALSE
