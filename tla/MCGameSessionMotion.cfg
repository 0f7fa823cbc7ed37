CONSTANTS
    MaxId = 2
    MaxSessions = 3
SPECIFICATION Spec
INVARIANT MovementOncePerResolve
CHECK_DEADLOCK FALSE
