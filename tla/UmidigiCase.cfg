SPECIFICATION Spec
CONSTANTS
    QueueCap = 2
INVARIANTS NoStaleHandle
PROPERTIES OpenEndsInBt ClosedEndsIdle OutEndsInBt
CHECK_DEADLOCK FALSE
