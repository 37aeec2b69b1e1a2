SPECIFICATION Spec
CONSTANTS
    FullCount = 1
    QueueCap = 1
INVARIANTS NotBlind ModeFollows
PROPERTIES ClosedGoesQuiet EndsFull
CHECK_DEADLOCK FALSE
