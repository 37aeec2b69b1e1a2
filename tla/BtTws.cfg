SPECIFICATION Spec
CONSTANTS
    Left = Left
    Right = Right
    None = None
    Buds <- MCBuds
    PowerOnTries = 1
    TimeoutTries = 1
    RefusedTries = 1
    Phones = 1
    QueueCap = 3
    Chances <- MCChances
INVARIANTS PairKnown NoDeadEnd PairFindable PagingEnds
PROPERTIES Together
CHECK_DEADLOCK FALSE
