SPECIFICATION Spec
CONSTANTS
    Left = Left
    Right = Right
    None = None
    Buds <- MCBuds
    AutoOff = 2
    Chances <- MCChances
INVARIANTS QuietInUse SomeoneCounts
PROPERTIES GoesOff
CHECK_DEADLOCK FALSE
