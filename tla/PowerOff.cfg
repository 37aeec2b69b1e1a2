SPECIFICATION Spec
CONSTANTS
    L = L
    R = R
    Bud <- Buds
    Master = L
    Cased <- OneBud
    Heard <- Buds
    Tired <- OtherBud
    MaxWait = 1
    Weak <- Strong
    MaxQueue = 2
INVARIANTS TimerArmed NotStuckIdle
PROPERTIES ImplementsBudLife ChargesInCase
CHECK_DEADLOCK FALSE
