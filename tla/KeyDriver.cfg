SPECIFICATION Spec
CONSTANTS
    Key = {k1, k2}
    NO_KEY = NO_KEY
    ClickOnly = {k2}
    FilterTime = 2
    LongTime = 3
    HoldTime = 5
    ClickDelay = 2
    ActiveTime = 7
    MaxClicks = 3
INVARIANTS AwakeWhilePending
PROPERTIES Debounced LongFirst SaidInTheEnd HoldGoesOn
