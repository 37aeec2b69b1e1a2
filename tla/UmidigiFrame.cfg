SPECIFICATION FrameSpec
CONSTANTS
    Timer2CMessage = 20
    Frames <- MCFrames
    Early = 3
    Late = 1
    MaxWrong = 1
    MaxSpikes = 1
INVARIANTS HeardAsSent
PROPERTIES TimerEnds
CHECK_DEADLOCK FALSE
