SPECIFICATION Spec
CONSTANTS
    DetectCnt = 2
    OffLimit = 2
    VoiceLimit = 3
    NormalLimit = 1
    BootLimit = 1
    Volts <- MCVolts
    PoweroffV = 1
    WarnV = 2
    QueueCap = 3
INVARIANTS NoOrphanTimer NoStaleHandle MonitorRunsOnBattery
PROPERTIES LowBatteryShutsDown
