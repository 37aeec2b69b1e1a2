SPECIFICATION ScanSpec
CONSTANTS
    ADC_MAX_CH = 6
    Channel = {"ldoref", "vbat", "dtemp", "key", "ntc"}
    Start <- MCStart
    Visitor = "ntc"
    MaxLate = 2
INVARIANTS
    FiledRight
PROPERTIES
    Renewed
