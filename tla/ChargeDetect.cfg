SPECIFICATION DetectSpec
CONSTANTS
    OnFilter = 2
    KeepFilter = 3
    OffFilter = 2
    OffExtra = 1
INVARIANTS NothingMissed
PROPERTIES ImplementsContact
