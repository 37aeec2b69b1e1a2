SPECIFICATION ClockSpec
CONSTANTS
    Foreground = {"a2dp", "esco", "tone"}
    Overlaying = {"tone"}
    Background = {"voice"}
    Clock <- ModeClock
    Base = 24
    Boot = 24
    Headroom = 12
    Overlay = 32
    Enough = 192
    Checked = {"voice"}
    MaxClock = 300
INVARIANTS SumOfBoth EnoughForAll
PROPERTIES HeadroomComes
