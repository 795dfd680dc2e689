CONSTANTS
    Slots = {p1, p2, p3}
    Half = 6
    MaxSleep = 3
    MaxLate = 2
SPECIFICATION TimerFairSpec
INVARIANTS
    TimerInv
    NoOversleep
PROPERTIES
    NoEarlyWake
    SleepEnds
