CONSTANTS
    Procs = {p1, p2}
    Words = {w1, w2, w3}
    ConsRings = TRUE
    FgShell = TRUE
SPECIFICATION FairSpec
INVARIANTS
    TickInv
    CountedOnce
    NoLostFire
PROPERTIES
    TimerLives
    InputSeen
