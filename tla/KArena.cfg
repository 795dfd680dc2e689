CONSTANTS
    Slots = {s1, s2, s3}
    Units = 13
    Images <- MCImages
    HEAPCHUNK = 4
    Asks = {0, 1, 2, 5}
SYMMETRY MCSymmetry
SPECIFICATION Spec
INVARIANTS
    ArenaInv
PROPERTIES
    RefusalIsClean
