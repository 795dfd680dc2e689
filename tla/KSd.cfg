CONSTANTS
    TXSZ = 2
    W = 4
    SdCount = 2
    NSEC = 2
    Tries = 2
    NSDCACHE = 1
SPECIFICATION SdFairSpec
INVARIANTS
    SdInv
    WireInOrder
    DataIsRight
PROPERTIES
    DegradesForGood
    OutputReachesWire
    TxReturns
    ReadReturns
