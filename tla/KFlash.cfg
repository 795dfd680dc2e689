CONSTANTS
    NSECT = 3
    zero = a
    Vals = {a, b}
    golden <- MCgolden
    Torn = Torn
    None = None
    MaxGen = 3
    TornSum = FALSE
SPECIFICATION Spec
INVARIANTS
    FlashInv
    Durable
    AllOrNothing
PROPERTIES
    IsSafeDisk
