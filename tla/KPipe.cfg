CONSTANTS
    NPROC = 3
    PIPESIZE = 2
    MaxBytes = 3
    MinLen = 1
    MaxLen = 3
    Pipeline = TRUE
SPECIFICATION FairSpec
INVARIANTS
    PipeInv
PROPERTIES
    IsByteStream
    SleepersReleased
