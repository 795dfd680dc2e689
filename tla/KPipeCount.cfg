CONSTANTS
    NPROC = 2
    PIPESIZE = 2
    MaxBytes = 4
    MinLen = 1
    MaxLen = 4
    Pipeline = TRUE
SPECIFICATION Spec
INVARIANTS
    WriteCount
