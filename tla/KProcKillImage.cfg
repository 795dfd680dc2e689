CONSTANTS
    NPROC = 4
    MaxPid = 4
    HasInit = TRUE
    Workloads = {{"fork", "exec", "exit", "kill", "hit"}}
SPECIFICATION Spec
INVARIANTS
    ImageHeld
