CONSTANTS
    NPROC = 4
    MaxPid = 4
    HasInit = TRUE
    Workloads = {
        {"answer", "pause", "wait", "fork", "exec", "exit", "kill"},
        {"wait", "fork", "exec", "exit", "sbrk"},
        {"select", "wait", "fork", "exec", "exit", "ctrlc"},
        {"pause", "fork", "exec", "ctrlc", "signal"}}
SPECIFICATION Spec
INVARIANTS
    TableInv
    SleepersServed
    OneRunsInImage
    MemoryHeld
    HandlerReturns
