CONSTANTS
    NPROC = 3
    MaxPid = 3
    HasInit = FALSE
    Workloads = {
        {"pause", "wait", "fork", "exec", "exit"},
        {"wait", "fork", "exec", "exit", "kill", "hit"}}
SPECIFICATION FairSpec
PROPERTIES
    RunnableRuns
    KillLands
