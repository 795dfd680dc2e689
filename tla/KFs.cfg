CONSTANTS
    Slots = {0, 1}
    NOFILE = 2
    NFILE = 2
    BOOTFDS = 1
    NINODES = 3
    NBLOCKS = 4
    NDIRECT = 1
    NINDIRECT = 1
    Names = {"a", "b", "dev", "console", ".."}
    Paths <- MCPaths
SPECIFICATION Spec
INVARIANTS
    DiskInv
    RefsExact
    OnlyBootTablesLost
    NobodyStranded
