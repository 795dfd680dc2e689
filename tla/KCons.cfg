CONSTANTS
    Procs = {sh, job}
    RawUsers = {sh}
    Background = FALSE
    Keys = {"char", "return", "backspace", "intr"}
    INPUT_BUF = 2
    MaxBytes = 4
    MaxRead = 2
SPECIFICATION FairSpec
INVARIANTS
    ConsInv
    SleeperHasNoInput
PROPERTIES
    CommittedStays
    InputTaken
CHECK_DEADLOCK FALSE
