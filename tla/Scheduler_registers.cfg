SPECIFICATION Spec
CONSTANTS
    MAX_PROCS = 1
    Kinds = {"user"}
    Images <- OwnImages
    UserRam = 1100
    StackSize = 20
    Frame = 10
    Entry = 1001
    Spurious = FALSE
    Junk = 1000
PROPERTY
    AllRegistersKept
CHECK_DEADLOCK FALSE
