SPECIFICATION Spec
CONSTANTS
    MAX_PROCS = 2
    Kinds = {"kernel", "user"}
    Images <- OwnImages
    UserRam = 1100
    StackSize = 20
    Frame = 10
    Entry = 1001
    Spurious = TRUE
    Junk = 1000
INVARIANTS
    ContextIntegrity
    SavedContextIntact
    LevelKept
PROPERTY
    EveryProcessRuns
CHECK_DEADLOCK FALSE
