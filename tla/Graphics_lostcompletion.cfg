SPECIFICATION GpuSpec
CONSTANTS
    IndexMod = 4
    Found <- Yes
    Accepts <- Yes
    DisplayEnabled = TRUE
    Directories <- OneWithout
    Present <- No
    Garbage <- Zero
    GarbageCounts <- Zero
    MaxFailures = 0
    Byte = 16
PROPERTY AlwaysReturns
