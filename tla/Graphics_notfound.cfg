SPECIFICATION GpuSpec
CONSTANTS
    IndexMod = 4
    Found <- No
    Accepts <- Yes
    DisplayEnabled = TRUE
    Directories <- OneWithout
    Present <- Yes
    Garbage <- Zero
    GarbageCounts <- Zero
    MaxFailures = 0
    Byte = 16
INVARIANT RamfbWasFound
