SPECIFICATION GpuSpec
CONSTANTS
    IndexMod = 4
    Found <- Either
    Accepts <- Either
    DisplayEnabled = TRUE
    Directories <- Any
    Present <- Either
    Garbage <- MCGarbage
    GarbageCounts <- MCCounts
    MaxFailures = 2
    Byte = 16
INVARIANTS ResponseIsMine HandshakeOrder RamfbConfigured FoundIsRamfb
PROPERTIES ChainStable CallReturns OneTransfer DetectionEnds
