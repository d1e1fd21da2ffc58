SPECIFICATION Spec
CONSTANTS
    HALF = 1000
    BlockDevices <- MCBlockDevices
    Machines <- MCMachines
    WORD = 1000000
    BLOCK = 4
    kfull_end <- MCkfull_end
    MapLines = 32
    DtbLines = 257
    LoadLimit = 100
    Sweep = 180
    rows = 48
    StackFrames = 12
INVARIANTS StackInRam BootScreenIffMemory NotPreempted
PROPERTIES PrintReturns BootEnds
