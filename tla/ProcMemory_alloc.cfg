SPECIFICATION Spec
CONSTANTS
    PAGE = 4
    BLOCK = 3
    kernel_start = 3
    KernelPages = 4
    SharedPages = 2
    RamEnd = 23
    DevicePages <- MCDevicePages
    Sizes <- MCSizes
INVARIANTS TypeOK PagesOwnedOnce GivenMapped FailsOnlyWhenFull
PROPERTY BootMapKept
