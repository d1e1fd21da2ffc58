SPECIFICATION Spec
CONSTANTS
    PAGE = 8
    heap_bottom = 4
    temp_start = 44
    heap_limit = 64
    FreedSizes = {1, 8}
    KeptSizes = {3, 12}
    PermSizes = {8, 9}
INVARIANTS
    TypeOK
    NoByteOwnedTwice
    NothingLost
    FootprintBounded
