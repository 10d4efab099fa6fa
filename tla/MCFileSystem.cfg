SPECIFICATION Spec
CONSTANTS
    a = a
    b = b
    c = c
    Names = {a, b, c}
    NInodes = 4
    NSectors = 10
    DataLba = 16
    BlockSectors = 2
    SectorSize = 3
    Direct = 1
    Indirect = 2
    Slots = 4
    SectorEntries = 3
    SectorAddresses = 1
    BlockSize = 2
    WriteSizes = {3}
INVARIANTS TreeSound BlocksAccounted PathsAgree
SYMMETRY Permuted
CHECK_DEADLOCK FALSE
