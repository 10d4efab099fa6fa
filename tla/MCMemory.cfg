SPECIFICATION Spec
CONSTANTS
    kernel = kernel
    init = init
    p1 = p1
    KernelPages = 9
    UserPages = 3
    KernelSpace = 8
    UserSpace = 3
    Kernel = kernel
    Procs = {init, p1}
    Root = init
    PoolLen <- Pools
    SpaceLen <- SpaceLens
    TableSpan = 2
    BitmapLen = 1
    PageSize = 2
    BlockCnt <- Blocks
    Sizes = {2}
    MaxHeld = 2
INVARIANTS PagesAccounted NoPageMappedTwice HeapSound
PROPERTIES KernelPagesOwned
CHECK_DEADLOCK FALSE
