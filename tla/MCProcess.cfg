SPECIFICATION FairSpec
CONSTANTS
    idle = idle
    init = init
    p1 = p1
    p2 = p2
    p3 = p3
    Threads = {idle, init, p1, p2, p3}
    Idle = idle
    InitProc = init
    None = None
    Slice = 1
INVARIANTS NoMissedExit WaitingHasChild FatherPresent
PROPERTIES ExitNoticed StarvationFree ImplementsFamily
