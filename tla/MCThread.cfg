SPECIFICATION Spec
CONSTANTS
    idle = idle
    main = main
    p1 = p1
    p2 = p2
    m1 = m1
    disk = disk
    Threads = {idle, main, p1, p2}
    Idle = idle
    Boot = main
    KernelThreads = {main}
    Mutexes = {m1}
    Events = {disk}
    None = None
    Slice = 1
    MaxSleep = 2
    MaxSleepers = 2
    MaxEvents = 2
SYMMETRY MCSymmetry
INVARIANTS TypeOK NoThreadLost WaitersAsleep NoWakeupLost MutualExclusion OversleepBounded
PROPERTY WakesInOrder
