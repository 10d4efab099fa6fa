SPECIFICATION FairSpec
CONSTANTS
    idle = idle
    main = main
    p1 = p1
    p2 = p2
    m1 = m1
    disk = disk
    Threads = {idle, main, p1, p2}
    Idle = idle
    Boot = main
    KernelThreads = {main}
    Mutexes = {m1}
    Events = {}
    None = None
    Slice = 1
    MaxSleep = 1
    MaxSleepers = 1
    MaxEvents = 0
PROPERTIES SleeperWakes ImplementsLock
