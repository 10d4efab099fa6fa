SPECIFICATION KeyboardFairSpec
CONSTANTS
    idle = idle
    main = main
    p1 = p1
    ioLock = ioLock
    Threads = {idle, main, p1}
    Idle = idle
    Boot = main
    KernelThreads = {main}
    Mutexes = {ioLock}
    Events = {}
    QueueLock = ioLock
    QueueLen = 5
    Keys = {"shift", "right"}
    Bytes <- MCBytes
    KeyReaders = {p1}
    None = None
    Slice = 1
    MaxSleep = 0
    MaxSleepers = 0
    MaxEvents = 0
INVARIANTS SlotsAsleep KeysWhole ModifiersHeld
PROPERTY KeyIsRead
