SPECIFICATION PipeFairSpec
CONSTANTS
    idle = idle
    main = main
    p1 = p1
    p2 = p2
    p3 = p3
    a = a
    b = b
    ioLock = ioLock
    Threads = {idle, main, p1, p2}
    Idle = idle
    Boot = main
    KernelThreads = {main}
    Mutexes = {ioLock}
    Events = {}
    QueueLock = ioLock
    QueueLen = 3
    Bytes = {a, b}
    Writers = {p1}
    Readers = {p2}
    MaxCount = 3
    None = None
    Slice = 1
    MaxSleep = 0
    MaxSleepers = 0
    MaxEvents = 0
INVARIANTS NobodyStranded ReadDoesNotBlock
PROPERTIES ImplementsFifo WriterGoesOn
