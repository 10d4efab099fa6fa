SPECIFICATION IdeFairSpec
CONSTANTS
    idle = idle
    main = main
    p1 = p1
    channelLock = channelLock
    diskDone = diskDone
    Threads = {idle, main, p1}
    Idle = idle
    Boot = main
    KernelThreads = {main}
    Mutexes = {channelLock}
    Events = {diskDone}
    None = None
    Slice = 1
    MaxSleep = 0
    MaxSleepers = 0
    MaxEvents = 0
    ChannelLock = channelLock
    DiskDone = diskDone
    Clients = {main, p1}
    MaxSectors = 2
    MaxCommands = 2
    MaxPolls = 2
INVARIANTS OneCommandAtATime ConfirmedIsDone NothingLeftOver InterruptToCome
PROPERTIES CallEnds
