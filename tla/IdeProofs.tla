----------------------------- MODULE IdeProofs ------------------------------
(***************************************************************************)
(* Theorems about Ide, for any number of threads that use the disk, and of *)
(* sectors and commands of a call.                                         *)
(*                                                                         *)
(* The argument: only the thread that holds the channel's mutex disturbs   *)
(* the disk, its line and the flag, so what these are can be told from the *)
(* statement it stands at; while nobody holds it the disk is idle,         *)
(* disk_done at 0, and no interrupt that comes is expected.                *)
(***************************************************************************)
EXTENDS Ide, ThreadProofs

disk_done == value[DiskDone]

\* Where a thread is in the driver, in the primitives, and what it holds.
ClientAt(t) ==
    \/ step[t] \in {"out", "lock"} /\ pc[t] = "own" /\ held[t] = None
    \/ /\ step[t] = "expect" /\ pc[t] = "dec"
       /\ want[t] = ChannelLock /\ held[t] = None
    \/ step[t] = "expect" /\ pc[t] \in {"dec2", "own"} /\ held[t] = ChannelLock
    \/ /\ step[t] \in {"command", "confirm", "poll", "move", "next", "panic"}
       /\ pc[t] = "own" /\ held[t] = ChannelLock
    \/ /\ \/ step[t] = "poll" /\ call[t].dir = "read"
          \/ step[t] = "next" /\ call[t].dir = "write"
       /\ pc[t] = "dec" /\ want[t] = DiskDone /\ held[t] = ChannelLock
    \/ step[t] = "return" /\ pc[t] = "inc" /\ held[t] = ChannelLock
    \/ step[t] = "return" /\ pc[t] = "own" /\ held[t] = None

IdePoints ==
    /\ \A t \in Clients : ClientAt(t)
    /\ \A t \in Threads \ Clients : pc[t] \in {"own", "loop", "hlt"} /\ held[t] = None

\* Between two commands.
Quiet == disk.state = "idle" /\ disk_done = 0 /\ (expecting_intr => line = "low")

\* The interrupt has been waited for.
Confirmed == ~expecting_intr /\ disk_done = 0

\* It is expected, or has come: the state it finds the disk in.
Coming(working, finished) ==
    \/ disk.state = working /\ expecting_intr /\ disk_done = 0 /\ line = "low"
    \/ disk.state = finished /\ expecting_intr /\ disk_done = 0 /\ line = "pending"
    \/ disk.state = finished /\ ~expecting_intr /\ disk_done = 1 /\ wait[DiskDone] = << >>

ReadComing == disk.dir = "read" /\ disk.left >= 1 /\ Coming("busy", "ready")
WriteComing == disk.dir = "write" /\ Coming("flushing", "idle")

\* The channel, while its mutex is held by a thread
\* that has no command under way, or is about to send one,
Sending(t) ==
    \/ step[t] \in {"expect", "return"} /\ Quiet
    \/ /\ step[t] = "command" /\ disk.state = "idle" /\ disk_done = 0 /\ expecting_intr
       /\ line = "pending" => t = q.cur /\ ~intr[t]

\* that reads
Reading(t) ==
    /\ call[t].dir = "read"
    /\ \/ step[t] = "confirm" /\ ReadComing
       \/ step[t] = "poll" /\ pc[t] = "dec" /\ ReadComing
       \/ /\ step[t] \in {"poll", "move"} /\ pc[t] = "own"
          /\ disk.state = "ready" /\ disk.dir = "read" /\ disk.left >= 1 /\ Confirmed
       \/ step[t] = "next" /\ pc[t] = "own" /\ disk.state = "idle" /\ Confirmed

\* or writes.
Writing(t) ==
    /\ call[t].dir = "write"
    /\ \/ /\ step[t] = "poll" /\ disk.state \in {"busy", "ready"}
          /\ disk.dir = "write" /\ disk.left >= 1 /\ disk.left = disk.total
          /\ expecting_intr /\ disk_done = 0 /\ line = "low"
       \/ /\ step[t] = "move" /\ disk.state = "ready"
          /\ disk.dir = "write" /\ disk.left >= 1
          /\ \/ expecting_intr /\ disk_done = 0 /\ disk.left = disk.total /\ line = "low"
             \/ expecting_intr /\ disk_done = 0 /\ disk.left < disk.total /\ line = "pending"
             \/ ~expecting_intr /\ disk_done = 1 /\ disk.left < disk.total /\ wait[DiskDone] = << >>
       \/ step[t] = "confirm" /\ WriteComing
       \/ step[t] = "next" /\ pc[t] = "dec" /\ WriteComing
       \/ step[t] = "next" /\ pc[t] = "own" /\ disk.state = "idle" /\ Confirmed

Panicking(t) == step[t] = "panic" /\ t = q.cur /\ ~intr[t]

Channel ==
    /\ \A t \in Clients : held[t] = ChannelLock =>
          Sending(t) \/ Reading(t) \/ Writing(t) \/ Panicking(t)
    /\ (\A t \in Clients : held[t] # ChannelLock) => Quiet

\* TypeOK of the threads is part of ThreadInv.
DriverTypes ==
    /\ expecting_intr \in BOOLEAN
    /\ step \in [Clients -> Steps]
    /\ call \in [Clients -> [dir : {"read", "write"}, left : 0 .. MaxCommands]]
    /\ polls \in 0 .. MaxPolls
    /\ disk \in [state : {"idle", "busy", "ready", "flushing"}, dir : {"read", "write"},
                 left : 0 .. MaxSectors, total : 0 .. MaxSectors]
    /\ line \in {"low", "pending", "taken"}

IdeInv == ThreadInv /\ DriverTypes /\ IdePoints /\ Channel

-----------------------------------------------------------------------------

\* The types and constants the steps use, and that one thread holds the mutex.
LEMMA IdeFacts ==
    ASSUME IdeInv
    PROVE  /\ q \in Queues /\ q.cur \in Threads /\ QueuesConsistent(q)
           /\ ChannelLock \in Mutexes /\ ChannelLock \in Sems
           /\ DiskDone \in Events /\ DiskDone \in Sems /\ DiskDone \notin Mutexes
           /\ ChannelLock # DiskDone /\ ChannelLock # None /\ DiskDone # None
           /\ Clients \subseteq Threads \ {Idle}
           /\ pc \in [Threads -> {"own", "dec", "dec2", "inc", "loop", "hlt"}]
           /\ want \in [Threads -> Sems \cup {None}]
           /\ held \in [Threads -> Mutexes \cup {None}]
           /\ intr \in [Threads -> BOOLEAN]
           /\ value \in [Sems -> Nat] /\ disk_done \in Nat
           /\ wait \in [Sems -> Seq(Threads)]
           /\ pc[Idle] \in {"own", "loop", "hlt"}
           /\ \A t \in Threads : pc[t] \in {"loop", "hlt"} => t = Idle
<1> USE ThreadAssumption, IdeAssumption, ThreadsAssumption
<1>1. /\ ChannelLock \in Mutexes /\ ChannelLock \in Sems
      /\ DiskDone \in Events /\ DiskDone \in Sems /\ DiskDone \notin Mutexes
      /\ ChannelLock # DiskDone /\ ChannelLock # None /\ DiskDone # None
  BY DEF Sems
<1>2. ThreadInv
  BY DEF IdeInv
<1>3. QED
  BY <1>1, <1>2 DEF ThreadInv, TypeOK, NoThreadLost, Points, Queues, disk_done

LEMMA DriverFacts ==
    ASSUME IdeInv
    PROVE  /\ expecting_intr \in BOOLEAN
           /\ step \in [Clients -> Steps]
           /\ call \in [Clients -> [dir : {"read", "write"}, left : 0 .. MaxCommands]]
           /\ polls \in 0 .. MaxPolls
           /\ disk \in [state : {"idle", "busy", "ready", "flushing"}, dir : {"read", "write"},
                        left : 0 .. MaxSectors, total : 0 .. MaxSectors]
           /\ line \in {"low", "pending", "taken"}
           /\ MaxSectors \in Nat \ {0} /\ MaxCommands \in Nat \ {0} /\ MaxPolls \in Nat
BY IdeAssumption DEF IdeInv, DriverTypes

\* One thread has the channel.
LEMMA OneHolder ==
    ASSUME IdeInv, NEW t \in Clients, NEW u \in Threads,
           held[t] = ChannelLock, held[u] = ChannelLock
    PROVE  t = u
BY IdeFacts DEF IdeInv, ThreadInv, MutualExclusion

\* Where a thread stands tells whether it has it.
LEMMA StandsAt ==
    ASSUME IdeInv, NEW t \in Clients, NEW label, AtStep(t, label)
    PROVE  /\ t = q.cur /\ pc[t] = "own" /\ step[t] = label
           /\ held[t] = IF label \in {"out", "lock", "return"} THEN None ELSE ChannelLock
           /\ held[t] = ChannelLock =>
                Sending(t) \/ Reading(t) \/ Writing(t) \/ Panicking(t)
BY IdeFacts DEF AtStep, IdeInv, IdePoints, ClientAt, Channel

\* A step that leaves the threads alone.
LEMMA StillThreads ==
    ASSUME IdeInv, UNCHANGED threadVars
    PROVE  ThreadInv' /\ UNCHANGED <<q, value, wait, holder, pc, want, held, intr>>
<1>1. UNCHANGED <<q, value, wait, holder, pc, want, held, intr>>
  BY DEF threadVars
<1>2. QED
  BY <1>1, IdeFacts, SameQueuesStep, QuietStep DEF IdeInv

\* One that changes the point of one thread only.
LEMMA PointsKept ==
    ASSUME IdeInv, NEW t \in Clients, ClientAt(t)',
           \A u \in Threads \ {t} : pc'[u] = pc[u] /\ held'[u] = held[u] /\ want'[u] = want[u],
           \A u \in Clients \ {t} : step'[u] = step[u] /\ call'[u] = call[u]
    PROVE  IdePoints'
<1>1. ASSUME NEW u \in Clients \ {t} PROVE ClientAt(u)'
  <2>1. /\ pc'[u] = pc[u] /\ held'[u] = held[u] /\ want'[u] = want[u]
        /\ step'[u] = step[u] /\ call'[u] = call[u]
    BY IdeFacts
  <2>2. ClientAt(u)
    BY DEF IdeInv, IdePoints
  <2>3. QED
    BY <2>1, <2>2 DEF ClientAt
<1>2. \A u \in Threads \ Clients : pc'[u] \in {"own", "loop", "hlt"} /\ held'[u] = None
  BY IdeFacts DEF IdeInv, IdePoints
<1>3. QED
  BY <1>1, <1>2 DEF IdePoints

\* The channel is in the same state when neither it nor its holder has moved.
LEMMA ChannelKept ==
    ASSUME IdeInv, UNCHANGED <<expecting_intr, disk, line>>,
           value'[DiskDone] = value[DiskDone], wait'[DiskDone] = wait[DiskDone],
           \A u \in Clients : held'[u] = ChannelLock <=> held[u] = ChannelLock,
           \A u \in Clients : held[u] = ChannelLock =>
                /\ step'[u] = step[u] /\ call'[u] = call[u]
                /\ pc'[u] = pc[u] \/ step[u] = "expect"
                /\ u = q.cur /\ ~intr[u] => q'.cur = u /\ ~intr'[u]
    PROVE  Channel'
<1>1. disk_done' = disk_done
  BY DEF disk_done
<1>2. Quiet' = Quiet
  BY <1>1 DEF Quiet
<1>3. ReadComing' = ReadComing /\ WriteComing' = WriteComing /\ Confirmed' = Confirmed
  BY <1>1 DEF ReadComing, WriteComing, Coming, Confirmed
<1>4. ASSUME NEW u \in Clients, held[u] = ChannelLock
      PROVE  Sending(u)' \/ Reading(u)' \/ Writing(u)' \/ Panicking(u)'
  <2>1. CASE Sending(u)
    BY <1>1, <1>2, <1>4, <2>1 DEF Sending
  <2>2. CASE Reading(u)
    BY <1>3, <1>4, <2>2 DEF Reading
  <2>3. CASE Writing(u)
    BY <1>1, <1>3, <1>4, <2>3 DEF Writing
  <2>4. CASE Panicking(u)
    BY <1>4, <2>4 DEF Panicking
  <2>5. QED
    BY <1>4, <2>1, <2>2, <2>3, <2>4 DEF IdeInv, Channel
<1>5. QED
  BY <1>2, <1>4 DEF IdeInv, Channel

\* The holder's own steps.
LEMMA HolderMoves ==
    ASSUME IdeInv, NEW t \in Clients, held[t] = ChannelLock, held' = held,
           Sending(t)' \/ Reading(t)' \/ Writing(t)' \/ Panicking(t)'
    PROVE  Channel'
BY IdeFacts, OneHolder DEF Channel

-----------------------------------------------------------------------------

\* ide_read or ide_write is called.
LEMMA CallStep ==
    ASSUME IdeInv, NEW t \in Clients, Call(t)
    PROVE  IdeInv'
<1>1. /\ t \in Threads /\ held[t] = None /\ pc[t] = "own" /\ step[t] = "out"
      /\ Go(t, "lock") /\ UNCHANGED <<expecting_intr, polls, disk, line>>
      /\ \E c \in [dir : {"read", "write"}, left : 0 .. MaxCommands] :
            call' = [call EXCEPT ![t] = c]
      /\ SyscallEnter(t) \/ UNCHANGED threadVars
  <2>1. \A dir \in {"read", "write"}, n \in 1 .. MaxCommands :
           [dir |-> dir, left |-> n] \in [dir : {"read", "write"}, left : 0 .. MaxCommands]
    BY DriverFacts
  <2>2. QED
    BY <2>1, IdeFacts, StandsAt DEF Call
<1>2. PICK c \in [dir : {"read", "write"}, left : 0 .. MaxCommands] :
         call' = [call EXCEPT ![t] = c]
  BY <1>1
<1>3. /\ ThreadInv' /\ UNCHANGED <<q, value, wait, pc, want, held>>
      /\ \A u \in Threads \ {t} : intr'[u] = intr[u]
  <2>1. CASE SyscallEnter(t)
    BY <1>1, <2>1, IdeFacts, SyscallStep DEF IdeInv, SyscallEnter
  <2>2. CASE UNCHANGED threadVars
    BY <2>2, StillThreads
  <2>3. QED
    BY <1>1, <2>1, <2>2
<1>4. /\ step' \in [Clients -> Steps] /\ step'[t] = "lock"
      /\ \A u \in Clients \ {t} : step'[u] = step[u] /\ call'[u] = call[u]
      /\ call' \in [Clients -> [dir : {"read", "write"}, left : 0 .. MaxCommands]]
  BY <1>1, <1>2, DriverFacts DEF Go, Steps
<1>5. DriverTypes'
  BY <1>1, <1>4, DriverFacts DEF DriverTypes
<1>6. ClientAt(t)'
  BY <1>1, <1>3, <1>4 DEF ClientAt
<1>7. IdePoints'
  BY <1>3, <1>4, <1>6, PointsKept
<1>8. Channel'
  <2>1. \A u \in Clients : held[u] = ChannelLock => u # t /\ u \in Threads
    BY <1>1, IdeFacts
  <2>2. QED
    BY <1>1, <1>3, <1>4, <2>1, ChannelKept
<1>9. QED
  BY <1>3, <1>5, <1>7, <1>8 DEF IdeInv

\* MutexAcquire, from the test of SemaphoreDec on: with the mutex the thread
\* finds the channel quiet.
LEMMA ChannelDecStep ==
    ASSUME IdeInv, NEW t \in Clients, Testing(t, ChannelLock),
           TakeOrWait(t, ChannelLock), UNCHANGED <<holder, intr>>,
           step' \in [Clients -> Steps], step'[t] = "expect",
           \A u \in Clients \ {t} : step'[u] = step[u],
           UNCHANGED <<expecting_intr, call, polls, disk, line>>
    PROVE  IdeInv'
<1>1. /\ ThreadInv' /\ t = q.cur /\ held[t] = None /\ t \in Threads
  BY IdeFacts, TakeOrWaitStep DEF IdeInv, Testing
<1>2. DriverTypes'
  BY DriverFacts DEF DriverTypes
<1>3. /\ value'[DiskDone] = value[DiskDone] /\ wait'[DiskDone] = wait[DiskDone]
      /\ \A u \in Threads \ {t} : pc'[u] = pc[u] /\ held'[u] = held[u] /\ want'[u] = want[u]
  BY <1>1, IdeFacts DEF TakeOrWait
<1>4. CASE value[ChannelLock] > 0
  <2>1. pc'[t] = "dec2" /\ held'[t] = ChannelLock
    BY <1>1, <1>4, IdeFacts DEF TakeOrWait
  <2>2. ClientAt(t)'
    BY <2>1 DEF ClientAt
  <2>3. \A u \in Clients : held[u] # ChannelLock
    BY <1>4, IdeFacts DEF IdeInv, ThreadInv, MutualExclusion
  <2>4. Quiet'
    <3>1. disk_done' = disk_done
      BY <1>3 DEF disk_done
    <3>2. QED
      BY <2>3, <3>1 DEF IdeInv, Channel, Quiet
  <2>5. \A u \in Clients \ {t} : held'[u] # ChannelLock
    BY <1>3, <2>3, IdeFacts
  <2>6. Channel'
    BY <2>1, <2>4, <2>5 DEF Channel, Sending
  <2>7. QED
    BY <1>1, <1>2, <1>3, <2>2, <2>6, PointsKept DEF IdeInv
<1>5. CASE ~(value[ChannelLock] > 0)
  <2>1. /\ pc'[t] = "dec" /\ want'[t] = ChannelLock /\ held' = held
    BY <1>1, <1>5, IdeFacts DEF TakeOrWait
  <2>2. ClientAt(t)'
    BY <1>1, <2>1 DEF ClientAt
  <2>3. \A u \in Clients : held[u] = ChannelLock => u # t /\ u \in Threads
    BY <1>1, IdeFacts
  <2>4. Channel'
    BY <1>1, <1>3, <2>1, <2>3, ChannelKept
  <2>5. QED
    BY <1>1, <1>2, <1>3, <2>2, <2>4, PointsKept DEF IdeInv
<1>6. QED
  BY <1>4, <1>5

LEMMA AcquireStep ==
    ASSUME IdeInv, NEW t \in Clients, Acquire(t)
    PROVE  IdeInv'
<1>1. /\ SemaphoreDec(t, ChannelLock) /\ t \in Threads \ {Idle}
      /\ UNCHANGED <<expecting_intr, call, polls, disk, line>>
      /\ step' \in [Clients -> Steps] /\ step'[t] = "expect"
      /\ \A u \in Clients \ {t} : step'[u] = step[u]
  BY IdeFacts, DriverFacts DEF Acquire, Go, Steps
<1>2. Testing(t, ChannelLock) /\ TakeOrWait(t, ChannelLock) /\ UNCHANGED <<holder, intr>>
  BY <1>1, IdeFacts, SemaphoreDecTesting DEF IdeInv
<1>3. QED
  BY <1>1, <1>2, ChannelDecStep

\* The wait for the interrupt: when the thread gets on, it has come.
LEMMA DiskDecStep ==
    ASSUME IdeInv, NEW t \in Clients, Testing(t, DiskDone),
           TakeOrWait(t, DiskDone), UNCHANGED <<holder, intr>>,
           held[t] = ChannelLock,
           \/ call[t].dir = "read" /\ ReadComing /\ step'[t] = "poll"
           \/ call[t].dir = "write" /\ WriteComing /\ step'[t] = "next",
           step' \in [Clients -> Steps],
           \A u \in Clients \ {t} : step'[u] = step[u],
           UNCHANGED <<expecting_intr, call, polls, disk, line>>
    PROVE  IdeInv'
<1>1. /\ ThreadInv' /\ t = q.cur /\ t \in Threads
  BY IdeFacts, TakeOrWaitStep DEF IdeInv, Testing
<1>2. DriverTypes'
  BY DriverFacts DEF DriverTypes
<1>3. /\ held' = held
      /\ \A u \in Threads \ {t} : pc'[u] = pc[u] /\ held'[u] = held[u] /\ want'[u] = want[u]
  BY <1>1, IdeFacts DEF TakeOrWait
<1>4. CASE value[DiskDone] > 0
  <2>1. pc'[t] = "own" /\ value'[DiskDone] = value[DiskDone] - 1
    BY <1>1, <1>4, IdeFacts DEF TakeOrWait
  <2>2. ClientAt(t)'
    BY <1>3, <2>1 DEF ClientAt
  <2>3. /\ disk_done = 1 /\ disk_done' = 0 /\ ~expecting_intr
        /\ call[t].dir = "read" => /\ disk.state = "ready" /\ disk.dir = "read"
                                   /\ disk.left >= 1
        /\ call[t].dir = "write" => disk.state = "idle"
    BY <1>4, <2>1, IdeFacts DEF ReadComing, WriteComing, Coming, disk_done
  <2>4. Reading(t)' \/ Writing(t)'
    BY <2>1, <2>3 DEF Reading, Writing, Confirmed
  <2>5. Channel'
    BY <1>3, <2>4, HolderMoves
  <2>6. QED
    BY <1>1, <1>2, <1>3, <2>2, <2>5, PointsKept DEF IdeInv
<1>5. CASE ~(value[DiskDone] > 0)
  <2>1. /\ pc'[t] = "dec" /\ want'[t] = DiskDone /\ value' = value
    BY <1>1, <1>5, IdeFacts DEF TakeOrWait
  <2>2. ClientAt(t)'
    BY <1>3, <2>1 DEF ClientAt
  <2>3. ReadComing => ReadComing'
    BY <1>5, <2>1, IdeFacts DEF ReadComing, Coming, disk_done
  <2>4. WriteComing => WriteComing'
    BY <1>5, <2>1, IdeFacts DEF WriteComing, Coming, disk_done
  <2>5. Reading(t)' \/ Writing(t)'
    BY <2>1, <2>3, <2>4 DEF Reading, Writing
  <2>6. Channel'
    BY <1>3, <2>5, HolderMoves
  <2>7. QED
    BY <1>1, <1>2, <1>3, <2>2, <2>6, PointsKept DEF IdeInv
<1>6. QED
  BY <1>4, <1>5

LEMMA ConfirmStep ==
    ASSUME IdeInv, NEW t \in Clients, Confirm(t)
    PROVE  IdeInv'
<1>1. /\ SemaphoreDec(t, DiskDone) /\ t \in Threads \ {Idle} /\ AtStep(t, "confirm")
      /\ UNCHANGED <<expecting_intr, call, polls, disk, line>>
      /\ step' \in [Clients -> Steps]
      /\ step'[t] = IF call[t].dir = "read" THEN "poll" ELSE "next"
      /\ \A u \in Clients \ {t} : step'[u] = step[u]
  BY IdeFacts, DriverFacts DEF Confirm, Go, Steps
<1>2. Testing(t, DiskDone) /\ TakeOrWait(t, DiskDone) /\ UNCHANGED <<holder, intr>>
  BY <1>1, IdeFacts, SemaphoreDecTesting DEF IdeInv
<1>3. /\ held[t] = ChannelLock
      /\ \/ call[t].dir = "read" /\ ReadComing
         \/ call[t].dir = "write" /\ WriteComing
  BY <1>1, StandsAt DEF Sending, Reading, Writing, Panicking
<1>4. QED
  BY <1>1, <1>2, <1>3, DiskDecStep

-----------------------------------------------------------------------------

\* The first statement of CmdOut.  A pending interrupt that comes too late to
\* be taken for the command's finds interrupts off.
LEMMA CmdOutExpectStep ==
    ASSUME IdeInv, NEW t \in Clients, CmdOutExpect(t), Undisturbed
    PROVE  IdeInv'
<1>1. /\ AtStep(t, "expect") /\ expecting_intr' = TRUE
      /\ UNCHANGED <<threadVars, call, polls, disk, line>>
      /\ step' \in [Clients -> Steps] /\ step'[t] = "command"
      /\ \A u \in Clients \ {t} : step'[u] = step[u]
  BY DriverFacts DEF CmdOutExpect, Go, Steps
<1>2. /\ t = q.cur /\ pc[t] = "own" /\ held[t] = ChannelLock /\ Quiet
  BY <1>1, StandsAt DEF Sending, Reading, Writing, Panicking
<1>3. ThreadInv' /\ UNCHANGED <<q, value, wait, pc, want, held, intr>>
  BY <1>1, StillThreads
<1>4. DriverTypes'
  BY <1>1, DriverFacts DEF DriverTypes
<1>5. ClientAt(t)'
  BY <1>1, <1>2, <1>3 DEF ClientAt
<1>6. Sending(t)'
  <2>1. line = "pending" => ~intr[t]
    BY <1>2 DEF Undisturbed, InterruptsOn
  <2>2. QED
    BY <1>1, <1>2, <1>3, <2>1 DEF Sending, Quiet, disk_done
<1>7. QED
  BY <1>1, <1>2, <1>3, <1>4, <1>5, <1>6, PointsKept, HolderMoves DEF IdeInv

\* The second: the command is sent.
LEMMA CmdOutStep ==
    ASSUME IdeInv, NEW t \in Clients, CmdOut(t)
    PROVE  IdeInv'
<1>1. /\ AtStep(t, "command") /\ line' = "low" /\ polls' = MaxPolls
      /\ UNCHANGED <<threadVars, expecting_intr, call>>
      /\ step' \in [Clients -> Steps]
      /\ step'[t] = IF call[t].dir = "read" THEN "confirm" ELSE "poll"
      /\ \A u \in Clients \ {t} : step'[u] = step[u]
  BY DriverFacts DEF CmdOut, Go, Steps, AfterCommand
<1>2. PICK n \in 1 .. MaxSectors :
         disk' = [state |-> "busy", dir |-> call[t].dir, left |-> n, total |-> n]
  BY DEF CmdOut
<1>3. /\ pc[t] = "own" /\ held[t] = ChannelLock
      /\ disk_done = 0 /\ expecting_intr
  BY <1>1, StandsAt DEF Sending, Reading, Writing, Panicking
<1>4. ThreadInv' /\ UNCHANGED <<q, value, wait, pc, want, held, intr>>
  BY <1>1, StillThreads
<1>5. call[t].dir \in {"read", "write"}
  BY DriverFacts
<1>6. /\ disk'.state = "busy" /\ disk'.dir = call[t].dir
      /\ disk'.left = disk'.total /\ disk'.left >= 1
  BY <1>2, DriverFacts
<1>7. DriverTypes'
  BY <1>1, <1>2, <1>5, DriverFacts DEF DriverTypes
<1>8. ClientAt(t)'
  BY <1>1, <1>3, <1>4 DEF ClientAt
<1>9. Reading(t)' \/ Writing(t)'
  BY <1>1, <1>3, <1>4, <1>5, <1>6
     DEF Reading, Writing, ReadComing, Coming, disk_done
<1>10. QED
  BY <1>1, <1>3, <1>4, <1>7, <1>8, <1>9, PointsKept, HolderMoves DEF IdeInv

\* The disk is asked for its status: it answers that it is busy or ready, since
\* it works on the thread's own command.
LEMMA PollStep ==
    ASSUME IdeInv, NEW t \in Clients, WaitForHdWork(t)
    PROVE  IdeInv'
<1>1. /\ AtStep(t, "poll")
      /\ line' = line \/ line' = "low"
      /\ polls' = polls \/ (polls # 0 /\ polls' = polls - 1)
      /\ \/ UNCHANGED <<step, intr>>
         \/ disk.state = "ready" /\ Go(t, "move") /\ UNCHANGED intr
         \/ Go(t, "panic") /\ intr' = [intr EXCEPT ![t] = FALSE]
      /\ UNCHANGED <<q, value, wait, holder, pc, want, held, expecting_intr, call, disk>>
  BY DEF WaitForHdWork, GivesUp
<1>2. /\ t = q.cur /\ t \in Threads /\ pc[t] = "own" /\ held[t] = ChannelLock
      /\ step[t] = "poll"
      /\ Reading(t) \/ Writing(t)
  BY <1>1, IdeFacts, StandsAt DEF Sending, Panicking
<1>3. /\ intr' \in [Threads -> BOOLEAN] /\ ThreadInv'
  <2>1. intr' \in [Threads -> BOOLEAN]
    BY <1>1, IdeFacts
  <2>2. QED
    BY <1>1, <2>1, IdeFacts, SameQueuesStep, QuietStep DEF IdeInv
<1>4. /\ step' \in [Clients -> Steps] /\ \A u \in Clients \ {t} : step'[u] = step[u]
      /\ polls' \in 0 .. MaxPolls /\ line' \in {"low", "pending", "taken"}
  <2>1. step' \in [Clients -> Steps] /\ \A u \in Clients \ {t} : step'[u] = step[u]
    BY <1>1, DriverFacts DEF Go, Steps
  <2>2. QED
    BY <1>1, <2>1, DriverFacts
<1>5. DriverTypes'
  BY <1>1, <1>4, DriverFacts DEF DriverTypes
<1>6. \/ step'[t] = "poll" /\ intr' = intr
      \/ step'[t] = "move" /\ disk.state = "ready"
      \/ step'[t] = "panic" /\ ~intr'[t]
  BY <1>1, <1>2, IdeFacts, DriverFacts DEF Go
<1>7. ClientAt(t)'
  BY <1>1, <1>2, <1>6 DEF ClientAt
<1>8. Reading(t)' \/ Writing(t)' \/ Panicking(t)'
  <2>1. CASE step'[t] = "panic" /\ ~intr'[t]
    BY <1>1, <1>2, <2>1 DEF Panicking
  <2>2. CASE Reading(t) /\ step'[t] \in {"poll", "move"}
    BY <1>1, <1>2, <2>2 DEF Reading, Confirmed, disk_done
  <2>3. CASE Writing(t) /\ (step'[t] = "poll" \/ (step'[t] = "move" /\ disk.state = "ready"))
    BY <1>1, <1>2, <2>3 DEF Writing, disk_done
  <2>4. QED
    BY <1>2, <1>6, <2>1, <2>2, <2>3
<1>9. QED
  BY <1>1, <1>2, <1>3, <1>4, <1>5, <1>7, <1>8, PointsKept, HolderMoves DEF IdeInv

\* A sector is moved.
LEMMA MoveStep ==
    ASSUME IdeInv, NEW t \in Clients, MoveSector(t)
    PROVE  IdeInv'
<1>1. AtStep(t, "move") /\ UNCHANGED <<threadVars, expecting_intr, call, polls>>
  BY DEF MoveSector
<1>2. /\ pc[t] = "own" /\ held[t] = ChannelLock /\ step[t] = "move"
      /\ disk.state = "ready" /\ disk.left >= 1
      /\ disk.dir = call[t].dir /\ call[t].dir \in {"read", "write"}
      /\ disk.left \in Nat /\ disk.total \in Nat
      /\ Reading(t) \/ Writing(t)
  <2>1. /\ pc[t] = "own" /\ held[t] = ChannelLock /\ step[t] = "move"
        /\ Sending(t) \/ Reading(t) \/ Writing(t) \/ Panicking(t)
    BY <1>1, StandsAt
  <2>2. Reading(t) \/ Writing(t)
    BY <2>1 DEF Sending, Panicking
  <2>3. /\ disk.state = "ready" /\ disk.left >= 1
        /\ disk.dir = call[t].dir /\ call[t].dir \in {"read", "write"}
    BY <2>1, <2>2 DEF Reading, Writing
  <2>4. disk.left \in Nat /\ disk.total \in Nat
    BY DriverFacts
  <2>5. QED
    BY <2>1, <2>2, <2>3, <2>4
<1>3. ThreadInv' /\ UNCHANGED <<q, value, wait, pc, want, held, intr>>
  BY <1>1, StillThreads
<1>4. CASE disk.left > 1
  <2>1. /\ disk' = [disk EXCEPT !.left = @ - 1] /\ line' = Raise /\ step' = step
    BY <1>4 DEF MoveSector
  <2>2. /\ disk'.state = "ready" /\ disk'.dir = disk.dir /\ disk'.left = disk.left - 1
        /\ disk'.total = disk.total /\ disk'.left >= 1
    BY <1>2, <1>4, <2>1, DriverFacts
  <2>3. DriverTypes'
    BY <1>1, <1>4, <2>1, DriverFacts DEF DriverTypes, Raise
  <2>4. ClientAt(t)'
    BY <1>1, <1>2, <1>3, <2>1 DEF ClientAt
  <2>5. Reading(t) => Reading(t)'
    BY <1>1, <1>2, <1>3, <2>1, <2>2 DEF Reading, Confirmed, disk_done
  <2>6. Writing(t) => Writing(t)'
    <3>1. line = "low" => line' = "pending"
      BY <2>1 DEF Raise
    <3>2. line = "pending" => line' = "pending"
      BY <2>1 DEF Raise
    <3>3. disk.left <= disk.total => disk'.left < disk'.total
      BY <1>2, <2>2
    <3>4. QED
      BY <1>1, <1>2, <1>3, <2>1, <2>2, <3>1, <3>2, <3>3 DEF Writing, disk_done
  <2>7. QED
    BY <1>1, <1>2, <1>3, <2>1, <2>3, <2>4, <2>5, <2>6, PointsKept, HolderMoves DEF IdeInv
<1>5. CASE ~(disk.left > 1)
  <2>1. /\ disk' = [disk EXCEPT
             !.left = 0,
             !.state = IF disk.dir = "write" /\ disk.total = 1 THEN "flushing" ELSE "idle"]
        /\ line' = IF disk.dir = "write" /\ disk.total > 1 THEN Raise ELSE line
        /\ Go(t, AfterMove(t))
    BY <1>5 DEF MoveSector
  <2>2. /\ disk'.dir = disk.dir /\ disk.left = 1
        /\ disk'.state = IF disk.dir = "write" /\ disk.total = 1 THEN "flushing" ELSE "idle"
    BY <1>2, <1>5, <2>1, DriverFacts
  <2>3. /\ step' \in [Clients -> Steps]
        /\ step'[t] = IF call[t].dir = "read" THEN "next" ELSE "confirm"
        /\ \A u \in Clients \ {t} : step'[u] = step[u]
    BY <2>1, DriverFacts DEF Go, AfterMove, Steps
  <2>4. DriverTypes'
    <3>1. PICK s \in {"flushing", "idle"} : disk' = [disk EXCEPT !.left = 0, !.state = s]
      BY <2>1
    <3>2. disk' \in [state : {"idle", "busy", "ready", "flushing"}, dir : {"read", "write"},
                     left : 0 .. MaxSectors, total : 0 .. MaxSectors]
      <4>1. /\ disk.dir \in {"read", "write"} /\ disk.total \in 0 .. MaxSectors
            /\ 0 \in 0 .. MaxSectors
        BY DriverFacts
      <4>2. disk' = [state |-> s, dir |-> disk.dir, left |-> 0, total |-> disk.total]
        BY <3>1, DriverFacts
      <4>3. QED
        BY <4>1, <4>2
    <3>3. line' \in {"low", "pending", "taken"}
      BY <2>1, DriverFacts DEF Raise
    <3>4. QED
      BY <1>1, <2>3, <3>2, <3>3, DriverFacts DEF DriverTypes
  <2>5. ClientAt(t)'
    BY <1>1, <1>2, <1>3, <2>3 DEF ClientAt
  <2>6. Reading(t) => Reading(t)'
    BY <1>1, <1>2, <1>3, <2>2, <2>3 DEF Reading, Confirmed, disk_done
  <2>7. Writing(t) => Writing(t)'
    <3>1. CASE disk.total = 1
      <4>1. line' = line
        BY <2>1, <3>1
      <4>2. QED
        BY <1>1, <1>2, <1>3, <2>2, <2>3, <3>1, <4>1
           DEF Writing, WriteComing, Coming, disk_done
    <3>2. CASE disk.total # 1
      <4>1. Writing(t) => disk.total > 1
        BY <1>2, <2>2, <3>2 DEF Writing
      <4>2. Writing(t) => line' = Raise
        BY <1>2, <2>1, <4>1 DEF Writing
      <4>3. QED
        BY <1>1, <1>2, <1>3, <2>2, <2>3, <3>2, <4>1, <4>2
           DEF Writing, WriteComing, Coming, Raise, disk_done
    <3>3. QED
      BY <3>1, <3>2
  <2>8. QED
    BY <1>1, <1>2, <1>3, <2>3, <2>4, <2>5, <2>6, <2>7, PointsKept, HolderMoves DEF IdeInv
<1>6. QED
  BY <1>4, <1>5

\* The loop ends with another command, or with MutexRelease.
LEMMA NextCommandStep ==
    ASSUME IdeInv, NEW t \in Clients, NextCommand(t)
    PROVE  IdeInv'
<1>1. /\ AtStep(t, "next") /\ UNCHANGED <<expecting_intr, polls, disk, line>>
      /\ call' = [call EXCEPT ![t].left = @ - 1] /\ call[t].left >= 1
      /\ \/ Go(t, "expect") /\ UNCHANGED threadVars
         \/ Go(t, "return") /\ MutexReleaseHolder(t)
  <2>1. call[t].left > 1 \/ call[t].left = 1
    BY DEF NextCommand
  <2>2. call[t].left \in Nat
    BY DriverFacts
  <2>3. call[t].left >= 1
    BY <2>1, <2>2
  <2>4. QED
    BY <2>3 DEF NextCommand
<1>2. /\ t \in Threads /\ pc[t] = "own" /\ held[t] = ChannelLock /\ step[t] = "next"
      /\ disk.state = "idle" /\ Confirmed
  <2>1. t \in Threads /\ pc[t] = "own" /\ step[t] = "next"
    BY <1>1, IdeFacts DEF AtStep
  <2>2. held[t] = ChannelLock
    BY <2>1, IdeFacts DEF IdeInv, IdePoints, ClientAt
  <2>3. Reading(t) \/ Writing(t)
    BY <2>1, <2>2 DEF IdeInv, Channel, Sending, Panicking
  <2>4. disk.state = "idle" /\ Confirmed
    BY <2>1, <2>3 DEF Reading, Writing
  <2>5. QED
    BY <2>1, <2>2, <2>4
<1>3. /\ call' \in [Clients -> [dir : {"read", "write"}, left : 0 .. MaxCommands]]
      /\ \A u \in Clients \ {t} : call'[u] = call[u]
  BY <1>1, DriverFacts
<1>4. Quiet' <=> disk.state = "idle" /\ value'[DiskDone] = 0 /\ (expecting_intr => line = "low")
  BY <1>1 DEF Quiet, disk_done
<1>5. CASE Go(t, "expect") /\ UNCHANGED threadVars
  <2>1. ThreadInv' /\ UNCHANGED <<q, value, wait, pc, want, held, intr>>
    BY <1>5, StillThreads
  <2>2. /\ step' \in [Clients -> Steps] /\ step'[t] = "expect"
        /\ \A u \in Clients \ {t} : step'[u] = step[u]
    BY <1>5, DriverFacts DEF Go, Steps
  <2>3. DriverTypes'
    BY <1>1, <1>3, <2>2, DriverFacts DEF DriverTypes
  <2>4. ClientAt(t)'
    BY <1>2, <2>1, <2>2 DEF ClientAt
  <2>5. Sending(t)'
    BY <1>2, <1>4, <2>1, <2>2 DEF Sending, Confirmed, disk_done
  <2>6. QED
    BY <1>2, <1>3, <2>1, <2>2, <2>3, <2>4, <2>5, PointsKept, HolderMoves DEF IdeInv
<1>6. CASE Go(t, "return") /\ MutexReleaseHolder(t)
  <2>1. /\ ThreadInv' /\ UNCHANGED <<q, value, wait, want, held, intr>>
        /\ pc' = [pc EXCEPT ![t] = "inc"]
    BY <1>2, <1>6, MutexReleaseHolderStep DEF IdeInv, MutexReleaseHolder
  <2>2. /\ step' \in [Clients -> Steps] /\ step'[t] = "return" /\ pc'[t] = "inc"
        /\ \A u \in Clients \ {t} : step'[u] = step[u]
        /\ \A u \in Threads \ {t} : pc'[u] = pc[u]
    BY <1>2, <1>6, <2>1, DriverFacts, IdeFacts DEF Go, Steps
  <2>3. DriverTypes'
    BY <1>1, <1>3, <2>2, DriverFacts DEF DriverTypes
  <2>4. ClientAt(t)'
    BY <1>2, <2>1, <2>2 DEF ClientAt
  <2>5. Sending(t)'
    BY <1>2, <1>4, <2>1, <2>2 DEF Sending, Confirmed, disk_done
  <2>6. QED
    BY <1>2, <1>3, <2>1, <2>2, <2>3, <2>4, <2>5, PointsKept, HolderMoves DEF IdeInv
<1>7. QED
  BY <1>1, <1>5, <1>6

\* The call returns.
LEMMA ReturnStep ==
    ASSUME IdeInv, NEW t \in Clients, Return(t)
    PROVE  IdeInv'
<1>1. /\ AtStep(t, "return") /\ Go(t, "out") /\ t \in Threads
      /\ UNCHANGED <<expecting_intr, call, polls, disk, line>>
      /\ SyscallReturn(t) \/ UNCHANGED threadVars
  BY IdeFacts DEF Return
<1>2. pc[t] = "own" /\ held[t] = None
  BY <1>1, StandsAt
<1>3. /\ ThreadInv' /\ UNCHANGED <<q, value, wait, pc, want, held>>
      /\ \A u \in Threads \ {t} : intr'[u] = intr[u]
  <2>1. CASE SyscallReturn(t)
    BY <1>1, <2>1, IdeFacts, SyscallStep DEF IdeInv, SyscallReturn
  <2>2. CASE UNCHANGED threadVars
    BY <2>2, StillThreads
  <2>3. QED
    BY <1>1, <2>1, <2>2
<1>4. /\ step' \in [Clients -> Steps] /\ step'[t] = "out"
      /\ \A u \in Clients \ {t} : step'[u] = step[u]
  BY <1>1, DriverFacts DEF Go, Steps
<1>5. DriverTypes'
  BY <1>1, <1>4, DriverFacts DEF DriverTypes
<1>6. ClientAt(t)'
  BY <1>2, <1>3, <1>4 DEF ClientAt
<1>7. IdePoints'
  BY <1>1, <1>3, <1>4, <1>6, PointsKept
<1>8. Channel'
  <2>1. \A u \in Clients : held[u] = ChannelLock => u # t /\ u \in Threads
    BY <1>2, IdeFacts
  <2>2. QED
    BY <1>1, <1>3, <1>4, <2>1, ChannelKept
<1>9. QED
  BY <1>3, <1>5, <1>7, <1>8 DEF IdeInv

\* Inside MutexAcquire, MutexRelease and SemaphoreDec.
LEMMA PrimitiveStep ==
    ASSUME IdeInv, NEW t \in Clients, InPrimitive(t), UNCHANGED ideVars
    PROVE  IdeInv'
<1>1. /\ UNCHANGED <<expecting_intr, step, call, polls, disk, line>>
      /\ step' \in [Clients -> Steps] /\ t \in Threads /\ DriverTypes'
      /\ ClientAt(t)
  BY IdeFacts, DriverFacts DEF ideVars, DriverTypes, IdeInv, IdePoints
<1>2. CASE SemaphoreDecAgain(t)
  <2>1. /\ pc[t] = "dec"
        /\ Testing(t, want[t]) /\ TakeOrWait(t, want[t]) /\ UNCHANGED <<holder, intr>>
    BY <1>1, <1>2, SemaphoreDecAgainTesting DEF IdeInv, SemaphoreDecAgain
  <2>2. CASE want[t] = ChannelLock /\ step[t] = "expect"
    BY <1>1, <2>1, <2>2, ChannelDecStep
  <2>3. CASE want[t] = DiskDone /\ held[t] = ChannelLock /\ step[t] \in {"poll", "next"}
    <3>1. Reading(t) \/ Writing(t)
      BY <2>3 DEF IdeInv, Channel, Sending, Panicking
    <3>2. \/ call[t].dir = "read" /\ ReadComing /\ step[t] = "poll"
          \/ call[t].dir = "write" /\ WriteComing /\ step[t] = "next"
      BY <1>1, <2>1, <2>3, <3>1 DEF Reading, Writing, ClientAt
    <3>3. QED
      BY <1>1, <2>1, <2>3, <3>2, DiskDecStep
  <2>4. QED
    BY <1>1, <2>1, <2>2, <2>3 DEF ClientAt
<1>3. CASE MutexAcquireHolder(t)
  <2>1. /\ ThreadInv' /\ UNCHANGED <<q, value, wait, want, held, intr>>
        /\ pc[t] = "dec2" /\ pc' = [pc EXCEPT ![t] = "own"]
    BY <1>1, <1>3, MutexAcquireHolderStep DEF IdeInv, MutexAcquireHolder
  <2>2. step[t] = "expect" /\ held[t] = ChannelLock
    BY <1>1, <2>1 DEF ClientAt
  <2>3. pc'[t] = "own" /\ \A u \in Threads \ {t} : pc'[u] = pc[u]
    BY <1>1, <2>1, IdeFacts
  <2>4. IdePoints'
    BY <1>1, <2>1, <2>2, <2>3, PointsKept DEF ClientAt
  <2>5. Channel'
    BY <1>1, <2>1, <2>2, <2>3, IdeFacts, ChannelKept
  <2>6. QED
    BY <1>1, <2>1, <2>4, <2>5 DEF IdeInv
<1>4. CASE MutexReleaseInc(t)
  <2>1. /\ ThreadInv' /\ UNCHANGED <<holder, want, intr>>
        /\ pc[t] = "inc" /\ pc' = [pc EXCEPT ![t] = "own"]
        /\ held' = [held EXCEPT ![t] = None] /\ SemaphoreInc(held[t])
    BY <1>1, <1>4, MutexReleaseIncStep DEF IdeInv, MutexReleaseInc
  <2>2. step[t] = "return" /\ held[t] = ChannelLock
    BY <1>1, <2>1 DEF ClientAt
  <2>3. /\ pc'[t] = "own" /\ held'[t] = None
        /\ \A u \in Threads \ {t} : pc'[u] = pc[u] /\ held'[u] = held[u]
    BY <1>1, <2>1, IdeFacts
  <2>4. IdePoints'
    BY <1>1, <2>1, <2>2, <2>3, PointsKept DEF ClientAt
  <2>5. value'[DiskDone] = value[DiskDone]
    BY <2>1, <2>2, IdeFacts DEF SemaphoreInc
  <2>6. Quiet
    BY <2>2 DEF IdeInv, Channel, Sending, Reading, Writing, Panicking
  <2>7. Quiet'
    BY <1>1, <2>5, <2>6 DEF Quiet, disk_done
  <2>8. \A u \in Clients : held'[u] # ChannelLock
    BY <2>2, <2>3, IdeFacts, OneHolder
  <2>9. QED
    BY <1>1, <2>1, <2>4, <2>7, <2>8 DEF IdeInv, Channel
<1>5. QED
  BY <1>2, <1>3, <1>4 DEF InPrimitive

-----------------------------------------------------------------------------

\* The disk gets on with the holder's command.
LEMMA DiskStep ==
    ASSUME IdeInv, DiskReady \/ DiskWritten
    PROVE  IdeInv'
<1>1. /\ UNCHANGED <<threadVars, expecting_intr, step, call, polls>>
      /\ \/ /\ disk.state = "busy" /\ disk' = [disk EXCEPT !.state = "ready"]
            /\ line' = IF disk.dir = "read" THEN Raise ELSE line
         \/ /\ disk.state = "flushing" /\ disk' = [disk EXCEPT !.state = "idle"]
            /\ line' = Raise
  BY DEF DiskReady, DiskWritten
<1>2. ThreadInv' /\ UNCHANGED <<q, value, wait, pc, want, held, intr>>
  BY <1>1, StillThreads
<1>3. /\ disk'.dir = disk.dir /\ disk'.left = disk.left /\ disk'.total = disk.total
      /\ disk'.state = IF disk.state = "busy" THEN "ready" ELSE "idle"
      /\ line' \in {"low", "pending", "taken"} /\ (line = "low" => Raise = "pending")
  BY <1>1, DriverFacts DEF Raise
<1>4. DriverTypes'
  BY <1>1, <1>3, DriverFacts DEF DriverTypes
<1>5. IdePoints'
  BY <1>1, <1>2 DEF IdeInv, IdePoints, ClientAt
<1>6. ASSUME NEW t \in Clients, held[t] = ChannelLock
      PROVE  Reading(t)' \/ Writing(t)' \/ Panicking(t)'
  <2>1. Reading(t) \/ Writing(t) \/ Panicking(t)
    BY <1>1, <1>6 DEF IdeInv, Channel, Sending, Quiet
  <2>2. Panicking(t) => Panicking(t)'
    BY <1>1, <1>2 DEF Panicking
  <2>3. ReadComing => ReadComing'
    BY <1>1, <1>2, <1>3 DEF ReadComing, Coming, disk_done
  <2>4. WriteComing => WriteComing'
    BY <1>1, <1>2, <1>3 DEF WriteComing, Coming, disk_done
  <2>5. Reading(t) => Reading(t)'
    BY <1>1, <1>2, <2>3 DEF Reading
  <2>6. Writing(t) => Writing(t)'
    BY <1>1, <1>2, <1>3, <2>4 DEF Writing, disk_done
  <2>7. QED
    BY <2>1, <2>2, <2>5, <2>6
<1>7. Channel'
  BY <1>1, <1>2, <1>6 DEF Channel, IdeInv, Quiet
<1>8. QED
  BY <1>2, <1>4, <1>5, <1>7 DEF IdeInv

\* Only the holder of the channel sleeps in disk_done.
LEMMA OneSleeper ==
    ASSUME IdeInv
    PROVE  /\ Len(wait[DiskDone]) \in {0, 1}
           /\ wait[DiskDone] # << >> =>
                 \E t \in Clients : held[t] = ChannelLock /\ pc[t] = "dec"
<1> DEFINE w == wait[DiskDone]
<1>1. w \in Seq(Threads) /\ Len(w) \in Nat
  BY IdeFacts
<1>2. ASSUME NEW i \in 1 .. Len(w)
      PROVE  /\ w[i] \in Clients /\ held[w[i]] = ChannelLock /\ pc[w[i]] = "dec"
             /\ \A j \in 1 .. Len(w) : w[j] = w[i] => j = i
  <2>1. /\ w[i] \in Threads /\ pc[w[i]] = "dec" /\ want[w[i]] = DiskDone
        /\ \A j \in 1 .. Len(w) : w[j] = w[i] => j = i
    BY <1>1, IdeFacts DEF IdeInv, ThreadInv, WaitersAsleep
  <2>2. QED
    BY <2>1, IdeFacts DEF IdeInv, IdePoints, ClientAt
<1> HIDE DEF w
<1>3. Len(w) < 2
  <2> SUFFICES ASSUME Len(w) >= 2 PROVE FALSE
    BY <1>1
  <2>1. 1 \in 1 .. Len(w) /\ 2 \in 1 .. Len(w)
    BY <1>1
  <2>2. w[1] = w[2]
    BY <1>2, <2>1, IdeFacts, OneHolder
  <2>3. QED
    BY <1>2, <2>1, <2>2
<1>4. w # << >> => 1 \in 1 .. Len(w)
  BY <1>1
<1>5. Len(w) \in {0, 1} /\ (w # << >> => \E t \in Clients : held[t] = ChannelLock /\ pc[t] = "dec")
  <2>1. Len(w) \in {0, 1}
    BY <1>1, <1>3
  <2>2. ASSUME w # << >> PROVE \E t \in Clients : held[t] = ChannelLock /\ pc[t] = "dec"
    <3>1. w[1] \in Clients /\ held[w[1]] = ChannelLock /\ pc[w[1]] = "dec"
      BY <1>2, <1>4, <2>2
    <3>2. QED
      BY <3>1
  <2>3. QED
    BY <2>1, <2>2
<1>6. QED
  BY <1>5 DEF w

\* An interrupt: the one the holder waits for, or one nobody expects.
LEMMA HandlerStep ==
    ASSUME IdeInv, disk_itr_handler
    PROVE  IdeInv'
<1>1. /\ intr[q.cur] /\ line = "pending" /\ pc' = AfterInterrupt
      /\ UNCHANGED <<holder, want, held, intr, step, call, polls, disk>>
      /\ \/ /\ expecting_intr /\ expecting_intr' = FALSE /\ line' = "low"
            /\ SemaphoreInc(DiskDone)
         \/ /\ ~expecting_intr /\ line' = "taken"
            /\ UNCHANGED <<expecting_intr, q, value, wait>>
  BY DEF disk_itr_handler, InterruptsOn, Expected, ResetFlag
<1>2. \A u \in Threads \ {Idle} : pc'[u] = pc[u]
  BY <1>1, IdeFacts DEF AfterInterrupt
<1>3. DriverTypes'
  BY <1>1, DriverFacts DEF DriverTypes
<1>4. IdePoints'
  <2>1. \A u \in Clients : ClientAt(u)'
    BY <1>1, <1>2, IdeFacts DEF IdeInv, IdePoints, ClientAt
  <2>2. \A u \in Threads \ Clients : pc'[u] \in {"own", "loop", "hlt"}
    BY <1>1, IdeFacts DEF AfterInterrupt, IdeInv, IdePoints
  <2>3. QED
    BY <1>1, <2>1, <2>2 DEF IdeInv, IdePoints
<1>5. CASE ~expecting_intr
  <2>1. ThreadInv'
    <3>1. pc' \in [Threads -> {"own", "dec", "dec2", "inc", "loop", "hlt"}]
          /\ pc'[Idle] \in {"own", "loop", "hlt"}
      BY <1>1, IdeFacts, ThreadsAssumption DEF AfterInterrupt
    <3>2. QED
      BY <1>1, <1>2, <1>5, <3>1, IdeFacts, SameQueuesStep, QuietStep DEF IdeInv
  <2>2. /\ UNCHANGED <<q, value, wait, expecting_intr>> /\ disk_done' = disk_done
        /\ line' = "taken"
    BY <1>1, <1>5 DEF disk_done
  <2>3. ASSUME NEW t \in Clients, held[t] = ChannelLock
        PROVE  Sending(t)' \/ Reading(t)' \/ Writing(t)' \/ Panicking(t)'
    <3>1. pc'[t] = pc[t]
      BY <1>2, IdeFacts
    <3>2. Sending(t) => Sending(t)'
      BY <1>1, <1>5, <2>2 DEF Sending, Quiet
    <3>3. ReadComing => ReadComing'
      BY <1>1, <1>5, <2>2 DEF ReadComing, Coming
    <3>4. WriteComing => WriteComing'
      BY <1>1, <1>5, <2>2 DEF WriteComing, Coming
    <3>5. Reading(t) => Reading(t)'
      BY <1>1, <2>2, <3>1, <3>3 DEF Reading, Confirmed
    <3>6. Writing(t) => Writing(t)'
      BY <1>1, <1>5, <2>2, <3>1, <3>4 DEF Writing, Confirmed
    <3>7. ~Panicking(t)
      BY <1>1 DEF Panicking
    <3>8. QED
      BY <2>3, <3>2, <3>5, <3>6, <3>7 DEF IdeInv, Channel
  <2>4. Channel'
    BY <1>1, <1>5, <2>2, <2>3 DEF IdeInv, Channel, Quiet
  <2>5. QED
    BY <1>3, <1>4, <2>1, <2>4 DEF IdeInv
<1>6. CASE expecting_intr
  <2>1. /\ expecting_intr' = FALSE /\ line' = "low" /\ SemaphoreInc(DiskDone)
    BY <1>1, <1>6
  <2>2. ThreadInv'
    BY <1>1, <2>1, IdeFacts, DeviceInterruptStep DEF IdeInv
  <2>3. disk_done' = disk_done + 1 /\ wait'[DiskDone] = << >>
    <3>1. disk_done' = disk_done + 1
      BY <2>1, IdeFacts DEF SemaphoreInc, disk_done
    <3>2. CASE wait[DiskDone] = << >>
      BY <2>1, <3>1, <3>2 DEF SemaphoreInc
    <3>3. CASE wait[DiskDone] # << >>
      <4>1. wait[DiskDone] \in Seq(Threads) /\ Len(wait[DiskDone]) = 1
        BY <3>3, IdeFacts, OneSleeper
      <4>2. Tail(wait[DiskDone]) = << >>
        <5>1. PICK w : w = wait[DiskDone]
          OBVIOUS
        <5>2. Tail(w) \in Seq(Threads) /\ Len(Tail(w)) = 0
          BY <3>3, <4>1, <5>1
        <5>3. QED
          BY <5>1, <5>2, EmptySeq
      <4>3. QED
        BY <2>1, <3>1, <3>3, <4>2, IdeFacts DEF SemaphoreInc
    <3>4. QED
      BY <3>2, <3>3
  <2>4. ASSUME NEW t \in Clients, held[t] = ChannelLock
        PROVE  Reading(t)' \/ Writing(t)'
    <3>1. pc'[t] = pc[t]
      BY <1>2, IdeFacts
    <3>2. ~Sending(t) /\ ~Panicking(t)
      BY <1>1, <1>6 DEF Sending, Quiet, Panicking
    <3>3. ReadComing => ReadComing'
      BY <1>1, <1>6, <2>1, <2>3 DEF ReadComing, Coming
    <3>4. WriteComing => WriteComing'
      BY <1>1, <1>6, <2>1, <2>3 DEF WriteComing, Coming
    <3>5. Reading(t) => Reading(t)'
      BY <1>1, <1>6, <3>1, <3>3 DEF Reading, Confirmed
    <3>6. Writing(t) => Writing(t)'
      BY <1>1, <1>6, <2>1, <2>3, <3>1, <3>4 DEF Writing, Confirmed
    <3>7. QED
      BY <2>4, <3>2, <3>5, <3>6 DEF IdeInv, Channel
  <2>5. Channel'
    BY <1>1, <1>6, <2>4 DEF IdeInv, Channel, Quiet
  <2>6. QED
    BY <1>3, <1>4, <2>2, <2>5 DEF IdeInv
<1>7. QED
  BY <1>5, <1>6

\* The idle loop and the timer disturb nothing of it: a thread with interrupts
\* off keeps the processor.
LEMMA IdeBackground ==
    ASSUME IdeInv, IdleLoop \/ Timer, UNCHANGED ideVars
    PROVE  IdeInv'
<1>1. ThreadInv'
  BY IdleLoopStep, TimerInterruptStep DEF IdeInv
<1>2. /\ UNCHANGED <<value, wait, want, held, intr>>
      /\ UNCHANGED <<expecting_intr, step, call, polls, disk, line>>
  BY DEF IdleLoop, Timer, ideVars
<1>3. /\ \A u \in Threads \ {Idle} : pc'[u] = pc[u]
      /\ \A u \in Threads \ Clients : pc'[u] \in {"own", "loop", "hlt"}
  <2>1. \A u \in Threads \ Clients : pc[u] \in {"own", "loop", "hlt"}
    BY DEF IdeInv, IdePoints
  <2>2. CASE IdleLoop
    <3>1. pc' = [pc EXCEPT ![Idle] = "hlt"]
      BY <2>2 DEF IdleLoop
    <3>2. QED
      BY <2>1, <3>1, IdeFacts
  <2>3. CASE Timer
    <3>1. \A u \in Threads : pc'[u] = IF u = q.cur /\ pc[u] = "hlt" THEN "loop" ELSE pc[u]
      BY <2>3, IdeFacts DEF Timer, AfterInterrupt
    <3>2. \A u \in Threads : pc[u] = "hlt" => u = Idle
      BY IdeFacts
    <3>3. QED
      BY <2>1, <3>1, <3>2
  <2>4. QED
    BY <2>2, <2>3
<1>4. DriverTypes'
  BY <1>2, DriverFacts DEF DriverTypes
<1>5. IdePoints'
  <2>1. \A u \in Clients : ClientAt(u)'
    BY <1>2, <1>3, IdeFacts DEF IdeInv, IdePoints, ClientAt
  <2>2. QED
    BY <1>2, <1>3, <2>1 DEF IdeInv, IdePoints
<1>6. Channel'
  <2>1. \A u \in Clients : ~(u = q.cur /\ ~intr[u])
    BY IdeFacts DEF IdleLoop, Timer, InterruptsOn
  <2>2. QED
    BY <1>2, <1>3, <2>1, IdeFacts, ChannelKept
<1>7. QED
  BY <1>1, <1>4, <1>5, <1>6 DEF IdeInv

LEMMA IdeStill ==
    ASSUME IdeInv, UNCHANGED allVars
    PROVE  IdeInv'
<1>1. UNCHANGED threadVars /\ UNCHANGED <<expecting_intr, step, call, polls, disk, line>>
  BY DEF allVars, ideVars
<1>2. ThreadInv' /\ UNCHANGED <<q, value, wait, holder, pc, want, held, intr>>
  BY <1>1, StillThreads
<1>3. DriverTypes'
  BY <1>1, DriverFacts DEF DriverTypes
<1>4. IdePoints'
  BY <1>1, <1>2 DEF IdeInv, IdePoints, ClientAt
<1>5. Channel'
  BY <1>1, <1>2, ChannelKept
<1>6. QED
  BY <1>2, <1>3, <1>4, <1>5 DEF IdeInv

LEMMA IdeNextInv == IdeInv /\ [IdeNext]_allVars => IdeInv'
<1> SUFFICES ASSUME IdeInv, [IdeNext]_allVars PROVE IdeInv'
  OBVIOUS
<1>1. CASE \E t \in Clients : ClientStep(t) \/ (Undisturbed /\ Call(t)) \/ Panic(t)
  <2>1. PICK t \in Clients : ClientStep(t) \/ Call(t) \/ Panic(t)
    BY <1>1
  <2>2. CASE Undisturbed /\ InDriver(t)
    BY <2>2, AcquireStep, CmdOutExpectStep, CmdOutStep, ConfirmStep, PollStep,
       MoveStep, NextCommandStep, ReturnStep DEF InDriver
  <2>3. QED
    BY <2>1, <2>2, CallStep, PrimitiveStep, IdeStill DEF ClientStep, Panic
<1>2. CASE DiskReady \/ DiskWritten
  BY <1>2, DiskStep
<1>3. CASE disk_itr_handler
  BY <1>3, HandlerStep
<1>4. CASE (IdleLoop \/ Timer) /\ UNCHANGED ideVars
  BY <1>4, IdeBackground
<1>5. CASE UNCHANGED allVars
  BY <1>5, IdeStill
<1>6. QED
  BY <1>1, <1>2, <1>3, <1>4, <1>5 DEF IdeNext

LEMMA IdeInitInv == IdeInit => IdeInv
<1> SUFFICES ASSUME IdeInit PROVE IdeInv
  OBVIOUS
<1> USE IdeAssumption, ThreadAssumption, ThreadsAssumption
<1>1. ThreadInv
  BY InitIndInv DEF IdeInit, IndInv
<1>2. DriverTypes
  BY DEF IdeInit, DriverTypes, Steps
<1>3. /\ \A t \in Threads : held[t] = None /\ pc[t] = IF t = Idle THEN "loop" ELSE "own"
      /\ \A t \in Clients : step[t] = "out"
  BY DEF IdeInit, Init
<1>4. IdePoints
  BY <1>3 DEF IdePoints, ClientAt
<1>5. value[DiskDone] = 0 /\ ChannelLock # None
  BY DEF IdeInit, Init, Sems
<1>6. Channel
  BY <1>3, <1>5 DEF Channel, Quiet, disk_done, IdeInit
<1>7. QED
  BY <1>1, <1>2, <1>4, <1>6 DEF IdeInv

\* The inductive invariant holds throughout.
THEOREM IdeInvHolds == IdeSpec => []IdeInv
BY IdeInitInv, IdeNextInv, PTL DEF IdeSpec

\* CmdOut never sends a command to a disk that still works on another.
THEOREM OneAtATime == IdeSpec => []OneCommandAtATime
<1>1. IdeInv => OneCommandAtATime
  <2> SUFFICES ASSUME IdeInv, NEW t \in Clients, AtStep(t, "command")
               PROVE  disk.state = "idle"
    BY DEF OneCommandAtATime
  <2>1. QED
    BY StandsAt DEF Sending, Reading, Writing, Panicking
<1>2. QED
  BY <1>1, IdeInvHolds, PTL

\* ide_read moves data that is there, and ide_write goes on when its data is
\* written: SemaphoreDec(disk_done) answers for the thread's own command.
THEOREM ConfirmationIsDone == IdeSpec => []ConfirmedIsDone
<1>1. IdeInv => ConfirmedIsDone
  <2> SUFFICES ASSUME IdeInv, NEW t \in Clients
               PROVE  /\ AtStep(t, "poll") /\ call[t].dir = "read" => disk.state = "ready"
                      /\ AtStep(t, "next") => disk.state = "idle"
    BY DEF ConfirmedIsDone
  <2>1. ASSUME AtStep(t, "poll"), call[t].dir = "read" PROVE disk.state = "ready"
    BY <2>1, StandsAt DEF Sending, Reading, Writing, Panicking
  <2>2. ASSUME AtStep(t, "next") PROVE disk.state = "idle"
    BY <2>2, StandsAt DEF Sending, Reading, Writing, Panicking
  <2>3. QED
    BY <2>1, <2>2
<1>2. QED
  BY <1>1, IdeInvHolds, PTL

\* The semaphore of the channel is at 0 again when its mutex is free.
THEOREM NothingIsLeftOver == IdeSpec => []NothingLeftOver
<1>1. IdeInv => NothingLeftOver
  BY DEF IdeInv, Channel, Quiet, NothingLeftOver, disk_done
<1>2. QED
  BY <1>1, IdeInvHolds, PTL

\* A thread asleep in disk_done has its interrupt ahead of it.
THEOREM InterruptWillCome == IdeSpec => []InterruptToCome
<1>1. IdeInv => InterruptToCome
  <2> SUFFICES ASSUME IdeInv, wait[DiskDone] # << >>
               PROVE  expecting_intr /\ (Busy \/ line = "pending")
    BY DEF InterruptToCome
  <2>1. PICK t \in Clients : held[t] = ChannelLock /\ pc[t] = "dec"
    BY OneSleeper
  <2>2. Reading(t) \/ Writing(t)
    <3>1. ClientAt(t)
      BY DEF IdeInv, IdePoints
    <3>2. step[t] \in {"poll", "next"}
      BY <2>1, <3>1, IdeFacts DEF ClientAt
    <3>3. ~Sending(t) /\ ~Panicking(t)
      BY <3>2 DEF Sending, Panicking
    <3>4. QED
      BY <2>1, <3>3 DEF IdeInv, Channel
  <2>3. ReadComing \/ WriteComing
    BY <2>1, <2>2 DEF Reading, Writing, IdeInv, IdePoints, ClientAt
  <2>4. QED
    BY <2>3 DEF ReadComing, WriteComing, Coming, Busy
<1>2. QED
  BY <1>1, IdeInvHolds, PTL
=============================================================================
