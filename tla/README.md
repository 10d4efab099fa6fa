# MMZZOS: models and proofs

MMZZOS is a small 32-bit x86 operating system for one processor: kernel
threads, processes with `fork`, `exec`, `wait` and `exit`, semaphores and
mutexes, a timer, a keyboard, an IDE disk driver, a file system, pipes and a
shell. This directory holds TLA+ models of its concurrent core, its memory, its
files and its shell, the TLC configurations that check them on small instances,
and proofs, checked by TLAPS, of what holds for every instance.

All paths below are relative to `src/`.

## 1. The system and its parts

| Part | State it keeps | Operations | Modules |
|---|---|---|---|
| Threads and scheduling (`kernel/thread.c`, `device/timer.c`) | status, time slice and target time of each PCB; ready list, block list, delay list and heap | `schedule`, `ThreadBlock`, `ThreadUnBlock`, `Thread_Yield`, `syscall_sleep`, `timer_interrupt`, the idle task | `ThreadQueues`, `Thread` |
| Semaphores, mutexes (`kernel/thread.c`) | value and queue of waiters; holder | `SemaphoreDec/Inc`, `MutexAcquire/Release` | `Thread`, abstract `Lock` |
| Delay heap (`lib/kernel/minHeap.c`) | an array of sleepers ordered by target time | insert, pop | `MinHeap`, abstract `PriorityQueue` |
| Blocking ring buffer (`lib/kernel/ioqueue.c`) | buffer, head, tail, one mutex, one sleeping producer, one sleeping consumer | `ioQueuePut`, `ioQueueGet` | `IoQueue`, abstract `Fifo` |
| Keyboard (`device/keyboard.c`) | prefix, Shift, Caps Lock and Ctrl; the ring buffer of keys, two bytes a key | interrupt handler, `KeyBoardRead` | `Keyboard` |
| Pipes (`lib/user/syscallFun.c`) | a ring buffer shared through the file table, counted in `fd_pos` | `pipe`, `pipe_read`, `pipe_write`, `pipe_close` | `Pipe`, `Files` |
| Processes (`userprog/`) | father, exit status, page directory, pages, descriptors | `fork`, `wait`, `exec`, `exit`, adoption by init | `Process`, abstract `Family`; `Memory`, `Files` |
| Disk driver (`device/ide.c`) | channel lock, `expecting_intr`, `disk_done` | read, write, interrupt handler | `Ide` |
| Memory (`kernel/memory.c`, `lib/kernel/bitmap.c`) | pools of physical pages, bitmaps of virtual ones, page tables, arenas | page allocation, `syscall_malloc/free`, and what `fork`, `exec`, `exit` do to a space | `Bitmap`, `Memory` |
| File system (`fs/`) | bitmaps of inodes and sectors, inode table, blocks, on the disk and in memory | format, mount, search of a path, `mkdir`, `rmdir`, `unlink`, create, write, `getcwd`, `readdir` | `Bitmap`, `FileSystem` |
| Files in memory (`fs/file.c`, `fs/inode.c`) | global file table, open inodes with count and `write_deny` | `file_create`, `file_open`, `InodeOpen`, `InodeClose` | `Files` |
| System calls on files (`lib/user/syscallFun.c`) | descriptors and working directory of each process | `open`, `close`, `fd_redirect`, `pipe`, `chdir`, `unlink` | `Files`, `FileSystem` |
| Interrupt entry (`kernel/idt_table.asm`, `kernel/interrupt.c`) | EFLAGS.IF | gates, `itr_exit` | in `Thread` |
| Shell and programs (`shell/`, `bin/`) | the place in a command line, the redirected descriptors | redirections, pipes, own commands, programs | `Shell` |
| Boot code, libraries, console | | | not modelled |

### How the parts interact

*One processor.* Nothing runs in parallel; what interleaves is threads that
block, threads the timer preempts, and interrupt handlers, which run on the
stack of whichever thread they interrupt.

*Interrupts off is the only lock at the bottom.* The primitives of
`thread.c` turn interrupts off, and restore them as they were; each such region
is one step of the models. `int 0x80` is an interrupt gate, so a system call
runs with interrupts off from end to end and loses the processor only where it
blocks. Kernel threads run with interrupts on and can be preempted between two
regions, for instance between the semaphore and the holder of a mutex.

*Every list goes through one link.* A thread has one `tagS`, which puts it in
the ready list, the block list or the delay list; `ListRemove` does not look at
which. Every caller must therefore know where the thread is.

*Everything that blocks* ends in `ThreadBlock` and is woken by `ThreadUnBlock`:
semaphores by `SemaphoreInc`, the slots of a ring buffer by the other side,
a waiting father by `syscall_exit`. Woken threads go to the *front* of the
ready list with what is left of their slice; preempted ones and sleepers to its
back with a fresh one.

*System calls on files overlap where they wait for the disk.* Everything else
in them runs with interrupts off; but each sector read or written is a sleep in
`disk_done`, and nothing in `fs/` or `syscallFun.c` locks a directory, a bitmap
or the file table. Calls on memory never wait, so each is one step.

*Open files are counted in three places*: the descriptors of each process, the
`fd_pos` of a pipe in the global file table, and the open count of an inode.
`fork`, `exit`, `exec`, `close` and the redirections of the shell must move all
three together.

### What is hard here

The hazards, each at its line, are in `PROJECT.json`. The main ones: a wake-up
without a hand-over (the woken thread must test again); a ring buffer that is
not tested again after its mutex; interrupt handlers that can block; overtaking
in the ready list; sleepers that are looked at only when somebody calls
`schedule()`; the exit of a child against the wait of its father; calls on files
that overlap at the disk; counts of what is open through `fork`, redirection and
pipes; calls that run out of pages, blocks, inodes or descriptors half-way;
bitmaps that must be the same on the disk and in memory when the machine goes
off; a modifier key that sticks.

## 2. The modules and the code

**`ThreadQueues`** is the queues of `thread.c` as one record (`cur`, `status`,
`ready`, `blocked`, `delayed`, `ticks`, `left`) and one operator per function
of the code: `EnqueueCurrent`, `WakeIdle`, `ProcessDelayThread` and
`SwitchToFront` are the four parts of `schedule()`, and `ThreadBlock`,
`Thread_Yield`, `syscall_sleep` and `timer_interrupt` are their callers.
Operators that may end in several states (two sleepers with the same target
time) return the set of them. A handler that makes several calls is the
composition of their operators, so it is one action. The order of the block
list is never read, so it is a set; time is kept relative to each sleeper
(`left`), so that nothing counts without bound.

**`Thread`** is the threads that run on those queues: semaphores, mutexes,
system calls, the timer, devices and the idle task. `pc` says between which two
regions with interrupts off a thread stands. **`Lock`** is what a mutex
promises; `ImplementsLock` is the refinement.

**`MinHeap`** is the heap of sleepers as a state machine whose steps are the
turns of its loops, over an array of target times; **`PriorityQueue`** is what
it implements. In `Thread` the heap is the set `delayed`; because of the first
finding below, `Thread` is used with at most two sleepers.

**`IoQueue`** adds the ring buffer to `Thread`: it EXTENDS it, and its actions
are built from `ThreadBlock`, `SemaphoreInc` and the mutex of `Thread`.
**`Keyboard`** and **`Pipe`** are its two users, with the states of their own
code; **`Fifo`** is what the ring buffer implements. `Keyboard` starts at the
scan code: `Strike` is the keyboard, which sends prefixes and pretended shifts
and repeats held keys; `Decode`, `KeyState` and `KeyBoardFunction` are the parts
of the handler before the queue; `GetHigh`, `GetLow` and `GetReturn` are the
loop of `KeyBoardRead`, which goes round again for a key that is no character.
The letters are "r", which the right arrow also sends, and "l", for one with a
control code.

**`Process`** is `fork`, `wait` and `exit` over `ThreadQueues`. **`Family`** is
the tree of processes they implement. A call of either is one step: only the
`ThreadBlock` in `wait` and the one at the end of `exit` give up the processor.

**`Ide`** adds the disk channel to `Thread` in the same way as `IoQueue`: `step`
is the statement of `ide_read` or `ide_write` a thread stands at, `CmdOut` is
split at its two statements, since a kernel thread can be interrupted between
them, and `disk` and `line` are the disk and its interrupt line. The disk is
not in the repository; it does what the driver takes for granted, and no more:
see *What is not modelled*.

**`Bitmap`** is `BitMapAllocate`, as the first run of free bits.

**`Memory`** is the physical pools, the virtual bitmap, page directory and page
tables of the kernel and of each process, and the arenas of `malloc`. Its
actions are whole calls: `fork`, `exec`'s load of a segment, `exit`, the reaping
of a process, `malloc` and `free`, small and large. `mem.err` says how a call
ended: `nomem` (it gave up and took back what the code takes back), `fault` (the
system stopped at an address that is not mapped), `assert`. What the code
forgets is there as it is: a virtual page that stays taken when the pool is
empty, a last page of the bitmap of a process that exit leaves behind.
`GetOnePage` is one page for one address; `GetPages` is the loops of
`malloc_page`, `fork`, `exec` and the boot over it, the lowest page first until
one is missing; `MapPages` is `malloc_page` once its addresses are found, with
its roll-back `GiveUp`.

**`FileSystem`** is the partition, on the disk and in memory, under whole calls,
one at a time: format, mount, `mkdir`, `rmdir`, create, write, `unlink`, with
`Restart` between any two of them, which mounts what is on the disk. The sectors
of a call are written in the order of the code, so that a call refused half-way
leaves what it had written. Paths are looked up from `/` and from the working
directory, as `SearchFile` and the shell's `GetAbsolutePath` do. What is read of
a directory differs from function to function, and so it does in the model: all
read the whole entries of each block (`Listing`, 170 of them in the code), but
`CreateDirEntry` also tries the place across the end of the block, and
`DirGetIndexName` reads one sector of each block and of the indirect table
(`FirstSectors`). Whether the place across the end looks free depends on what
lies behind the buffer: in a `struct Dir` that has just been allocated it is
blank; behind `rootDir` it may be either.

**`Files`** is what is open: descriptors, global file table, inodes in memory and
working directories, with the calls that wait for the disk cut where they wait
(`call` is where a process waits and what it has read before). **`Shell`**
EXTENDS it with the program of `shell.c`, `exec` and the programs: `at` is the
place of each process. A child whose command does not exist comes back from
`CMD_Exec` and is a second shell, as in the code.

Where the code does harm, the models say so by name in `harm` (or `mem.err`)
and stop there; the properties hold of everything before. The list is in
section 3.

`MCThread`, `MCKeyboard`, `MCPipe`, `MCProcess`, `MCIde`, `MCMemory`,
`MCFileSystem` and `MCShell` name the model values for TLC;
`ThreadQueuesProofs`, `ThreadProofs`, `ProcessProofs`, `IoQueueProofs`,
`IdeProofs`, `MemoryProofs`, `MinHeapProofs` and `ShellProofs` hold the proofs,
each about the module it is named after, `IoQueueProofs` also about `Pipe` and
`Keyboard`, `ShellProofs` also about `Files` (section 4). Operators marked
`Wrong:` are plausible mistakes in the definition that follows them; the
properties are checked to notice each one.

## 3. The runs

| Run | Instance | Shows |
|---|---|---|
| `thread` | idle, a kernel thread, two processes; one mutex, one event; sleeps of up to 2 ticks, up to 2 sleepers | no thread is lost or linked twice, wake-ups are kept, the mutex excludes, sleepers wake in order and at most a slice late |
| `thread_live` | the same without events, one sleeper | sleepers run again, the mutex is a lock with progress |
| `min_heap` | six nodes | heap order, priority queue, short pops return |
| `min_heap_pop_returns` | the same | **violated**: a pop need not return |
| `keyboard` | one reader, one kernel thread; Shift and the right arrow; a ring of length 5, room for two keys | the ring holds whole keys and readers get whole keys, also when keys are dropped; a modifier is held when its key is; sleepers in the queue are asleep; keys are read |
| `keyboard_handler_returns` | one letter; a ring of length 4, room for three bytes | **violated**: the handler blocks for good |
| `pipe` | one writer, one reader, room for two bytes | FIFO, nobody is stranded, a reader never blocks, a blocked writer goes on |
| `ide` | a kernel thread and a process; calls of up to 2 commands of up to 2 sectors | each interrupt waited for is the right one, one command at a time, nothing left over in `disk_done`, calls end |
| `process` | init and three processes | no exit is missed, fathers are there, no ready process starves, the tree of processes |
| `memory` | init and a process; 9 kernel and 3 user pages, page tables of 2 pages, one size of block, two to a page | no page is lost or given to two, malloc's books, exit leaves one page and nothing else does |
| `filesystem` | three names, 4 inodes, 5 blocks of two sectors, inodes of one direct and two indirect blocks, 4 entries of a directory in a block and 3 in its first sector | the tree, the blocks and the bitmaps on the disk stay right through failures and restarts; paths, `..` and `getcwd` agree where `getcwd` can see |
| `shell` | a shell and two more processes, two files, one directory, two slots of the file table, 4 descriptors | descriptors lead to what is open, counts are right, up to the harms below |

*Bounds.* `MaxSleep`, `MaxSleepers`, `MaxEvents` and, in the other modules,
the bounds named as such, stand in guards. Two processes are enough for a
waiter and an overtaker of the same mutex, with a third thread to preempt
them; two sleepers for an order; two pending events for a value above one with
waiters. In `process` three processes make a father with two children as
well as a grandfather, and two that wake in turn, by their devices or one by the
exit of the other, with a third that is ready and behind them: what
`StarvationFree` is about. It has a slice of 1, so that there is a rest of a
slice for a woken thread to be left with; pids are not used again, as `PidRecycle` does nothing.
`MaxSleepers = 2` is also what the code needs: `ShortPopReturns`
shows such pops return. Elsewhere the slice is 1, as for every thread of the
system.
Six nodes fill three levels of the heap.

In `keyboard` a ring of length 5 takes two keys, so that halves of different keys
could meet, and then is full, so that keys are dropped. A ring of even length,
as `KeyboardIOQueue` with its 4096 places, comes down to exactly one byte of
room before it is full, which is the case of the second finding: from there on
`KeysWhole` is false of it. The run takes the odd length, where that case does
not exist and nothing has to be excluded; section 4 says what holds of the even
ones. The safety properties were also checked with a letter, with Ctrl or with
the second Shift key added (3.2, 2.8 and 2.1 million states).

In `memory` both pools can run out in the middle of every call, a page table
(`TableSpan` 2) is shared by two pages and a space needs two, and large requests
(2 pages) fragment a space; `MaxHeld` bounds what malloc has handed out. In
`filesystem` the 5 blocks run out before the 4 inodes and the other way round; the
root is full with two names besides its dots, so that a third goes across the end
of the block or into a second one, by the indirect table; the second name is out
of sight of `getcwd`; directories are made in directories; and a write of 3 bytes with blocks of 2
needs a second block and the indirect table. In `shell` three processes make a
pipeline; two slots are enough for a pipe and one file, and for two opens to
meet. Three slots (2 million states), and four processes with one file (1.3
million), were checked too and show nothing else.

Three runs say `CHECK_DEADLOCK FALSE`: `memory`, `filesystem` and `shell` stop where
a harm is named, and when a pool is empty and nobody gives anything back.

In `ide`, two sectors give a command a surplus interrupt, and two commands in a
call give that interrupt a next command to be mistaken for; `MaxPolls` (2) stands
for the 1000 readings after which `WaitForHdWork` panics.

*Symmetry* is used in `thread` over the two processes, in `filesystem` over the
names, in `shell` over the children and the files: no liveness property is
checked there.

*Fairness.* The processor does not stop in the middle of a primitive: weak
fairness of `InPrimitive` and of the idle loop. The interrupt controller keeps
an interrupt that arrives with interrupts off: strong fairness of the timer.
Critical sections and system calls are finite: strong fairness of their last
step, since they may block on the way. User code owes nothing; nor do the
devices, except the disk where a property says so. In `ide`, the disk
does its work, and a thread that has the processor again and again gets on in
the driver, as a slice is long enough for many statements. In `pipe`, the reader is
assumed to go on reading, and in `keyboard_handler_returns` the reader to go on
asking.

### Findings

1. `MinHeapPop` (`lib/kernel/minHeap.c:59`) does not leave its loop at a node
   in order with its children: with three sleepers, waking one can hang the
   kernel with interrupts off.
2. `keyboard_interrupt` (`device/keyboard.c:325`) tests for one free byte and
   puts two: with one left it blocks the thread it interrupted.

### What the models name as harm

These are not claims anybody made of the code, so they are no findings; the
models reach them, name them, and go no further. Reached in the runs, except
where it says otherwise:

- `Memory`: a pool that is empty when a page table or the page of a stack is
  needed ends in a fault, since `AddToPageTable` maps nothing and says nothing.
  The roll-backs of `malloc_page` and `fork` leave virtual pages taken.
- `FileSystem`: 170 entries of a directory leave 16 bytes of a block, and
  `CreateDirEntry` (`dir.c:115`), which goes on while its offset is below
  `BLOCK_SIZE`, tries a place there for a 171st; the entry is counted and lost,
  and what lies behind the buffer overwritten (`overrun`). The comment at
  `dir.c:50` says the entry is written to the directory. `TreeSound` says what
  the directory is then: it counts one entry more than it has, so that `readdir`
  goes past its end. Without an inode, `mkdir` resets bit -1 and fails an ASSERT;
  without a block for ".", it leaves the entry (`dangling`); the sector of the
  bitmap to write is chosen by the address of a block and not by its index
  (`file.c:231`), so that the disk may not know of a block (`unsynced`, or a PANIC,
  which this instance does not reach); `rmdir` walks the father's addresses and
  may free its blocks (`others`);
  with more than one direct block a directory that grows has its old entries
  twice (`duplicates`, not in this instance); `file_create` that cannot make the
  entry frees the inode in the wrong heap (`foreign`: `file.c:139`, not reached,
  since a directory that has a block always takes the entry, across its end if
  need be). No harm, but wrong: `getcwd` leaves out the name of a directory that
  is not in the first sector of a block of its father, 21 entries of 170
  (`file.c:371`), although the comment before the function promises the name;
  `PathsAgree` says that this is the only case.
- `Files`: two opens that overlap take one slot of the file table, or make two
  inodes of one file; a file is opened while `unlink` frees it; a child's `cd`
  closes its father's directory; a second shell closes a descriptor that nobody
  counted. `lost` counts inodes opened for a writer that is refused, whose count
  never goes down (`file.c:166`).
- `Shell`: a command that does not exist, in a pipe, is one child too few for
  the `wait` loop of `shell.c:202`: the shell waits for ever.
- `Keyboard`: the right arrow types "r"; with Caps Lock on, Ctrl and a letter is a capital;
  of the two Shift keys, the release of either ends the shift.
- `Pipe`: `pipe_write` counts one byte of room too many and sleeps on the last,
  which the comment at `syscallFun.c:92` says it does not.

## 4. What is proved

Each theorem holds for every value of the constants that satisfies the named
assumption of its module (`ThreadsAssumption`, `ThreadAssumption`,
`ProcessAssumption`, ...): any finite set of threads or processes, any length of
a ring buffer, any number of pages. Where a theorem needs more, it says so as a
hypothesis: `OneEach` (one writer and one reader of a pipe) and `RoomForKeys`
(the keyboard's ring is of odd length, or no scan code arrives while exactly one
byte of it is free; for `KeyboardIOQueue`, whose length is even, it is the
second, and finding 2 is what happens without it).

| Module of proofs | Theorems | Properties of the runs they state |
|---|---|---|
| `ThreadQueuesProofs` | `ScheduleConsistent`, `ScheduleWakes`, `ScheduleMoves`: what `schedule()` does to any consistent queues | |
| `ThreadProofs` | `TypeCorrect`, `ThreadsAccountedFor`, `WaitersStayAsleep`, `WakeupsKept`, `MutexExcludes`, `OversleepIsBounded`, `SleepersWakeInOrder`; `MutexIsALock`: `Spec` implements `Lock!Spec` | every invariant of `thread`, its action property, and the safety part of `ImplementsLock` |
| `ProcessProofs` | `TypeCorrect`, `ProcessesAccountedFor`, `ExitsAreSeen`, `WaitersHaveChildren`, `FathersArePresent`; `ProcessesAreAFamily`: the refinement of `Family` | `NoMissedExit`, `WaitingHasChild`, `FatherPresent`, `ImplementsFamily` |
| `IoQueueProofs` | what each step of `ioQueuePut` and `ioQueueGet` keeps, whatever program calls them; of `Pipe`, `PipeSlotsAsleep`, `PipeIsAFifo`, and with `OneEach` `ReadersDoNotBlock` and `NobodyIsStranded`; of `Keyboard`, `ModifiersStayHeld`, and with `RoomForKeys` `KeySlotsAsleep` and `KeysStayWhole` | `SlotsAsleep`, `ImplementsFifo`, `ReadDoesNotBlock`, `NobodyStranded`, `ModifiersHeld`, `KeysWhole` |
| `IdeProofs` | `OneAtATime`, `ConfirmationIsDone`, `NothingIsLeftOver`, `InterruptWillCome` | `OneCommandAtATime`, `ConfirmedIsDone`, `NothingLeftOver`, `InterruptToCome` |
| `MemoryProofs` | `AllocatesFirstFree`, `MemoryInvariant`, `NoPageIsMappedTwice`, `HeapIsSound`, `PagesAreAccounted`, `KernelPagesStayOwned` | `NoPageMappedTwice`, `HeapSound`, `PagesAccounted`, `KernelPagesOwned` |
| `MinHeapProofs` | `HeapOrdered`; `HeapIsQueue`: the refinement of `PriorityQueue` | `HeapOrder`, `ImplementsQueue` |
| `ShellProofs` | `SoundAlways`, `CountsRightAlways`, `DescriptorsLiveAlways` | `CountsRight`, `DescriptorsLive` |

### The arguments

*Queues.* `schedule()` passes through three kinds of state: `Leaving`
(the running thread has set its status and is in no queue), `Parked` (it has
been queued, nobody runs) and consistent again. A lemma for each of its four
parts takes one to the next; the idle task's status being one of RUNNING, READY
and BLOCKED is what makes `WakeIdle` find it. Each caller brings the queues
into a `Leaving` state. `Moved` says which threads change status on the way;
every module above needs it to see that a step of one thread does not wake or
block another.

*Threads.* `ThreadInv` is the properties of the run and `Points`, which says
that a thread in the loop of `SemaphoreDec` wants a semaphore and holds no mutex
if that is one, that a thread between `SemaphoreDec` and the store of the
holder, or between the reset of the holder and `SemaphoreInc`, has a mutex with
no holder stored, and that the idle task uses none. Without `Points`,
`MutualExclusion` is not inductive: a thread could stand before `SemaphoreInc`
of a mutex whose holder is still set. `WaitersAsleep` is what lets
`SemaphoreInc` unblock without a test, so it is proved with `NoThreadLost`, not
after it. Steps that touch no semaphore share one lemma (`QuietStep`);
`TakeStep`, `WaitStep` and `IncStep` are the two outcomes of `SemaphoreDec` and
the one of `SemaphoreInc`. `ThreadInv` does not say where the idle task is,
since `Keyboard` runs its interrupt handler on that stack too; `IndInv` adds it
for `Thread` alone.

*Processes.* `NoMissedExit` is not inductive: its strengthening is `InitAwake`
(init never waits), `PlacesAgree` (a status HANGING, WAITING or DIED says where
in its calls the process is) and `FathersStay` (a father has not exited).
A process changes hands only while one that is awake does it: `fork` and `wait`
move children of the running process, `exit` hands children to init, and a
father in `wait` is moved by the exit of a child and by nothing else. The same
invariant makes every step one of `Family`, or a stutter.

*The ring buffer.* `IoInv` is `ThreadInv` with `IoPoints`, what a thread's place
in `ioQueuePut` or `ioQueueGet` tells of the mutex it holds, and `Slots`, that a
thread asleep in a slot is the one noted in it. A step is proved once, for any
program around it. `Pipe` adds where a system call is (`Calls`), and for
`OneEach` `Alone`: a reader has in front of it what it still asks for, and the
mutex is free whenever the writer asks. `Keyboard` adds `Places`: whoever has
half a key in hand, in the handler or in `KeyBoardRead`, is the running thread
with interrupts off, and every other thread is at rest; so the queue holds whole
keys whenever the processor changes hands or an interrupt can come. In a ring of
odd length the room is then even, so that the handler finds room for both bytes
or none; in the others `RoomForKeys` has to say so. `ModInv` needs no such
hypothesis, as the flags are set before the queue is looked at. It is about the
codes under way: a prefix is followed by a code that is none, and a flag is
wrong only while the code that rights it is on its way (`Pending`).

*The disk.* `IdeInv` is `ThreadInv` with `IdePoints`, what a thread's place in
the driver tells of the mutex, and `Channel`: while a thread has the mutex, its
statement tells the state of the disk, its line, `expecting_intr` and
`disk_done`; while nobody has it the disk is idle, `disk_done` at 0, and no
interrupt that comes is expected. The last part is what keeps the interrupts of
further sectors from being counted.

*Memory.* `IndInv` says that no ASSERT has failed and that, while the system is
up, `Sound` holds: types; `PageSound` (finite sets, every user of a page has it
from its pool, no two users have the same page, every page taken has a user);
for each process, that without a life it has no pages of its own (`Dormant`) and
that its PCB, directory and bitmap are mapped, in no arena, and apart from those
of every other (`OwnPages`); for each space, that arenas lie in mapped pages,
apart (`ArenaSound`), and that lists, headers and what is handed out agree
(`HeapOf`). `HeapSound` alone is not inductive: without `ArenaSound` two arenas
could overlap, and a `free` of one unmap the other; nor is `PagesAccounted`, as
`exit` and `ThreadExit` look up pages that only `OwnPages` says are there. The
proof goes from the bottom up: `GetOnePage`, `GetPages`, `malloc_page` with its
roll-back, and `free_page` each keep `PageSound`; then one lemma for each action.

*The heap.* `HeapOrder` is inductive once `idx` is known to be a node while
`MinHeapInsert` goes up: the key at that node may be less than its parent's, and
while `MinHeapPop` goes down it may be greater than its children's; in both
cases the children are not less than the grandparent, so that an exchange is
right. For the refinement, an exchange keeps the bag of the keys
(`SwapKeepsBag`), and the root is least because the least node that is less than
it would be less than its parent too. That a pop need not return (finding 1)
does not touch this: the loop goes round at a heap in order.

*Open files.* `Sound` is `ShellNow` until harm is done; after that nothing moves
but calls that have ended. `ShellNow` has two layers. `FilesNow` is about
`Files`: besides the two counts (`PipesCounted`, `FilesCounted`), that the flag
of a slot says what its inode is (`Flagged`), that what `open` and `pipe` have
handed out leads to a pipe or a file in the directory (`Led`), that a file that
is being made is made by one call, which has its slot, and is open to nobody
(`MakersApart`), and that what is being removed is open to its remover only
(`RemoversAlone`); the last two are what a call leaves behind when it waits for
the disk, and neither count is inductive without them. `close` and `fork` change
several counts in one step, one descriptor after the other: `CloseStep` and
`UpdateStep` say what one descriptor does to any table that `FilesInv` holds of,
and `FoldSteps` puts them together for any number of descriptors. The second
layer is about `Shell`, and is there because `sys_fd_redirect` does not count: a
redirected stream is safe only while somebody else has the same slot open.
`StdKept` says who: the child itself, before it closes or execs, or a process
that is `Stuck`. The father of a redirected child waits with the file open
(`Redirected`); if the command does not exist the child goes on as a second
shell, and then its father is stuck for good, since that child never exits; in a
pipeline such a child waits for children it never had. So a stuck process is not
only a flaw of the shell: it is what keeps the descriptors of the second shell
alive, until that one closes an uncounted one, which is the harm `fd_redirect`
names. `FewChildren` and `PlacedAt`, what the place in `shell.c` says of locals,
descriptors and call, carry these. `AloneStep`, `ForkStep` and `ReapStep` are
the three kinds of steps; a step of one process alone has only to be shown
`Lawful`, which is about its own values.

*Induction* over numbers and finite sets (`GetPages`, `WithoutPage`, the window
of a bitmap, the descriptors that `close` and `fork` go through) is done with a
set in the place of a property: `LeastNat` takes the
least element from well-foundedness, `NatSetInduction`, `SetInduction` and
`SetRecursion` rest on it.

### What is only model-checked

- Liveness: `StarvationFree`, `SleeperWakes`, the progress of `Lock`,
  `ExitNoticed`, `WriterGoesOn`, `KeyIsRead`, `CallEnds`, `ShortPopReturns`. They
  rest on fairness, and so on ENABLED, about which this prover does not reason.
- `FileSystem`: `TreeSound`, `BlocksAccounted` and `PathsAgree` are not proved
  (section 6); `PathsAgree` compares folds over paths and over chains of fathers,
  whose values would have to be proved by induction over both.
- `Files` beyond the first harm: `CountsRight` and `DescriptorsLive`, as checked
  and as proved, say nothing of what follows it.

## 5. What is not modelled, and why

- *The clock.* `systemTicks` is 32 bits and wraps after 49.7 days; `left` is
  relative and does not.
- *Two writers of a pipe, two readers of the keyboard.* `ioqueue.c` does not
  test the queue again after it gets the mutex; with two threads on one side
  TLC finds one stranded. The runs have one on each side, as the shell does.
- *`ThreadExit` of the boot thread*, which unlinks a node that is in no list.
- *Calls on files that overlap, inside a directory or a bitmap.* `FileSystem` has
  one call at a time and `Files` has no blocks; the code locks nothing there.
- *A crash within a call.* The code has no recovery; `Restart` is between calls.
- *`read`, `seek`, `stat`*: they move a position or copy a record. The bytes of a file
  are left out. *`cd /`*: the root is never closed, so its count is not kept.
- *`malloc_user_page`*, which nothing calls.
- *`exec` after `malloc`, and `free` of a block that was the father's.* In `Memory`
  a process execs before it uses `malloc`, as a child of the shell does, and
  frees what it got itself. `exec` keeps the pages and block lists of before;
  a child that frees a block its father got puts it on the list it has a pointer
  to, which is the father's.
- *How a line is split into words, line editing, formatting and output.*
- *`partition_scan`, `identify_disk`*: at boot, before there is anything to
  interleave; `Ide` starts in the state they leave.
- *Boot code*: straight-line, before there is anything to interleave.
- *Disks that lag behind a burst.* The driver moves the sectors of a command
  without asking between them and waits for one interrupt, the first; that is
  right for a disk that has written them all by then, as the emulator the build
  targets does. `Ide` assumes it for commands of several sectors. It also
  assumes that reading the status withdraws an interrupt that has not been
  taken; otherwise the commands of the boot would leave `disk_done` one ahead.
- *The 10 s of `WaitForHdWork`* (`device/ide.c:71`): `SleepWithoutHang` does not
  wait, so they are 1000 readings in a row, and the model polls without waiting.

## 6. What could be done next

1. `FileSystem`: `BlocksAccounted` (a block has one inode, in memory and on the
   disk), then `TreeSound`, for any number of inodes and blocks. Its calls write
   several sectors in one step, so the invariant to prove is one of the sectors
   written so far, as `FilesInv` is one of the descriptors closed so far.
2. `Files` with calls that overlap inside a directory or a bitmap, which means
   blocks in `Files`, or steps inside the calls of `FileSystem`.
