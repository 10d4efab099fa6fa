------------------------------- MODULE Thread -------------------------------
(***************************************************************************)
(* Threads, semaphores and mutexes of kernel/thread.c under the timer of   *)
(* device/timer.c, on one processor.                                       *)
(*                                                                         *)
(* A kernel thread runs with interrupts on and calls the primitives that   *)
(* way.  A process runs user code with interrupts on; int 0x80 is an       *)
(* interrupt gate, so its system calls run with interrupts off and lose    *)
(* the processor only where they block.  The primitives turn interrupts    *)
(* off and put them back as they were, so between their critical regions a *)
(* kernel thread can be preempted: each such region is one action, and pc  *)
(* says between which two of them a thread stands.                         *)
(***************************************************************************)
EXTENDS ThreadQueues

CONSTANTS Boot,          \* mainThread, running when init_thread returns
          KernelThreads, \* threads that never enter user mode, Idle apart
          Mutexes,       \* mutexes, each a semaphore that starts at 1
          Events,        \* semaphores an interrupt handler increments
          None,          \* the null pointer
          MaxSleep,      \* bound: the longest sleep a process asks for
          MaxSleepers,   \* bound: sleepers at a time, see ThreadQueues
          MaxEvents      \* bound: increments an event may have pending

Sems == Mutexes \cup Events
Processes == Threads \ (KernelThreads \cup {Idle})

ASSUME ThreadAssumption ==
    /\ Boot \in KernelThreads
    /\ KernelThreads \subseteq Threads \ {Idle}
    /\ Mutexes \cap Events = {}
    /\ None \notin Sems \cup Threads
    /\ MaxSleep \in Nat /\ MaxSleepers \in Nat /\ MaxEvents \in 0 .. 254

VARIABLES q,       \* the thread queues, a record of ThreadQueues
          value,   \* Semaphore.value
          wait,    \* Semaphore.wait, a queue of PCBs linked by tagForSemaphore
          holder,  \* Mutex.holder
          pc,      \* the point of the primitives each thread is at
          want,    \* the semaphore whose SemaphoreDec the thread is in
          held,    \* the mutex whose critical section the thread is in
          intr     \* interrupts as the thread's own code has them

vars == <<q, value, wait, holder, pc, want, held, intr>>

(***************************************************************************)
(* pc: "own"  in its own code, outside the primitives;                     *)
(*     "dec"  in the loop of SemaphoreDec, back from ThreadBlock;          *)
(*     "dec2" MutexAcquire, before it stores the holder;                   *)
(*     "inc"  MutexRelease, before it calls SemaphoreInc;                  *)
(*     "loop" and "hlt" are idle_task_func's two statements.               *)
(***************************************************************************)
Init ==
    /\ q \in InitQueues(Boot)
    /\ value = [s \in Sems |-> IF s \in Mutexes THEN 1 ELSE 0]
    /\ wait = [s \in Sems |-> << >>]
    /\ holder = [m \in Mutexes |-> None]
    /\ pc = [t \in Threads |-> IF t = Idle THEN "loop" ELSE "own"]
    /\ want = [t \in Threads |-> None]
    /\ held = [t \in Threads |-> None]
    /\ intr = [t \in Threads |-> TRUE]

\* EFLAGS.IF: SemaphoreDec runs with interrupts off from one end to the other.
InterruptsOn == intr[q.cur] /\ pc[q.cur] # "dec"

\* The running thread stands at the given point and may use the primitives:
\* a process does so in a system call only.
At(t, label) ==
    /\ t = q.cur
    /\ pc[t] = label
    /\ t \in Processes => ~intr[t]

-----------------------------------------------------------------------------

\* SemaphoreDec from the test of its loop on: take the semaphore, or queue up
\* behind the other waiters and give up the processor.
TakeOrWait(t, s) ==
    \/ /\ value[s] > 0
       /\ value' = [value EXCEPT ![s] = @ - 1]
       /\ want' = [want EXCEPT ![t] = None]
       /\ held' = IF s \in Mutexes THEN [held EXCEPT ![t] = s] ELSE held
       /\ pc' = [pc EXCEPT ![t] = IF s \in Mutexes THEN "dec2" ELSE "own"]
       /\ UNCHANGED <<q, wait>>
    \/ /\ value[s] = 0
       /\ wait' = [wait EXCEPT ![s] = Append(@, t)]
       /\ want' = [want EXCEPT ![t] = s]
       /\ pc' = [pc EXCEPT ![t] = "dec"]
       /\ q' \in ThreadBlock(q, "BLOCKED")
       /\ UNCHANGED <<value, held>>

\* SemaphoreDec, called by MutexAcquire or to wait for an event.  No code
\* holds two mutexes.
SemaphoreDec(t, s) ==
    /\ At(t, "own")
    /\ s \in Mutexes => held[t] = None
    /\ TakeOrWait(t, s)
    /\ UNCHANGED <<holder, intr>>

\* Wrong: an if where the code has a while, so a woken thread does not test again.
DecWithoutRetest(t) ==
    /\ t = q.cur /\ pc[t] = "dec"
    /\ value' = [value EXCEPT ![want[t]] = @ - 1]
    /\ want' = [want EXCEPT ![t] = None]
    /\ held' = IF want[t] \in Mutexes THEN [held EXCEPT ![t] = want[t]] ELSE held
    /\ pc' = [pc EXCEPT ![t] = IF want[t] \in Mutexes THEN "dec2" ELSE "own"]
    /\ UNCHANGED <<q, wait, holder, intr>>

\* Back from ThreadBlock, the loop of SemaphoreDec tests the value again.
SemaphoreDecAgain(t) ==
    /\ t = q.cur /\ pc[t] = "dec"
    /\ TakeOrWait(t, want[t])
    /\ UNCHANGED <<holder, intr>>

\* The last statement of MutexAcquire.
MutexAcquireHolder(t) ==
    /\ t = q.cur /\ pc[t] = "dec2"
    /\ holder' = [holder EXCEPT ![held[t]] = t]
    /\ pc' = [pc EXCEPT ![t] = "own"]
    /\ UNCHANGED <<q, value, wait, want, held, intr>>

\* The first statement of MutexRelease.
MutexReleaseHolder(t) ==
    /\ At(t, "own") /\ held[t] # None
    /\ holder' = [holder EXCEPT ![held[t]] = None]
    /\ pc' = [pc EXCEPT ![t] = "inc"]
    /\ UNCHANGED <<q, value, wait, want, held, intr>>

\* Wrong: the waiter is unblocked but stays in the queue of waiters.
IncKeepsWaiter(s) ==
    /\ q' = IF wait[s] = << >> THEN q ELSE ThreadUnBlock(q, Head(wait[s]))
    /\ value' = [value EXCEPT ![s] = @ + 1]
    /\ UNCHANGED wait

\* Wrong: a waiter is woken only when the value leaves 0.
IncWakesFromZero(s) ==
    /\ IF wait[s] = << >> \/ value[s] # 0
       THEN UNCHANGED <<q, wait>>
       ELSE /\ wait' = [wait EXCEPT ![s] = Tail(@)]
            /\ q' = ThreadUnBlock(q, Head(wait[s]))
    /\ value' = [value EXCEPT ![s] = @ + 1]

\* Wrong: no waiter is woken.
IncWithoutWaking(s) ==
    /\ value' = [value EXCEPT ![s] = @ + 1]
    /\ UNCHANGED <<q, wait>>

\* The first waiter is unblocked; it does not get the semaphore, it will
\* test the value again.
SemaphoreInc(s) ==
    /\ IF wait[s] = << >>
       THEN UNCHANGED <<q, wait>>
       ELSE /\ wait' = [wait EXCEPT ![s] = Tail(@)]
            /\ q' = ThreadUnBlock(q, Head(wait[s]))
    /\ value' = [value EXCEPT ![s] = @ + 1]

\* The call of SemaphoreInc that ends MutexRelease.
MutexReleaseInc(t) ==
    /\ t = q.cur /\ pc[t] = "inc"
    /\ SemaphoreInc(held[t])
    /\ held' = [held EXCEPT ![t] = None]
    /\ pc' = [pc EXCEPT ![t] = "own"]
    /\ UNCHANGED <<holder, want, intr>>

-----------------------------------------------------------------------------

\* int 0x80 and the iret that ends the system call.
SyscallEnter(t) ==
    /\ t = q.cur /\ t \in Processes /\ intr[t]
    /\ intr' = [intr EXCEPT ![t] = FALSE]
    /\ UNCHANGED <<q, value, wait, holder, pc, want, held>>

SyscallReturn(t) ==
    /\ At(t, "own") /\ t \in Processes /\ held[t] = None
    /\ intr' = [intr EXCEPT ![t] = TRUE]
    /\ UNCHANGED <<q, value, wait, holder, pc, want, held>>

Sleep(t) ==
    /\ At(t, "own") /\ t \in Processes /\ held[t] = None
    /\ Cardinality(q.delayed) < MaxSleepers
    /\ \E ms \in 0 .. MaxSleep : q' \in syscall_sleep(q, ms)
    /\ UNCHANGED <<value, wait, holder, pc, want, held, intr>>

\* Thread_Yield, for kernel threads only.
Yield(t) ==
    /\ At(t, "own") /\ t \in KernelThreads
    /\ q' \in Thread_Yield(q)
    /\ UNCHANGED <<value, wait, holder, pc, want, held, intr>>

\* idle_task_func: block; when woken, halt until an interrupt comes.
IdleLoop ==
    /\ q.cur = Idle /\ pc[Idle] = "loop"
    /\ q' \in ThreadBlock(q, "BLOCKED")
    /\ pc' = [pc EXCEPT ![Idle] = "hlt"]
    /\ UNCHANGED <<value, wait, holder, want, held, intr>>

\* Where the interrupted thread goes on: an interrupt ends the hlt.
AfterInterrupt == [pc EXCEPT ![q.cur] = IF @ = "hlt" THEN "loop" ELSE @]

Timer ==
    /\ InterruptsOn
    /\ q' \in timer_interrupt(q)
    /\ pc' = AfterInterrupt
    /\ UNCHANGED <<value, wait, holder, want, held, intr>>

\* An interrupt handler announces an event, as disk_itr_handler does.
DeviceInterrupt(s) ==
    /\ InterruptsOn /\ value[s] < MaxEvents
    /\ SemaphoreInc(s)
    /\ pc' = AfterInterrupt
    /\ UNCHANGED <<holder, want, held, intr>>

-----------------------------------------------------------------------------

InPrimitive(t) ==
    \/ SemaphoreDecAgain(t)
    \/ MutexAcquireHolder(t)
    \/ MutexReleaseInc(t)

InSystemCall(t) ==
    \/ \E s \in Sems : SemaphoreDec(t, s)
    \/ MutexReleaseHolder(t)
    \/ Sleep(t)
    \/ Yield(t)
    \/ SyscallReturn(t)

ThreadStep(t) == InPrimitive(t) \/ InSystemCall(t) \/ SyscallEnter(t)

Next ==
    \/ \E t \in Threads : ThreadStep(t)
    \/ IdleLoop
    \/ Timer
    \/ \E s \in Events : DeviceInterrupt(s)

Spec == Init /\ [][Next]_vars

(***************************************************************************)
(* Fairness.  The processor does not stop between two statements of a      *)
(* primitive or of the idle loop.  The interrupt controller keeps a timer  *)
(* interrupt that arrives with interrupts off and delivers it when they    *)
(* come on again, however briefly: strong fairness.  Critical sections and *)
(* system calls are loops over finite requests: they come to their end     *)
(* however often they block on the way.  User code and the devices owe     *)
(* nothing.                                                                *)
(***************************************************************************)
Fairness ==
    /\ WF_vars(IdleLoop)
    /\ SF_vars(Timer)
    /\ \A t \in Threads : /\ WF_vars(InPrimitive(t))
                         /\ SF_vars(MutexReleaseHolder(t))
                         /\ SF_vars(SyscallReturn(t))

FairSpec == Spec /\ Fairness

-----------------------------------------------------------------------------

TypeOK ==
    /\ q \in Queues
    /\ value \in [Sems -> Nat]
    /\ wait \in [Sems -> Seq(Threads)]
    /\ holder \in [Mutexes -> Threads \cup {None}]
    /\ pc \in [Threads -> {"own", "dec", "dec2", "inc", "loop", "hlt"}]
    /\ want \in [Threads -> Sems \cup {None}]
    /\ held \in [Threads -> Mutexes \cup {None}]
    /\ intr \in [Threads -> BOOLEAN]

\* No thread is lost or queued twice: thread.c keeps one tagS per thread and
\* never checks which list it is in, so every call must find the thread where
\* its status says it is.  It follows that schedule(), which takes the front of
\* the ready queue without a test, finds one: with no thread ready the idle task
\* is on the BlockList, where schedule() looks for it.
NoThreadLost == QueuesConsistent(q)

\* The thread SemaphoreInc unblocks is on the BlockList, asleep in the
\* SemaphoreDec of that semaphore: a waiter is queued once, on one semaphore,
\* and nothing else wakes it.
WaitersAsleep ==
    \A s \in Sems : \A i \in 1 .. Len(wait[s]) :
        LET t == wait[s][i] IN
        /\ q.status[t] = "BLOCKED" /\ pc[t] = "dec" /\ want[t] = s
        /\ \A j \in 1 .. Len(wait[s]) : wait[s][j] = t => j = i

Waiting(s) == {wait[s][i] : i \in 1 .. Len(wait[s])}

\* The threads an increment has woken that have not yet tested the value.
Woken(s) == {t \in Threads : want[t] = s /\ t \notin Waiting(s)}

\* SemaphoreInc wakes one waiter and leaves the value to whoever tests it
\* first.  While threads sleep on a semaphore, every unit of its value has a
\* woken thread on the way to it: no wake-up is lost to a thread that took
\* the unit in between.
NoWakeupLost ==
    \A s \in Sems : wait[s] # << >> => Cardinality(Woken(s)) >= value[s]

\* MutexAcquire and MutexRelease touch the holder outside the regions with
\* interrupts off; still, only one thread is between them, the mutex is free
\* exactly when none is, and the holder is the thread inside.
MutualExclusion ==
    \A m \in Mutexes :
        /\ \A t, u \in Threads : held[t] = m /\ held[u] = m => t = u
        /\ value[m] = IF \E t \in Threads : held[t] = m THEN 0 ELSE 1
        /\ \A t \in Threads :
              held[t] = m /\ pc[t] \in {"own", "dec"} => holder[m] = t
        /\ holder[m] # None => held[holder[m]] = m

\* A sleeper is overslept by at most one time slice of timer interrupts.
OversleepBounded == \A t \in q.delayed : q.left[t] >= 1 - (Slice - q.ticks[q.cur])

\* A sleeper never wakes before its time (1 is left to it when the timer tick
\* that wakes it starts), nor before one that was due earlier.
WakesInOrder ==
    [][\A t \in q.delayed : q'.status[t] # "DELAYED" =>
          /\ q.left[t] <= 0 \/ (q.left[t] = 1 /\ Timer)
          /\ \A u \in q.delayed : q.left[u] < q.left[t] =>
                                    q'.status[u] # "DELAYED"]_vars

\* A sleeper runs again.
SleeperWakes ==
    \A t \in Threads : q.status[t] = "DELAYED" ~> q.status[t] = "RUNNING"

-----------------------------------------------------------------------------

\* The owner of a mutex is the thread inside; those trying for it are in its
\* SemaphoreDec.
MutexLock == INSTANCE Lock WITH
    owner <- [m \in Mutexes |->
                IF \E t \in Threads : held[t] = m
                THEN CHOOSE t \in Threads : held[t] = m ELSE None],
    trying <- [m \in Mutexes |-> {t \in Threads : want[t] = m}]

\* MutexAcquire and MutexRelease, built on a counting semaphore that wakes
\* without handing over, are a lock: exclusive, and acquired while it is wanted.
ImplementsLock == MutexLock!FairSpec
=============================================================================
