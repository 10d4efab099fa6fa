---------------------------- MODULE ThreadQueues ----------------------------
(***************************************************************************)
(* The thread queues of kernel/thread.c and the calls that move a thread   *)
(* between them, as operators on one record, so that a handler that makes  *)
(* several calls is the composition of their operators.  The record holds  *)
(*                                                                         *)
(*   cur      RunningThread(): the thread whose stack the CPU is on;       *)
(*   status   PCB.status of every thread;                                  *)
(*   ready    ReadyList, in order: its front runs next;                    *)
(*   blocked  BlockList: its order is never read, so it is a set;          *)
(*   delayed  DelayList and DelayMinHeap, which schedule() always fills    *)
(*            and ProcessDelayThread() always empties together;            *)
(*   ticks    PCB.ticks: what is left of the time slice;                   *)
(*   left     PCB.TargetDelayTime - systemTicks: it is read for sleepers   *)
(*            only, and kept at 0 for the others.                          *)
(*                                                                         *)
(* Every one of these calls runs with interrupts off, on one processor, so *)
(* each is a single step.  With three or more sleepers MinHeapPop may not  *)
(* return at all: that is the subject of MinHeap.tla, and the actions that *)
(* use this module keep the number of sleepers below that.                 *)
(***************************************************************************)
EXTENDS Integers, Sequences, FiniteSets

CONSTANTS Threads,  \* every thread that has a PCB
          Idle,     \* idle_task
          Slice     \* AllocateTicks(priority): the priority, 1 for all threads

ASSUME ThreadsAssumption ==
    /\ IsFiniteSet(Threads)
    /\ Idle \in Threads
    /\ Slice \in Nat

Status == {"RUNNING", "BLOCKED", "HANGING", "WAITING", "DELAYED", "READY",
           "DIED"}

\* The states in which schedule() puts the thread on the BlockList.
OnBlockList == {"BLOCKED", "HANGING", "WAITING"}

Queues == [cur     : Threads,
           status  : [Threads -> Status],
           ready   : Seq(Threads),
           blocked : SUBSET Threads,
           delayed : SUBSET Threads,
           ticks   : [Threads -> 0 .. Slice],
           left    : [Threads -> Int]]

-----------------------------------------------------------------------------

\* Back of the ready queue, with a fresh time slice.
ExchangeThreadToReady(q, t) ==
    [q EXCEPT !.ready = Append(@, t),
              !.ticks[t] = Slice,
              !.status[t] = "READY"]

\* Wrong: the thread stays on the BlockList.
UnBlockKeepsLink(q, t) ==
    [q EXCEPT !.status[t] = "READY", !.ready = <<t>> \o @]

\* Wrong: a woken thread gets a fresh slice.
UnBlockRefreshesSlice(q, t) ==
    [q EXCEPT !.status[t] = "READY",
              !.blocked = @ \ {t},
              !.ready = <<t>> \o @,
              !.ticks[t] = Slice]

\* Front of the ready queue, with what is left of the old slice.  The code
\* unlinks the thread from whatever list it is in: every caller's target must
\* be on the BlockList.
ThreadUnBlock(q, t) ==
    [q EXCEPT !.status[t] = "READY",
              !.blocked = @ \ {t},
              !.ready = <<t>> \o @]

\* Wrong: a sleeper is not put in the DelayList and the heap.
EnqueueForgetsSleeper(q) ==
    CASE q.status[q.cur] = "RUNNING"   -> ExchangeThreadToReady(q, q.cur)
      [] q.status[q.cur] \in OnBlockList -> [q EXCEPT !.blocked = @ \cup {q.cur}]
      [] OTHER                         -> q

\* schedule(): where the running thread goes.  One that is READY or DIED is
\* not queued (Thread_Yield has done so already, ThreadExit wants it gone).
EnqueueCurrent(q) ==
    CASE q.status[q.cur] = "RUNNING"   -> ExchangeThreadToReady(q, q.cur)
      [] q.status[q.cur] \in OnBlockList -> [q EXCEPT !.blocked = @ \cup {q.cur}]
      [] q.status[q.cur] = "DELAYED"   -> [q EXCEPT !.delayed = @ \cup {q.cur}]
      [] OTHER                         -> q

\* schedule(): the idle task runs when nothing else can.
WakeIdle(q) == IF q.ready = << >> THEN ThreadUnBlock(q, Idle) ELSE q

\* Wrong: off by one tick.
ExpiredEarly(q) == {t \in q.delayed : q.left[t] <= 1}

\* The sleepers whose target time has come.
Expired(q) == {t \in q.delayed : q.left[t] <= 0}

\* The orders in which the heap gives them up: nearest target time first.
WakeOrders(q) ==
    {s \in [1 .. Cardinality(Expired(q)) -> Expired(q)] :
        /\ \A i, j \in DOMAIN s : i # j => s[i] # s[j]
        /\ \A i, j \in DOMAIN s : i < j => q.left[s[i]] <= q.left[s[j]]
        /\ \A t \in Expired(q) : \E i \in DOMAIN s : s[i] = t}

\* Wrong: pops one sleeper, where the code loops.
ProcessOneDelayThread(q) ==
    IF Expired(q) = {} THEN {q}
    ELSE {ExchangeThreadToReady([q EXCEPT !.delayed = @ \ {s[1]}, !.left[s[1]] = 0],
                                s[1]) : s \in WakeOrders(q)}

\* The loop that pops the expired sleepers: each goes to the back of the
\* ready queue with a fresh slice.
ProcessDelayThread(q) ==
    {[q EXCEPT !.ready = @ \o s,
               !.delayed = @ \ Expired(q),
               !.ticks = [t \in Threads |->
                            IF t \in Expired(q) THEN Slice ELSE @[t]],
               !.status = [t \in Threads |->
                            IF t \in Expired(q) THEN "READY" ELSE @[t]],
               !.left = [t \in Threads |->
                            IF t \in Expired(q) THEN 0 ELSE @[t]]] :
        s \in WakeOrders(q)}

\* The front of the ready queue gets the processor.
SwitchToFront(q) ==
    [q EXCEPT !.cur = Head(q.ready),
              !.ready = Tail(@),
              !.status[Head(q.ready)] = "RUNNING"]

\* schedule(): the states it may leave, one for each order among sleepers
\* with the same target time.
schedule(q) ==
    {SwitchToFront(p) : p \in ProcessDelayThread(WakeIdle(EnqueueCurrent(q)))}

\* The running thread gives up the processor in the given state.
ThreadBlock(q, st) == schedule([q EXCEPT !.status[q.cur] = st])

\* Back of the ready queue, keeping what is left of the slice.
Thread_Yield(q) ==
    schedule([q EXCEPT !.status[q.cur] = "READY",
                       !.ready = Append(@, q.cur)])

\* syscall_sleep: delayed until ms ticks from now.
syscall_sleep(q, ms) ==
    schedule([q EXCEPT !.status[q.cur] = "DELAYED", !.left[q.cur] = ms])

\* Wrong: the slice is not tested.
TimerWithoutTest(q) ==
    {[q EXCEPT !.left = [t \in Threads |->
                            IF t \in q.delayed THEN @[t] - 1 ELSE @[t]],
               !.ticks[q.cur] = @ - 1]}

\* timer_interrupt: time passes for the sleepers, and the running thread
\* loses the processor once its slice is used up.
timer_interrupt(q) ==
    LET p == [q EXCEPT !.left = [t \in Threads |->
                                   IF t \in q.delayed THEN @[t] - 1 ELSE @[t]]]
    IN IF q.ticks[q.cur] = 0
       THEN schedule(p)
       ELSE {[p EXCEPT !.ticks[q.cur] = @ - 1]}

-----------------------------------------------------------------------------

\* The end of init_thread: the boot thread, which has created the others, runs
\* and they are ready, in the order it created them.
InitQueues(boot) ==
    {[cur     |-> boot,
      status  |-> [t \in Threads |-> IF t = boot THEN "RUNNING" ELSE "READY"],
      ready   |-> s,
      blocked |-> {},
      delayed |-> {},
      ticks   |-> [t \in Threads |-> Slice],
      left    |-> [t \in Threads |-> 0]] :
        s \in {r \in [1 .. Cardinality(Threads) - 1 -> Threads \ {boot}] :
                  /\ \A i, j \in DOMAIN r : i # j => r[i] # r[j]
                  /\ \A t \in Threads \ {boot} : \E i \in DOMAIN r : r[i] = t}}

-----------------------------------------------------------------------------

InReady(q) == {q.ready[i] : i \in 1 .. Len(q.ready)}

\* Each thread is in the one queue its status names, once, and the running
\* thread is in none; the idle task never sleeps, waits or dies.
QueuesConsistent(q) ==
    /\ q.status[q.cur] = "RUNNING"
    /\ \A t \in Threads : q.status[t] = "RUNNING" => t = q.cur
    /\ \A t \in Threads : t \in InReady(q) <=> q.status[t] = "READY"
    /\ \A i, j \in 1 .. Len(q.ready) : i # j => q.ready[i] # q.ready[j]
    /\ \A t \in Threads : t \in q.blocked <=> q.status[t] \in OnBlockList
    /\ \A t \in Threads : t \in q.delayed <=> q.status[t] = "DELAYED"
    /\ q.status[Idle] \in {"RUNNING", "READY", "BLOCKED"}
=============================================================================
