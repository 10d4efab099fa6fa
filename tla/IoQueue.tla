------------------------------ MODULE IoQueue -------------------------------
(***************************************************************************)
(* The ring buffer of lib/kernel/ioqueue.c and the blocking ioQueuePut and *)
(* ioQueueGet on it, as procedures that threads of Thread go through.  A   *)
(* module with the program of the threads that call them completes it.     *)
(*                                                                         *)
(* Both procedures run with interrupts off (their callers, a system call   *)
(* or an interrupt handler, have them off already): the processor changes  *)
(* hands only where they block, on the queue's mutex or in their slot.     *)
(***************************************************************************)
EXTENDS Thread

CONSTANTS QueueLock, \* queue->lock
          QueueLen,  \* queue->len
          Bytes      \* what the queue carries

ASSUME IoQueueAssumption ==
    /\ QueueLock \in Mutexes
    /\ QueueLen \in Nat \ {0, 1}
    /\ None \notin Bytes

VARIABLES buff,     \* queue->buff
          head,     \* next position to write
          tail,     \* next position to read
          producer, \* the thread asleep because the queue is full
          consumer, \* the thread asleep because the queue is empty
          io,       \* where each thread is in ioQueuePut or ioQueueGet
          data      \* the byte it puts, or the one it got

ioVars == <<buff, head, tail, producer, consumer, io, data>>
threadVars == <<q, value, wait, holder, pc, want, held, intr>>

(***************************************************************************)
(* io: "none", or, for ioQueuePut,                                         *)
(*     "put"      at the test of the loop,                                 *)
(*     "putlock"  at MutexAcquire and the statement after it,              *)
(*     "putslot"  back from the ThreadBlock in the loop;                   *)
(*     and likewise for ioQueueGet.                                        *)
(***************************************************************************)
IoInit ==
    /\ buff \in [0 .. QueueLen - 1 -> {None}]
    /\ head = 0 /\ tail = 0
    /\ producer = None /\ consumer = None
    /\ io = [t \in Threads |-> "none"]
    /\ data = [t \in Threads |-> None]

IOQUEUE_NEXTPOS(x) == (x + 1) % QueueLen

ioQueueEmpty == head = tail
ioQueueLen == IF tail <= head THEN head - tail ELSE QueueLen + head - tail

\* Wrong: no position is kept free, so a full queue looks like an empty one.
FullWithoutGap == ioQueueLen >= QueueLen

ioQueueFull == IOQUEUE_NEXTPOS(head) = tail

\* The thread is the running one and stands between two statements of the
\* procedure, the mutex operations it called being over.
AtIo(t, label) == t = q.cur /\ io[t] = label /\ pc[t] = "own"

\* Wrong: the slot is cleared but the thread is not woken.
WakeNobody(t) == UNCHANGED q

\* Wake the thread in the other side's slot, if there is one.
WakeSlot(t) == q' = IF t = None THEN q ELSE ThreadUnBlock(q, t)

\* Wrong: the consumer's slot is not cleared.
PutKeepsConsumer(t) ==
    /\ AtIo(t, "put") /\ held[t] = None
    /\ \/ /\ ioQueueFull
          /\ io' = [io EXCEPT ![t] = "putlock"]
          /\ UNCHANGED <<q, buff, head, data>>
       \/ /\ ~ioQueueFull
          /\ buff' = [buff EXCEPT ![head] = data[t]]
          /\ head' = IOQUEUE_NEXTPOS(head)
          /\ WakeSlot(consumer)
          /\ io' = [io EXCEPT ![t] = "none"]
          /\ data' = [data EXCEPT ![t] = None]
    /\ UNCHANGED <<tail, producer, consumer,
                   value, wait, holder, pc, want, held, intr>>

\* ioQueuePut: the queue is full, or the byte goes in and a sleeping consumer
\* is woken.
ioQueuePut(t) ==
    /\ AtIo(t, "put") /\ held[t] = None
    /\ \/ /\ ioQueueFull
          /\ io' = [io EXCEPT ![t] = "putlock"]
          /\ UNCHANGED <<q, buff, head, consumer, data>>
       \/ /\ ~ioQueueFull
          /\ buff' = [buff EXCEPT ![head] = data[t]]
          /\ head' = IOQUEUE_NEXTPOS(head)
          /\ WakeSlot(consumer) /\ consumer' = None
          /\ io' = [io EXCEPT ![t] = "none"]
          /\ data' = [data EXCEPT ![t] = None]
    /\ UNCHANGED <<tail, producer, value, wait, holder, pc, want, held, intr>>

\* ioQueueGet: the queue is empty, or a byte comes out and a sleeping producer
\* is woken.
ioQueueGet(t) ==
    /\ AtIo(t, "get") /\ held[t] = None
    /\ \/ /\ ioQueueEmpty
          /\ io' = [io EXCEPT ![t] = "getlock"]
          /\ UNCHANGED <<q, buff, tail, producer, data>>
       \/ /\ ~ioQueueEmpty
          /\ data' = [data EXCEPT ![t] = buff[tail]]
          /\ buff' = [buff EXCEPT ![tail] = None]  \* never read again
          /\ tail' = IOQUEUE_NEXTPOS(tail)
          /\ WakeSlot(producer) /\ producer' = None
          /\ io' = [io EXCEPT ![t] = "none"]
    /\ UNCHANGED <<head, consumer, value, wait, holder, pc, want, held, intr>>

\* In the loop: take the mutex of the queue.
IoAcquire(t) ==
    /\ io[t] \in {"putlock", "getlock"} /\ held[t] = None
    /\ SemaphoreDec(t, QueueLock)
    /\ UNCHANGED ioVars

\* In the loop: with the mutex held, sleep in the slot.  The state of the queue
\* is not looked at again.
IoSleep(t) ==
    /\ held[t] = QueueLock
    /\ \/ /\ AtIo(t, "putlock")
          /\ producer' = t
          /\ io' = [io EXCEPT ![t] = "putslot"]
          /\ UNCHANGED consumer
       \/ /\ AtIo(t, "getlock")
          /\ consumer' = t
          /\ io' = [io EXCEPT ![t] = "getslot"]
          /\ UNCHANGED producer
    /\ q' \in ThreadBlock(q, "BLOCKED")
    /\ UNCHANGED <<buff, head, tail, data,
                   value, wait, holder, pc, want, held, intr>>

\* In the loop: woken from the slot, give the mutex back and test again.
IoRelease(t) ==
    /\ \/ AtIo(t, "putslot") /\ io' = [io EXCEPT ![t] = "put"]
       \/ AtIo(t, "getslot") /\ io' = [io EXCEPT ![t] = "get"]
    /\ MutexReleaseHolder(t)
    /\ UNCHANGED <<buff, head, tail, producer, consumer, data>>

IoStep(t) ==
    \/ ioQueuePut(t) \/ ioQueueGet(t)
    \/ IoAcquire(t) \/ IoSleep(t) \/ IoRelease(t)
    \/ InPrimitive(t) /\ UNCHANGED ioVars

\* A call, by a thread that goes on when io is "none" again.
CallPut(t, b) ==
    /\ io' = [io EXCEPT ![t] = "put"]
    /\ data' = [data EXCEPT ![t] = b]

CallGet(t) ==
    /\ io' = [io EXCEPT ![t] = "get"]
    /\ data' = [data EXCEPT ![t] = None]

\* The thread is running, outside the two procedures.
OutsideIo(t) == AtIo(t, "none") /\ held[t] = None

-----------------------------------------------------------------------------

IoTypeOK ==
    /\ buff \in [0 .. QueueLen - 1 -> Bytes \cup {None}]
    /\ head \in 0 .. QueueLen - 1 /\ tail \in 0 .. QueueLen - 1
    /\ producer \in Threads \cup {None} /\ consumer \in Threads \cup {None}
    /\ io \in [Threads -> {"none", "put", "putlock", "putslot",
                           "get", "getlock", "getslot"}]
    /\ data \in [Threads -> Bytes \cup {None}]

\* The bytes in the queue, oldest first.
Contents == [i \in 1 .. ioQueueLen |-> buff[(tail + i - 1) % QueueLen]]

\* The threads that ioQueuePut and ioQueueGet wake are asleep in their slots,
\* on the BlockList: ThreadUnBlock unlinks them from there without a test.
SlotsAsleep ==
    /\ producer # None => /\ io[producer] = "putslot"
                          /\ q.status[producer] = "BLOCKED"
    /\ consumer # None => /\ io[consumer] = "getslot"
                          /\ q.status[consumer] = "BLOCKED"

\* Nobody sleeps in a slot without the other side knowing, nor for something
\* that is there: a sleeping consumer means an empty queue, a sleeping
\* producer a full one.
NobodyStranded ==
    \A t \in Threads : q.status[t] = "BLOCKED" =>
        /\ io[t] = "getslot" => consumer = t /\ ioQueueEmpty
        /\ io[t] = "putslot" => producer = t /\ ioQueueFull
=============================================================================
