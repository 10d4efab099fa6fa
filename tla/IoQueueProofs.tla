--------------------------- MODULE IoQueueProofs ---------------------------
(***************************************************************************)
(* The ring buffer and the two devices that use it, for every length of    *)
(* the buffer and every number of threads on either side.                  *)
(*                                                                         *)
(* First the lemmas about IoQueue: what each step of ioQueuePut and        *)
(* ioQueueGet preserves, whatever program calls them.  Then the theorems   *)
(* about Pipe and about Keyboard, each from the assumptions on its own     *)
(* constants alone.                                                        *)
(***************************************************************************)
EXTENDS Pipe, Keyboard, ThreadProofs

InLock == {"putlock", "getlock"}
InSlot == {"putslot", "getslot"}

\* Where a thread is in the two procedures tells what it holds: the queue's
\* mutex from the loop's MutexAcquire to its MutexRelease, and no other.
IoPoints ==
    /\ \A t \in Threads :
          /\ held[t] \in {None, QueueLock}
          /\ pc[t] \in {"dec", "dec2"} => io[t] \in InLock
          /\ pc[t] = "dec" => want[t] = QueueLock
          /\ pc[t] = "inc" => io[t] \in {"put", "get"}
          /\ io[t] \in {"none", "put", "get"} => pc[t] = "inc" \/ held[t] = None
          /\ io[t] \in InSlot => held[t] = QueueLock /\ pc[t] = "own"
          /\ io[t] \in {"put", "putlock", "putslot"} => data[t] \in Bytes
    /\ io[Idle] \in {"none", "put"}

\* SlotsAsleep, and its converse: a thread asleep in a slot is the one in it.
Slots ==
    /\ SlotsAsleep
    /\ \A t \in Threads : q.status[t] = "BLOCKED" =>
          /\ io[t] = "putslot" => producer = t
          /\ io[t] = "getslot" => consumer = t

IoInv == ThreadInv /\ IoTypeOK /\ IoPoints /\ Slots

-----------------------------------------------------------------------------

\* A thread is on the BlockList after the step exactly if it was before.
AsleepAsBefore(p, t) == p.status[t] = "BLOCKED" <=> q.status[t] = "BLOCKED"

\* schedule() puts nobody but the running thread there.
LEMMA MovedAsleep ==
    ASSUME NEW p, NEW t, Moved(q, p, t)
    PROVE  AsleepAsBefore(p, t)
BY DEF Moved, AsleepAsBefore

\* Slots say the same after a step that leaves the threads in them alone.
LEMMA SlotsKept ==
    ASSUME IoInv, UNCHANGED <<producer, consumer>>,
           \A t \in Threads : io[t] \in InSlot \/ io'[t] \in InSlot =>
                                io'[t] = io[t] /\ AsleepAsBefore(q', t)
    PROVE  Slots'
<1>1. /\ producer # None => producer \in Threads
      /\ consumer # None => consumer \in Threads
  BY DEF IoInv, IoTypeOK
<1>2. QED
  BY <1>1 DEF IoInv, Slots, SlotsAsleep, InSlot, AsleepAsBefore

\* The idle task is in no slot.
LEMMA IdleNotInSlot ==
    ASSUME IoInv, NEW t \in Threads, io[t] \in InSlot \cup InLock \cup {"get"}
    PROVE  t # Idle
BY DEF IoInv, IoPoints, InSlot, InLock

\* The thread in a slot has the mutex, so there is only one.
LEMMA OneInSlot ==
    ASSUME IoInv, NEW t \in Threads, NEW u \in Threads,
           io[t] \in InSlot, held[u] = QueueLock
    PROVE  t = u
BY IoQueueAssumption DEF IoInv, IoPoints, ThreadInv, MutualExclusion

\* The states of the threads before a step.
LEMMA IoFacts ==
    ASSUME IoInv
    PROVE  /\ q \in Queues /\ QueuesConsistent(q) /\ q.cur \in Threads
           /\ q.status[q.cur] = "RUNNING"
           /\ QueueLock \in Mutexes /\ QueueLock \in Sems
           /\ QueueLock # None /\ None \notin Threads
           /\ pc \in [Threads -> {"own", "dec", "dec2", "inc", "loop", "hlt"}]
           /\ intr \in [Threads -> BOOLEAN]
           /\ pc[Idle] \in {"own", "loop", "hlt"}
<1> USE ThreadAssumption, IoQueueAssumption
<1>1. /\ q \in Queues /\ QueuesConsistent(q)
      /\ pc \in [Threads -> {"own", "dec", "dec2", "inc", "loop", "hlt"}]
      /\ intr \in [Threads -> BOOLEAN]
      /\ pc[Idle] \in {"own", "loop", "hlt"}
  BY DEF IoInv, ThreadInv, TypeOK, NoThreadLost, Points
<1>2. QueueLock \in Sems
  BY DEF Sems
<1>3. QED
  BY <1>1, <1>2 DEF Queues, QueuesConsistent

\* A step that leaves the threads alone.
LEMMA SameThreads ==
    ASSUME ThreadInv, UNCHANGED threadVars
    PROVE  ThreadInv'
<1>1. /\ intr \in [Threads -> BOOLEAN] /\ pc[Idle] \in {"own", "loop", "hlt"}
      /\ pc \in [Threads -> {"own", "dec", "dec2", "inc", "loop", "hlt"}]
  BY DEF ThreadInv, TypeOK, Points
<1>2. /\ q' = q /\ pc' = pc /\ intr' = intr
      /\ UNCHANGED <<value, wait, holder, want, held>>
  BY DEF threadVars
<1>3. QED
  BY <1>1, <1>2, SameQueuesStep, QuietStep

\* Waking the thread in a slot: it is on the BlockList, and no semaphore's
\* waiter.
LEMMA WakeSlotStep ==
    ASSUME IoInv, NEW c \in Threads \cup {None}, WakeSlot(c),
           c # None => io[c] \in InSlot /\ q.status[c] = "BLOCKED",
           UNCHANGED <<value, wait, holder, pc, want, held, intr>>
    PROVE  /\ ThreadInv'
           /\ \A t \in Threads \ {c} : AsleepAsBefore(q', t)
           /\ c # None => q'.status[c] # "BLOCKED"
<1>1. CASE c = None
  <2>1. q' = q
    BY <1>1 DEF WakeSlot
  <2>2. QED
    BY <1>1, <2>1, SameThreads DEF IoInv, AsleepAsBefore, threadVars
<1>2. CASE c # None
  <2>1. q' = ThreadUnBlock(q, c) /\ c \in Threads /\ q.status[c] \in OnBlockList
    BY <1>2 DEF WakeSlot, OnBlockList
  <2>2. /\ q' \in Queues /\ QueuesConsistent(q')
        /\ q'.cur = q.cur /\ q'.delayed = q.delayed
        /\ q'.left = q.left /\ q'.ticks = q.ticks
        /\ \A u \in Threads \ {c} : q'.status[u] = q.status[u]
    BY <2>1, IoFacts, UnBlockConsistent
  <2>3. q'.status[c] = "READY"
    BY <2>1, IoFacts DEF ThreadUnBlock, Queues
  <2>4. pc[c] # "dec"
    BY <1>2, <2>1 DEF IoInv, IoPoints
  <2>5. QueuesStep(q')
    BY <2>2, <2>4, IoFacts DEF QueuesStep, IoInv, ThreadInv, OversleepBounded
  <2>6. ThreadInv'
    BY <2>5, IoFacts, QuietStep DEF IoInv
  <2>7. QED
    BY <2>2, <2>3, <2>6 DEF AsleepAsBefore
<1>3. QED
  BY <1>1, <1>2

-----------------------------------------------------------------------------

\* Positions stay in the buffer.
LEMMA NextPosType ==
    ASSUME NEW x \in 0 .. QueueLen - 1
    PROVE  IOQUEUE_NEXTPOS(x) \in 0 .. QueueLen - 1
BY IoQueueAssumption DEF IOQUEUE_NEXTPOS

\* ioQueuePut's test, and the byte it puts: the sleeping consumer it wakes is
\* where its slot says.
LEMMA PutStep ==
    ASSUME IoInv, NEW t \in Threads, ioQueuePut(t), t = Idle => ~ioQueueFull
    PROVE  IoInv'
<1> USE DEF AtIo
<1>1. /\ t = q.cur /\ io[t] = "put" /\ pc[t] = "own" /\ held[t] = None
      /\ data[t] \in Bytes
      /\ UNCHANGED <<tail, producer, value, wait, holder, pc, want, held, intr>>
  BY DEF ioQueuePut, IoInv, IoPoints
<1>2. /\ io \in [Threads -> {"none", "put", "putlock", "putslot",
                             "get", "getlock", "getslot"}]
      /\ data \in [Threads -> Bytes \cup {None}]
  BY DEF IoInv, IoTypeOK
<1>3. CASE ioQueueFull
  <2>1. /\ io' = [io EXCEPT ![t] = "putlock"] /\ t # Idle
        /\ UNCHANGED <<q, buff, head, consumer, data>>
    BY <1>3 DEF ioQueuePut
  <2>2. ThreadInv'
    BY <1>1, <2>1, SameThreads DEF IoInv, threadVars
  <2>3. IoTypeOK'
    BY <1>1, <1>2, <2>1 DEF IoInv, IoTypeOK
  <2>4. IoPoints'
    BY <1>1, <1>2, <2>1, ThreadsAssumption DEF IoInv, IoPoints, InLock, InSlot
  <2>5. Slots'
    BY <1>1, <1>2, <2>1, SlotsKept DEF InSlot, AsleepAsBefore
  <2>6. QED
    BY <2>2, <2>3, <2>4, <2>5 DEF IoInv
<1>4. CASE ~ioQueueFull
  <2>1. /\ buff' = [buff EXCEPT ![head] = data[t]]
        /\ head' = IOQUEUE_NEXTPOS(head)
        /\ WakeSlot(consumer) /\ consumer' = None
        /\ io' = [io EXCEPT ![t] = "none"]
        /\ data' = [data EXCEPT ![t] = None]
    BY <1>4 DEF ioQueuePut
  <2>2. /\ consumer \in Threads \cup {None}
        /\ consumer # None => /\ io[consumer] = "getslot"
                              /\ q.status[consumer] = "BLOCKED"
    BY DEF IoInv, IoTypeOK, Slots, SlotsAsleep
  <2>3. /\ ThreadInv'
        /\ \A u \in Threads \ {consumer} : AsleepAsBefore(q', u)
        /\ consumer # None => q'.status[consumer] # "BLOCKED"
    BY <1>1, <2>1, <2>2, WakeSlotStep DEF InSlot
  <2>4. IoTypeOK'
    BY <1>1, <1>2, <2>1, NextPosType DEF IoInv, IoTypeOK
  <2>5. IoPoints'
    BY <1>1, <1>2, <2>1, ThreadsAssumption DEF IoInv, IoPoints, InLock, InSlot
  <2>6. Slots'
    <3>1. \A u \in Threads : io'[u] = IF u = t THEN "none" ELSE io[u]
      BY <1>2, <2>1
    <3>2. producer # None => producer \in Threads /\ io[producer] = "putslot"
      BY DEF IoInv, IoTypeOK, Slots, SlotsAsleep
    <3>3. SlotsAsleep'
      BY <1>1, <2>1, <2>2, <2>3, <3>1, <3>2
         DEF IoInv, Slots, SlotsAsleep, AsleepAsBefore
    <3>4. ASSUME NEW u \in Threads, q'.status[u] = "BLOCKED"
          PROVE  /\ io'[u] = "putslot" => producer' = u
                 /\ io'[u] = "getslot" => consumer' = u
      <4>1. u # consumer /\ q.status[u] = "BLOCKED"
        BY <2>3, <3>4, IoFacts DEF AsleepAsBefore
      <4>2. io'[u] \in InSlot => io[u] = io'[u]
        BY <3>1 DEF InSlot
      <4>3. QED
        BY <1>1, <4>1, <4>2 DEF IoInv, Slots, InSlot
    <3>5. QED
      BY <3>3, <3>4 DEF Slots
  <2>7. QED
    BY <2>3, <2>4, <2>5, <2>6 DEF IoInv
<1>5. QED
  BY <1>3, <1>4

\* ioQueueGet's test, and the byte it takes.
LEMMA GetStep ==
    ASSUME IoInv, NEW t \in Threads, ioQueueGet(t)
    PROVE  IoInv'
<1> USE DEF AtIo
<1>1. /\ t = q.cur /\ io[t] = "get" /\ pc[t] = "own" /\ held[t] = None /\ t # Idle
      /\ UNCHANGED <<head, consumer, value, wait, holder, pc, want, held, intr>>
  BY DEF ioQueueGet, IoInv, IoPoints
<1>2. /\ io \in [Threads -> {"none", "put", "putlock", "putslot",
                             "get", "getlock", "getslot"}]
      /\ data \in [Threads -> Bytes \cup {None}]
      /\ buff[tail] \in Bytes \cup {None}
  BY DEF IoInv, IoTypeOK
<1>3. CASE ioQueueEmpty
  <2>1. /\ io' = [io EXCEPT ![t] = "getlock"]
        /\ UNCHANGED <<q, buff, tail, producer, data>>
    BY <1>3 DEF ioQueueGet
  <2>2. ThreadInv'
    BY <1>1, <2>1, SameThreads DEF IoInv, threadVars
  <2>3. IoTypeOK'
    BY <1>1, <1>2, <2>1 DEF IoInv, IoTypeOK
  <2>4. IoPoints'
    BY <1>1, <1>2, <2>1, ThreadsAssumption DEF IoInv, IoPoints, InLock, InSlot
  <2>5. Slots'
    BY <1>1, <1>2, <2>1, SlotsKept DEF InSlot, AsleepAsBefore
  <2>6. QED
    BY <2>2, <2>3, <2>4, <2>5 DEF IoInv
<1>4. CASE ~ioQueueEmpty
  <2>1. /\ buff' = [buff EXCEPT ![tail] = None]
        /\ tail' = IOQUEUE_NEXTPOS(tail)
        /\ WakeSlot(producer) /\ producer' = None
        /\ io' = [io EXCEPT ![t] = "none"]
        /\ data' = [data EXCEPT ![t] = buff[tail]]
    BY <1>4 DEF ioQueueGet
  <2>2. /\ producer \in Threads \cup {None}
        /\ producer # None => /\ io[producer] = "putslot"
                              /\ q.status[producer] = "BLOCKED"
    BY DEF IoInv, IoTypeOK, Slots, SlotsAsleep
  <2>3. /\ ThreadInv'
        /\ \A u \in Threads \ {producer} : AsleepAsBefore(q', u)
        /\ producer # None => q'.status[producer] # "BLOCKED"
    BY <1>1, <2>1, <2>2, WakeSlotStep DEF InSlot
  <2>4. IoTypeOK'
    BY <1>1, <1>2, <2>1, NextPosType DEF IoInv, IoTypeOK
  <2>5. IoPoints'
    BY <1>1, <1>2, <2>1, ThreadsAssumption DEF IoInv, IoPoints, InLock, InSlot
  <2>6. Slots'
    <3>1. \A u \in Threads : io'[u] = IF u = t THEN "none" ELSE io[u]
      BY <1>2, <2>1
    <3>2. consumer # None => consumer \in Threads /\ io[consumer] = "getslot"
      BY DEF IoInv, IoTypeOK, Slots, SlotsAsleep
    <3>3. SlotsAsleep'
      BY <1>1, <2>1, <2>2, <2>3, <3>1, <3>2
         DEF IoInv, Slots, SlotsAsleep, AsleepAsBefore
    <3>4. ASSUME NEW u \in Threads, q'.status[u] = "BLOCKED"
          PROVE  /\ io'[u] = "putslot" => producer' = u
                 /\ io'[u] = "getslot" => consumer' = u
      <4>1. u # producer /\ q.status[u] = "BLOCKED"
        BY <2>3, <3>4, IoFacts DEF AsleepAsBefore
      <4>2. io'[u] \in InSlot => io[u] = io'[u]
        BY <3>1 DEF InSlot
      <4>3. QED
        BY <1>1, <4>1, <4>2 DEF IoInv, Slots, InSlot
    <3>5. QED
      BY <3>3, <3>4 DEF Slots
  <2>7. QED
    BY <2>3, <2>4, <2>5, <2>6 DEF IoInv
<1>5. QED
  BY <1>3, <1>4

\* In the SemaphoreDec of the queue's mutex: a thread that has to wait leaves
\* for the BlockList, but it is in no slot.
LEMMA LockStep ==
    ASSUME IoInv, NEW t, Testing(t, QueueLock), TakeOrWait(t, QueueLock),
           io[t] \in InLock, UNCHANGED <<holder, intr>>, UNCHANGED ioVars
    PROVE  IoInv'
<1>1. /\ t = q.cur /\ t \in Threads \ {Idle}
      /\ held[t] = None /\ pc[t] \in {"own", "dec"}
      /\ want \in [Threads -> Sems \cup {None}]
      /\ held \in [Threads -> Mutexes \cup {None}]
  BY IoQueueAssumption DEF Testing, IoInv, ThreadInv, TypeOK
<1>2. ThreadInv'
  BY TakeOrWaitStep DEF IoInv
<1>3. IoTypeOK'
  BY DEF IoInv, IoTypeOK, ioVars
<1>4. /\ \A u \in Threads \ {t} : pc'[u] = pc[u] /\ want'[u] = want[u] /\ held'[u] = held[u]
      /\ \/ pc'[t] = "dec2" /\ held'[t] = QueueLock
         \/ pc'[t] = "dec" /\ want'[t] = QueueLock /\ held'[t] = None
  BY <1>1, IoFacts DEF TakeOrWait
<1>5. IoPoints'
  BY <1>1, <1>4 DEF IoInv, IoPoints, ioVars, InLock, InSlot
<1>6. \A u \in Threads \ {Idle, t} : AsleepAsBefore(q', u)
  <2>1. CASE q' \in ThreadBlock(q, "BLOCKED")
    <3>1. "BLOCKED" \in OnBlockList
      BY DEF OnBlockList
    <3>2. Rescheduled(q, q')
      BY <2>1, <3>1, IoFacts, ThreadBlockConsistent
    <3>3. QED
      BY <1>1, <3>2, MovedAsleep DEF Rescheduled
  <2>2. QED
    BY <2>1 DEF TakeOrWait, AsleepAsBefore
<1>7. Slots'
  <2>1. \A u \in Threads : io[u] \in InSlot => u # Idle /\ u # t
    BY IdleNotInSlot DEF InLock, InSlot
  <2>2. QED
    BY <1>6, <2>1, SlotsKept DEF ioVars
<1>8. QED
  BY <1>2, <1>3, <1>5, <1>7 DEF IoInv

LEMMA AcquireStep ==
    ASSUME IoInv, NEW t \in Threads, IoAcquire(t)
    PROVE  IoInv'
<1>1. /\ io[t] \in InLock /\ t # Idle /\ SemaphoreDec(t, QueueLock)
      /\ UNCHANGED ioVars
  BY DEF IoAcquire, InLock, IoInv, IoPoints
<1>2. Testing(t, QueueLock) /\ TakeOrWait(t, QueueLock) /\ UNCHANGED <<holder, intr>>
  BY <1>1, IoFacts, SemaphoreDecTesting DEF IoInv
<1>3. QED
  BY <1>1, <1>2, LockStep

\* The thread goes to sleep in a slot, with the mutex: there was nobody in it.
LEMMA SleepInSlotStep ==
    ASSUME IoInv, NEW t \in Threads, IoSleep(t)
    PROVE  IoInv'
<1> USE DEF AtIo
<1>1. /\ t = q.cur /\ pc[t] = "own" /\ held[t] = QueueLock
      /\ \/ /\ io[t] = "putlock" /\ producer' = t /\ UNCHANGED consumer
            /\ io' = [io EXCEPT ![t] = "putslot"]
         \/ /\ io[t] = "getlock" /\ consumer' = t /\ UNCHANGED producer
            /\ io' = [io EXCEPT ![t] = "getslot"]
      /\ q' \in ThreadBlock(q, "BLOCKED")
      /\ UNCHANGED <<buff, head, tail, data, value, wait, holder, pc, want, held, intr>>
  BY DEF IoSleep
<1>2. /\ io \in [Threads -> {"none", "put", "putlock", "putslot",
                             "get", "getlock", "getslot"}]
      /\ t # Idle
  BY <1>1, IdleNotInSlot DEF IoInv, IoTypeOK, InLock
<1>3. /\ Rescheduled(q, q') /\ q'.status[t] = "BLOCKED"
  BY <1>1, <1>2, IoFacts, ThreadBlockConsistent DEF OnBlockList
<1>4. ThreadInv'
  BY <1>1, <1>3, IoFacts, RescheduledStep, QuietStep DEF IoInv
<1>5. IoTypeOK'
  BY <1>1, <1>2 DEF IoInv, IoTypeOK
<1>6. IoPoints'
  <2>1. /\ \A u \in Threads \ {t} : io'[u] = io[u]
        /\ \/ io[t] = "putlock" /\ io'[t] = "putslot"
           \/ io[t] = "getlock" /\ io'[t] = "getslot"
    BY <1>1, <1>2
  <2>2. QED
    BY <1>1, <1>2, <2>1, ThreadsAssumption DEF IoInv, IoPoints, InLock, InSlot
<1>7. \A u \in Threads \ {t} : io'[u] = io[u] /\ io[u] \notin InSlot
  BY <1>1, <1>2, OneInSlot
<1>8. \A u \in Threads : io[u] \notin InSlot
  BY <1>1, <1>7 DEF InSlot
<1>9. producer = None /\ consumer = None
  BY <1>8 DEF IoInv, IoTypeOK, Slots, SlotsAsleep, InSlot
<1>10. Slots'
  BY <1>1, <1>2, <1>3, <1>7, <1>9 DEF Slots, SlotsAsleep, InSlot
<1>11. QED
  BY <1>4, <1>5, <1>6, <1>10 DEF IoInv

\* A thread that runs is not in a slot any more, wherever it goes on.
LEMMA ReleaseStep ==
    ASSUME IoInv, NEW t \in Threads, IoRelease(t)
    PROVE  IoInv'
<1> USE DEF AtIo
<1>1. /\ t = q.cur /\ pc[t] = "own" /\ MutexReleaseHolder(t)
      /\ \/ io[t] = "putslot" /\ io' = [io EXCEPT ![t] = "put"]
         \/ io[t] = "getslot" /\ io' = [io EXCEPT ![t] = "get"]
      /\ UNCHANGED <<buff, head, tail, producer, consumer, data>>
  BY DEF IoRelease
<1>2. /\ io \in [Threads -> {"none", "put", "putlock", "putslot",
                             "get", "getlock", "getslot"}]
      /\ t # Idle
  BY <1>1, IdleNotInSlot DEF IoInv, IoTypeOK, InSlot
<1>3. /\ q' = q /\ pc' = [pc EXCEPT ![t] = "inc"]
      /\ UNCHANGED <<want, held>>
  BY <1>1 DEF MutexReleaseHolder
<1>4. ThreadInv'
  BY <1>1, MutexReleaseHolderStep DEF IoInv
<1>5. IoTypeOK'
  BY <1>1, <1>2 DEF IoInv, IoTypeOK
<1>6. IoPoints'
  <2>1. /\ \A u \in Threads \ {t} : io'[u] = io[u] /\ pc'[u] = pc[u]
        /\ pc'[t] = "inc"
        /\ \/ io[t] = "putslot" /\ io'[t] = "put"
           \/ io[t] = "getslot" /\ io'[t] = "get"
    BY <1>1, <1>2, <1>3, IoFacts
  <2>2. QED
    BY <1>1, <1>2, <1>3, <2>1, ThreadsAssumption DEF IoInv, IoPoints, InLock, InSlot
<1>7. q.status[t] # "BLOCKED" /\ producer # t /\ consumer # t
  BY <1>1, IoFacts DEF IoInv, Slots, SlotsAsleep
<1>8. Slots'
  <2>1. \A u \in Threads \ {t} : io'[u] = io[u]
    BY <1>1, <1>2
  <2>2. /\ producer # None => producer \in Threads \ {t}
        /\ consumer # None => consumer \in Threads \ {t}
    BY <1>7 DEF IoInv, IoTypeOK
  <2>3. QED
    BY <1>1, <1>3, <1>7, <2>1, <2>2 DEF IoInv, Slots, SlotsAsleep
<1>9. QED
  BY <1>4, <1>5, <1>6, <1>8 DEF IoInv

\* The mutex operations in between.
LEMMA MutexStep ==
    ASSUME IoInv, NEW t \in Threads, InPrimitive(t), UNCHANGED ioVars
    PROVE  IoInv'
<1>1. CASE SemaphoreDecAgain(t)
  <2>1. io[t] \in InLock /\ want[t] = QueueLock
    BY <1>1 DEF SemaphoreDecAgain, IoInv, IoPoints
  <2>2. QED
    BY <1>1, <2>1, SemaphoreDecAgainTesting, LockStep DEF IoInv
<1>2. CASE MutexAcquireHolder(t)
  <2>1. /\ q' = q /\ pc[t] = "dec2" /\ pc' = [pc EXCEPT ![t] = "own"]
        /\ UNCHANGED <<want, held>>
    BY <1>2 DEF MutexAcquireHolder
  <2>2. io[t] \in InLock
    BY <2>1 DEF IoInv, IoPoints
  <2>3. ThreadInv'
    BY <1>2, MutexAcquireHolderStep DEF IoInv
  <2>4. IoPoints'
    BY <2>1, <2>2, IoFacts DEF IoInv, IoPoints, ioVars, InLock, InSlot
  <2>5. Slots'
    BY <2>1, SlotsKept DEF ioVars, AsleepAsBefore
  <2>6. QED
    BY <2>3, <2>4, <2>5 DEF IoInv, IoTypeOK, ioVars
<1>3. CASE MutexReleaseInc(t)
  <2>1. /\ pc[t] = "inc" /\ pc' = [pc EXCEPT ![t] = "own"]
        /\ held' = [held EXCEPT ![t] = None] /\ want' = want
        /\ SemaphoreInc(held[t]) /\ held[t] = QueueLock
        /\ held \in [Threads -> Mutexes \cup {None}]
    BY <1>3 DEF MutexReleaseInc, IoInv, IoPoints, ThreadInv, TypeOK, Points
  <2>2. io[t] \in {"put", "get"}
    BY <2>1 DEF IoInv, IoPoints
  <2>3. ThreadInv'
    BY <1>3, MutexReleaseIncStep DEF IoInv
  <2>4. IoPoints'
    BY <2>1, <2>2, IoFacts DEF IoInv, IoPoints, ioVars, InLock, InSlot
  <2>5. \A u \in Threads : io[u] \in InSlot => AsleepAsBefore(q', u)
    <3>1. CASE wait[QueueLock] = << >>
      BY <2>1, <3>1 DEF SemaphoreInc, AsleepAsBefore
    <3>2. CASE wait[QueueLock] # << >>
      <4> DEFINE h == Head(wait[QueueLock])
      <4>1. q' = ThreadUnBlock(q, h) /\ h \in Waiting(QueueLock)
        BY <2>1, <3>2, IoFacts, WaitersFacts, TailElements
           DEF SemaphoreInc, IoInv, ThreadInv, TypeOK
      <4> HIDE DEF h
      <4>2. h \in Threads /\ q.status[h] = "BLOCKED" /\ pc[h] = "dec"
        BY <4>1, IoFacts, WaitersFacts DEF IoInv
      <4>3. \A u \in Threads \ {h} : q'.status[u] = q.status[u]
        BY <4>1, <4>2, IoFacts, UnBlockConsistent DEF OnBlockList
      <4>4. \A u \in Threads : io[u] \in InSlot => u # h
        BY <4>2 DEF IoInv, IoPoints
      <4>5. QED
        BY <4>3, <4>4 DEF AsleepAsBefore
    <3>3. QED
      BY <3>1, <3>2
  <2>6. Slots'
    BY <2>5, SlotsKept DEF ioVars
  <2>7. QED
    BY <2>3, <2>4, <2>6 DEF IoInv, IoTypeOK, ioVars
<1>4. QED
  BY <1>1, <1>2, <1>3 DEF InPrimitive

\* All of ioQueuePut and ioQueueGet.
LEMMA IoStepInv ==
    ASSUME IoInv, NEW t \in Threads, IoStep(t),
           t = Idle => io[t] # "put" \/ ~ioQueueFull
    PROVE  IoInv'
<1>1. CASE ioQueuePut(t)
  BY <1>1, PutStep DEF ioQueuePut, AtIo
<1>2. QED
  BY <1>1, GetStep, AcquireStep, SleepInSlotStep, ReleaseStep, MutexStep DEF IoStep

-----------------------------------------------------------------------------

\* A step of the program around the procedures: a call begins, or nothing of
\* the queue changes.
LEMMA OutsideStep ==
    ASSUME IoInv, ThreadInv', NEW t \in Threads,
           UNCHANGED <<buff, head, tail, producer, consumer, want, held>>,
           \A u \in Threads : io[u] \in InSlot => AsleepAsBefore(q', u),
           \A u \in Threads : pc'[u] = pc[u] \/ /\ {pc[u], pc'[u]} \subseteq {"own", "loop", "hlt"}
                                                /\ io[u] \notin InSlot,
           \/ io' = io /\ data' = data
           \/ /\ io[t] = "none"
              /\ \/ \E b \in Bytes : CallPut(t, b)
                 \/ t # Idle /\ CallGet(t)
                 \/ io' = io /\ data' = [data EXCEPT ![t] = None]
    PROVE  IoInv'
<1>1. /\ io \in [Threads -> {"none", "put", "putlock", "putslot",
                             "get", "getlock", "getslot"}]
      /\ data \in [Threads -> Bytes \cup {None}]
  BY DEF IoInv, IoTypeOK
<1>2. /\ \A u \in Threads \ {t} : io'[u] = io[u] /\ data'[u] = data[u]
      /\ \/ io'[t] = io[t] /\ data'[t] = data[t]
         \/ /\ io[t] = "none"
            /\ \/ io'[t] = "put" /\ data'[t] \in Bytes
               \/ io'[t] = "get" /\ t # Idle
               \/ io'[t] = "none"
  BY <1>1 DEF CallPut, CallGet
<1>3. IoTypeOK'
  BY <1>1 DEF IoInv, IoTypeOK, CallPut, CallGet
<1>4. IoPoints'
  <2>1. ASSUME NEW u \in Threads
        PROVE  /\ pc'[u] = "inc" <=> pc[u] = "inc"
               /\ pc'[u] \in {"dec", "dec2"} => pc'[u] = pc[u]
               /\ io[u] \in InSlot => pc'[u] = pc[u]
    BY DEF InSlot
  <2>2. io'[Idle] \in {"none", "put"}
    BY <1>2, ThreadsAssumption DEF IoInv, IoPoints
  <2>3. QED
    BY <1>2, <2>1, <2>2 DEF IoInv, IoPoints, InLock, InSlot
<1>5. Slots'
  BY <1>2, SlotsKept DEF InSlot
<1>6. QED
  BY <1>3, <1>4, <1>5 DEF IoInv

\* It all holds at the start.
LEMMA IoInitInv ==
    ASSUME Init, IoInit
    PROVE  IoInv
<1> USE ThreadsAssumption, ThreadAssumption, IoQueueAssumption
<1>1. ThreadInv
  BY InitIndInv DEF IndInv
<1>2. IoTypeOK
  BY DEF IoInit, IoTypeOK
<1>3. IoPoints
  BY DEF Init, IoInit, IoPoints, InLock, InSlot
<1>4. Slots
  BY DEF IoInit, Slots, SlotsAsleep
<1>5. QED
  BY <1>1, <1>2, <1>3, <1>4 DEF IoInv

-----------------------------------------------------------------------------

\* The positions of the ring: what is taken modulo its length is less than
\* twice that.
LEMMA Wraps ==
    ASSUME NEW x \in 0 .. 2 * QueueLen - 1
    PROVE  x % QueueLen = IF x < QueueLen THEN x ELSE x - QueueLen
<1>1. \A n \in Nat \ {0} : \A y \in 0 .. n - 1 : y % n = y
  OBVIOUS
<1>2. \A n \in Nat \ {0} : \A y \in n .. 2 * n - 1 : y % n = y - n
  OBVIOUS
<1>3. QED
  BY <1>1, <1>2, IoQueueAssumption

\* IOQUEUE_NEXTPOS, without the modulus.
LEMMA NextPos ==
    ASSUME NEW x \in 0 .. QueueLen - 1
    PROVE  IOQUEUE_NEXTPOS(x) = IF x = QueueLen - 1 THEN 0 ELSE x + 1
BY Wraps, IoQueueAssumption DEF IOQUEUE_NEXTPOS

\* The two tests of the queue, in terms of its length.
LEMMA LenFacts ==
    ASSUME IoTypeOK
    PROVE  /\ ioQueueLen \in 0 .. QueueLen - 1
           /\ ioQueueEmpty <=> ioQueueLen = 0
           /\ ioQueueFull <=> ioQueueLen = QueueLen - 1
<1>1. head \in 0 .. QueueLen - 1 /\ tail \in 0 .. QueueLen - 1
  BY DEF IoTypeOK
<1>2. QED
  BY <1>1, NextPos, IoQueueAssumption DEF ioQueueLen, ioQueueEmpty, ioQueueFull

\* A byte goes in, a byte comes out.
LEMMA LenAfterPut ==
    ASSUME IoTypeOK, ~ioQueueFull, head' = IOQUEUE_NEXTPOS(head), tail' = tail
    PROVE  ioQueueLen' = ioQueueLen + 1
<1>1. head \in 0 .. QueueLen - 1 /\ tail \in 0 .. QueueLen - 1
  BY DEF IoTypeOK
<1>2. QED
  BY <1>1, NextPos, IoQueueAssumption DEF ioQueueLen, ioQueueFull

LEMMA LenAfterGet ==
    ASSUME IoTypeOK, ~ioQueueEmpty, tail' = IOQUEUE_NEXTPOS(tail), head' = head
    PROVE  ioQueueLen' = ioQueueLen - 1
<1>1. head \in 0 .. QueueLen - 1 /\ tail \in 0 .. QueueLen - 1
  BY DEF IoTypeOK
<1>2. QED
  BY <1>1, NextPos, IoQueueAssumption DEF ioQueueLen, ioQueueEmpty

\* Where the i-th byte of the queue is.
Place(i) == LET x == tail + i - 1 IN IF x < QueueLen THEN x ELSE x - QueueLen

InOrder ==
    /\ Contents \in Seq(Bytes \cup {None}) /\ Len(Contents) = ioQueueLen
    /\ \A i \in 1 .. ioQueueLen : Contents[i] = buff[Place(i)]

LEMMA ContentsAt == IoTypeOK => InOrder
<1> SUFFICES ASSUME IoTypeOK PROVE InOrder
  OBVIOUS
<1>1. /\ tail \in 0 .. QueueLen - 1 /\ ioQueueLen \in 0 .. QueueLen - 1
      /\ buff \in [0 .. QueueLen - 1 -> Bytes \cup {None}]
  BY LenFacts DEF IoTypeOK
<1>2. ASSUME NEW i \in 1 .. ioQueueLen
      PROVE  /\ Place(i) \in 0 .. QueueLen - 1
             /\ (tail + i - 1) % QueueLen = Place(i)
  <2>1. tail + i - 1 \in 0 .. 2 * QueueLen - 1
    BY <1>1, IoQueueAssumption
  <2>2. (tail + i - 1) % QueueLen = Place(i)
    BY <2>1, Wraps, Zenon DEF Place
  <2>3. QED
    BY <1>1, <2>1, <2>2, IoQueueAssumption DEF Place
<1>3. \A i \in 1 .. ioQueueLen : Contents[i] = buff[Place(i)]
  BY <1>2 DEF Contents
<1>4. Contents \in [1 .. ioQueueLen -> Bytes \cup {None}]
  BY <1>1, <1>2 DEF Contents
<1>5. QED
  BY <1>1, <1>2, <1>3, <1>4 DEF InOrder

LEMMA ContentsNext == IoTypeOK' => InOrder'
BY ContentsAt, PTL

\* A byte that is put is the last of the queue.
LEMMA PutAppends ==
    ASSUME IoTypeOK, IoTypeOK', ~ioQueueFull, NEW b,
           buff' = [buff EXCEPT ![head] = b],
           head' = IOQUEUE_NEXTPOS(head), tail' = tail
    PROVE  Contents' = Append(Contents, b)
<1>1. /\ head \in 0 .. QueueLen - 1 /\ tail \in 0 .. QueueLen - 1
      /\ buff \in [0 .. QueueLen - 1 -> Bytes \cup {None}]
      /\ ioQueueLen \in 0 .. QueueLen - 1
  BY LenFacts DEF IoTypeOK
<1>2. ioQueueLen' = ioQueueLen + 1
  BY LenAfterPut
<1>3. /\ Contents \in Seq(Bytes \cup {None}) /\ Len(Contents) = ioQueueLen
      /\ Contents' \in Seq(Bytes \cup {None}) /\ Len(Contents') = ioQueueLen + 1
      /\ \A i \in 1 .. ioQueueLen : Contents[i] = buff[Place(i)]
      /\ \A i \in 1 .. ioQueueLen + 1 : Contents'[i] = buff'[Place(i)]
  <2>1. InOrder /\ InOrder'
    BY ContentsAt, ContentsNext
  <2>2. \A i : Place(i)' = Place(i)
    BY DEF Place
  <2>3. QED
    BY <1>2, <2>1, <2>2 DEF InOrder
<1>4. Place(ioQueueLen + 1) = head
  BY <1>1, IoQueueAssumption DEF Place, ioQueueLen
<1>5. ASSUME NEW i \in 1 .. ioQueueLen
      PROVE  Place(i) # head /\ Place(i) \in 0 .. QueueLen - 1
  BY <1>1, IoQueueAssumption DEF Place, ioQueueLen
<1>6. \A i \in 1 .. ioQueueLen + 1 :
          Contents'[i] = IF i = ioQueueLen + 1 THEN b ELSE Contents[i]
  BY <1>1, <1>3, <1>4, <1>5
<1>7. QED
  BY <1>1, <1>3, <1>6

\* A byte that is got was the first.
LEMMA GetTakesFirst ==
    ASSUME IoTypeOK, IoTypeOK', ~ioQueueEmpty,
           buff' = [buff EXCEPT ![tail] = None],
           tail' = IOQUEUE_NEXTPOS(tail), head' = head
    PROVE  /\ Contents # << >> /\ buff[tail] = Head(Contents)
           /\ Contents' = Tail(Contents)
<1>1. /\ head \in 0 .. QueueLen - 1 /\ tail \in 0 .. QueueLen - 1
      /\ buff \in [0 .. QueueLen - 1 -> Bytes \cup {None}]
      /\ ioQueueLen \in 1 .. QueueLen - 1
  BY LenFacts DEF IoTypeOK
<1>2. ioQueueLen' = ioQueueLen - 1
  BY LenAfterGet
<1>3. /\ Contents \in Seq(Bytes \cup {None}) /\ Len(Contents) = ioQueueLen
      /\ Contents' \in Seq(Bytes \cup {None}) /\ Len(Contents') = ioQueueLen - 1
      /\ \A i \in 1 .. ioQueueLen : Contents[i] = buff[Place(i)]
      /\ \A i \in 1 .. ioQueueLen - 1 : Contents'[i] = buff'[Place(i)']
  <2>1. InOrder /\ InOrder'
    BY ContentsAt, ContentsNext
  <2>2. QED
    BY <1>2, <2>1 DEF InOrder
<1>4. Place(1) = tail
  BY <1>1, IoQueueAssumption DEF Place
<1>5. ASSUME NEW i \in 1 .. ioQueueLen - 1
      PROVE  /\ Place(i)' = Place(i + 1) /\ Place(i + 1) # tail
             /\ Place(i + 1) \in 0 .. QueueLen - 1
  <2>1. tail' = IF tail = QueueLen - 1 THEN 0 ELSE tail + 1
    BY <1>1, NextPos
  <2>2. QED
    BY <1>1, <2>1, IoQueueAssumption DEF Place, ioQueueLen
<1>6. \A i \in 1 .. ioQueueLen - 1 : Contents'[i] = Contents[i + 1]
  BY <1>1, <1>3, <1>5
<1>7. Contents' = Tail(Contents)
  BY <1>1, <1>3, <1>6
<1>8. QED
  BY <1>1, <1>3, <1>4, <1>7
-----------------------------------------------------------------------------

\* The procedures concern the running thread, which goes on in the one it is in.
LEMMA IoStepFrame ==
    ASSUME IoInv, NEW t \in Threads, IoStep(t)
    PROVE  /\ t = q.cur /\ intr' = intr
           /\ \A u \in Threads \ {t} : io'[u] = io[u]
           /\ io[t] = "none" => io'[t] = "none"
           /\ io[t] \in {"put", "putlock", "putslot"}
                => io'[t] \in {"none", "put", "putlock", "putslot"}
           /\ io[t] \in {"get", "getlock", "getslot"}
                => io'[t] \in {"none", "get", "getlock", "getslot"}
<1>1. io \in [Threads -> {"none", "put", "putlock", "putslot",
                          "get", "getlock", "getslot"}]
  BY DEF IoInv, IoTypeOK
<1>2. CASE ioQueuePut(t) \/ ioQueueGet(t)
  BY <1>1, <1>2 DEF ioQueuePut, ioQueueGet, AtIo
<1>3. CASE IoAcquire(t)
  BY <1>3 DEF IoAcquire, SemaphoreDec, At, ioVars
<1>4. CASE IoSleep(t) \/ IoRelease(t)
  BY <1>1, <1>4 DEF IoSleep, IoRelease, MutexReleaseHolder, AtIo
<1>5. CASE InPrimitive(t) /\ UNCHANGED ioVars
  BY <1>5 DEF InPrimitive, SemaphoreDecAgain, MutexAcquireHolder, MutexReleaseInc, ioVars
<1>6. QED
  BY <1>2, <1>3, <1>4, <1>5 DEF IoStep

\* The timer and the idle loop leave the threads in the slots asleep.
LEMMA BackgroundStep ==
    ASSUME IoInv, IdleLoop \/ Timer, UNCHANGED ioVars
    PROVE  IoInv' /\ intr' = intr
<1> USE ThreadsAssumption
<1>1. ThreadInv'
  BY IdleLoopStep, TimerInterruptStep DEF IoInv
<1>2. UNCHANGED <<want, held, intr>>
  BY DEF IdleLoop, Timer
<1>3. \A u \in Threads \ {Idle} : AsleepAsBefore(q', u)
  <2>1. CASE IdleLoop
    <3>1. q' \in ThreadBlock(q, "BLOCKED") /\ q.cur = Idle /\ "BLOCKED" \in OnBlockList
      BY <2>1 DEF IdleLoop, OnBlockList
    <3>2. Rescheduled(q, q')
      BY <3>1, IoFacts, ThreadBlockConsistent
    <3>3. QED
      BY <3>1, <3>2, MovedAsleep DEF Rescheduled
  <2>2. CASE Timer
    BY <2>2, IoFacts, TimerMoves, MovedAsleep DEF Timer
  <2>3. QED
    BY <2>1, <2>2
<1>4. \A u \in Threads : io[u] \in InSlot => AsleepAsBefore(q', u)
  BY <1>3, IdleNotInSlot
<1>5. \A u \in Threads : pc'[u] = pc[u] \/ /\ {pc[u], pc'[u]} \subseteq {"own", "loop", "hlt"}
                                           /\ io[u] \notin InSlot
  <2>1. \A u \in Threads : pc[u] = "hlt" => u = Idle /\ io[u] \notin InSlot
    BY IdleNotInSlot DEF IoInv, ThreadInv, Points
  <2>2. io[Idle] \notin InSlot
    BY IdleNotInSlot
  <2>3. QED
    BY <2>1, <2>2, IoFacts DEF IdleLoop, Timer, AfterInterrupt
<1>6. io' = io /\ data' = data /\ UNCHANGED <<buff, head, tail, producer, consumer>>
  BY DEF ioVars
<1>7. IoInv'
  BY <1>1, <1>2, <1>4, <1>5, <1>6, OutsideStep
<1>8. QED
  BY <1>2, <1>7

-----------------------------------------------------------------------------
(***************************************************************************)
(* Pipe, for every number of bytes a call may ask for.  What the ring      *)
(* buffer promises holds for any number of readers and writers; that a     *)
(* reader never sleeps and nobody is stranded is proved for one reader and *)
(* one writer, OneEach, as the shell connects them.                        *)
(***************************************************************************)

Users == Writers \cup Readers

\* A process is in ioQueuePut or ioQueueGet only in the system call that is
\* meant for it, and that runs with interrupts off.
Calls ==
    /\ \A t \in Threads \ Users : io[t] = "none"
    /\ \A t \in Users : /\ call[t] = "user" => io[t] = "none"
                        /\ call[t] # "user" => ~intr[t]
    /\ \A t \in Writers : /\ call[t] \in {"user", "write"}
                          /\ io[t] \in {"none", "put", "putlock", "putslot"}
    /\ \A t \in Readers : /\ call[t] \in {"user", "read"}
                          /\ io[t] \in {"none", "get", "getlock", "getslot"}

PipeInv == IoInv /\ PipeTypeOK /\ Calls

-----------------------------------------------------------------------------

\* What the steps below need of the constants and types.
LEMMA PipeFacts ==
    ASSUME PipeInv
    PROVE  /\ IoInv /\ IoTypeOK /\ ThreadInv
           /\ \A t \in Users : t \in Threads \ {Idle} /\ t \in Processes
           /\ \A t \in Writers : t \notin Readers
           /\ intr \in [Threads -> BOOLEAN]
           /\ io \in [Threads -> {"none", "put", "putlock", "putslot",
                                  "get", "getlock", "getslot"}]
           /\ call \in [Users -> {"user", "write", "read"}]
           /\ cnt \in [Users -> 0 .. MaxCount]
           /\ ioQueueLen \in 0 .. QueueLen - 1
           /\ QueueLen \in Nat /\ MaxCount \in Nat
BY PipeAssumption, IoQueueAssumption, LenFacts, IoFacts
   DEF PipeInv, IoInv, PipeTypeOK, IoTypeOK, Users, Processes

\* A call begins.
LEMMA BeginStep ==
    ASSUME PipeInv, NEW t \in Users, NEW n \in 0 .. MaxCount,
           \/ t \in Writers /\ Begin(t, "write", n)
           \/ t \in Readers /\ Begin(t, "read", n)
    PROVE  PipeInv'
<1>1. /\ SyscallEnter(t) /\ UNCHANGED ioVars /\ call[t] = "user"
      /\ cnt' = [cnt EXCEPT ![t] = n]
      /\ \/ t \in Writers /\ call' = [call EXCEPT ![t] = "write"]
         \/ t \in Readers /\ call' = [call EXCEPT ![t] = "read"]
  BY DEF Begin
<1>2. t \in Threads /\ ThreadInv'
  BY <1>1, PipeFacts, SyscallStep
<1>3. /\ UNCHANGED <<q, pc, want, held>> /\ intr' = [intr EXCEPT ![t] = FALSE]
  BY <1>1 DEF SyscallEnter
<1>4. IoInv'
  BY <1>1, <1>2, <1>3, PipeFacts, OutsideStep DEF ioVars, AsleepAsBefore
<1>5. PipeTypeOK'
  BY <1>1, <1>4, PipeFacts DEF IoInv, ThreadInv, PipeTypeOK, Users
<1>6. Calls'
  <2>1. \A u \in Users \ {t} : call'[u] = call[u] /\ intr'[u] = intr[u]
    BY <1>1, <1>3, PipeFacts
  <2>2. ~intr'[t] /\ call'[t] = IF t \in Writers THEN "write" ELSE "read"
    BY <1>1, <1>3, PipeFacts
  <2>3. io' = io
    BY <1>1 DEF ioVars
  <2>4. QED
    BY <2>1, <2>2, <2>3, PipeFacts DEF PipeInv, Calls, Users
<1>7. QED
  BY <1>4, <1>5, <1>6 DEF PipeInv

\* A turn of its loop.
LEMMA MoveByteStep ==
    ASSUME PipeInv, NEW t \in Users, MoveByte(t)
    PROVE  PipeInv'
<1>1. /\ UNCHANGED <<threadVars, buff, head, tail, producer, consumer, call>>
      /\ t \in Threads /\ t # Idle
      /\ io[t] = "none" /\ cnt[t] > 0 /\ cnt' = [cnt EXCEPT ![t] = @ - 1]
      /\ \/ call[t] = "write" /\ \E b \in Bytes : CallPut(t, b)
         \/ call[t] = "read" /\ CallGet(t)
  BY PipeFacts DEF MoveByte, OutsideIo, AtIo
<1>2. UNCHANGED <<q, pc, want, held, intr>> /\ ThreadInv'
  BY <1>1, PipeFacts, SameThreads DEF threadVars
<1>3. IoInv'
  BY <1>1, <1>2, PipeFacts, OutsideStep DEF AsleepAsBefore
<1>4. PipeTypeOK'
  BY <1>1, <1>3, PipeFacts DEF IoInv, ThreadInv, PipeTypeOK, Users
<1>5. Calls'
  <2>1. /\ \A u \in Threads \ {t} : io'[u] = io[u]
        /\ io'[t] = IF call[t] = "write" THEN "put" ELSE "get"
    BY <1>1, PipeFacts DEF CallPut, CallGet
  <2>2. QED
    BY <1>1, <1>2, <2>1, PipeFacts DEF PipeInv, Calls, Users
<1>6. QED
  BY <1>3, <1>4, <1>5 DEF PipeInv

\* The call returns.
LEMMA EndStep ==
    ASSUME PipeInv, NEW t \in Users, End(t)
    PROVE  PipeInv'
<1>1. /\ SyscallReturn(t) /\ t \in Threads /\ io[t] = "none"
      /\ call' = [call EXCEPT ![t] = "user"]
      /\ data' = [data EXCEPT ![t] = None]
      /\ UNCHANGED <<buff, head, tail, producer, consumer, io, cnt>>
  BY PipeFacts DEF End, OutsideIo, AtIo
<1>2. ThreadInv'
  BY <1>1, PipeFacts, SyscallStep
<1>3. /\ UNCHANGED <<q, pc, want, held>> /\ intr' = [intr EXCEPT ![t] = TRUE]
  BY <1>1 DEF SyscallReturn
<1>4. IoInv'
  BY <1>1, <1>2, <1>3, PipeFacts, OutsideStep DEF AsleepAsBefore
<1>5. PipeTypeOK'
  BY <1>1, <1>4, PipeFacts DEF IoInv, ThreadInv, PipeTypeOK, Users
<1>6. Calls'
  <2>1. /\ \A u \in Users \ {t} : call'[u] = call[u] /\ intr'[u] = intr[u]
        /\ call'[t] = "user"
    BY <1>1, <1>3, PipeFacts
  <2>2. QED
    BY <1>1, <2>1, PipeFacts DEF PipeInv, Calls, Users
<1>7. QED
  BY <1>4, <1>5, <1>6 DEF PipeInv

\* Inside ioQueuePut and ioQueueGet.
LEMMA PipeIoStepInv ==
    ASSUME PipeInv, NEW t \in Threads, PipeIoStep(t)
    PROVE  PipeInv'
<1>1. IoStep(t) /\ UNCHANGED <<call, cnt>>
  BY DEF PipeIoStep, pipeVars
<1>2. t = Idle => io[t] = "none"
  BY PipeFacts DEF PipeInv, Calls
<1>3. IoInv'
  BY <1>1, <1>2, PipeFacts, IoStepInv
<1>4. PipeTypeOK'
  BY <1>1, <1>3, PipeFacts DEF IoInv, ThreadInv, PipeTypeOK, Users
<1>5. Calls'
  BY <1>1, PipeFacts, IoStepFrame DEF PipeInv, Calls, Users
<1>6. QED
  BY <1>3, <1>4, <1>5 DEF PipeInv

\* Every step of Pipe.
LEMMA PipeNextInv == PipeInv /\ [PipeNext]_allVars => PipeInv'
<1> SUFFICES ASSUME PipeInv, [PipeNext]_allVars PROVE PipeInv'
  OBVIOUS
<1>1. CASE \E t \in Writers : pipe_write(t)
  <2>1. PICK t \in Writers, n \in 1 .. MaxCount : Begin(t, "write", MIN(n, QueueLen - ioQueueLen))
    BY <1>1 DEF pipe_write
  <2>2. MIN(n, QueueLen - ioQueueLen) \in 0 .. MaxCount
    BY PipeFacts DEF MIN
  <2>3. QED
    BY <2>1, <2>2, BeginStep DEF Users
<1>2. CASE \E t \in Readers : pipe_read(t)
  <2>1. PICK t \in Readers, n \in 1 .. MaxCount : Begin(t, "read", MIN(n, ioQueueLen))
    BY <1>2 DEF pipe_read
  <2>2. MIN(n, ioQueueLen) \in 0 .. MaxCount
    BY PipeFacts DEF MIN
  <2>3. QED
    BY <2>1, <2>2, BeginStep DEF Users
<1>3. CASE \E t \in Writers \cup Readers : InCall(t)
  BY <1>3, MoveByteStep, EndStep DEF InCall, Users
<1>4. CASE \E t \in Threads : PipeIoStep(t)
  BY <1>4, PipeIoStepInv
<1>5. CASE (IdleLoop \/ Timer) /\ UNCHANGED <<ioVars, pipeVars>>
  <2>1. IoInv' /\ UNCHANGED <<intr, io, call, cnt>>
    BY <1>5, PipeFacts, BackgroundStep DEF ioVars, pipeVars
  <2>2. PipeTypeOK'
    BY <2>1 DEF IoInv, ThreadInv, PipeInv, PipeTypeOK
  <2>3. QED
    BY <2>1, <2>2 DEF PipeInv, Calls
<1>6. CASE UNCHANGED allVars
  <2>1. UNCHANGED <<q, pc, want, held, intr, ioVars, call, cnt>> /\ ThreadInv'
    BY <1>6, PipeFacts, SameThreads DEF allVars, threadVars, pipeVars
  <2>2. q.cur \in Threads
    BY PipeFacts, IoFacts
  <2>3. IoInv'
    BY <2>1, <2>2, PipeFacts, OutsideStep DEF ioVars, AsleepAsBefore
  <2>4. PipeTypeOK'
    BY <2>1, <2>3 DEF IoInv, ThreadInv, PipeInv, PipeTypeOK
  <2>5. QED
    BY <2>1, <2>3, <2>4 DEF PipeInv, Calls, ioVars
<1>7. QED
  BY <1>1, <1>2, <1>3, <1>4, <1>5, <1>6 DEF PipeNext

LEMMA PipeInitInv == PipeInit => PipeInv
<1> SUFFICES ASSUME PipeInit PROVE PipeInv
  OBVIOUS
<1>1. IoInv
  BY IoInitInv DEF PipeInit
<1>2. PipeTypeOK
  BY <1>1, PipeAssumption DEF IoInv, ThreadInv, PipeTypeOK, PipeInit
<1>3. Calls
  BY PipeAssumption DEF Calls, Users, PipeInit, IoInit, Processes
<1>4. QED
  BY <1>1, <1>2, <1>3 DEF PipeInv

\* The inductive invariant holds throughout.
THEOREM PipeInvHolds == PipeSpec => []PipeInv
BY PipeInitInv, PipeNextInv, PTL DEF PipeSpec

\* The threads that ioQueuePut and ioQueueGet wake are asleep in their slots,
\* however many readers and writers share the pipe.
THEOREM PipeSlotsAsleep == PipeSpec => []SlotsAsleep
<1>1. PipeInv => SlotsAsleep
  BY DEF PipeInv, IoInv, Slots
<1>2. QED
  BY <1>1, PipeInvHolds, PTL
-----------------------------------------------------------------------------

\* A step that leaves the buffer and its two positions alone leaves the queue.
LEMMA SameContents ==
    ASSUME UNCHANGED <<buff, head, tail>>
    PROVE  Contents' = Contents
BY DEF Contents, ioQueueLen

\* A byte put is a Put, a byte got a Get, and nothing else changes the queue.
LEMMA PipeStepRefines ==
    ASSUME PipeInv, PipeInv', [PipeNext]_allVars
    PROVE  [Ring!Next]_Contents
<1>1. IoTypeOK /\ IoTypeOK'
  BY DEF PipeInv, IoInv
<1>2. CASE UNCHANGED <<buff, head, tail>>
  BY <1>2, SameContents
<1>3. ASSUME NEW t \in Threads, ioQueuePut(t)
      PROVE  [Ring!Next]_Contents
  <2>1. CASE ioQueueFull
    BY <1>2, <1>3, <2>1 DEF ioQueuePut
  <2>2. CASE ~ioQueueFull
    <3>1. /\ buff' = [buff EXCEPT ![head] = data[t]]
          /\ head' = IOQUEUE_NEXTPOS(head) /\ tail' = tail
      BY <1>3, <2>2 DEF ioQueuePut
    <3>2. data[t] \in Bytes
      BY <1>3 DEF ioQueuePut, AtIo, PipeInv, IoInv, IoPoints
    <3>3. Contents' = Append(Contents, data[t])
      BY <1>1, <2>2, <3>1, PutAppends
    <3>4. Len(Contents) = ioQueueLen /\ ioQueueLen \in 0 .. QueueLen - 1
          /\ ioQueueLen # QueueLen - 1
      BY <1>1, <2>2, ContentsAt, LenFacts DEF InOrder
    <3>5. Len(Contents) < QueueLen - 1
      BY <3>4, IoQueueAssumption
    <3>6. QED
      BY <3>2, <3>3, <3>5 DEF Ring!Next, Ring!Put
  <2>3. QED
    BY <2>1, <2>2
<1>4. ASSUME NEW t \in Threads, ioQueueGet(t)
      PROVE  [Ring!Next]_Contents
  <2>1. CASE ioQueueEmpty
    BY <1>2, <1>4, <2>1 DEF ioQueueGet
  <2>2. CASE ~ioQueueEmpty
    <3>1. /\ buff' = [buff EXCEPT ![tail] = None]
          /\ tail' = IOQUEUE_NEXTPOS(tail) /\ head' = head
      BY <1>4, <2>2 DEF ioQueueGet
    <3>2. Contents # << >> /\ Contents' = Tail(Contents)
      BY <1>1, <2>2, <3>1, GetTakesFirst
    <3>3. QED
      BY <3>2 DEF Ring!Next, Ring!Get
  <2>3. QED
    BY <2>1, <2>2
<1>5. ASSUME NEW t \in Threads, IoStep(t)
      PROVE  [Ring!Next]_Contents
  BY <1>2, <1>3, <1>4, <1>5
     DEF IoStep, IoAcquire, IoSleep, IoRelease, ioVars
<1>6. CASE \E t \in Threads : PipeIoStep(t)
  BY <1>5, <1>6 DEF PipeIoStep
<1>7. CASE ~ \E t \in Threads : PipeIoStep(t)
  BY <1>2, <1>7 DEF PipeNext, pipe_write, pipe_read, Begin, InCall, MoveByte, End,
                    ioVars, allVars
<1>8. QED
  BY <1>6, <1>7

\* The queue starts empty.
LEMMA PipeInitRefines == PipeInit => Ring!Init
<1> SUFFICES ASSUME PipeInit PROVE Ring!Init
  OBVIOUS
<1>1. IoTypeOK /\ head = tail
  BY PipeInitInv DEF PipeInv, IoInv, PipeInit, IoInit
<1>2. Contents \in Seq(Bytes \cup {None}) /\ Len(Contents) = 0
  BY <1>1, ContentsAt, LenFacts DEF InOrder, ioQueueEmpty
<1>3. QED
  BY <1>2 DEF Ring!Init

\* Bytes come out in the order they went in, none lost, none made up, with any
\* number of readers and writers asleep or awake.
THEOREM PipeIsAFifo == PipeSpec => ImplementsFifo
<1>1. PipeInv /\ PipeInv' /\ [PipeNext]_allVars => [Ring!Next]_Contents
  BY PipeStepRefines
<1>2. QED
  BY <1>1, PipeInitRefines, PipeInvHolds, PTL DEF PipeSpec, ImplementsFifo, Ring!Spec

-----------------------------------------------------------------------------

\* A pipe between two processes.
OneEach ==
    /\ \A t, u \in Writers : t = u
    /\ \A t, u \in Readers : t = u

\* The reader has what it still asks for in front of it: nobody else takes from
\* the queue.  So it never gets to the loop of ioQueueGet, and the mutex is the
\* writer's whenever it asks for it: from the test of the queue to the sleep
\* in the slot it keeps the processor, as interrupts are off.
Alone ==
    /\ OneEach
    /\ \A t \in Readers :
          /\ io[t] \in {"none", "get"} /\ pc[t] = "own"
          /\ call[t] = "read" =>
                ioQueueLen >= cnt[t] + (IF io[t] = "get" THEN 1 ELSE 0)
    /\ \A t \in Writers :
          /\ io[t] = "putlock" => q.cur = t /\ ioQueueFull
          /\ pc[t] # "dec"
          /\ io[t] = "putslot" /\ q.status[t] = "BLOCKED" => ioQueueFull

\* With nobody else in the loop the mutex is free.
LEMMA LockFree ==
    ASSUME PipeInv, Alone, NEW t \in Writers, held[t] = None
    PROVE  value[QueueLock] = 1
<1>1. ASSUME NEW u \in Threads
      PROVE  held[u] # QueueLock
  <2>1. CASE u \in Writers
    BY <1>1, <2>1, IoFacts, PipeFacts DEF Alone, OneEach
  <2>2. CASE u \in Readers
    BY <1>1, <2>2, IoFacts, PipeFacts DEF Alone, PipeInv, IoInv, IoPoints
  <2>3. CASE u \notin Users
    <3>1. io[u] = "none"
      BY <2>3 DEF PipeInv, Calls
    <3>2. QED
      BY <1>1, <3>1, IoFacts, PipeFacts DEF PipeInv, IoInv, IoPoints
  <2>4. QED
    BY <2>1, <2>2, <2>3 DEF Users
<1>2. QED
  BY <1>1, IoFacts, PipeFacts DEF PipeInv, IoInv, ThreadInv, MutualExclusion

\* What a step that leaves the queue, the calls and the points alone keeps.
LEMMA AloneKept ==
    ASSUME PipeInv, Alone, UNCHANGED <<head, tail, io, cnt, call>>,
           \A t \in Users : pc'[t] = pc[t],
           \A t \in Writers : io[t] = "putlock" => q'.cur = q.cur,
           \A t \in Writers : io[t] = "putslot" => AsleepAsBefore(q', t)
    PROVE  Alone'
<1>1. ioQueueLen' = ioQueueLen /\ ioQueueFull' = ioQueueFull
  BY DEF ioQueueLen, ioQueueFull
<1>2. QED
  BY <1>1 DEF Alone, OneEach, AsleepAsBefore, Users

\* The reader: what it asks for is there, and it wakes the writer.
LEMMA ReaderGets ==
    ASSUME PipeInv, Alone, NEW t \in Readers, IoStep(t), UNCHANGED <<call, cnt>>
    PROVE  Alone'
<1>1. /\ pc[t] = "own" /\ io[t] \in {"none", "get"} /\ t \in Users /\ t \in Threads
  BY PipeFacts DEF Alone, Users
<1>2. io[t] = "none" => held[t] # QueueLock
  BY <1>1, IoFacts DEF PipeInv, IoInv, IoPoints
<1>3. ioQueueGet(t) /\ io[t] = "get" /\ t = q.cur
  BY <1>1, <1>2 DEF IoStep, ioQueuePut, ioQueueGet, IoAcquire, IoSleep, IoRelease, AtIo,
                    InPrimitive, SemaphoreDecAgain, MutexAcquireHolder, MutexReleaseInc
<1>4. call[t] = "read" /\ ioQueueLen >= cnt[t] + 1
  BY <1>1, <1>3 DEF Alone, PipeInv, Calls
<1>5. ~ioQueueEmpty
  <2>1. ioQueueLen # 0
    BY <1>1, <1>4, PipeFacts
  <2>2. QED
    BY <2>1, PipeFacts, LenFacts
<1>6. /\ tail' = IOQUEUE_NEXTPOS(tail) /\ head' = head
      /\ WakeSlot(producer) /\ producer' = None
      /\ io' = [io EXCEPT ![t] = "none"] /\ pc' = pc
      /\ UNCHANGED <<value, wait, holder, pc, want, held, intr>>
  BY <1>3, <1>5 DEF ioQueueGet
<1>7. ioQueueLen' = ioQueueLen - 1
  BY <1>5, <1>6, PipeFacts, LenAfterGet
<1>8. ASSUME NEW u \in Readers
      PROVE  /\ io'[u] \in {"none", "get"} /\ pc'[u] = "own"
             /\ call'[u] = "read" =>
                   ioQueueLen' >= cnt'[u] + (IF io'[u] = "get" THEN 1 ELSE 0)
  <2>1. u = t /\ io'[t] = "none"
    BY <1>1, <1>6, PipeFacts DEF Alone, OneEach
  <2>2. QED
    BY <1>1, <1>4, <1>6, <1>7, <2>1, PipeFacts
<1>9. ASSUME NEW u \in Writers
      PROVE  /\ io'[u] # "putlock" /\ pc'[u] # "dec"
             /\ ~ (io'[u] = "putslot" /\ q'.status[u] = "BLOCKED")
  <2>1. u # t /\ u \in Threads /\ io'[u] = io[u]
    BY <1>6, PipeFacts DEF Users
  <2>2. /\ producer \in Threads \cup {None}
        /\ producer # None => /\ io[producer] = "putslot"
                              /\ q.status[producer] = "BLOCKED"
    BY PipeFacts DEF IoInv, IoTypeOK, Slots, SlotsAsleep
  <2>3. /\ \A v \in Threads \ {producer} : AsleepAsBefore(q', v)
        /\ producer # None => q'.status[producer] # "BLOCKED"
    BY <1>6, <2>2, PipeFacts, WakeSlotStep DEF InSlot
  <2>4. QED
    BY <1>3, <1>6, <2>1, <2>2, <2>3, IoFacts
       DEF Alone, PipeInv, IoInv, Slots, AsleepAsBefore
<1>10. QED
  BY <1>8, <1>9 DEF Alone, OneEach

\* The writer: from a full queue to its slot with no break.
LEMMA WriterPuts ==
    ASSUME PipeInv, Alone, NEW t \in Writers, IoStep(t), UNCHANGED <<call, cnt>>
    PROVE  Alone'
<1>1. /\ pc[t] # "dec" /\ t = q.cur /\ t \in Users /\ t \in Threads
      /\ io[t] \in {"none", "put", "putlock", "putslot"}
      /\ \A u \in Readers : u # t /\ u \in Threads
      /\ \A u \in Writers : u = t
  BY PipeFacts, IoStepFrame DEF Alone, OneEach, PipeInv, Calls, Users
<1>2. \A u \in Readers : io'[u] = io[u]
  BY <1>1, PipeFacts, IoStepFrame
<1>3. SUFFICES
          /\ ioQueueLen' >= ioQueueLen /\ ioQueueLen' \in Nat
          /\ \A u \in Readers : pc'[u] = pc[u]
          /\ io'[t] = "putlock" => q'.cur = t /\ ioQueueFull'
          /\ pc'[t] # "dec"
          /\ io'[t] = "putslot" /\ q'.status[t] = "BLOCKED" => ioQueueFull'
  <2>1. ASSUME NEW u \in Readers, ioQueueLen' >= ioQueueLen, ioQueueLen' \in Nat,
               call'[u] = "read"
        PROVE  ioQueueLen' >= cnt'[u] + (IF io'[u] = "get" THEN 1 ELSE 0)
    BY <1>2, <2>1, PipeFacts DEF Alone, Users
  <2>2. QED
    BY <1>1, <1>2, <2>1 DEF Alone, OneEach
<1>4. ASSUME UNCHANGED <<head, tail>>
      PROVE  /\ ioQueueLen' >= ioQueueLen /\ ioQueueLen' \in Nat
             /\ ioQueueFull' = ioQueueFull
  <2>1. ioQueueLen' = ioQueueLen /\ ioQueueFull' = ioQueueFull
    BY <1>4 DEF ioQueueLen, ioQueueFull
  <2>2. QED
    BY <2>1, PipeFacts
<1>5. CASE ioQueuePut(t)
  <2>1. io[t] = "put" /\ pc' = pc /\ pc[t] = "own" /\ tail' = tail
    BY <1>5 DEF ioQueuePut, AtIo
  <2>2. CASE ioQueueFull
    <3>1. UNCHANGED <<q, head>> /\ io'[t] = "putlock"
      BY <1>1, <1>5, <2>2, PipeFacts DEF ioQueuePut
    <3>2. QED
      BY <1>1, <1>4, <2>1, <2>2, <3>1
  <2>3. CASE ~ioQueueFull
    <3>1. head' = IOQUEUE_NEXTPOS(head) /\ io'[t] = "none"
      BY <1>1, <1>5, <2>3, PipeFacts DEF ioQueuePut
    <3>2. ioQueueLen' = ioQueueLen + 1
      BY <2>1, <2>3, <3>1, PipeFacts, LenAfterPut
    <3>3. QED
      BY <2>1, <3>1, <3>2, PipeFacts
  <2>4. QED
    BY <2>2, <2>3
<1>6. CASE IoAcquire(t)
  <2>1. /\ io[t] = "putlock" /\ held[t] = None /\ SemaphoreDec(t, QueueLock)
        /\ UNCHANGED ioVars
    BY <1>1, <1>6 DEF IoAcquire
  <2>2. value[QueueLock] = 1
    BY <2>1, LockFree
  <2>3. UNCHANGED q /\ pc' = [pc EXCEPT ![t] = "dec2"]
    BY <2>1, <2>2, IoFacts, PipeFacts DEF SemaphoreDec, TakeOrWait
  <2>4. QED
    BY <1>1, <1>4, <2>1, <2>3, IoFacts, PipeFacts DEF ioVars, Alone
<1>7. CASE IoSleep(t)
  <2>1. /\ io[t] = "putlock" /\ io'[t] = "putslot" /\ pc' = pc
        /\ UNCHANGED <<head, tail>>
    BY <1>1, <1>7, PipeFacts DEF IoSleep, AtIo
  <2>2. QED
    BY <1>1, <1>4, <2>1 DEF Alone
<1>8. CASE IoRelease(t)
  <2>1. /\ io'[t] = "put" /\ pc' = [pc EXCEPT ![t] = "inc"]
        /\ UNCHANGED <<head, tail>>
    BY <1>1, <1>8, PipeFacts DEF IoRelease, AtIo, MutexReleaseHolder
  <2>2. QED
    BY <1>1, <1>4, <2>1, PipeFacts, IoFacts
<1>9. CASE InPrimitive(t) /\ UNCHANGED ioVars
  <2>1. UNCHANGED <<head, tail, io>>
    BY <1>9 DEF ioVars
  <2>2. CASE MutexAcquireHolder(t)
    <3>1. pc' = [pc EXCEPT ![t] = "own"] /\ q' = q
      BY <2>2 DEF MutexAcquireHolder
    <3>2. QED
      BY <1>1, <1>4, <2>1, <3>1, IoFacts, PipeFacts DEF Alone
  <2>3. CASE MutexReleaseInc(t)
    <3>1. pc[t] = "inc" /\ pc' = [pc EXCEPT ![t] = "own"]
      BY <2>3 DEF MutexReleaseInc
    <3>2. io[t] = "put"
      BY <1>1, <3>1 DEF PipeInv, IoInv, IoPoints
    <3>3. QED
      BY <1>1, <1>4, <2>1, <3>1, <3>2, IoFacts, PipeFacts
  <2>4. QED
    BY <1>1, <1>9, <2>2, <2>3 DEF InPrimitive, SemaphoreDecAgain
<1>10. QED
  BY <1>1, <1>5, <1>6, <1>7, <1>8, <1>9 DEF IoStep, ioQueueGet, AtIo

\* Every step keeps it.
LEMMA AloneNext == PipeInv /\ Alone /\ [PipeNext]_allVars => Alone'
<1> SUFFICES ASSUME PipeInv, Alone, [PipeNext]_allVars PROVE Alone'
  OBVIOUS
<1>1. ASSUME NEW t \in Users, NEW n \in Nat, n <= ioQueueLen \/ t \in Writers,
             \/ t \in Writers /\ Begin(t, "write", n)
             \/ t \in Readers /\ Begin(t, "read", n)
      PROVE  Alone'
  <2>1. /\ UNCHANGED <<head, tail, io, q, pc>> /\ io[t] = "none"
        /\ cnt' = [cnt EXCEPT ![t] = n]
        /\ \E c : call' = [call EXCEPT ![t] = c]
    BY <1>1 DEF Begin, OutsideIo, AtIo, SyscallEnter, ioVars
  <2>2. ioQueueLen' = ioQueueLen /\ ioQueueFull' = ioQueueFull
    BY <2>1 DEF ioQueueLen, ioQueueFull
  <2>3. ASSUME NEW u \in Readers, call'[u] = "read"
        PROVE  ioQueueLen >= cnt'[u] + (IF io[u] = "get" THEN 1 ELSE 0)
    <3>1. CASE u = t
      BY <1>1, <2>1, <3>1, PipeFacts
    <3>2. CASE u # t
      BY <1>1, <2>1, <2>3, <3>2, PipeFacts DEF Alone, Users
    <3>3. QED
      BY <3>1, <3>2
  <2>4. QED
    BY <2>1, <2>2, <2>3 DEF Alone, OneEach
<1>2. CASE \E t \in Writers : pipe_write(t)
  <2>1. PICK t \in Writers, n \in 1 .. MaxCount : Begin(t, "write", MIN(n, QueueLen - ioQueueLen))
    BY <1>2 DEF pipe_write
  <2>2. MIN(n, QueueLen - ioQueueLen) \in Nat
    BY PipeFacts DEF MIN
  <2>3. QED
    BY <1>1, <2>1, <2>2 DEF Users
<1>3. CASE \E t \in Readers : pipe_read(t)
  <2>1. PICK t \in Readers, n \in 1 .. MaxCount : Begin(t, "read", MIN(n, ioQueueLen))
    BY <1>3 DEF pipe_read
  <2>2. MIN(n, ioQueueLen) \in Nat /\ MIN(n, ioQueueLen) <= ioQueueLen
    BY PipeFacts DEF MIN
  <2>3. QED
    BY <1>1, <2>1, <2>2 DEF Users
<1>4. CASE \E t \in Users : MoveByte(t)
  <2>1. PICK t \in Users : MoveByte(t)
    BY <1>4
  <2>2. /\ UNCHANGED <<head, tail, q, pc, call>> /\ t \in Threads
        /\ io[t] = "none" /\ cnt[t] > 0 /\ cnt' = [cnt EXCEPT ![t] = @ - 1]
        /\ \/ call[t] = "write" /\ io' = [io EXCEPT ![t] = "put"]
           \/ call[t] = "read" /\ io' = [io EXCEPT ![t] = "get"]
    BY <2>1, PipeFacts DEF MoveByte, OutsideIo, AtIo, CallPut, CallGet, threadVars
  <2>3. ioQueueLen' = ioQueueLen /\ ioQueueFull' = ioQueueFull
    BY <2>2 DEF ioQueueLen, ioQueueFull
  <2>4. ASSUME NEW u \in Readers
        PROVE  /\ io'[u] \in {"none", "get"}
               /\ call'[u] = "read" =>
                     ioQueueLen >= cnt'[u] + (IF io'[u] = "get" THEN 1 ELSE 0)
    <3>1. u \in Users /\ u \in Threads
      BY PipeFacts DEF Users
    <3>2. CASE u = t
      <4>1. call[t] = "read" => ioQueueLen >= cnt[t] + 0
        BY <2>2, <3>2 DEF Alone
      <4>2. call[t] # "write"
        BY <3>2 DEF PipeInv, Calls
      <4>3. QED
        BY <2>2, <3>1, <3>2, <4>1, <4>2, PipeFacts
    <3>3. CASE u # t
      BY <2>2, <3>1, <3>3, PipeFacts DEF Alone
    <3>4. QED
      BY <3>2, <3>3
  <2>5. \A u \in Writers : io'[u] = io[u] \/ io'[u] \in {"put", "get"}
    BY <2>2, PipeFacts DEF Users
  <2>6. QED
    BY <2>2, <2>3, <2>4, <2>5 DEF Alone, OneEach
<1>5. CASE \E t \in Users : End(t)
  <2>1. PICK t \in Users : End(t)
    BY <1>5
  <2>2. /\ UNCHANGED <<head, tail, io, cnt, q, pc>> /\ call' = [call EXCEPT ![t] = "user"]
    BY <2>1 DEF End, SyscallReturn
  <2>3. ioQueueLen' = ioQueueLen /\ ioQueueFull' = ioQueueFull
    BY <2>2 DEF ioQueueLen, ioQueueFull
  <2>4. \A u \in Users : call'[u] = "read" => call[u] = "read"
    BY <2>2, PipeFacts
  <2>5. QED
    BY <2>2, <2>3, <2>4 DEF Alone, OneEach, Users
<1>6. CASE \E t \in Threads : PipeIoStep(t)
  <2>1. PICK t \in Threads : IoStep(t) /\ UNCHANGED <<call, cnt>>
    BY <1>6 DEF PipeIoStep, pipeVars
  <2>2. t \in Users
    <3>1. io[t] # "none"
      BY <2>1, IoFacts, PipeFacts
         DEF IoStep, ioQueuePut, ioQueueGet, IoAcquire, IoSleep, IoRelease, AtIo,
             InPrimitive, SemaphoreDecAgain, MutexAcquireHolder, MutexReleaseInc,
             PipeInv, IoInv, IoPoints, InLock
    <3>2. QED
      BY <3>1 DEF PipeInv, Calls
  <2>3. QED
    BY <2>1, <2>2, ReaderGets, WriterPuts DEF Users
<1>7. CASE (IdleLoop \/ Timer) /\ UNCHANGED <<ioVars, pipeVars>>
  <2>1. \A t \in Writers : io[t] # "putlock"
    <3>1. SUFFICES ASSUME NEW t \in Writers, io[t] = "putlock" PROVE FALSE
      OBVIOUS
    <3>2. q.cur = t /\ t # Idle /\ ~intr[t]
      BY <3>1, PipeFacts DEF Alone, PipeInv, Calls, Users
    <3>3. QED
      BY <1>7, <3>2 DEF IdleLoop, Timer, InterruptsOn
  <2>2. \A t \in Users : pc'[t] = pc[t]
    BY <1>7, PipeFacts, IoFacts
       DEF IdleLoop, Timer, AfterInterrupt, IoInv, ThreadInv, Points
  <2>3. \A t \in Writers : AsleepAsBefore(q', t)
    <3>1. CASE IdleLoop
      <4>1. q' \in ThreadBlock(q, "BLOCKED") /\ q.cur = Idle /\ "BLOCKED" \in OnBlockList
        BY <3>1 DEF IdleLoop, OnBlockList
      <4>2. Rescheduled(q, q')
        BY <4>1, PipeFacts, IoFacts, ThreadBlockConsistent
      <4>3. QED
        BY <4>1, <4>2, PipeFacts, MovedAsleep DEF Rescheduled, Users
    <3>2. CASE Timer
      BY <3>2, PipeFacts, IoFacts, TimerMoves, MovedAsleep DEF Timer, Users
    <3>3. QED
      BY <1>7, <3>1, <3>2
  <2>4. UNCHANGED <<head, tail, io, cnt, call>>
    BY <1>7 DEF ioVars, pipeVars
  <2>5. QED
    BY <2>1, <2>2, <2>3, <2>4, AloneKept
<1>8. CASE UNCHANGED allVars
  <2>1. UNCHANGED <<q, pc, head, tail, io, cnt, call>>
    BY <1>8 DEF allVars, threadVars, ioVars, pipeVars
  <2>2. QED
    BY <2>1, AloneKept DEF AsleepAsBefore
<1>9. QED
  BY <1>2, <1>3, <1>4, <1>5, <1>6, <1>7, <1>8 DEF PipeNext, InCall, Users

LEMMA AloneInit == PipeInit /\ OneEach => Alone
<1> SUFFICES ASSUME PipeInit, OneEach PROVE Alone
  OBVIOUS
<1>1. PipeInv
  BY PipeInitInv
<1>2. \A t \in Users : t \in Threads /\ t # Idle /\ pc[t] = "own" /\ io[t] = "none"
                       /\ call[t] = "user"
  BY <1>1, PipeFacts DEF PipeInit, Init, IoInit, Users
<1>3. QED
  BY <1>2 DEF Alone, Users

\* A pipe between two processes: pipe_read never sleeps, as what the queue held
\* when the call began is still there when it is taken.
THEOREM ReadersDoNotBlock == OneEach /\ PipeSpec => []ReadDoesNotBlock
<1>1. Alone => ReadDoesNotBlock
  BY DEF Alone, ReadDoesNotBlock
<1>2. QED
  BY <1>1, AloneInit, AloneNext, PipeInvHolds, PTL DEF PipeSpec

\* Nor does anybody sleep in a slot unknown to the other side, or for a byte or
\* a place that is there.
THEOREM NobodyIsStranded == OneEach /\ PipeSpec => []NobodyStranded
<1>1. PipeInv /\ Alone => NobodyStranded
  <2> SUFFICES ASSUME PipeInv, Alone, NEW t \in Threads, q.status[t] = "BLOCKED"
               PROVE  /\ io[t] = "getslot" => consumer = t /\ ioQueueEmpty
                      /\ io[t] = "putslot" => producer = t /\ ioQueueFull
    BY DEF NobodyStranded
  <2>1. CASE t \in Readers
    BY <2>1 DEF Alone
  <2>2. CASE t \in Writers
    BY <2>2 DEF Alone, PipeInv, Calls, IoInv, Slots
  <2>3. CASE t \notin Users
    BY <2>3 DEF PipeInv, Calls
  <2>4. QED
    BY <2>1, <2>2, <2>3 DEF Users
<1>2. QED
  BY <1>1, AloneInit, AloneNext, PipeInvHolds, PTL DEF PipeSpec

-----------------------------------------------------------------------------
(***************************************************************************)
(* Keyboard.  Keys and slots are proved for a queue in which no key meets  *)
(* just one byte of room, ~Tight, and for every queue of odd length, where *)
(* none can.  KeyboardIOQueue is of even length: there a key that does     *)
(* makes the handler sleep, and the run on HandlerReturns shows it.        *)
(*                                                                         *)
(* The argument: a handler with bytes to put, and a reader between the two *)
(* bytes of a key, have interrupts off and never find the queue full or    *)
(* empty, so they keep the processor; whenever another thread runs the     *)
(* queue holds whole keys.                                                 *)
(***************************************************************************)

\* A scan code arrives when one byte of the queue is free.
Tight == keyboard_interrupt /\ ioQueueLen = QueueLen - 2

\* No key meets the last byte of room.
RoomForKeys == QueueLen % 2 = 1 \/ [][~Tight]_keyboardAllVars

\* Halves of keys in turn, beginning with a high one, o = 0, or a low one.
Run(c, o) ==
    \A i \in 1 .. Len(c) :
        /\ c[i] \in Bytes
        /\ (i + o) % 2 = 1 => c[i][2] = "high"
        /\ (i + o) % 2 = 0 => c[i][2] = "low" /\ (i > 1 => c[i][1] = c[i - 1][1])

Whole == Run(Contents, 0) /\ ioQueueLen % 2 = 0

\* A thread outside handler and KeyBoardRead.
Resting(t) ==
    /\ back[t] = None /\ handler[t] = << >> /\ io[t] = "none"
    /\ t \in KeyReaders => read[t] = "user"

\* A reader that has nothing of a key yet, asleep or not.
Asking(t) ==
    /\ back[t] = None /\ handler[t] = << >>
    /\ t \in KeyReaders /\ read[t] = "high"
    /\ io[t] \in {"get", "getlock", "getslot"} /\ ~intr[t]

AtRest(t) == Resting(t) \/ Asking(t)

\* In the handler: two bytes to put and room for them, or one, or none.
TwoToPut(t, c) ==
    /\ Whole /\ ioQueueLen + 2 <= QueueLen - 1
    /\ \/ handler[t] = << <<c, "high">>, <<c, "low">> >> /\ io[t] = "none"
       \/ handler[t] = << <<c, "low">> >> /\ io[t] = "put" /\ data[t] = <<c, "high">>

OneToPut(t, c) ==
    /\ Run(Contents, 0) /\ ioQueueLen % 2 = 1 /\ ioQueueLen + 1 <= QueueLen - 1
    /\ Contents[ioQueueLen] = <<c, "high">>
    /\ \/ handler[t] = << <<c, "low">> >> /\ io[t] = "none"
       \/ handler[t] = << >> /\ io[t] = "put" /\ data[t] = <<c, "low">>

NoneToPut(t) == Whole /\ handler[t] = << >> /\ io[t] = "none"

Handling(t) ==
    /\ back[t] # None /\ (back[t] = "loop" => t = Idle)
    /\ t \in KeyReaders => read[t] = "user"
    /\ \/ NoneToPut(t)
       \/ \E c \in Codes : TwoToPut(t, c) \/ OneToPut(t, c)

\* A reader that has taken the high byte of a key: the low one is in front.
Halfway(t) ==
    /\ back[t] = None /\ handler[t] = << >> /\ t \in KeyReaders
    /\ Run(Contents, 1) /\ ioQueueLen % 2 = 1
    /\ \E c \in Codes :
          /\ Contents[1] = <<c, "low">>
          /\ \/ read[t] = "high" /\ io[t] = "none" /\ data[t] = <<c, "high">>
             \/ read[t] = "low" /\ io[t] = "get" /\ high[t] = <<c, "high">>

\* A reader that has both.
Done(t) ==
    /\ back[t] = None /\ handler[t] = << >> /\ t \in KeyReaders
    /\ Whole /\ read[t] = "low" /\ io[t] = "none"
    /\ \E c \in Codes : high[t] = <<c, "high">> /\ data[t] = <<c, "low">>

Working(t) ==
    /\ ~intr[t] /\ pc[t] = "own"
    /\ Handling(t) \/ Halfway(t) \/ Done(t)

\* Only the running thread has part of a key.
Places ==
    /\ \A t \in Threads \ {q.cur} : AtRest(t)
    /\ (AtRest(q.cur) /\ Whole) \/ Working(q.cur)

\* What the keyboard sends.
Codings == {E0} \cup ({"make", "break"} \X (PlainKeys \cup {"right"}))

KeyTypes ==
    /\ kbd \in [flag: BOOLEAN, shift: BOOLEAN, caps: BOOLEAN, ctrl: BOOLEAN]
    /\ pressed \subseteq Keys
    /\ sent \in Seq(Codings)
    /\ handler \in [Threads -> Seq(Bytes)]
    /\ back \in [Threads -> {"own", "loop", None}]
    /\ read \in [KeyReaders -> {"user", "high", "low"}]
    /\ high \in [KeyReaders -> Bytes \cup {None}]

KeyInv == IoInv /\ KeyTypes /\ Places

-----------------------------------------------------------------------------

\* A byte of the other half at the end.
LEMMA RunAppend ==
    ASSUME NEW c \in Seq(Bytes \cup {None}), NEW b \in Bytes, Run(c, 0),
           Len(c) % 2 = 0 => b[2] = "high",
           Len(c) % 2 = 1 => b[2] = "low" /\ b[1] = c[Len(c)][1]
    PROVE  Run(Append(c, b), 0)
<1> DEFINE d == Append(c, b)
<1>1. /\ Len(c) \in Nat /\ Len(d) = Len(c) + 1
      /\ d[Len(c) + 1] = b /\ \A i \in 1 .. Len(c) : d[i] = c[i]
  OBVIOUS
<1> HIDE DEF d
<1>2. ASSUME NEW i \in 1 .. Len(d)
      PROVE  /\ d[i] \in Bytes
             /\ (i + 0) % 2 = 1 => d[i][2] = "high"
             /\ (i + 0) % 2 = 0 => d[i][2] = "low" /\ (i > 1 => d[i][1] = d[i - 1][1])
  <2>1. CASE i = Len(c) + 1
    <3>1. (i + 0) % 2 = 1 => Len(c) % 2 = 0
      BY <1>1, <2>1
    <3>2. (i + 0) % 2 = 0 => Len(c) % 2 = 1
      BY <1>1, <2>1
    <3>3. i > 1 => d[i - 1] = c[Len(c)]
      BY <1>1, <2>1
    <3>4. QED
      BY <1>1, <2>1, <3>1, <3>2, <3>3
  <2>2. CASE i \in 1 .. Len(c)
    <3>1. d[i] = c[i] /\ (i > 1 => d[i - 1] = c[i - 1])
      BY <1>1, <2>2
    <3>2. QED
      BY <2>2, <3>1 DEF Run
  <2>3. QED
    BY <1>1, <2>1, <2>2
<1>3. Run(d, 0)
  BY <1>2 DEF Run
<1>4. QED
  BY <1>3 DEF d

\* Without its first byte it begins with the other half.
LEMMA RunTail ==
    ASSUME NEW c \in Seq(Bytes \cup {None}), c # << >>, NEW o \in {0, 1}, Run(c, o)
    PROVE  Run(Tail(c), 1 - o)
<1> DEFINE d == Tail(c)
<1>1. /\ Len(c) \in Nat \ {0} /\ Len(d) = Len(c) - 1
      /\ \A i \in 1 .. Len(d) : d[i] = c[i + 1]
  OBVIOUS
<1> HIDE DEF d
<1>2. ASSUME NEW i \in 1 .. Len(d)
      PROVE  /\ d[i] \in Bytes
             /\ (i + (1 - o)) % 2 = 1 => d[i][2] = "high"
             /\ (i + (1 - o)) % 2 = 0 => d[i][2] = "low" /\ (i > 1 => d[i][1] = d[i - 1][1])
  <2>1. /\ i + 1 \in 1 .. Len(c) /\ d[i] = c[i + 1]
        /\ i > 1 => d[i - 1] = c[i]
    BY <1>1
  <2>2. /\ c[i + 1] \in Bytes
        /\ ((i + 1) + o) % 2 = 1 => c[i + 1][2] = "high"
        /\ ((i + 1) + o) % 2 = 0 => c[i + 1][2] = "low" /\ c[i + 1][1] = c[i][1]
    <3>1. PICK j \in 1 .. Len(c) : j = i + 1
      BY <2>1
    <3>2. j > 1 /\ j - 1 = i
      BY <3>1
    <3>3. /\ c[j] \in Bytes
          /\ (j + o) % 2 = 1 => c[j][2] = "high"
          /\ (j + o) % 2 = 0 => c[j][2] = "low" /\ c[j][1] = c[j - 1][1]
      BY <3>2, Zenon DEF Run
    <3>4. QED
      BY <3>1, <3>2, <3>3
  <2>3. /\ (i + (1 - o)) % 2 = 1 => ((i + 1) + o) % 2 = 1
        /\ (i + (1 - o)) % 2 = 0 => ((i + 1) + o) % 2 = 0
    <3>1. i \in Nat
      BY <1>1
    <3>2. o = 0 \/ o = 1
      OBVIOUS
    <3>3. QED
      BY <3>1, <3>2
  <2>4. QED
    BY <2>1, <2>2, <2>3
<1>3. Run(d, 1 - o)
  BY <1>2 DEF Run
<1>4. QED
  BY <1>3 DEF d

\* The types and constants the steps use.
LEMMA KeyFacts ==
    ASSUME KeyInv
    PROVE  /\ IoInv /\ IoTypeOK /\ ThreadInv
           /\ q.cur \in Threads /\ None \notin {"own", "loop"} /\ None \notin Bytes
           /\ \A t \in KeyReaders : t \in Threads \ {Idle} /\ t \in Processes
           /\ intr \in [Threads -> BOOLEAN]
           /\ pc \in [Threads -> {"own", "dec", "dec2", "inc", "loop", "hlt"}]
           /\ io \in [Threads -> {"none", "put", "putlock", "putslot",
                                  "get", "getlock", "getslot"}]
           /\ data \in [Threads -> Bytes \cup {None}]
           /\ handler \in [Threads -> Seq(Bytes)]
           /\ back \in [Threads -> {"own", "loop", None}]
           /\ read \in [KeyReaders -> {"user", "high", "low"}]
           /\ high \in [KeyReaders -> Bytes \cup {None}]
           /\ Bytes = Codes \X {"high", "low"}
           /\ ioQueueLen \in 0 .. QueueLen - 1 /\ QueueLen \in Nat
           /\ Contents \in Seq(Bytes \cup {None}) /\ Len(Contents) = ioQueueLen
BY KeyboardAssumption, IoQueueAssumption, LenFacts, IoFacts, ContentsAt
   DEF KeyInv, IoInv, IoTypeOK, KeyTypes, Processes, InOrder

\* A step that leaves the queue alone.
LEMMA SameWhole ==
    ASSUME UNCHANGED <<buff, head, tail>>
    PROVE  /\ Contents' = Contents /\ ioQueueLen' = ioQueueLen
           /\ ioQueueFull' = ioQueueFull /\ Whole' = Whole
           /\ \A o : Run(Contents, o)' = Run(Contents, o)
<1>1. Contents' = Contents /\ ioQueueLen' = ioQueueLen /\ ioQueueFull' = ioQueueFull
  BY DEF Contents, ioQueueLen, ioQueueFull
<1>2. QED
  BY <1>1 DEF Whole, Run

\* With interrupts on, the running thread is at rest and the queue whole.
LEMMA OnMeansRest ==
    ASSUME KeyInv, intr[q.cur] \/ pc[q.cur] # "own"
    PROVE  AtRest(q.cur) /\ Whole
BY DEF KeyInv, Places, Working

-----------------------------------------------------------------------------

\* Types of what the handler computes.
LEMMA DecodeType ==
    ASSUME NEW code \in Codings
    PROVE  Decode(code) \in Codes \cup {NoCode}
<1>1. Way(code[1]) \in {"up", "down"}
  BY DEF Way
<1>2. CASE code = E0
  BY <1>2 DEF Decode
<1>3. CASE code # E0
  <2>1. code[2] \in PlainKeys \cup {"right"}
    BY <1>3 DEF Codings
  <2>2. ScanCodeConvertTable(code) \in Codes \cup {NoCode}
    BY <1>1, <2>1
       DEF ScanCodeConvertTable, PlainKeys, Letters, Shifts, Codes
  <2>3. <<"r", Way(code[1])>> \in Codes
    BY <1>1 DEF Codes
  <2>4. QED
    BY <1>3, <2>2, <2>3 DEF Decode
<1>4. QED
  BY <1>2, <1>3

LEMMA FunctionType ==
    ASSUME NEW state, NEW decode \in Codes
    PROVE  KeyBoardFunction(state, decode) \in Codes
<1>1. decode \in Letters \X {"down"} => <<decode[1], "DOWN">> \in Codes
  BY DEF Letters, Codes
<1>2. <<"l", "control">> \in Codes
  BY DEF Codes
<1>3. QED
  BY <1>1, <1>2 DEF KeyBoardFunction

LEMMA ScanCodesType ==
    ASSUME NEW k \in Keys, NEW how \in {"make", "break"}, NEW s \in ScanCodes(k, how)
    PROVE  s \in Seq(Codings)
<1>1. /\ E0 \in Codings /\ <<"make", "shift">> \in Codings /\ <<"break", "shift">> \in Codings
      /\ <<how, "right">> \in Codings /\ <<how, "ctrl">> \in Codings
  BY DEF Codings, PlainKeys, Shifts
<1>2. CASE k = "right"
  <2>1. PICK fake \in {<< >>, <<E0, <<"make", "shift">>>>, <<E0, <<"break", "shift">>>>} :
               s = fake \o <<E0, <<how, "right">>>>
    BY <1>2 DEF ScanCodes
  <2>2. fake \in Seq(Codings)
    <3>1. /\ << >> \in Seq(Codings) /\ <<E0, <<"make", "shift">>>> \in Seq(Codings)
          /\ <<E0, <<"break", "shift">>>> \in Seq(Codings)
      BY <1>1
    <3>2. QED
      BY <2>1, <3>1
  <2>3. <<E0, <<how, "right">>>> \in Seq(Codings)
    BY <1>1
  <2>4. QED
    BY <2>1, <2>2, <2>3
<1>3. CASE k = "rctrl"
  <2>1. s = <<E0, <<how, "ctrl">>>>
    BY <1>3 DEF ScanCodes
  <2>2. QED
    BY <1>1, <2>1
<1>4. CASE k # "right" /\ k # "rctrl"
  <2>1. s = << <<how, k>> >>
    BY <1>4 DEF ScanCodes
  <2>2. <<how, k>> \in Codings
    BY <1>4, KeyboardAssumption DEF Codings
  <2>3. QED
    BY <2>1, <2>2
<1>5. QED
  BY <1>2, <1>3, <1>4

-----------------------------------------------------------------------------

\* A step of the running thread disturbs nobody else.
SameFor(u) ==
    /\ back'[u] = back[u] /\ handler'[u] = handler[u]
    /\ io'[u] = io[u] /\ intr'[u] = intr[u]
    /\ u \in KeyReaders => read'[u] = read[u]

LEMMA PlacesKept ==
    ASSUME KeyInv, NEW t, t = q.cur, IoInv',
           \A u \in Threads \ {t} : SameFor(u),
           \/ AtRest(t)' /\ Whole'
           \/ q'.cur = t /\ Working(t)'
    PROVE  Places'
<1>1. \A u \in Threads \ {t} : AtRest(u)'
  BY DEF KeyInv, Places, SameFor, AtRest, Resting, Asking
<1>2. q'.cur \in Threads /\ t \in Threads
  BY KeyFacts DEF IoInv, ThreadInv, TypeOK, Queues
<1>3. QED
  BY <1>1, <1>2 DEF Places

\* A step that changes nothing of the threads but what the scan codes are.
LEMMA NothingStep ==
    ASSUME KeyInv, KeyTypes', UNCHANGED <<threadVars, ioVars, handler, back, read, high>>
    PROVE  KeyInv'
<1>1. UNCHANGED <<q, pc, want, held, intr, buff, head, tail, producer, consumer, io, data>>
  BY DEF threadVars, ioVars
<1>2. ThreadInv'
  BY KeyFacts, SameThreads
<1>3. IoInv'
  BY <1>1, <1>2, KeyFacts, OutsideStep DEF AsleepAsBefore
<1>4. Whole' = Whole /\ (\A o : Run(Contents, o)' = Run(Contents, o))
      /\ Contents' = Contents /\ ioQueueLen' = ioQueueLen
  BY <1>1, SameWhole
<1>5. ASSUME NEW t PROVE AtRest(t)' = AtRest(t) /\ Working(t)' = Working(t)
  BY <1>1, <1>4 DEF AtRest, Resting, Asking, Working, Handling, Halfway, Done,
                    TwoToPut, OneToPut, NoneToPut
<1>6. Places'
  BY <1>1, <1>4, <1>5 DEF KeyInv, Places
<1>7. QED
  BY <1>3, <1>6 DEF KeyInv

\* A key is struck: it is only on its way.
LEMMA StrikeStep ==
    ASSUME KeyInv, NEW k \in Keys, Strike(k)
    PROVE  KeyInv'
<1>1. /\ pressed' \subseteq Keys /\ sent' \in Seq(Codings)
      /\ UNCHANGED <<threadVars, ioVars, kbd, handler, back, read, high>>
  BY ScanCodesType DEF Strike, KeyInv, KeyTypes
<1>2. KeyTypes'
  BY <1>1, KeyFacts DEF KeyInv, KeyTypes
<1>3. QED
  BY <1>1, <1>2, NothingStep

\* The interrupt finds the running thread at rest, and the queue full or with
\* room for both bytes.
LEMMA InterruptStep ==
    ASSUME KeyInv, keyboard_interrupt, ~Tight
    PROVE  KeyInv'
<1>1. /\ InterruptsOn /\ sent # << >> /\ ioQueueLen # QueueLen - 2
      /\ sent' = Tail(sent)
      /\ UNCHANGED <<q, value, wait, holder, want, held, ioVars, pressed, read, high>>
  BY DEF keyboard_interrupt, Tight
<1>2. Head(sent) \in Codings /\ sent' \in Seq(Codings)
  BY <1>1 DEF KeyInv, KeyTypes
<1>3. PICK t \in Threads : t = q.cur
  BY KeyFacts
<1>4. kbd' \in [flag: BOOLEAN, shift: BOOLEAN, caps: BOOLEAN, ctrl: BOOLEAN]
  BY DEF KeyInv, KeyTypes, KeyState, keyboard_interrupt
<1>5. \/ pc' = AfterInterrupt /\ UNCHANGED <<handler, back, intr>>
      \/ /\ ~ioQueueFull
         /\ \E code \in Codes : handler' = [handler EXCEPT ![t] = Halves(code)]
         /\ back' = [back EXCEPT ![t] = AfterInterrupt[t]]
         /\ pc' = [pc EXCEPT ![t] = "own"]
         /\ intr' = [intr EXCEPT ![t] = FALSE]
  <2> DEFINE decode == Decode(Head(sent))
             code == KeyBoardFunction(KeyState(Head(sent), decode), decode)
  <2>1. decode \in Codes \cup {NoCode}
    BY <1>2, DecodeType
  <2>2. decode # NoCode => code \in Codes
    BY <2>1, FunctionType
  <2>3. \/ pc' = AfterInterrupt /\ UNCHANGED <<handler, back, intr>>
        \/ /\ decode # NoCode /\ ~ioQueueFull
           /\ handler' = [handler EXCEPT ![t] = Halves(code)]
           /\ back' = [back EXCEPT ![t] = AfterInterrupt[t]]
           /\ pc' = [pc EXCEPT ![t] = "own"]
           /\ intr' = [intr EXCEPT ![t] = FALSE]
    BY <1>3 DEF keyboard_interrupt
  <2> HIDE DEF decode, code
  <2>4. QED
    BY <2>2, <2>3
<1>6. intr[t] /\ AtRest(t) /\ Whole
  BY <1>1, <1>3, KeyFacts, OnMeansRest DEF InterruptsOn
<1>7. /\ back[t] = None /\ handler[t] = << >> /\ io[t] = "none"
      /\ t \in KeyReaders => read[t] = "user"
  BY <1>6 DEF AtRest, Resting, Asking
<1>8. pc[t] \in {"own", "loop", "hlt"} /\ (pc[t] \in {"loop", "hlt"} => t = Idle)
  BY <1>3, <1>6, <1>7, KeyFacts DEF IoInv, IoPoints, ThreadInv, Points, InLock
<1>9. /\ \A u \in Threads \ {t} : pc'[u] = pc[u]
      /\ pc'[t] \in {"own", "loop"} /\ (pc'[t] = "loop" => t = Idle)
      /\ AfterInterrupt[t] \in {"own", "loop"}
      /\ AfterInterrupt[t] = "loop" => t = Idle
      /\ pc' \in [Threads -> {"own", "dec", "dec2", "inc", "loop", "hlt"}]
  <2>1. /\ AfterInterrupt[t] = IF pc[t] = "hlt" THEN "loop" ELSE pc[t]
        /\ \A u \in Threads \ {t} : AfterInterrupt[u] = pc[u]
        /\ AfterInterrupt \in [Threads -> {"own", "dec", "dec2", "inc", "loop", "hlt"}]
    BY <1>3, <1>8, KeyFacts DEF AfterInterrupt
  <2>2. \/ pc' = AfterInterrupt
        \/ pc' = [pc EXCEPT ![t] = "own"]
    BY <1>5
  <2>3. /\ AfterInterrupt[t] \in {"own", "loop"}
        /\ AfterInterrupt[t] = "loop" => t = Idle
    BY <1>8, <2>1
  <2>4. pc \in [Threads -> {"own", "dec", "dec2", "inc", "loop", "hlt"}]
    BY KeyFacts
  <2>5. CASE pc' = AfterInterrupt
    BY <2>1, <2>3, <2>5
  <2>6. CASE pc' = [pc EXCEPT ![t] = "own"]
    BY <1>3, <2>3, <2>4, <2>6
  <2>7. QED
    BY <2>2, <2>5, <2>6
<1>10. /\ \A u \in Threads \ {t} : intr'[u] = intr[u]
       /\ intr' \in [Threads -> BOOLEAN]
  BY <1>3, <1>5, KeyFacts
<1>11. ThreadInv'
  <2>1. \A u \in Threads \ {Idle} : pc'[u] = pc[u]
    BY <1>8, <1>9
  <2>2. pc'[Idle] \in {"own", "loop", "hlt"}
    BY <1>9, KeyFacts, IoFacts, ThreadsAssumption
  <2>3. QED
    BY <1>1, <1>9, <1>10, <2>1, <2>2, KeyFacts, SameQueuesStep, QuietStep
<1>12. UNCHANGED <<buff, head, tail, producer, consumer, io, data>>
  BY <1>1 DEF ioVars
<1>13. IoInv'
  <2>1. \A u \in Threads : pc'[u] = pc[u] \/ /\ {pc[u], pc'[u]} \subseteq {"own", "loop", "hlt"}
                                             /\ io[u] \notin InSlot
    BY <1>7, <1>8, <1>9 DEF InSlot
  <2>2. QED
    BY <1>1, <1>3, <1>6, <1>11, <1>12, <2>1, KeyFacts, OutsideStep DEF AsleepAsBefore
<1>14. Whole' /\ ioQueueLen' = ioQueueLen
  BY <1>3, <1>6, <1>12, SameWhole
<1>15. CASE UNCHANGED <<handler, back, intr>>
  <2>1. AtRest(t)'
    BY <1>1, <1>7, <1>12, <1>15 DEF AtRest, Resting
  <2>2. Places'
    BY <1>1, <1>3, <1>6, <1>12, <1>13, <1>14, <1>15, <2>1, PlacesKept DEF SameFor
  <2>3. KeyTypes'
    BY <1>1, <1>2, <1>4, <1>15 DEF KeyInv, KeyTypes
  <2>4. QED
    BY <1>13, <2>2, <2>3 DEF KeyInv
<1>16. CASE /\ ~ioQueueFull
            /\ \E code \in Codes : handler' = [handler EXCEPT ![t] = Halves(code)]
            /\ back' = [back EXCEPT ![t] = AfterInterrupt[t]]
            /\ pc' = [pc EXCEPT ![t] = "own"]
            /\ intr' = [intr EXCEPT ![t] = FALSE]
  <2>0. PICK code \in Codes : handler' = [handler EXCEPT ![t] = Halves(code)]
    BY <1>16
  <2>1. /\ Halves(code) = << <<code, "high">>, <<code, "low">> >>
        /\ Halves(code) \in Seq(Bytes)
    BY KeyFacts DEF Halves
  <2>2. /\ handler'[t] = Halves(code) /\ back'[t] \in {"own", "loop"}
        /\ (back'[t] = "loop" => t = Idle) /\ pc'[t] = "own" /\ ~intr'[t]
        /\ \A u \in Threads \ {t} : handler'[u] = handler[u] /\ back'[u] = back[u]
    BY <1>3, <1>6, <1>9, <1>16, <2>0, KeyFacts
  <2>3. ioQueueLen' + 2 <= QueueLen - 1
    BY <1>1, <1>14, <1>16, KeyFacts, LenFacts
  <2>4. TwoToPut(t, code)'
    BY <1>7, <1>12, <1>14, <2>1, <2>2, <2>3 DEF TwoToPut
  <2>5. Working(t)'
    <3>1. back'[t] # None
      BY <2>2, KeyFacts
    <3>2. t \in KeyReaders => read'[t] = "user"
      BY <1>1, <1>7
    <3>3. QED
      BY <2>1, <2>2, <2>4, <3>1, <3>2 DEF Working, Handling
  <2>6. Places'
    BY <1>1, <1>3, <1>6, <1>10, <1>12, <1>13, <2>2, <2>5, PlacesKept DEF SameFor
  <2>7. KeyTypes'
    BY <1>1, <1>2, <1>4, <1>9, <1>16, <2>0, <2>1, KeyFacts DEF KeyInv, KeyTypes
  <2>8. QED
    BY <1>13, <2>6, <2>7 DEF KeyInv
<1>17. QED
  BY <1>5, <1>15, <1>16

\* The handler puts the next of its bytes.
LEMMA HandlerPutStep ==
    ASSUME KeyInv, NEW t \in Threads, HandlerPut(t)
    PROVE  KeyInv'
<1>1. /\ t = q.cur /\ io[t] = "none" /\ pc[t] = "own" /\ handler[t] # << >>
      /\ CallPut(t, Head(handler[t]))
      /\ handler' = [handler EXCEPT ![t] = Tail(@)]
      /\ UNCHANGED <<threadVars, buff, head, tail, producer, consumer,
                     kbd, pressed, sent, back, read, high>>
  BY DEF HandlerPut, OutsideIo, AtIo
<1>2. UNCHANGED <<q, pc, want, held, intr>> /\ ThreadInv'
  BY <1>1, KeyFacts, SameThreads DEF threadVars
<1>3. Head(handler[t]) \in Bytes /\ handler' \in [Threads -> Seq(Bytes)]
      /\ handler'[t] = Tail(handler[t])
      /\ \A u \in Threads \ {t} : handler'[u] = handler[u]
  BY <1>1, KeyFacts
<1>4. IoInv'
  BY <1>1, <1>2, <1>3, KeyFacts, OutsideStep DEF AsleepAsBefore
<1>5. /\ io'[t] = "put" /\ data'[t] = Head(handler[t])
      /\ \A u \in Threads \ {t} : io'[u] = io[u]
  BY <1>1, KeyFacts DEF CallPut
<1>6. /\ ~intr[t] /\ back[t] # None /\ (back[t] = "loop" => t = Idle)
      /\ t \in KeyReaders => read[t] = "user"
      /\ \E c \in Codes : TwoToPut(t, c) \/ OneToPut(t, c)
  BY <1>1 DEF KeyInv, Places, AtRest, Resting, Asking, Working, Handling, NoneToPut,
              Halfway, Done
<1>7. PICK c \in Codes : TwoToPut(t, c) \/ OneToPut(t, c)
  BY <1>6
<1>8. TwoToPut(t, c)' \/ OneToPut(t, c)'
  <2>1. Contents' = Contents /\ ioQueueLen' = ioQueueLen /\ Whole' = Whole
        /\ \A o : Run(Contents, o)' = Run(Contents, o)
    BY <1>1, SameWhole
  <2>2. CASE TwoToPut(t, c)
    <3>1. handler[t] = << <<c, "high">>, <<c, "low">> >>
      BY <1>1, <2>2 DEF TwoToPut
    <3>2. handler'[t] = << <<c, "low">> >> /\ data'[t] = <<c, "high">>
      BY <1>3, <1>5, <3>1
    <3>3. QED
      BY <1>5, <2>1, <2>2, <3>2 DEF TwoToPut
  <2>3. CASE OneToPut(t, c)
    <3>1. handler[t] = << <<c, "low">> >>
      BY <1>1, <2>3 DEF OneToPut
    <3>2. handler'[t] = << >> /\ data'[t] = <<c, "low">>
      BY <1>3, <1>5, <3>1
    <3>3. QED
      BY <1>5, <2>1, <2>3, <3>2 DEF OneToPut
  <2>4. QED
    BY <1>7, <2>2, <2>3
<1>9. Working(t)'
  BY <1>1, <1>2, <1>6, <1>8 DEF Working, Handling
<1>10. Places'
  BY <1>1, <1>2, <1>3, <1>4, <1>5, <1>9, PlacesKept DEF SameFor
<1>11. KeyTypes'
  BY <1>1, <1>3 DEF KeyInv, KeyTypes
<1>12. QED
  BY <1>4, <1>10, <1>11 DEF KeyInv

\* iret.
LEMMA HandlerReturnStep ==
    ASSUME KeyInv, NEW t \in Threads, HandlerReturn(t)
    PROVE  KeyInv'
<1>1. /\ t = q.cur /\ io[t] = "none" /\ pc[t] = "own"
      /\ back[t] # None /\ handler[t] = << >>
      /\ pc' = [pc EXCEPT ![t] = back[t]]
      /\ back' = [back EXCEPT ![t] = None]
      /\ intr' = [intr EXCEPT ![t] = TRUE]
      /\ UNCHANGED <<q, value, wait, holder, want, held, buff, head, tail, producer,
                     consumer, io, data, kbd, pressed, sent, handler, read, high>>
  BY DEF HandlerReturn, OutsideIo, AtIo, ioVars
<1>2. /\ back[t] = "loop" => t = Idle
      /\ t \in KeyReaders => read[t] = "user"
      /\ Whole
  BY <1>1 DEF KeyInv, Places, AtRest, Resting, Asking, Working, Handling, NoneToPut,
              TwoToPut, OneToPut, Halfway, Done
<1>3. /\ pc'[t] \in {"own", "loop"} /\ (t # Idle => pc'[t] = "own")
      /\ \A u \in Threads \ {t} : pc'[u] = pc[u] /\ intr'[u] = intr[u] /\ back'[u] = back[u]
      /\ pc' \in [Threads -> {"own", "dec", "dec2", "inc", "loop", "hlt"}]
      /\ intr' \in [Threads -> BOOLEAN] /\ back'[t] = None
      /\ back' \in [Threads -> {"own", "loop", None}]
  BY <1>1, <1>2, KeyFacts
<1>4. ThreadInv'
  <2>1. \A u \in Threads \ {Idle} : pc'[u] = pc[u]
    BY <1>1, <1>3
  <2>2. pc'[Idle] \in {"own", "loop", "hlt"}
    BY <1>3, KeyFacts, IoFacts, ThreadsAssumption
  <2>3. QED
    BY <1>1, <1>3, <2>1, <2>2, KeyFacts, SameQueuesStep, QuietStep
<1>5. IoInv'
  <2>1. \A u \in Threads : pc'[u] = pc[u] \/ /\ {pc[u], pc'[u]} \subseteq {"own", "loop", "hlt"}
                                             /\ io[u] \notin InSlot
    BY <1>1, <1>3 DEF InSlot
  <2>2. QED
    BY <1>1, <1>4, <2>1, KeyFacts, OutsideStep DEF AsleepAsBefore
<1>6. AtRest(t)' /\ Whole'
  <2>1. Whole'
    BY <1>1, <1>2, SameWhole
  <2>2. QED
    BY <1>1, <1>2, <1>3, <2>1 DEF AtRest, Resting
<1>7. Places'
  BY <1>1, <1>3, <1>5, <1>6, PlacesKept DEF SameFor
<1>8. KeyTypes'
  BY <1>1, <1>3 DEF KeyInv, KeyTypes
<1>9. QED
  BY <1>5, <1>7, <1>8 DEF KeyInv

\* A reader asks for a key ...
LEMMA GetHighStep ==
    ASSUME KeyInv, NEW t \in KeyReaders, GetHigh(t)
    PROVE  KeyInv'
<1>1. /\ t = q.cur /\ io[t] = "none" /\ pc[t] = "own" /\ t \in Threads /\ t # Idle
      /\ SyscallEnter(t) /\ intr[t] /\ CallGet(t)
      /\ read' = [read EXCEPT ![t] = "high"]
      /\ UNCHANGED <<buff, head, tail, producer, consumer,
                     kbd, pressed, sent, handler, back, high>>
  BY KeyFacts DEF GetHigh, OutsideIo, AtIo, SyscallEnter, keyVars
<1>2. UNCHANGED <<q, pc, want, held>> /\ intr' = [intr EXCEPT ![t] = FALSE]
  BY <1>1 DEF SyscallEnter
<1>3. ThreadInv'
  BY <1>1, KeyFacts, SyscallStep
<1>4. IoInv'
  <2>1. \A u \in Threads : pc'[u] = pc[u] /\ AsleepAsBefore(q', u)
    BY <1>2 DEF AsleepAsBefore
  <2>2. IoInv
    BY KeyFacts
  <2>3. t \in Threads /\ io[t] = "none" /\ t # Idle /\ CallGet(t)
    BY <1>1
  <2>4. UNCHANGED <<buff, head, tail, producer, consumer, want, held>>
    BY <1>1, <1>2
  <2>5. QED
    BY <1>3, <2>1, <2>2, <2>3, <2>4, OutsideStep
<1>5. /\ io'[t] = "get" /\ ~intr'[t] /\ read'[t] = "high"
      /\ \A u \in Threads \ {t} : io'[u] = io[u] /\ intr'[u] = intr[u]
      /\ \A u \in KeyReaders \ {t} : read'[u] = read[u]
  <2>1. /\ io \in [Threads -> {"none", "put", "putlock", "putslot",
                              "get", "getlock", "getslot"}]
        /\ read \in [KeyReaders -> {"user", "high", "low"}]
        /\ intr \in [Threads -> BOOLEAN]
    BY KeyFacts
  <2>2. io'[t] = "get" /\ \A u \in Threads \ {t} : io'[u] = io[u]
    BY <1>1, <2>1 DEF CallGet
  <2>3. ~intr'[t] /\ \A u \in Threads \ {t} : intr'[u] = intr[u]
    BY <1>1, <1>2, <2>1
  <2>4. read'[t] = "high" /\ \A u \in KeyReaders \ {t} : read'[u] = read[u]
    BY <1>1, <2>1
  <2>5. QED
    BY <2>2, <2>3, <2>4
<1>6. /\ AtRest(t) /\ Whole /\ back[t] = None /\ handler[t] = << >>
  BY <1>1, OnMeansRest DEF AtRest, Resting, Asking
<1>7. AtRest(t)' /\ Whole'
  <2>1. Whole'
    BY <1>1, <1>6, SameWhole
  <2>2. QED
    BY <1>1, <1>5, <1>6, <2>1 DEF AtRest, Asking
<1>8. Places'
  BY <1>1, <1>4, <1>5, <1>7, PlacesKept DEF SameFor
<1>9. KeyTypes'
  BY <1>1 DEF KeyInv, KeyTypes
<1>10. QED
  BY <1>4, <1>8, <1>9 DEF KeyInv

\* ... for its second byte ...
LEMMA GetLowStep ==
    ASSUME KeyInv, NEW t \in KeyReaders, GetLow(t)
    PROVE  KeyInv'
<1>1. /\ t = q.cur /\ io[t] = "none" /\ pc[t] = "own" /\ t \in Threads /\ t # Idle
      /\ read[t] = "high" /\ high' = [high EXCEPT ![t] = data[t]] /\ CallGet(t)
      /\ read' = [read EXCEPT ![t] = "low"]
      /\ UNCHANGED <<threadVars, buff, head, tail, producer, consumer,
                     kbd, pressed, sent, handler, back>>
  BY KeyFacts DEF GetLow, OutsideIo, AtIo, keyVars
<1>2. UNCHANGED <<q, pc, want, held, intr>> /\ ThreadInv'
  BY <1>1, KeyFacts, SameThreads DEF threadVars
<1>3. IoInv'
  BY <1>1, <1>2, KeyFacts, OutsideStep DEF AsleepAsBefore
<1>4. /\ io'[t] = "get" /\ read'[t] = "low" /\ high'[t] = data[t]
      /\ \A u \in Threads \ {t} : io'[u] = io[u]
      /\ \A u \in KeyReaders \ {t} : read'[u] = read[u]
      /\ high' \in [KeyReaders -> Bytes \cup {None}]
  BY <1>1, KeyFacts DEF CallGet
<1>5. ~intr[t] /\ Halfway(t)
  BY <1>1 DEF KeyInv, Places, AtRest, Resting, Asking, Working, Handling, Done
<1>6. Halfway(t)'
  <2>1. /\ Contents' = Contents /\ ioQueueLen' = ioQueueLen
        /\ Run(Contents, 1)' = Run(Contents, 1)
    BY <1>1, SameWhole
  <2>2. QED
    BY <1>1, <1>4, <1>5, <2>1 DEF Halfway
<1>7. Working(t)'
  BY <1>1, <1>2, <1>5, <1>6 DEF Working
<1>8. Places'
  BY <1>1, <1>2, <1>3, <1>4, <1>7, PlacesKept DEF SameFor
<1>9. KeyTypes'
  BY <1>1, <1>4 DEF KeyInv, KeyTypes
<1>10. QED
  BY <1>3, <1>8, <1>9 DEF KeyInv

\* ... and goes back with the key, or asks for another.
LEMMA GetReturnStep ==
    ASSUME KeyInv, NEW t \in KeyReaders, GetReturn(t)
    PROVE  KeyInv'
<1>1. /\ t = q.cur /\ io[t] = "none" /\ pc[t] = "own" /\ t \in Threads /\ t # Idle
      /\ read[t] = "low" /\ high' = [high EXCEPT ![t] = None]
      /\ UNCHANGED <<buff, head, tail, producer, consumer,
                     kbd, pressed, sent, handler, back>>
      /\ \/ /\ SyscallReturn(t) /\ io' = io
            /\ read' = [read EXCEPT ![t] = "user"]
            /\ data' = [data EXCEPT ![t] = None]
         \/ /\ CallGet(t) /\ UNCHANGED threadVars
            /\ read' = [read EXCEPT ![t] = "high"]
  BY KeyFacts DEF GetReturn, OutsideIo, AtIo, keyVars
<1>2. ~intr[t] /\ Done(t)
  BY <1>1 DEF KeyInv, Places, AtRest, Resting, Asking, Working, Handling, Halfway
<1>3. Whole'
  BY <1>1, <1>2, SameWhole DEF Done
<1>4. /\ high' \in [KeyReaders -> Bytes \cup {None}]
      /\ read' \in [KeyReaders -> {"user", "high", "low"}]
      /\ \A u \in KeyReaders \ {t} : read'[u] = read[u]
  <2>1. \E w \in {"user", "high"} : read' = [read EXCEPT ![t] = w]
    BY <1>1
  <2>2. QED
    BY <1>1, <2>1, KeyFacts
<1>5. KeyTypes'
  BY <1>1, <1>4 DEF KeyInv, KeyTypes
<1>6. CASE SyscallReturn(t) /\ io' = io /\ read' = [read EXCEPT ![t] = "user"]
           /\ data' = [data EXCEPT ![t] = None]
  <2>1. UNCHANGED <<q, pc, want, held>> /\ intr' = [intr EXCEPT ![t] = TRUE]
    BY <1>6 DEF SyscallReturn
  <2>2. ThreadInv'
    BY <1>1, <1>6, KeyFacts, SyscallStep
  <2>3. IoInv'
    BY <1>1, <1>6, <2>1, <2>2, KeyFacts, OutsideStep DEF AsleepAsBefore
  <2>4. /\ read'[t] = "user"
        /\ \A u \in Threads \ {t} : intr'[u] = intr[u]
    BY <1>6, <2>1, KeyFacts
  <2>5. AtRest(t)'
    BY <1>1, <1>2, <1>6, <2>4 DEF Done, AtRest, Resting
  <2>6. Places'
    BY <1>1, <1>3, <1>4, <1>6, <2>3, <2>4, <2>5, PlacesKept DEF SameFor
  <2>7. QED
    BY <1>5, <2>3, <2>6 DEF KeyInv
<1>7. CASE CallGet(t) /\ UNCHANGED threadVars /\ read' = [read EXCEPT ![t] = "high"]
  <2>1. UNCHANGED <<q, pc, want, held, intr>> /\ ThreadInv'
    BY <1>7, KeyFacts, SameThreads DEF threadVars
  <2>2. IoInv'
    BY <1>1, <1>7, <2>1, KeyFacts, OutsideStep DEF AsleepAsBefore
  <2>3. /\ read'[t] = "high" /\ io'[t] = "get"
        /\ \A u \in Threads \ {t} : io'[u] = io[u]
    BY <1>1, <1>7, KeyFacts DEF CallGet
  <2>4. AtRest(t)'
    BY <1>1, <1>2, <2>1, <2>3 DEF Done, AtRest, Asking
  <2>5. Places'
    BY <1>1, <1>3, <1>4, <2>1, <2>2, <2>3, <2>4, PlacesKept DEF SameFor
  <2>6. QED
    BY <1>5, <2>2, <2>5 DEF KeyInv
<1>8. QED
  BY <1>1, <1>6, <1>7

-----------------------------------------------------------------------------

\* The running thread keeps the processor when it wakes the one in a slot.
LEMMA WakeSlotKeepsCur ==
    ASSUME KeyInv, NEW c, WakeSlot(c)
    PROVE  q'.cur = q.cur
BY KeyFacts, IoFacts DEF WakeSlot, ThreadUnBlock, Queues

\* The handler's byte goes in: there is room.
LEMMA PutPlaces ==
    ASSUME KeyInv, NEW t \in Threads, ioQueuePut(t), UNCHANGED keyboardVars
    PROVE  ~ioQueueFull /\ (IoInv' => Places')
<1>1. /\ t = q.cur /\ io[t] = "put" /\ pc[t] = "own" /\ UNCHANGED <<tail, pc, intr>>
      /\ UNCHANGED <<handler, back, read, high>>
  BY DEF ioQueuePut, AtIo, keyboardVars
<1>2. /\ ~intr[t] /\ back[t] # None /\ (back[t] = "loop" => t = Idle)
      /\ t \in KeyReaders => read[t] = "user"
      /\ \E c \in Codes : TwoToPut(t, c) \/ OneToPut(t, c)
  BY <1>1 DEF KeyInv, Places, AtRest, Resting, Asking, Working, Handling, NoneToPut,
              Halfway, Done
<1>3. PICK c \in Codes : TwoToPut(t, c) \/ OneToPut(t, c)
  BY <1>2
<1>4. ~ioQueueFull
  BY <1>3, KeyFacts, LenFacts DEF TwoToPut, OneToPut
<1>5. ASSUME IoInv' PROVE Places'
  <2>1. /\ buff' = [buff EXCEPT ![head] = data[t]]
        /\ head' = IOQUEUE_NEXTPOS(head) /\ tail' = tail
        /\ WakeSlot(consumer)
        /\ io' = [io EXCEPT ![t] = "none"]
    BY <1>4 DEF ioQueuePut
  <2>2. q'.cur = t /\ io'[t] = "none" /\ (\A u \in Threads \ {t} : io'[u] = io[u])
    BY <1>1, <2>1, KeyFacts, WakeSlotKeepsCur
  <2>3. /\ ioQueueLen' = ioQueueLen + 1
        /\ Contents' = Append(Contents, data[t])
    BY <1>4, <1>5, <2>1, KeyFacts, LenAfterPut, PutAppends DEF IoInv
  <2>4. Run(Contents', 0) => Run(Contents, 0)'
    BY DEF Run
  <2>5. CASE TwoToPut(t, c)
    <3>1. /\ data[t] = <<c, "high">> /\ handler[t] = << <<c, "low">> >>
          /\ Run(Contents, 0) /\ ioQueueLen % 2 = 0 /\ ioQueueLen + 2 <= QueueLen - 1
      BY <1>1, <2>5 DEF TwoToPut, Whole
    <3>2. <<c, "high">> \in Bytes /\ <<c, "high">>[2] = "high"
      BY KeyFacts
    <3>3. Run(Contents', 0)
      <4>1. Len(Contents) % 2 = 0 /\ Len(Contents) % 2 # 1
        BY <3>1, KeyFacts
      <4>2. Run(Append(Contents, data[t]), 0)
        BY <3>1, <3>2, <4>1, KeyFacts, RunAppend
      <4>3. QED
        BY <2>3, <4>2
    <3>4. /\ ioQueueLen' % 2 = 1 /\ ioQueueLen' + 1 <= QueueLen - 1
          /\ Contents'[ioQueueLen'] = <<c, "high">>
      <4>1. ioQueueLen \in Nat /\ QueueLen \in Nat /\ Len(Contents) = ioQueueLen
            /\ Contents \in Seq(Bytes \cup {None})
        BY KeyFacts
      <4>2. (ioQueueLen + 1) % 2 = 1 /\ (ioQueueLen + 1) + 1 <= QueueLen - 1
        BY <3>1, <4>1
      <4>3. Append(Contents, data[t])[ioQueueLen + 1] = data[t]
        BY <4>1
      <4>4. QED
        BY <2>3, <3>1, <4>2, <4>3
    <3>5. OneToPut(t, c)'
      BY <1>1, <2>2, <2>4, <3>1, <3>3, <3>4 DEF OneToPut
    <3>6. QED
      BY <1>1, <1>2, <1>5, <2>2, <3>5, PlacesKept DEF Working, Handling, SameFor
  <2>6. CASE OneToPut(t, c)
    <3>1. /\ data[t] = <<c, "low">> /\ handler[t] = << >>
          /\ Run(Contents, 0) /\ ioQueueLen % 2 = 1
          /\ Contents[ioQueueLen] = <<c, "high">>
      BY <1>1, <2>6 DEF OneToPut
    <3>2. <<c, "low">> \in Bytes /\ <<c, "low">>[2] = "low"
          /\ <<c, "low">>[1] = <<c, "high">>[1]
      BY KeyFacts
    <3>3. Run(Contents', 0)
      <4>1. Len(Contents) % 2 = 1 /\ Len(Contents) % 2 # 0
        BY <3>1, KeyFacts
      <4>2. data[t][2] = "low" /\ data[t][1] = Contents[Len(Contents)][1]
        BY <3>1, <3>2, KeyFacts
      <4>3. Run(Append(Contents, data[t]), 0)
        BY <3>1, <3>2, <4>1, <4>2, KeyFacts, RunAppend
      <4>4. QED
        BY <2>3, <4>3
    <3>4. ioQueueLen' % 2 = 0
      BY <2>3, <3>1, KeyFacts
    <3>5. NoneToPut(t)'
      BY <1>1, <2>2, <2>4, <3>1, <3>3, <3>4 DEF NoneToPut, Whole
    <3>6. QED
      BY <1>1, <1>2, <1>5, <2>2, <3>5, PlacesKept DEF Working, Handling, SameFor
  <2>7. QED
    BY <1>3, <2>5, <2>6
<1>6. QED
  BY <1>4, <1>5

\* A reader gets a byte, of a new key or the other one of the key it has.
LEMMA GetPlaces ==
    ASSUME KeyInv, NEW t \in Threads, ioQueueGet(t), UNCHANGED keyboardVars, IoInv'
    PROVE  Places'
<1>1. /\ t = q.cur /\ io[t] = "get" /\ pc[t] = "own" /\ UNCHANGED <<head, pc, intr>>
      /\ UNCHANGED <<handler, back, read, high>>
  BY DEF ioQueueGet, AtIo, keyboardVars
<1>2. (Asking(t) /\ Whole) \/ (~intr[t] /\ Halfway(t))
  BY <1>1 DEF KeyInv, Places, AtRest, Resting, Working, Handling, NoneToPut,
              TwoToPut, OneToPut, Done
<1>3. CASE ioQueueEmpty
  <2>1. io' = [io EXCEPT ![t] = "getlock"] /\ UNCHANGED <<buff, tail>>
    BY <1>3 DEF ioQueueGet
  <2>2. io'[t] = "getlock" /\ \A u \in Threads \ {t} : io'[u] = io[u]
    BY <2>1, KeyFacts
  <2>3. ~Halfway(t)
    BY <1>3, KeyFacts, LenFacts DEF Halfway
  <2>4. Whole'
    BY <1>1, <1>2, <2>1, <2>3, SameWhole
  <2>5. AtRest(t)'
    BY <1>1, <1>2, <2>2, <2>3 DEF AtRest, Asking
  <2>6. QED
    BY <1>1, <2>2, <2>4, <2>5, PlacesKept DEF SameFor
<1>4. CASE ~ioQueueEmpty
  <2>1. /\ buff' = [buff EXCEPT ![tail] = None]
        /\ tail' = IOQUEUE_NEXTPOS(tail) /\ head' = head
        /\ WakeSlot(producer)
        /\ io' = [io EXCEPT ![t] = "none"]
        /\ data' = [data EXCEPT ![t] = buff[tail]]
    BY <1>4 DEF ioQueueGet
  <2>2. q'.cur = t /\ io'[t] = "none" /\ (\A u \in Threads \ {t} : io'[u] = io[u])
    BY <1>1, <2>1, KeyFacts, WakeSlotKeepsCur
  <2>3. /\ ioQueueLen' = ioQueueLen - 1
        /\ Contents # << >> /\ Contents' = Tail(Contents)
        /\ data'[t] = Contents[1] /\ ioQueueLen >= 1
    <3>1. ioQueueLen' = ioQueueLen - 1
      BY <1>4, <2>1, KeyFacts, LenAfterGet
    <3>2. /\ Contents # << >> /\ buff[tail] = Head(Contents)
          /\ Contents' = Tail(Contents)
      BY <1>4, <2>1, KeyFacts, GetTakesFirst DEF IoInv
    <3>3. QED
      BY <2>1, <3>1, <3>2, KeyFacts
  <2>4. \A o : Run(Contents', o) => Run(Contents, o)'
    BY DEF Run
  <2>5. CASE Asking(t) /\ Whole
    <3>1. Run(Contents, 0) /\ ioQueueLen % 2 = 0 /\ ioQueueLen >= 2
      <4>1. Run(Contents, 0) /\ ioQueueLen % 2 = 0
        BY <2>5 DEF Whole
      <4>2. ioQueueLen \in Nat /\ ioQueueLen # 1
        BY <4>1, KeyFacts
      <4>3. QED
        BY <2>3, <4>1, <4>2
    <3>2. /\ Contents[1] \in Bytes /\ Contents[1][2] = "high"
          /\ Contents[2] \in Bytes /\ Contents[2][2] = "low"
          /\ Contents[2][1] = Contents[1][1]
      <4>1. 1 \in 1 .. Len(Contents) /\ 2 \in 1 .. Len(Contents)
        BY <3>1, KeyFacts
      <4>2. (1 + 0) % 2 = 1 /\ (2 + 0) % 2 = 0 /\ 2 > 1 /\ 2 - 1 = 1
        OBVIOUS
      <4>3. QED
        BY <3>1, <4>1, <4>2 DEF Run
    <3>3. PICK c \in Codes : Contents[1] = <<c, "high">> /\ Contents[2] = <<c, "low">>
      BY <3>2, KeyFacts
    <3>4. Run(Contents', 1 - 0) /\ 1 - 0 = 1
      BY <2>3, <3>1, KeyFacts, RunTail
    <3>5. Contents'[1] = <<c, "low">> /\ ioQueueLen' % 2 = 1
      <4>1. ioQueueLen \in Nat /\ Len(Contents) = ioQueueLen
            /\ Contents \in Seq(Bytes \cup {None})
        BY KeyFacts
      <4>2. (ioQueueLen - 1) % 2 = 1
        BY <3>1, <4>1
      <4>3. Tail(Contents)[1] = Contents[2]
        BY <3>1, <4>1
      <4>4. QED
        BY <2>3, <3>3, <4>2, <4>3
    <3>6. Halfway(t)'
      BY <1>1, <2>2, <2>3, <2>4, <2>5, <3>3, <3>4, <3>5 DEF Halfway, Asking
    <3>7. QED
      BY <1>1, <2>2, <2>5, <3>6, PlacesKept DEF Working, SameFor, Asking
  <2>6. CASE ~intr[t] /\ Halfway(t)
    <3>1. Run(Contents, 1) /\ ioQueueLen % 2 = 1
          /\ t \in KeyReaders /\ back[t] = None /\ handler[t] = << >> /\ read[t] = "low"
      BY <1>1, <2>6 DEF Halfway
    <3>2. PICK c \in Codes : Contents[1] = <<c, "low">> /\ high[t] = <<c, "high">>
      BY <1>1, <2>6 DEF Halfway
    <3>3. Run(Contents', 1 - 1) /\ 1 - 1 = 0
      BY <2>3, <3>1, KeyFacts, RunTail
    <3>4. ioQueueLen' % 2 = 0
      BY <2>3, <3>1, KeyFacts
    <3>5. Done(t)'
      BY <1>1, <2>2, <2>3, <2>4, <3>1, <3>2, <3>3, <3>4 DEF Done, Whole
    <3>6. QED
      BY <1>1, <2>2, <2>6, <3>5, PlacesKept DEF Working, SameFor
  <2>7. QED
    BY <1>2, <2>5, <2>6
<1>5. QED
  BY <1>3, <1>4

\* Only a reader with nothing of a key is in the loop with the queue's mutex.
LEMMA LoopPlaces ==
    ASSUME KeyInv, NEW t \in Threads, UNCHANGED keyboardVars, IoInv',
           \/ IoAcquire(t) \/ IoSleep(t) \/ IoRelease(t)
           \/ InPrimitive(t) /\ UNCHANGED ioVars
    PROVE  Places'
<1>1. UNCHANGED <<handler, back, read, high>>
  BY DEF keyboardVars
<1>2. t = q.cur /\ intr' = intr /\ UNCHANGED <<buff, head, tail>>
      /\ \A u \in Threads \ {t} : io'[u] = io[u]
  <2>1. IoStep(t)
    BY DEF IoStep
  <2>2. UNCHANGED <<buff, head, tail>>
    BY DEF IoAcquire, IoSleep, IoRelease, ioVars
  <2>3. QED
    BY <2>1, <2>2, KeyFacts, IoStepFrame
<1>3. \/ io[t] \in {"putlock", "getlock", "putslot", "getslot"}
      \/ io[t] \in {"put", "get"} /\ pc[t] # "own"
  <2>1. InPrimitive(t) => pc[t] \in {"dec", "dec2", "inc"}
    BY DEF InPrimitive, SemaphoreDecAgain, MutexAcquireHolder, MutexReleaseInc
  <2>2. InPrimitive(t) => io[t] \in {"put", "get", "putlock", "getlock"} /\ pc[t] # "own"
    BY <2>1, KeyFacts DEF IoInv, IoPoints, InLock
  <2>3. QED
    BY <2>2 DEF IoAcquire, IoSleep, IoRelease, AtIo
<1>4. Asking(t) /\ Whole
  BY <1>2, <1>3 DEF KeyInv, Places, AtRest, Resting, Working, Handling, NoneToPut,
                    TwoToPut, OneToPut, Halfway, Done
<1>5. io'[t] \in {"get", "getlock", "getslot"}
  BY <1>4, KeyFacts DEF Asking, IoAcquire, IoSleep, IoRelease, AtIo, ioVars
<1>6. AtRest(t)' /\ Whole'
  BY <1>1, <1>2, <1>4, <1>5, SameWhole DEF AtRest, Asking
<1>7. QED
  BY <1>1, <1>2, <1>6, PlacesKept DEF SameFor

\* Inside ioQueuePut and ioQueueGet.
LEMMA KeyboardIoStep ==
    ASSUME KeyInv, NEW t \in Threads, KeyboardStep(t)
    PROVE  KeyInv'
<1>1. IoStep(t) /\ UNCHANGED keyboardVars
  BY DEF KeyboardStep
<1>2. IoInv'
  <2>1. t = Idle => io[t] # "put" \/ ~ioQueueFull
    <3>1. CASE ioQueuePut(t)
      BY <1>1, <3>1, PutPlaces
    <3>2. CASE ~ioQueuePut(t) /\ t = Idle /\ io[t] = "put"
      <4>1. InPrimitive(t)
        BY <1>1, <3>2 DEF IoStep, ioQueueGet, IoAcquire, IoSleep, IoRelease, AtIo
      <4>2. pc[Idle] \in {"own", "loop", "hlt"}
        BY KeyFacts, IoFacts
      <4>3. QED
        BY <3>2, <4>1, <4>2
           DEF InPrimitive, SemaphoreDecAgain, MutexAcquireHolder, MutexReleaseInc
    <3>3. QED
      BY <3>1, <3>2
  <2>2. QED
    BY <1>1, <2>1, KeyFacts, IoStepInv
<1>3. Places'
  BY <1>1, <1>2, PutPlaces, GetPlaces, LoopPlaces DEF IoStep
<1>4. KeyTypes'
  BY <1>1 DEF KeyInv, KeyTypes, keyboardVars
<1>5. QED
  BY <1>2, <1>3, <1>4 DEF KeyInv

\* The idle loop and the timer: the running thread has no part of a key.
LEMMA KeyboardBackground ==
    ASSUME KeyInv, IdleLoop \/ Timer, UNCHANGED <<ioVars, keyboardVars>>
    PROVE  KeyInv'
<1>1. IoInv' /\ intr' = intr
  BY KeyFacts, BackgroundStep
<1>2. UNCHANGED <<buff, head, tail, io, kbd, pressed, sent, handler, back, read, high>>
  BY DEF ioVars, keyboardVars
<1>3. AtRest(q.cur) /\ Whole
  BY OnMeansRest DEF IdleLoop, Timer, InterruptsOn
<1>4. PICK t : t = q.cur
  OBVIOUS
<1>5. AtRest(t)' /\ Whole'
  BY <1>1, <1>2, <1>3, <1>4, SameWhole DEF AtRest, Resting, Asking
<1>6. Places'
  BY <1>1, <1>2, <1>4, <1>5, PlacesKept DEF SameFor
<1>7. KeyTypes'
  BY <1>2 DEF KeyInv, KeyTypes
<1>8. QED
  BY <1>1, <1>6, <1>7 DEF KeyInv

\* Every step of Keyboard.
LEMMA KeyboardNextInv ==
    KeyInv /\ [KeyboardNext]_keyboardAllVars /\ [~Tight]_keyboardAllVars => KeyInv'
<1> SUFFICES ASSUME KeyInv, [KeyboardNext]_keyboardAllVars, [~Tight]_keyboardAllVars
             PROVE  KeyInv'
  OBVIOUS
<1>1. CASE \E t \in Threads : KeyboardStep(t) \/ HandlerPut(t) \/ HandlerReturn(t)
  BY <1>1, KeyboardIoStep, HandlerPutStep, HandlerReturnStep
<1>2. CASE \E t \in KeyReaders : GetHigh(t) \/ ReaderStep(t)
  BY <1>2, GetHighStep, GetLowStep, GetReturnStep DEF ReaderStep
<1>3. CASE \E k \in Keys : Strike(k)
  BY <1>3, StrikeStep
<1>4. CASE keyboard_interrupt
  <2>1. ~UNCHANGED keyboardAllVars
    <3>1. sent # << >> /\ sent' = Tail(sent) /\ sent \in Seq(Codings)
      BY <1>4 DEF keyboard_interrupt, KeyInv, KeyTypes
    <3>2. sent' # sent
      BY <3>1
    <3>3. QED
      BY <3>2 DEF keyboardAllVars, keyboardVars
  <2>2. QED
    BY <1>4, <2>1, InterruptStep
<1>5. CASE (IdleLoop \/ Timer) /\ UNCHANGED <<ioVars, keyboardVars>>
  BY <1>5, KeyboardBackground
<1>6. CASE UNCHANGED keyboardAllVars
  <2>1. UNCHANGED <<threadVars, ioVars, kbd, pressed, sent, handler, back, read, high>>
    BY <1>6 DEF keyboardAllVars, keyboardVars
  <2>2. KeyTypes'
    BY <2>1 DEF KeyInv, KeyTypes
  <2>3. QED
    BY <2>1, <2>2, NothingStep
<1>7. QED
  BY <1>1, <1>2, <1>3, <1>4, <1>5, <1>6 DEF KeyboardNext

LEMMA KeyboardInitInv == KeyboardInit => KeyInv
<1> SUFFICES ASSUME KeyboardInit PROVE KeyInv
  OBVIOUS
<1>1. IoInv /\ IoTypeOK
  BY IoInitInv DEF KeyboardInit, IoInv
<1>2. KeyTypes
  BY DEF KeyTypes, KeyboardInit
<1>3. Whole
  <2>1. ioQueueLen = 0
    BY <1>1, LenFacts DEF KeyboardInit, IoInit, ioQueueEmpty
  <2>2. Len(Contents) = 0
    BY <1>1, <2>1, ContentsAt DEF InOrder
  <2>3. QED
    BY <2>1, <2>2 DEF Whole, Run
<1>4. \A t \in Threads : AtRest(t)
  BY DEF AtRest, Resting, KeyboardInit, IoInit
<1>5. q.cur \in Threads
  BY <1>1, IoFacts
<1>6. QED
  BY <1>1, <1>2, <1>3, <1>4, <1>5 DEF KeyInv, Places

\* In a ring of odd length the room for keys is even.
LEMMA OddRingRoom ==
    ASSUME KeyInv, QueueLen % 2 = 1
    PROVE  ~Tight
<1> SUFFICES ASSUME InterruptsOn, ioQueueLen = QueueLen - 2 PROVE FALSE
  BY DEF Tight, keyboard_interrupt
<1>1. ioQueueLen % 2 = 0
  BY OnMeansRest DEF InterruptsOn, Whole
<1>2. QED
  BY <1>1, KeyFacts

\* The inductive invariant holds throughout.
THEOREM KeyInvHolds == KeyboardSpec /\ RoomForKeys => []KeyInv
<1>1. KeyboardSpec /\ [][~Tight]_keyboardAllVars => []KeyInv
  BY KeyboardInitInv, KeyboardNextInv, PTL DEF KeyboardSpec
<1>2. QueueLen % 2 = 1 /\ KeyboardSpec => []KeyInv
  <2> DEFINE Odd == QueueLen % 2 = 1 /\ KeyInv
  <2>1. QueueLen % 2 = 1 /\ KeyboardInit => Odd
    BY KeyboardInitInv
  <2>2. Odd /\ [KeyboardNext]_keyboardAllVars => Odd'
    BY KeyboardNextInv, OddRingRoom
  <2>3. Odd => KeyInv
    OBVIOUS
  <2> HIDE DEF Odd
  <2>4. QED
    BY <2>1, <2>2, <2>3, PTL DEF KeyboardSpec
<1>3. QED
  BY <1>1, <1>2 DEF RoomForKeys

\* The threads ioQueuePut and ioQueueGet wake are asleep in their slots, also
\* when an interrupt handler on a stranger's stack does the waking.
THEOREM KeySlotsAsleep == KeyboardSpec /\ RoomForKeys => []SlotsAsleep
<1>1. KeyInv => SlotsAsleep
  BY DEF KeyInv, IoInv, Slots
<1>2. QED
  BY <1>1, KeyInvHolds, PTL

\* Between interrupts the queue holds whole keys, and a reader never puts halves
\* of two keys together, in every ring of odd length and, as long as no key
\* meets the last byte of room, in the others.
THEOREM KeysStayWhole == KeyboardSpec /\ RoomForKeys => []KeysWhole
<1>1. KeyInv => KeysWhole
  <2> SUFFICES ASSUME KeyInv PROVE KeysWhole
    OBVIOUS
  <2>1. ASSUME InterruptsOn
        PROVE  /\ ioQueueLen % 2 = 0
               /\ \A i \in 1 .. ioQueueLen : i % 2 = 1 =>
                    Contents[i][2] = "high" /\ Contents[i + 1] = <<Contents[i][1], "low">>
    <3>1. Run(Contents, 0) /\ ioQueueLen % 2 = 0
      BY <2>1, OnMeansRest DEF InterruptsOn, Whole
    <3>2. ASSUME NEW i \in 1 .. ioQueueLen, i % 2 = 1
          PROVE  Contents[i][2] = "high" /\ Contents[i + 1] = <<Contents[i][1], "low">>
      <4>0. ioQueueLen \in Nat /\ i \in Nat /\ i <= ioQueueLen
        BY KeyFacts
      <4>1. PICK k \in 1 .. ioQueueLen : k = i + 1
        BY <3>1, <3>2, <4>0
      <4>2. (i + 0) % 2 = 1 /\ (k + 0) % 2 = 0 /\ k > 1 /\ k - 1 = i
        BY <3>2, <4>0, <4>1
      <4>3. /\ Contents[i][2] = "high"
            /\ Contents[k] \in Bytes /\ Contents[k][2] = "low"
            /\ Contents[k][1] = Contents[k - 1][1]
        BY <3>1, <4>1, <4>2, KeyFacts DEF Run
      <4>4. Contents[k] = <<Contents[k][1], Contents[k][2]>>
        BY <4>3, KeyFacts
      <4>5. QED
        BY <4>1, <4>2, <4>3, <4>4, Zenon
    <3>3. QED
      BY <3>1, <3>2
  <2>2. ASSUME NEW t \in KeyReaders, read[t] = "low", io[t] = "none"
        PROVE  /\ high[t][2] = "high" /\ data[t][2] = "low"
               /\ high[t][1] = data[t][1]
    <3>1. t \in Threads
      BY KeyFacts
    <3>2. Done(t)
      BY <2>2, <3>1 DEF KeyInv, Places, AtRest, Resting, Asking, Working, Handling, Halfway
    <3>3. QED
      BY <3>2 DEF Done
  <2>3. QED
    BY <2>1, <2>2 DEF KeysWhole
<1>2. QED
  BY <1>1, KeyInvHolds, PTL

-----------------------------------------------------------------------------

\* Every prefix is followed by a code that is none.
Prefixes ==
    IF kbd.flag
    THEN /\ Len(sent) \in {1, 3} /\ sent[1] # E0
         /\ Len(sent) = 3 => sent[2] = E0 /\ sent[3] # E0
    ELSE \/ Len(sent) \in {0, 1} /\ \A i \in 1 .. Len(sent) : sent[i] # E0
         \/ /\ Len(sent) \in {2, 4} /\ sent[1] = E0 /\ sent[2] # E0
            /\ Len(sent) = 4 => sent[3] = E0 /\ sent[4] # E0

ShiftHeld ==
    /\ kbd.shift => pressed \cap Shifts # {}
    /\ Shifts \subseteq Keys \/ (pressed \cap Shifts # {} => kbd.shift)
CtrlHeld == kbd.ctrl = ("ctrl" \in pressed)

\* The code of a plain key is on its way: it will tell of that key what is so
\* already, and until then its own state may be wrong.
Pending ==
    \E k \in PlainKeys \cap Keys :
        /\ \/ sent[1] = <<"make", k>> /\ k \in pressed
           \/ sent[1] = <<"break", k>> /\ k \notin pressed
        /\ k \in Shifts \/ ShiftHeld
        /\ k = "ctrl" \/ CtrlHeld

ModInv ==
    /\ kbd \in [flag: BOOLEAN, shift: BOOLEAN, caps: BOOLEAN, ctrl: BOOLEAN]
    /\ pressed \subseteq Keys
    /\ sent \in Seq(Codings)
    /\ Prefixes
    /\ IF ~kbd.flag /\ Len(sent) = 1 THEN Pending ELSE ShiftHeld /\ CtrlHeld

\* Two codes after two others.
LEMMA ConcatPairs ==
    ASSUME NEW S, NEW a \in Seq(S), NEW b \in Seq(S), Len(a) = 2, Len(b) = 2
    PROVE  /\ Len(a \o b) = 4
           /\ (a \o b)[1] = a[1] /\ (a \o b)[2] = a[2]
           /\ (a \o b)[3] = b[1] /\ (a \o b)[4] = b[2]
<1>1. /\ Len(a \o b) = Len(a) + Len(b)
      /\ \A i \in 1 .. Len(a) + Len(b) :
            (a \o b)[i] = IF i <= Len(a) THEN a[i] ELSE b[i - Len(a)]
  BY ConcatProperties
<1>2. QED
  BY <1>1

\* What ScanCodes can be.
LEMMA ScanCodesShape ==
    ASSUME NEW k \in Keys, NEW how \in {"make", "break"}, NEW s \in ScanCodes(k, how)
    PROVE  \/ /\ k \in PlainKeys /\ Len(s) = 1 /\ s[1] = <<how, k>>
           \/ /\ k \notin PlainKeys /\ Len(s) \in {2, 4} /\ s[1] = E0 /\ s[2] # E0
              /\ Len(s) = 4 => s[3] = E0 /\ s[4] # E0
<1>1. /\ <<how, "right">> # E0 /\ <<how, "ctrl">> # E0
      /\ <<"make", "shift">> # E0 /\ <<"break", "shift">> # E0
      /\ "right" \notin PlainKeys /\ "rctrl" \notin PlainKeys
  BY DEF E0, PlainKeys, Letters, Shifts
<1>2. CASE k = "right"
  <2>1. PICK fake \in {<< >>, <<E0, <<"make", "shift">>>>, <<E0, <<"break", "shift">>>>} :
               s = fake \o <<E0, <<how, "right">>>>
    BY <1>2 DEF ScanCodes
  <2>2. ASSUME NEW c, NEW d, fake = <<c, d>>
        PROVE  /\ Len(s) = 4 /\ s[1] = c /\ s[2] = d
               /\ s[3] = E0 /\ s[4] = <<how, "right">>
    <3> DEFINE S == {c, d, E0, <<how, "right">>}
               own == <<E0, <<how, "right">>>>
    <3>1. /\ fake \in Seq(S) /\ Len(fake) = 2
          /\ own \in Seq(S) /\ Len(own) = 2
      BY <2>2
    <3>2. s = fake \o own /\ own[1] = E0 /\ own[2] = <<how, "right">>
      BY <2>1
    <3> HIDE DEF S, own
    <3>3. /\ Len(fake \o own) = 4
          /\ (fake \o own)[1] = fake[1] /\ (fake \o own)[2] = fake[2]
          /\ (fake \o own)[3] = own[1] /\ (fake \o own)[4] = own[2]
      BY <3>1, ConcatPairs
    <3>4. QED
      BY <2>2, <3>2, <3>3
  <2>3. CASE fake = << >>
    BY <1>1, <1>2, <2>1, <2>3
  <2>4. CASE fake # << >>
    BY <1>1, <1>2, <2>1, <2>2, <2>4
  <2>5. QED
    BY <2>3, <2>4
<1>3. CASE k = "rctrl"
  <2>1. s = <<E0, <<how, "ctrl">>>>
    BY <1>3 DEF ScanCodes
  <2>2. QED
    BY <1>1, <1>3, <2>1
<1>4. CASE k # "right" /\ k # "rctrl"
  <2>1. s = << <<how, k>> >> /\ k \in PlainKeys
    BY <1>4, KeyboardAssumption DEF ScanCodes
  <2>2. QED
    BY <2>1
<1>5. QED
  BY <1>2, <1>3, <1>4

\* A key is struck: only its own state may be wrong for a while.
LEMMA StrikeHolds ==
    ASSUME ModInv, NEW k \in Keys, Strike(k)
    PROVE  ModInv'
<1>1. /\ ~kbd.flag /\ ShiftHeld /\ CtrlHeld /\ kbd' = kbd
  BY DEF ModInv, Prefixes, Strike
<1>2. PICK how \in {"make", "break"} :
         /\ sent' \in ScanCodes(k, how)
         /\ how = "make" => pressed' = pressed \cup {k}
         /\ how = "break" => pressed' = pressed \ {k}
  BY DEF Strike
<1>3. sent' \in Seq(Codings) /\ pressed' \subseteq Keys
  BY <1>2, ScanCodesType DEF ModInv
<1>4. CASE k \in PlainKeys /\ Len(sent') = 1 /\ sent'[1] = <<how, k>>
  <2>1. sent'[1] # E0
    BY <1>4 DEF E0
  <2>2. Prefixes'
    BY <1>1, <1>4, <2>1 DEF Prefixes
  <2>3. k \in Shifts \/ ShiftHeld'
    BY <1>1, <1>2 DEF ShiftHeld
  <2>4. k = "ctrl" \/ CtrlHeld'
    BY <1>1, <1>2 DEF CtrlHeld
  <2>5. Pending'
    BY <1>2, <1>4, <2>3, <2>4 DEF Pending
  <2>6. QED
    BY <1>1, <1>3, <1>4, <2>2, <2>5 DEF ModInv
<1>5. CASE /\ k \notin PlainKeys /\ Len(sent') \in {2, 4} /\ sent'[1] = E0 /\ sent'[2] # E0
           /\ Len(sent') = 4 => sent'[3] = E0 /\ sent'[4] # E0
  <2>1. Prefixes'
    BY <1>1, <1>5 DEF Prefixes
  <2>2. k # "ctrl" /\ k \notin Shifts
    BY <1>5 DEF PlainKeys
  <2>3. ShiftHeld' /\ CtrlHeld'
    BY <1>1, <1>2, <2>2 DEF ShiftHeld, CtrlHeld
  <2>4. QED
    BY <1>1, <1>3, <1>5, <2>1, <2>3 DEF ModInv
<1>6. QED
  BY <1>2, <1>4, <1>5, ScanCodesShape

\* A code arrives: the one that was pending puts its key right, and no other
\* touches a state.
LEMMA InterruptHolds ==
    ASSUME ModInv, keyboard_interrupt
    PROVE  ModInv'
<1>1. PICK c, d : /\ c = Head(sent) /\ d = Decode(c)
                  /\ sent # << >> /\ sent' = Tail(sent)
                  /\ kbd' = KeyState(c, d) /\ pressed' = pressed
  BY DEF keyboard_interrupt
<1>2. /\ kbd' \in [flag: BOOLEAN, shift: BOOLEAN, caps: BOOLEAN, ctrl: BOOLEAN]
      /\ kbd'.flag = (c = E0)
      /\ d = <<"shift", "down">> => kbd'.shift
      /\ d = <<"shift", "up">> => ~kbd'.shift
      /\ d \notin {<<"shift", "down">>, <<"shift", "up">>} => kbd'.shift = kbd.shift
      /\ d = <<"ctrl", "down">> => kbd'.ctrl
      /\ d = <<"ctrl", "up">> => ~kbd'.ctrl
      /\ d \notin {<<"ctrl", "down">>, <<"ctrl", "up">>} => kbd'.ctrl = kbd.ctrl
  <2>1. /\ kbd' \in [flag: BOOLEAN, shift: BOOLEAN, caps: BOOLEAN, ctrl: BOOLEAN]
        /\ kbd'.flag = (c = E0)
    BY <1>1 DEF KeyState, ModInv
  <2>2. /\ kbd'.shift = CASE d = <<"shift", "down">> -> TRUE
                          [] d = <<"shift", "up">> -> FALSE
                          [] OTHER -> kbd.shift
        /\ kbd'.ctrl = CASE d = <<"ctrl", "down">> -> TRUE
                         [] d = <<"ctrl", "up">> -> FALSE
                         [] OTHER -> kbd.ctrl
    BY <1>1 DEF KeyState
  <2>3. /\ d = <<"shift", "down">> => kbd'.shift
        /\ d = <<"shift", "up">> => ~kbd'.shift
        /\ d \notin {<<"shift", "down">>, <<"shift", "up">>} => kbd'.shift = kbd.shift
    <3>1. <<"shift", "down">> # <<"shift", "up">>
      OBVIOUS
    <3>2. QED
      BY <2>2, <3>1
  <2>4. /\ d = <<"ctrl", "down">> => kbd'.ctrl
        /\ d = <<"ctrl", "up">> => ~kbd'.ctrl
        /\ d \notin {<<"ctrl", "down">>, <<"ctrl", "up">>} => kbd'.ctrl = kbd.ctrl
    <3>1. <<"ctrl", "down">> # <<"ctrl", "up">>
      OBVIOUS
    <3>2. QED
      BY <2>2, <3>1
  <2>5. QED
    BY <2>1, <2>3, <2>4
<1>3. /\ sent \in Seq(Codings) /\ sent' \in Seq(Codings) /\ pressed' \subseteq Keys
      /\ Len(sent) \in Nat /\ Len(sent') = Len(sent) - 1 /\ c = sent[1]
      /\ \A i \in 1 .. Len(sent') : sent'[i] = sent[i + 1]
  BY <1>1 DEF ModInv
<1>4. CASE kbd.flag
  <2>1. c # E0 /\ Len(sent') \in {0, 2} /\ ~kbd'.flag
    BY <1>2, <1>3, <1>4 DEF ModInv, Prefixes
  <2>2. Len(sent') = 2 => sent'[1] = E0 /\ sent'[2] # E0
    BY <1>3, <1>4 DEF ModInv, Prefixes
  <2>3. Prefixes'
    BY <2>1, <2>2 DEF Prefixes
  <2>4. d \notin {"shift", "ctrl"} \X {"down", "up"}
    BY <1>1, <1>4, <2>1 DEF Decode, NoCode
  <2>5. ShiftHeld' /\ CtrlHeld'
    BY <1>1, <1>2, <1>4, <2>4 DEF ModInv, ShiftHeld, CtrlHeld
  <2>6. QED
    BY <1>2, <1>3, <2>1, <2>3, <2>5 DEF ModInv
<1>5. CASE ~kbd.flag /\ Len(sent) = 1
  <2>1. c # E0 /\ Len(sent') = 0 /\ ~kbd'.flag
    BY <1>2, <1>3, <1>5 DEF ModInv, Prefixes
  <2> SUFFICES ShiftHeld' /\ CtrlHeld'
    <3>1. Prefixes'
      BY <2>1 DEF Prefixes
    <3>2. QED
      BY <1>2, <1>3, <2>1, <3>1 DEF ModInv
  <2>3. PICK k \in PlainKeys \cap Keys :
           /\ \/ c = <<"make", k>> /\ k \in pressed
              \/ c = <<"break", k>> /\ k \notin pressed
           /\ k \in Shifts \/ ShiftHeld
           /\ k = "ctrl" \/ CtrlHeld
    BY <1>3, <1>5 DEF ModInv, Pending
  <2>4. d = ScanCodeConvertTable(c)
    BY <1>1, <1>5, <2>1 DEF Decode
  <2>5. CASE k \in Shifts
    <3>1. \/ d = <<"shift", "down">> /\ k \in pressed
          \/ d = <<"shift", "up">> /\ k \notin pressed
      BY <2>3, <2>4, <2>5 DEF ScanCodeConvertTable, Way
    <3>2. k # "ctrl"
      BY <2>5 DEF Shifts
    <3>3. kbd'.ctrl = kbd.ctrl /\ (kbd'.shift => k \in pressed)
      BY <1>2, <3>1
    <3>4. ShiftHeld'
      <4>1. pressed' \subseteq Keys /\ (k \in pressed => kbd'.shift)
        BY <1>1, <1>2, <3>1 DEF ModInv
      <4>2. Shifts \subseteq Keys \/ (pressed' \cap Shifts # {} => k \in pressed')
        BY <2>3, <2>5, <4>1 DEF Shifts
      <4>3. QED
        BY <1>1, <2>5, <3>3, <4>1, <4>2 DEF ShiftHeld
    <3>5. CtrlHeld'
      BY <1>1, <2>3, <3>2, <3>3 DEF CtrlHeld
    <3>6. QED
      BY <3>4, <3>5
  <2>6. CASE k = "ctrl"
    <3>1. \/ d = <<"ctrl", "down">> /\ k \in pressed
          \/ d = <<"ctrl", "up">> /\ k \notin pressed
      BY <2>3, <2>4, <2>6 DEF ScanCodeConvertTable, Way, PlainKeys, Shifts
    <3>2. kbd'.shift = kbd.shift /\ kbd'.ctrl = ("ctrl" \in pressed)
      BY <1>2, <2>6, <3>1
    <3>3. k \notin Shifts
      BY <2>6 DEF Shifts
    <3>4. ShiftHeld'
      BY <1>1, <2>3, <3>2, <3>3 DEF ShiftHeld
    <3>5. CtrlHeld'
      BY <1>1, <3>2 DEF CtrlHeld
    <3>6. QED
      BY <3>4, <3>5
  <2>7. CASE k \notin Shifts /\ k # "ctrl"
    <3>1. d[1] = k
      BY <2>3, <2>4, <2>7 DEF ScanCodeConvertTable
    <3>2. d \notin {"shift", "ctrl"} \X {"down", "up"}
      BY <2>7, <3>1 DEF Shifts
    <3>3. kbd'.shift = kbd.shift /\ kbd'.ctrl = kbd.ctrl
      BY <1>2, <3>2
    <3>4. ShiftHeld' /\ CtrlHeld'
      BY <1>1, <2>3, <2>7, <3>3 DEF ShiftHeld, CtrlHeld
    <3>5. QED
      BY <3>4
  <2>8. QED
    BY <2>5, <2>6, <2>7
<1>6. CASE ~kbd.flag /\ Len(sent) # 1
  <2>1. /\ Len(sent) \in {2, 4} /\ c = E0 /\ sent[2] # E0
        /\ Len(sent) = 4 => sent[3] = E0 /\ sent[4] # E0
    BY <1>1, <1>3, <1>6 DEF ModInv, Prefixes
  <2>2. /\ kbd'.flag /\ Len(sent') \in {1, 3} /\ sent'[1] # E0
        /\ Len(sent') = 3 => sent'[2] = E0 /\ sent'[3] # E0
    BY <1>2, <1>3, <2>1
  <2>3. Prefixes'
    BY <2>2 DEF Prefixes
  <2>4. d \notin {"shift", "ctrl"} \X {"down", "up"}
    BY <1>1, <2>1 DEF Decode, NoCode
  <2>5. ShiftHeld' /\ CtrlHeld'
    BY <1>1, <1>2, <1>6, <2>4 DEF ModInv, ShiftHeld, CtrlHeld
  <2>6. QED
    BY <1>2, <1>3, <2>2, <2>3, <2>5 DEF ModInv
<1>7. QED
  BY <1>4, <1>5, <1>6

LEMMA ModNextInv == ModInv /\ [KeyboardNext]_keyboardAllVars => ModInv'
<1> SUFFICES ASSUME ModInv, [KeyboardNext]_keyboardAllVars PROVE ModInv'
  OBVIOUS
<1>1. CASE UNCHANGED <<kbd, pressed, sent>>
  BY <1>1 DEF ModInv, Prefixes, Pending, ShiftHeld, CtrlHeld
<1>2. CASE \E t \in Threads : KeyboardStep(t) \/ HandlerPut(t) \/ HandlerReturn(t)
  BY <1>1, <1>2 DEF KeyboardStep, HandlerPut, HandlerReturn, keyboardVars
<1>3. CASE \E t \in KeyReaders : GetHigh(t) \/ ReaderStep(t)
  BY <1>1, <1>3 DEF GetHigh, ReaderStep, GetLow, GetReturn,
                    keyVars, keyboardVars
<1>4. CASE \E k \in Keys : Strike(k)
  BY <1>4, StrikeHolds
<1>5. CASE keyboard_interrupt
  BY <1>5, InterruptHolds
<1>6. CASE (IdleLoop \/ Timer) /\ UNCHANGED <<ioVars, keyboardVars>>
  BY <1>1, <1>6 DEF keyboardVars
<1>7. CASE UNCHANGED keyboardAllVars
  BY <1>1, <1>7 DEF keyboardAllVars, keyboardVars
<1>8. QED
  BY <1>2, <1>3, <1>4, <1>5, <1>6, <1>7 DEF KeyboardNext

LEMMA ModInitInv == KeyboardInit => ModInv
<1> SUFFICES ASSUME KeyboardInit PROVE ModInv
  OBVIOUS
<1>1. /\ kbd \in [flag: BOOLEAN, shift: BOOLEAN, caps: BOOLEAN, ctrl: BOOLEAN]
      /\ ~kbd.flag /\ ~kbd.shift /\ ~kbd.ctrl /\ pressed = {}
  BY DEF KeyboardInit
<1>2. sent \in Seq(Codings) /\ Len(sent) = 0
  BY DEF KeyboardInit
<1>3. CtrlHeld
  BY <1>1 DEF CtrlHeld
<1>4. QED
  BY <1>1, <1>2, <1>3 DEF ModInv, Prefixes, ShiftHeld

\* KeyBoardShift and KeyBoardCtrl tell what is pressed once the scan codes have
\* arrived, also when the queue has just one byte of room.
THEOREM ModifiersStayHeld == KeyboardSpec => []ModifiersHeld
<1>1. ModInv => ModifiersHeld
  BY DEF ModInv, Prefixes, ModifiersHeld, ShiftHeld, CtrlHeld
<1>2. QED
  BY <1>1, ModInitInv, ModNextInv, PTL DEF KeyboardSpec
=============================================================================
