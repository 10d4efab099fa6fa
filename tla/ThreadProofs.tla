---------------------------- MODULE ThreadProofs ----------------------------
(***************************************************************************)
(* Theorems about Thread, for every number of threads, mutexes and events, *)
(* every time slice and every bound.  They rest on one inductive           *)
(* invariant, IndInv: the properties themselves and Points, which says     *)
(* what a thread's place in the primitives tells of the semaphore and the  *)
(* mutex it is busy with.  ThreadInv is IndInv but for the place of the    *)
(* idle task, on whose stack other modules have interrupt handlers run.    *)
(***************************************************************************)
EXTENDS Thread, ThreadQueuesProofs

Points ==
    /\ \A t \in Threads :
          /\ pc[t] = "dec" <=> want[t] # None
          /\ pc[t] = "dec" /\ want[t] \in Mutexes => held[t] = None
          /\ pc[t] \in {"dec2", "inc"} =>
                held[t] # None /\ holder[held[t]] = None
          /\ pc[t] \in {"loop", "hlt"} => t = Idle
    /\ pc[Idle] \in {"own", "loop", "hlt"} /\ held[Idle] = None

ThreadInv ==
    /\ TypeOK
    /\ NoThreadLost
    /\ Points
    /\ WaitersAsleep
    /\ NoWakeupLost
    /\ MutualExclusion
    /\ OversleepBounded

IndInv == ThreadInv /\ pc[Idle] # "own"

-----------------------------------------------------------------------------

\* What a step may do to the queues without disturbing a waiter.
QueuesStep(p) ==
    /\ p \in Queues /\ QueuesConsistent(p)
    /\ \A t \in p.delayed : p.left[t] >= 1 - (Slice - p.ticks[p.cur])
    /\ \A t \in Threads \ {Idle} :
          q.status[t] = "BLOCKED" /\ pc[t] = "dec" => p.status[t] = "BLOCKED"

\* Rescheduling is such a step: no expired sleeper stays asleep, so none is
\* late.
LEMMA RescheduledStep ==
    ASSUME NEW p, Rescheduled(q, p)
    PROVE  QueuesStep(p)
<1>1. p.ticks[p.cur] \in 0 .. Slice
  BY DEF Rescheduled, Queues
<1>2. ASSUME NEW t \in p.delayed
      PROVE  p.left[t] >= 1 - (Slice - p.ticks[p.cur])
  <2>1. p.left[t] \in Int /\ p.left[t] >= 1
    BY DEF Rescheduled, Queues
  <2>2. QED
    BY <1>1, <2>1, ThreadsAssumption
<1>3. QED
  BY <1>2 DEF Rescheduled, QueuesStep

\* A step that leaves the queues alone is one.
LEMMA SameQueuesStep ==
    ASSUME ThreadInv
    PROVE  QueuesStep(q)
BY DEF ThreadInv, TypeOK, NoThreadLost, OversleepBounded, QueuesStep

\* A timer interrupt is one too: it takes one tick from the running thread for
\* the one it takes from the sleepers.
LEMMA TimerStep ==
    ASSUME ThreadInv, NEW p \in timer_interrupt(q)
    PROVE  QueuesStep(p)
<1>1. q \in Queues /\ QueuesConsistent(q)
  BY DEF ThreadInv, TypeOK, NoThreadLost
<1>2. CASE Rescheduled(q, p)
  BY <1>2, RescheduledStep
<1>3. CASE /\ p \in Queues /\ QueuesConsistent(p)
           /\ p.cur = q.cur /\ p.status = q.status /\ p.delayed = q.delayed
           /\ p.ticks[q.cur] = q.ticks[q.cur] - 1
           /\ \A t \in q.delayed : p.left[t] = q.left[t] - 1
  <2>1. q.ticks[q.cur] \in Int
    BY <1>1 DEF Queues
  <2>2. ASSUME NEW t \in p.delayed
        PROVE  p.left[t] >= 1 - (Slice - p.ticks[p.cur])
    <3>1. q.left[t] \in Int /\ q.left[t] >= 1 - (Slice - q.ticks[q.cur])
      BY <1>1, <1>3 DEF ThreadInv, OversleepBounded, Queues
    <3>2. QED
      BY <1>3, <2>1, <3>1, ThreadsAssumption
  <2>3. QED
    BY <1>3, <2>2 DEF QueuesStep
<1>4. QED
  BY <1>1, <1>2, <1>3, TimerConsistent

\* The threads in the queue of a semaphore.
LEMMA WaitersFacts ==
    ASSUME ThreadInv, NEW s \in Sems
    PROVE  /\ Waiting(s) = Elements(wait[s])
           /\ OnceEach(wait[s])
           /\ \A t \in Waiting(s) : /\ t \in Threads \ {Idle, q.cur}
                                    /\ q.status[t] = "BLOCKED"
                                    /\ pc[t] = "dec" /\ want[t] = s
<1>1. wait[s] \in Seq(Threads)
  BY DEF ThreadInv, TypeOK
<1>2. Waiting(s) = Elements(wait[s])
  BY DEF Waiting, Elements
<1>3. OnceEach(wait[s])
  BY DEF ThreadInv, WaitersAsleep, OnceEach
<1>4. ASSUME NEW t \in Waiting(s)
      PROVE  /\ t \in Threads \ {Idle, q.cur}
             /\ q.status[t] = "BLOCKED"
             /\ pc[t] = "dec" /\ want[t] = s
  <2>1. PICK i \in 1 .. Len(wait[s]) : t = wait[s][i]
    BY DEF Waiting
  <2>2. t \in Threads
    BY <1>1, <2>1
  <2>3. q.status[t] = "BLOCKED" /\ pc[t] = "dec" /\ want[t] = s
    BY <2>1 DEF ThreadInv, WaitersAsleep
  <2>4. t # Idle /\ t # q.cur
    BY <2>2, <2>3 DEF ThreadInv, Points, NoThreadLost, QueuesConsistent
  <2>5. QED
    BY <2>2, <2>3, <2>4
<1>5. QED
  BY <1>2, <1>3, <1>4

\* The waiters of a semaphore nobody touches stay asleep.
LEMMA WaitersUndisturbed ==
    ASSUME ThreadInv, NEW s \in Sems,
           wait'[s] = wait[s],
           \A t \in Waiting(s) : /\ q'.status[t] = "BLOCKED"
                                 /\ pc'[t] = pc[t] /\ want'[t] = want[t]
    PROVE  \A i \in 1 .. Len(wait'[s]) :
                LET t == wait'[s][i] IN
                /\ q'.status[t] = "BLOCKED" /\ pc'[t] = "dec" /\ want'[t] = s
                /\ \A j \in 1 .. Len(wait'[s]) : wait'[s][j] = t => j = i
<1> TAKE i \in 1 .. Len(wait'[s])
<1>1. wait[s][i] \in Waiting(s)
  BY DEF Waiting
<1>2. QED
  BY <1>1, WaitersFacts DEF ThreadInv, WaitersAsleep

\* Nor is a wake-up lost on it.
LEMMA WokenUndisturbed ==
    ASSUME ThreadInv, NEW s \in Sems,
           wait'[s] = wait[s], value'[s] = value[s],
           \A t \in Threads : want'[t] = s <=> want[t] = s
    PROVE  wait'[s] # << >> => Cardinality(Woken(s)') >= value'[s]
<1>1. Woken(s)' = Woken(s)
  BY DEF Woken, Waiting
<1>2. QED
  BY <1>1 DEF ThreadInv, NoWakeupLost

-----------------------------------------------------------------------------

\* A step that leaves the semaphores and mutexes alone.
LEMMA QuietStep ==
    ASSUME ThreadInv, QueuesStep(q'),
           intr' \in [Threads -> BOOLEAN],
           pc' \in [Threads -> {"own", "dec", "dec2", "inc", "loop", "hlt"}],
           \A t \in Threads \ {Idle} : pc'[t] = pc[t],
           pc'[Idle] \in {"own", "loop", "hlt"},
           UNCHANGED <<value, wait, holder, want, held>>
    PROVE  ThreadInv'
<1> USE ThreadsAssumption
<1>1. TypeOK'
  BY DEF ThreadInv, TypeOK, QueuesStep
<1>2. NoThreadLost' /\ OversleepBounded'
  BY DEF QueuesStep, NoThreadLost, OversleepBounded
<1>3. want[Idle] = None /\ held[Idle] = None
  BY DEF ThreadInv, Points
<1>4. Points'
  BY <1>3 DEF ThreadInv, Points
<1>5. WaitersAsleep'
  <2> SUFFICES ASSUME NEW s \in Sems
               PROVE  \A i \in 1 .. Len(wait'[s]) :
                          LET t == wait'[s][i] IN
                          /\ q'.status[t] = "BLOCKED" /\ pc'[t] = "dec" /\ want'[t] = s
                          /\ \A j \in 1 .. Len(wait'[s]) : wait'[s][j] = t => j = i
    BY DEF WaitersAsleep
  <2>1. \A t \in Waiting(s) : /\ q'.status[t] = "BLOCKED"
                              /\ pc'[t] = pc[t] /\ want'[t] = want[t]
    BY WaitersFacts DEF QueuesStep
  <2>2. QED
    BY <2>1, WaitersUndisturbed
<1>6. NoWakeupLost'
  <2>1. ASSUME NEW s \in Sems
        PROVE  wait'[s] # << >> => Cardinality(Woken(s)') >= value'[s]
    BY WokenUndisturbed
  <2>2. QED
    BY <2>1 DEF NoWakeupLost
<1>7. MutualExclusion'
  <2>1. \A t \in Threads :
            held[t] # None /\ pc'[t] \in {"own", "dec"} => pc[t] \in {"own", "dec"}
    BY <1>3
  <2>2. QED
    BY <2>1, ThreadAssumption DEF ThreadInv, TypeOK, MutualExclusion, Sems
<1>8. QED
  BY <1>1, <1>2, <1>4, <1>5, <1>6, <1>7 DEF ThreadInv

-----------------------------------------------------------------------------

\* What the running thread may assume when it tests a semaphore: it is on its
\* own account or has been woken, and wants no mutex while it is in one.
Testing(t, s) ==
    /\ t = q.cur /\ t \in Threads \ {Idle} /\ s \in Sems
    /\ pc[t] \in {"own", "dec"}
    /\ want[t] \in {None, s}
    /\ s \in Mutexes => held[t] = None

\* SemaphoreDec takes the semaphore.  One that is a mutex was free, with no
\* holder stored; a thread that takes what a wake-up announced to it was woken
\* itself, or found a unit no waiter had been woken for.
LEMMA TakeStep ==
    ASSUME ThreadInv, NEW t, NEW s, Testing(t, s), value[s] > 0,
           value' = [value EXCEPT ![s] = @ - 1],
           want' = [want EXCEPT ![t] = None],
           held' = IF s \in Mutexes THEN [held EXCEPT ![t] = s] ELSE held,
           pc' = [pc EXCEPT ![t] = IF s \in Mutexes THEN "dec2" ELSE "own"],
           UNCHANGED <<q, wait, holder, intr>>
    PROVE  ThreadInv'
<1> USE ThreadsAssumption, ThreadAssumption
<1>1. /\ t = q.cur /\ t \in Threads /\ t # Idle /\ s \in Sems
      /\ None \notin Sems /\ None \notin Threads /\ Mutexes \subseteq Sems
      /\ value[s] \in Nat /\ value[s] - 1 \in Nat
  BY DEF Testing, ThreadInv, TypeOK, Sems
<1>2. TypeOK'
  BY <1>1 DEF ThreadInv, TypeOK
<1>3. NoThreadLost' /\ OversleepBounded'
  BY DEF ThreadInv, NoThreadLost, OversleepBounded
<1>4. ASSUME s \in Mutexes
      PROVE  Points' /\ MutualExclusion'
  <2>1. /\ held[t] = None /\ value[s] = 1
        /\ \A u \in Threads : held[u] # s
        /\ value'[s] = 0
    BY <1>1, <1>4 DEF Testing, ThreadInv, MutualExclusion, TypeOK
  <2>2. holder[s] = None
    BY <1>4, <2>1 DEF ThreadInv, MutualExclusion, TypeOK
  <2>3. Points'
    BY <1>1, <1>2, <1>4, <2>1, <2>2 DEF ThreadInv, Points, TypeOK
  <2>4. MutualExclusion'
    <3>1. /\ held' = [held EXCEPT ![t] = s] /\ pc'[t] = "dec2"
          /\ \A u \in Threads \ {t} : held'[u] = held[u] /\ pc'[u] = pc[u]
          /\ held'[t] = s
      BY <1>1, <1>4 DEF ThreadInv, TypeOK
    <3>2. ASSUME NEW m \in Mutexes, m # s
          PROVE  /\ value'[m] = value[m]
                 /\ \A u \in Threads : held'[u] = m <=> held[u] = m
                 /\ t # holder[m] \/ holder[m] = None
      BY <1>1, <2>1, <3>1, <3>2 DEF ThreadInv, TypeOK, MutualExclusion
    <3>3. ASSUME NEW m \in Mutexes
          PROVE  /\ \A u, v \in Threads : held'[u] = m /\ held'[v] = m => u = v
                 /\ value'[m] = IF \E u \in Threads : held'[u] = m THEN 0 ELSE 1
                 /\ \A u \in Threads :
                       held'[u] = m /\ pc'[u] \in {"own", "dec"} => holder[m] = u
                 /\ holder[m] # None => held'[holder[m]] = m
      <4>1. CASE m = s
        <5>1. \A u \in Threads : held'[u] = m <=> u = t
          BY <2>1, <3>1, <4>1
        <5>2. value'[m] = 0 /\ holder[m] = None /\ pc'[t] = "dec2"
          BY <2>1, <2>2, <3>1, <4>1
        <5>3. \E u \in Threads : held'[u] = m
          BY <1>1, <5>1
        <5>4. QED
          BY <5>1, <5>2, <5>3
      <4>2. CASE m # s
        <5>1. holder[m] # None => holder[m] \in Threads \ {t}
          BY <3>2, <4>2 DEF ThreadInv, TypeOK
        <5>2. \A u \in Threads : held'[u] = m /\ pc'[u] \in {"own", "dec"} =>
                                    u # t /\ held[u] = m /\ pc[u] \in {"own", "dec"}
          BY <3>1, <3>2, <4>2
        <5>3. QED
          BY <3>1, <3>2, <4>2, <5>1, <5>2 DEF ThreadInv, MutualExclusion
      <4>3. QED
        BY <4>1, <4>2
    <3>4. QED
      BY <3>3 DEF MutualExclusion
  <2>5. QED
    BY <2>3, <2>4
<1>5. ASSUME s \notin Mutexes
      PROVE  Points' /\ MutualExclusion'
  <2>1. held' = held /\ \A m \in Mutexes : value'[m] = value[m]
    BY <1>1, <1>5 DEF ThreadInv, TypeOK
  <2>2. \A u \in Threads : pc'[u] = pc[u] \/ (pc[u] \in {"own", "dec"} /\ pc'[u] = "own")
    BY <1>1, <1>5 DEF ThreadInv, TypeOK, Testing
  <2>3. Points'
    BY <1>1, <1>5, <2>1 DEF ThreadInv, Points, TypeOK, Testing
  <2>4. MutualExclusion'
    BY <2>1, <2>2 DEF ThreadInv, MutualExclusion
  <2>5. QED
    BY <2>3, <2>4
<1>6. WaitersAsleep'
  <2>1. ASSUME NEW x \in Sems
        PROVE  \A i \in 1 .. Len(wait'[x]) :
                   LET u == wait'[x][i] IN
                   /\ q'.status[u] = "BLOCKED" /\ pc'[u] = "dec" /\ want'[u] = x
                   /\ \A j \in 1 .. Len(wait'[x]) : wait'[x][j] = u => j = i
    <3>1. \A u \in Waiting(x) : /\ q'.status[u] = "BLOCKED"
                                /\ pc'[u] = pc[u] /\ want'[u] = want[u]
      BY <1>1, WaitersFacts DEF ThreadInv, TypeOK
    <3>2. QED
      BY <3>1, WaitersUndisturbed
  <2>2. QED
    BY <2>1 DEF WaitersAsleep
<1>7. NoWakeupLost'
  <2>1. ASSUME NEW x \in Sems, x # s
        PROVE  wait'[x] # << >> => Cardinality(Woken(x)') >= value'[x]
    <3>1. value'[x] = value[x] /\ \A u \in Threads : want'[u] = x <=> want[u] = x
      BY <1>1, <2>1 DEF Testing, ThreadInv, TypeOK
    <3>2. QED
      BY <3>1, WokenUndisturbed
  <2>2. wait'[s] # << >> => Cardinality(Woken(s)') >= value'[s]
    <3>1. t \notin Waiting(s)
      BY <1>1, WaitersFacts
    <3>2. Woken(s)' = Woken(s) \ {t}
      BY <1>1 DEF Woken, Waiting, ThreadInv, TypeOK
    <3>3. IsFiniteSet(Woken(s))
      BY FS_Subset DEF Woken
    <3>4. /\ Cardinality(Woken(s)) \in Nat
          /\ Cardinality(Woken(s)') >= Cardinality(Woken(s)) - 1
      <4>1. Cardinality(Woken(s)) \in Nat
        BY <3>3, FS_CardinalityType
      <4>2. Cardinality(Woken(s)') = IF t \in Woken(s) THEN Cardinality(Woken(s)) - 1
                                                     ELSE Cardinality(Woken(s))
        BY <3>2, <3>3, FS_RemoveElement
      <4>3. QED
        BY <4>1, <4>2
    <3>5. value'[s] = value[s] - 1
      BY <1>1 DEF ThreadInv, TypeOK
    <3>6. Cardinality(Woken(s)') \in Nat
      BY <3>2, <3>3, FS_CardinalityType, FS_RemoveElement
    <3>7. wait[s] # << >> => Cardinality(Woken(s)) >= value[s]
      BY <1>1 DEF ThreadInv, NoWakeupLost
    <3>8. QED
      BY <1>1, <3>4, <3>5, <3>6, <3>7
  <2>3. QED
    BY <2>1, <2>2 DEF NoWakeupLost
<1>8. QED
  BY <1>2, <1>3, <1>4, <1>5, <1>6, <1>7 DEF ThreadInv

\* SemaphoreDec queues up: the thread leaves for the BlockList, and it was not
\* in the queue of any semaphore.
LEMMA WaitStep ==
    ASSUME ThreadInv, NEW t, NEW s, Testing(t, s), value[s] = 0,
           wait' = [wait EXCEPT ![s] = Append(@, t)],
           want' = [want EXCEPT ![t] = s],
           pc' = [pc EXCEPT ![t] = "dec"],
           q' \in ThreadBlock(q, "BLOCKED"),
           UNCHANGED <<value, held, holder, intr>>
    PROVE  ThreadInv'
<1> USE ThreadsAssumption, ThreadAssumption
<1>1. /\ t = q.cur /\ t \in Threads /\ t # Idle /\ s \in Sems
      /\ None \notin Sems /\ None \notin Threads
      /\ want[t] \in {None, s}
      /\ wait[s] \in Seq(Threads)
  BY DEF Testing, ThreadInv, TypeOK
<1>2. Rescheduled(q, q') /\ q'.status[t] = "BLOCKED"
  BY <1>1, ThreadBlockConsistent DEF ThreadInv, TypeOK, NoThreadLost, OnBlockList
<1>3. QueuesStep(q')
  BY <1>2, RescheduledStep
<1>4. t \notin Waiting(s)
  BY <1>1, WaitersFacts
<1>5. /\ wait'[s] \in Seq(Threads)
      /\ Elements(wait'[s]) = Waiting(s) \cup {t}
      /\ OnceEach(wait'[s])
  <2>1. wait'[s] = Append(wait[s], t)
    BY <1>1 DEF ThreadInv, TypeOK
  <2>2. Waiting(s) = Elements(wait[s]) /\ OnceEach(wait[s])
    BY <1>1, WaitersFacts
  <2>3. QED
    BY <1>1, <1>4, <2>1, <2>2, AppendElements
<1>6. TypeOK'
  BY <1>1, <1>3, <1>5 DEF ThreadInv, TypeOK, QueuesStep
<1>7. NoThreadLost' /\ OversleepBounded'
  BY <1>3 DEF QueuesStep, NoThreadLost, OversleepBounded
<1>8. Points'
  BY <1>1 DEF ThreadInv, Points, TypeOK, Testing
<1>9. \A x \in Sems : \A u \in Waiting(x) :
          u # t /\ q'.status[u] = "BLOCKED" /\ pc'[u] = pc[u] /\ want'[u] = want[u]
  BY <1>1, <1>3, WaitersFacts DEF QueuesStep, ThreadInv, TypeOK
<1>10. WaitersAsleep'
  <2>1. ASSUME NEW x \in Sems, x # s
        PROVE  \A i \in 1 .. Len(wait'[x]) :
                   LET u == wait'[x][i] IN
                   /\ q'.status[u] = "BLOCKED" /\ pc'[u] = "dec" /\ want'[u] = x
                   /\ \A j \in 1 .. Len(wait'[x]) : wait'[x][j] = u => j = i
    <3>1. wait'[x] = wait[x]
      BY <2>1 DEF ThreadInv, TypeOK
    <3>2. QED
      BY <1>9, <3>1, WaitersUndisturbed
  <2>2. ASSUME NEW i \in 1 .. Len(wait'[s])
        PROVE  LET u == wait'[s][i] IN
               /\ q'.status[u] = "BLOCKED" /\ pc'[u] = "dec" /\ want'[u] = s
               /\ \A j \in 1 .. Len(wait'[s]) : wait'[s][j] = u => j = i
    <3>1. wait'[s][i] \in Waiting(s) \cup {t}
      BY <1>5 DEF Elements
    <3>2. \A u \in Waiting(s) \cup {t} :
              q'.status[u] = "BLOCKED" /\ pc'[u] = "dec" /\ want'[u] = s
      BY <1>1, <1>2, <1>9, WaitersFacts DEF ThreadInv, TypeOK
    <3>3. QED
      BY <1>5, <3>1, <3>2 DEF OnceEach
  <2>3. QED
    BY <2>1, <2>2 DEF WaitersAsleep
<1>11. NoWakeupLost'
  <2>1. ASSUME NEW x \in Sems, x # s
        PROVE  wait'[x] # << >> => Cardinality(Woken(x)') >= value'[x]
    <3>1. wait'[x] = wait[x] /\ \A u \in Threads : want'[u] = x <=> want[u] = x
      BY <1>1, <2>1 DEF Testing, ThreadInv, TypeOK
    <3>2. QED
      BY <3>1, WokenUndisturbed
  <2>2. Cardinality(Woken(s)') >= value'[s]
    <3>1. IsFiniteSet(Woken(s)')
      BY FS_Subset DEF Woken
    <3>2. QED
      BY <3>1, FS_CardinalityType
  <2>3. QED
    BY <2>1, <2>2 DEF NoWakeupLost
<1>12. MutualExclusion'
  <2>1. \A u \in Threads : pc'[u] \in {"own", "dec"} => pc[u] \in {"own", "dec"}
    BY <1>1 DEF ThreadInv, TypeOK, Testing
  <2>2. QED
    BY <2>1 DEF ThreadInv, MutualExclusion
<1>13. QED
  BY <1>6, <1>7, <1>8, <1>10, <1>11, <1>12 DEF ThreadInv

\* SemaphoreInc: the waiter it unblocks is asleep on that semaphore, and is
\* counted as woken from then on.
LEMMA IncStep ==
    ASSUME ThreadInv, NEW s \in Sems, SemaphoreInc(s),
           \A u \in Threads : want'[u] = want[u] /\ (pc[u] = "dec" => pc'[u] = "dec")
    PROVE  /\ wait' \in [Sems -> Seq(Threads)]
           /\ value' \in [Sems -> Nat]
           /\ \A x \in Sems \ {s} : value'[x] = value[x]
           /\ value'[s] = value[s] + 1
           /\ q'.cur = q.cur /\ q' \in Queues
           /\ NoThreadLost' /\ OversleepBounded'
           /\ WaitersAsleep' /\ NoWakeupLost'
<1> USE ThreadsAssumption, ThreadAssumption
<1>1. /\ q \in Queues /\ QueuesConsistent(q)
      /\ value' = [value EXCEPT ![s] = @ + 1]
      /\ value[s] \in Nat /\ wait[s] \in Seq(Threads)
  BY DEF ThreadInv, TypeOK, NoThreadLost, SemaphoreInc
<1>2. /\ value' \in [Sems -> Nat]
      /\ \A x \in Sems \ {s} : value'[x] = value[x]
      /\ value'[s] = value[s] + 1
  BY <1>1 DEF ThreadInv, TypeOK
<1>3. CASE wait[s] = << >>
  <2>1. q' = q /\ wait' = wait
    BY <1>3 DEF SemaphoreInc
  <2>2. /\ NoThreadLost' /\ OversleepBounded' /\ q' \in Queues
        /\ wait' \in [Sems -> Seq(Threads)]
    BY <1>1, <2>1 DEF ThreadInv, TypeOK, NoThreadLost, OversleepBounded
  <2>3. WaitersAsleep'
    <3>1. ASSUME NEW x \in Sems
          PROVE  \A i \in 1 .. Len(wait'[x]) :
                     LET u == wait'[x][i] IN
                     /\ q'.status[u] = "BLOCKED" /\ pc'[u] = "dec" /\ want'[u] = x
                     /\ \A j \in 1 .. Len(wait'[x]) : wait'[x][j] = u => j = i
      BY <2>1, WaitersFacts, WaitersUndisturbed
    <3>2. QED
      BY <3>1 DEF WaitersAsleep
  <2>4. ASSUME NEW x \in Sems
        PROVE  wait'[x] # << >> => Cardinality(Woken(x)') >= value'[x]
    BY <1>2, <1>3, <2>1, WokenUndisturbed
  <2>5. QED
    BY <1>2, <2>1, <2>2, <2>3, <2>4 DEF NoWakeupLost
<1>4. CASE wait[s] # << >>
  <2> DEFINE h == Head(wait[s])
  <2>1. /\ wait' = [wait EXCEPT ![s] = Tail(@)]
        /\ q' = ThreadUnBlock(q, h)
    BY <1>4 DEF SemaphoreInc
  <2>2. Waiting(s) = Elements(wait[s]) /\ OnceEach(wait[s])
    BY WaitersFacts
  <2>3. /\ h \in Waiting(s)
        /\ wait'[s] \in Seq(Threads)
        /\ Elements(wait'[s]) = Waiting(s) \ {h}
        /\ OnceEach(wait'[s])
    BY <1>1, <1>4, <2>1, <2>2, TailElements DEF ThreadInv, TypeOK
  <2> HIDE DEF h
  <2>4. h \in Threads \ {Idle} /\ q.status[h] = "BLOCKED" /\ want[h] = s
    BY <2>3, WaitersFacts
  <2>5. /\ q' \in Queues /\ QueuesConsistent(q')
        /\ q'.cur = q.cur /\ q'.delayed = q.delayed
        /\ q'.left = q.left /\ q'.ticks = q.ticks
        /\ \A u \in Threads \ {h} : q'.status[u] = q.status[u]
    BY <1>1, <2>1, <2>4, UnBlockConsistent DEF OnBlockList
  <2>6. /\ NoThreadLost' /\ OversleepBounded'
        /\ wait' \in [Sems -> Seq(Threads)]
    BY <1>1, <2>1, <2>3, <2>5 DEF ThreadInv, TypeOK, NoThreadLost, OversleepBounded
  <2>7. \A x \in Sems : \A u \in Waiting(x) \ {h} :
            q'.status[u] = "BLOCKED" /\ pc'[u] = pc[u] /\ want'[u] = want[u]
    BY <2>5, WaitersFacts
  <2>8. \A x \in Sems \ {s} : h \notin Waiting(x) /\ wait'[x] = wait[x]
    BY <2>1, <2>4, WaitersFacts DEF ThreadInv, TypeOK
  <2>9. WaitersAsleep'
    <3>1. ASSUME NEW x \in Sems, x # s
          PROVE  \A i \in 1 .. Len(wait'[x]) :
                     LET u == wait'[x][i] IN
                     /\ q'.status[u] = "BLOCKED" /\ pc'[u] = "dec" /\ want'[u] = x
                     /\ \A j \in 1 .. Len(wait'[x]) : wait'[x][j] = u => j = i
      BY <2>7, <2>8, <3>1, WaitersUndisturbed
    <3>2. ASSUME NEW i \in 1 .. Len(wait'[s])
          PROVE  LET u == wait'[s][i] IN
                 /\ q'.status[u] = "BLOCKED" /\ pc'[u] = "dec" /\ want'[u] = s
                 /\ \A j \in 1 .. Len(wait'[s]) : wait'[s][j] = u => j = i
      <4>1. wait'[s][i] \in Waiting(s) \ {h}
        BY <2>3 DEF Elements
      <4>2. \A u \in Waiting(s) \ {h} :
                q'.status[u] = "BLOCKED" /\ pc'[u] = "dec" /\ want'[u] = s
        BY <2>7, WaitersFacts
      <4>3. QED
        BY <2>3, <4>1, <4>2 DEF OnceEach
    <3>3. QED
      BY <3>1, <3>2 DEF WaitersAsleep
  <2>10. NoWakeupLost'
    <3>1. ASSUME NEW x \in Sems, x # s
          PROVE  wait'[x] # << >> => Cardinality(Woken(x)') >= value'[x]
      BY <1>2, <2>8, <3>1, WokenUndisturbed
    <3>2. Cardinality(Woken(s)') >= value'[s]
      <4>1. Waiting(s)' = Waiting(s) \ {h}
        BY <2>3 DEF Waiting, Elements
      <4>2. Woken(s)' = Woken(s) \cup {h} /\ h \notin Woken(s)
        BY <2>3, <2>4, <4>1 DEF Woken
      <4>3. IsFiniteSet(Woken(s))
        BY FS_Subset DEF Woken
      <4>4. Cardinality(Woken(s)) \in Nat
        BY <4>3, FS_CardinalityType
      <4>5. Cardinality(Woken(s)') = Cardinality(Woken(s)) + 1
        BY <4>2, <4>3, FS_AddElement
      <4>6. Cardinality(Woken(s)) >= value[s]
        BY <1>4 DEF ThreadInv, NoWakeupLost
      <4>7. QED
        BY <1>1, <1>2, <4>4, <4>5, <4>6
    <3>3. QED
      BY <3>1, <3>2 DEF NoWakeupLost
  <2>11. QED
    BY <1>2, <2>5, <2>6, <2>9, <2>10
<1>5. QED
  BY <1>3, <1>4

-----------------------------------------------------------------------------

\* The steps of MutexAcquire and MutexRelease around the semaphore.
LEMMA MutexAcquireHolderStep ==
    ASSUME ThreadInv, NEW t \in Threads, MutexAcquireHolder(t)
    PROVE  ThreadInv'
<1> USE ThreadsAssumption, ThreadAssumption
<1>1. /\ t = q.cur /\ pc[t] = "dec2" /\ t # Idle
      /\ held[t] \in Mutexes /\ holder[held[t]] = None
      /\ holder' = [holder EXCEPT ![held[t]] = t]
      /\ pc' = [pc EXCEPT ![t] = "own"]
      /\ UNCHANGED <<q, value, wait, want, held, intr>>
  BY DEF MutexAcquireHolder, ThreadInv, TypeOK, Points
<1>2. TypeOK'
  BY <1>1 DEF ThreadInv, TypeOK
<1>3. NoThreadLost' /\ OversleepBounded'
  BY <1>1 DEF ThreadInv, NoThreadLost, OversleepBounded
<1>4. \A u \in Threads : held[u] = held[t] => u = t
  BY <1>1 DEF ThreadInv, MutualExclusion
<1>5. Points'
  BY <1>1, <1>4 DEF ThreadInv, Points, TypeOK
<1>6. WaitersAsleep'
  <2>1. ASSUME NEW s \in Sems
        PROVE  \A i \in 1 .. Len(wait'[s]) :
                   LET u == wait'[s][i] IN
                   /\ q'.status[u] = "BLOCKED" /\ pc'[u] = "dec" /\ want'[u] = s
                   /\ \A j \in 1 .. Len(wait'[s]) : wait'[s][j] = u => j = i
    <3>1. \A u \in Waiting(s) : q'.status[u] = "BLOCKED" /\ pc'[u] = pc[u] /\ want'[u] = want[u]
      BY <1>1, WaitersFacts DEF ThreadInv, TypeOK
    <3>2. QED
      BY <1>1, <3>1, WaitersUndisturbed
  <2>2. QED
    BY <2>1 DEF WaitersAsleep
<1>7. NoWakeupLost'
  BY <1>1, WokenUndisturbed DEF NoWakeupLost
<1>8. MutualExclusion'
  BY <1>1, <1>4 DEF ThreadInv, MutualExclusion, TypeOK
<1>9. QED
  BY <1>2, <1>3, <1>5, <1>6, <1>7, <1>8 DEF ThreadInv

\* The holder is cleared while the mutex is still taken.
LEMMA MutexReleaseHolderStep ==
    ASSUME ThreadInv, NEW t \in Threads, MutexReleaseHolder(t)
    PROVE  ThreadInv'
<1> USE ThreadsAssumption, ThreadAssumption
<1>1. /\ t = q.cur /\ pc[t] = "own" /\ t # Idle
      /\ held[t] \in Mutexes
      /\ holder' = [holder EXCEPT ![held[t]] = None]
      /\ pc' = [pc EXCEPT ![t] = "inc"]
      /\ UNCHANGED <<q, value, wait, want, held, intr>>
  BY DEF MutexReleaseHolder, At, ThreadInv, TypeOK, Points
<1>2. TypeOK'
  BY <1>1 DEF ThreadInv, TypeOK
<1>3. NoThreadLost' /\ OversleepBounded'
  BY <1>1 DEF ThreadInv, NoThreadLost, OversleepBounded
<1>4. \A u \in Threads : held[u] = held[t] => u = t
  BY <1>1 DEF ThreadInv, MutualExclusion
<1>5. Points'
  BY <1>1, <1>4 DEF ThreadInv, Points, TypeOK
<1>6. WaitersAsleep'
  <2>1. ASSUME NEW s \in Sems
        PROVE  \A i \in 1 .. Len(wait'[s]) :
                   LET u == wait'[s][i] IN
                   /\ q'.status[u] = "BLOCKED" /\ pc'[u] = "dec" /\ want'[u] = s
                   /\ \A j \in 1 .. Len(wait'[s]) : wait'[s][j] = u => j = i
    <3>1. \A u \in Waiting(s) : q'.status[u] = "BLOCKED" /\ pc'[u] = pc[u] /\ want'[u] = want[u]
      BY <1>1, WaitersFacts DEF ThreadInv, TypeOK
    <3>2. QED
      BY <1>1, <3>1, WaitersUndisturbed
  <2>2. QED
    BY <2>1 DEF WaitersAsleep
<1>7. NoWakeupLost'
  BY <1>1, WokenUndisturbed DEF NoWakeupLost
<1>8. MutualExclusion'
  BY <1>1, <1>4 DEF ThreadInv, MutualExclusion, TypeOK
<1>9. QED
  BY <1>2, <1>3, <1>5, <1>6, <1>7, <1>8 DEF ThreadInv

\* The mutex is given up: nobody is stored as its holder by then.
LEMMA MutexReleaseIncStep ==
    ASSUME ThreadInv, NEW t \in Threads, MutexReleaseInc(t)
    PROVE  ThreadInv'
<1> USE ThreadsAssumption, ThreadAssumption
<1> DEFINE s == held[t]
<1>1. /\ t = q.cur /\ pc[t] = "inc" /\ t # Idle
      /\ s \in Mutexes /\ s \in Sems /\ holder[s] = None
      /\ held' = [held EXCEPT ![t] = None]
      /\ pc' = [pc EXCEPT ![t] = "own"]
      /\ SemaphoreInc(s)
      /\ UNCHANGED <<holder, want, intr>>
  BY DEF MutexReleaseInc, ThreadInv, TypeOK, Points, Sems
<1>2. \A u \in Threads : held[u] = s => u = t
  BY <1>1 DEF ThreadInv, MutualExclusion
<1>3. value[s] = 0
  BY <1>1 DEF ThreadInv, MutualExclusion
<1> HIDE DEF s
<1>4. \A u \in Threads : want'[u] = want[u] /\ (pc[u] = "dec" => pc'[u] = "dec")
  BY <1>1 DEF ThreadInv, TypeOK
<1>5. /\ wait' \in [Sems -> Seq(Threads)]
      /\ value' \in [Sems -> Nat]
      /\ \A x \in Sems \ {s} : value'[x] = value[x]
      /\ value'[s] = value[s] + 1
      /\ q'.cur = q.cur /\ q' \in Queues
      /\ NoThreadLost' /\ OversleepBounded'
      /\ WaitersAsleep' /\ NoWakeupLost'
  BY <1>1, <1>4, IncStep
<1>6. TypeOK'
  BY <1>1, <1>5 DEF ThreadInv, TypeOK
<1>7. Points'
  BY <1>1 DEF ThreadInv, Points, TypeOK
<1>8. MutualExclusion'
  <2>1. /\ \A u \in Threads \ {t} : held'[u] = held[u] /\ pc'[u] = pc[u]
        /\ held'[t] = None /\ None \notin Mutexes
    BY <1>1 DEF ThreadInv, TypeOK, Sems
  <2>2. \A m \in Mutexes \ {s} : \A u \in Threads : held'[u] = m <=> held[u] = m
    BY <2>1 DEF s
  <2>3. ASSUME NEW m \in Mutexes
        PROVE  /\ \A u, v \in Threads : held'[u] = m /\ held'[v] = m => u = v
               /\ value'[m] = IF \E u \in Threads : held'[u] = m THEN 0 ELSE 1
               /\ \A u \in Threads :
                     held'[u] = m /\ pc'[u] \in {"own", "dec"} => holder'[m] = u
               /\ holder'[m] # None => held'[holder'[m]] = m
    <3>1. CASE m = s
      <4>1. \A u \in Threads : held'[u] # s
        BY <1>1, <1>2, <2>1
      <4>2. value'[s] = 1 /\ holder'[s] = None
        BY <1>1, <1>3, <1>5
      <4>3. QED
        BY <3>1, <4>1, <4>2
    <3>2. CASE m # s
      <4>1. value'[m] = value[m] /\ holder'[m] = holder[m]
        BY <1>1, <1>5, <3>2 DEF Sems
      <4>2. holder[m] \in Threads \cup {None} /\ (holder[m] # None => held[holder[m]] = m)
        BY DEF ThreadInv, TypeOK, MutualExclusion
      <4>3. \A u \in Threads : held'[u] = m => pc'[u] = pc[u]
        BY <2>1
      <4>4. QED
        BY <2>2, <3>2, <4>1, <4>2, <4>3 DEF ThreadInv, MutualExclusion
    <3>3. QED
      BY <3>1, <3>2
  <2>4. QED
    BY <2>3 DEF MutualExclusion
<1>9. QED
  BY <1>5, <1>6, <1>7, <1>8 DEF ThreadInv

\* An interrupt handler runs on top of whatever thread it interrupts.
LEMMA DeviceInterruptStep ==
    ASSUME ThreadInv, NEW s \in Events, SemaphoreInc(s),
           pc' = AfterInterrupt, UNCHANGED <<holder, want, held, intr>>
    PROVE  ThreadInv'
<1> USE ThreadsAssumption, ThreadAssumption
<1>1. /\ SemaphoreInc(s) /\ s \in Sems /\ s \notin Mutexes
      /\ pc' = AfterInterrupt
      /\ UNCHANGED <<holder, want, held, intr>>
  BY DEF Sems
<1>2. /\ \A u \in Threads \ {Idle} : pc'[u] = pc[u]
      /\ pc'[Idle] \in {"own", "loop", "hlt"} /\ (pc'[Idle] = "own" => pc[Idle] = "own")
      /\ pc' \in [Threads -> {"own", "dec", "dec2", "inc", "loop", "hlt"}]
  <2>1. q.cur \in Threads
    BY DEF ThreadInv, TypeOK, Queues
  <2>2. QED
    BY <1>1, <2>1 DEF AfterInterrupt, ThreadInv, TypeOK, Points
<1>3. \A u \in Threads : want'[u] = want[u] /\ (pc[u] = "dec" => pc'[u] = "dec")
  BY <1>1, <1>2 DEF ThreadInv, Points
<1>4. /\ wait' \in [Sems -> Seq(Threads)]
      /\ value' \in [Sems -> Nat]
      /\ \A x \in Sems \ {s} : value'[x] = value[x]
      /\ q' \in Queues
      /\ NoThreadLost' /\ OversleepBounded'
      /\ WaitersAsleep' /\ NoWakeupLost'
  BY <1>1, <1>3, IncStep
<1>5. TypeOK'
  BY <1>1, <1>2, <1>4 DEF ThreadInv, TypeOK
<1>6. Points'
  BY <1>1, <1>2 DEF ThreadInv, Points
<1>7. MutualExclusion'
  <2>1. \A m \in Mutexes : value'[m] = value[m]
    BY <1>1, <1>4 DEF Sems
  <2>2. \A u \in Threads : pc'[u] \in {"own", "dec"} => pc[u] \in {"own", "dec"}
    BY <1>2
  <2>3. QED
    BY <1>1, <2>1, <2>2 DEF ThreadInv, MutualExclusion
<1>8. QED
  BY <1>4, <1>5, <1>6, <1>7 DEF ThreadInv

-----------------------------------------------------------------------------

\* The state init_thread leaves.
LEMMA InitIndInv == Init => IndInv
<1> SUFFICES ASSUME Init PROVE IndInv
  OBVIOUS
<1> USE ThreadsAssumption, ThreadAssumption
<1>1. /\ Boot \in Threads \ {Idle} /\ q \in InitQueues(Boot)
      /\ None \notin Sems /\ None \notin Threads
  BY DEF Init
<1>2. /\ q \in Queues /\ QueuesConsistent(q)
      /\ q.cur = Boot /\ q.delayed = {}
  BY <1>1, InitQueuesConsistent
<1>3. TypeOK
  BY <1>2 DEF Init, TypeOK
<1>4. NoThreadLost /\ OversleepBounded
  BY <1>2 DEF NoThreadLost, OversleepBounded
<1>5. Points /\ WaitersAsleep /\ NoWakeupLost
  BY DEF Init, Points, WaitersAsleep, NoWakeupLost
<1>6. MutualExclusion
  BY <1>1 DEF Init, MutualExclusion, Sems
<1>7. pc[Idle] # "own"
  BY DEF Init
<1>8. QED
  BY <1>3, <1>4, <1>5, <1>6, <1>7 DEF IndInv, ThreadInv

\* The two actions of SemaphoreDec find the thread as TakeOrWait wants it.
LEMMA SemaphoreDecTesting ==
    ASSUME ThreadInv, NEW t \in Threads \ {Idle}, NEW s \in Sems, SemaphoreDec(t, s)
    PROVE  Testing(t, s) /\ TakeOrWait(t, s) /\ UNCHANGED <<holder, intr>>
BY DEF SemaphoreDec, At, Testing, ThreadInv, Points

\* So does its loop: a thread back from ThreadBlock still wants what it slept for.
LEMMA SemaphoreDecAgainTesting ==
    ASSUME ThreadInv, NEW t \in Threads, SemaphoreDecAgain(t)
    PROVE  /\ Testing(t, want[t]) /\ TakeOrWait(t, want[t])
           /\ UNCHANGED <<holder, intr>>
BY DEF SemaphoreDecAgain, Testing, ThreadInv, Points, TypeOK

\* SemaphoreDec from its test on, either way.
LEMMA TakeOrWaitStep ==
    ASSUME ThreadInv, NEW t, NEW s, Testing(t, s), TakeOrWait(t, s),
           UNCHANGED <<holder, intr>>
    PROVE  ThreadInv'
<1>1. CASE value[s] > 0
  <2>1. value[s] # 0
    BY <1>1
  <2>2. QED
    BY <1>1, <2>1, TakeStep DEF TakeOrWait
<1>2. CASE value[s] = 0
  <2>1. ~ (value[s] > 0)
    BY <1>2
  <2>2. QED
    BY <1>2, <2>1, WaitStep DEF TakeOrWait
<1>3. QED
  BY <1>1, <1>2 DEF TakeOrWait

\* The primitives a thread may be in the middle of.
LEMMA InPrimitiveStep ==
    ASSUME ThreadInv, NEW t \in Threads, InPrimitive(t)
    PROVE  ThreadInv'
<1>1. CASE SemaphoreDecAgain(t)
  BY <1>1, SemaphoreDecAgainTesting, TakeOrWaitStep
<1>2. CASE MutexAcquireHolder(t)
  BY <1>2, MutexAcquireHolderStep
<1>3. CASE MutexReleaseInc(t)
  BY <1>3, MutexReleaseIncStep
<1>4. QED
  BY <1>1, <1>2, <1>3 DEF InPrimitive

\* syscall_sleep.
LEMMA SleepStep ==
    ASSUME ThreadInv, q.cur # Idle, NEW ms \in Nat, q' \in syscall_sleep(q, ms),
           UNCHANGED <<value, wait, holder, pc, want, held, intr>>
    PROVE  ThreadInv'
<1>1. /\ q \in Queues /\ QueuesConsistent(q)
      /\ intr \in [Threads -> BOOLEAN] /\ pc[Idle] \in {"own", "loop", "hlt"}
      /\ pc \in [Threads -> {"own", "dec", "dec2", "inc", "loop", "hlt"}]
  BY DEF ThreadInv, TypeOK, NoThreadLost, Points
<1>2. QueuesStep(q')
  BY <1>1, SleepConsistent, RescheduledStep
<1>3. QED
  BY <1>1, <1>2, QuietStep

\* int 0x80 and the iret.
LEMMA SyscallStep ==
    ASSUME ThreadInv, NEW t \in Threads, SyscallEnter(t) \/ SyscallReturn(t)
    PROVE  ThreadInv'
<1>1. /\ intr \in [Threads -> BOOLEAN] /\ pc[Idle] \in {"own", "loop", "hlt"}
      /\ pc \in [Threads -> {"own", "dec", "dec2", "inc", "loop", "hlt"}]
  BY DEF ThreadInv, TypeOK, Points
<1>2. /\ q' = q /\ intr' \in [Threads -> BOOLEAN] /\ pc' = pc
      /\ UNCHANGED <<value, wait, holder, want, held>>
  BY <1>1 DEF SyscallEnter, SyscallReturn
<1>3. QED
  BY <1>1, <1>2, SameQueuesStep, QuietStep

\* The idle task's loop.
LEMMA IdleLoopStep ==
    ASSUME ThreadInv, IdleLoop
    PROVE  ThreadInv'
<1> USE ThreadsAssumption
<1>1. /\ q \in Queues /\ QueuesConsistent(q) /\ intr \in [Threads -> BOOLEAN]
      /\ pc \in [Threads -> {"own", "dec", "dec2", "inc", "loop", "hlt"}]
  BY DEF ThreadInv, TypeOK, NoThreadLost
<1>2. q' \in ThreadBlock(q, "BLOCKED") /\ "BLOCKED" \in OnBlockList
  BY DEF IdleLoop, OnBlockList
<1>3. QueuesStep(q')
  BY <1>1, <1>2, ThreadBlockConsistent, RescheduledStep
<1>4. QED
  BY <1>1, <1>3, QuietStep DEF IdleLoop

\* The timer interrupt.
LEMMA TimerInterruptStep ==
    ASSUME ThreadInv, Timer
    PROVE  ThreadInv'
<1>1. QueuesStep(q')
  BY TimerStep DEF Timer
<1>2. /\ q.cur \in Threads /\ intr \in [Threads -> BOOLEAN]
      /\ pc \in [Threads -> {"own", "dec", "dec2", "inc", "loop", "hlt"}]
      /\ \A t \in Threads : pc[t] = "hlt" => t = Idle
      /\ pc[Idle] \in {"own", "loop", "hlt"}
  BY DEF ThreadInv, TypeOK, Queues, Points
<1>3. /\ pc' \in [Threads -> {"own", "dec", "dec2", "inc", "loop", "hlt"}]
      /\ \A t \in Threads \ {Idle} : pc'[t] = pc[t]
      /\ pc'[Idle] \in {"own", "loop", "hlt"}
  BY <1>2, ThreadsAssumption DEF Timer, AfterInterrupt
<1>4. QED
  BY <1>1, <1>2, <1>3, QuietStep DEF Timer

\* The idle task uses no primitive.
LEMMA NotIdle ==
    ASSUME IndInv, NEW t \in Threads, NEW s \in Sems, SemaphoreDec(t, s)
    PROVE  t \in Threads \ {Idle} /\ ThreadInv
BY DEF IndInv, SemaphoreDec, At

\* So it stays in its loop.
LEMMA IdleStaysInItsLoop ==
    ASSUME IndInv, [Next]_vars
    PROVE  pc'[Idle] # "own"
<1> USE ThreadsAssumption
<1>1. /\ pc[Idle] \in {"loop", "hlt"} /\ held[Idle] = None
      /\ q.cur \in Threads /\ \A t \in Threads : pc[t] = "hlt" => t = Idle
      /\ pc \in [Threads -> {"own", "dec", "dec2", "inc", "loop", "hlt"}]
  BY DEF IndInv, ThreadInv, Points, TypeOK, Queues
<1>2. ASSUME NEW t \in Threads, ThreadStep(t)
      PROVE  pc'[Idle] = pc[Idle]
  <2>1. CASE pc' = pc
    BY <2>1
  <2>2. ASSUME NEW l, pc' = [pc EXCEPT ![t] = l], t # Idle
        PROVE  pc'[Idle] = pc[Idle]
    BY <1>1, <2>2
  <2>3. CASE InPrimitive(t)
    <3>1. t # Idle
      BY <1>1, <2>3 DEF InPrimitive, SemaphoreDecAgain, MutexAcquireHolder, MutexReleaseInc
    <3>2. QED
      BY <2>2, <2>3, <3>1 DEF InPrimitive, SemaphoreDecAgain, MutexAcquireHolder,
                              MutexReleaseInc, TakeOrWait
  <2>4. CASE \/ \E s \in Sems : SemaphoreDec(t, s)
             \/ MutexReleaseHolder(t)
    <3>1. t # Idle
      BY <1>1, <2>4 DEF SemaphoreDec, MutexReleaseHolder, At
    <3>2. QED
      BY <2>2, <2>4, <3>1 DEF SemaphoreDec, MutexReleaseHolder, TakeOrWait
  <2>5. CASE Sleep(t) \/ Yield(t) \/ SyscallReturn(t) \/ SyscallEnter(t)
    BY <2>1, <2>5 DEF Sleep, Yield, SyscallReturn, SyscallEnter
  <2>6. QED
    BY <1>2, <2>3, <2>4, <2>5 DEF ThreadStep, InSystemCall
<1>3. CASE IdleLoop
  BY <1>1, <1>3 DEF IdleLoop
<1>4. CASE Timer \/ \E s \in Events : DeviceInterrupt(s)
  BY <1>1, <1>4 DEF Timer, DeviceInterrupt, AfterInterrupt
<1>5. CASE UNCHANGED vars
  BY <1>1, <1>5 DEF vars
<1>6. QED
  BY <1>1, <1>2, <1>3, <1>4, <1>5 DEF Next

\* Every step of Thread preserves the inductive invariant: the work is done by
\* the lemmas above, one case per action.
LEMMA NextIndInv == IndInv /\ [Next]_vars => IndInv'
<1> SUFFICES ASSUME IndInv, [Next]_vars PROVE IndInv'
  OBVIOUS
<1> USE ThreadsAssumption, ThreadAssumption
<1>1. /\ ThreadInv /\ pc[Idle] # "own"
      /\ q \in Queues /\ QueuesConsistent(q) /\ q.cur \in Threads
      /\ intr \in [Threads -> BOOLEAN] /\ pc[Idle] \in {"own", "loop", "hlt"}
      /\ pc \in [Threads -> {"own", "dec", "dec2", "inc", "loop", "hlt"}]
  BY DEF IndInv, ThreadInv, TypeOK, NoThreadLost, Queues, Points
<1>2. ASSUME NEW t \in Threads, ThreadStep(t)
      PROVE  ThreadInv'
  <2>1. CASE InPrimitive(t)
    BY <1>1, <2>1, InPrimitiveStep
  <2>2. CASE \E s \in Sems : SemaphoreDec(t, s)
    BY <1>1, <2>2, NotIdle, SemaphoreDecTesting, TakeOrWaitStep
  <2>3. CASE MutexReleaseHolder(t)
    BY <1>1, <2>3, MutexReleaseHolderStep
  <2>4. CASE Sleep(t)
    <3>1. PICK ms \in 0 .. MaxSleep : q' \in syscall_sleep(q, ms)
      BY <2>4 DEF Sleep
    <3>2. q.cur # Idle /\ ms \in Nat
      BY <2>4, <3>1 DEF Sleep, At, Processes
    <3>3. QED
      BY <1>1, <2>4, <3>1, <3>2, SleepStep DEF Sleep
  <2>5. CASE Yield(t)
    <3>1. QueuesStep(q')
      BY <1>1, <2>5, YieldConsistent, RescheduledStep DEF Yield
    <3>2. QED
      BY <1>1, <2>5, <3>1, QuietStep DEF Yield
  <2>6. CASE SyscallReturn(t) \/ SyscallEnter(t)
    BY <1>1, <2>6, SyscallStep
  <2>7. QED
    BY <1>2, <2>1, <2>2, <2>3, <2>4, <2>5, <2>6 DEF ThreadStep, InSystemCall
<1>3. ASSUME UNCHANGED vars
      PROVE  ThreadInv'
  <2>1. /\ q' = q /\ pc' = pc /\ intr' = intr
        /\ UNCHANGED <<value, wait, holder, want, held>>
    BY <1>3 DEF vars
  <2>2. QED
    BY <1>1, <2>1, SameQueuesStep, QuietStep
<1>4. ThreadInv'
  <2>1. CASE IdleLoop \/ Timer
    BY <1>1, <2>1, IdleLoopStep, TimerInterruptStep
  <2>2. CASE \E s \in Events : DeviceInterrupt(s)
    BY <1>1, <2>2, DeviceInterruptStep DEF DeviceInterrupt
  <2>3. QED
    BY <1>2, <1>3, <2>1, <2>2 DEF Next
<1>5. pc'[Idle] # "own"
  BY IdleStaysInItsLoop
<1>6. QED
  BY <1>4, <1>5 DEF IndInv

\* The inductive invariant holds throughout.
THEOREM IndInvHolds == Spec => []IndInv
BY InitIndInv, NextIndInv, PTL DEF Spec

\* The state of the queues, semaphores and mutexes has its type: no time slice
\* goes below 0 and no semaphore is decremented at 0.
THEOREM TypeCorrect == Spec => []TypeOK
<1>1. IndInv => TypeOK
  BY DEF IndInv, ThreadInv
<1>2. QED
  BY <1>1, IndInvHolds, PTL

\* thread.c never loses a thread and never links one twice, whatever the
\* threads, the timer and the devices do.
THEOREM ThreadsAccountedFor == Spec => []NoThreadLost
<1>1. IndInv => NoThreadLost
  BY DEF IndInv, ThreadInv
<1>2. QED
  BY <1>1, IndInvHolds, PTL

\* The thread SemaphoreInc takes from the queue of waiters is asleep there.
THEOREM WaitersStayAsleep == Spec => []WaitersAsleep
<1>1. IndInv => WaitersAsleep
  BY DEF IndInv, ThreadInv
<1>2. QED
  BY <1>1, IndInvHolds, PTL

\* Every unit of a semaphore with waiters has a woken thread on its way to it.
THEOREM WakeupsKept == Spec => []NoWakeupLost
<1>1. IndInv => NoWakeupLost
  BY DEF IndInv, ThreadInv
<1>2. QED
  BY <1>1, IndInvHolds, PTL

\* One thread at a time holds a mutex.
THEOREM MutexExcludes == Spec => []MutualExclusion
<1>1. IndInv => MutualExclusion
  BY DEF IndInv, ThreadInv
<1>2. QED
  BY <1>1, IndInvHolds, PTL

\* No sleeper is late by more than a time slice.
THEOREM OversleepIsBounded == Spec => []OversleepBounded
<1>1. IndInv => OversleepBounded
  BY DEF IndInv, ThreadInv
<1>2. QED
  BY <1>1, IndInvHolds, PTL

-----------------------------------------------------------------------------

\* The sleepers a step of each action wakes: a timer tick those with one tick
\* left, the other calls of schedule() the overdue ones, the rest none.
LEMMA StepWakes ==
    ASSUME IndInv, Next
    PROVE  \/ Timer /\ (Wakes(q, q', 1) \/ \A t \in q.delayed : q'.status[t] = "DELAYED")
           \/ Wakes(q, q', 0)
           \/ \A t \in q.delayed : q'.status[t] = "DELAYED"
<1> USE ThreadsAssumption, ThreadAssumption
<1>1. /\ q \in Queues /\ QueuesConsistent(q)
      /\ \A t \in q.delayed : t \in Threads /\ q.status[t] = "DELAYED"
      /\ ThreadInv
  BY DEF IndInv, ThreadInv, TypeOK, NoThreadLost, Queues, QueuesConsistent
<1>2. ASSUME NEW t, NEW s, Testing(t, s), TakeOrWait(t, s)
      PROVE  Wakes(q, q', 0) \/ q' = q
  <2>1. CASE q' \in ThreadBlock(q, "BLOCKED")
    <3>1. "BLOCKED" \in OnBlockList
      BY DEF OnBlockList
    <3>2. QED
      BY <1>1, <2>1, <3>1, ThreadBlockConsistent
  <2>2. QED
    BY <1>2, <2>1 DEF TakeOrWait
<1>3. ASSUME NEW s \in Sems, SemaphoreInc(s)
      PROVE  \A t \in q.delayed : q'.status[t] = "DELAYED"
  <2>1. CASE wait[s] = << >>
    BY <1>1, <1>3, <2>1 DEF SemaphoreInc
  <2>2. CASE wait[s] # << >>
    <3>1. q' = ThreadUnBlock(q, Head(wait[s]))
      BY <1>3, <2>2 DEF SemaphoreInc
    <3>2. Head(wait[s]) \in Waiting(s)
      BY <1>1, <2>2, WaitersFacts, TailElements DEF ThreadInv, TypeOK
    <3>3. Head(wait[s]) \in Threads /\ q.status[Head(wait[s])] = "BLOCKED"
      BY <1>1, <3>2, WaitersFacts
    <3>4. \A t \in Threads \ {Head(wait[s])} : q'.status[t] = q.status[t]
      BY <1>1, <3>1, <3>3, UnBlockConsistent DEF OnBlockList
    <3>5. QED
      BY <1>1, <3>3, <3>4
  <2>3. QED
    BY <2>1, <2>2
<1>4. ASSUME NEW t \in Threads, ThreadStep(t)
      PROVE  Wakes(q, q', 0) \/ \A u \in q.delayed : q'.status[u] = "DELAYED"
  <2>1. CASE SemaphoreDecAgain(t) \/ \E s \in Sems : SemaphoreDec(t, s)
    BY <1>1, <1>2, <2>1, SemaphoreDecAgainTesting, SemaphoreDecTesting, NotIdle
  <2>2. CASE MutexReleaseInc(t)
    <3>1. held[t] \in Sems /\ SemaphoreInc(held[t])
      BY <1>1, <2>2 DEF MutexReleaseInc, ThreadInv, Points, TypeOK, Sems
    <3>2. QED
      BY <1>3, <3>1
  <2>3. CASE Sleep(t)
    <3>1. PICK ms \in 0 .. MaxSleep : q' \in syscall_sleep(q, ms)
      BY <2>3 DEF Sleep
    <3>2. q.cur # Idle /\ ms \in Nat
      BY <2>3, <3>1 DEF Sleep, At, Processes
    <3>3. QED
      BY <1>1, <3>1, <3>2, SleepConsistent
  <2>4. CASE Yield(t)
    BY <1>1, <2>4, YieldConsistent DEF Yield
  <2>5. CASE \/ MutexAcquireHolder(t) \/ MutexReleaseHolder(t)
             \/ SyscallReturn(t) \/ SyscallEnter(t)
    BY <1>1, <2>5
       DEF MutexAcquireHolder, MutexReleaseHolder, SyscallReturn, SyscallEnter
  <2>6. QED
    BY <1>4, <2>1, <2>2, <2>3, <2>4, <2>5 DEF ThreadStep, InPrimitive, InSystemCall
<1>5. CASE IdleLoop
  <2>1. q' \in ThreadBlock(q, "BLOCKED") /\ "BLOCKED" \in OnBlockList
    BY <1>5 DEF IdleLoop, OnBlockList
  <2>2. QED
    BY <1>1, <2>1, ThreadBlockConsistent
<1>6. CASE Timer
  <2>1. q' \in timer_interrupt(q)
    BY <1>6 DEF Timer
  <2>2. Wakes(q, q', 1) \/ q'.status = q.status
    BY <1>1, <2>1, TimerConsistent
  <2>3. QED
    BY <1>1, <1>6, <2>2
<1>7. CASE \E s \in Events : DeviceInterrupt(s)
  BY <1>3, <1>7 DEF DeviceInterrupt, Sems
<1>8. QED
  BY <1>4, <1>5, <1>6, <1>7 DEF Next

\* A sleeper wakes neither before its time nor before one that was due earlier.
THEOREM SleepersWakeInOrder == Spec => WakesInOrder
<1> DEFINE A == \A t \in q.delayed : q'.status[t] # "DELAYED" =>
                    /\ q.left[t] <= 0 \/ (q.left[t] = 1 /\ Timer)
                    /\ \A u \in q.delayed : q.left[u] < q.left[t] =>
                                              q'.status[u] # "DELAYED"
<1>1. ASSUME IndInv, [Next]_vars
      PROVE  [A]_vars
  <2>1. \A t \in q.delayed : q.left[t] \in Int /\ q.status[t] = "DELAYED"
    BY <1>1 DEF IndInv, ThreadInv, TypeOK, NoThreadLost, Queues, QueuesConsistent
  <2>2. CASE Timer /\ Wakes(q, q', 1)
    BY <2>1, <2>2 DEF Wakes
  <2>3. CASE Wakes(q, q', 0)
    BY <2>1, <2>3 DEF Wakes
  <2>4. CASE \A t \in q.delayed : q'.status[t] = "DELAYED"
    BY <2>4
  <2>5. CASE UNCHANGED vars
    BY <2>5
  <2>6. CASE Next
    BY <1>1, <2>2, <2>3, <2>4, <2>6, StepWakes
  <2>7. QED
    BY <1>1, <2>5, <2>6
<1>2. IndInv /\ [Next]_vars => [A]_vars
  BY <1>1
<1>3. QED
  BY <1>2, IndInvHolds, PTL DEF Spec, WakesInOrder

-----------------------------------------------------------------------------

\* The owner the refinement mapping gives a mutex.
Owner(m) == IF \E t \in Threads : held[t] = m
            THEN CHOOSE t \in Threads : held[t] = m ELSE None

\* The owner is the one thread inside, and the value says whether there is one.
LEMMA OwnerHolds ==
    ASSUME ThreadInv, NEW m \in Mutexes
    PROVE  /\ \A t \in Threads : Owner(m) = t <=> held[t] = m
           /\ Owner(m) = None <=> value[m] = 1
           /\ Owner(m) # None => Owner(m) \in Threads /\ value[m] = 0
<1> USE ThreadAssumption
<1>1. \A t, u \in Threads : held[t] = m /\ held[u] = m => t = u
  BY DEF ThreadInv, MutualExclusion
<1>2. (\E t \in Threads : held[t] = m) => Owner(m) \in Threads /\ held[Owner(m)] = m
  BY DEF Owner
<1>3. ~ (\E t \in Threads : held[t] = m) => Owner(m) = None
  BY DEF Owner
<1>4. None \notin Threads
  OBVIOUS
<1>5. value[m] = IF \E t \in Threads : held[t] = m THEN 0 ELSE 1
  BY DEF ThreadInv, MutualExclusion
<1>6. QED
  BY <1>1, <1>2, <1>3, <1>4, <1>5

\* A step that changes nobody's mutex changes no owner.
LEMMA OwnerSame ==
    ASSUME NEW m \in Mutexes, \A t \in Threads : held'[t] = m <=> held[t] = m
    PROVE  Owner(m)' = Owner(m)
BY DEF Owner

Owners == [m \in Mutexes |-> Owner(m)]
Trying == [m \in Mutexes |-> {t \in Threads : want[t] = m}]

\* Nor does one that leaves held alone change any.
LEMMA OwnersSame ==
    ASSUME held' = held
    PROVE  Owners' = Owners
BY OwnerSame DEF Owners

\* The same for the threads that try for a mutex.
LEMMA TryingSame ==
    ASSUME \A m \in Mutexes : \A t \in Threads : want'[t] = m <=> want[t] = m
    PROVE  Trying' = Trying
BY DEF Trying

\* Taking a mutex acquires it in Lock, taking an event does nothing there.
LEMMA TakeRefines ==
    ASSUME ThreadInv, ThreadInv', NEW t, NEW s, Testing(t, s), value[s] > 0,
           value' = [value EXCEPT ![s] = @ - 1],
           want' = [want EXCEPT ![t] = None],
           held' = IF s \in Mutexes THEN [held EXCEPT ![t] = s] ELSE held
    PROVE  \/ \E m \in Mutexes : /\ Owners[m] = None
                                 /\ Owners' = [Owners EXCEPT ![m] = t]
                                 /\ Trying' = [Trying EXCEPT ![m] = @ \ {t}]
           \/ Owners' = Owners /\ Trying' = Trying
<1> USE ThreadAssumption
<1>1. /\ t \in Threads /\ s \in Sems /\ None \notin Sems /\ None \notin Threads
      /\ want \in [Threads -> Sems \cup {None}]
      /\ want[t] \in {None, s} /\ Mutexes \subseteq Sems
      /\ held \in [Threads -> Mutexes \cup {None}]
      /\ s \in Mutexes => held[t] = None
  BY DEF Testing, ThreadInv, TypeOK, Sems
<1>2. CASE s \in Mutexes
  <2>1. Owner(s) = None
    BY <1>2, OwnerHolds
  <2>2. held'[t] = s /\ \A u \in Threads \ {t} : held'[u] = held[u]
    BY <1>1, <1>2
  <2>3. Owner(s)' = t
    <3>1. \A u \in Threads : held'[u] = s <=> u = t
      BY <1>1, <1>2, <2>1, <2>2, OwnerHolds
    <3>2. QED
      BY <1>1, <3>1 DEF Owner
  <2>4. ASSUME NEW m \in Mutexes \ {s}
        PROVE  Owner(m)' = Owner(m)
    <3>1. \A u \in Threads : held'[u] = m <=> held[u] = m
      BY <1>1, <1>2, <2>2
    <3>2. QED
      BY <3>1, OwnerSame
  <2>5. Owners' = [Owners EXCEPT ![s] = t]
    BY <1>2, <2>3, <2>4 DEF Owners
  <2>6. Trying' = [Trying EXCEPT ![s] = @ \ {t}]
    <3>1. want'[t] = None /\ \A u \in Threads \ {t} : want'[u] = want[u]
      BY <1>1
    <3>2. \A m \in Mutexes : {u \in Threads : want'[u] = m}
                              = IF m = s THEN {u \in Threads : want[u] = m} \ {t}
                                         ELSE {u \in Threads : want[u] = m}
      BY <1>1, <1>2, <3>1
    <3>3. \A m \in Mutexes : Trying'[m] = IF m = s THEN Trying[m] \ {t} ELSE Trying[m]
      BY <3>2 DEF Trying
    <3>4. /\ Trying = [m \in Mutexes |-> Trying[m]]
          /\ Trying' = [m \in Mutexes |-> Trying'[m]]
      BY Zenon DEF Trying
    <3>5. QED
      BY <1>2, <3>3, <3>4
  <2>7. QED
    BY <1>2, <2>1, <2>5, <2>6 DEF Owners
<1>3. CASE s \notin Mutexes
  <2>1. held' = held
    BY <1>3
  <2>2. \A m \in Mutexes : \A u \in Threads : want'[u] = m <=> want[u] = m
    BY <1>1, <1>3
  <2>3. QED
    BY <2>1, <2>2, OwnersSame, TryingSame
<1>4. QED
  BY <1>2, <1>3

\* Queueing up on a mutex for the first time is trying for one somebody owns;
\* queueing up again does nothing in Lock.
LEMMA WaitRefines ==
    ASSUME ThreadInv, NEW t, NEW s, Testing(t, s), value[s] = 0,
           want' = [want EXCEPT ![t] = s],
           held' = held
    PROVE  \/ \E m \in Mutexes : /\ Owners[m] # None /\ t \notin Trying[m]
                                 /\ Trying' = [Trying EXCEPT ![m] = @ \cup {t}]
                                 /\ Owners' = Owners
           \/ Owners' = Owners /\ Trying' = Trying
<1> USE ThreadAssumption
<1>1. /\ t \in Threads /\ s \in Sems /\ None \notin Sems
      /\ want \in [Threads -> Sems \cup {None}]
      /\ want[t] \in {None, s} /\ Mutexes \subseteq Sems
  BY DEF Testing, ThreadInv, TypeOK, Sems
<1>2. Owners' = Owners
  BY OwnersSame
<1>3. CASE s \in Mutexes /\ want[t] = None
  <2>1. Owner(s) # None
    BY <1>3, OwnerHolds
  <2>2. Trying' = [Trying EXCEPT ![s] = @ \cup {t}]
    <3>1. want'[t] = s /\ \A u \in Threads \ {t} : want'[u] = want[u]
      BY <1>1
    <3>2. \A m \in Mutexes : {u \in Threads : want'[u] = m}
                              = IF m = s THEN {u \in Threads : want[u] = m} \cup {t}
                                         ELSE {u \in Threads : want[u] = m}
      BY <1>1, <1>3, <3>1
    <3>3. \A m \in Mutexes : Trying'[m] = IF m = s THEN Trying[m] \cup {t} ELSE Trying[m]
      BY <3>2 DEF Trying
    <3>4. /\ Trying = [m \in Mutexes |-> Trying[m]]
          /\ Trying' = [m \in Mutexes |-> Trying'[m]]
      BY Zenon DEF Trying
    <3>5. QED
      BY <1>3, <3>3, <3>4
  <2>3. t \notin Trying[s]
    BY <1>1, <1>3 DEF Trying
  <2>4. QED
    BY <1>2, <1>3, <2>1, <2>2, <2>3 DEF Owners
<1>4. CASE ~ (s \in Mutexes /\ want[t] = None)
  <2>1. \A m \in Mutexes : \A u \in Threads : want'[u] = m <=> want[u] = m
    BY <1>1, <1>4
  <2>2. QED
    BY <1>2, <2>1, TryingSame
<1>5. QED
  BY <1>3, <1>4

\* SemaphoreInc at the end of MutexRelease gives the mutex up.
LEMMA ReleaseRefines ==
    ASSUME ThreadInv, NEW t \in Threads, MutexReleaseInc(t)
    PROVE  \E m \in Mutexes : /\ Owners[m] = t
                              /\ Owners' = [Owners EXCEPT ![m] = None]
                              /\ Trying' = Trying
<1> USE ThreadAssumption
<1>1. /\ held[t] \in Mutexes /\ None \notin Mutexes
      /\ held \in [Threads -> Mutexes \cup {None}]
      /\ held' = [held EXCEPT ![t] = None]
      /\ want' = want
  BY DEF MutexReleaseInc, ThreadInv, TypeOK, Points, Sems
<1>2. Owner(held[t]) = t /\ \A u \in Threads : held[u] = held[t] => u = t
  BY <1>1, OwnerHolds
<1>3. ASSUME NEW m \in Mutexes
      PROVE  Owner(m)' = IF m = held[t] THEN None ELSE Owner(m)
  <2>1. CASE m = held[t]
    <3>1. \A u \in Threads : held'[u] # m
      BY <1>1, <1>2, <2>1
    <3>2. QED
      BY <2>1, <3>1 DEF Owner
  <2>2. CASE m # held[t]
    <3>1. \A u \in Threads : held'[u] = m <=> held[u] = m
      BY <1>1, <2>2
    <3>2. QED
      BY <2>2, <3>1, OwnerSame
  <2>3. QED
    BY <2>1, <2>2
<1>4. Owners' = [Owners EXCEPT ![held[t]] = None]
  BY <1>1, <1>3 DEF Owners
<1>5. Trying' = Trying
  BY <1>1, TryingSame
<1>6. QED
  BY <1>1, <1>2, <1>4, <1>5 DEF Owners

\* Every step of Thread is a step of Lock or leaves owners and triers alone.
LEMMA StepRefines ==
    ASSUME IndInv, IndInv', [Next]_vars
    PROVE  [MutexLock!Next]_MutexLock!lockVars
<1> USE ThreadAssumption
<1> ThreadInv /\ ThreadInv'
  BY DEF IndInv
<1>1. /\ Owners = [m \in Mutexes |-> IF \E t \in Threads : held[t] = m
                                     THEN CHOOSE t \in Threads : held[t] = m ELSE None]
      /\ Owners' = [m \in Mutexes |-> IF \E t \in Threads : held[t] = m
                                     THEN CHOOSE t \in Threads : held[t] = m ELSE None]'
  BY DEF Owners, Owner
<1>2. CASE held' = held /\ want' = want
  <2>1. Owners' = Owners /\ Trying' = Trying
    BY <1>2, OwnersSame, TryingSame
  <2>2. QED
    BY <1>1, <2>1 DEF MutexLock!lockVars, Trying
<1>3. ASSUME NEW t, NEW s, Testing(t, s), TakeOrWait(t, s)
      PROVE  [MutexLock!Next]_MutexLock!lockVars
  <2>1. t \in Threads
    BY <1>3 DEF Testing
  <2>2. CASE value[s] > 0
    <3>1. value[s] # 0
      BY <2>2
    <3>2. \/ \E m \in Mutexes : /\ Owners[m] = None
                                /\ Owners' = [Owners EXCEPT ![m] = t]
                                /\ Trying' = [Trying EXCEPT ![m] = @ \ {t}]
          \/ Owners' = Owners /\ Trying' = Trying
      BY <1>3, <2>2, <3>1, TakeRefines DEF TakeOrWait
    <3>3. QED
      BY <1>1, <2>1, <3>2 DEF MutexLock!lockVars, MutexLock!Next, MutexLock!Acquire, Trying
  <2>3. CASE value[s] = 0
    <3>1. ~ (value[s] > 0)
      BY <2>3
    <3>2. \/ \E m \in Mutexes : /\ Owners[m] # None /\ t \notin Trying[m]
                                /\ Trying' = [Trying EXCEPT ![m] = @ \cup {t}]
                                /\ Owners' = Owners
          \/ Owners' = Owners /\ Trying' = Trying
      BY <1>3, <2>3, <3>1, WaitRefines DEF TakeOrWait
    <3>3. QED
      BY <1>1, <2>1, <3>2 DEF MutexLock!lockVars, MutexLock!Next, MutexLock!Try, Trying
  <2>4. QED
    BY <1>3, <2>2, <2>3 DEF TakeOrWait
<1>4. ASSUME NEW t \in Threads, MutexReleaseInc(t)
      PROVE  [MutexLock!Next]_MutexLock!lockVars
  <2>1. \E m \in Mutexes : /\ Owners[m] = t
                           /\ Owners' = [Owners EXCEPT ![m] = None]
                           /\ Trying' = Trying
    BY <1>4, ReleaseRefines
  <2>2. QED
    BY <1>1, <2>1 DEF MutexLock!Next, MutexLock!Release, Trying
<1>5. CASE \E t \in Threads : ThreadStep(t)
  <2>1. PICK t \in Threads : ThreadStep(t)
    BY <1>5
  <2>2. CASE SemaphoreDecAgain(t)
    BY <1>3, <2>2, SemaphoreDecAgainTesting
  <2>3. CASE MutexReleaseInc(t)
    BY <1>4, <2>3
  <2>4. CASE \E s \in Sems : SemaphoreDec(t, s)
    BY <1>3, <2>4, SemaphoreDecTesting, NotIdle
  <2>5. CASE \/ MutexAcquireHolder(t) \/ MutexReleaseHolder(t) \/ Sleep(t)
             \/ Yield(t) \/ SyscallReturn(t) \/ SyscallEnter(t)
    <3>1. held' = held /\ want' = want
      BY <2>5 DEF MutexAcquireHolder, MutexReleaseHolder, Sleep, Yield,
                  SyscallReturn, SyscallEnter
    <3>2. QED
      BY <1>2, <3>1
  <2>6. QED
    BY <2>1, <2>2, <2>3, <2>4, <2>5 DEF ThreadStep, InPrimitive, InSystemCall
<1>6. CASE IdleLoop \/ Timer \/ (\E s \in Events : DeviceInterrupt(s)) \/ UNCHANGED vars
  <2>1. held' = held /\ want' = want
    BY <1>6 DEF IdleLoop, Timer, DeviceInterrupt, vars
  <2>2. QED
    BY <1>2, <2>1
<1>7. QED
  BY <1>5, <1>6 DEF Next

\* All mutexes start free, with nobody trying.
LEMMA InitRefines == Init => MutexLock!Init
<1> SUFFICES ASSUME Init PROVE MutexLock!Init
  OBVIOUS
<1>1. \A m \in Mutexes : m # None
  BY ThreadAssumption DEF Sems
<1>2. \A t \in Threads : held[t] = None /\ want[t] = None
  BY DEF Init
<1>3. \A m \in Mutexes : {t \in Threads : want[t] = m} = {}
  BY <1>1, <1>2
<1>4. QED
  BY <1>1, <1>2, <1>3 DEF MutexLock!Init

\* Mutexes built on a semaphore that wakes without handing over are a lock, as
\* far as safety goes.
THEOREM MutexIsALock == Spec => MutexLock!Spec
<1>1. IndInv /\ IndInv' /\ [Next]_vars => [MutexLock!Next]_MutexLock!lockVars
  BY StepRefines
<1>2. QED
  BY <1>1, InitRefines, IndInvHolds, PTL DEF Spec, MutexLock!Spec
=============================================================================
