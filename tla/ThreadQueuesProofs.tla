------------------------- MODULE ThreadQueuesProofs -------------------------
(***************************************************************************)
(* What the calls of ThreadQueues preserve, for every set of threads.      *)
(* A call of schedule() goes through three states of the queues:           *)
(*                                                                         *)
(*   Leaving    the running thread has set its status and is in no queue   *)
(*              (or, if it is READY, in the ready queue already);          *)
(*   Parked     it has been queued: nobody runs;                           *)
(*   consistent the front of the ready queue runs: QueuesConsistent.       *)
(***************************************************************************)
EXTENDS ThreadQueues, FiniteSetTheorems, SequenceTheorems, TLAPS

Elements(s) == {s[i] : i \in 1 .. Len(s)}

OnceEach(s) == \A i, j \in 1 .. Len(s) : i # j => s[i] # s[j]

\* The thread is in the queue its status names, and in no other.
Placed(q, t) ==
    /\ t \in InReady(q) <=> q.status[t] = "READY"
    /\ t \in q.blocked <=> q.status[t] \in OnBlockList
    /\ t \in q.delayed <=> q.status[t] = "DELAYED"

Leaving(q) ==
    /\ q \in Queues
    /\ \A t \in Threads \ {q.cur} : q.status[t] # "RUNNING" /\ Placed(q, t)
    /\ q.cur \notin q.blocked \cup q.delayed
    /\ q.cur \in InReady(q) <=> q.status[q.cur] = "READY"
    /\ OnceEach(q.ready)
    /\ q.status[Idle] \in {"RUNNING", "READY", "BLOCKED"}

Parked(q) ==
    /\ q \in Queues
    /\ \A t \in Threads : q.status[t] # "RUNNING" /\ Placed(q, t)
    /\ OnceEach(q.ready)
    /\ q.status[Idle] \in {"READY", "BLOCKED"}

-----------------------------------------------------------------------------

\* Adding a thread at the back of a queue.
LEMMA AppendElements ==
    ASSUME NEW S, NEW s \in Seq(S), NEW x \in S
    PROVE  /\ Append(s, x) \in Seq(S)
           /\ Append(s, x) # << >>
           /\ Elements(Append(s, x)) = Elements(s) \cup {x}
           /\ x \notin Elements(s) /\ OnceEach(s) => OnceEach(Append(s, x))
<1>1. /\ Append(s, x) \in Seq(S)
      /\ Len(Append(s, x)) = Len(s) + 1
      /\ \A i \in 1 .. Len(s) : Append(s, x)[i] = s[i]
      /\ Append(s, x)[Len(s) + 1] = x
  OBVIOUS
<1>2. Len(s) \in Nat
  OBVIOUS
<1>3. Elements(Append(s, x)) = Elements(s) \cup {x}
  <2>1. ASSUME NEW y \in Elements(s) \cup {x}
        PROVE  y \in Elements(Append(s, x))
    BY <1>1, <1>2 DEF Elements
  <2>2. ASSUME NEW y \in Elements(Append(s, x))
        PROVE  y \in Elements(s) \cup {x}
    BY <1>1, <1>2 DEF Elements
  <2>3. QED
    BY <2>1, <2>2
<1>4. x \notin Elements(s) /\ OnceEach(s) => OnceEach(Append(s, x))
  BY <1>1, <1>2 DEF Elements, OnceEach
<1>5. QED
  BY <1>1, <1>2, <1>3, <1>4

\* Two queues one after the other.
LEMMA ConcatElements ==
    ASSUME NEW S, NEW s \in Seq(S), NEW u \in Seq(S)
    PROVE  /\ s \o u \in Seq(S)
           /\ s # << >> => s \o u # << >>
           /\ u # << >> => s \o u # << >>
           /\ Elements(s \o u) = Elements(s) \cup Elements(u)
           /\ Elements(s) \cap Elements(u) = {} /\ OnceEach(s) /\ OnceEach(u)
                => OnceEach(s \o u)
<1>1. /\ s \o u \in Seq(S)
      /\ Len(s \o u) = Len(s) + Len(u)
      /\ \A i \in 1 .. Len(s) + Len(u) :
            (s \o u)[i] = IF i <= Len(s) THEN s[i] ELSE u[i - Len(s)]
  BY ConcatProperties
<1>2. Len(s) \in Nat /\ Len(u) \in Nat
  OBVIOUS
<1>3. ASSUME NEW y \in Elements(s)
      PROVE  y \in Elements(s \o u)
  BY <1>1, <1>2 DEF Elements
<1>4. ASSUME NEW y \in Elements(u)
      PROVE  y \in Elements(s \o u)
  <2>1. PICK i \in 1 .. Len(u) : y = u[i]
    BY DEF Elements
  <2>2. i + Len(s) \in 1 .. Len(s) + Len(u) /\ (s \o u)[i + Len(s)] = u[i]
    BY <1>1, <1>2
  <2>3. QED
    BY <1>1, <2>1, <2>2 DEF Elements
<1>5. ASSUME NEW y \in Elements(s \o u)
      PROVE  y \in Elements(s) \cup Elements(u)
  <2>1. PICK i \in 1 .. Len(s) + Len(u) : y = (s \o u)[i]
    BY <1>1 DEF Elements
  <2>2. i <= Len(s) => i \in 1 .. Len(s) /\ y = s[i]
    BY <1>1, <1>2, <2>1
  <2>3. ~ (i <= Len(s)) => i - Len(s) \in 1 .. Len(u) /\ y = u[i - Len(s)]
    BY <1>1, <1>2, <2>1
  <2>4. QED
    BY <2>2, <2>3 DEF Elements
<1>6. ASSUME Elements(s) \cap Elements(u) = {}, OnceEach(s), OnceEach(u),
             NEW i \in 1 .. Len(s) + Len(u), NEW j \in 1 .. Len(s) + Len(u),
             i # j
      PROVE  (s \o u)[i] # (s \o u)[j]
  <2>1. \A k \in 1 .. Len(s) : s[k] \in Elements(s)
    BY DEF Elements
  <2>2. \A k \in 1 .. Len(u) : u[k] \in Elements(u)
    BY DEF Elements
  <2>3. \A k \in 1 .. Len(s), l \in 1 .. Len(u) : s[k] # u[l]
    BY <1>6, <2>1, <2>2
  <2>4. CASE i <= Len(s) /\ j <= Len(s)
    BY <1>1, <1>2, <1>6, <2>4 DEF OnceEach
  <2>5. CASE i <= Len(s) /\ ~ (j <= Len(s))
    BY <1>1, <1>2, <2>3, <2>5
  <2>6. CASE ~ (i <= Len(s)) /\ j <= Len(s)
    BY <1>1, <1>2, <2>3, <2>6
  <2>7. CASE ~ (i <= Len(s)) /\ ~ (j <= Len(s))
    <3>1. /\ i - Len(s) \in 1 .. Len(u) /\ j - Len(s) \in 1 .. Len(u)
          /\ i - Len(s) # j - Len(s)
      BY <1>2, <1>6, <2>7
    <3>2. u[i - Len(s)] # u[j - Len(s)]
      BY <1>6, <3>1 DEF OnceEach
    <3>3. QED
      BY <1>1, <2>7, <3>2
  <2>8. QED
    BY <2>4, <2>5, <2>6, <2>7
<1>7. Elements(s \o u) = Elements(s) \cup Elements(u)
  BY <1>3, <1>4, <1>5
<1>8. Elements(s) \cap Elements(u) = {} /\ OnceEach(s) /\ OnceEach(u)
        => OnceEach(s \o u)
  BY <1>1, <1>6 DEF OnceEach
<1>9. (s # << >> => s \o u # << >>) /\ (u # << >> => s \o u # << >>)
  BY ConcatEqualIffEmpty
<1>10. QED
  BY <1>1, <1>7, <1>8, <1>9

\* Adding a thread at the front of a queue.
LEMMA PushElements ==
    ASSUME NEW S, NEW s \in Seq(S), NEW x \in S
    PROVE  /\ <<x>> \o s \in Seq(S)
           /\ <<x>> \o s # << >>
           /\ Elements(<<x>> \o s) = Elements(s) \cup {x}
           /\ x \notin Elements(s) /\ OnceEach(s) => OnceEach(<<x>> \o s)
<1>1. <<x>> \in Seq(S) /\ Len(<<x>>) = 1 /\ <<x>>[1] = x /\ <<x>> # << >>
  OBVIOUS
<1>2. Elements(<<x>>) = {x} /\ OnceEach(<<x>>)
  BY <1>1 DEF Elements, OnceEach
<1>3. /\ <<x>> \o s \in Seq(S)
      /\ <<x>> \o s # << >>
      /\ Elements(<<x>> \o s) = Elements(<<x>>) \cup Elements(s)
      /\ Elements(<<x>>) \cap Elements(s) = {} /\ OnceEach(<<x>>) /\ OnceEach(s)
            => OnceEach(<<x>> \o s)
  <2>1. PICK a : a = <<x>>
    OBVIOUS
  <2>2. a \in Seq(S) /\ a # << >>
    BY <1>1, <2>1
  <2>3. /\ a \o s \in Seq(S) /\ a \o s # << >>
        /\ Elements(a \o s) = Elements(a) \cup Elements(s)
        /\ Elements(a) \cap Elements(s) = {} /\ OnceEach(a) /\ OnceEach(s)
              => OnceEach(a \o s)
    BY <2>2, ConcatElements
  <2>4. QED
    BY <2>1, <2>3
<1>4. QED
  <2>1. x \notin Elements(s) => Elements(<<x>>) \cap Elements(s) = {}
    BY <1>2
  <2>2. Elements(<<x>> \o s) = Elements(s) \cup {x}
    BY <1>2, <1>3
  <2>3. QED
    BY <1>2, <1>3, <2>1, <2>2

\* Taking the front of a queue.
LEMMA TailElements ==
    ASSUME NEW S, NEW s \in Seq(S), s # << >>
    PROVE  /\ Head(s) \in Elements(s)
           /\ Elements(s) \subseteq S
           /\ Tail(s) \in Seq(S)
           /\ OnceEach(s) => /\ Elements(Tail(s)) = Elements(s) \ {Head(s)}
                             /\ OnceEach(Tail(s))
<1>1. /\ Head(s) = s[1]
      /\ Tail(s) \in Seq(S)
      /\ Len(Tail(s)) = Len(s) - 1
      /\ \A i \in 1 .. Len(Tail(s)) : Tail(s)[i] = s[i + 1]
  BY HeadTailProperties
<1>2. Len(s) \in Nat \ {0}
  BY EmptySeq
<1>3. Head(s) \in Elements(s) /\ Elements(s) \subseteq S
  BY <1>1, <1>2 DEF Elements
<1>4. ASSUME OnceEach(s)
      PROVE  OnceEach(Tail(s))
  BY <1>1, <1>2, <1>4 DEF OnceEach
<1>5. ASSUME OnceEach(s), NEW y \in Elements(Tail(s))
      PROVE  y \in Elements(s) \ {Head(s)}
  <2>1. PICK i \in 1 .. Len(s) - 1 : y = s[i + 1]
    BY <1>1 DEF Elements
  <2>2. i + 1 \in 1 .. Len(s) /\ i + 1 # 1 /\ 1 \in 1 .. Len(s)
    BY <1>2
  <2>3. QED
    BY <1>1, <1>5, <2>1, <2>2 DEF Elements, OnceEach
<1>6. ASSUME NEW y \in Elements(s) \ {Head(s)}
      PROVE  y \in Elements(Tail(s))
  <2>1. PICK i \in 1 .. Len(s) : y = s[i]
    BY DEF Elements
  <2>2. i - 1 \in 1 .. Len(Tail(s)) /\ (i - 1) + 1 = i
    BY <1>1, <1>2, <2>1
  <2>3. QED
    BY <1>1, <2>1, <2>2 DEF Elements
<1>7. QED
  BY <1>1, <1>3, <1>4, <1>5, <1>6

-----------------------------------------------------------------------------

\* The running thread, once queued by schedule(), is where its status says.
LEMMA EnqueueCurrentParks ==
    ASSUME NEW q, Leaving(q)
    PROVE  /\ Parked(EnqueueCurrent(q))
           /\ \A t \in Threads : q.status[t] \in OnBlockList =>
                  EnqueueCurrent(q).status[t] = q.status[t]
<1> USE DEF Queues, Status, OnBlockList
<1>1. q \in Queues /\ q.cur \in Threads /\ InReady(q) = Elements(q.ready)
  BY DEF Leaving, InReady, Elements
<1>2. CASE q.status[q.cur] = "RUNNING"
  <2> DEFINE p == ExchangeThreadToReady(q, q.cur)
  <2>1. /\ p.ready = Append(q.ready, q.cur)
        /\ p.cur = q.cur /\ p.blocked = q.blocked /\ p.delayed = q.delayed
        /\ p.status = [q.status EXCEPT ![q.cur] = "READY"]
        /\ p.left = q.left
        /\ p.ticks = [q.ticks EXCEPT ![q.cur] = Slice]
    BY <1>1 DEF ExchangeThreadToReady
  <2>2. /\ p.ready \in Seq(Threads)
        /\ Elements(p.ready) = Elements(q.ready) \cup {q.cur}
        /\ OnceEach(p.ready)
    BY <1>1, <1>2, <2>1, AppendElements DEF Leaving
  <2>3. p \in Queues
    <3>1. p.ticks \in [Threads -> 0 .. Slice]
      BY <1>1, <2>1, ThreadsAssumption
    <3>2. p.status \in [Threads -> Status]
      BY <1>1, <2>1
    <3>3. QED
      BY <1>1, <2>1, <2>2, <3>1, <3>2 DEF ExchangeThreadToReady
  <2>4. ASSUME NEW t \in Threads
        PROVE  p.status[t] # "RUNNING" /\ Placed(p, t)
    <3>1. InReady(p) = Elements(q.ready) \cup {q.cur}
      BY <2>2 DEF InReady, Elements
    <3>2. CASE t = q.cur
      BY <1>1, <1>2, <2>1, <3>1, <3>2 DEF Leaving, Placed
    <3>3. CASE t # q.cur
      BY <1>1, <1>2, <2>1, <3>1, <3>3 DEF Leaving, Placed
    <3>4. QED
      BY <3>2, <3>3
  <2>5. p.status[Idle] \in {"READY", "BLOCKED"}
    BY <1>1, <1>2, <2>1, ThreadsAssumption DEF Leaving
  <2>6. EnqueueCurrent(q) = p
    BY <1>2 DEF EnqueueCurrent
  <2> HIDE DEF p
  <2>7. QED
    BY <1>1, <1>2, <2>1, <2>2, <2>3, <2>4, <2>5, <2>6 DEF Parked
<1>3. CASE q.status[q.cur] \in OnBlockList
  <2> DEFINE p == [q EXCEPT !.blocked = @ \cup {q.cur}]
  <2>1. p \in Queues /\ p.status = q.status
    BY <1>1
  <2>2. ASSUME NEW t \in Threads
        PROVE  p.status[t] # "RUNNING" /\ Placed(p, t)
    <3>1. CASE t = q.cur
      BY <1>1, <1>3, <3>1 DEF Leaving, Placed, InReady
    <3>2. CASE t # q.cur
      BY <1>1, <3>2 DEF Leaving, Placed, InReady
    <3>3. QED
      BY <3>1, <3>2
  <2>3. EnqueueCurrent(q) = p
    BY <1>3 DEF EnqueueCurrent
  <2>4. OnceEach(p.ready) /\ p.status[Idle] \in {"READY", "BLOCKED"}
    BY <1>1, <1>3, <2>1, <2>2, ThreadsAssumption DEF Leaving
  <2> HIDE DEF p
  <2>5. QED
    BY <2>1, <2>2, <2>3, <2>4 DEF Parked
<1>4. CASE q.status[q.cur] = "DELAYED"
  <2> DEFINE p == [q EXCEPT !.delayed = @ \cup {q.cur}]
  <2>1. p \in Queues /\ p.status = q.status
    BY <1>1
  <2>2. ASSUME NEW t \in Threads
        PROVE  p.status[t] # "RUNNING" /\ Placed(p, t)
    <3>1. CASE t = q.cur
      BY <1>1, <1>4, <3>1 DEF Leaving, Placed, InReady
    <3>2. CASE t # q.cur
      BY <1>1, <3>2 DEF Leaving, Placed, InReady
    <3>3. QED
      BY <3>1, <3>2
  <2>3. EnqueueCurrent(q) = p
    BY <1>4 DEF EnqueueCurrent
  <2>4. OnceEach(p.ready) /\ p.status[Idle] \in {"READY", "BLOCKED"}
    BY <1>1, <1>4, <2>1, <2>2, ThreadsAssumption DEF Leaving
  <2> HIDE DEF p
  <2>5. QED
    BY <2>1, <2>2, <2>3, <2>4 DEF Parked
<1>5. CASE q.status[q.cur] \in {"READY", "DIED"}
  <2>1. EnqueueCurrent(q) = q
    BY <1>5 DEF EnqueueCurrent
  <2>2. \A t \in Threads : q.status[t] # "RUNNING" /\ Placed(q, t)
    BY <1>1, <1>5 DEF Leaving, Placed
  <2>3. QED
    BY <1>1, <1>5, <2>1, <2>2, ThreadsAssumption DEF Leaving, Parked
<1>6. QED
  BY <1>1, <1>2, <1>3, <1>4, <1>5

\* An unblocked thread leaves the BlockList for the ready queue.
LEMMA UnBlockParks ==
    ASSUME NEW q, Parked(q), NEW t \in Threads, q.status[t] = "BLOCKED"
    PROVE  Parked(ThreadUnBlock(q, t)) /\ ThreadUnBlock(q, t).ready # << >>
<1> USE DEF Queues, Status, OnBlockList
<1> DEFINE p == ThreadUnBlock(q, t)
<1>1. /\ q \in Queues /\ InReady(q) = Elements(q.ready)
      /\ t \notin Elements(q.ready)
  BY DEF Parked, Placed, InReady, Elements
<1>2. /\ p.ready = <<t>> \o q.ready
      /\ p.cur = q.cur /\ p.delayed = q.delayed
      /\ p.blocked = q.blocked \ {t}
      /\ p.status = [q.status EXCEPT ![t] = "READY"]
  BY <1>1 DEF ThreadUnBlock
<1>3. /\ p.ready \in Seq(Threads) /\ p.ready # << >>
      /\ Elements(p.ready) = Elements(q.ready) \cup {t}
      /\ OnceEach(p.ready)
  BY <1>1, <1>2, PushElements DEF Parked
<1>4. p \in Queues
  BY <1>1, <1>2, <1>3 DEF ThreadUnBlock
<1>5. ASSUME NEW u \in Threads
      PROVE  p.status[u] # "RUNNING" /\ Placed(p, u)
  <2>1. InReady(p) = Elements(q.ready) \cup {t}
    BY <1>3 DEF InReady, Elements
  <2>2. q.status[u] # "RUNNING" /\ Placed(q, u)
    BY DEF Parked
  <2> HIDE DEF p
  <2>3. CASE u = t
    BY <1>1, <1>2, <2>1, <2>2, <2>3 DEF Placed
  <2>4. CASE u # t
    BY <1>1, <1>2, <2>1, <2>2, <2>4 DEF Placed
  <2>5. QED
    BY <2>3, <2>4
<1>6. p.status[Idle] \in {"READY", "BLOCKED"}
  BY <1>1, <1>2, ThreadsAssumption DEF Parked
<1>7. QED
  BY <1>3, <1>4, <1>5, <1>6 DEF Parked

\* The idle task is there to be woken when nothing else is ready.
LEMMA WakeIdleFindsOne ==
    ASSUME NEW q, Parked(q)
    PROVE  /\ Parked(WakeIdle(q)) /\ WakeIdle(q).ready # << >>
           /\ \A t \in Threads \ {Idle} :
                  WakeIdle(q).status[t] = q.status[t]
<1>1. CASE q.ready = << >>
  <2>1. q.status[Idle] # "READY"
    BY <1>1, ThreadsAssumption DEF Parked, Placed, InReady
  <2>2. q.status[Idle] = "BLOCKED"
    BY <2>1 DEF Parked
  <2>3. WakeIdle(q) = ThreadUnBlock(q, Idle)
    BY <1>1 DEF WakeIdle
  <2>4. \A t \in Threads \ {Idle} :
            ThreadUnBlock(q, Idle).status[t] = q.status[t]
    BY DEF Parked, Queues, ThreadUnBlock
  <2>5. QED
    BY <2>2, <2>3, <2>4, UnBlockParks, ThreadsAssumption
<1>2. CASE q.ready # << >>
  BY <1>2 DEF WakeIdle
<1>3. QED
  BY <1>1, <1>2

\* The expired sleepers, in any order the heap gives, once each.
LEMMA WakeOrdersElements ==
    ASSUME NEW q, q \in Queues, NEW s \in WakeOrders(q)
    PROVE  /\ s \in Seq(Threads)
           /\ Elements(s) = Expired(q)
           /\ OnceEach(s)
<1>1. Expired(q) \in SUBSET Threads
  BY DEF Queues, Expired
<1>2. Cardinality(Expired(q)) \in Nat
  BY <1>1, ThreadsAssumption, FS_Subset, FS_CardinalityType
<1>3. s \in [1 .. Cardinality(Expired(q)) -> Expired(q)]
  BY DEF WakeOrders
<1>4. s \in Seq(Expired(q)) /\ Len(s) = Cardinality(Expired(q)) /\ DOMAIN s = 1 .. Len(s)
  BY <1>2, <1>3
<1>5. s \in Seq(Threads)
  BY <1>1, <1>4, SeqMonotonic
<1>6. QED
  BY <1>3, <1>4, <1>5 DEF WakeOrders, Elements, OnceEach

\* Waking sleepers keeps every thread in its queue, and no sleeper whose time
\* has come stays.
LEMMA ProcessDelayParks ==
    ASSUME NEW q, Parked(q), q.ready # << >>, NEW p \in ProcessDelayThread(q)
    PROVE  /\ Parked(p) /\ p.ready # << >>
           /\ \A t \in p.delayed : p.left[t] >= 1
           /\ \A t \in Threads : q.status[t] \in OnBlockList => p.status[t] = q.status[t]
<1> USE DEF Queues, Status, OnBlockList
<1>1. q \in Queues /\ InReady(q) = Elements(q.ready)
  BY DEF Parked, InReady, Elements
<1>2. PICK s \in WakeOrders(q) :
          p = [q EXCEPT !.ready = @ \o s,
                 !.delayed = @ \ Expired(q),
                 !.ticks = [t \in Threads |->
                              IF t \in Expired(q) THEN Slice ELSE @[t]],
                 !.status = [t \in Threads |->
                              IF t \in Expired(q) THEN "READY" ELSE @[t]],
                 !.left = [t \in Threads |->
                              IF t \in Expired(q) THEN 0 ELSE @[t]]]
  BY DEF ProcessDelayThread
<1>3. /\ p.ready = q.ready \o s
      /\ p.cur = q.cur /\ p.blocked = q.blocked
      /\ p.delayed = q.delayed \ Expired(q)
      /\ p.ticks = [t \in Threads |-> IF t \in Expired(q) THEN Slice ELSE q.ticks[t]]
      /\ p.status = [t \in Threads |-> IF t \in Expired(q) THEN "READY" ELSE q.status[t]]
      /\ p.left = [t \in Threads |-> IF t \in Expired(q) THEN 0 ELSE q.left[t]]
  BY <1>1, <1>2
<1>4. /\ s \in Seq(Threads) /\ Elements(s) = Expired(q) /\ OnceEach(s)
  BY <1>1, WakeOrdersElements
<1>5. \A t \in Expired(q) : t \in q.delayed /\ q.status[t] = "DELAYED"
  BY <1>1 DEF Expired, Parked, Placed
<1>6. Elements(q.ready) \cap Elements(s) = {}
  <2>1. \A t \in Elements(q.ready) : t \in Threads /\ q.status[t] = "READY"
    BY <1>1 DEF Parked, Placed, Elements
  <2>2. QED
    BY <1>4, <1>5, <2>1
<1>7. /\ p.ready \in Seq(Threads) /\ p.ready # << >>
      /\ Elements(p.ready) = Elements(q.ready) \cup Expired(q)
      /\ OnceEach(p.ready)
  BY <1>1, <1>3, <1>4, <1>6, ConcatElements DEF Parked
<1>8. p \in Queues
  <2>1. /\ p.ticks \in [Threads -> 0 .. Slice]
        /\ p.status \in [Threads -> Status]
        /\ p.left \in [Threads -> Int]
    BY <1>1, <1>3, ThreadsAssumption
  <2>2. p.cur \in Threads /\ p.blocked \in SUBSET Threads /\ p.delayed \in SUBSET Threads
    BY <1>1, <1>3
  <2>3. p = [cur |-> p.cur, status |-> p.status, ready |-> p.ready,
             blocked |-> p.blocked, delayed |-> p.delayed,
             ticks |-> p.ticks, left |-> p.left]
    BY <1>1, <1>2
  <2>4. QED
    BY <1>7, <2>1, <2>2, <2>3
<1>9. ASSUME NEW t \in Threads
      PROVE  p.status[t] # "RUNNING" /\ Placed(p, t)
  <2>1. InReady(p) = InReady(q) \cup Expired(q)
    BY <1>7 DEF InReady, Elements
  <2>2. q.status[t] # "RUNNING" /\ Placed(q, t)
    BY DEF Parked
  <2>3. CASE t \in Expired(q)
    BY <1>1, <1>3, <1>5, <2>1, <2>2, <2>3 DEF Placed
  <2>4. CASE t \notin Expired(q)
    BY <1>1, <1>3, <2>1, <2>2, <2>4 DEF Placed
  <2>5. QED
    BY <2>3, <2>4
<1>10. p.status[Idle] \in {"READY", "BLOCKED"}
  BY <1>1, <1>3, ThreadsAssumption DEF Parked
<1>11. \A t \in p.delayed : p.left[t] >= 1
  BY <1>1, <1>3 DEF Expired
<1>12. \A t \in Threads : q.status[t] \in OnBlockList => p.status[t] = q.status[t]
  BY <1>1, <1>3, <1>5
<1>13. QED
  BY <1>7, <1>8, <1>9, <1>10, <1>11, <1>12 DEF Parked

\* The front of the ready queue takes the processor.
LEMMA SwitchToFrontRuns ==
    ASSUME NEW q, Parked(q), q.ready # << >>
    PROVE  /\ SwitchToFront(q) \in Queues
           /\ QueuesConsistent(SwitchToFront(q))
           /\ SwitchToFront(q).delayed = q.delayed
           /\ SwitchToFront(q).left = q.left
           /\ \A t \in Threads : q.status[t] \in OnBlockList =>
                  SwitchToFront(q).status[t] = q.status[t]
<1> USE DEF Queues, Status, OnBlockList
<1> DEFINE p == SwitchToFront(q)
<1>1. q \in Queues /\ InReady(q) = Elements(q.ready) /\ OnceEach(q.ready)
  BY DEF Parked, InReady, Elements
<1>2. /\ Head(q.ready) \in Elements(q.ready)
      /\ Head(q.ready) \in Threads
      /\ Tail(q.ready) \in Seq(Threads)
      /\ Elements(Tail(q.ready)) = Elements(q.ready) \ {Head(q.ready)}
      /\ OnceEach(Tail(q.ready))
  BY <1>1, TailElements
<1>3. /\ p.cur = Head(q.ready)
      /\ p.ready = Tail(q.ready)
      /\ p.blocked = q.blocked /\ p.delayed = q.delayed /\ p.left = q.left
      /\ p.status = [q.status EXCEPT ![Head(q.ready)] = "RUNNING"]
  BY <1>1 DEF SwitchToFront
<1>4. p \in Queues
  BY <1>1, <1>2, <1>3 DEF SwitchToFront
<1>5. q.status[Head(q.ready)] = "READY"
  BY <1>1, <1>2 DEF Parked, Placed
<1>6. \A t \in Threads : /\ t \in InReady(p) <=> p.status[t] = "READY"
                         /\ t \in p.blocked <=> p.status[t] \in OnBlockList
                         /\ t \in p.delayed <=> p.status[t] = "DELAYED"
                         /\ p.status[t] = "RUNNING" => t = p.cur
  <2>1. InReady(p) = Elements(q.ready) \ {Head(q.ready)}
    BY <1>2, <1>3 DEF InReady, Elements
  <2> HIDE DEF p
  <2> SUFFICES ASSUME NEW t \in Threads
               PROVE  /\ t \in InReady(p) <=> p.status[t] = "READY"
                      /\ t \in p.blocked <=> p.status[t] \in OnBlockList
                      /\ t \in p.delayed <=> p.status[t] = "DELAYED"
                      /\ p.status[t] = "RUNNING" => t = p.cur
    OBVIOUS
  <2>2. q.status[t] # "RUNNING" /\ Placed(q, t)
    BY DEF Parked
  <2>3. CASE t = Head(q.ready)
    BY <1>1, <1>2, <1>3, <1>5, <2>1, <2>2, <2>3 DEF Placed
  <2>4. CASE t # Head(q.ready)
    BY <1>1, <1>2, <1>3, <2>1, <2>2, <2>4 DEF Placed
  <2>5. QED
    BY <2>3, <2>4
<1>7. p.status[p.cur] = "RUNNING" /\ p.status[Idle] \in {"RUNNING", "READY", "BLOCKED"}
  BY <1>1, <1>2, <1>3, ThreadsAssumption DEF Parked
<1>8. \A i, j \in 1 .. Len(p.ready) : i # j => p.ready[i] # p.ready[j]
  BY <1>2, <1>3 DEF OnceEach
<1>9. QueuesConsistent(p)
  BY <1>6, <1>7, <1>8 DEF QueuesConsistent
<1>10. \A t \in Threads : q.status[t] \in OnBlockList => p.status[t] = q.status[t]
  BY <1>1, <1>2, <1>3, <1>5
<1>11. QED
  BY <1>3, <1>4, <1>9, <1>10

-----------------------------------------------------------------------------

\* schedule(): whatever state the running thread leaves in, some thread gets
\* the processor and every other is in its queue; no thread on the BlockList
\* but the idle task is moved, and no sleeper whose time has come is left.
THEOREM ScheduleConsistent ==
    ASSUME NEW q, Leaving(q), NEW p \in schedule(q)
    PROVE  /\ p \in Queues
           /\ QueuesConsistent(p)
           /\ \A t \in p.delayed : p.left[t] >= 1
           /\ \A t \in Threads \ {Idle} : q.status[t] \in OnBlockList =>
                  p.status[t] = q.status[t]
<1> DEFINE e == EnqueueCurrent(q)
           w == WakeIdle(e)
<1>1. /\ Parked(e)
      /\ \A t \in Threads : q.status[t] \in OnBlockList => e.status[t] = q.status[t]
  BY EnqueueCurrentParks
<1>2. /\ Parked(w) /\ w.ready # << >>
      /\ \A t \in Threads \ {Idle} : w.status[t] = e.status[t]
  BY <1>1, WakeIdleFindsOne
<1>3. PICK d \in ProcessDelayThread(w) : p = SwitchToFront(d)
  BY DEF schedule
<1>4. /\ Parked(d) /\ d.ready # << >>
      /\ \A t \in d.delayed : d.left[t] >= 1
      /\ \A t \in Threads : w.status[t] \in OnBlockList => d.status[t] = w.status[t]
  BY <1>2, ProcessDelayParks
<1>5. /\ p \in Queues /\ QueuesConsistent(p)
      /\ p.delayed = d.delayed /\ p.left = d.left
      /\ \A t \in Threads : d.status[t] \in OnBlockList => p.status[t] = d.status[t]
  BY <1>3, <1>4, SwitchToFrontRuns
<1>6. ASSUME NEW t \in Threads \ {Idle}, q.status[t] \in OnBlockList
      PROVE  p.status[t] = q.status[t]
  <2>1. e.status[t] = q.status[t]
    BY <1>1, <1>6
  <2>2. w.status[t] = q.status[t]
    BY <1>2, <2>1
  <2>3. d.status[t] = q.status[t]
    BY <1>4, <1>6, <2>2
  <2>4. QED
    BY <1>5, <1>6, <2>3
<1>7. QED
  BY <1>4, <1>5, <1>6

\* schedule() wakes the sleepers whose time has come, all of them and no other.
THEOREM ScheduleWakes ==
    ASSUME NEW q, Leaving(q), NEW p \in schedule(q), NEW t \in q.delayed
    PROVE  p.status[t] = "DELAYED" <=> q.left[t] > 0
<1> USE DEF Queues, Status, OnBlockList
<1> DEFINE e == EnqueueCurrent(q)
           w == WakeIdle(e)
<1>1. /\ q \in Queues /\ t \in Threads /\ t # q.cur /\ q.status[t] = "DELAYED" /\ t # Idle
      /\ q.left[t] \in Int
  BY DEF Leaving, Placed
<1>2. Parked(e) /\ e.left = q.left /\ e.status[t] = "DELAYED"
  <2>1. Parked(e)
    BY EnqueueCurrentParks
  <2>2. e.left = q.left /\ e.status[t] = "DELAYED"
    <3>1. CASE q.status[q.cur] = "RUNNING"
      BY <1>1, <3>1 DEF EnqueueCurrent, ExchangeThreadToReady
    <3>2. CASE q.status[q.cur] \in OnBlockList
      BY <1>1, <3>2 DEF EnqueueCurrent
    <3>3. CASE q.status[q.cur] = "DELAYED"
      BY <1>1, <3>3 DEF EnqueueCurrent
    <3>4. CASE q.status[q.cur] \in {"READY", "DIED"}
      BY <1>1, <3>4 DEF EnqueueCurrent
    <3>5. q.status[q.cur] \in Status
      BY <1>1
    <3>6. QED
      BY <3>1, <3>2, <3>3, <3>4, <3>5
  <2>3. QED
    BY <2>1, <2>2
<1> HIDE DEF e
<1>3. Parked(w) /\ w.ready # << >> /\ w.left = q.left /\ w.status[t] = "DELAYED"
  <2>1. w.left = e.left
    BY <1>2 DEF WakeIdle, ThreadUnBlock, Parked
  <2>2. QED
    BY <1>1, <1>2, <2>1, WakeIdleFindsOne
<1>4. t \in w.delayed /\ w \in Queues
  BY <1>1, <1>3 DEF Parked, Placed
<1> HIDE DEF w
<1>5. PICK d \in ProcessDelayThread(w) : p = SwitchToFront(d)
  BY DEF schedule, e, w
<1>6. d.status[t] = IF q.left[t] <= 0 THEN "READY" ELSE "DELAYED"
  <2>1. t \in Expired(w) <=> q.left[t] <= 0
    BY <1>3, <1>4 DEF Expired
  <2>2. d.status = [u \in Threads |-> IF u \in Expired(w) THEN "READY" ELSE w.status[u]]
    <3>1. PICK s \in WakeOrders(w) :
              d = [w EXCEPT !.ready = @ \o s,
                     !.delayed = @ \ Expired(w),
                     !.ticks = [u \in Threads |->
                                  IF u \in Expired(w) THEN Slice ELSE @[u]],
                     !.status = [u \in Threads |->
                                  IF u \in Expired(w) THEN "READY" ELSE @[u]],
                     !.left = [u \in Threads |->
                                  IF u \in Expired(w) THEN 0 ELSE @[u]]]
      BY <1>5 DEF ProcessDelayThread
    <3>2. QED
      BY <1>4, <3>1
  <2>3. QED
    BY <1>1, <1>3, <2>1, <2>2
<1>7. Parked(d) /\ d.ready # << >> /\ d \in Queues
  BY <1>3, <1>5, ProcessDelayParks DEF Parked
<1>8. p.status = [d.status EXCEPT ![Head(d.ready)] = "RUNNING"]
  BY <1>5, <1>7 DEF SwitchToFront
<1>9. Head(d.ready) \in Threads /\ d.status[Head(d.ready)] = "READY"
  <2>1. Head(d.ready) \in Elements(d.ready) /\ Head(d.ready) \in Threads
    BY <1>7, TailElements
  <2>2. QED
    BY <1>7, <2>1 DEF Parked, Placed, InReady, Elements
<1>10. p.status[t] = "DELAYED" <=> d.status[t] = "DELAYED"
  <2>1. CASE t = Head(d.ready)
    BY <1>1, <1>7, <1>8, <1>9, <2>1
  <2>2. CASE t # Head(d.ready)
    BY <1>1, <1>7, <1>8, <2>2
  <2>3. QED
    BY <2>1, <2>2
<1>11. QED
  BY <1>1, <1>6, <1>10

-----------------------------------------------------------------------------

\* What schedule() may do to a thread: only one that runs, is ready or sleeps
\* for a time changes its status, and only to running or ready.
Moved(q, p, t) ==
    \/ p.status[t] = q.status[t]
    \/ /\ q.status[t] \in {"RUNNING", "READY", "DELAYED"}
       /\ p.status[t] \in {"RUNNING", "READY"}

\* The same, step by step: first the running thread is queued.
LEMMA EnqueueCurrentMoves ==
    ASSUME NEW q, Leaving(q)
    PROVE  /\ \A t \in Threads : Moved(q, EnqueueCurrent(q), t)
           /\ (\E t \in Threads : q.status[t] \in {"RUNNING", "READY"})
                => EnqueueCurrent(q).ready # << >>
<1> DEFINE e == EnqueueCurrent(q)
<1>1. q \in Queues /\ q.cur \in Threads /\ q.ready \in Seq(Threads)
  BY DEF Leaving, Queues
<1>2. CASE q.status[q.cur] = "RUNNING"
  <2>1. /\ e.status = [q.status EXCEPT ![q.cur] = "READY"]
        /\ e.ready = Append(q.ready, q.cur)
    <3>1. e = ExchangeThreadToReady(q, q.cur)
      BY <1>2 DEF EnqueueCurrent, OnBlockList
    <3> HIDE DEF e
    <3>2. QED
      BY <1>1, <3>1 DEF ExchangeThreadToReady, Queues
  <2>2. e.ready # << >>
    BY <1>1, <2>1, AppendElements
  <2>3. \A t \in Threads : Moved(q, e, t)
    BY <1>1, <1>2, <2>1 DEF Queues, Moved
  <2>4. QED
    BY <2>2, <2>3
<1>3. CASE q.status[q.cur] # "RUNNING"
  <2>1. e.status = q.status /\ e.ready = q.ready
    BY <1>1, <1>3 DEF EnqueueCurrent, Queues
  <2>2. ASSUME NEW t \in Threads, q.status[t] \in {"RUNNING", "READY"}
        PROVE  q.ready # << >>
    <3>1. q.status[t] = "READY"
      BY <1>3, <2>2 DEF Leaving
    <3>2. t \in InReady(q)
      BY <3>1 DEF Leaving, Placed
    <3>3. QED
      BY <3>2 DEF InReady
  <2>3. QED
    BY <2>1, <2>2 DEF Moved
<1>4. QED
  BY <1>2, <1>3

\* Then expired sleepers are woken.
LEMMA ProcessDelayMoves ==
    ASSUME NEW q, Parked(q), NEW p \in ProcessDelayThread(q)
    PROVE  \A t \in Threads : Moved(q, p, t)
<1>1. PICK s \in WakeOrders(q) :
          p = [q EXCEPT !.ready = @ \o s,
                 !.delayed = @ \ Expired(q),
                 !.ticks = [t \in Threads |->
                              IF t \in Expired(q) THEN Slice ELSE @[t]],
                 !.status = [t \in Threads |->
                              IF t \in Expired(q) THEN "READY" ELSE @[t]],
                 !.left = [t \in Threads |->
                              IF t \in Expired(q) THEN 0 ELSE @[t]]]
  BY DEF ProcessDelayThread
<1>2. p.status = [t \in Threads |-> IF t \in Expired(q) THEN "READY" ELSE q.status[t]]
  BY <1>1 DEF Parked, Queues
<1>3. \A t \in Expired(q) : q.status[t] = "DELAYED"
  BY DEF Expired, Parked, Placed, Queues
<1>4. QED
  BY <1>2, <1>3 DEF Moved

\* Then the front of the ready queue runs.
LEMMA SwitchToFrontMoves ==
    ASSUME NEW q, Parked(q), q.ready # << >>
    PROVE  \A t \in Threads : Moved(q, SwitchToFront(q), t)
<1>1. q \in Queues /\ q.ready \in Seq(Threads)
  BY DEF Parked, Queues
<1>2. Head(q.ready) \in Elements(q.ready) /\ Head(q.ready) \in Threads
  BY <1>1, TailElements
<1>3. q.status[Head(q.ready)] = "READY"
  BY <1>2 DEF Parked, Placed, InReady, Elements
<1>4. SwitchToFront(q).status = [q.status EXCEPT ![Head(q.ready)] = "RUNNING"]
  BY <1>1 DEF SwitchToFront, Queues
<1>5. QED
  BY <1>1, <1>2, <1>3, <1>4 DEF Moved, Queues

\* schedule() moves threads among running, ready and expired only, and does
\* not wake the idle task while there is another thread to run.
THEOREM ScheduleMoves ==
    ASSUME NEW q, Leaving(q), NEW p \in schedule(q)
    PROVE  /\ \A t \in Threads \ {Idle} : Moved(q, p, t)
           /\ (\E t \in Threads : q.status[t] \in {"RUNNING", "READY"})
                => Moved(q, p, Idle)
<1> DEFINE e == EnqueueCurrent(q)
           w == WakeIdle(e)
<1>1. /\ Parked(e)
      /\ \A t \in Threads : Moved(q, e, t)
      /\ (\E t \in Threads : q.status[t] \in {"RUNNING", "READY"}) => e.ready # << >>
  BY EnqueueCurrentParks, EnqueueCurrentMoves
<1>2. /\ Parked(w) /\ w.ready # << >>
      /\ \A t \in Threads \ {Idle} : w.status[t] = e.status[t]
      /\ e.ready # << >> => w.status[Idle] = e.status[Idle]
  BY <1>1, WakeIdleFindsOne DEF WakeIdle
<1>3. PICK d \in ProcessDelayThread(w) : p = SwitchToFront(d)
  BY DEF schedule
<1>4. /\ Parked(d) /\ d.ready # << >>
      /\ \A t \in Threads : Moved(w, d, t) /\ Moved(d, p, t)
  BY <1>2, <1>3, ProcessDelayParks, ProcessDelayMoves, SwitchToFrontMoves
<1> HIDE DEF e, w
<1>5. ASSUME NEW t \in Threads, w.status[t] = e.status[t]
      PROVE  Moved(q, p, t)
  BY <1>1, <1>4, <1>5 DEF Moved
<1>6. QED
  BY <1>1, <1>2, <1>5, ThreadsAssumption

-----------------------------------------------------------------------------

\* The sleepers a step wakes: those with at most k ticks left.
Wakes(q, p, k) == \A t \in q.delayed : p.status[t] = "DELAYED" <=> q.left[t] > k

\* What a call that gives up the processor leaves behind.
Rescheduled(q, p) ==
    /\ p \in Queues
    /\ QueuesConsistent(p)
    /\ \A t \in p.delayed : p.left[t] >= 1
    /\ \A t \in Threads \ {Idle} : q.status[t] = "BLOCKED" => p.status[t] = "BLOCKED"
    /\ \A t \in Threads \ {Idle, q.cur} : Moved(q, p, t)

\* The queues before the call: the running thread is in none of them.
LEMMA RunningNotQueued ==
    ASSUME NEW q, q \in Queues, QueuesConsistent(q)
    PROVE  /\ q.cur \in Threads
           /\ q.cur \notin q.blocked \cup q.delayed
           /\ q.cur \notin InReady(q)
           /\ OnceEach(q.ready)
           /\ \A t \in Threads \ {q.cur} : q.status[t] # "RUNNING" /\ Placed(q, t)
BY DEF Queues, QueuesConsistent, OnBlockList, OnceEach, Placed

\* The running thread sets its status and is in no queue: it may call schedule().
LEMMA StatusSetLeaving ==
    ASSUME NEW q, q \in Queues, QueuesConsistent(q),
           NEW st \in Status \ {"READY"}, q.cur = Idle => st \in {"RUNNING", "BLOCKED"},
           NEW b, b \in Queues,
           b.cur = q.cur, b.ready = q.ready,
           b.blocked = q.blocked, b.delayed = q.delayed,
           b.status = [q.status EXCEPT ![q.cur] = st]
    PROVE  Leaving(b)
<1>1. InReady(b) = InReady(q) /\ q.status \in [Threads -> Status]
  BY DEF InReady, Queues
<1>2. ASSUME NEW t \in Threads \ {q.cur}
      PROVE  b.status[t] # "RUNNING" /\ Placed(b, t)
  <2>1. b.status[t] = q.status[t] /\ q.status[t] # "RUNNING" /\ Placed(q, t)
    BY <1>1, RunningNotQueued
  <2>2. QED
    BY <1>1, <2>1 DEF Placed
<1>3. b.status[q.cur] = st
  BY <1>1, RunningNotQueued
<1>4. b.status[Idle] \in {"RUNNING", "READY", "BLOCKED"}
  BY <1>1, <1>3, ThreadsAssumption DEF QueuesConsistent
<1>5. QED
  BY <1>1, <1>2, <1>3, <1>4, RunningNotQueued DEF Leaving

\* The running thread is not BLOCKED: whoever is stays so when it leaves.
LEMMA StatusSetKeepsBlocked ==
    ASSUME NEW q, q \in Queues, QueuesConsistent(q), NEW st, NEW status,
           status = [q.status EXCEPT ![q.cur] = st],
           NEW t \in Threads, q.status[t] = "BLOCKED"
    PROVE  status[t] = "BLOCKED" /\ status[t] \in OnBlockList
BY DEF Queues, QueuesConsistent, OnBlockList

\* schedule() moves the others as it does from the queues before the call.
LEMMA StatusSetMoves ==
    ASSUME NEW q, NEW b, NEW p, q \in Queues, NEW st,
           b.status = [q.status EXCEPT ![q.cur] = st],
           Leaving(b), p \in schedule(b)
    PROVE  \A t \in Threads \ {Idle, q.cur} : Moved(q, p, t)
<1>1. \A t \in Threads \ {Idle} : Moved(b, p, t)
  BY ScheduleMoves
<1>2. \A t \in Threads \ {q.cur} : b.status[t] = q.status[t]
  BY DEF Queues
<1>3. QED
  BY <1>1, <1>2 DEF Moved

\* ThreadBlock, for any thread: the idle task only with BLOCKED.
LEMMA ThreadBlockConsistent ==
    ASSUME NEW q, q \in Queues, QueuesConsistent(q),
           NEW st \in OnBlockList, q.cur = Idle => st = "BLOCKED",
           NEW p \in ThreadBlock(q, st)
    PROVE  /\ Rescheduled(q, p) /\ Wakes(q, p, 0)
           /\ q.cur # Idle => p.status[q.cur] = st
<1> DEFINE b == [q EXCEPT !.status[q.cur] = st]
<1>1. /\ b \in Queues
      /\ b.cur = q.cur /\ b.ready = q.ready
      /\ b.blocked = q.blocked /\ b.delayed = q.delayed
      /\ b.status = [q.status EXCEPT ![q.cur] = st]
  BY DEF Queues, Status, OnBlockList
<1>2. Leaving(b)
  <2>1. st \in Status \ {"READY"}
    BY DEF Status, OnBlockList
  <2> HIDE DEF b
  <2>2. QED
    BY <1>1, <2>1, StatusSetLeaving
<1>3. p \in schedule(b)
  BY DEF ThreadBlock
<1> HIDE DEF b
<1>4. /\ p \in Queues /\ QueuesConsistent(p)
      /\ \A t \in p.delayed : p.left[t] >= 1
      /\ \A t \in Threads \ {Idle} : b.status[t] \in OnBlockList => p.status[t] = b.status[t]
  BY <1>2, <1>3, ScheduleConsistent
<1>5. \A t \in Threads \ {Idle} : q.status[t] = "BLOCKED" => p.status[t] = "BLOCKED"
  BY <1>1, <1>4, StatusSetKeepsBlocked
<1>6. q.cur # Idle => p.status[q.cur] = st
  BY <1>1, <1>4 DEF Queues
<1>7. b.left = q.left
  BY DEF b, Queues
<1>8. Wakes(q, p, 0)
  BY <1>1, <1>2, <1>3, <1>7, ScheduleWakes DEF Wakes
<1>9. \A t \in Threads \ {Idle, q.cur} : Moved(q, p, t)
  BY <1>1, <1>2, <1>3, StatusSetMoves
<1>10. QED
  BY <1>4, <1>5, <1>6, <1>8, <1>9 DEF Rescheduled

\* Thread_Yield queues the running thread itself before it calls schedule().
LEMMA YieldConsistent ==
    ASSUME NEW q, q \in Queues, QueuesConsistent(q), NEW p \in Thread_Yield(q)
    PROVE  Rescheduled(q, p) /\ Wakes(q, p, 0)
<1> DEFINE b == [q EXCEPT !.status[q.cur] = "READY", !.ready = Append(@, q.cur)]
<1>1. /\ q.cur \in Threads /\ q.cur \notin Elements(q.ready)
      /\ InReady(q) = Elements(q.ready) /\ OnceEach(q.ready) /\ q.ready \in Seq(Threads)
  BY RunningNotQueued DEF Queues, InReady, Elements
<1>2. /\ b.cur = q.cur /\ b.ready = Append(q.ready, q.cur)
      /\ b.blocked = q.blocked /\ b.delayed = q.delayed
      /\ b.status = [q.status EXCEPT ![q.cur] = "READY"]
  BY DEF Queues
<1>3. /\ b.ready \in Seq(Threads) /\ OnceEach(b.ready)
      /\ InReady(b) = InReady(q) \cup {q.cur}
  BY <1>1, <1>2, AppendElements DEF InReady, Elements
<1>4. b \in Queues
  <2>1. b.status \in [Threads -> Status]
    BY <1>1, <1>2 DEF Queues, Status
  <2>2. QED
    BY <1>1, <1>2, <1>3, <2>1 DEF Queues
<1>5. Leaving(b)
  <2> HIDE DEF b
  <2>1. ASSUME NEW t \in Threads \ {q.cur}
        PROVE  b.status[t] # "RUNNING" /\ Placed(b, t)
    <3>1. b.status[t] = q.status[t] /\ q.status[t] # "RUNNING" /\ Placed(q, t)
      BY <1>2, RunningNotQueued DEF Queues
    <3>2. QED
      BY <1>2, <1>3, <3>1 DEF Placed
  <2>2. q.cur \notin b.blocked \cup b.delayed /\ q.cur \in InReady(b) /\ b.status[q.cur] = "READY"
    BY <1>1, <1>2, <1>3, RunningNotQueued DEF Queues
  <2>3. b.status[Idle] \in {"RUNNING", "READY", "BLOCKED"}
    BY <1>2, ThreadsAssumption DEF Queues, QueuesConsistent
  <2>4. QED
    BY <1>2, <1>3, <1>4, <2>1, <2>2, <2>3 DEF Leaving
<1>6. p \in schedule(b)
  BY DEF Thread_Yield
<1> HIDE DEF b
<1>7. /\ p \in Queues /\ QueuesConsistent(p)
      /\ \A t \in p.delayed : p.left[t] >= 1
      /\ \A t \in Threads \ {Idle} : b.status[t] \in OnBlockList => p.status[t] = b.status[t]
  BY <1>5, <1>6, ScheduleConsistent
<1>8. \A t \in Threads \ {Idle} : q.status[t] = "BLOCKED" => p.status[t] = "BLOCKED"
  <2>1. \A t \in Threads \ {Idle} : b.status[t] = "BLOCKED" => p.status[t] = "BLOCKED"
    BY <1>7 DEF OnBlockList
  <2>2. QED
    BY <1>2, <2>1, StatusSetKeepsBlocked
<1>9. b.left = q.left
  BY DEF b, Queues
<1>10. Wakes(q, p, 0)
  BY <1>2, <1>5, <1>6, <1>9, ScheduleWakes DEF Wakes
<1>11. \A t \in Threads \ {Idle, q.cur} : Moved(q, p, t)
  BY <1>2, <1>5, <1>6, StatusSetMoves
<1>12. QED
  BY <1>7, <1>8, <1>10, <1>11 DEF Rescheduled

\* A process sleeps for any number of ticks, none included.
LEMMA SleepConsistent ==
    ASSUME NEW q, q \in Queues, QueuesConsistent(q), q.cur # Idle,
           NEW ms \in Nat, NEW p \in syscall_sleep(q, ms)
    PROVE  Rescheduled(q, p) /\ Wakes(q, p, 0)
<1> DEFINE b == [q EXCEPT !.status[q.cur] = "DELAYED", !.left[q.cur] = ms]
<1>1. /\ b.cur = q.cur /\ b.ready = q.ready
      /\ b.blocked = q.blocked /\ b.delayed = q.delayed
      /\ b.status = [q.status EXCEPT ![q.cur] = "DELAYED"]
      /\ b.left = [q.left EXCEPT ![q.cur] = ms]
  BY DEF Queues
<1>2. b \in Queues
  <2>1. b.status \in [Threads -> Status] /\ b.left \in [Threads -> Int]
    BY <1>1 DEF Queues, Status
  <2>2. QED
    BY <1>1, <2>1 DEF Queues
<1>3. p \in schedule(b)
  BY DEF syscall_sleep
<1> HIDE DEF b
<1>4. Leaving(b)
  BY <1>1, <1>2, StatusSetLeaving DEF Status
<1>5. /\ p \in Queues /\ QueuesConsistent(p)
      /\ \A t \in p.delayed : p.left[t] >= 1
      /\ \A t \in Threads \ {Idle} : b.status[t] \in OnBlockList => p.status[t] = b.status[t]
  BY <1>3, <1>4, ScheduleConsistent
<1>6. \A t \in Threads \ {Idle} : q.status[t] = "BLOCKED" => p.status[t] = "BLOCKED"
  BY <1>1, <1>5, StatusSetKeepsBlocked
<1>7. \A t \in q.delayed : b.left[t] = q.left[t]
  <2>1. \A t \in q.delayed : t \in Threads /\ t # q.cur
    BY RunningNotQueued DEF Queues
  <2>2. q.left \in [Threads -> Int]
    BY DEF Queues
  <2>3. QED
    BY <1>1, <2>1, <2>2
<1>8. ASSUME NEW t \in q.delayed
      PROVE  p.status[t] = "DELAYED" <=> q.left[t] > 0
  <2>1. t \in b.delayed /\ b.left[t] = q.left[t]
    BY <1>1, <1>7
  <2>2. p.status[t] = "DELAYED" <=> b.left[t] > 0
    BY <1>3, <1>4, <2>1, ScheduleWakes
  <2>3. QED
    BY <2>1, <2>2
<1>9. \A t \in Threads \ {Idle, q.cur} : Moved(q, p, t)
  BY <1>1, <1>3, <1>4, StatusSetMoves
<1>10. QED
  BY <1>5, <1>6, <1>8, <1>9 DEF Rescheduled, Wakes

\* A timer interrupt: the running thread loses the processor or one tick.
LEMMA TimerConsistent ==
    ASSUME NEW q, q \in Queues, QueuesConsistent(q), NEW p \in timer_interrupt(q)
    PROVE  \/ Rescheduled(q, p) /\ Wakes(q, p, 1)
           \/ /\ p \in Queues /\ QueuesConsistent(p)
              /\ p.cur = q.cur /\ p.status = q.status /\ p.delayed = q.delayed
              /\ p.ticks[q.cur] = q.ticks[q.cur] - 1
              /\ \A t \in q.delayed : p.left[t] = q.left[t] - 1
<1> DEFINE b == [q EXCEPT !.left = [t \in Threads |->
                              IF t \in q.delayed THEN @[t] - 1 ELSE @[t]]]
<1>1. /\ b.cur = q.cur /\ b.ready = q.ready /\ b.status = q.status
      /\ b.blocked = q.blocked /\ b.delayed = q.delayed /\ b.ticks = q.ticks
      /\ b.left = [t \in Threads |-> IF t \in q.delayed THEN q.left[t] - 1 ELSE q.left[t]]
  BY DEF Queues
<1>2. b \in Queues
  <2>1. b.left \in [Threads -> Int]
    BY <1>1 DEF Queues
  <2>2. QED
    BY <1>1, <2>1 DEF Queues
<1>3. CASE q.ticks[q.cur] = 0
  <2>1. p \in schedule(b)
    BY <1>3 DEF timer_interrupt
  <2> HIDE DEF b
  <2>2. Leaving(b)
    BY <1>1, <1>2, RunningNotQueued DEF Leaving, Placed, InReady, QueuesConsistent
  <2>3. /\ p \in Queues /\ QueuesConsistent(p)
        /\ \A t \in p.delayed : p.left[t] >= 1
        /\ \A t \in Threads \ {Idle} : b.status[t] \in OnBlockList => p.status[t] = b.status[t]
    BY <2>1, <2>2, ScheduleConsistent
  <2>4. \A t \in q.delayed : b.left[t] = q.left[t] - 1 /\ q.left[t] \in Int
    BY <1>1 DEF Queues
  <2>5. ASSUME NEW t \in q.delayed
        PROVE  p.status[t] = "DELAYED" <=> q.left[t] > 1
    BY <1>1, <2>1, <2>2, <2>4, ScheduleWakes
  <2>6. \A t \in Threads \ {Idle} : Moved(q, p, t)
    BY <1>1, <2>1, <2>2, ScheduleMoves DEF Moved
  <2>7. QED
    BY <1>1, <2>3, <2>5, <2>6 DEF Rescheduled, Wakes, OnBlockList
<1>4. CASE q.ticks[q.cur] # 0
  <2>1. p = [b EXCEPT !.ticks[q.cur] = @ - 1]
    BY <1>4 DEF timer_interrupt
  <2> HIDE DEF b
  <2>2. /\ p.cur = q.cur /\ p.ready = q.ready /\ p.status = q.status
        /\ p.blocked = q.blocked /\ p.delayed = q.delayed /\ p.left = b.left
        /\ p.ticks = [q.ticks EXCEPT ![q.cur] = @ - 1]
    BY <1>1, <1>2, <2>1 DEF Queues
  <2>3. p.ticks \in [Threads -> 0 .. Slice]
    BY <1>4, <2>2, ThreadsAssumption DEF Queues
  <2>4. p \in Queues
    BY <1>2, <2>1, <2>2, <2>3 DEF Queues
  <2>5. QueuesConsistent(p)
    BY <2>2 DEF QueuesConsistent, InReady
  <2>6. /\ p.ticks[q.cur] = q.ticks[q.cur] - 1
        /\ \A t \in q.delayed : p.left[t] = q.left[t] - 1
    BY <1>1, <2>2 DEF Queues
  <2>7. QED
    BY <2>2, <2>4, <2>5, <2>6
<1>5. QED
  BY <1>3, <1>4

\* Unblocking a thread that is asleep disturbs nobody else.
LEMMA UnBlockConsistent ==
    ASSUME NEW q, q \in Queues, QueuesConsistent(q),
           NEW t \in Threads, q.status[t] \in OnBlockList
    PROVE  LET p == ThreadUnBlock(q, t) IN
           /\ p \in Queues /\ QueuesConsistent(p)
           /\ p.cur = q.cur /\ p.delayed = q.delayed
           /\ p.left = q.left /\ p.ticks = q.ticks
           /\ \A u \in Threads \ {t} : p.status[u] = q.status[u]
<1> USE DEF Queues, Status, OnBlockList
<1> DEFINE p == ThreadUnBlock(q, t)
<1>1. /\ InReady(q) = Elements(q.ready) /\ t \notin Elements(q.ready)
      /\ t # q.cur /\ OnceEach(q.ready)
  BY DEF QueuesConsistent, InReady, Elements, OnceEach
<1>2. /\ p.ready = <<t>> \o q.ready
      /\ p.cur = q.cur /\ p.delayed = q.delayed
      /\ p.left = q.left /\ p.ticks = q.ticks
      /\ p.blocked = q.blocked \ {t}
      /\ p.status = [q.status EXCEPT ![t] = "READY"]
  BY DEF ThreadUnBlock
<1>3. /\ p.ready \in Seq(Threads)
      /\ Elements(p.ready) = Elements(q.ready) \cup {t}
      /\ OnceEach(p.ready)
  BY <1>1, <1>2, PushElements
<1>4. p \in Queues
  BY <1>2, <1>3 DEF ThreadUnBlock
<1> HIDE DEF p
<1>5. InReady(p) = InReady(q) \cup {t}
  BY <1>1, <1>3 DEF InReady, Elements
<1>6. ASSUME NEW u \in Threads
      PROVE  /\ u \in InReady(p) <=> p.status[u] = "READY"
             /\ u \in p.blocked <=> p.status[u] \in OnBlockList
             /\ u \in p.delayed <=> p.status[u] = "DELAYED"
             /\ p.status[u] = "RUNNING" => u = p.cur
  BY <1>1, <1>2, <1>5 DEF QueuesConsistent
<1>7. \A i, j \in 1 .. Len(p.ready) : i # j => p.ready[i] # p.ready[j]
  BY <1>3 DEF OnceEach
<1>8. p.status[p.cur] = "RUNNING" /\ p.status[Idle] \in {"RUNNING", "READY", "BLOCKED"}
  BY <1>1, <1>2, ThreadsAssumption DEF QueuesConsistent
<1>9. QueuesConsistent(p)
  BY <1>6, <1>7, <1>8 DEF QueuesConsistent
<1>10. \A u \in Threads \ {t} : p.status[u] = q.status[u]
  BY <1>2
<1>11. QED
  BY <1>2, <1>4, <1>9, <1>10 DEF p

\* The running thread blocks while another thread is ready: it sleeps in the
\* state it set, and the others change places among running and ready only.
LEMMA ThreadBlockMoves ==
    ASSUME NEW q, q \in Queues, QueuesConsistent(q), q.cur # Idle,
           NEW st \in OnBlockList, NEW p \in ThreadBlock(q, st),
           NEW r \in Threads, q.status[r] = "READY"
    PROVE  /\ p \in Queues /\ QueuesConsistent(p)
           /\ p.status[q.cur] = st
           /\ \A t \in Threads \ {q.cur} : Moved(q, p, t)
<1> DEFINE b == [q EXCEPT !.status[q.cur] = st]
<1>1. /\ b \in Queues
      /\ b.cur = q.cur /\ b.ready = q.ready
      /\ b.blocked = q.blocked /\ b.delayed = q.delayed
      /\ b.status = [q.status EXCEPT ![q.cur] = st]
  BY DEF Queues, Status, OnBlockList
<1>2. st \in Status \ {"READY"}
  BY DEF Status, OnBlockList
<1>3. p \in schedule(b)
  BY DEF ThreadBlock
<1> HIDE DEF b
<1>4. Leaving(b)
  BY <1>1, <1>2, StatusSetLeaving
<1>5. b.status[r] = "READY" /\ r # q.cur
  BY <1>1 DEF Queues, QueuesConsistent
<1>6. \A t \in Threads : Moved(b, p, t)
  BY <1>3, <1>4, <1>5, ScheduleMoves
<1>7. \A t \in Threads \ {q.cur} : b.status[t] = q.status[t]
  BY <1>1 DEF Queues
<1>8. \A t \in Threads \ {q.cur} : Moved(q, p, t)
  BY <1>6, <1>7 DEF Moved
<1>9. QED
  BY <1>8, ThreadBlockConsistent DEF Rescheduled

\* A timer interrupt moves threads among running, ready and expired only, and
\* does not wake the idle task.
LEMMA TimerMoves ==
    ASSUME NEW q, q \in Queues, QueuesConsistent(q), NEW p \in timer_interrupt(q)
    PROVE  \A t \in Threads : Moved(q, p, t)
<1> DEFINE b == [q EXCEPT !.left = [t \in Threads |->
                              IF t \in q.delayed THEN @[t] - 1 ELSE @[t]]]
<1>1. /\ b \in Queues
      /\ b.cur = q.cur /\ b.ready = q.ready /\ b.status = q.status
      /\ b.blocked = q.blocked /\ b.delayed = q.delayed
  <2>1. b.left = [t \in Threads |-> IF t \in q.delayed THEN q.left[t] - 1 ELSE q.left[t]]
    BY DEF Queues
  <2>2. b.left \in [Threads -> Int]
    BY <2>1 DEF Queues
  <2>3. QED
    BY <2>2 DEF Queues
<1>2. CASE q.ticks[q.cur] = 0
  <2>1. p \in schedule(b)
    BY <1>2 DEF timer_interrupt
  <2> HIDE DEF b
  <2>2. Leaving(b) /\ b.status[q.cur] = "RUNNING" /\ q.cur \in Threads
    BY <1>1, RunningNotQueued DEF Leaving, Placed, InReady, QueuesConsistent
  <2>3. \A t \in Threads : Moved(b, p, t)
    BY <2>1, <2>2, ScheduleMoves
  <2>4. QED
    BY <1>1, <2>3 DEF Moved
<1>3. CASE q.ticks[q.cur] # 0
  <2>1. p = [b EXCEPT !.ticks[q.cur] = @ - 1]
    BY <1>3 DEF timer_interrupt
  <2> HIDE DEF b
  <2>2. p.status = q.status
    BY <1>1, <2>1 DEF Queues
  <2>3. QED
    BY <2>2 DEF Moved
<1>4. QED
  BY <1>2, <1>3

\* A thread that was in no queue is made ready.
LEMMA NewThreadConsistent ==
    ASSUME NEW q, q \in Queues, QueuesConsistent(q),
           NEW t \in Threads, q.status[t] = "DIED"
    PROVE  LET p == ExchangeThreadToReady(q, t) IN
           /\ p \in Queues /\ QueuesConsistent(p)
           /\ p.cur = q.cur
           /\ p.status = [q.status EXCEPT ![t] = "READY"]
<1> USE DEF Queues, Status, OnBlockList
<1> DEFINE p == ExchangeThreadToReady(q, t)
<1>1. /\ InReady(q) = Elements(q.ready) /\ t \notin Elements(q.ready)
      /\ t # q.cur /\ t # Idle /\ OnceEach(q.ready)
  BY DEF QueuesConsistent, InReady, Elements, OnceEach
<1>2. /\ p.ready = Append(q.ready, t)
      /\ p.cur = q.cur /\ p.blocked = q.blocked /\ p.delayed = q.delayed
      /\ p.status = [q.status EXCEPT ![t] = "READY"]
      /\ p.left = q.left
      /\ p.ticks = [q.ticks EXCEPT ![t] = Slice]
  BY DEF ExchangeThreadToReady
<1>3. /\ p.ready \in Seq(Threads)
      /\ Elements(p.ready) = Elements(q.ready) \cup {t}
      /\ OnceEach(p.ready)
  BY <1>1, <1>2, AppendElements
<1>4. p.ticks \in [Threads -> 0 .. Slice] /\ p.status \in [Threads -> Status]
  BY <1>2, ThreadsAssumption
<1>5. p \in Queues
  BY <1>2, <1>3, <1>4 DEF ExchangeThreadToReady
<1> HIDE DEF p
<1>6. InReady(p) = InReady(q) \cup {t}
  BY <1>1, <1>3 DEF InReady, Elements
<1>7. ASSUME NEW u \in Threads
      PROVE  /\ u \in InReady(p) <=> p.status[u] = "READY"
             /\ u \in p.blocked <=> p.status[u] \in OnBlockList
             /\ u \in p.delayed <=> p.status[u] = "DELAYED"
             /\ p.status[u] = "RUNNING" => u = p.cur
  BY <1>1, <1>2, <1>6 DEF QueuesConsistent
<1>8. p.status[p.cur] = "RUNNING" /\ p.status[Idle] \in {"RUNNING", "READY", "BLOCKED"}
  BY <1>1, <1>2, ThreadsAssumption DEF QueuesConsistent
<1>9. QueuesConsistent(p)
  BY <1>3, <1>7, <1>8 DEF QueuesConsistent, OnceEach
<1>10. QED
  BY <1>2, <1>5, <1>9 DEF p

\* The queues init_thread leaves.
LEMMA InitQueuesConsistent ==
    ASSUME NEW boot \in Threads \ {Idle}, NEW q \in InitQueues(boot)
    PROVE  /\ q \in Queues /\ QueuesConsistent(q)
           /\ q.cur = boot /\ q.delayed = {}
<1> DEFINE others == Threads \ {boot}
           n == Cardinality(Threads) - 1
<1>1. n \in Nat
  <2>1. IsFiniteSet(others) /\ Cardinality(others) = Cardinality(Threads) - 1
    BY ThreadsAssumption, FS_RemoveElement
  <2>2. QED
    BY <2>1, FS_CardinalityType
<1>2. PICK s \in [1 .. n -> others] :
          /\ \A i, j \in DOMAIN s : i # j => s[i] # s[j]
          /\ \A t \in others : \E i \in DOMAIN s : s[i] = t
          /\ q = [cur     |-> boot,
                  status  |-> [t \in Threads |-> IF t = boot THEN "RUNNING" ELSE "READY"],
                  ready   |-> s,
                  blocked |-> {},
                  delayed |-> {},
                  ticks   |-> [t \in Threads |-> Slice],
                  left    |-> [t \in Threads |-> 0]]
  BY DEF InitQueues
<1> HIDE DEF n
<1>3. s \in Seq(Threads) /\ Len(s) = n /\ DOMAIN s = 1 .. n
  BY <1>1, <1>2
<1>4. InReady(q) = others
  BY <1>2, <1>3 DEF InReady
<1>5. q \in Queues
  BY <1>2, <1>3, ThreadsAssumption DEF Queues, Status
<1>6. QueuesConsistent(q)
  <2>1. /\ q.cur = boot /\ q.ready = s /\ q.blocked = {} /\ q.delayed = {}
        /\ \A t \in Threads : q.status[t] = IF t = boot THEN "RUNNING" ELSE "READY"
    BY <1>2
  <2>2. \A i, j \in 1 .. Len(q.ready) : i # j => q.ready[i] # q.ready[j]
    BY <1>2, <1>3, <2>1
  <2>3. QED
    BY <1>4, <2>1, <2>2, ThreadsAssumption DEF QueuesConsistent, OnBlockList
<1>7. QED
  BY <1>2, <1>5, <1>6
=============================================================================
