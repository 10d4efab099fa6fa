---------------------------- MODULE ProcessProofs ----------------------------
(***************************************************************************)
(* The invariants of Process, for any number of processes, and the proof   *)
(* that it implements Family.  No exit is missed because a process changes *)
(* hands only while one that is awake does it: fork and wait move children *)
(* of the running process, exit hands children to init, which never waits, *)
(* and a father in wait is moved by the exit of a child and nothing else.  *)
(***************************************************************************)
EXTENDS Process, ThreadQueuesProofs

\* init is always there to run, so that the idle task stays asleep.
InitAwake ==
    /\ q.status[Idle] = "BLOCKED"
    /\ q.status[InitProc] \in {"RUNNING", "READY"}
    /\ pc[InitProc] \in {"own", "spin"}
    /\ father[InitProc] = None

\* What a process does agrees with the status it left the processor in.
PlacesAgree ==
    \A t \in Processes :
        /\ q.status[t] = "HANGING" => pc[t] = "exited"
        /\ pc[t] = "exited" => q.status[t] \in {"HANGING", "DIED"}
        /\ q.status[t] = "WAITING" => pc[t] = "wait"
        /\ t \in gone => q.status[t] = "DIED"
        /\ q.status[t] = "DIED" => father[t] = None /\ (t \in gone \/ pc[t] = "own")

\* A father has not exited: exit gives its children away, and nothing adds one
\* afterwards.
FathersStay ==
    \A c \in Processes \ {InitProc} : InUse(c) =>
        /\ father[c] \in Processes /\ father[c] # c
        /\ InUse(father[c])
        /\ pc[father[c]] # "exited"

IndInv ==
    /\ ProcessTypeOK
    /\ QueuesConsistent(q)
    /\ InitAwake
    /\ PlacesAgree
    /\ FathersStay
    /\ NoMissedExit
    /\ WaitingHasChild

-----------------------------------------------------------------------------

\* The running thread is a process that has neither exited nor died.
LEMMA RunnerAlive ==
    ASSUME IndInv
    PROVE  /\ q.cur \in Processes /\ q.cur # Idle
           /\ q.status[q.cur] = "RUNNING"
           /\ q.cur # InitProc => q.status[InitProc] = "READY"
           /\ InitProc \in Threads
BY ProcessAssumption
   DEF IndInv, ProcessTypeOK, QueuesConsistent, InitAwake, Processes, Queues

\* A thread whose place is kept: it may start or stop running.
Kept(t) ==
    /\ pc'[t] = pc[t]
    /\ \/ q'.status[t] = q.status[t]
       \/ /\ q.status[t] \notin {"HANGING", "DIED"}
          /\ q'.status[t] \in {"RUNNING", "READY"}

\* A process whose system call goes a step further, on its own family's terms.
Turned(t) ==
    /\ q.status[t] \notin {"HANGING", "DIED"} /\ q'.status[t] \notin {"HANGING", "DIED"}
    /\ pc'[t] # "exited"
    /\ q'.status[t] = "WAITING" =>
           /\ pc'[t] = "wait"
           /\ Children(t) # {}
           /\ \A c \in Children(t) : q'.status[c] # "HANGING"

\* A step that changes nobody's father.
LEMMA StatusStep ==
    ASSUME IndInv, ProcessTypeOK', QueuesConsistent(q'), InitAwake',
           UNCHANGED <<father, gone>>,
           \A t \in Processes : Kept(t) \/ Turned(t)
    PROVE  IndInv'
<1>1. \A t \in Processes : InUse(t)' <=> InUse(t)
  BY DEF Kept, Turned, InUse
<1>2. \A t \in Processes : Children(t)' = Children(t)
  BY <1>1 DEF Children
<1>3. PlacesAgree'
  BY DEF IndInv, PlacesAgree, Kept, Turned
<1>4. FathersStay'
  <2> SUFFICES ASSUME NEW c \in Processes \ {InitProc}, InUse(c)'
               PROVE  /\ father[c] \in Processes /\ father[c] # c
                      /\ InUse(father[c])'
                      /\ pc'[father[c]] # "exited"
    BY DEF FathersStay
  <2>1. /\ father[c] \in Processes /\ father[c] # c /\ InUse(father[c])
        /\ pc[father[c]] # "exited"
    BY <1>1 DEF IndInv, FathersStay
  <2>2. QED
    BY <1>1, <2>1 DEF Kept, Turned
<1>5. NoMissedExit'
  <2> SUFFICES ASSUME NEW t \in Processes, q'.status[t] = "WAITING",
                      NEW c \in Children(t)
               PROVE  q'.status[c] # "HANGING"
    BY <1>2 DEF NoMissedExit
  <2>1. c \in Processes /\ father[c] = t
    BY DEF Children
  <2>2. CASE Turned(t)
    BY <2>2 DEF Turned
  <2>3. CASE Kept(t)
    <3>1. q.status[c] # "HANGING"
      BY <2>3 DEF Kept, IndInv, NoMissedExit
    <3>2. QED
      BY <2>1, <3>1 DEF Kept, Turned
  <2>4. QED
    BY <2>2, <2>3
<1>6. WaitingHasChild'
  <2> SUFFICES ASSUME NEW t \in Processes, q'.status[t] = "WAITING"
               PROVE  Children(t) # {}
    BY <1>2 DEF WaitingHasChild
  <2>1. QED
    BY DEF Kept, Turned, IndInv, WaitingHasChild
<1>7. QED
  BY <1>3, <1>4, <1>5, <1>6 DEF IndInv

-----------------------------------------------------------------------------

\* The running process, not init, blocks in the state st.
LEMMA BlockStep ==
    ASSUME IndInv, q.cur # InitProc, NEW st \in OnBlockList,
           q' \in ThreadBlock(q, st)
    PROVE  /\ q' \in Queues /\ QueuesConsistent(q')
           /\ q'.status[Idle] = "BLOCKED"
           /\ q'.status[InitProc] \in {"RUNNING", "READY"}
           /\ q'.status[q.cur] = st
           /\ \A t \in Processes \ {q.cur} : Moved(q, q', t)
<1>1. /\ q \in Queues /\ QueuesConsistent(q)
      /\ InitProc \in Threads /\ q.status[InitProc] = "READY"
      /\ q.cur \in Processes /\ q.cur # Idle
  BY RunnerAlive DEF IndInv, ProcessTypeOK
<1>2. /\ q' \in Queues /\ QueuesConsistent(q')
      /\ q'.status[q.cur] = st
      /\ \A t \in Threads \ {q.cur} : Moved(q, q', t)
  BY <1>1, ThreadBlockMoves
<1>3. Moved(q, q', Idle) /\ Moved(q, q', InitProc)
  BY <1>1, <1>2, ThreadsAssumption
<1>4. q'.status[Idle] = "BLOCKED" /\ q'.status[InitProc] \in {"RUNNING", "READY"}
  BY <1>3 DEF Moved, IndInv, InitAwake
<1>5. QED
  BY <1>2, <1>4 DEF Processes

\* It blocks in the middle of a system call: in wait for a child, or on a device.
LEMMA BlocksStep ==
    ASSUME IndInv, q.cur # InitProc, pc[q.cur] # "exited",
           NEW st \in {"BLOCKED", "WAITING"}, NEW x \in {"wait", "await"},
           q' \in ThreadBlock(q, st), pc' = [pc EXCEPT ![q.cur] = x],
           UNCHANGED <<father, gone>>,
           st = "WAITING" => /\ x = "wait" /\ Children(q.cur) # {}
                             /\ \A c \in Children(q.cur) : q.status[c] # "HANGING"
    PROVE  IndInv'
<1>1. q.cur \in Processes /\ q.status[q.cur] = "RUNNING"
  BY RunnerAlive
<1>2. /\ q' \in Queues /\ QueuesConsistent(q')
      /\ q'.status[Idle] = "BLOCKED"
      /\ q'.status[InitProc] \in {"RUNNING", "READY"}
      /\ q'.status[q.cur] = st
      /\ \A u \in Processes \ {q.cur} : Moved(q, q', u)
  BY BlockStep DEF OnBlockList
<1>3. ProcessTypeOK' /\ InitAwake'
  BY <1>1, <1>2, ProcessAssumption DEF IndInv, ProcessTypeOK, InitAwake
<1>4. \A u \in Processes \ {q.cur} : Kept(u)
  BY <1>2 DEF IndInv, ProcessTypeOK, Kept, Moved
<1>5. Turned(q.cur)
  <2>1. pc'[q.cur] = x
    BY <1>1 DEF IndInv, ProcessTypeOK
  <2>2. ASSUME NEW c \in Children(q.cur), st = "WAITING"
        PROVE  q'.status[c] # "HANGING"
    BY <1>2, <2>2 DEF Children, Moved
  <2>3. QED
    BY <1>1, <1>2, <2>1, <2>2 DEF Turned
<1>6. QED
  BY <1>2, <1>3, <1>4, <1>5, StatusStep

\* A child that has exited is taken away: nobody waits for it or has it for
\* a father.
LEMMA ThreadExitStep ==
    ASSUME IndInv, q.cur # InitProc, pc[q.cur] \in {"own", "wait"},
           NEW c \in Children(q.cur), q.status[c] = "HANGING",
           ThreadExit(c), pc' = [pc EXCEPT ![q.cur] = "own"]
    PROVE  IndInv'
<1>1. /\ q.cur \in Processes /\ q.status[q.cur] = "RUNNING" /\ InitProc \in Threads
      /\ c \in Processes /\ father[c] = q.cur /\ c # q.cur
  BY RunnerAlive DEF Children
<1>2. /\ q' \in Queues
      /\ q'.cur = q.cur /\ q'.ready = q.ready /\ q'.delayed = q.delayed
      /\ q'.blocked = q.blocked \ {c}
      /\ q'.status = [q.status EXCEPT ![c] = "DIED"]
      /\ father' = [father EXCEPT ![c] = None]
      /\ gone' = gone \cup {c}
  BY <1>1 DEF IndInv, ProcessTypeOK, ThreadExit, Queues, Status
<1>3. QueuesConsistent(q')
  <2>1. InReady(q') = InReady(q) /\ q'.status[q.cur] = "RUNNING"
    BY <1>1, <1>2 DEF IndInv, ProcessTypeOK, Queues, InReady
  <2>2. ASSUME NEW t \in Threads
        PROVE  /\ q'.status[t] = "RUNNING" => t = q'.cur
               /\ t \in InReady(q') <=> q'.status[t] = "READY"
               /\ t \in q'.blocked <=> q'.status[t] \in OnBlockList
               /\ t \in q'.delayed <=> q'.status[t] = "DELAYED"
    <3>1. /\ q.status[t] = "RUNNING" => t = q.cur
          /\ t \in InReady(q) <=> q.status[t] = "READY"
          /\ t \in q.blocked <=> q.status[t] \in OnBlockList
          /\ t \in q.delayed <=> q.status[t] = "DELAYED"
      BY DEF IndInv, QueuesConsistent
    <3>2. q'.status[t] = IF t = c THEN "DIED" ELSE q.status[t]
      BY <1>2 DEF IndInv, ProcessTypeOK, Queues
    <3>3. QED
      BY <1>2, <2>1, <3>1, <3>2 DEF OnBlockList
  <2>3. q'.status[Idle] = q.status[Idle]
    BY <1>1, <1>2 DEF IndInv, ProcessTypeOK, Queues, Processes
  <2>4. QED
    BY <1>2, <2>1, <2>2, <2>3 DEF IndInv, QueuesConsistent
<1>4. ProcessTypeOK' /\ InitAwake'
  <2>1. ProcessTypeOK'
    BY <1>1, <1>2, ProcessAssumption DEF IndInv, ProcessTypeOK, Processes
  <2>2. Idle # c /\ InitProc # c /\ InitProc # q.cur /\ InitProc \in Processes
    BY <1>1, ProcessAssumption DEF Processes, IndInv, InitAwake
  <2>3. q'.status[Idle] = q.status[Idle] /\ q'.status[InitProc] = q.status[InitProc]
    BY <1>1, <1>2, <2>2, ThreadsAssumption DEF IndInv, ProcessTypeOK, Queues
  <2>4. pc'[InitProc] = pc[InitProc] /\ father'[InitProc] = father[InitProc]
    BY <1>1, <1>2, <2>2 DEF IndInv, ProcessTypeOK
  <2>5. QED
    BY <2>1, <2>3, <2>4 DEF IndInv, InitAwake
<1>5. \A t \in Processes : t # c => /\ q'.status[t] = q.status[t]
                                    /\ father'[t] = father[t]
                                    /\ InUse(t)' <=> InUse(t)
  BY <1>1, <1>2 DEF IndInv, ProcessTypeOK, Queues, InUse, Processes
<1>6. q'.status[c] = "DIED" /\ father'[c] = None /\ ~ InUse(c)'
  BY <1>1, <1>2 DEF IndInv, ProcessTypeOK, Queues, InUse, Processes
<1>7. \A t \in Processes : Children(t)' = Children(t) \ {c}
  BY <1>5, <1>6 DEF Children
<1>8. \A t \in Processes : t # q.cur => pc'[t] = pc[t] /\ Children(t)' = Children(t)
  BY <1>1, <1>7 DEF IndInv, ProcessTypeOK, Children
<1>9. pc'[q.cur] = "own"
  BY <1>1 DEF IndInv, ProcessTypeOK
<1>10. PlacesAgree'
  BY <1>1, <1>2, <1>5, <1>6, <1>8, <1>9 DEF IndInv, PlacesAgree
<1>11. FathersStay'
  <2> SUFFICES ASSUME NEW d \in Processes \ {InitProc}, InUse(d)'
               PROVE  /\ father'[d] \in Processes /\ father'[d] # d
                      /\ InUse(father[d])'
                      /\ pc'[father'[d]] # "exited"
    BY DEF FathersStay
  <2>1. /\ d # c /\ father'[d] = father[d] /\ father[d] \in Processes
        /\ father[d] # d /\ InUse(father[d]) /\ pc[father[d]] # "exited"
    BY <1>5, <1>6 DEF IndInv, FathersStay
  <2>2. father[d] # c
    BY <1>1, <2>1 DEF IndInv, PlacesAgree
  <2>3. QED
    BY <1>5, <1>8, <1>9, <2>1, <2>2
<1>12. NoMissedExit' /\ WaitingHasChild'
  <2>1. ASSUME NEW t \in Processes, q'.status[t] = "WAITING"
        PROVE  t # q.cur /\ q.status[t] = "WAITING" /\ Children(t)' = Children(t)
    BY <1>1, <1>5, <1>6, <1>8, <2>1
  <2>2. ASSUME NEW t \in Processes, q'.status[t] = "WAITING", NEW d \in Children(t)
        PROVE  q'.status[d] # "HANGING"
    BY <1>5, <1>6, <2>1, <2>2 DEF IndInv, NoMissedExit, Children
  <2>3. QED
    BY <2>1, <2>2 DEF IndInv, NoMissedExit, WaitingHasChild
<1>13. QED
  BY <1>3, <1>4, <1>10, <1>11, <1>12 DEF IndInv

\* A turn of the loop of syscall_wait.
LEMMA WaitTurnStep ==
    ASSUME IndInv, q.cur # InitProc, pc[q.cur] \in {"own", "wait"}, WaitTurn(q.cur)
    PROVE  IndInv'
<1>1. CASE \E c \in Children(q.cur) : q.status[c] = "HANGING"
  BY <1>1, ThreadExitStep DEF WaitTurn
<1>2. CASE Children(q.cur) = {}
  <2>1. /\ UNCHANGED <<q, father, gone>>
        /\ pc' = [pc EXCEPT ![q.cur] = "own"]
    BY <1>2 DEF WaitTurn
  <2>2. q.cur \in Processes /\ q.status[q.cur] = "RUNNING"
    BY RunnerAlive
  <2>3. ProcessTypeOK' /\ QueuesConsistent(q') /\ InitAwake'
    BY <2>1, <2>2 DEF IndInv, ProcessTypeOK, InitAwake
  <2>4. Turned(q.cur) /\ \A t \in Processes \ {q.cur} : Kept(t)
    BY <2>1, <2>2 DEF IndInv, ProcessTypeOK, Turned, Kept
  <2>5. QED
    BY <2>1, <2>3, <2>4, StatusStep
<1>3. CASE Children(q.cur) # {} /\ \A c \in Children(q.cur) : q.status[c] # "HANGING"
  BY <1>3, BlocksStep DEF WaitTurn
<1>4. QED
  BY <1>1, <1>2, <1>3

\* fork: the child was in no family and joins the running process's.
LEMMA ForkStep ==
    ASSUME IndInv, NEW t \in Processes, NEW c \in Processes, syscall_fork(t, c)
    PROVE  IndInv'
<1>1. /\ t = q.cur /\ pc[t] = "own" /\ q.status[t] = "RUNNING"
      /\ q.status[c] = "DIED" /\ c \notin gone /\ c # t /\ c # InitProc
      /\ c \in Threads /\ c # Idle /\ t \in Threads /\ InitProc \in Threads
  BY RunnerAlive DEF syscall_fork, At, InUse, IndInv, InitAwake, Processes
<1>2. /\ q' \in Queues /\ QueuesConsistent(q')
      /\ q'.status = [q.status EXCEPT ![c] = "READY"]
      /\ father' = [father EXCEPT ![c] = t]
      /\ gone' = gone
  BY <1>1, NewThreadConsistent DEF syscall_fork, IndInv, ProcessTypeOK
<1>3. \A u \in Threads : q'.status[u] = IF u = c THEN "READY" ELSE q.status[u]
  BY <1>2 DEF IndInv, ProcessTypeOK, Queues
<1>4. \A u \in Processes : u # c => father'[u] = father[u]
  BY <1>2 DEF IndInv, ProcessTypeOK, Processes
<1>5. father'[c] = t
  BY <1>1, <1>2 DEF IndInv, ProcessTypeOK
<1>6. /\ pc' \in [Processes -> {"own", "spin", "await", "exited", "wait"}]
      /\ \A u \in Processes : u # t => pc'[u] = pc[u]
      /\ pc'[t] \in {"own", "spin"}
  BY <1>1 DEF syscall_fork, IndInv, ProcessTypeOK
<1>7. ProcessTypeOK' /\ InitAwake'
  <2>1. father' \in [Threads -> Processes \cup {None}]
    BY <1>2 DEF IndInv, ProcessTypeOK
  <2>2. pc'[InitProc] \in {"own", "spin"} /\ father'[InitProc] = None
    BY <1>1, <1>4, <1>6, ProcessAssumption DEF IndInv, InitAwake
  <2>3. QED
    BY <1>1, <1>2, <1>3, <1>6, <2>1, <2>2, ThreadsAssumption
       DEF IndInv, ProcessTypeOK, InitAwake
<1>8. PlacesAgree'
  <2> SUFFICES ASSUME NEW u \in Processes
               PROVE  /\ q'.status[u] = "HANGING" => pc'[u] = "exited"
                      /\ pc'[u] = "exited" => q'.status[u] \in {"HANGING", "DIED"}
                      /\ q'.status[u] = "WAITING" => pc'[u] = "wait"
                      /\ u \in gone' => q'.status[u] = "DIED"
                      /\ q'.status[u] = "DIED" =>
                             father'[u] = None /\ (u \in gone' \/ pc'[u] = "own")
    BY DEF PlacesAgree
  <2>1. CASE u = t
    BY <1>1, <1>2, <1>3, <1>6, <2>1 DEF IndInv, PlacesAgree
  <2>2. CASE u = c
    <3>1. q'.status[u] = "READY" /\ pc'[u] = pc[u] /\ u \notin gone'
      BY <1>1, <1>2, <1>3, <1>6, <2>2
    <3>2. pc[u] # "exited"
      BY <1>1, <2>2 DEF IndInv, PlacesAgree
    <3>3. QED
      BY <3>1, <3>2
  <2>3. CASE u # t /\ u # c
    BY <1>2, <1>3, <1>4, <1>6, <2>3 DEF IndInv, PlacesAgree, Processes
  <2>4. QED
    BY <2>1, <2>2, <2>3
<1>9. FathersStay'
  <2> SUFFICES ASSUME NEW d \in Processes \ {InitProc}, InUse(d)'
               PROVE  /\ father'[d] \in Processes /\ father'[d] # d
                      /\ InUse(father[d])'
                      /\ pc'[father'[d]] # "exited"
    BY DEF FathersStay
  <2>1. CASE d = c
    BY <1>1, <1>3, <1>5, <1>6, <2>1 DEF InUse
  <2>2. CASE d # c
    <3>1. InUse(d)
      BY <1>3, <2>2 DEF InUse, Processes
    <3>2. /\ father'[d] = father[d] /\ father[d] \in Processes /\ father[d] # d
          /\ InUse(father[d]) /\ pc[father[d]] # "exited"
      BY <1>4, <2>2, <3>1 DEF IndInv, FathersStay
    <3>3. QED
      BY <1>3, <1>6, <3>2 DEF InUse, Processes
  <2>3. QED
    BY <2>1, <2>2
<1>10. ASSUME NEW u \in Processes, q'.status[u] = "WAITING"
       PROVE  q.status[u] = "WAITING" /\ u # t /\ Children(u)' = Children(u)
  <2>1. q.status[u] = "WAITING" /\ u # t /\ u # c
    BY <1>1, <1>3, <1>10 DEF Processes
  <2>2. \A d \in Processes : d # c => (InUse(d)' <=> InUse(d)) /\ father'[d] = father[d]
    BY <1>3, <1>4 DEF InUse, Processes
  <2>3. ~ InUse(c) /\ father'[c] # u
    BY <1>1, <1>5, <2>1 DEF InUse
  <2>4. QED
    BY <2>1, <2>2, <2>3 DEF Children
<1>11. NoMissedExit' /\ WaitingHasChild'
  <2>1. ASSUME NEW u \in Processes, q'.status[u] = "WAITING", NEW d \in Children(u)
        PROVE  q'.status[d] # "HANGING"
    BY <1>3, <1>10, <2>1 DEF IndInv, NoMissedExit, Children, Processes
  <2>2. QED
    BY <1>10, <2>1 DEF IndInv, NoMissedExit, WaitingHasChild
<1>12. QED
  BY <1>2, <1>7, <1>8, <1>9, <1>11 DEF IndInv

\* The children of a process that exits are init's, and init never waits; its
\* father, should it wait, is awake before the process is HANGING.
LEMMA ExitStep ==
    ASSUME IndInv, NEW t \in Processes, syscall_exit(t)
    PROVE  IndInv'
<1> DEFINE f == father[t]
           p == IF q.status[f] = "WAITING" THEN ThreadUnBlock(q, f) ELSE q
<1>1. /\ t = q.cur /\ pc[t] = "own" /\ q.status[t] = "RUNNING" /\ t # InitProc
      /\ q.status[InitProc] = "READY" /\ InitProc \in Threads /\ t \in Threads
      /\ t # Idle
  BY RunnerAlive DEF syscall_exit, At, Processes
<1>2. /\ q' \in ThreadBlock(p, "HANGING")
      /\ pc' = [pc EXCEPT ![t] = "exited"]
      /\ father' = [c \in Threads |-> IF c \in Children(t) THEN InitProc ELSE father[c]]
      /\ gone' = gone
  BY DEF syscall_exit, InitAdopt
<1>3. f \in Processes /\ f # t
  BY <1>1 DEF IndInv, FathersStay, InUse
<1>4. /\ p \in Queues /\ QueuesConsistent(p) /\ p.cur = t
      /\ \A u \in Threads \ {f} : p.status[u] = q.status[u]
      /\ p.status[f] = IF q.status[f] = "WAITING" THEN "READY" ELSE q.status[f]
  <2>1. CASE q.status[f] = "WAITING"
    <3>1. p = ThreadUnBlock(q, f) /\ f \in Threads
      BY <1>3, <2>1 DEF Processes
    <3> HIDE DEF p, f
    <3>2. p.status[f] = "READY"
      BY <3>1 DEF ThreadUnBlock, IndInv, ProcessTypeOK, Queues
    <3>3. QED
      BY <1>1, <2>1, <3>1, <3>2, UnBlockConsistent DEF IndInv, ProcessTypeOK, OnBlockList
  <2>2. CASE q.status[f] # "WAITING"
    BY <1>1, <2>2 DEF IndInv, ProcessTypeOK
  <2>3. QED
    BY <2>1, <2>2
<1> HIDE DEF p
<1>5. p.status[InitProc] = "READY" /\ p.status[Idle] = "BLOCKED"
  BY <1>1, <1>3, <1>4, ThreadsAssumption DEF Processes, IndInv, InitAwake
<1>6. /\ q' \in Queues /\ QueuesConsistent(q')
      /\ q'.status[t] = "HANGING"
      /\ \A u \in Threads \ {t} : Moved(p, q', u)
  BY <1>1, <1>2, <1>4, <1>5, ThreadBlockMoves DEF OnBlockList
<1>7. q'.status[InitProc] \in {"RUNNING", "READY"} /\ q'.status[Idle] = "BLOCKED"
  BY <1>1, <1>5, <1>6, ThreadsAssumption DEF Moved
<1>8. \A u \in Processes : pc'[u] = IF u = t THEN "exited" ELSE pc[u]
  BY <1>2 DEF IndInv, ProcessTypeOK
<1>9. \A c \in Processes : father'[c] = IF c \in Children(t) THEN InitProc ELSE father[c]
  BY <1>2 DEF Processes
<1>10. ASSUME NEW u \in Processes \ {t}
       PROVE  Kept(u)
  <2>1. pc'[u] = pc[u] /\ Moved(p, q', u)
    BY <1>6, <1>8 DEF Processes
  <2>2. p.status[u] = q.status[u] \/ (q.status[u] = "WAITING" /\ p.status[u] = "READY")
    BY <1>4 DEF Processes
  <2>3. QED
    BY <2>1, <2>2 DEF Kept, Moved
<1>11. \A u \in Processes : InUse(u)' <=> InUse(u)
  BY <1>1, <1>6, <1>10 DEF InUse, Kept
<1>12. InitProc \notin Children(t) /\ t \notin Children(t) /\ InitProc \in Processes /\ t # None
  BY <1>3, ProcessAssumption DEF Children, IndInv, InitAwake, Processes
<1>13. ProcessTypeOK' /\ InitAwake'
  <2>1. father' \in [Threads -> Processes \cup {None}]
    BY <1>2, <1>12 DEF IndInv, ProcessTypeOK
  <2>2. ProcessTypeOK'
    BY <1>2, <1>6, <2>1 DEF IndInv, ProcessTypeOK
  <2>3. pc'[InitProc] = pc[InitProc] /\ father'[InitProc] = father[InitProc]
    BY <1>1, <1>8, <1>9, <1>12
  <2>4. QED
    BY <1>7, <2>2, <2>3 DEF IndInv, InitAwake
<1>14. PlacesAgree'
  <2> SUFFICES ASSUME NEW u \in Processes
               PROVE  /\ q'.status[u] = "HANGING" => pc'[u] = "exited"
                      /\ pc'[u] = "exited" => q'.status[u] \in {"HANGING", "DIED"}
                      /\ q'.status[u] = "WAITING" => pc'[u] = "wait"
                      /\ u \in gone' => q'.status[u] = "DIED"
                      /\ q'.status[u] = "DIED" =>
                             father'[u] = None /\ (u \in gone' \/ pc'[u] = "own")
    BY DEF PlacesAgree
  <2>1. CASE u = t
    BY <1>1, <1>2, <1>6, <1>8, <2>1 DEF IndInv, PlacesAgree
  <2>2. CASE u # t
    <3>1. Kept(u) /\ (q.status[u] = "DIED" => father'[u] = father[u])
      BY <1>9, <1>10, <2>2 DEF Children, InUse
    <3>2. QED
      BY <1>2, <3>1 DEF IndInv, PlacesAgree, Kept
  <2>3. QED
    BY <2>1, <2>2
<1>15. FathersStay'
  <2> SUFFICES ASSUME NEW d \in Processes \ {InitProc}, InUse(d)'
               PROVE  /\ father'[d] \in Processes /\ father'[d] # d
                      /\ InUse(father[d])'
                      /\ pc'[father'[d]] # "exited"
    BY DEF FathersStay
  <2>1. InUse(d)
    BY <1>11
  <2>2. CASE d \in Children(t)
    <3>1. father'[d] = InitProc /\ pc[InitProc] \in {"own", "spin"}
      BY <1>9, <2>2 DEF IndInv, InitAwake
    <3>2. InUse(InitProc)
      BY DEF IndInv, InitAwake, InUse
    <3>3. QED
      BY <1>1, <1>8, <1>11, <1>12, <3>1, <3>2 DEF InUse
  <2>3. CASE d \notin Children(t)
    <3>1. father'[d] = father[d] /\ father[d] # t
      BY <1>9, <2>1, <2>3 DEF Children
    <3>2. /\ father[d] \in Processes /\ father[d] # d
          /\ InUse(father[d]) /\ pc[father[d]] # "exited"
      BY <2>1 DEF IndInv, FathersStay
    <3>3. QED
      BY <1>8, <1>11, <3>1, <3>2 DEF InUse
  <2>4. QED
    BY <2>2, <2>3
<1>16. ASSUME NEW u \in Processes, q'.status[u] = "WAITING"
       PROVE  u # t /\ u # f /\ q.status[u] = "WAITING" /\ Children(u)' = Children(u)
  <2>1. u # t /\ q.status[u] = "WAITING"
    BY <1>6, <1>10, <1>16 DEF Kept
  <2>2. u # InitProc
    BY <2>1 DEF IndInv, InitAwake
  <2>3. Moved(p, q', u)
    BY <1>6, <2>1 DEF Processes
  <2>4. u # f
    BY <1>4, <1>16, <2>3 DEF Moved
  <2>5. QED
    BY <1>9, <1>11, <2>1, <2>2, <2>4 DEF Children
<1>17. NoMissedExit' /\ WaitingHasChild'
  <2>1. ASSUME NEW u \in Processes, q'.status[u] = "WAITING", NEW c \in Children(u)
        PROVE  q'.status[c] # "HANGING"
    <3>1. c \in Processes \ {t}
      BY <1>16, <2>1 DEF Children
    <3>2. q.status[c] # "HANGING"
      BY <1>16, <2>1 DEF IndInv, NoMissedExit
    <3>3. QED
      BY <1>10, <3>1, <3>2 DEF Kept
  <2>2. QED
    BY <1>16, <2>1 DEF IndInv, NoMissedExit, WaitingHasChild
<1>18. QED
  BY <1>6, <1>13, <1>14, <1>15, <1>17 DEF IndInv

\* A system call that waited for a device goes on.
LEMMA AwaitReturnStep ==
    ASSUME IndInv, NEW t \in Processes, AwaitReturn(t)
    PROVE  IndInv'
<1>1. /\ t = q.cur /\ pc[t] = "await" /\ q.status[t] = "RUNNING" /\ t # InitProc
      /\ pc' = [pc EXCEPT ![t] = "own"] /\ UNCHANGED <<q, father, gone>>
  BY RunnerAlive DEF AwaitReturn, At, IndInv, InitAwake
<1>2. \A u \in Processes : pc'[u] = IF u = t THEN "own" ELSE pc[u]
  BY <1>1 DEF IndInv, ProcessTypeOK
<1>3. ProcessTypeOK' /\ QueuesConsistent(q') /\ InitAwake'
  BY <1>1, <1>2, ProcessAssumption DEF IndInv, ProcessTypeOK, InitAwake
<1>4. Turned(t) /\ \A u \in Processes \ {t} : Kept(u)
  BY <1>1, <1>2 DEF Turned, Kept
<1>5. QED
  BY <1>1, <1>3, <1>4, StatusStep

\* A timer interrupt moves processes among running and ready.
LEMMA TimerStep ==
    ASSUME IndInv, Timer
    PROVE  IndInv'
<1>1. /\ q \in Queues /\ QueuesConsistent(q)
      /\ q' \in timer_interrupt(q) /\ UNCHANGED <<father, pc, gone>>
      /\ InitProc \in Threads
  BY RunnerAlive DEF Timer, IndInv, ProcessTypeOK
<1>2. q' \in Queues /\ QueuesConsistent(q')
  BY <1>1, TimerConsistent DEF Rescheduled
<1>3. \A u \in Threads : Moved(q, q', u)
  BY <1>1, TimerMoves
<1>4. ProcessTypeOK' /\ InitAwake'
  BY <1>1, <1>2, <1>3, ThreadsAssumption DEF IndInv, ProcessTypeOK, InitAwake, Moved
<1>5. \A u \in Processes : Kept(u)
  BY <1>1, <1>3 DEF Kept, Moved, Processes
<1>6. QED
  BY <1>1, <1>2, <1>4, <1>5, StatusStep

\* A device unblocks the process that waits for it.
LEMMA DeviceInterruptStep ==
    ASSUME IndInv, NEW t \in Processes, DeviceInterrupt(t)
    PROVE  IndInv'
<1>1. /\ q \in Queues /\ QueuesConsistent(q)
      /\ q.status[t] = "BLOCKED" /\ t \in Threads /\ t # Idle /\ t # InitProc
      /\ q' = ThreadUnBlock(q, t) /\ UNCHANGED <<father, pc, gone>>
      /\ InitProc \in Threads
  BY RunnerAlive DEF DeviceInterrupt, IndInv, ProcessTypeOK, InitAwake, Processes
<1>2. /\ q' \in Queues /\ QueuesConsistent(q')
      /\ \A u \in Threads \ {t} : q'.status[u] = q.status[u]
  BY <1>1, UnBlockConsistent DEF OnBlockList
<1>3. q'.status[t] = "READY"
  BY <1>1 DEF ThreadUnBlock, Queues
<1>4. ProcessTypeOK' /\ InitAwake'
  BY <1>1, <1>2, ThreadsAssumption DEF IndInv, ProcessTypeOK, InitAwake
<1>5. \A u \in Processes : Kept(u)
  BY <1>1, <1>2, <1>3 DEF Kept, Processes
<1>6. QED
  BY <1>1, <1>2, <1>4, <1>5, StatusStep

LEMMA NextIndInv == IndInv /\ [Next]_vars => IndInv'
<1> SUFFICES ASSUME IndInv, [Next]_vars PROVE IndInv'
  OBVIOUS
<1>1. ASSUME NEW t \in Processes, UserStep(t)
      PROVE  IndInv'
  <2>1. CASE \E c \in Processes : syscall_fork(t, c)
    BY <2>1, ForkStep
  <2>2. CASE syscall_wait(t)
    BY <2>2, WaitTurnStep DEF syscall_wait, At
  <2>3. CASE syscall_exit(t)
    BY <2>3, ExitStep
  <2>4. CASE Await(t)
    <3>1. /\ q.cur = t /\ t # InitProc /\ pc[t] = "own"
          /\ q' \in ThreadBlock(q, "BLOCKED")
          /\ pc' = [pc EXCEPT ![t] = "await"] /\ UNCHANGED <<father, gone>>
      BY <2>4 DEF Await, At
    <3>2. QED
      BY <3>1, BlocksStep
  <2>5. QED
    BY <1>1, <2>1, <2>2, <2>3, <2>4 DEF UserStep
<1>2. ASSUME NEW t \in Processes, InSystemCall(t)
      PROVE  IndInv'
  <2>1. CASE WaitAgain(t)
    BY <2>1, WaitTurnStep DEF WaitAgain, At, IndInv, InitAwake
  <2>2. CASE AwaitReturn(t)
    BY <2>2, AwaitReturnStep
  <2>3. QED
    BY <1>2, <2>1, <2>2 DEF InSystemCall
<1>3. CASE UNCHANGED vars
  BY <1>3 DEF vars, IndInv, ProcessTypeOK, InitAwake, PlacesAgree, FathersStay,
              NoMissedExit, WaitingHasChild, Children, InUse
<1>4. QED
  BY <1>1, <1>2, <1>3, DeviceInterruptStep, TimerStep DEF Next

LEMMA InitIndInv == Init => IndInv
<1> SUFFICES ASSUME Init PROVE IndInv
  OBVIOUS
<1>1. /\ q.cur = InitProc /\ q.ready = << >> /\ q.blocked = {Idle} /\ q.delayed = {}
      /\ q.status = [t \in Threads |-> CASE t = InitProc -> "RUNNING"
                                        [] t = Idle     -> "BLOCKED"
                                        [] OTHER        -> "DIED"]
      /\ q.ticks = [t \in Threads |-> Slice] /\ q.left = [t \in Threads |-> 0]
      /\ InitProc \in Threads /\ InitProc # Idle /\ Idle \in Threads
  BY ProcessAssumption, ThreadsAssumption DEF Init, Processes
<1>2. \A t \in Threads : q.status[t] = IF t = InitProc THEN "RUNNING"
                                       ELSE IF t = Idle THEN "BLOCKED" ELSE "DIED"
  BY <1>1
<1>3. /\ father = [t \in Threads |-> None] /\ pc = [p \in Processes |-> "own"] /\ gone = {}
  BY DEF Init
<1>4. q \in Queues
  <2>1. q.status \in [Threads -> Status]
    BY <1>1, <1>2 DEF Status
  <2>2. q.ticks \in [Threads -> 0 .. Slice]
    BY <1>1, ThreadsAssumption
  <2>3. QED
    BY <1>1, <2>1, <2>2 DEF Init, Queues
<1>5. QueuesConsistent(q)
  BY <1>1, <1>2 DEF QueuesConsistent, InReady, OnBlockList
<1>6. ProcessTypeOK
  BY <1>3, <1>4 DEF ProcessTypeOK
<1>7. InitAwake /\ PlacesAgree /\ FathersStay /\ NoMissedExit /\ WaitingHasChild
  BY <1>1, <1>2, <1>3, ProcessAssumption
     DEF InitAwake, PlacesAgree, FathersStay, NoMissedExit, WaitingHasChild,
         InUse, Processes
<1>8. QED
  BY <1>5, <1>6, <1>7 DEF IndInv

-----------------------------------------------------------------------------

\* The strengthened invariant holds.
THEOREM IndInvHolds == Spec => []IndInv
BY InitIndInv, NextIndInv, PTL DEF Spec

\* The threads, fathers and pids keep their types: no PCB is made anybody's
\* child but a process in use.
THEOREM TypeCorrect == Spec => []ProcessTypeOK
<1>1. IndInv => ProcessTypeOK
  BY DEF IndInv
<1>2. QED
  BY <1>1, IndInvHolds, PTL

\* fork, wait and exit leave every thread in the one queue its status names.
THEOREM ProcessesAccountedFor == Spec => []NoProcessLost
<1>1. IndInv => NoProcessLost
  BY DEF IndInv, NoProcessLost
<1>2. QED
  BY <1>1, IndInvHolds, PTL

\* A father asleep in syscall_wait has no child that has exited already.
THEOREM ExitsAreSeen == Spec => []NoMissedExit
<1>1. IndInv => NoMissedExit
  BY DEF IndInv
<1>2. QED
  BY <1>1, IndInvHolds, PTL

\* A father asleep in syscall_wait has a child that can still wake it.
THEOREM WaitersHaveChildren == Spec => []WaitingHasChild
<1>1. IndInv => WaitingHasChild
  BY DEF IndInv
<1>2. QED
  BY <1>1, IndInvHolds, PTL

\* The ASSERT(fa) of syscall_exit holds: every process has a father, in use and
\* not HANGING.
THEOREM FathersArePresent == Spec => []FatherPresent
<1>1. IndInv => FatherPresent
  <2> SUFFICES ASSUME IndInv, NEW c \in Processes \ {InitProc}, InUse(c)
               PROVE  /\ father[c] # None
                      /\ InUse(father[c]) /\ q.status[father[c]] # "HANGING"
    BY DEF FatherPresent
  <2>1. /\ father[c] \in Processes /\ InUse(father[c]) /\ pc[father[c]] # "exited"
    BY DEF IndInv, FathersStay
  <2>2. QED
    BY <2>1, ProcessAssumption DEF IndInv, PlacesAgree, Processes
<1>2. QED
  BY <1>1, IndInvHolds, PTL

-----------------------------------------------------------------------------

\* The refinement.  The stage of a process, as Family sees it, is told by who
\* has waited for it, who its father is, and whether it is past its exit.
Stage(p) ==
    CASE p \in gone                               -> "gone"
      [] p \notin gone /\ q.status[p] = "DIED"    -> "unused"
      [] p \notin gone /\ q.status[p] = "HANGING" -> "exited"
      [] OTHER                                    -> "alive"

Stages == [p \in Processes |-> Stage(p)]
Fathers == [p \in Processes |-> father[p]]

StageOf(p) ==
    IF p \in gone THEN "gone"
    ELSE IF p # InitProc /\ father[p] = None THEN "unused"
    ELSE IF pc[p] = "exited" THEN "exited" ELSE "alive"

LEMMA StageIs == IndInv => Stages = [p \in Processes |-> StageOf(p)]
<1> SUFFICES ASSUME IndInv, NEW p \in Processes PROVE Stage(p) = StageOf(p)
  BY DEF Stages
<1>1. CASE p \in gone
  BY <1>1 DEF Stage, StageOf
<1>2. CASE p \notin gone /\ q.status[p] = "DIED"
  <2>1. p # InitProc /\ father[p] = None
    BY <1>2 DEF IndInv, PlacesAgree, InitAwake
  <2>2. QED
    BY <1>2, <2>1 DEF Stage, StageOf
<1>3. CASE p \notin gone /\ q.status[p] # "DIED"
  <2>1. p = InitProc \/ father[p] # None
    BY <1>3, ProcessAssumption DEF IndInv, FathersStay, InUse, Processes
  <2>2. q.status[p] = "HANGING" <=> pc[p] = "exited"
    BY <1>3 DEF IndInv, PlacesAgree
  <2>3. pc[p] = "exited" => p # InitProc
    BY DEF IndInv, InitAwake
  <2>4. QED
    BY <1>3, <2>1, <2>2, <2>3 DEF Stage, StageOf
<1>4. QED
  BY <1>1, <1>2, <1>3

LEMMA StageIsNext == (IndInv => Stages = [p \in Processes |-> StageOf(p)])'
BY StageIs, PTL

\* A process without the father None is alive or exited.
LEMMA ChildrenAre ==
    ASSUME IndInv, NEW p \in Processes
    PROVE  /\ Tree!Children(p) = {c \in Processes : father[c] = p}
           /\ Children(p) = {c \in Processes : father[c] = p}
<1>1. \A c \in Processes : father[c] = p => InUse(c) /\ c \notin gone
  BY ProcessAssumption DEF IndInv, PlacesAgree, InUse, Processes
<1>2. QED
  BY <1>1 DEF Tree!Children, Children, InUse

\* A step that changes nobody's father, pid or exit is none of the family's.
LEMMA SameStages ==
    ASSUME IndInv, IndInv', UNCHANGED <<father, gone>>,
           \A p \in Processes : pc'[p] = "exited" <=> pc[p] = "exited"
    PROVE  UNCHANGED Tree!familyVars
<1>1. Stages' = Stages
  <2>1. \A p \in Processes : StageOf(p)' = StageOf(p)
    BY DEF StageOf
  <2>2. QED
    BY <2>1, StageIs, StageIsNext
<1>2. QED
  BY <1>1 DEF Tree!familyVars, Stages, Stage

\* The stage and the father of one process after the step, and of the others.
LEMMA StageChanges ==
    ASSUME IndInv, IndInv', NEW c \in Processes,
           \A p \in Processes \ {c} :
              /\ p \in gone' <=> p \in gone
              /\ father'[p] = None <=> father[p] = None
              /\ pc'[p] = "exited" <=> pc[p] = "exited"
    PROVE  Stages' = [Stages EXCEPT ![c] = StageOf(c)']
<1>1. \A p \in Processes \ {c} : StageOf(p)' = StageOf(p)
  BY DEF StageOf
<1>2. QED
  BY <1>1, StageIs, StageIsNext

LEMMA ReapRefines ==
    ASSUME IndInv, IndInv', q.cur \in Processes, NEW c \in Children(q.cur),
           q.status[c] = "HANGING", pc[q.cur] \in {"own", "wait"},
           ThreadExit(c), pc' = [pc EXCEPT ![q.cur] = "own"]
    PROVE  Tree!Reap(q.cur, c)
<1>1. c \in Processes /\ father[c] = q.cur /\ pc[c] = "exited" /\ c \notin gone
  BY DEF Children, IndInv, PlacesAgree
<1>2. /\ Stages[c] = "exited" /\ Stages[q.cur] = "alive"
  BY <1>1, RunnerAlive DEF Stages, Stage, IndInv, PlacesAgree
<1>3. father' = [father EXCEPT ![c] = None] /\ gone' = gone \cup {c}
  BY DEF ThreadExit
<1>4. Stages' = [Stages EXCEPT ![c] = "gone"]
  <2>1. StageOf(c)' = "gone"
    BY <1>3 DEF StageOf
  <2>2. \A p \in Processes \ {c} :
              /\ p \in gone' <=> p \in gone
              /\ father'[p] = None <=> father[p] = None
              /\ pc'[p] = "exited" <=> pc[p] = "exited"
    BY <1>3 DEF IndInv, ProcessTypeOK, Processes
  <2>3. QED
    BY <1>1, <2>1, <2>2, StageChanges
<1>5. Fathers' = [Fathers EXCEPT ![c] = None]
  BY <1>1, <1>3 DEF Fathers, IndInv, ProcessTypeOK, Processes
<1>6. Fathers[c] = q.cur
  BY <1>1 DEF Fathers
<1>7. QED
  BY <1>2, <1>4, <1>5, <1>6 DEF Tree!Reap, Stages, Stage, Fathers

LEMMA WaitTurnRefines ==
    ASSUME IndInv, IndInv', pc[q.cur] \in {"own", "wait"}, WaitTurn(q.cur)
    PROVE  [Tree!Next]_Tree!familyVars
<1>1. q.cur \in Processes
  BY RunnerAlive
<1>2. CASE \E c \in Children(q.cur) : q.status[c] = "HANGING" /\ ThreadExit(c)
             /\ pc' = [pc EXCEPT ![q.cur] = "own"]
  <2>1. PICK c \in Children(q.cur) : Tree!Reap(q.cur, c)
    BY <1>1, <1>2, ReapRefines
  <2>2. QED
    BY <1>1, <2>1 DEF Tree!Next, Children
<1>3. CASE UNCHANGED <<father, gone>> /\ (\E x \in {"own", "wait"} : pc' = [pc EXCEPT ![q.cur] = x])
  BY <1>1, <1>3, SameStages DEF IndInv, ProcessTypeOK
<1>4. QED
  BY <1>2, <1>3 DEF WaitTurn

LEMMA ForkRefines ==
    ASSUME IndInv, IndInv', NEW t \in Processes, NEW c \in Processes, syscall_fork(t, c)
    PROVE  Tree!Fork(t, c)
<1>1. /\ t = q.cur /\ pc[t] = "own" /\ q.status[t] = "RUNNING"
      /\ q.status[c] = "DIED" /\ c \notin gone /\ gone' = gone /\ c # t
      /\ father' = [father EXCEPT ![c] = t] /\ t # None
      /\ pc' = IF t = InitProc THEN [pc EXCEPT ![t] = "spin"] ELSE pc
  BY RunnerAlive, ProcessAssumption DEF syscall_fork, At, InUse, Processes
<1>2. Stages[t] = "alive" /\ Stages[c] = "unused" /\ pc[c] = "own"
  BY <1>1 DEF Stages, Stage, IndInv, PlacesAgree
<1>3. Stages' = [Stages EXCEPT ![c] = "alive"]
  <2>1. father'[c] = t /\ pc'[c] = "own"
    BY <1>1, <1>2 DEF IndInv, ProcessTypeOK, Processes
  <2>2. StageOf(c)' = "alive"
    BY <1>1, <2>1 DEF StageOf
  <2>3. \A p \in Processes \ {c} :
              /\ p \in gone' <=> p \in gone
              /\ father'[p] = None <=> father[p] = None
              /\ pc'[p] = "exited" <=> pc[p] = "exited"
    BY <1>1 DEF IndInv, ProcessTypeOK, Processes
  <2>4. QED
    BY <2>2, <2>3, StageChanges
<1>4. Fathers' = [Fathers EXCEPT ![c] = t]
  BY <1>1 DEF Fathers, IndInv, ProcessTypeOK, Processes
<1>5. QED
  BY <1>2, <1>3, <1>4 DEF Tree!Fork, Stages, Stage, Fathers

LEMMA ExitRefines ==
    ASSUME IndInv, IndInv', NEW t \in Processes, syscall_exit(t)
    PROVE  Tree!Exit(t)
<1>1. /\ t = q.cur /\ pc[t] = "own" /\ q.status[t] = "RUNNING" /\ t # InitProc
      /\ gone' = gone /\ pc' = [pc EXCEPT ![t] = "exited"]
      /\ father' = [c \in Threads |-> IF c \in Children(t) THEN InitProc ELSE father[c]]
  BY RunnerAlive DEF syscall_exit, At, InitAdopt
<1>2. Stages[t] = "alive" /\ t \notin gone
  BY <1>1 DEF Stages, Stage, IndInv, PlacesAgree
<1>3. Stages' = [Stages EXCEPT ![t] = "exited"]
  <2>1. father[t] # None /\ t # None
    BY <1>1, ProcessAssumption DEF IndInv, FathersStay, InUse, Processes
  <2>2. \A p \in Processes : father'[p] = None <=> father[p] = None
    BY <1>1, <2>1, ProcessAssumption DEF Children, Processes
  <2>3. \A p \in Processes : pc'[p] = IF p = t THEN "exited" ELSE pc[p]
    BY <1>1 DEF IndInv, ProcessTypeOK
  <2>4. StageOf(t)' = "exited"
    BY <1>1, <1>2, <2>1, <2>2, <2>3 DEF StageOf
  <2>5. \A p \in Processes \ {t} :
              /\ p \in gone' <=> p \in gone
              /\ father'[p] = None <=> father[p] = None
              /\ pc'[p] = "exited" <=> pc[p] = "exited"
    BY <1>1, <2>2, <2>3
  <2>6. QED
    BY <2>4, <2>5, StageChanges
<1>4. Fathers' = [c \in Processes |-> IF c \in Tree!Children(t) THEN InitProc ELSE Fathers[c]]
  <2>1. Tree!Children(t) = Children(t)
    BY ChildrenAre
  <2>2. QED
    BY <1>1, <2>1 DEF Fathers, Processes
<1>5. QED
  BY <1>1, <1>2, <1>3, <1>4 DEF Tree!Exit, Stages, Stage, Fathers

\* A step of the processes is a step of the family or none at all.
LEMMA StepRefines == IndInv /\ IndInv' /\ [Next]_vars => [Tree!Next]_Tree!familyVars
<1> SUFFICES ASSUME IndInv, IndInv', [Next]_vars
             PROVE  [Tree!Next]_Tree!familyVars
  OBVIOUS
<1>1. ASSUME NEW t \in Processes, NEW c \in Processes, syscall_fork(t, c)
      PROVE  Tree!Next
  BY <1>1, ForkRefines DEF Tree!Next
<1>2. ASSUME NEW t \in Processes, syscall_wait(t) \/ WaitAgain(t)
      PROVE  [Tree!Next]_Tree!familyVars
  BY <1>2, WaitTurnRefines DEF syscall_wait, WaitAgain, At
<1>3. ASSUME NEW t \in Processes, syscall_exit(t)
      PROVE  Tree!Next
  BY <1>3, ExitRefines DEF Tree!Next
<1>4. ASSUME NEW t \in Processes,
             Await(t) \/ AwaitReturn(t) \/ DeviceInterrupt(t)
      PROVE  UNCHANGED Tree!familyVars
  <2>1. /\ UNCHANGED <<father, gone>>
        /\ \A p \in Processes : pc'[p] = "exited" <=> pc[p] = "exited"
    BY <1>4 DEF Await, AwaitReturn, DeviceInterrupt, At, IndInv, ProcessTypeOK
  <2>2. QED
    BY <2>1, SameStages
<1>5. CASE Timer \/ UNCHANGED vars
  BY <1>5, SameStages DEF Timer, vars
<1>6. QED
  BY <1>1, <1>2, <1>3, <1>4, <1>5 DEF Next, UserStep, InSystemCall

\* One process, init, and no fathers.
LEMMA InitRefines == Init => Tree!Init
<1> SUFFICES ASSUME Init PROVE Tree!Init
  OBVIOUS
<1>1. \A t \in Processes : q.status[t] = IF t = InitProc THEN "RUNNING" ELSE "DIED"
  BY DEF Init, Processes
<1>2. gone = {} /\ \A t \in Processes : father[t] = None
  BY DEF Init, Processes
<1>3. QED
  BY <1>1, <1>2 DEF Tree!Init

\* fork, wait and exit keep a tree of processes: nobody exits with children, a
\* child is taken away by its father, after its exit and once, and orphans are
\* init's.
THEOREM ProcessesAreAFamily == Spec => ImplementsFamily
<1>1. IndInv /\ IndInv' /\ [Next]_vars => [Tree!Next]_Tree!familyVars
  BY StepRefines
<1>2. QED
  BY <1>1, InitRefines, IndInvHolds, PTL DEF Spec, ImplementsFamily, Tree!Spec
=============================================================================
