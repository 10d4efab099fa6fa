------------------------------ MODULE Process ------------------------------
(***************************************************************************)
(* fork, wait and exit of userprog/ over the queues of kernel/thread.c.    *)
(*                                                                         *)
(* The system is past its boot: init runs, the idle task is asleep and the *)
(* boot thread has gone.  The idle task does not wake again: init ends in  *)
(* an empty loop and is always there to run.  A PCB that is not in use     *)
(* counts as DIED.  System calls run with interrupts off and lose the      *)
(* processor only where they block: in wait, for a child; at the end of    *)
(* exit, for good; and in any other call, for a device.  The semaphores    *)
(* they block on are the subject of Thread.tla and are left out here: a    *)
(* blocked thread is unblocked by an interrupt.                            *)
(***************************************************************************)
EXTENDS ThreadQueues

CONSTANTS InitProc,  \* pid 1
          None       \* no father

Processes == Threads \ {Idle}

ASSUME ProcessAssumption ==
    /\ InitProc \in Processes
    /\ None \notin Threads

VARIABLES q,       \* the thread queues, a record of ThreadQueues
          father,  \* PCB.pa_pid; None as well for a PCB that is not in use
          pc,      \* where each thread stands, see below
          gone     \* the processes that have been waited for: their pid is
                   \* not used again

vars == <<q, father, pc, gone>>

(***************************************************************************)
(* pc: "own"      in user code;                                            *)
(*     "spin"     the loop init ends in;                                   *)
(*     "await"    in a system call that waits for a device;                *)
(*     "exited"   in the ThreadBlock at the end of syscall_exit;           *)
(*     "wait"     in the loop of syscall_wait, back from ThreadBlock.      *)
(***************************************************************************)
Init ==
    /\ q = [cur     |-> InitProc,
            status  |-> [t \in Threads |-> CASE t = InitProc -> "RUNNING"
                                             [] t = Idle     -> "BLOCKED"
                                             [] OTHER        -> "DIED"],
            ready   |-> << >>,
            blocked |-> {Idle},
            delayed |-> {},
            ticks   |-> [t \in Threads |-> Slice],
            left    |-> [t \in Threads |-> 0]]
    /\ father = [t \in Threads |-> None]
    /\ pc = [p \in Processes |-> "own"]
    /\ gone = {}

InterruptsOn == pc[q.cur] \in {"own", "spin"}

At(t, label) == t = q.cur /\ pc[t] = label

InUse(c) == q.status[c] # "DIED"

Children(t) == {c \in Processes : father[c] = t /\ InUse(c)}

-----------------------------------------------------------------------------

\* syscall_fork: the child is a copy of the father, ready behind the others,
\* with a fresh slice; init forks once and spins from then on.
syscall_fork(t, c) ==
    /\ At(t, "own") /\ t \in Processes
    /\ c \in Processes \ gone /\ ~ InUse(c)
    /\ q' = ExchangeThreadToReady(q, c)
    /\ father' = [father EXCEPT ![c] = t]
    /\ pc' = IF t = InitProc THEN [pc EXCEPT ![t] = "spin"] ELSE pc
    /\ UNCHANGED gone

\* Wrong: the child is reclaimed whether it has exited or not.
WaitReapsLiving(t) ==
    IF Children(t) = {}
    THEN /\ pc' = [pc EXCEPT ![t] = "own"]
         /\ UNCHANGED <<q, father, gone>>
    ELSE \E c \in Children(t) :
            /\ q.status[c] \in OnBlockList
            /\ q' = [q EXCEPT !.status[c] = "DIED", !.blocked = @ \ {c}]
            /\ father' = [father EXCEPT ![c] = None]
            /\ gone' = gone \cup {c}
            /\ pc' = [pc EXCEPT ![t] = "own"]

\* ThreadExit, called for a child that is HANGING.
ThreadExit(c) ==
    /\ q' = [q EXCEPT !.status[c] = "DIED", !.blocked = @ \ {c}]
    /\ father' = [father EXCEPT ![c] = None]
    /\ gone' = gone \cup {c}

\* Wrong: only one child is looked at.
WaitLooksAtOne(t) ==
    \/ \E c \in Children(t) :
          IF q.status[c] = "HANGING"
          THEN ThreadExit(c) /\ pc' = [pc EXCEPT ![t] = "own"]
          ELSE /\ q' \in ThreadBlock(q, "WAITING")
               /\ pc' = [pc EXCEPT ![t] = "wait"]
               /\ UNCHANGED <<father, gone>>
    \/ /\ Children(t) = {}
       /\ pc' = [pc EXCEPT ![t] = "own"]
       /\ UNCHANGED <<q, father, gone>>

\* Wrong: a process without children waits too.
WaitWithoutChildren(t) ==
    IF \E c \in Children(t) : q.status[c] = "HANGING"
    THEN \E c \in Children(t) : /\ q.status[c] = "HANGING"
                                /\ ThreadExit(c)
                                /\ pc' = [pc EXCEPT ![t] = "own"]
    ELSE /\ q' \in ThreadBlock(q, "WAITING")
         /\ pc' = [pc EXCEPT ![t] = "wait"]
         /\ UNCHANGED <<father, gone>>

\* One turn of the loop of syscall_wait: take away a child that has exited,
\* return -1 for want of children, or wait.
WaitTurn(t) ==
    \/ \E c \in Children(t) :
          /\ q.status[c] = "HANGING"
          /\ ThreadExit(c)
          /\ pc' = [pc EXCEPT ![t] = "own"]
    \/ /\ Children(t) = {}
       /\ pc' = [pc EXCEPT ![t] = "own"]
       /\ UNCHANGED <<q, father, gone>>
    \/ /\ Children(t) # {}
       /\ \A c \in Children(t) : q.status[c] # "HANGING"
       /\ q' \in ThreadBlock(q, "WAITING")
       /\ pc' = [pc EXCEPT ![t] = "wait"]
       /\ UNCHANGED <<father, gone>>

syscall_wait(t) == At(t, "own") /\ t \in Processes \ {InitProc} /\ WaitTurn(t)

WaitAgain(t) == At(t, "wait") /\ WaitTurn(t)

\* Wrong: children that have exited keep their father.
AdoptLiving(t) ==
    [c \in Threads |-> IF c \in Children(t) /\ q.status[c] # "HANGING"
                       THEN InitProc ELSE father[c]]

\* All children of t get pid 1 for a father.
InitAdopt(t) ==
    [c \in Threads |-> IF c \in Children(t) THEN InitProc ELSE father[c]]

\* Wrong: the father is not unblocked.
ExitWithoutWaking(t) ==
    /\ At(t, "own") /\ t \in Processes \ {InitProc}
    /\ father' = InitAdopt(t)
    /\ q' \in ThreadBlock(q, "HANGING")
    /\ pc' = [pc EXCEPT ![t] = "exited"]
    /\ UNCHANGED gone

\* syscall_exit: the children go to init, and a father in wait is unblocked, to
\* find the process HANGING.  Closing its files and freeing its memory, between
\* the two, does not lose the processor.
syscall_exit(t) ==
    /\ At(t, "own") /\ t \in Processes \ {InitProc}
    /\ father' = InitAdopt(t)
    /\ LET p == IF q.status[father[t]] = "WAITING" THEN ThreadUnBlock(q, father[t]) ELSE q
       IN q' \in ThreadBlock(p, "HANGING")
    /\ pc' = [pc EXCEPT ![t] = "exited"]
    /\ UNCHANGED gone

-----------------------------------------------------------------------------

\* Any other system call that waits for a device.
Await(t) ==
    /\ At(t, "own") /\ t \in Processes \ {InitProc}
    /\ q' \in ThreadBlock(q, "BLOCKED")
    /\ pc' = [pc EXCEPT ![t] = "await"]
    /\ UNCHANGED <<father, gone>>

AwaitReturn(t) ==
    /\ At(t, "await")
    /\ pc' = [pc EXCEPT ![t] = "own"]
    /\ UNCHANGED <<q, father, gone>>

Timer ==
    /\ InterruptsOn
    /\ q' \in timer_interrupt(q)
    /\ UNCHANGED <<father, pc, gone>>

\* A device answers the thread that waits for it.
DeviceInterrupt(t) ==
    /\ InterruptsOn
    /\ pc[t] = "await" /\ q.status[t] = "BLOCKED"
    /\ q' = ThreadUnBlock(q, t)
    /\ UNCHANGED <<father, pc, gone>>

-----------------------------------------------------------------------------

InSystemCall(t) == WaitAgain(t) \/ AwaitReturn(t)

UserStep(t) ==
    \/ \E c \in Processes : syscall_fork(t, c)
    \/ syscall_wait(t)
    \/ syscall_exit(t)
    \/ Await(t)

Next ==
    \/ \E t \in Processes : UserStep(t) \/ InSystemCall(t) \/ DeviceInterrupt(t)
    \/ Timer

Spec == Init /\ [][Next]_vars

(***************************************************************************)
(* Fairness.  The processor goes on inside a system call, and a timer      *)
(* interrupt that arrives with interrupts off is kept.  User code and the  *)
(* devices owe nothing.                                                    *)
(***************************************************************************)
Fairness ==
    /\ SF_vars(Timer)
    /\ \A t \in Processes : WF_vars(InSystemCall(t))

FairSpec == Spec /\ Fairness

-----------------------------------------------------------------------------

ProcessTypeOK ==
    /\ q \in Queues
    /\ father \in [Threads -> Processes \cup {None}]
    /\ pc \in [Processes -> {"own", "spin", "await", "exited", "wait"}]
    /\ gone \subseteq Processes

\* Every thread is in the one queue its status names, once: exit and wait move
\* other threads than the running one, and find them where they expect them.
NoProcessLost == QueuesConsistent(q)

\* No exit is missed: a father asleep in wait has no child that has exited
\* already, although exit wakes the father before it is HANGING itself.
NoMissedExit ==
    \A t \in Processes : q.status[t] = "WAITING" =>
        \A c \in Children(t) : q.status[c] # "HANGING"

\* Somebody can still wake a father asleep in wait: it has a child.
WaitingHasChild ==
    \A t \in Processes : q.status[t] = "WAITING" => Children(t) # {}

\* Every process but init has a father that is there and has not exited: the
\* ASSERT(fa) of syscall_exit, although fathers exit at any time.
FatherPresent ==
    \A c \in Processes \ {InitProc} : InUse(c) =>
        /\ father[c] # None
        /\ InUse(father[c]) /\ q.status[father[c]] # "HANGING"

\* A father in wait one of whose children has exited gets on, and takes one away.
ExitNoticed ==
    \A t \in Processes :
        (pc[t] = "wait" /\ \E c \in Children(t) : q.status[c] = "HANGING")
            ~> pc[t] = "own"

\* A ready process gets the processor, although those that are unblocked, by a
\* device or by an exit, come back at the front of the ready queue: several may
\* do so in turn, before it, again and again, and only the time slice, which
\* they do not get back, stops them.
StarvationFree ==
    \A t \in Processes : q.status[t] = "READY" ~> q.status[t] = "RUNNING"

\* A process has exited once it is HANGING.
Tree == INSTANCE Family WITH
    Root <- InitProc,
    father <- [p \in Processes |-> father[p]],
    state <- [p \in Processes |->
                CASE p \in gone                               -> "gone"
                  [] p \notin gone /\ q.status[p] = "DIED"    -> "unused"
                  [] p \notin gone /\ q.status[p] = "HANGING" -> "exited"
                  [] OTHER                                    -> "alive"]

\* fork, wait and exit keep a tree of processes: nobody exits with children,
\* and only a father takes away a child, after its exit and once.
ImplementsFamily == Tree!Spec
=============================================================================
