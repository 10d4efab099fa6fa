-------------------------------- MODULE Pipe --------------------------------
(***************************************************************************)
(* A pipe (pipe_read and pipe_write of lib/user/syscallFun.c): a ring      *)
(* buffer in a kernel page that one process writes and another reads, each *)
(* by system calls that cut the byte count down to what the queue has, or  *)
(* has room for, and then move the bytes one by one.                       *)
(***************************************************************************)
EXTENDS IoQueue

CONSTANTS Writers,  \* processes with the pipe as their output
          Readers,  \* processes with the pipe as their input
          MaxCount  \* bound: bytes asked for in a call

ASSUME PipeAssumption ==
    /\ Writers \cup Readers \subseteq Processes
    /\ Writers \cap Readers = {}
    /\ MaxCount \in Nat

VARIABLES call, \* "user", or the call a process is in: "write" or "read"
          cnt   \* the bytes that are left to move in it

pipeVars == <<call, cnt>>
allVars == <<threadVars, ioVars, pipeVars>>

PipeInit ==
    /\ Init /\ IoInit
    /\ call = [t \in Writers \cup Readers |-> "user"]
    /\ cnt = [t \in Writers \cup Readers |-> 0]

MIN(a, b) == IF a <= b THEN a ELSE b

\* The call begins: the queue is looked at once.
Begin(t, name, n) ==
    /\ OutsideIo(t) /\ call[t] = "user"
    /\ SyscallEnter(t)
    /\ call' = [call EXCEPT ![t] = name]
    /\ cnt' = [cnt EXCEPT ![t] = n]
    /\ UNCHANGED ioVars

pipe_write(t) ==
    \E n \in 1 .. MaxCount : Begin(t, "write", MIN(n, QueueLen - ioQueueLen))

\* Wrong: the count is not cut down to what the queue holds.
ReadWithoutCut(t) == \E n \in 1 .. MaxCount : Begin(t, "read", n)

pipe_read(t) ==
    \E n \in 1 .. MaxCount : Begin(t, "read", MIN(n, ioQueueLen))

\* A turn of the loop of the call: one byte put or got.
MoveByte(t) ==
    /\ OutsideIo(t) /\ cnt[t] > 0
    /\ \/ call[t] = "write" /\ \E b \in Bytes : CallPut(t, b)
       \/ call[t] = "read" /\ CallGet(t)
    /\ cnt' = [cnt EXCEPT ![t] = @ - 1]
    /\ UNCHANGED <<threadVars, buff, head, tail, producer, consumer, call>>

End(t) ==
    /\ OutsideIo(t) /\ call[t] # "user" /\ cnt[t] = 0
    /\ SyscallReturn(t)
    /\ call' = [call EXCEPT ![t] = "user"]
    /\ data' = [data EXCEPT ![t] = None]
    /\ UNCHANGED <<buff, head, tail, producer, consumer, io, cnt>>

InCall(t) == MoveByte(t) \/ End(t)

PipeIoStep(t) == IoStep(t) /\ UNCHANGED pipeVars

PipeNext ==
    \/ \E t \in Writers : pipe_write(t)
    \/ \E t \in Readers : pipe_read(t)
    \/ \E t \in Writers \cup Readers : InCall(t)
    \/ \E t \in Threads : PipeIoStep(t)
    \/ (IdleLoop \/ Timer) /\ UNCHANGED <<ioVars, pipeVars>>

PipeSpec == PipeInit /\ [][PipeNext]_allVars

\* As in Thread, and every reader keeps reading.
PipeFairness ==
    /\ WF_allVars(IdleLoop /\ UNCHANGED <<ioVars, pipeVars>>)
    /\ SF_allVars(Timer /\ UNCHANGED <<ioVars, pipeVars>>)
    /\ \A t \in Threads : WF_allVars(PipeIoStep(t))
    /\ \A t \in Writers \cup Readers : WF_allVars(InCall(t))
    /\ \A t \in Readers : SF_allVars(pipe_read(t))

PipeFairSpec == PipeSpec /\ PipeFairness

-----------------------------------------------------------------------------

PipeTypeOK ==
    /\ TypeOK /\ IoTypeOK
    /\ call \in [Writers \cup Readers -> {"user", "write", "read"}]
    /\ cnt \in [Writers \cup Readers -> 0 .. MaxCount]

Ring == INSTANCE Fifo WITH contents <- Contents, Capacity <- QueueLen - 1

\* Bytes come out in the order they went in, none lost, none made up, whoever
\* sleeps and wakes on the way.
ImplementsFifo == Ring!Spec

\* pipe_read never sleeps: what the queue held when the call began is still
\* there when it is taken.
ReadDoesNotBlock ==
    \A t \in Readers : io[t] \notin {"getlock", "getslot"}

\* A writer that sleeps gets on while readers keep reading.
WriterGoesOn ==
    \A t \in Writers : io[t] \in {"putlock", "putslot"} ~> io[t] = "none"
=============================================================================
