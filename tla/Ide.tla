-------------------------------- MODULE Ide ---------------------------------
(***************************************************************************)
(* The disk driver of device/ide.c: one channel, the threads that call     *)
(* ide_read and ide_write, the disk and the interrupt line it shares with  *)
(* them.  The system is past its boot, during which commands are sent and  *)
(* polled for with interrupts off: expecting_intr is still set then.       *)
(*                                                                         *)
(* The disk is external.  It works at its own pace, except where the code  *)
(* takes for granted that it keeps up: the sectors of one command are      *)
(* moved in one go, without asking between them, and the last of several   *)
(* is written by then.  A single sector may take any time.  The disk raises *)
(* its line for each sector that is ready to be read or has been written,  *)
(* but not for the first that is to be written; reading the status, or     *)
(* sending a command, lowers it.  The controller is edge-triggered: a line *)
(* that stays up interrupts once, and one that goes down first, never.     *)
(***************************************************************************)
EXTENDS Thread

CONSTANTS ChannelLock, \* channel->lock
          DiskDone,    \* channel->disk_done
          Clients,     \* the threads that use the disk
          MaxSectors,  \* bound: sectors of a command, 255 in the code
          MaxCommands, \* bound: commands of a call
          MaxPolls     \* bound: readings of the status, 1000 in the code

ASSUME IdeAssumption ==
    /\ ChannelLock \in Mutexes /\ DiskDone \in Events
    /\ Clients \subseteq Threads \ {Idle}
    /\ MaxSectors \in Nat \ {0} /\ MaxCommands \in Nat \ {0} /\ MaxPolls \in Nat

VARIABLES expecting_intr, \* channel->expecting_intr
          step,           \* where each thread is in the driver
          call,           \* its call, and the commands it has yet to send
          polls,          \* what WaitForHdWork has left of its patience
          disk,           \* the disk
          line            \* its interrupt: "low", "pending" or "taken"

threadVars == <<q, value, wait, holder, pc, want, held, intr>>
ideVars == <<expecting_intr, step, call, polls, disk, line>>
allVars == <<threadVars, ideVars>>

(***************************************************************************)
(* step: "out"     outside the driver;                                     *)
(*       "lock"    at MutexAcquire;                                        *)
(*       "expect", "command"   the two statements of CmdOut;               *)
(*       "confirm" at SemaphoreDec(disk_done);                             *)
(*       "poll"    in WaitForHdWork;                                       *)
(*       "move"    in ReadFromSector or WriteToSector;                     *)
(*       "next"    at the end of the loop;                                 *)
(*       "return"  after MutexRelease;                                     *)
(*       "panic"   in PANIC.                                               *)
(***************************************************************************)
IdeInit ==
    /\ Init
    /\ expecting_intr = TRUE
    /\ step = [t \in Clients |-> "out"]
    /\ call = [t \in Clients |-> [dir |-> "read", left |-> 0]]
    /\ polls = 0
    /\ disk = [state |-> "idle", dir |-> "read", left |-> 0, total |-> 0]
    /\ line = "low"

Go(t, label) == step' = [step EXCEPT ![t] = label]

\* The running thread stands at the given statement of the driver.
AtStep(t, label) == t = q.cur /\ pc[t] = "own" /\ step[t] = label

Busy == disk.state \in {"busy", "flushing"}

Raise == IF line = "low" THEN "pending" ELSE line

-----------------------------------------------------------------------------

\* ide_read or ide_write is called, by a process from a system call.
Call(t) ==
    /\ AtStep(t, "out")
    /\ \E dir \in {"read", "write"}, n \in 1 .. MaxCommands :
          call' = [call EXCEPT ![t] = [dir |-> dir, left |-> n]]
    /\ IF t \in Processes THEN SyscallEnter(t) ELSE UNCHANGED threadVars
    /\ Go(t, "lock")
    /\ UNCHANGED <<expecting_intr, polls, disk, line>>

Acquire(t) ==
    /\ AtStep(t, "lock")
    /\ SemaphoreDec(t, ChannelLock)
    /\ Go(t, "expect")
    /\ UNCHANGED <<expecting_intr, call, polls, disk, line>>

CmdOutExpect(t) ==
    /\ AtStep(t, "expect")
    /\ expecting_intr' = TRUE
    /\ Go(t, "command")
    /\ UNCHANGED <<threadVars, call, polls, disk, line>>

\* Wrong: a writer, too, waits for the interrupt before it moves its data.
ConfirmFirst(t) == "confirm"

\* ide_read waits for the interrupt first, ide_write for the disk to take data.
AfterCommand(t) == IF call[t].dir = "read" THEN "confirm" ELSE "poll"

\* The command register: the disk starts on a new command.
CmdOut(t) ==
    /\ AtStep(t, "command")
    /\ \E n \in 1 .. MaxSectors :
          disk' = [state |-> "busy", dir |-> call[t].dir, left |-> n, total |-> n]
    /\ line' = "low"
    /\ polls' = MaxPolls
    /\ Go(t, AfterCommand(t))
    /\ UNCHANGED <<threadVars, expecting_intr, call>>

Confirm(t) ==
    /\ AtStep(t, "confirm")
    /\ SemaphoreDec(t, DiskDone)
    /\ Go(t, IF call[t].dir = "read" THEN "poll" ELSE "next")
    /\ UNCHANGED <<expecting_intr, call, polls, disk, line>>

GivesUp == polls = 0

\* A turn of the loop of WaitForHdWork: read the status.  SleepWithoutHang,
\* between two turns, does not wait.
WaitForHdWork(t) ==
    /\ AtStep(t, "poll")
    /\ IF GivesUp
       THEN UNCHANGED <<line, polls>>
       ELSE line' = "low" /\ polls' = IF Busy THEN polls - 1 ELSE polls
    /\ CASE ~GivesUp /\ Busy                 -> UNCHANGED <<step, intr>>
         [] ~GivesUp /\ disk.state = "ready" -> Go(t, "move") /\ UNCHANGED intr
         [] OTHER -> Go(t, "panic") /\ intr' = [intr EXCEPT ![t] = FALSE]
    /\ UNCHANGED <<q, value, wait, holder, pc, want, held,
                   expecting_intr, call, disk>>

\* Wrong: a writer does not wait for the interrupt.
MoveEnds(t) == "next"

AfterMove(t) == IF call[t].dir = "read" THEN "next" ELSE "confirm"

\* One sector of ReadFromSector or WriteToSector.
MoveSector(t) ==
    /\ AtStep(t, "move")
    /\ IF disk.left > 1
       THEN /\ disk' = [disk EXCEPT !.left = @ - 1]
            /\ line' = Raise
            /\ UNCHANGED step
       ELSE /\ disk' = [disk EXCEPT
                 !.left = 0,
                 !.state = IF disk.dir = "write" /\ disk.total = 1 THEN "flushing"
                                                                  ELSE "idle"]
            /\ line' = IF disk.dir = "write" /\ disk.total > 1 THEN Raise ELSE line
            /\ Go(t, AfterMove(t))
    /\ UNCHANGED <<threadVars, expecting_intr, call, polls>>

\* The end of the loop: another command, or MutexRelease.
NextCommand(t) ==
    /\ AtStep(t, "next")
    /\ call' = [call EXCEPT ![t].left = @ - 1]
    /\ \/ call[t].left > 1 /\ Go(t, "expect") /\ UNCHANGED threadVars
       \/ call[t].left = 1 /\ Go(t, "return") /\ MutexReleaseHolder(t)
    /\ UNCHANGED <<expecting_intr, polls, disk, line>>

Return(t) ==
    /\ AtStep(t, "return")
    /\ IF t \in Processes THEN SyscallReturn(t) ELSE UNCHANGED threadVars
    /\ Go(t, "out")
    /\ UNCHANGED <<expecting_intr, call, polls, disk, line>>

\* The empty loop that ends PANIC.
Panic(t) == AtStep(t, "panic") /\ UNCHANGED allVars

-----------------------------------------------------------------------------

\* The disk has the first sector, or room for it.
DiskReady ==
    /\ disk.state = "busy"
    /\ disk' = [disk EXCEPT !.state = "ready"]
    /\ line' = IF disk.dir = "read" THEN Raise ELSE line
    /\ UNCHANGED <<threadVars, expecting_intr, step, call, polls>>

DiskWritten ==
    /\ disk.state = "flushing"
    /\ disk' = [disk EXCEPT !.state = "idle"]
    /\ line' = Raise
    /\ UNCHANGED <<threadVars, expecting_intr, step, call, polls>>

\* Wrong: every interrupt is taken for the one that is expected.
AlwaysExpected == TRUE

Expected == expecting_intr

\* Wrong: the flag is not reset.
KeepFlag == UNCHANGED expecting_intr

ResetFlag == expecting_intr' = FALSE

\* The disk interrupts.  Only an interrupt that is expected has its status read.
disk_itr_handler ==
    /\ InterruptsOn /\ line = "pending"
    /\ IF Expected
       THEN ResetFlag /\ line' = "low" /\ SemaphoreInc(DiskDone)
       ELSE line' = "taken" /\ UNCHANGED <<expecting_intr, q, value, wait>>
    /\ pc' = AfterInterrupt
    /\ UNCHANGED <<holder, want, held, intr, step, call, polls, disk>>

-----------------------------------------------------------------------------

InDriver(t) ==
    \/ Acquire(t)
    \/ CmdOutExpect(t) \/ CmdOut(t)
    \/ Confirm(t) \/ WaitForHdWork(t) \/ MoveSector(t)
    \/ NextCommand(t) \/ Return(t)

\* An interrupt that is pending comes before the next statement.
Undisturbed == ~ (InterruptsOn /\ line = "pending")

ClientStep(t) == Undisturbed /\ (InDriver(t) \/ (InPrimitive(t) /\ UNCHANGED ideVars))

IdeNext ==
    \/ \E t \in Clients : ClientStep(t) \/ (Undisturbed /\ Call(t)) \/ Panic(t)
    \/ DiskReady \/ DiskWritten
    \/ disk_itr_handler
    \/ (IdleLoop \/ Timer) /\ UNCHANGED ideVars

IdeSpec == IdeInit /\ [][IdeNext]_allVars

\* As in Thread; the disk does its work, and a thread gets on when it has the
\* processor again and again: a time slice is long.
IdeFairness ==
    /\ WF_allVars(IdleLoop /\ UNCHANGED ideVars)
    /\ SF_allVars(Timer /\ UNCHANGED ideVars)
    /\ WF_allVars(DiskReady) /\ WF_allVars(DiskWritten)
    /\ SF_allVars(disk_itr_handler)
    /\ \A t \in Clients : SF_allVars(ClientStep(t))

IdeFairSpec == IdeSpec /\ IdeFairness

-----------------------------------------------------------------------------

Steps == {"out", "lock", "expect", "command", "confirm", "poll", "move", "next",
          "return", "panic"}

IdeTypeOK ==
    /\ TypeOK
    /\ expecting_intr \in BOOLEAN
    /\ step \in [Clients -> Steps]
    /\ call \in [Clients -> [dir : {"read", "write"}, left : 0 .. MaxCommands]]
    /\ polls \in 0 .. MaxPolls
    /\ disk \in [state : {"idle", "busy", "ready", "flushing"}, dir : {"read", "write"},
                 left : 0 .. MaxSectors, total : 0 .. MaxSectors]
    /\ line \in {"low", "pending", "taken"}

\* A command is sent to a disk that has done with the one before, of whatever
\* thread: the lock and the confirmation together see to it, not one alone.
OneCommandAtATime ==
    \A t \in Clients : AtStep(t, "command") => disk.state = "idle"

\* The interrupt a thread has waited for was that of its own command, not one
\* of an earlier sector or command: a reader finds its data, and what a writer
\* wrote is on the disk.
ConfirmedIsDone ==
    \A t \in Clients :
        /\ AtStep(t, "poll") /\ call[t].dir = "read" => disk.state = "ready"
        /\ AtStep(t, "next") => disk.state = "idle"

\* The interrupts of a command's further sectors are not counted: disk_done is
\* back at 0 when a thread leaves the driver, so that it cannot run ahead.
NothingLeftOver ==
    (\A t \in Clients : held[t] # ChannelLock) => value[DiskDone] = 0

\* Somebody will wake the thread asleep in disk_done: an interrupt is expected,
\* and it is on its way.
InterruptToCome ==
    wait[DiskDone] # << >> => expecting_intr /\ (Busy \/ line = "pending")

\* A call that has the channel ends, or the driver has lost its patience.
CallEnds ==
    \A t \in Clients :
        held[t] = ChannelLock ~>
            held[t] # ChannelLock \/ \E u \in Clients : step[u] = "panic"
=============================================================================
