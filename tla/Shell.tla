-------------------------------- MODULE Shell --------------------------------
(***************************************************************************)
(* The shell (shell/shell.c) and the processes it starts, as the callers   *)
(* of Files: a command line that is run with its output or input sent to a *)
(* file, two commands with a pipe between them, a command of the shell and *)
(* one of a program.  fork, exec, exit and wait are taken as far as open   *)
(* files go; who may wait for whom is in Process.                          *)
(*                                                                         *)
(* A child whose command does not exist comes back from CMD_Exec and goes  *)
(* on with what its father is doing, a second shell in the end.            *)
(***************************************************************************)
EXTENDS Files

CONSTANT First \* the process that runs shell() from the start

ASSUME ShellAssumption == First \in Processes /\ None \notin Processes

VARIABLES at,     \* the place in shell.c where a process is, or "free"
          resume, \* where it goes on if CMD_Exec returns
          local,  \* fd[2], or a standard stream and the descriptor for it
          father  \* who waits for it

shellVars == <<at, resume, local, father>>
vars == <<filesVars, shellVars>>

STDOUT_FD == 0
STDIN_FD == 1

Init ==
    /\ FilesInit
    /\ at = [p \in Processes |-> IF p = First THEN "prompt" ELSE "free"]
    /\ resume = [p \in Processes |-> "prompt"]
    /\ local = [p \in Processes |-> <<-1, -1>>]
    /\ father = [p \in Processes |-> None]

\* p is at a place and in no call; to go on nothing must have been spoilt.
Ready(p, place) == harm = "none" /\ at[p] = place /\ call[p] = NoCall

Goto(p, place) == at' = [at EXCEPT ![p] = place] /\ UNCHANGED <<resume, local, father>>
GotoWith(p, place, fds) ==
    /\ at' = [at EXCEPT ![p] = place]
    /\ local' = [local EXCEPT ![p] = fds]
    /\ UNCHANGED <<resume, father>>

\* p forks and goes on at one place, the child at another.
fork(p, mine, childs, back) ==
    \E c \in Processes :
        /\ at[c] = "free"
        /\ ForkFiles(p, c)
        /\ at' = [at EXCEPT ![p] = mine, ![c] = childs]
        /\ resume' = [resume EXCEPT ![c] = back]
        /\ local' = [local EXCEPT ![c] = local[p]]
        /\ father' = [father EXCEPT ![c] = p]

Children(p) == {c \in Processes : father[c] = p}

\* wait: a child that has exited is taken away.
Reap(p, place) ==
    /\ \E c \in Children(p) :
          /\ at[c] = "exited"
          /\ at' = [at EXCEPT ![p] = place, ![c] = "free"]
          /\ father' = [father EXCEPT ![c] = None]
          /\ resume' = [resume EXCEPT ![c] = "prompt"]
          /\ local' = [local EXCEPT ![c] = <<-1, -1>>]
    /\ UNCHANGED filesVars

\* wait returns -1 at once when there is no child.
WaitFails(p, place) ==
    /\ Children(p) = {}
    /\ Goto(p, place)
    /\ UNCHANGED filesVars

-----------------------------------------------------------------------------
(* A command of the shell, in the shell or in a child *)

\* cd, rm and rmdir; the others change nothing here.
ProcessBuildin_CMD(p, place) ==
    /\ \/ ChdirRoot(p)
       \/ \E d \in Dirs : Search(p, "chdir", d)
       \/ \E n \in Files \cup Dirs : Search(p, "remove", n)
    /\ Goto(p, place)

BuildinInShell(p) == Ready(p, "prompt") /\ ProcessBuildin_CMD(p, "buildin")

BuildinDone(p) ==
    /\ at[p] = "buildin" /\ Returned(p)
    /\ Goto(p, "prompt")
    /\ UNCHANGED <<tableVars, workDir, entries, lost, harm>>

\* ProcessRegular_CMD
RegularFork(p) == Ready(p, "prompt") /\ fork(p, "wait", "exec", "prompt")
RegularWait(p) == Ready(p, "wait") /\ Reap(p, "prompt")

-----------------------------------------------------------------------------
(* ProcessOutputReFd and ProcessInputReFd *)

\* The file is made if stat has not found it.
OutputReFd(p) ==
    /\ Ready(p, "prompt")
    /\ \E f \in Files : Search(p, IF f \in entries THEN "write" ELSE "create", f)
    /\ GotoWith(p, "open", <<STDOUT_FD, -1>>)

InputReFd(p) ==
    /\ Ready(p, "prompt")
    /\ \E f \in Files \cap entries : Search(p, "read", f)
    /\ GotoWith(p, "open", <<STDIN_FD, -1>>)

\* The file is open and the rest of the line is parsed, or cannot be.
ReFdOpened(p) ==
    /\ at[p] = "open" /\ Returned(p)
    /\ IF Result(p) = -1 THEN GotoWith(p, "prompt", <<-1, -1>>)
       ELSE \E place \in {"fork", "close"} : GotoWith(p, place, <<local[p][1], Result(p)>>)
    /\ UNCHANGED <<tableVars, workDir, entries, lost, harm>>

ReFdFork(p) == Ready(p, "fork") /\ fork(p, "wait file", "redirect", "wait file")

ReFdChild(p) ==
    /\ Ready(p, "redirect")
    /\ fd_redirect(p, local[p][1], local[p][2])
    /\ Goto(p, "exec")

ReFdWait(p) == Ready(p, "wait file") /\ (Reap(p, "close") \/ WaitFails(p, "close"))

ReFdClose(p) ==
    /\ Ready(p, "close")
    /\ syscall_close(p, local[p][2])
    /\ GotoWith(p, "prompt", <<-1, -1>>)

-----------------------------------------------------------------------------
(* ProcessPipeCMD *)

\* The pipe is made.  If the commands cannot be parsed its descriptors stay.
PipeCMD(p) ==
    /\ Ready(p, "prompt")
    /\ \/ PipeFails(p) /\ Goto(p, "prompt")
       \/ PipeMade(p) /\ Goto(p, "prompt")
       \/ PipeMade(p) /\ GotoWith(p, "fork first", PipeFds(p))

PipeFork(p) ==
    \/ Ready(p, "fork first") /\ fork(p, "fork second", "first", "fork second")
    \/ Ready(p, "fork second") /\ fork(p, "stdin back", "second", "stdin back")

\* The children: the end of the pipe that is used, and the other one closed.
PipeChild(p) ==
    \/ Ready(p, "first") /\ fd_redirect(p, STDOUT_FD, local[p][2]) /\ Goto(p, "first close")
    \/ Ready(p, "first close") /\ syscall_close(p, local[p][1]) /\ Goto(p, "exec")
    \/ Ready(p, "second") /\ fd_redirect(p, STDIN_FD, local[p][1]) /\ Goto(p, "second close")
    \/ Ready(p, "second close") /\ syscall_close(p, local[p][2]) /\ Goto(p, "exec")

PipeStreams(p) ==
    \/ Ready(p, "stdin back") /\ fd_redirect(p, STDIN_FD, -1) /\ Goto(p, "stdout back")
    \/ Ready(p, "stdout back") /\ fd_redirect(p, STDOUT_FD, -1) /\ Goto(p, "wait both")

\* Two children are waited for; without one the loop goes round for ever.
PipeWait(p) ==
    \/ Ready(p, "wait both") /\ (Reap(p, "wait other") \/ WaitFails(p, "wait both"))
    \/ Ready(p, "wait other") /\ (Reap(p, "pipe close") \/ WaitFails(p, "wait other"))

PipeClose(p) ==
    \/ Ready(p, "pipe close") /\ syscall_close(p, local[p][1]) /\ Goto(p, "pipe close other")
    \/ /\ Ready(p, "pipe close other")
       /\ syscall_close(p, local[p][2])
       /\ GotoWith(p, "prompt", <<-1, -1>>)

-----------------------------------------------------------------------------
(* CMD_Exec, in a child *)

exit(p) == CloseAll(p) /\ Goto(p, "exited")

CMD_Exec(p) ==
    /\ Ready(p, "exec")
    /\ \/ ProcessBuildin_CMD(p, "exit")
       \/ exit(p)
       \/ Goto(p, resume[p]) /\ UNCHANGED filesVars
       \/ (\E f \in Files : Search(p, "read", f)) /\ Goto(p, "load")

BuildinExit(p) ==
    \/ /\ at[p] = "exit" /\ Returned(p)
       /\ Goto(p, "exit now")
       /\ UNCHANGED <<tableVars, workDir, entries, lost, harm>>
    \/ Ready(p, "exit now") /\ exit(p)

\* load: the file of the program is open, is read, and is closed; it takes the
\* place of the shell's, or is no program.
ExecLoaded(p) ==
    /\ at[p] = "load" /\ Returned(p)
    /\ \/ Result(p) = -1 /\ Goto(p, resume[p]) /\ UNCHANGED tableVars
       \/ /\ Result(p) # -1
          /\ SetState(p, Close(State(p), Result(p)))
          /\ \E place \in {"program", resume[p]} : Goto(p, place)
    /\ UNCHANGED <<workDir, entries, lost, harm>>

\* A program like cat or grep: files opened to be read, and the exit.
Program(p) ==
    /\ Ready(p, "program")
    /\ \/ (\E f \in Files : Search(p, "read", f)) /\ Goto(p, "program open")
       \/ exit(p)

ProgramOpened(p) ==
    /\ at[p] = "program open" /\ Returned(p)
    /\ Goto(p, "program")
    /\ UNCHANGED <<tableVars, workDir, entries, lost, harm>>

-----------------------------------------------------------------------------

ShellStep(p) ==
    \/ BuildinInShell(p) \/ BuildinDone(p)
    \/ RegularFork(p) \/ RegularWait(p)
    \/ OutputReFd(p) \/ InputReFd(p) \/ ReFdOpened(p)
    \/ ReFdFork(p) \/ ReFdChild(p) \/ ReFdWait(p) \/ ReFdClose(p)
    \/ PipeCMD(p) \/ PipeFork(p) \/ PipeChild(p) \/ PipeStreams(p)
    \/ PipeWait(p) \/ PipeClose(p)
    \/ CMD_Exec(p) \/ BuildinExit(p) \/ ExecLoaded(p)
    \/ Program(p) \/ ProgramOpened(p)

DiskStep(p) == harm = "none" /\ AfterDisk(p) /\ UNCHANGED shellVars

Next == \E p \in Processes : ShellStep(p) \/ DiskStep(p)

Spec == Init /\ [][Next]_vars
=============================================================================
