-------------------------------- MODULE Files --------------------------------
(***************************************************************************)
(* Who has what open: the descriptors of the processes, the file table     *)
(* they share (fs/file.c), the inodes in memory with their open counts     *)
(* (fs/inode.c), and the calls on them of lib/user/syscallFun.c, fork.c    *)
(* and wait_exit.c.  Calls run with interrupts off, and overlap where they *)
(* wait for the disk.                                                      *)
(*                                                                         *)
(* The files and directories stand in the root directory; the disk is the  *)
(* set of the names found there, and a name has its inode.  What a file    *)
(* holds, and the place in it, is left to FileSystem; stat, which closes   *)
(* an inode in the step in which it has opened it, is left out.            *)
(*                                                                         *)
(* Nothing in the code keeps two calls apart, and some overlap badly: the  *)
(* step that does so says it in harm, and the model goes no further.       *)
(***************************************************************************)
EXTENDS Integers, FiniteSets, SequencesExt

CONSTANTS Processes,
          Files, Dirs, \* the names in the root directory
          Root,        \* the root directory, which is always open
          Pipe,        \* a kernel page with the queue of a pipe
          None,
          Slots,       \* the entries of GlobalFileTable that are handed out
          FdCnt,       \* MAX_FILE_CNT_OPEN_PROCESS
          MaxOpen      \* bound: the open count at which chdir is not called

ASSUME FilesAssumption ==
    /\ IsFiniteSet(Processes)
    /\ Files \cap Dirs = {} /\ {Root, Pipe, None} \cap (Files \cup Dirs) = {}
    /\ Pipe # None
    /\ Slots \subseteq Nat \ {0, 1} /\ IsFiniteSet(Slots)
    /\ FdCnt \in Nat \ {0, 1}
    /\ MaxOpen \in Nat

VARIABLES GlobalFileTable,
          fd,      \* pcb->fd, a slot or -1
          workDir,
          inodes,  \* the open counts and write_deny; a count of 0 is not in memory
          entries, \* the names in the root directory, on the disk
          call,    \* where a process is in a call that waits for the disk
          lost,    \* how often an inode was opened and its descriptor lost
          harm     \* how calls have spoilt each other, or "none"

tableVars == <<GlobalFileTable, fd, inodes>>
filesVars == <<tableVars, workDir, entries, call, lost, harm>>

STD_FD == {0, 1}
Fds == 0 .. FdCnt - 1
Given == Fds \ STD_FD \* the descriptors that open and pipe hand out

Closed == [open_cnt |-> 0, write_deny |-> FALSE]
NoFile == [inode |-> None, flag |-> "none", fd_pos |-> 0]
NoCall == [at |-> "user", for |-> "none", name |-> None, slot |-> -1]

FilesInit ==
    /\ GlobalFileTable = [s \in Slots |-> NoFile]
    /\ fd = [p \in Processes |-> [d \in Fds |-> -1]]
    /\ workDir = [p \in Processes |-> Root]
    /\ inodes = [n \in Files \cup Dirs |-> Closed]
    /\ \E some \in SUBSET Files : entries = some \cup Dirs
    /\ call = [p \in Processes |-> NoCall]
    /\ lost = [n \in Files |-> 0]
    /\ harm = "none"

Lowest(S) == IF S = {} THEN -1 ELSE Min(S)

GetFreeGlobalFd == Lowest({s \in Slots : GlobalFileTable[s].inode = None})

\* The descriptor that ProcessInstallFd takes in fds; -1 if all are taken.
FreeFd(fds) == Lowest({d \in Given : fds[d] = -1})
ProcessInstallFd(fds, s) ==
    IF FreeFd(fds) = -1 THEN fds ELSE [fds EXCEPT ![FreeFd(fds)] = s]

Listed(n) == inodes[n].open_cnt > 0
OthersAt(p, places) ==
    \E q \in Processes \ {p} : call[q].at \in places /\ call[q].name = call[p].name

\* A call ends and returns r, a descriptor or -1, or 1 or 0.
Return(p, r) == call' = [call EXCEPT ![p].at = "done", ![p].slot = r]

WaitAt(p, place, s) == call' = [call EXCEPT ![p].at = place, ![p].slot = s]

Harm(what) == harm' = what /\ UNCHANGED <<tableVars, workDir, entries, call, lost>>

-----------------------------------------------------------------------------
(* Close, and what is closed at exit *)

Decremented(node) ==
    IF node.open_cnt = 1 THEN Closed ELSE [node EXCEPT !.open_cnt = @ - 1]

\* InodeClose of n by a call that leaves the rest of inodes as in nodes.
InodeClose(nodes, n) == [nodes EXCEPT ![n] = Decremented(@)]

\* The page is freed, and the slot given up, with the last descriptor.
pipe_close(s, g) ==
    IF s.table[g].fd_pos = 1
    THEN [s EXCEPT !.table[g].fd_pos = 0, !.table[g].inode = None]
    ELSE [s EXCEPT !.table[g].fd_pos = @ - 1]

\* The slot is given up by the one who closes the inode for good.
CloseFile(s, g) ==
    LET n == s.table[g].inode
    IN  [s EXCEPT !.nodes = InodeClose(@, n),
                  !.table[g].inode = IF s.nodes[n].open_cnt = 1 THEN None ELSE @]

\* syscall_close of d, where s has the table, the inodes and the caller's fds.
Close(s, d) ==
    LET g == s.fds[d]
        t == [s EXCEPT !.fds[d] = -1]
    IN  IF g = -1 THEN s
        ELSE IF s.table[g].flag = "pipe"
        THEN IF d \in STD_FD THEN s ELSE pipe_close(t, g)
        ELSE IF s.table[g].inode = None THEN t ELSE CloseFile(t, g)

State(p) == [table |-> GlobalFileTable, nodes |-> inodes, fds |-> fd[p]]

SetState(p, s) ==
    /\ GlobalFileTable' = s.table
    /\ inodes' = s.nodes
    /\ fd' = [fd EXCEPT ![p] = s.fds]

syscall_close(p, d) ==
    /\ SetState(p, Close(State(p), d))
    /\ UNCHANGED <<workDir, entries, call, lost, harm>>

\* ReleaseProcessResource: the descriptors from STD_FD_CNT on are closed; a
\* working directory is not.  The redirected ones go with the PCB.
CloseAll(p) ==
    LET end == MapThenFoldSet(LAMBDA d, s : Close(s, d), State(p), LAMBDA d : d, Max, Given)
    IN  /\ SetState(p, [end EXCEPT !.fds = [d \in Fds |-> -1]])
        /\ workDir' = [workDir EXCEPT ![p] = Root]
        /\ UNCHANGED <<entries, call, lost, harm>>

-----------------------------------------------------------------------------
(* Calls that do not wait for the disk *)

\* The two descriptors of a new pipe, or fewer when they do not fit.
PipeFds(p) ==
    LET first == FreeFd(fd[p])
        second == Lowest({d \in Given : fd[p][d] = -1} \ {first})
    IN  <<first, second>>

PipeMade(p) ==
    LET s == GetFreeGlobalFd
    IN  /\ s # -1 /\ PipeFds(p)[2] # -1
        /\ GlobalFileTable' = [GlobalFileTable EXCEPT ![s] =
                                  [inode |-> Pipe, flag |-> "pipe", fd_pos |-> 2]]
        /\ fd' = [fd EXCEPT ![p] = ProcessInstallFd(ProcessInstallFd(@, s), s)]
        /\ UNCHANGED <<workDir, inodes, entries, call, lost, harm>>

\* No slot or no page, and nothing is changed, or no room for the
\* descriptors: what has been taken is given back, but for the flag.
PipeFails(p) ==
    LET s == GetFreeGlobalFd
    IN  /\ \/ UNCHANGED GlobalFileTable
           \/ /\ s # -1 /\ PipeFds(p)[2] = -1
              /\ GlobalFileTable' = [GlobalFileTable EXCEPT ![s].flag = "pipe", ![s].fd_pos = 2]
        /\ UNCHANGED <<fd, workDir, inodes, entries, call, lost, harm>>

\* A standard stream is set back, or takes the slot of another descriptor
\* without being counted.  What it had before is closed, counted or not.
fd_redirect(p, std, new) ==
    /\ std \in STD_FD
    /\ IF new = -1
       THEN /\ fd' = [fd EXCEPT ![p][std] = -1]
            /\ UNCHANGED <<GlobalFileTable, workDir, inodes, entries, call, lost, harm>>
       ELSE IF fd[p][std] # -1 /\ GlobalFileTable[fd[p][std]].flag # "pipe"
       THEN Harm("an uncounted descriptor is closed")
       ELSE /\ fd' = [fd EXCEPT ![p][std] = fd[p][new]]
            /\ UNCHANGED <<GlobalFileTable, workDir, inodes, entries, call, lost, harm>>

\* Wrong: a pipe is not counted.
CountFiles(s, d) ==
    LET g == s.fds[d]
    IN  IF g = -1 \/ s.table[g].flag = "pipe" THEN s
        ELSE [s EXCEPT !.nodes[s.table[g].inode].open_cnt = @ + 1]

\* UpdateInode for one descriptor of a child.
UpdateInode(s, d) ==
    LET g == s.fds[d]
    IN  IF g = -1 THEN s
        ELSE IF s.table[g].flag = "pipe" THEN [s EXCEPT !.table[g].fd_pos = @ + 1]
        ELSE [s EXCEPT !.nodes[s.table[g].inode].open_cnt = @ + 1]

\* syscall_fork, as far as the child c has a copy of what p has open: the
\* working directory is copied without being counted.
ForkFiles(p, c) ==
    /\ SetState(c, MapThenFoldSet(LAMBDA d, s : UpdateInode(s, d), State(p), LAMBDA d : d, Max, Given))
    /\ workDir' = [workDir EXCEPT ![c] = workDir[p]]
    /\ UNCHANGED <<entries, call, lost, harm>>

-----------------------------------------------------------------------------
(* Calls on a path: the name is looked for, and its inode opened *)

\* syscall_open, syscall_chdir, syscall_unlink and syscall_rmdir begin:
\* SearchFile reads the directory.
Search(p, for, n) ==
    /\ call[p] = NoCall
    /\ \/ for \in {"read", "write", "create"} /\ n \in Files
       \/ for = "chdir" /\ n \in Dirs /\ inodes[n].open_cnt < MaxOpen
       \/ for = "remove" /\ n \in Files \cup Dirs
    /\ call' = [call EXCEPT ![p] = [at |-> "search", for |-> for, name |-> n, slot |-> -1]]
    /\ UNCHANGED <<tableVars, workDir, entries, lost, harm>>

\* The end of file_open, with the inode counted in nodes.  A file that is
\* denied to the writer keeps the count and the slot.
OpenFile(p, s, nodes) ==
    LET n == call[p].name
        writes == call[p].for = "write"
        opened == [inode |-> n, flag |-> call[p].for, fd_pos |-> 0]
        denying == IF writes THEN [nodes EXCEPT ![n].write_deny = TRUE] ELSE nodes
        d == FreeFd(fd[p])
    IN  IF GlobalFileTable[s].inode # None THEN Harm("two opens take one slot")
        ELSE IF writes /\ nodes[n].write_deny
        THEN /\ GlobalFileTable' = [GlobalFileTable EXCEPT ![s] = opened]
             /\ inodes' = nodes
             /\ lost' = [lost EXCEPT ![n] = @ + 1]
             /\ Return(p, -1)
             /\ UNCHANGED <<fd, workDir, entries, harm>>
        ELSE IF d = -1
        THEN /\ GlobalFileTable' = [GlobalFileTable EXCEPT ![s] = NoFile]
             /\ inodes' = InodeClose(denying, n)
             /\ Return(p, -1)
             /\ UNCHANGED <<fd, workDir, entries, lost, harm>>
        ELSE /\ GlobalFileTable' = [GlobalFileTable EXCEPT ![s] = opened]
             /\ inodes' = denying
             /\ fd' = [fd EXCEPT ![p] = ProcessInstallFd(@, s)]
             /\ Return(p, d)
             /\ UNCHANGED <<workDir, entries, lost, harm>>

\* The end of syscall_chdir to n: the directory of before is closed, whoever
\* has opened it.
ChangeDir(p, n, nodes) ==
    LET old == workDir[p]
        left == IF old = Root THEN nodes ELSE InodeClose(nodes, old)
    IN  IF old # Root /\ left[old].open_cnt = 0 /\ \E q \in Processes \ {p} : workDir[q] = old
        THEN Harm("a directory is closed that another works in")
        ELSE /\ inodes' = left
             /\ workDir' = [workDir EXCEPT ![p] = n]
             /\ Return(p, 1)
             /\ UNCHANGED <<GlobalFileTable, fd, entries, lost, harm>>

\* syscall_chdir to "/", for which nothing is read.  That the root's count
\* goes up, and down when it is left, is not followed.
ChdirRoot(p) == call[p] = NoCall /\ ChangeDir(p, Root, inodes)

\* Wrong: what others have open is removed all the same.
UnlinkAnyway(p, nodes) ==
    /\ inodes' = nodes
    /\ WaitAt(p, "remove", -1)
    /\ UNCHANGED <<GlobalFileTable, fd, workDir, entries, lost, harm>>

\* syscall_unlink and syscall_rmdir: what others have open is not removed.
Unlink(p, nodes) ==
    LET n == call[p].name
    IN  /\ IF nodes[n].open_cnt >= 2
           THEN inodes' = InodeClose(nodes, n) /\ Return(p, 0)
           ELSE inodes' = nodes /\ WaitAt(p, "remove", -1)
        /\ UNCHANGED <<GlobalFileTable, fd, workDir, entries, lost, harm>>

Use(p, s, nodes) ==
    \/ call[p].for \in {"read", "write"} /\ OpenFile(p, s, nodes)
    \/ call[p].for = "chdir" /\ ChangeDir(p, call[p].name, nodes)
    \/ call[p].for = "remove" /\ Unlink(p, nodes)

\* InodeOpen: what is in memory is counted; else the disk is waited for.
InodeOpen(p, s) ==
    LET n == call[p].name
    IN  IF ~Listed(n)
        THEN WaitAt(p, "inode", s) /\ UNCHANGED <<tableVars, workDir, entries, lost, harm>>
        ELSE IF OthersAt(p, {"remove", "unlisted"}) /\ call[p].for # "remove"
        THEN Harm("what is being removed is opened")
        ELSE Use(p, s, [inodes EXCEPT ![n].open_cnt = @ + 1])

\* The inode has been read.  Whether it has come into memory meanwhile is not
\* looked at.
InodeRead(p) ==
    LET n == call[p].name
    IN  /\ call[p].at = "inode"
        /\ IF Listed(n) \/ OthersAt(p, {"create", "made"})
           THEN Harm("an inode is in memory twice")
           ELSE IF n \notin entries THEN Harm("what is being removed is opened")
           ELSE Use(p, call[p].slot, [inodes EXCEPT ![n].open_cnt = 1])

\* The first part of file_create, up to the first wait: the inode is in the
\* table but not yet in the list of open inodes.
file_create(p) ==
    LET n == call[p].name
        s == GetFreeGlobalFd
    IN  IF Listed(n) \/ OthersAt(p, {"create"}) THEN Harm("a name is made twice")
        ELSE /\ IF s = -1 THEN Return(p, -1) /\ UNCHANGED GlobalFileTable
                ELSE /\ GlobalFileTable' = [GlobalFileTable EXCEPT ![s] =
                                               [inode |-> n, flag |-> "write", fd_pos |-> 0]]
                     /\ WaitAt(p, "create", s)
             /\ UNCHANGED <<fd, workDir, inodes, entries, lost, harm>>

\* The directory has been read: the name is there, or it is not; and for an
\* open there is a slot, or there is none.
Found(p) ==
    LET for == call[p].for
        found == call[p].name \in entries
        opens == for \in {"read", "write"}
        s == IF opens THEN GetFreeGlobalFd ELSE -1
    IN  /\ call[p].at = "search"
        /\ \/ /\ found = (for = "create") \/ (opens /\ s = -1)
              /\ Return(p, IF for \in {"chdir", "remove"} THEN 0 ELSE -1)
              /\ UNCHANGED <<tableVars, workDir, entries, lost, harm>>
           \/ for = "create" /\ ~found /\ file_create(p)
           \/ for # "create" /\ found /\ (opens => s # -1) /\ InodeOpen(p, s)

\* CreateDirEntry in file_create: the entry is on the disk, or there is no
\* room for it.
EntryMade(p) ==
    /\ call[p].at = "create"
    /\ \/ /\ entries' = entries \cup {call[p].name}
          /\ WaitAt(p, "made", call[p].slot)
          /\ UNCHANGED GlobalFileTable
       \/ /\ GlobalFileTable' = [GlobalFileTable EXCEPT ![call[p].slot] = NoFile]
          /\ Return(p, -1)
          /\ UNCHANGED entries
    /\ UNCHANGED <<fd, workDir, inodes, lost, harm>>

\* The end of file_create.  Without room for the descriptor the file stays
\* open for nobody.
Created(p) ==
    LET n == call[p].name
        d == FreeFd(fd[p])
    IN  /\ call[p].at = "made"
        /\ inodes' = [inodes EXCEPT ![n].open_cnt = 1]
        /\ fd' = [fd EXCEPT ![p] = ProcessInstallFd(@, call[p].slot)]
        /\ lost' = [lost EXCEPT ![n] = IF d = -1 THEN @ + 1 ELSE @]
        /\ Return(p, d)
        /\ UNCHANGED <<GlobalFileTable, workDir, entries, harm>>

\* The entry is gone from the directory.  unlink has recycled the inode
\* before, rmdir does it after.
EntryGone(p) ==
    /\ call[p].at = "remove"
    /\ entries' = entries \ {call[p].name}
    /\ WaitAt(p, "unlisted", -1)
    /\ UNCHANGED <<tableVars, workDir, lost, harm>>

Removed(p) ==
    /\ call[p].at = "unlisted"
    /\ inodes' = InodeClose(inodes, call[p].name)
    /\ Return(p, 1)
    /\ UNCHANGED <<GlobalFileTable, fd, workDir, entries, lost, harm>>

\* What a call does when the disk has answered it.
AfterDisk(p) ==
    Found(p) \/ InodeRead(p) \/ EntryMade(p) \/ Created(p) \/ EntryGone(p) \/ Removed(p)

\* The caller of a call that has waited goes on.
Returned(p) == call[p].at = "done" /\ call' = [call EXCEPT ![p] = NoCall]
Result(p) == call[p].slot

-----------------------------------------------------------------------------
(* Properties *)

\* A descriptor, a redirected one too, leads to a slot in use: to the page of
\* its pipe, or to a file that is in memory and has not been removed; and a
\* working directory is in memory and has not been removed.
DescriptorsLive ==
    harm = "none" =>
    \A p \in Processes :
        /\ \A d \in Fds : fd[p][d] # -1 =>
              LET file == GlobalFileTable[fd[p][d]]
              IN  IF file.flag = "pipe" THEN file.inode = Pipe
                  ELSE file.inode \in Files \cap entries /\ Listed(file.inode)
        /\ workDir[p] # Root => workDir[p] \in entries /\ Listed(workDir[p])

Leading(S) == {x \in Processes \X Given : fd[x[1]][x[2]] \in S}

\* The count of a pipe is that of the descriptors of all the processes that
\* lead to it, and it is given up with the last.  The open count of a file is
\* that of its descriptors, the call that removes it, and the opens that are
\* known to be lost.
CountsRight ==
    harm = "none" =>
    /\ \A s \in Slots : GlobalFileTable[s].inode = Pipe =>
          /\ GlobalFileTable[s].fd_pos = Cardinality(Leading({s}))
          /\ GlobalFileTable[s].fd_pos > 0
    /\ \A n \in Files : inodes[n].open_cnt =
          Cardinality(Leading({s \in Slots : GlobalFileTable[s].inode = n}))
          + Cardinality({p \in Processes : call[p].at \in {"remove", "unlisted"} /\ call[p].name = n})
          + lost[n]
=============================================================================
