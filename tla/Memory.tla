------------------------------- MODULE Memory -------------------------------
(***************************************************************************)
(* The memory of kernel/memory.c, with the processes that take it and give *)
(* it back (userprog/process.c, fork.c, exec.c, wait_exit.c): the pools of *)
(* physical pages, the bitmap of virtual pages and the page tables of the  *)
(* kernel and of each process, and the arenas of malloc.                   *)
(*                                                                         *)
(* Every operation here runs to its end in a system call, with interrupts  *)
(* off and without waiting for a device, so it is one step.  The kernel's  *)
(* own page tables are all there from boot.  What is in a page is left     *)
(* out, but for the header of an arena.                                    *)
(***************************************************************************)
EXTENDS Bitmap, SequencesExt

CONSTANTS Kernel,    \* the address space of the kernel
          Procs,     \* the processes, and with them their address spaces
          Root,      \* the process ProcessExe makes at boot, init
          PoolLen,   \* the physical pages of the pools "kernel" and "user"
          SpaceLen,  \* the virtual pages of the kernel, and of each process
          TableSpan, \* the pages of one page table, 1024 in the code
          BitmapLen, \* the bytes of the bitmap of a process, 94199 in the code
          PageSize,  \* the bytes of a page, for that bitmap alone
          BlockCnt,  \* CntPerPage of each descriptor of block sizes
          Sizes,     \* bound: the pages segments and large requests need
          MaxHeld    \* bound: what malloc has handed out at a time

ASSUME MemoryAssumption ==
    /\ Root \in Procs /\ Kernel \notin Procs
    /\ PoolLen \in [{"kernel", "user"} -> Nat]
    /\ SpaceLen \in [{"kernel", "user"} -> Nat \ {0}]
    /\ TableSpan \in Nat \ {0} /\ BitmapLen \in Nat /\ PageSize \in Nat \ {0}
    /\ BlockCnt \in Seq(Nat \ {0}) /\ Sizes \subseteq Nat \ {0} /\ MaxHeld \in Nat

VARIABLES mem,   \* the pools, bitmaps and page tables, and how the last call ended
          proc,  \* where the kernel keeps each process
          arena, \* the header of each arena of a space
          free,  \* freeMemoryBlock of each descriptor of a space
          held   \* what malloc has handed out and nobody has given back

vars == <<mem, proc, arena, free, held>>

Spaces == Procs \cup {Kernel}
Classes == DOMAIN BlockCnt

\* The pool and the bitmap length of an address space: KERNEL or USER.
Owner(s) == IF s = Kernel THEN "kernel" ELSE "user"

Empty == [x \in {} |-> 0]

\* f with y at x.
With(f, x, y) == [z \in DOMAIN f \cup {x} |-> IF z = x THEN y ELSE f[z]]

Area(v, n) == v .. v + n - 1

\* mem.err within a call: "none", "nomem" if it found no page, "fault" if it
\* stopped the system on a page that is not there, "assert" in an ASSERT that
\* failed.  A call that stops the system leaves nothing else to look at.
Up == mem.err = "none"

End(m) == CASE m.err = "none" -> m
            [] m.err = "nomem" -> [m EXCEPT !.err = "none"]
            [] OTHER -> [mem EXCEPT !.err = m.err]

-----------------------------------------------------------------------------
(* Pages *)

Palloc(m, pool) == BitMapAllocate(m.pool[pool], PoolLen[pool], 1)

VaddrGet(m, s, n) == BitMapAllocate(m.vpool[s], SpaceLen[Owner(s)], n)

Table(v) == v \div TableSpan

\* Whether the entry of the page directory is there.
HasTable(m, s, v) == s = Kernel \/ Table(v) \in DOMAIN m.tables[s]

\* AddToPageTable.  With no page left for a new page table it maps nothing,
\* and its callers go on to touch the page.
AddToPageTable(m, s, phys, v) ==
    LET mapped == [m EXCEPT !.map[s] = With(@, v, phys)]
        t == Palloc(m, "kernel")
    IN  CASE v \in DOMAIN m.map[s] -> [m EXCEPT !.err = "assert"]
          [] v \notin DOMAIN m.map[s] /\ HasTable(m, s, v) -> mapped
          [] v \notin DOMAIN m.map[s] /\ ~ HasTable(m, s, v) /\ t = -1 ->
                [m EXCEPT !.err = "fault"]
          [] OTHER -> [mapped EXCEPT !.pool["kernel"] = @ \cup {t},
                                     !.tables[s] = With(@, Table(v), t)]

\* A physical page for virtual page v: GetOnePageWithoutOpBitmap.
MapPage(m, s, v) ==
    LET phys == Palloc(m, Owner(s))
    IN  IF phys = -1 THEN [m EXCEPT !.err = "nomem"]
        ELSE AddToPageTable([m EXCEPT !.pool[Owner(s)] = @ \cup {phys}], s, phys, v)

\* GetOnePage.
GetOnePage(m, s, v) == MapPage([m EXCEPT !.vpool[s] = @ \cup {v}], s, v)

\* GetOnePage of each of a set of pages, the lowest first, until it fails.
\* Where the bits are set beforehand, setting them again changes nothing.
GetPages(m, s, pages) ==
    MapThenFoldSet(LAMBDA v, acc : IF acc.err = "none" THEN GetOnePage(acc, s, v) ELSE acc,
                   m, LAMBDA v : v, Max, pages)

FreePage(m, s, v, n) ==
    [m EXCEPT !.pool[Owner(s)] = @ \ {m.map[s][w] : w \in Area(v, n)},
              !.map[s] = [w \in DOMAIN @ \ Area(v, n) |-> @[w]],
              !.vpool[s] = @ \ Area(v, n)]

\* malloc_page out of physical pages at page w of those from v on: it frees
\* what it has mapped, and begins by looking the first page up.
GiveUp(m, s, v, w) ==
    IF w = v /\ ~HasTable(m, s, v) THEN [m EXCEPT !.err = "fault"]
    ELSE FreePage(m, s, v, w - v)

\* The rest of malloc_page, when the virtual pages are found.
MapPages(m, s, v, n) ==
    LET got == GetPages([m EXCEPT !.vpool[s] = @ \cup Area(v, n)], s, Area(v, n))
    IN  IF got.err = "nomem" THEN GiveUp(got, s, v, Min(Area(v, n) \ DOMAIN got.map[s]))
        ELSE got

\* malloc_page: n pages of a space, at VaddrGet(m, s, n).
MallocPage(m, s, n) ==
    LET v == VaddrGet(m, s, n)
    IN  IF m.err # "none" THEN m
        ELSE IF v = -1 THEN [m EXCEPT !.err = "nomem"]
        ELSE MapPages(m, s, v, n)

\* A call that asserts its result, or writes to it without looking.
Must(m) == IF m.err = "nomem" THEN [m EXCEPT !.err = "fault"] ELSE m

-----------------------------------------------------------------------------
(* Processes *)

\* The pages of a process's bitmap, rounded up when they are asked for and
\* down when they are given back.
BitmapPages == (BitmapLen + PageSize - 1) \div PageSize
ReleasedPages == BitmapLen \div PageSize

Unused == [state |-> "unused", pcb |-> -1, bits |-> -1, dir |-> -1]

\* mem_init.
Init ==
    /\ mem = [pool   |-> [p \in {"kernel", "user"} |-> {}],
              vpool  |-> [s \in Spaces |-> {}],
              map    |-> [s \in Spaces |-> Empty],
              tables |-> [s \in Procs |-> Empty],
              err    |-> "none"]
    /\ proc = [p \in Procs |-> Unused]
    /\ arena = [s \in Spaces |-> Empty]
    /\ free = [s \in Spaces |-> [c \in Classes |-> <<>>]]
    /\ held = [s \in Spaces |-> {}]

Alive(p) == Up /\ proc[p].state = "alive"

\* ProcessExe, and ProcessStart when the process first runs.
ProcessExe ==
    /\ Up /\ proc[Root].state = "unused"
    /\ LET m1 == Must(MallocPage(mem, Kernel, 1))
           m2 == Must(MallocPage(m1, Kernel, BitmapPages))
           m3 == Must(MallocPage(m2, Kernel, 1))
       IN  /\ mem' = End(Must(GetPages(m3, Root, {SpaceLen["user"] - 1})))
           /\ proc' = [proc EXCEPT ![Root] =
                 [state |-> "alive", pcb  |-> VaddrGet(mem, Kernel, 1),
                  bits |-> VaddrGet(m1, Kernel, BitmapPages),
                  dir |-> VaddrGet(m2, Kernel, 1)]]
    /\ UNCHANGED <<arena, free, held>>

\* CopyStack3: each page whose bit is set in the father's bitmap is copied.
CopyStack3(m, p, c) ==
    IF m.err # "none" THEN m
    ELSE IF ~(m.vpool[p] \subseteq DOMAIN m.map[p]) THEN [m EXCEPT !.err = "fault"]
    ELSE Must(GetPages([m EXCEPT !.vpool[c] = m.vpool[p]], c, m.vpool[p]))

\* The child of a fork: its descriptors of block sizes are new and empty.
syscall_fork(p, c) ==
    /\ Alive(p) /\ proc[c].state = "unused" /\ c # Root
    /\ LET m1 == MallocPage(mem, Kernel, 1)
           m2 == Must(MallocPage(m1, Kernel, 1))
           m3 == Must(MallocPage(m2, Kernel, BitmapPages))
           m4 == Must(MallocPage(m3, Kernel, 1))
           m5 == CopyStack3(m4, p, c)
       IN  IF m1.err # "none" THEN UNCHANGED <<mem, proc>>
           ELSE /\ mem' = IF m5.err # "none" THEN End(m5)
                          ELSE FreePage(m5, Kernel, VaddrGet(m1, Kernel, 1), 1)
                /\ proc' = [proc EXCEPT ![c] =
                      [state |-> "alive", pcb |-> VaddrGet(mem, Kernel, 1),
                       bits |-> VaddrGet(m2, Kernel, BitmapPages),
                       dir |-> VaddrGet(m3, Kernel, 1)]]
    /\ UNCHANGED <<arena, free, held>>

\* Wrong: a page that is there is taken again.
SegmentLoadAgain(p, first, n) ==
    /\ Alive(p) /\ p # Root /\ arena[p] = Empty /\ first + n <= SpaceLen["user"]
    /\ mem' = End(GetPages(mem, p, Area(first, n)))
    /\ UNCHANGED <<proc, arena, free, held>>

\* SegmentLoad: the pages of a segment that are not there yet, until one is
\* missing.  A process execs before it uses malloc, as the shell's children do;
\* init never does.
SegmentLoad(p, first, n) ==
    /\ Alive(p) /\ p # Root /\ arena[p] = Empty /\ first + n <= SpaceLen["user"]
    /\ mem' = End(GetPages(mem, p, Area(first, n) \ DOMAIN mem.map[p]))
    /\ UNCHANGED <<proc, arena, free, held>>

\* Wrong: the page tables stay.
ReleaseKeepsTables(m, p) ==
    [m EXCEPT !.pool["user"] = @ \ {m.map[p][v] : v \in DOMAIN m.map[p]},
              !.map[p] = Empty, !.tables[p] = Empty, !.vpool[p] = {}]

\* ReleaseProcessResource: what the page directory leads to, ...
ReleaseUserPages(m, p) ==
    [m EXCEPT !.pool["user"] = @ \ {m.map[p][v] : v \in DOMAIN m.map[p]},
              !.pool["kernel"] = @ \ {m.tables[p][t] : t \in DOMAIN m.tables[p]},
              !.map[p] = Empty, !.tables[p] = Empty, !.vpool[p] = {}]

\* ... and the bitmap, in syscall_exit.
syscall_exit(p) ==
    /\ Alive(p) /\ p # Root
    /\ mem' = FreePage(ReleaseUserPages(mem, p), Kernel, proc[p].bits, ReleasedPages)
    /\ proc' = [proc EXCEPT ![p].state = "hanging"]
    /\ arena' = [arena EXCEPT ![p] = Empty]
    /\ free' = [free EXCEPT ![p] = [c \in Classes |-> <<>>]]
    /\ held' = [held EXCEPT ![p] = {}]

\* Wrong: the page directory stays.
ThreadExitKeepsDirectory(p) ==
    /\ Up /\ proc[p].state = "hanging"
    /\ mem' = FreePage(mem, Kernel, proc[p].pcb, 1)
    /\ proc' = [proc EXCEPT ![p] = Unused]
    /\ UNCHANGED <<arena, free, held>>

\* ThreadExit of a child that hangs, from its father's wait.
ThreadExit(p) ==
    /\ Up /\ proc[p].state = "hanging"
    /\ mem' = FreePage(FreePage(mem, Kernel, proc[p].dir, 1), Kernel, proc[p].pcb, 1)
    /\ proc' = [proc EXCEPT ![p] = Unused]
    /\ UNCHANGED <<arena, free, held>>

-----------------------------------------------------------------------------
(* malloc and free: a process takes from its own space, or from the kernel's *)
(* while its page directory is hidden, as for the inodes that all share.     *)

MayCall(s) == Up /\ s \in {Kernel} \cup {p \in Procs : proc[p].state = "alive"}

HeldCount == MapThenSumSet(LAMBDA s : Cardinality(held[s]), Spaces)

\* A request of more than 1024 bytes: the arena is the n pages it needs.
MallocLarge(s, n) ==
    /\ MayCall(s) /\ HeldCount < MaxHeld
    /\ LET m == MallocPage(mem, s, n)
           v == VaddrGet(mem, s, n)
       IN  /\ mem' = End(m)
           /\ IF m.err # "none" THEN UNCHANGED <<arena, held>>
              ELSE /\ arena' = [arena EXCEPT ![s] = With(@, v, [class |-> 0, cnt |-> n])]
                   /\ held' = [held EXCEPT ![s] = @ \cup {[page |-> v, idx |-> 0]}]
    /\ UNCHANGED <<proc, free>>

\* A request that a block of class c is the least to satisfy.
MallocBlock(s, c) ==
    /\ MayCall(s) /\ HeldCount < MaxHeld
    /\ LET new == free[s][c] = <<>>
           m == IF new THEN MallocPage(mem, s, 1) ELSE mem
           v == VaddrGet(mem, s, 1)
           list == IF new THEN [i \in 1 .. BlockCnt[c] |-> [page |-> v, idx |-> i - 1]]
                   ELSE free[s][c]
           b == Head(list)
           cnt == IF new THEN BlockCnt[c] ELSE arena[s][b.page].cnt
       IN  /\ mem' = End(m)
           /\ IF m.err # "none" THEN UNCHANGED <<arena, free, held>>
              ELSE /\ arena' = [arena EXCEPT ![s] =
                                   With(@, b.page, [class |-> c, cnt |-> cnt - 1])]
                   /\ free' = [free EXCEPT ![s][c] = Tail(list)]
                   /\ held' = [held EXCEPT ![s] = @ \cup {b}]
    /\ UNCHANGED proc

FreeLarge(s, b) ==
    /\ MayCall(s) /\ b \in held[s] /\ arena[s][b.page].class = 0
    /\ mem' = FreePage(mem, s, b.page, arena[s][b.page].cnt)
    /\ arena' = [arena EXCEPT ![s] = [v \in DOMAIN @ \ {b.page} |-> @[v]]]
    /\ held' = [held EXCEPT ![s] = @ \ {b}]
    /\ UNCHANGED <<proc, free>>

\* Wrong: the blocks of a page that is given back stay on the list.
KeepBlocks(list, v) == list

\* The list without the blocks of page v.
WithoutPage(list, v) ==
    FoldLeft(LAMBDA kept, b : IF b.page = v THEN kept ELSE Append(kept, b), << >>, list)

\* A block goes to the back of its descriptor's list; the page goes back to
\* the pool when all its blocks are there.
FreeBlock(s, b) ==
    /\ MayCall(s) /\ b \in held[s] /\ arena[s][b.page].class # 0
    /\ LET v == b.page
           c == arena[s][v].class
           cnt == arena[s][v].cnt + 1
           list == Append(free[s][c], b)
       IN  IF cnt = BlockCnt[c]
           THEN /\ free' = [free EXCEPT ![s][c] = WithoutPage(list, v)]
                /\ arena' = [arena EXCEPT ![s] = [w \in DOMAIN @ \ {v} |-> @[w]]]
                /\ mem' = FreePage(mem, s, v, 1)
           ELSE /\ free' = [free EXCEPT ![s][c] = list]
                /\ arena' = [arena EXCEPT ![s][v].cnt = cnt]
                /\ mem' = mem
    /\ held' = [held EXCEPT ![s] = @ \ {b}]
    /\ UNCHANGED proc

Next ==
    \/ ProcessExe
    \/ \E p, c \in Procs : syscall_fork(p, c)
    \/ \E p \in Procs, first \in 0 .. SpaceLen["user"], n \in Sizes \cup {1} :
          SegmentLoad(p, first, n)
    \/ \E p \in Procs : syscall_exit(p) \/ ThreadExit(p)
    \/ \E s \in Spaces, n \in Sizes : MallocLarge(s, n)
    \/ \E s \in Spaces, c \in Classes : MallocBlock(s, c)
    \/ \E s \in Spaces : \E b \in held[s] : FreeLarge(s, b) \/ FreeBlock(s, b)

Spec == Init /\ [][Next]_vars

-----------------------------------------------------------------------------
(* Properties *)

\* What uses a page of a pool: a virtual page of a space, or a page table.
Users(pool) ==
    (UNION {{<<s, "page", v>> : v \in DOMAIN mem.map[s]} : s \in {x \in Spaces : Owner(x) = pool}})
    \cup (IF pool = "user" THEN {}
          ELSE UNION {{<<p, "table", t>> : t \in DOMAIN mem.tables[p]} : p \in Procs})

PageOf(u) == IF u[2] = "page" THEN mem.map[u[1]][u[3]] ELSE mem.tables[u[1]][u[3]]

\* Every page taken from a pool has one user, and every page in use is taken:
\* whatever fails, forks, execs and exits, no page is given to two and none
\* is lost to the pool.
PagesAccounted ==
    Up => \A pool \in {"kernel", "user"} :
              /\ mem.pool[pool] = {PageOf(u) : u \in Users(pool)}
              /\ Cardinality(mem.pool[pool]) = Cardinality(Users(pool))

\* The ASSERT of AddToPageTable: no virtual page is mapped while it is mapped,
\* although exec, malloc and the stack choose virtual pages in different ways.
NoPageMappedTwice == mem.err # "assert"

ArenaPages(s) ==
    UNION {Area(v, IF arena[s][v].class = 0 THEN arena[s][v].cnt ELSE 1) : v \in DOMAIN arena[s]}

\* The kernel's pages of a process: the end of the bitmap is nobody's once it exits.
ProcessPages(p) ==
    IF proc[p].state = "unused" THEN {}
    ELSE {proc[p].pcb, proc[p].dir}
         \cup (IF proc[p].state = "alive" THEN Area(proc[p].bits, BitmapPages) ELSE {})

Ownerless ==
    DOMAIN mem.map[Kernel] \ (ArenaPages(Kernel) \cup UNION {ProcessPages(p) : p \in Procs})

\* No call leaves a page of the kernel without an owner, but exit: it rounds
\* the bitmap of the process down, and leaves its last page behind.
KernelPagesOwned ==
    [][Up' => \/ Ownerless' = Ownerless
              \/ \E p \in Procs :
                    /\ proc[p].state = "alive" /\ proc'[p].state = "hanging"
                    /\ Ownerless \subseteq Ownerless'
                    /\ Cardinality(Ownerless' \ Ownerless) = BitmapPages - ReleasedPages]_vars

\* malloc's books: the blocks of a page are on their list or handed out, each
\* once, the header counts those on the list, a page with none handed out is
\* given back, and all of it lies in pages that are mapped.
HeapSound ==
    Up => \A s \in Spaces :
        /\ ArenaPages(s) \subseteq DOMAIN mem.map[s]
        /\ \A c \in Classes :
              /\ IsInjective(free[s][c])
              /\ \A b \in Range(free[s][c]) :
                    b \notin held[s] /\ b.page \in DOMAIN arena[s] /\ arena[s][b.page].class = c
        /\ \A v \in DOMAIN arena[s] :
              LET c == arena[s][v].class
                  out == {b \in held[s] : b.page = v}
              IN  IF c = 0 THEN out = {[page |-> v, idx |-> 0]}
                  ELSE LET in == {b \in Range(free[s][c]) : b.page = v}
                       IN  /\ out # {} /\ arena[s][v].cnt = Cardinality(in)
                           /\ out \cup in = [page : {v}, idx : 0 .. BlockCnt[c] - 1]
=============================================================================
