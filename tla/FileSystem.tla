----------------------------- MODULE FileSystem -----------------------------
(***************************************************************************)
(* The file system of fs/: the bitmaps of inodes and sectors, in memory    *)
(* and on the disk, the inode table, and the blocks of directories, of     *)
(* files and of their indirect tables, under the system calls that change  *)
(* them and a restart between two calls.                                   *)
(*                                                                         *)
(* One call at a time: nothing in fs/ locks a directory or a bitmap, and   *)
(* calls that overlap are not modelled.  Here no file is open while it is  *)
(* removed; who has what open is in Files.  A block of a file is "data".   *)
(***************************************************************************)
EXTENDS Bitmap, SequencesExt

CONSTANTS Names,        \* the names of files and directories
          NInodes,      \* MAXFILE_PER_PART
          NSectors,     \* block_bitmap_len, the sectors of the data area
          DataLba,      \* where the data area begins
          BlockSectors, \* BLOCK_OCCUPY_SECTOR
          SectorSize,   \* the bytes of a sector
          Direct,       \* the addresses in an inode, 12 in the code
          Indirect,     \* the addresses in an indirect table
          Slots,        \* the whole entries in a block of a directory, 170
          SectorEntries,   \* those in its first sector, 21
          SectorAddresses, \* the addresses in the first sector of a table, 128
          BlockSize,    \* the bytes of a block, for the sizes of files
          WriteSizes    \* bound: the bytes of a write

ASSUME FileSystemAssumption ==
    /\ Names \cap {".", ".."} = {}
    /\ NInodes \in Nat \ {0} /\ NSectors \in Nat /\ DataLba \in Nat \ {0}
    /\ BlockSectors \in Nat \ {0} /\ SectorSize \in Nat \ {0}
    /\ Direct \in Nat \ {0} /\ Indirect \in Nat \ {0} /\ Slots \in Nat \ {0, 1}
    /\ SectorEntries \in 2 .. Slots /\ SectorAddresses \in 1 .. Indirect
    /\ BlockSize \in Nat \ {0} /\ WriteSizes \subseteq Nat \ {0}

VARIABLES mem,   \* CurPartition's bitmaps, and the inode of rootDir
          disk,  \* the bitmaps, the inode table and the blocks, by address
          harm   \* how a call stopped the system or did it harm, or "none"

vars == <<mem, disk, harm>>

SectorBits == 8 * SectorSize
BitmapSectors == (NSectors + SectorBits - 1) \div SectorBits
BitmapLen == BitmapSectors * SectorBits

\* What a call works on, and leaves.
Now == [mem |-> mem, disk |-> disk, harm |-> harm]

Leave(s) == mem' = s.mem /\ disk' = s.disk /\ harm' = s.harm

Unused == [name |-> "", index |-> 0, type |-> "unknown"]
Entry(name, index, type) == [name |-> name, index |-> index, type |-> type]

ZeroBlock == [i \in 1 .. Slots |-> Unused]
ZeroTable == [i \in 1 .. Indirect |-> 0]

\* InodeInit: the last address is that of the indirect table.
NewInode(i) == [index |-> i, size |-> 0, sectors |-> [k \in 1 .. Direct + 1 |-> 0]]

-----------------------------------------------------------------------------
(* Format and mount *)

\* partition_format: the last bits of the bitmap are set, but for one too few.
Formatted ==
    [inode_bitmap  |-> {0},
     sector_bitmap |-> 0 .. BlockSectors - 1 \cup NSectors + 1 .. BitmapLen - 1,
     inodes |-> [i \in 0 .. NInodes - 1 |->
                    IF i = 0 THEN [NewInode(0) EXCEPT !.size = 2, !.sectors[1] = DataLba]
                    ELSE NewInode(i)],
     blocks |-> DataLba :> [ZeroBlock EXCEPT ![1] = Entry(".", 0, "dir"),
                                            ![2] = Entry("..", 0, "dir")]]

\* mount_partition, and the inode of the root that FileSystem_init opens.
Mounted(d) == [inode_bitmap  |-> d.inode_bitmap,
               sector_bitmap |-> d.sector_bitmap,
               rootDir       |-> d.inodes[0]]

Init == disk = Formatted /\ mem = Mounted(disk) /\ harm = "none"

\* The machine is started anew between two calls; it is never shut down.
Restart == harm = "none" /\ mem' = Mounted(disk) /\ UNCHANGED <<disk, harm>>

-----------------------------------------------------------------------------
(* Bitmaps and inodes *)

\* Wrong: the bitmap stays in memory.
UpdateNothing(s, bitmap, idx) == s

\* The sector of a bitmap that idx is in is written to the disk.
BitMapUpdate(s, bitmap, idx) ==
    LET sector == {i \in 0 .. BitmapLen + NInodes : i \div SectorBits = idx \div SectorBits}
    IN  [s EXCEPT !.disk[bitmap] = (@ \ sector) \cup (s.mem[bitmap] \cap sector)]

\* The inode of an index; the root's is always open, and in memory.
InodeOpen(s, i) == IF i = 0 THEN s.mem.rootDir ELSE s.disk.inodes[i]

InodeWrite(s, inode) ==
    [s EXCEPT !.disk.inodes[inode.index] = inode,
              !.mem.rootDir = IF inode.index = 0 THEN inode ELSE @]

InodeBitmapAllocate(s) == BitMapAllocate(s.mem.inode_bitmap, NInodes, 1)

Run(idx) == idx .. idx + BlockSectors - 1

BlockBitmapAllocate(s) == BitMapAllocate(s.mem.sector_bitmap, BitmapLen, BlockSectors)

SetBlock(s, idx) == [s EXCEPT !.mem.sector_bitmap = @ \cup Run(idx)]
BlockBitMapReset(s, idx) == [s EXCEPT !.mem.sector_bitmap = @ \ Run(idx)]

WriteBlock(s, lba, content) == [s EXCEPT !.disk.blocks = (lba :> content) @@ @]

\* The blocks of an inode, as addr_buf is filled: the addresses of the inode,
\* and those of its indirect table; tail is what the buffer held before.
Addresses(s, inode, tail) ==
    LET table == inode.sectors[Direct + 1]
    IN  SubSeq(inode.sectors, 1, Direct) \o (IF table = 0 THEN tail ELSE s.disk.blocks[table])

\* A new block of a file, whose number is i; 0 if there is none.
NoBlock(s, inode) == [s |-> s, inode |-> inode, lba |-> 0]

AllocateIndirectBlock(s, inode) ==
    LET idx0 == BlockBitmapAllocate(s)
        s0 == SetBlock(s, idx0)
        idx1 == BlockBitmapAllocate(s0)
        table == inode.sectors[Direct + 1]
        free == {i \in 1 .. Indirect : s.disk.blocks[table][i] = 0}
    IN  IF idx0 = -1 THEN NoBlock(s, inode)
        ELSE IF table # 0
        THEN IF free = {} THEN NoBlock(s, inode)
             ELSE LET s1 == WriteBlock(s0, table,
                              [s.disk.blocks[table] EXCEPT ![Min(free)] = idx0 + DataLba])
                  IN  [s |-> BitMapUpdate(s1, "sector_bitmap", idx0),
                       inode |-> inode, lba |-> idx0 + DataLba]
        ELSE IF idx1 = -1 THEN NoBlock(s, inode)
        ELSE LET s1 == WriteBlock(SetBlock(s0, idx1), DataLba + idx0,
                                  [ZeroTable EXCEPT ![1] = idx1 + DataLba])
             IN  [s |-> BitMapUpdate(BitMapUpdate(s1, "sector_bitmap", idx0), "sector_bitmap", idx1),
                  inode |-> [inode EXCEPT !.sectors[Direct + 1] = idx0 + DataLba],
                  lba |-> idx1 + DataLba]

\* For a direct block the sector of the bitmap is chosen by the address, not
\* by the index: harm is done when they are not in the same one.
AllocateOneBlock(s, inode, i) ==
    LET idx0 == BlockBitmapAllocate(s)
        lba == idx0 + DataLba
        s1 == BitMapUpdate(SetBlock(s, idx0), "sector_bitmap", lba)
    IN  IF i > Direct THEN AllocateIndirectBlock(s, inode)
        ELSE IF idx0 = -1 THEN NoBlock(s, inode)
        ELSE [s |-> IF (lba + BlockSectors - 1) \div SectorSize # lba \div SectorSize
                    THEN [s1 EXCEPT !.harm = "panic"]
                    ELSE IF lba \div SectorBits # idx0 \div SectorBits
                    THEN [s1 EXCEPT !.harm = "unsynced"] ELSE s1,
              inode |-> [inode EXCEPT !.sectors[i] = lba], lba |-> lba]

-----------------------------------------------------------------------------
(* Directories *)

\* The entries in use in the first n places of some blocks, in reading order.
Entries(s, blocks, n) ==
    LET Read(acc, lba) == acc \o SelectSeq(SubSeq(s.disk.blocks[lba], 1, n),
                                           LAMBDA e : e.type # "unknown")
    IN  FoldLeft(Read, <<>>, SelectSeq(blocks, LAMBDA lba : lba # 0))

\* The entries of a directory, as all but getcwd read them.
Listing(s, dir) == Entries(s, Addresses(s, dir, ZeroTable), Slots)

SearchDirEntry(s, dir, name) ==
    LET found == SelectSeq(Listing(s, dir), LAMBDA e : e.name = name)
    IN  IF found = <<>> THEN Unused ELSE Head(found)

\* The entry syscall_readdir returns at dir_pos, the how manieth it is.
syscall_readdir(s, dir, pos) == IF pos >= dir.size THEN Unused ELSE Listing(s, dir)[pos + 1]

\* SearchFile: what a path leads to, and the directory it is, or would be, in;
\* parent is -1 if that is missing.
SearchFile(s, path) ==
    LET Step(acc, k) ==
            LET e == SearchDirEntry(s, InodeOpen(s, acc.last), path[k])
                lost == [acc EXCEPT !.entry = Unused, !.done = TRUE,
                                    !.parent = IF k < Len(path) THEN -1 ELSE acc.last]
            IN  CASE acc.done -> acc
                  [] ~acc.done /\ e.type = "dir" ->
                        [acc EXCEPT !.entry = e, !.parent = acc.last, !.last = e.index]
                  [] ~acc.done /\ e.type = "file" /\ k = Len(path) ->
                        [acc EXCEPT !.entry = e, !.parent = acc.last, !.done = TRUE]
                  [] OTHER -> lost
    IN  IF path \in {<<>>, <<".">>, <<"..">>}
        THEN [entry |-> Entry("", 0, "dir"), parent |-> 0]
        ELSE LET r == FoldLeft(Step, [entry |-> Unused, parent |-> 0, last |-> 0, done |-> FALSE],
                               [k \in 1 .. Len(path) |-> k])
             IN  [entry |-> r.entry, parent |-> r.parent]

\* Wrong: the entry is not counted.
EnterUncounted(s, dir, new) ==
    LET Update(acc, idx) == BitMapUpdate(acc, "sector_bitmap", idx)
    IN  [s |-> InodeWrite(FoldLeft(Update, s, new), dir), inode |-> dir, ok |-> TRUE]

\* The end of CreateDirEntry: the bitmap of new blocks and the inode are written.
Enter(s, dir, new) ==
    LET counted == [dir EXCEPT !.size = @ + 1]
        Update(acc, idx) == BitMapUpdate(acc, "sector_bitmap", idx)
    IN  [s |-> InodeWrite(FoldLeft(Update, s, new), counted), inode |-> counted, ok |-> TRUE]

\* CreateDirEntry.  The entries do not fill a block: the loop over it also
\* tries the place across its end, whose type lies behind the buffer, and takes
\* it if that is blank.  What is put there is counted and lost.  A new direct
\* block is written from the buffer the last block was read into, with its
\* entries still there.  Both do harm.
CreateDirEntry(s, dir, e, blank) ==
    LET addr == Addresses(s, dir, ZeroTable)
        Place(i) == {k \in 1 .. Slots : s.disk.blocks[addr[i]][k].type = "unknown"}
        Fits(i) == addr[i] = 0 \/ Place(i) # {} \/ blank
        i == Min({j \in DOMAIN addr : Fits(j)} \cup {Len(addr) + 1})
        table == dir.sectors[Direct + 1]
        idx0 == BlockBitmapAllocate(s)
        s0 == SetBlock(s, idx0)
        idx1 == BlockBitmapAllocate(s0)
        lba0 == idx0 + DataLba
        lba1 == idx1 + DataLba
        stale == IF i = 1 THEN ZeroBlock ELSE s.disk.blocks[addr[i - 1]]
        fresh == [ZeroBlock EXCEPT ![1] = e]
        Fail == [s |-> s, inode |-> dir, ok |-> FALSE]
    IN  CASE i > Len(addr) -> Fail
          [] i <= Len(addr) /\ addr[i] # 0 /\ Place(i) = {} ->
                Enter([s EXCEPT !.harm = "overrun"], dir, <<>>)
          [] i <= Len(addr) /\ addr[i] # 0 /\ Place(i) # {} ->
                Enter(WriteBlock(s, addr[i], [s.disk.blocks[addr[i]] EXCEPT ![Min(Place(i))] = e]),
                      dir, <<>>)
          [] i <= Len(addr) /\ addr[i] = 0 /\ idx0 = -1 -> Fail
          [] i <= Direct /\ addr[i] = 0 /\ idx0 # -1 ->
                Enter([WriteBlock(s0, lba0, [stale EXCEPT ![1] = e]) EXCEPT
                          !.harm = IF i = 1 THEN @ ELSE "duplicates"],
                      [dir EXCEPT !.sectors[i] = lba0], <<idx0>>)
          [] i = Direct + 1 /\ addr[i] = 0 /\ idx0 # -1 ->
                IF idx1 = -1 THEN Fail
                ELSE Enter(WriteBlock(WriteBlock(SetBlock(s0, idx1), lba0, [ZeroTable EXCEPT ![1] = lba1]),
                                      lba1, fresh),
                           [dir EXCEPT !.sectors[i] = lba0], <<idx0, idx1>>)
          [] i \in Direct + 2 .. Len(addr) /\ addr[i] = 0 /\ idx0 # -1 ->
                Enter(WriteBlock(WriteBlock(s0, table,
                                    [s.disk.blocks[table] EXCEPT ![i - Direct] = lba0]), lba0, fresh),
                      dir, <<idx0>>)

\* DeleteDirectoryDirEntry: the first entry of the name.  s is unchanged if
\* there is none, which its callers ASSERT there is.
DeleteDirectoryDirEntry(s, dir, name) ==
    LET Has(lba) == {k \in 1 .. Slots : /\ s.disk.blocks[lba][k].type # "unknown"
                                        /\ s.disk.blocks[lba][k].name = name}
        lba == Head(SelectSeq(Addresses(s, dir, ZeroTable), LAMBDA x : x # 0 /\ Has(x) # {}))
    IN  InodeWrite(WriteBlock(s, lba, [s.disk.blocks[lba] EXCEPT ![Min(Has(lba))] = Unused]),
                   [dir EXCEPT !.size = @ - 1])

\* InodeRecycle: the inode, its indirect table and its blocks up to the first
\* that is missing.  Without a table the end of the buffer is what addr_buf held
\* before, in tail: it does harm to free blocks from there.  What the inode and
\* its blocks still hold on the disk is left out.
InodeRecycle(s, inode, tail) ==
    LET s1 == BitMapUpdate([s EXCEPT !.mem.inode_bitmap = @ \ {inode.index},
                                     !.disk.inodes[inode.index] = NewInode(inode.index)],
                           "inode_bitmap", inode.index)
        Free(acc, lba) ==
            BitMapUpdate([BlockBitMapReset(acc, lba - DataLba) EXCEPT
                             !.disk.blocks = [x \in DOMAIN @ \ {lba} |-> @[x]]],
                         "sector_bitmap", lba - DataLba)
        table == inode.sectors[Direct + 1]
        addr == Addresses(s, inode, tail)
        end == Min({i \in DOMAIN addr : addr[i] = 0} \cup {Len(addr) + 1})
        freed == FoldLeft(Free, IF table = 0 THEN s1 ELSE Free(s1, table), SubSeq(addr, 1, end - 1))
    IN  IF table = 0 /\ end > Direct + 1 THEN [freed EXCEPT !.harm = "others"] ELSE freed

-----------------------------------------------------------------------------
(* System calls *)

\* file_create, of the file a path would be; the table of open files is in Files.
\* With no place for the entry the roll-back frees the inode, which is from the
\* kernel's heap, as the user's: that does harm.
file_create(s, path, parent) ==
    LET idx == InodeBitmapAllocate(s)
        r == CreateDirEntry([s EXCEPT !.mem.inode_bitmap = @ \cup {idx}], InodeOpen(s, parent),
                            Entry(Last(path), idx, "file"), TRUE)
    IN  IF idx = -1 THEN s
        ELSE IF ~r.ok THEN [s EXCEPT !.harm = "foreign"]
        ELSE BitMapUpdate(InodeWrite(InodeWrite(r.s, r.inode), NewInode(idx)), "inode_bitmap", idx)

\* syscall_open with O_CREATE, by the shell: after a stat that finds nothing.
Create(path) ==
    LET found == SearchFile(Now, path)
    IN  /\ harm = "none"
        /\ found.parent # -1 /\ found.entry.type = "unknown"
        /\ Leave(file_create(Now, path, found.parent))

\* file_write of n bytes at pos: block by block, until there is none left.
file_write(s, inode, pos, n) ==
    LET addr == Addresses(s, inode, ZeroTable)
        WriteOne(acc, i) ==
            LET new == IF addr[i] # 0 THEN [s |-> acc.s, inode |-> acc.inode, lba |-> addr[i]]
                       ELSE AllocateOneBlock(acc.s, acc.inode, i)
                end == Min({pos + n, i * BlockSize})
            IN  IF acc.pos = pos + n \/ acc.full THEN acc
                ELSE IF new.lba = 0 THEN [acc EXCEPT !.s = new.s, !.full = TRUE]
                ELSE [s |-> WriteBlock(new.s, new.lba, "data"), inode |-> new.inode,
                      pos |-> end, full |-> FALSE]
        r == FoldLeft(WriteOne, [s |-> s, inode |-> inode, pos |-> pos, full |-> FALSE],
                      [k \in 1 .. Direct + Indirect - (pos \div BlockSize) |-> k + (pos \div BlockSize)])
    IN  InodeWrite(r.s, [r.inode EXCEPT !.size = Max({@, r.pos})])

\* syscall_write to a file that was opened, at its begin or, by seek, its end.
Write(path, n) ==
    LET e == SearchFile(Now, path).entry
        inode == InodeOpen(Now, e.index)
    IN  /\ harm = "none" /\ e.type = "file"
        /\ \E pos \in {0, inode.size} : Leave(file_write(Now, inode, pos, n))

syscall_unlink(path) ==
    LET found == SearchFile(Now, path)
        s1 == InodeRecycle(Now, InodeOpen(Now, found.entry.index), ZeroTable)
    IN  /\ harm = "none" /\ found.entry.type = "file"
        /\ Leave(DeleteDirectoryDirEntry(s1, InodeOpen(s1, found.parent), Last(path)))

\* syscall_mkdir.  With no inode left the roll-back resets bit -1 and stops in
\* an ASSERT; with no block left for ".", it leaves the entry in the father.
\* In the root it uses rootDir itself, and who knows what lies behind that;
\* all other buffers have just been allocated, and the page is blank.
syscall_mkdir(path) == \E blank \in IF Len(path) = 1 THEN BOOLEAN ELSE {TRUE} :
    LET found == SearchFile(Now, path)
        idx == InodeBitmapAllocate(Now)
        taken == [Now EXCEPT !.mem.inode_bitmap = @ \cup {idx}]
        up == CreateDirEntry(taken, InodeOpen(Now, found.parent), Entry(Last(path), idx, "dir"), blank)
        dot == CreateDirEntry(up.s, NewInode(idx), Entry(".", idx, "dir"), TRUE)
        dots == CreateDirEntry(dot.s, dot.inode, Entry("..", found.parent, "dir"), TRUE)
    IN  /\ harm = "none"
        /\ found.parent # -1 /\ found.entry.type = "unknown"
        /\ \/ idx = -1 /\ harm' = "assert" /\ UNCHANGED <<mem, disk>>
           \/ idx # -1 /\ ~up.ok /\ UNCHANGED vars
           \/ idx # -1 /\ up.ok /\ ~dot.ok
              /\ Leave([up.s EXCEPT !.mem.inode_bitmap = @ \ {idx}, !.harm = "dangling"])
           \/ idx # -1 /\ up.ok /\ dot.ok /\ Leave(BitMapUpdate(dots.s, "inode_bitmap", idx))

\* syscall_rmdir: the buffer of addresses still holds the father's.
syscall_rmdir(path) ==
    LET found == SearchFile(Now, path)
        dir == InodeOpen(Now, found.entry.index)
        fa == InodeOpen(Now, found.parent)
        s1 == DeleteDirectoryDirEntry(Now, fa, Last(path))
        tail == SubSeq(Addresses(Now, fa, ZeroTable), Direct + 1, Direct + Indirect)
    IN  /\ harm = "none" /\ found.entry.type = "dir" /\ found.entry.index # 0
        /\ dir.size = 2
        /\ Leave(InodeRecycle(s1, dir, tail))

\* DirGetParentIndex: the second entry of the first block.
DirGetParentIndex(s, i) == s.disk.blocks[InodeOpen(s, i).sectors[1]][2].index

\* What DirGetIndexName reads of a directory: the first sector of each block,
\* and of its indirect table.
FirstSectors(s, i) ==
    Entries(s, SubSeq(Addresses(s, InodeOpen(s, i), ZeroTable), 1, Direct + SectorAddresses),
            SectorEntries)

\* DirGetIndexName: the name in the father of the entry that has an index, ""
\* if it is not found.
DirGetIndexName(s, parent, index) ==
    LET found == SelectSeq(FirstSectors(s, parent), LAMBDA e : e.index = index)
    IN  IF found = <<>> THEN "" ELSE Head(found).name

\* syscall_getcwd, of working directory i: up, by the fathers, to the root.
syscall_getcwd(s, i) ==
    LET Up(acc, k) ==
            IF acc.cur = 0 THEN acc
            ELSE [cur |-> acc.fa, fa |-> DirGetParentIndex(s, acc.fa),
                  path |-> <<DirGetIndexName(s, acc.fa, acc.cur)>> \o acc.path]
    IN  FoldLeft(Up, [cur |-> i, fa |-> DirGetParentIndex(s, i), path |-> <<>>],
                 [k \in 1 .. NInodes |-> k]).path

\* Wrong: ".." takes itself off the stack and not its father.
PopOne(stack, name) ==
    CASE name = "." -> stack
      [] name = ".." -> stack
      [] OTHER -> Append(stack, name)

\* A name in the stack of GetAbsolutePath.
Pop(stack, name) ==
    CASE name = "." -> stack
      [] name = ".." -> IF stack = <<>> THEN <<>> ELSE Front(stack)
      [] OTHER -> Append(stack, name)

\* GetAbsolutePath of the shell: by the names alone, without looking at the disk.
GetAbsolutePath(cwd, path) == FoldLeft(Pop, <<>>, cwd \o path)

Paths == {<<a>> : a \in Names} \cup {<<a, b>> : a, b \in Names}

Next ==
    \/ Restart
    \/ \E path \in Paths :
          \/ Create(path) \/ syscall_unlink(path)
          \/ syscall_mkdir(path) \/ syscall_rmdir(path)
          \/ \E n \in WriteSizes : Write(path, n)

Spec == Init /\ [][Next]_vars

-----------------------------------------------------------------------------
(* Properties *)

\* The entries of directory i but "." and "..", and the directories there are.
Children(i) == {e \in Range(Listing(Now, InodeOpen(Now, i))) : e.name \notin {".", ".."}}

Dirs == LET More(D, k) == D \cup UNION {{e.index : e \in {c \in Children(i) : c.type = "dir"}} : i \in D}
        IN  FoldLeft(More, {0}, [k \in 1 .. NInodes |-> k])

Links == UNION {{<<i, e>> : e \in Children(i)} : i \in Dirs}

\* The directories are a tree that holds every inode in use once, whatever was
\* created, removed, refused half-way or restarted; each counts its entries,
\* readdir returns each of them once, and ".." is the father.  Once an entry was
\* put across the end of a block its directory counts one more than it has.
TreeSound ==
    /\ harm = "none" =>
        /\ mem.inode_bitmap = {0} \cup {l[2].index : l \in Links}
        /\ Cardinality(Links) = Cardinality(mem.inode_bitmap) - 1
        /\ \A i \in Dirs :
              LET dir == InodeOpen(Now, i)
                  list == Listing(Now, dir)
              IN  /\ dir.size = Len(list) /\ IsInjective([k \in DOMAIN list |-> list[k].name])
                  /\ list[1] = Entry(".", i, "dir")
                  /\ list[2] = Entry("..", IF i = 0 THEN 0
                                           ELSE (CHOOSE l \in Links : l[2].index = i)[1], "dir")
                  /\ {syscall_readdir(Now, dir, k) : k \in 0 .. dir.size - 1} = Range(list)
    /\ harm = "overrun" =>
        \E i \in Dirs : InodeOpen(Now, i).size = Len(Listing(Now, InodeOpen(Now, i))) + 1

\* The blocks of an inode in use, with its indirect table.
BlocksOf(i) ==
    LET inode == InodeOpen(Now, i)
    IN  SelectSeq(Append(Addresses(Now, inode, ZeroTable), inode.sectors[Direct + 1]),
                  LAMBDA lba : lba # 0)

\* Every block is free or belongs to one inode, once, whichever calls ran out
\* of blocks, inodes or addresses on the way; the blocks of an inode come one
\* after the other, as InodeRecycle expects; and the disk knows all of it, so
\* that nothing is lost when the machine is turned off.
BlocksAccounted ==
    harm = "none" =>
        LET used == UNION {Range(BlocksOf(i)) : i \in mem.inode_bitmap}
        IN  /\ MapThenSumSet(LAMBDA i : Len(BlocksOf(i)), mem.inode_bitmap) = Cardinality(used)
            /\ mem.sector_bitmap \cap 0 .. NSectors = UNION {Run(lba - DataLba) : lba \in used}
            /\ \A i \in mem.inode_bitmap :
                  LET addr == Addresses(Now, InodeOpen(Now, i), ZeroTable)
                  IN  \A k \in 2 .. Len(addr) : addr[k] # 0 => addr[k - 1] # 0
            /\ Mounted(disk) = mem

\* Where a path leads from a directory by the entries "." and ".." on the disk.
Walk(i, path) ==
    FoldLeft(LAMBDA at, name : IF at = -1 THEN -1
                               ELSE LET e == SearchDirEntry(Now, InodeOpen(Now, at), name)
                                    IN  IF e.type = "dir" THEN e.index ELSE -1,
             i, path)

\* What a user types after cd: one or two names, or dots.
Typed == LET N == Names \cup {".", ".."} IN {<<x>> : x \in N} \cup {<<x, y>> : x, y \in N}

\* The links from the root to directory i.
Way(i) ==
    LET Up(way, k) == way \cup {l \in Links : \E w \in way : l[2].index = w[1]}
    IN  FoldLeft(Up, {l \in Links : l[2].index = i}, [k \in 1 .. NInodes |-> k])

\* The three ways to name a directory agree, at any depth and after any moves
\* of inodes and blocks: getcwd leads back to where it was asked, and a path
\* the shell has simplified leads where its dots lead on the disk.  That is so
\* as long as each directory on the way stands in the first sector of a block
\* of its father; if one does not, and only then, getcwd leaves out its name.
PathsAgree ==
    harm = "none" =>
        \A i \in Dirs :
            LET cwd == syscall_getcwd(Now, i)
                seen == \A l \in Way(i) : l[2] \in Range(FirstSectors(Now, l[1]))
            IN  /\ seen <=> "" \notin Range(cwd)
                /\ seen => /\ SearchFile(Now, cwd).entry.index = i
                           /\ \A path \in Typed :
                                 Walk(i, path) \in {-1, SearchFile(Now, GetAbsolutePath(cwd, path)).entry.index}
=============================================================================
