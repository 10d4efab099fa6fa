----------------------------- MODULE ShellProofs -----------------------------
(***************************************************************************)
(* What is proved of the shells and what they have open, for any number of *)
(* processes, files, directories, slots and descriptors: as long as no two *)
(* calls have spoilt each other, the counts of files and pipes are those   *)
(* of the descriptors that lead to them, and every descriptor, a           *)
(* redirected one too, leads to something open.                            *)
(*                                                                         *)
(* From the bottom up: induction over the descriptors of a process; how    *)
(* many of them lead to a slot; Close and UpdateInode, one descriptor at a *)
(* time, which keep FilesInv; the calls of Files; and the shell, whose     *)
(* invariant says who keeps open what a redirected stream leads to.        *)
(***************************************************************************)
EXTENDS Shell, FiniteSetTheorems, WellFoundedInduction, TLAPS

\* The least element, which stands in for induction.
LEMMA LeastNat ==
    ASSUME NEW T \in SUBSET Nat, T # {}
    PROVE  \E x \in T : \A y \in T : x <= y
<1>1. PICK R : R = OpToRel(<, Nat)
  OBVIOUS
<1>2. \A x, y \in Nat : <<y, x>> \in R <=> y < x
  BY <1>1 DEF OpToRel
<1>3. PICK x \in T : \A y \in T : ~(<<y, x>> \in R)
  BY <1>1, NatLessThanWellFounded, WFMin
<1>4. \A y \in T : x <= y
  <2> SUFFICES ASSUME NEW y \in T PROVE x <= y
    OBVIOUS
  <2>1. x \in Nat /\ y \in Nat /\ ~(y < x)
    BY <1>2, <1>3
  <2>2. QED
    BY <2>1
<1>5. QED
  BY <1>4

\* Induction, with a set for the property.
LEMMA NatSetInduction ==
    ASSUME NEW G \in SUBSET Nat, 0 \in G, \A n \in G : n + 1 \in G
    PROVE  \A n \in Nat : n \in G
<1> SUFFICES ASSUME NEW n \in Nat, n \notin G PROVE FALSE
  OBVIOUS
<1>1. PICK x \in Nat \ G : \A y \in Nat \ G : x <= y
  <2>1. Nat \ G \in SUBSET Nat /\ Nat \ G # {}
    OBVIOUS
  <2>2. QED
    BY <2>1, LeastNat
<1>2. x # 0 /\ x - 1 \in Nat
  BY <1>1
<1>3. x - 1 \in G
  BY <1>1, <1>2
<1>4. (x - 1) + 1 = x
  BY <1>1
<1>5. QED
  BY <1>1, <1>3, <1>4

LEMMA MaxInt ==
    ASSUME NEW S \in SUBSET Int, S # {}, NEW b \in Int, \A x \in S : x <= b
    PROVE  Max(S) \in S /\ \A y \in S : y <= Max(S)
<1> DEFINE T == {b - x : x \in S}
<1>1. T \in SUBSET Nat /\ T # {}
  <2>1. \A x \in S : x \in Int /\ b - x \in Nat
    OBVIOUS
  <2>2. QED
    BY <2>1
<1>2. PICK d \in T : \A e \in T : d <= e
  <2> HIDE DEF T
  <2> QED BY <1>1, LeastNat
<1>3. PICK x \in S : d = b - x
  BY <1>2
<1>4. \A y \in S : x >= y
  <2> SUFFICES ASSUME NEW y \in S PROVE x >= y
    OBVIOUS
  <2>1. b - x <= b - y
    BY <1>2, <1>3
  <2>2. x \in Int /\ y \in Int
    OBVIOUS
  <2>3. QED
    BY <2>1, <2>2
<1>5. PICK z : z = Max(S)
  OBVIOUS
<1>6. z \in S /\ \A y \in S : z >= y
  BY <1>4, <1>5 DEF Max
<1>7. QED
  BY <1>5, <1>6

\* The largest element of a finite set of integers, and the set without it.
LEMMA MaxOfFinite ==
    ASSUME NEW S \in SUBSET Int, IsFiniteSet(S), S # {}
    PROVE  Max(S) \in S /\ \A y \in S : y <= Max(S)
<1> DEFINE G == {n \in Nat : \A T \in SUBSET S : T # {} /\ Cardinality(T) <= n =>
                                \E b \in Int : \A x \in T : x <= b}
<1>1. 0 \in G
  <2> SUFFICES ASSUME NEW T \in SUBSET S, T # {}, Cardinality(T) <= 0 PROVE FALSE
    OBVIOUS
  <2>1. IsFiniteSet(T)
    BY FS_Subset
  <2>2. QED
    BY <2>1, FS_EmptySet, FS_CardinalityType
<1>2. ASSUME NEW n \in G PROVE n + 1 \in G
  <2> SUFFICES ASSUME NEW T \in SUBSET S, T # {}, Cardinality(T) <= n + 1
               PROVE  \E b \in Int : \A x \in T : x <= b
    BY <1>2
  <2>1. IsFiniteSet(T)
    BY FS_Subset
  <2>2. PICK t \in T : TRUE
    OBVIOUS
  <2>3. /\ IsFiniteSet(T \ {t}) /\ Cardinality(T \ {t}) = Cardinality(T) - 1
        /\ Cardinality(T) \in Nat
    BY <2>1, FS_RemoveElement, FS_CardinalityType
  <2>4. n \in Nat /\ Cardinality(T \ {t}) <= n
    BY <2>3
  <2>5. PICK b \in Int : \A x \in T \ {t} : x <= b
    BY <2>4
  <2>6. CASE t <= b
    BY <2>5, <2>6
  <2>7. CASE ~(t <= b)
    <3>1. t \in Int
      OBVIOUS
    <3>2. \A x \in T : x <= t
      BY <2>5, <2>7, <3>1
    <3>3. QED
      BY <3>1, <3>2
  <2>8. QED
    BY <2>6, <2>7
<1>3. Cardinality(S) \in G
  <2>1. G \in SUBSET Nat
    OBVIOUS
  <2> HIDE DEF G
  <2>2. QED
    BY <1>1, <1>2, <2>1, NatSetInduction, FS_CardinalityType
<1>4. PICK b \in Int : \A x \in S : x <= b
  <2>1. S \in SUBSET S /\ Cardinality(S) <= Cardinality(S)
    BY FS_CardinalityType
  <2>2. QED
    BY <1>3, <2>1
<1>5. QED
  BY <1>4, MaxInt

\* A finite set of integers is built from its elements, the lowest first.
LEMMA SetInduction ==
    ASSUME NEW P \in SUBSET Int, IsFiniteSet(P),
           NEW G \in SUBSET (SUBSET P), {} \in G,
           \A S \in SUBSET P : S # {} /\ S \ {Max(S)} \in G => S \in G
    PROVE  \A S \in SUBSET P : S \in G
<1> DEFINE H == {n \in Nat : \A S \in SUBSET P : Cardinality(S) = n => S \in G}
<1>1. 0 \in H
  BY FS_Subset, FS_EmptySet
<1>2. ASSUME NEW n \in H PROVE n + 1 \in H
  <2> SUFFICES ASSUME NEW S \in SUBSET P, Cardinality(S) = n + 1 PROVE S \in G
    BY <1>2
  <2>1. IsFiniteSet(S)
    BY FS_Subset
  <2>2. S # {}
    BY FS_EmptySet
  <2>3. Max(S) \in S
    BY <2>1, <2>2, MaxOfFinite
  <2>4. Cardinality(S \ {Max(S)}) = n
    <3>1. Cardinality(S \ {Max(S)}) = Cardinality(S) - 1 /\ n \in Nat
      BY <2>1, <2>3, FS_RemoveElement
    <3>2. QED
      BY <3>1
  <2>5. QED
    BY <2>2, <2>4
<1>3. \A n \in Nat : n \in H
  <2>1. H \in SUBSET Nat
    OBVIOUS
  <2> HIDE DEF H
  <2>2. QED
    BY <1>1, <1>2, <2>1, NatSetInduction
<1>4. QED
  BY <1>3, FS_Subset, FS_CardinalityType

\* What is said of a set by what is said of it without its largest element.
Recurses(g, P, a, F) ==
    \A S \in SUBSET P : g[S] = IF S = {} THEN a ELSE F[<<Max(S), g[S \ {Max(S)}]>>]

LEMMA SetRecursion ==
    ASSUME NEW P \in SUBSET Int, IsFiniteSet(P),
           NEW X, NEW a \in X, NEW F \in [P \X X -> X]
    PROVE  \E g \in [SUBSET P -> X] : Recurses(g, P, a, F)
<1> DEFINE Of(n) == {S \in SUBSET P : Cardinality(S) <= n}
           Good(g, n) == /\ g \in [Of(n) -> X]
                         /\ \A S \in Of(n) :
                              g[S] = IF S = {} THEN a ELSE F[<<Max(S), g[S \ {Max(S)}]>>]
           H == {n \in Nat : \E g \in [Of(n) -> X] : Good(g, n)}
<1>1. \A S \in SUBSET P : IsFiniteSet(S) /\ Cardinality(S) \in Nat
  BY FS_Subset, FS_CardinalityType
<1>2. \A S \in SUBSET P : S # {} =>
         Max(S) \in S /\ Cardinality(S \ {Max(S)}) = Cardinality(S) - 1
  BY <1>1, MaxOfFinite, FS_RemoveElement
<1>3. 0 \in H
  <2> DEFINE g == [S \in Of(0) |-> a]
  <2>1. \A S \in Of(0) : S = {}
    BY <1>1, FS_EmptySet
  <2>2. Good(g, 0)
    BY <2>1
  <2>3. QED
    BY <2>2
<1>4. ASSUME NEW n \in H PROVE n + 1 \in H
  <2>1. n \in Nat
    OBVIOUS
  <2>2. PICK g \in [Of(n) -> X] : Good(g, n)
    BY <1>4
  <2> DEFINE h == [S \in Of(n + 1) |->
                     IF S = {} THEN a ELSE F[<<Max(S), g[S \ {Max(S)}]>>]]
  <2>3. \A S \in Of(n + 1) : S # {} => Max(S) \in P /\ S \ {Max(S)} \in Of(n)
    <3> SUFFICES ASSUME NEW S \in SUBSET P, Cardinality(S) <= n + 1, S # {}
                 PROVE  Max(S) \in P /\ S \ {Max(S)} \in Of(n)
      OBVIOUS
    <3>1. Max(S) \in S /\ Cardinality(S \ {Max(S)}) = Cardinality(S) - 1
      BY <1>2
    <3>2. Cardinality(S) \in Nat
      BY <1>1
    <3>3. Cardinality(S \ {Max(S)}) <= n
      BY <2>1, <3>1, <3>2
    <3>4. Max(S) \in P /\ S \ {Max(S)} \in SUBSET P
      BY <3>1
    <3>5. QED
      BY <3>3, <3>4
  <2>4. \A S \in Of(n + 1) : h[S] \in X
    BY <2>3
  <2>5. Of(n) \subseteq Of(n + 1)
    BY <1>1, <2>1
  <2>6. \A S \in Of(n) : h[S] = g[S]
    BY <2>2, <2>5
  <2>7. Good(h, n + 1)
    <3>1. h \in [Of(n + 1) -> X]
      BY <2>4
    <3>2. ASSUME NEW S \in Of(n + 1)
          PROVE  h[S] = IF S = {} THEN a ELSE F[<<Max(S), h[S \ {Max(S)}]>>]
      BY <2>3, <2>6
    <3> HIDE DEF h
    <3>3. QED
      BY <3>1, <3>2
  <2>8. n + 1 \in Nat /\ h \in [Of(n + 1) -> X]
    BY <2>1, <2>7
  <2> HIDE DEF h, Good
  <2>9. QED
    BY <2>7, <2>8
<1>5. Cardinality(P) \in H
  <2>1. H \in SUBSET Nat
    OBVIOUS
  <2> HIDE DEF H
  <2>2. QED
    BY <1>3, <1>4, <2>1, NatSetInduction, FS_CardinalityType
<1>6. PICK g : Good(g, Cardinality(P))
  BY <1>5
<1>7. Of(Cardinality(P)) = SUBSET P
  BY FS_Subset
<1>8. QED
  BY <1>6, <1>7 DEF Recurses

\* What holds of the empty set and is kept by every step holds of every set.
Keeps(P, X, a, F, Good) ==
    /\ P \in SUBSET Int /\ IsFiniteSet(P)
    /\ a \in X /\ F \in [P \X X -> X] /\ <<{}, a>> \in Good
    /\ \A S \in SUBSET P, x \in X :
          S # {} /\ <<S \ {Max(S)}, x>> \in Good => <<S, F[<<Max(S), x>>]>> \in Good

Kept(P, X, a, F, Good) ==
    \E g \in [SUBSET P -> X] :
        Recurses(g, P, a, F) /\ \A S \in SUBSET P : <<S, g[S]>> \in Good

LEMMA FoldSteps ==
    ASSUME NEW P, NEW X, NEW a, NEW F, NEW Good, Keeps(P, X, a, F, Good)
    PROVE  Kept(P, X, a, F, Good)
<1>1. PICK g \in [SUBSET P -> X] : Recurses(g, P, a, F)
  BY SetRecursion DEF Keeps
<1> DEFINE G == {S \in SUBSET P : <<S, g[S]>> \in Good}
<1>2. {} \in G
  BY <1>1 DEF Recurses, Keeps
<1>3. ASSUME NEW S \in SUBSET P, S # {}, S \ {Max(S)} \in G PROVE S \in G
  <2>1. PICK x \in X : x = g[S \ {Max(S)}]
    BY <1>1
  <2>2. g[S] = F[<<Max(S), x>>]
    BY <1>1, <1>3, <2>1 DEF Recurses
  <2>3. QED
    BY <1>3, <2>1, <2>2 DEF Keeps
<1>4. G \in SUBSET (SUBSET P)
  OBVIOUS
<1>5. \A S \in SUBSET P : S \in G
  <2> HIDE DEF G
  <2>1. QED
    BY <1>2, <1>3, <1>4, SetInduction DEF Keeps
<1>6. QED
  BY <1>1, <1>5 DEF Kept

-----------------------------------------------------------------------------
(* How many descriptors lead to a slot *)

FdMap == [Fds -> Slots \cup {-1}]

Lead(F, S) == {x \in Processes \X Given : F[x[1]][x[2]] \in S}

LEMMA LeadFinite ==
    ASSUME NEW F, NEW S
    PROVE  /\ IsFiniteSet(Lead(F, S))
           /\ Cardinality(Lead(F, S)) \in Nat
           /\ Cardinality(Lead(F, S)) = 0 <=> Lead(F, S) = {}
<1>1. IsFiniteSet(Given)
  <2>1. IsFiniteSet(Fds)
    BY FS_Interval, FilesAssumption DEF Fds
  <2>2. QED
    BY <2>1, FS_Difference DEF Given
<1>2. IsFiniteSet(Processes \X Given)
  BY <1>1, FS_Product, FilesAssumption
<1>3. Lead(F, S) \in SUBSET (Processes \X Given)
  BY DEF Lead
<1> HIDE DEF Lead
<1>4. IsFiniteSet(Lead(F, S))
  BY <1>2, <1>3, FS_Subset
<1>5. QED
  BY <1>4, FS_CardinalityType, FS_EmptySet

\* The same descriptors.
LEMMA LeadSame ==
    ASSUME NEW F, NEW G, NEW S, NEW Q,
           \A q \in Processes, e \in Given : F[q][e] \in S <=> G[q][e] \in Q
    PROVE  Lead(F, S) = Lead(G, Q)
<1>1. \A x \in Processes \X Given : x[1] \in Processes /\ x[2] \in Given
  OBVIOUS
<1>2. QED
  BY <1>1 DEF Lead

LEMMA LeadNone ==
    ASSUME NEW F, NEW S, \A q \in Processes, e \in Given : F[q][e] \notin S
    PROVE  Lead(F, S) = {} /\ Cardinality(Lead(F, S)) = 0
<1>1. \A x \in Processes \X Given : x[1] \in Processes /\ x[2] \in Given
  OBVIOUS
<1>2. Lead(F, S) = {}
  BY <1>1 DEF Lead
<1>3. QED
  BY <1>2, FS_EmptySet

LEMMA LeadSome ==
    ASSUME NEW F, NEW S, NEW p \in Processes, NEW d \in Given, F[p][d] \in S
    PROVE  Cardinality(Lead(F, S)) > 0
<1>1. <<p, d>> \in Lead(F, S)
  BY DEF Lead
<1>2. QED
  BY <1>1, LeadFinite

\* F and G differ in descriptor d of p at most.
OnlyFd(F, G, p, d) ==
    /\ G \in [Processes -> FdMap]
    /\ \A q \in Processes, e \in Fds : q # p \/ e # d => G[q][e] = F[q][e]

\* The descriptor leads to S in G, and not in F.
LEMMA LeadMore ==
    ASSUME NEW F, NEW G, NEW S, NEW p \in Processes, NEW d \in Given,
           OnlyFd(F, G, p, d), F[p][d] \notin S, G[p][d] \in S
    PROVE  Cardinality(Lead(G, S)) = Cardinality(Lead(F, S)) + 1
<1>1. Given \subseteq Fds
  BY DEF Given
<1>2. \A x \in Processes \X Given :
         /\ x[1] \in Processes /\ x[2] \in Given
         /\ x = <<p, d>> \/ x[1] # p \/ x[2] # d
  OBVIOUS
<1>3. \A x \in Processes \X Given :
         x \in Lead(G, S) <=> x \in Lead(F, S) \/ x = <<p, d>>
  <2> SUFFICES ASSUME NEW x \in Processes \X Given
               PROVE  x \in Lead(G, S) <=> x \in Lead(F, S) \/ x = <<p, d>>
    OBVIOUS
  <2>1. CASE x = <<p, d>>
    BY <2>1 DEF Lead
  <2>2. CASE x # <<p, d>>
    BY <1>1, <1>2, <2>2 DEF Lead, OnlyFd
  <2>3. QED
    BY <2>1, <2>2
<1>4. Lead(G, S) = Lead(F, S) \cup {<<p, d>>}
  <2>1. <<p, d>> \in Processes \X Given
    OBVIOUS
  <2>2. Lead(G, S) \subseteq Processes \X Given /\ Lead(F, S) \subseteq Processes \X Given
    BY DEF Lead
  <2>3. QED
    BY <1>3, <2>1, <2>2
<1>5. <<p, d>> \notin Lead(F, S)
  BY DEF Lead
<1>6. QED
  BY <1>4, <1>5, LeadFinite, FS_AddElement

\* The descriptor leads to S in F, and not in G.
LEMMA LeadFewer ==
    ASSUME NEW F \in [Processes -> FdMap], NEW G, NEW S, NEW p \in Processes, NEW d \in Given,
           OnlyFd(F, G, p, d), F[p][d] \in S, G[p][d] \notin S
    PROVE  Cardinality(Lead(F, S)) = Cardinality(Lead(G, S)) + 1
<1>1. OnlyFd(G, F, p, d)
  BY DEF OnlyFd
<1>2. QED
  BY <1>1, LeadMore

-----------------------------------------------------------------------------
(* What holds of the file table, the inodes and the descriptors between the *)
(* steps of a process, with T, N and F for them                             *)

FileRec == [inode : Files \cup {None, Pipe},
            flag : {"none", "pipe", "read", "write"}, fd_pos : Int]
NodeRec == [open_cnt : Int, write_deny : BOOLEAN]
Tables == [Slots -> FileRec]
Nodes == [Files \cup Dirs -> NodeRec]
States == [table : Tables, nodes : Nodes, fds : FdMap]

Calls == [at : {"user", "search", "inode", "create", "made", "remove", "unlisted", "done"},
          for : {"none", "read", "write", "create", "chdir", "remove"},
          name : Files \cup Dirs \cup {None}, slot : Slots \cup Fds \cup {-1}]

\* The name a call is about, and the slot it has.
CallSound(c) ==
    /\ c.at = "user" => c = NoCall
    /\ c.at \in {"search", "inode", "create", "made", "remove", "unlisted"} =>
          \/ c.for \in {"read", "write", "create"} /\ c.name \in Files
          \/ c.for = "chdir" /\ c.name \in Dirs
          \/ c.for = "remove" /\ c.name \in Files \cup Dirs
    /\ c.at = "inode" => c.for # "create" /\ (c.for \in {"read", "write"} => c.slot \in Slots)
    /\ c.at \in {"create", "made"} => c.for = "create"
    /\ c.at \in {"remove", "unlisted"} => c.for = "remove"

CallsSound ==
    /\ call \in [Processes -> Calls]
    /\ \A p \in Processes : CallSound(call[p])
    /\ entries \in SUBSET (Files \cup Dirs)
    /\ lost \in [Files -> Nat]
    /\ workDir \in [Processes -> Dirs \cup {Root}]

Typed(T, N, F) == T \in Tables /\ N \in Nodes /\ F \in [Processes -> FdMap]

Flagged(T) ==
    \A s \in Slots : /\ T[s].inode = Pipe => T[s].flag = "pipe"
                     /\ T[s].inode \in Files => T[s].flag # "pipe"

\* What a descriptor leads to is a pipe, or a file that is in the directory.
Led(T, F) ==
    \A p \in Processes, d \in Given : F[p][d] # -1 =>
        T[F[p][d]].inode = Pipe \/ T[F[p][d]].inode \in Files \cap entries

PipesCounted(T, F) ==
    \A s \in Slots : T[s].inode = Pipe =>
        /\ T[s].fd_pos = Cardinality(Lead(F, {s}))
        /\ T[s].fd_pos > 0

SlotsOf(T, n) == {s \in Slots : T[s].inode = n}
Removing(p, n) == call[p].at \in {"remove", "unlisted"} /\ call[p].name = n
Removers(n) == {p \in Processes : Removing(p, n)}
Making(p, n) == call[p].at \in {"create", "made"} /\ call[p].name = n

FilesCounted(T, N, F) ==
    \A n \in Files : N[n].open_cnt =
        Cardinality(Lead(F, SlotsOf(T, n))) + Cardinality(Removers(n)) + lost[n]

\* A file is made by one at a time, and nobody has it open.
MakersApart(T, N) ==
    \A p \in Processes, n \in Files : Making(p, n) =>
        /\ call[p].slot \in Slots
        /\ T[call[p].slot].inode = n /\ T[call[p].slot].flag = "write"
        /\ N[n].open_cnt = 0
        /\ \A q \in Processes : Making(q, n) => q = p
        /\ call[p].at = "made" => n \in entries

\* What is removed is open to the one who removes it only.
RemoversAlone(N) ==
    \A p \in Processes, n \in Files \cup Dirs : Removing(p, n) =>
        /\ N[n].open_cnt = 1
        /\ \A q \in Processes : Removing(q, n) => q = p
        /\ \A q \in Processes : workDir[q] # n

WorkDirsListed(N) ==
    \A p \in Processes : workDir[p] # Root =>
        workDir[p] \in entries /\ N[workDir[p]].open_cnt > 0

FilesInv(T, N, F) ==
    /\ Typed(T, N, F) /\ Flagged(T) /\ Led(T, F)
    /\ PipesCounted(T, F) /\ FilesCounted(T, N, F)
    /\ MakersApart(T, N) /\ RemoversAlone(N) /\ WorkDirsListed(N)

FilesNow == CallsSound /\ FilesInv(GlobalFileTable, inodes, fd)

LEMMA RemoversFinite ==
    ASSUME NEW n
    PROVE  /\ IsFiniteSet(Removers(n))
           /\ Cardinality(Removers(n)) \in Nat
           /\ Cardinality(Removers(n)) = 0 <=> Removers(n) = {}
<1>1. Removers(n) \in SUBSET Processes
  BY DEF Removers
<1> HIDE DEF Removers
<1>2. IsFiniteSet(Removers(n))
  BY <1>1, FS_Subset, FilesAssumption
<1>3. QED
  BY <1>2, FS_CardinalityType, FS_EmptySet

\* A file that a descriptor leads to is counted, is not removed and not made.
LEMMA OpenCounted ==
    ASSUME CallsSound, NEW T, NEW N, NEW F, FilesInv(T, N, F),
           NEW p \in Processes, NEW d \in Given, F[p][d] # -1,
           NEW n \in Files, T[F[p][d]].inode = n
    PROVE  /\ N[n].open_cnt > 0
           /\ \A q \in Processes : ~Removing(q, n) /\ ~Making(q, n)
           /\ N[n].open_cnt = Cardinality(Lead(F, SlotsOf(T, n))) + lost[n]
<1>1. F[p][d] \in SlotsOf(T, n)
  <2>1. F \in [Processes -> FdMap] /\ Given \subseteq Fds
    BY DEF FilesInv, Typed, Given
  <2>2. F[p][d] \in Slots
    BY <2>1 DEF FdMap
  <2>3. QED
    BY <2>2 DEF SlotsOf
<1>2. PICK k \in Nat : k = Cardinality(Lead(F, SlotsOf(T, n))) /\ k > 0
  BY <1>1, LeadFinite, LeadSome
<1>3. PICK r \in Nat : r = Cardinality(Removers(n)) /\ (r = 0 <=> Removers(n) = {})
  BY RemoversFinite
<1>4. lost[n] \in Nat
  BY DEF CallsSound
<1>5. N[n].open_cnt = k + r + lost[n]
  BY <1>2, <1>3 DEF FilesInv, FilesCounted
<1>6. N[n].open_cnt > 0
  BY <1>2, <1>3, <1>4, <1>5
<1>7. \A q \in Processes : ~Making(q, n)
  BY <1>6 DEF FilesInv, MakersApart
<1>8. \A q \in Processes : ~Removing(q, n)
  <2> SUFFICES ASSUME NEW q \in Processes, Removing(q, n) PROVE FALSE
    OBVIOUS
  <2>1. r # 0
    BY <1>3 DEF Removers
  <2>2. N[n].open_cnt = 1
    BY DEF FilesInv, RemoversAlone
  <2>3. QED
    BY <1>2, <1>3, <1>4, <1>5, <2>1, <2>2
<1>9. r = 0
  BY <1>3, <1>8 DEF Removers
<1>10. QED
  BY <1>2, <1>4, <1>5, <1>6, <1>7, <1>8, <1>9

\* A file that is not in memory is open for nobody.
LEMMA ClosedForAll ==
    ASSUME CallsSound, NEW T, NEW N, NEW F, FilesInv(T, N, F),
           NEW n \in Files, ~(N[n].open_cnt > 0)
    PROVE  /\ N[n].open_cnt = 0
           /\ \A q \in Processes, e \in Given : F[q][e] \notin SlotsOf(T, n)
           /\ Lead(F, SlotsOf(T, n)) = {} /\ lost[n] = 0
           /\ Removers(n) = {}
<1>1. PICK k \in Nat : /\ k = Cardinality(Lead(F, SlotsOf(T, n)))
                       /\ k = 0 <=> Lead(F, SlotsOf(T, n)) = {}
  BY LeadFinite
<1>2. PICK r \in Nat : r = Cardinality(Removers(n)) /\ (r = 0 <=> Removers(n) = {})
  BY RemoversFinite
<1>3. lost[n] \in Nat
  BY DEF CallsSound
<1>4. N[n].open_cnt = k + r + lost[n]
  BY <1>1, <1>2 DEF FilesInv, FilesCounted
<1>5. k = 0 /\ r = 0 /\ lost[n] = 0 /\ N[n].open_cnt = 0
  BY <1>1, <1>2, <1>3, <1>4
<1>6. \A q \in Processes, e \in Given : F[q][e] \notin SlotsOf(T, n)
  BY <1>1, <1>5, LeadSome
<1>7. QED
  BY <1>1, <1>2, <1>5, <1>6

\* Only the descriptors that are given out are counted.
LEMMA GivenOnly ==
    ASSUME CallsSound, NEW T, NEW N, NEW F, FilesInv(T, N, F),
           NEW G \in [Processes -> FdMap],
           \A p \in Processes, d \in Given : G[p][d] = F[p][d]
    PROVE  FilesInv(T, N, G)
<1>1. \A S : Lead(G, S) = Lead(F, S)
  BY LeadSame
<1>2. Led(T, G)
  BY DEF FilesInv, Led
<1>3. PipesCounted(T, G) /\ FilesCounted(T, N, G)
  BY <1>1 DEF FilesInv, PipesCounted, FilesCounted
<1>4. QED
  BY <1>2, <1>3 DEF FilesInv, Typed

-----------------------------------------------------------------------------
(* One descriptor is closed, or counted for a child *)

\* Slots other than g, and inodes other than n, are as they were.
OnlySlot(T, U, g) == U \in Tables /\ \A s \in Slots \ {g} : U[s] = T[s]
OnlyInode(N, M, n) == M \in Nodes /\ \A m \in (Files \cup Dirs) \ {n} : M[m] = N[m]

\* A descriptor of a pipe fewer, or one more: the slots of the files are the
\* same.
LEMMA PipeStep ==
    ASSUME CallsSound, NEW T, NEW N, NEW F, FilesInv(T, N, F),
           NEW p \in Processes, NEW d \in Given, NEW g \in Slots, NEW U, NEW G,
           OnlySlot(T, U, g), OnlyFd(F, G, p, d),
           T[g].inode \in {Pipe, None}, U[g].inode \in {Pipe, None},
           U[g].inode = Pipe => U[g].flag = "pipe" /\ U[g].fd_pos > 0
                                /\ U[g].fd_pos = Cardinality(Lead(G, {g})),
           U[g].inode = None => \A q \in Processes, e \in Given : G[q][e] # g,
           F[p][d] \in {g, -1}, G[p][d] \in {g, -1}
    PROVE  FilesInv(U, N, G)
<1>1. Given \subseteq Fds /\ F \in [Processes -> FdMap] /\ T \in Tables /\ N \in Nodes
  BY DEF Given, FilesInv, Typed
<1>2. Pipe \notin Files /\ None \notin Files /\ Pipe # None
  BY FilesAssumption
<1>3. Typed(U, N, G)
  BY <1>1 DEF Typed, OnlySlot, OnlyFd
<1>4. Flagged(U)
  BY <1>2 DEF FilesInv, Flagged, OnlySlot
<1>5. Led(U, G)
  <2> SUFFICES ASSUME NEW q \in Processes, NEW e \in Given, G[q][e] # -1
               PROVE  U[G[q][e]].inode = Pipe \/ U[G[q][e]].inode \in Files \cap entries
    BY DEF Led
  <2>1. G[q][e] \in Slots
    BY <1>1 DEF OnlyFd, FdMap
  <2>2. CASE G[q][e] = g
    BY <2>2
  <2>3. CASE G[q][e] # g
    <3>1. G[q][e] = F[q][e]
      BY <1>1, <2>3 DEF OnlyFd
    <3>2. U[G[q][e]] = T[F[q][e]]
      BY <2>1, <2>3, <3>1 DEF OnlySlot
    <3>3. QED
      BY <3>1, <3>2 DEF FilesInv, Led
  <2>4. QED
    BY <2>2, <2>3
<1>6. PipesCounted(U, G)
  <2> SUFFICES ASSUME NEW s \in Slots, U[s].inode = Pipe
               PROVE  U[s].fd_pos = Cardinality(Lead(G, {s})) /\ U[s].fd_pos > 0
    BY DEF PipesCounted
  <2>1. CASE s = g
    BY <2>1
  <2>2. CASE s # g
    <3>1. U[s] = T[s]
      BY <2>2 DEF OnlySlot
    <3>2. \A q \in Processes, e \in Given : F[q][e] \in {s} <=> G[q][e] \in {s}
      <4>1. s # -1
        BY FilesAssumption
      <4>2. QED
        BY <1>1, <2>2, <4>1 DEF OnlyFd
    <3>3. Lead(F, {s}) = Lead(G, {s})
      BY <3>2, LeadSame
    <3>4. QED
      BY <3>1, <3>3 DEF FilesInv, PipesCounted
  <2>3. QED
    BY <2>1, <2>2
<1>7. FilesCounted(U, N, G)
  <2> SUFFICES ASSUME NEW n \in Files
               PROVE  Lead(F, SlotsOf(T, n)) = Lead(G, SlotsOf(U, n))
    BY DEF FilesInv, FilesCounted
  <2>1. /\ SlotsOf(U, n) = SlotsOf(T, n)
        /\ g \notin SlotsOf(T, n) /\ -1 \notin SlotsOf(T, n)
    <3>1. \A x \in Slots : U[x].inode = n <=> T[x].inode = n
      BY <1>2 DEF OnlySlot
    <3>2. -1 \notin Slots
      BY FilesAssumption
    <3>3. QED
      BY <1>2, <3>1, <3>2 DEF SlotsOf
  <2>2. \A q \in Processes, e \in Given :
           F[q][e] \in SlotsOf(T, n) <=> G[q][e] \in SlotsOf(U, n)
    BY <1>1, <2>1 DEF OnlyFd
  <2>3. QED
    BY <2>2, LeadSame
<1>8. MakersApart(U, N)
  BY <1>2 DEF FilesInv, MakersApart, OnlySlot
<1>9. QED
  BY <1>3, <1>4, <1>5, <1>6, <1>7, <1>8 DEF FilesInv

\* A descriptor of a file fewer, or one more, is counted.
LEMMA FileStep ==
    ASSUME CallsSound, NEW T, NEW N, NEW F, FilesInv(T, N, F),
           NEW p \in Processes, NEW d \in Given, NEW g \in Slots, NEW n \in Files \cap entries,
           NEW U, NEW M, NEW G,
           OnlySlot(T, U, g), OnlyInode(N, M, n), OnlyFd(F, G, p, d),
           T[g].inode \in {n, None}, U[g].inode \in {n, None},
           U[g].inode = n => U[g].flag # "pipe",
           U[g].inode = None => \A q \in Processes, e \in Given : G[q][e] # g,
           F[p][d] \in {g, -1}, G[p][d] \in {g, -1},
           M[n].open_cnt = Cardinality(Lead(G, SlotsOf(U, n))) + lost[n],
           \A q \in Processes : ~Removing(q, n) /\ ~Making(q, n)
    PROVE  FilesInv(U, M, G)
<1>1. Given \subseteq Fds /\ F \in [Processes -> FdMap] /\ T \in Tables /\ N \in Nodes
  BY DEF Given, FilesInv, Typed
<1>2. Pipe \notin Files /\ None \notin Files /\ Pipe # None /\ n # Root /\ n \notin Dirs
  BY FilesAssumption
<1>3. Typed(U, M, G)
  BY <1>1 DEF Typed, OnlySlot, OnlyFd, OnlyInode
<1>4. Flagged(U)
  BY <1>2 DEF FilesInv, Flagged, OnlySlot
<1>5. Led(U, G)
  <2> SUFFICES ASSUME NEW q \in Processes, NEW e \in Given, G[q][e] # -1
               PROVE  U[G[q][e]].inode = Pipe \/ U[G[q][e]].inode \in Files \cap entries
    BY DEF Led
  <2>1. G[q][e] \in Slots
    BY <1>1 DEF OnlyFd, FdMap
  <2>2. CASE G[q][e] = g
    BY <2>2
  <2>3. CASE G[q][e] # g
    <3>1. G[q][e] = F[q][e]
      BY <1>1, <2>3 DEF OnlyFd
    <3>2. U[G[q][e]] = T[F[q][e]]
      BY <2>1, <2>3, <3>1 DEF OnlySlot
    <3>3. QED
      BY <3>1, <3>2 DEF FilesInv, Led
  <2>4. QED
    BY <2>2, <2>3
<1>6. PipesCounted(U, G)
  <2> SUFFICES ASSUME NEW s \in Slots, U[s].inode = Pipe
               PROVE  U[s].fd_pos = Cardinality(Lead(G, {s})) /\ U[s].fd_pos > 0
    BY DEF PipesCounted
  <2>1. s # g /\ U[s] = T[s]
    BY <1>2 DEF OnlySlot
  <2>2. \A q \in Processes, e \in Given : F[q][e] \in {s} <=> G[q][e] \in {s}
    <3>1. s # -1
      BY FilesAssumption
    <3>2. QED
      BY <1>1, <2>1, <3>1 DEF OnlyFd
  <2>3. Lead(F, {s}) = Lead(G, {s})
    BY <2>2, LeadSame
  <2>4. QED
    BY <2>1, <2>3 DEF FilesInv, PipesCounted
<1>7. FilesCounted(U, M, G)
  <2> SUFFICES ASSUME NEW m \in Files
               PROVE  M[m].open_cnt =
                        Cardinality(Lead(G, SlotsOf(U, m))) + Cardinality(Removers(m)) + lost[m]
    BY DEF FilesCounted
  <2>1. CASE m = n
    <3>1. Cardinality(Removers(n)) = 0
      <4>1. Removers(n) = {}
        BY DEF Removers
      <4>2. QED
        BY <4>1, RemoversFinite
    <3>2. PICK k \in Nat : k = Cardinality(Lead(G, SlotsOf(U, n)))
      BY LeadFinite
    <3>3. lost[n] \in Nat
      BY DEF CallsSound
    <3>4. QED
      BY <2>1, <3>1, <3>2, <3>3
  <2>2. CASE m # n
    <3>1. SlotsOf(U, m) = SlotsOf(T, m) /\ g \notin SlotsOf(T, m) /\ -1 \notin SlotsOf(T, m)
      BY <1>2, <2>2, FilesAssumption DEF SlotsOf, OnlySlot
    <3>2. \A q \in Processes, e \in Given :
             F[q][e] \in SlotsOf(T, m) <=> G[q][e] \in SlotsOf(U, m)
      BY <1>1, <3>1 DEF OnlyFd
    <3>3. Lead(F, SlotsOf(T, m)) = Lead(G, SlotsOf(U, m))
      BY <3>2, LeadSame
    <3>4. M[m] = N[m]
      BY <2>2 DEF OnlyInode
    <3>5. QED
      BY <3>3, <3>4 DEF FilesInv, FilesCounted
  <2>3. QED
    BY <2>1, <2>2
<1>8. MakersApart(U, M)
  <2> SUFFICES ASSUME NEW q \in Processes, NEW m \in Files, Making(q, m)
               PROVE  /\ call[q].slot \in Slots
                      /\ U[call[q].slot].inode = m /\ U[call[q].slot].flag = "write"
                      /\ M[m].open_cnt = 0
                      /\ \A r \in Processes : Making(r, m) => r = q
                      /\ call[q].at = "made" => m \in entries
    BY DEF MakersApart
  <2>1. m # n
    OBVIOUS
  <2>2. /\ call[q].slot \in Slots
        /\ T[call[q].slot].inode = m /\ T[call[q].slot].flag = "write"
        /\ N[m].open_cnt = 0
        /\ \A r \in Processes : Making(r, m) => r = q
        /\ call[q].at = "made" => m \in entries
    BY DEF FilesInv, MakersApart
  <2>3. call[q].slot # g
    BY <1>2, <2>1, <2>2
  <2>4. M[m] = N[m] /\ U[call[q].slot] = T[call[q].slot]
    BY <2>1, <2>2, <2>3 DEF OnlyInode, OnlySlot
  <2>5. QED
    BY <2>2, <2>4
<1>9. RemoversAlone(M)
  BY DEF FilesInv, RemoversAlone, OnlyInode
<1>10. WorkDirsListed(M)
  <2>1. \A q \in Processes : workDir[q] # Root => workDir[q] \in Dirs
    BY DEF CallsSound
  <2>2. QED
    BY <1>2, <2>1 DEF FilesInv, WorkDirsListed, OnlyInode
<1>11. QED
  BY <1>3, <1>4, <1>5, <1>6, <1>7, <1>8, <1>9, <1>10 DEF FilesInv

LEMMA CloseStep ==
    ASSUME CallsSound, NEW T, NEW N, NEW F, FilesInv(T, N, F),
           NEW p \in Processes, NEW d \in Given,
           NEW s, s = [table |-> T, nodes |-> N, fds |-> F[p]],
           NEW r, r = Close(s, d)
    PROVE  /\ r \in States
           /\ r.fds = [F[p] EXCEPT ![d] = -1]
           /\ FilesInv(r.table, r.nodes, [F EXCEPT ![p] = r.fds])
<1>1. /\ T \in Tables /\ N \in Nodes /\ F \in [Processes -> FdMap] /\ F[p] \in FdMap
      /\ Given \subseteq Fds /\ Given \cap STD_FD = {} /\ -1 \notin Slots
  BY FilesAssumption DEF FilesInv, Typed, Given
<1>2. PICK g \in Slots \cup {-1} : g = F[p][d]
  BY <1>1 DEF FdMap
<1>3. PICK f \in FdMap : f = [F[p] EXCEPT ![d] = -1]
  BY <1>1 DEF FdMap
<1>4. PICK G \in [Processes -> FdMap] : G = [F EXCEPT ![p] = f]
  BY <1>1
<1>5. OnlyFd(F, G, p, d) /\ G[p][d] = -1
  BY <1>1, <1>3, <1>4 DEF OnlyFd, FdMap
<1> SUFFICES r \in States /\ r.fds = f /\ FilesInv(r.table, r.nodes, G)
  BY <1>3, <1>4
<1>6. CASE g = -1
  <2>1. r = s /\ f = F[p] /\ G = F
    <3>1. s.fds[d] = -1
      BY <1>2, <1>6
    <3>2. r = s
      BY <3>1 DEF Close
    <3>3. f = F[p]
      BY <1>1, <1>2, <1>3, <1>6 DEF FdMap
    <3>4. G = F
      BY <1>1, <1>4, <3>3
    <3>5. QED
      BY <3>2, <3>3, <3>4
  <2>2. QED
    BY <1>1, <2>1 DEF States
<1>7. CASE g # -1
  <2>1. g \in Slots /\ T[g] \in FileRec
    BY <1>1, <1>7 DEF Tables
  <2>2. T[g].inode = Pipe \/ T[g].inode \in Files \cap entries
    BY <1>2, <1>7 DEF FilesInv, Led
  <2>3. PICK t : t = [s EXCEPT !.fds[d] = -1]
    OBVIOUS
  <2>4. t = [table |-> T, nodes |-> N, fds |-> f]
    BY <1>3, <2>3
  <2>5. CASE T[g].flag = "pipe"
    <3>1. T[g].inode = Pipe
      BY <2>1, <2>2, <2>5 DEF FilesInv, Flagged
    <3>2. r = pipe_close(t, g)
      BY <1>1, <1>2, <1>7, <2>3, <2>5 DEF Close
    <3>3. /\ T[g].fd_pos = Cardinality(Lead(F, {g}))
          /\ T[g].fd_pos \in Int /\ T[g].fd_pos > 0
      BY <2>1, <3>1 DEF FilesInv, PipesCounted, FileRec
    <3>4. Cardinality(Lead(F, {g})) = Cardinality(Lead(G, {g})) + 1
      <4>1. PICK S : S = {g}
        OBVIOUS
      <4>2. F[p][d] \in S /\ G[p][d] \notin S
        BY <1>2, <1>5, <1>7, <4>1
      <4>3. Cardinality(Lead(F, S)) = Cardinality(Lead(G, S)) + 1
        BY <1>1, <1>5, <4>2, LeadFewer
      <4>4. QED
        BY <4>1, <4>3
    <3>5. PICK k \in Nat : k = Cardinality(Lead(G, {g})) /\ (k = 0 <=> Lead(G, {g}) = {})
      BY LeadFinite
    <3>6. T[g].fd_pos = k + 1
      BY <3>3, <3>4, <3>5
    <3> DEFINE rec == IF k = 0 THEN [T[g] EXCEPT !.fd_pos = 0, !.inode = None]
                      ELSE [T[g] EXCEPT !.fd_pos = k]
    <3>7. PICK U : U = [T EXCEPT ![g] = rec]
      OBVIOUS
    <3>8. r = [table |-> U, nodes |-> N, fds |-> f]
      <4>1. t.table = T /\ t.nodes = N /\ t.fds = f
        BY <2>4
      <4>2. CASE k = 0
        <5>1. U = [T EXCEPT ![g] = [T[g] EXCEPT !.fd_pos = 0, !.inode = None]]
          BY <3>7, <4>2
        <5>2. r = [[t EXCEPT !.table[g].fd_pos = 0] EXCEPT !.table[g].inode = None]
          BY <3>2, <3>6, <4>1, <4>2 DEF pipe_close
        <5>3. PICK x : x = [T[g] EXCEPT !.fd_pos = 0]
          OBVIOUS
        <5>4. [t EXCEPT !.table[g].fd_pos = 0] = [table |-> [T EXCEPT ![g] = x], nodes |-> N, fds |-> f]
          BY <2>4, <5>3
        <5>5. U = [T EXCEPT ![g] = [x EXCEPT !.inode = None]]
          BY <5>1, <5>3
        <5>6. PICK V : V = [T EXCEPT ![g] = x]
          OBVIOUS
        <5>7. r = [table |-> [V EXCEPT ![g] = [x EXCEPT !.inode = None]], nodes |-> N, fds |-> f]
          <6>1. PICK v : v = [table |-> V, nodes |-> N, fds |-> f]
            OBVIOUS
          <6>2. V[g] = x
            BY <1>1, <2>1, <5>6 DEF Tables
          <6>3. r = [v EXCEPT !.table[g].inode = None]
            BY <5>2, <5>4, <5>6, <6>1
          <6>4. QED
            BY <6>1, <6>2, <6>3
        <5>8. QED
          BY <1>1, <2>1, <5>5, <5>6, <5>7 DEF Tables
      <4>3. CASE k # 0
        <5>1. U = [T EXCEPT ![g] = [T[g] EXCEPT !.fd_pos = k]]
          BY <3>7, <4>3
        <5>2. T[g].fd_pos - 1 = k /\ T[g].fd_pos # 1
          BY <3>6, <4>3
        <5>3. r = [t EXCEPT !.table[g].fd_pos = k]
          BY <3>2, <4>1, <5>2 DEF pipe_close
        <5>4. QED
          BY <1>1, <2>1, <2>4, <5>1, <5>3 DEF Tables, FileRec
      <4>4. QED
        BY <4>2, <4>3
    <3>9. rec \in FileRec /\ U \in Tables /\ U[g] = rec
      <4>1. [T[g] EXCEPT !.fd_pos = 0, !.inode = None] \in FileRec
        <5>1. PICK x : x = [T[g] EXCEPT !.fd_pos = 0]
          OBVIOUS
        <5>2. x \in FileRec
          BY <2>1, <5>1 DEF FileRec
        <5>3. [x EXCEPT !.inode = None] \in FileRec
          BY <5>2 DEF FileRec
        <5>4. QED
          BY <5>1, <5>3
      <4>2. [T[g] EXCEPT !.fd_pos = k] \in FileRec
        BY <2>1 DEF FileRec
      <4>3. rec \in FileRec
        BY <4>1, <4>2
      <4> HIDE DEF rec
      <4>4. QED
        BY <1>1, <2>1, <3>7, <4>3 DEF Tables
    <3>10. OnlySlot(T, U, g)
      BY <1>1, <3>7, <3>9 DEF OnlySlot, Tables
    <3>11. U[g].inode \in {Pipe, None}
      BY <2>1, <3>1, <3>9 DEF FileRec
    <3>12. /\ k = 0 => U[g].inode = None
           /\ k # 0 => U[g].inode = Pipe /\ U[g].flag = "pipe" /\ U[g].fd_pos = k
      BY <2>1, <2>5, <3>1, <3>9 DEF FileRec
    <3>13. None # Pipe
      BY FilesAssumption
    <3>14. k = 0 => \A q \in Processes, e \in Given : G[q][e] # g
      <4> SUFFICES ASSUME k = 0, NEW q \in Processes, NEW e \in Given, G[q][e] = g
                   PROVE  FALSE
        OBVIOUS
      <4>1. G[q][e] \in {g}
        OBVIOUS
      <4>2. Cardinality(Lead(G, {g})) > 0
        BY <4>1, LeadSome
      <4>3. QED
        BY <3>5, <4>2
    <3> HIDE DEF rec
    <3>15. FilesInv(U, N, G)
      <4>1. F[p][d] \in {g, -1} /\ G[p][d] \in {g, -1}
        BY <1>2, <1>5
      <4>2. U[g].inode = Pipe =>
               U[g].flag = "pipe" /\ U[g].fd_pos > 0 /\ U[g].fd_pos = Cardinality(Lead(G, {g}))
        BY <3>5, <3>12, <3>13
      <4>3. U[g].inode = None => \A q \in Processes, e \in Given : G[q][e] # g
        BY <3>12, <3>13, <3>14
      <4>4. QED
        BY <1>5, <2>1, <3>1, <3>10, <3>11, <4>1, <4>2, <4>3, PipeStep
    <3>16. QED
      BY <1>1, <3>8, <3>9, <3>15 DEF States
  <2>6. CASE T[g].flag # "pipe"
    <3>1. PICK n \in Files \cap entries : n = T[g].inode
      BY <2>1, <2>2, <2>6 DEF FilesInv, Flagged
    <3>2. n # None
      BY FilesAssumption
    <3>3. r = CloseFile(t, g)
      BY <1>2, <1>7, <2>3, <2>6, <3>1, <3>2 DEF Close
    <3>4. /\ \A q \in Processes : ~Removing(q, n) /\ ~Making(q, n)
          /\ N[n].open_cnt = Cardinality(Lead(F, SlotsOf(T, n))) + lost[n]
      BY <1>2, <1>7, <3>1, OpenCounted
    <3>5. PICK old : old = N[n]
      OBVIOUS
    <3>6. PICK M : M = [N EXCEPT ![n] = Decremented(old)]
      OBVIOUS
    <3>7. PICK U : U = IF old.open_cnt = 1 THEN [T EXCEPT ![g].inode = None] ELSE T
      OBVIOUS
    <3>8. N[n] \in NodeRec /\ old \in NodeRec /\ lost[n] \in Nat
      BY <1>1, <3>1, <3>5 DEF Nodes, CallsSound
    <3>9. r = [table |-> U, nodes |-> M, fds |-> f]
      <4>1. t.table = T /\ t.nodes = N /\ t.fds = f
        BY <2>4
      <4>2. r = [[t EXCEPT !.nodes = InodeClose(N, n)]
                   EXCEPT !.table[g].inode = IF old.open_cnt = 1 THEN None ELSE T[g].inode]
        BY <3>1, <3>3, <3>5, <4>1 DEF CloseFile
      <4>3. InodeClose(N, n) = M
        BY <3>5, <3>6 DEF InodeClose
      <4>4. CASE old.open_cnt = 1
        BY <1>1, <2>1, <2>4, <3>7, <4>2, <4>3, <4>4 DEF Tables, FileRec
      <4>5. CASE old.open_cnt # 1
        <5>1. U = [T EXCEPT ![g].inode = T[g].inode]
          BY <1>1, <2>1, <3>7, <4>5 DEF Tables, FileRec
        <5>2. QED
          BY <2>4, <4>2, <4>3, <4>5, <5>1
      <4>6. QED
        BY <4>4, <4>5
    <3>10. PICK k \in Nat : k = Cardinality(Lead(G, SlotsOf(T, n))) /\ (k = 0 <=> Lead(G, SlotsOf(T, n)) = {})
      BY LeadFinite
    <3>11. Cardinality(Lead(F, SlotsOf(T, n))) = k + 1
      <4>1. PICK S : S = SlotsOf(T, n)
        OBVIOUS
      <4>2. F[p][d] \in S /\ G[p][d] \notin S
        BY <1>1, <1>2, <1>5, <2>1, <3>1, <4>1 DEF SlotsOf
      <4>3. Cardinality(Lead(F, S)) = Cardinality(Lead(G, S)) + 1
        BY <1>1, <1>5, <4>2, LeadFewer
      <4>4. QED
        BY <3>10, <4>1, <4>3
    <3>12. old.open_cnt = k + 1 + lost[n]
      BY <3>4, <3>5, <3>11
    <3>13. Decremented(old) \in NodeRec /\ Decremented(old).open_cnt = k + lost[n]
      BY <3>8, <3>10, <3>12 DEF Decremented, Closed, NodeRec
    <3>14. M \in Nodes /\ OnlyInode(N, M, n) /\ M[n].open_cnt = k + lost[n]
      BY <1>1, <3>6, <3>13 DEF Nodes, OnlyInode
    <3>15. U \in Tables /\ OnlySlot(T, U, g) /\ U[g].flag # "pipe"
      BY <1>1, <2>1, <2>6, <3>7 DEF Tables, FileRec, OnlySlot
    <3>16. /\ old.open_cnt = 1 => U[g].inode = None
           /\ old.open_cnt # 1 => U = T
      BY <1>1, <2>1, <3>7 DEF Tables, FileRec
    <3>17. old.open_cnt = 1 => k = 0 /\ lost[n] = 0
      BY <3>8, <3>10, <3>12
    <3>18. k = 0 => \A q \in Processes, e \in Given : G[q][e] \notin SlotsOf(T, n)
      <4> SUFFICES ASSUME k = 0, NEW q \in Processes, NEW e \in Given,
                          G[q][e] \in SlotsOf(T, n)
                   PROVE  FALSE
        OBVIOUS
      <4>1. Cardinality(Lead(G, SlotsOf(T, n))) > 0
        BY LeadSome
      <4>2. QED
        BY <3>10, <4>1
    <3>19. Cardinality(Lead(G, SlotsOf(U, n))) = k
      <4>1. CASE old.open_cnt = 1
        <5>1. SlotsOf(U, n) \subseteq SlotsOf(T, n)
          BY <3>2, <3>15, <3>16, <4>1 DEF SlotsOf, OnlySlot
        <5>2. \A q \in Processes, e \in Given : G[q][e] \notin SlotsOf(U, n)
          BY <3>17, <3>18, <4>1, <5>1
        <5>3. QED
          BY <3>17, <4>1, <5>2, LeadNone
      <4>2. CASE old.open_cnt # 1
        BY <3>10, <3>16, <4>2
      <4>3. QED
        BY <4>1, <4>2
    <3>20. FilesInv(U, M, G)
      <4>1. T[g].inode \in {n, None} /\ U[g].inode \in {n, None}
        BY <3>1, <3>16
      <4>2. U[g].inode = None => \A q \in Processes, e \in Given : G[q][e] # g
        <5>1. U[g].inode = None => old.open_cnt = 1
          BY <3>1, <3>2, <3>16
        <5>2. g \in SlotsOf(T, n)
          BY <2>1, <3>1 DEF SlotsOf
        <5>3. QED
          BY <3>17, <3>18, <5>1, <5>2
      <4>3. F[p][d] \in {g, -1} /\ G[p][d] \in {g, -1}
        BY <1>2, <1>5
      <4>4. M[n].open_cnt = Cardinality(Lead(G, SlotsOf(U, n))) + lost[n]
        BY <3>14, <3>19
      <4>5. QED
        BY <1>5, <2>1, <3>4, <3>14, <3>15, <4>1, <4>2, <4>3, <4>4, FileStep
    <3>21. QED
      BY <3>9, <3>14, <3>15, <3>20 DEF States
  <2>7. QED
    BY <2>5, <2>6
<1>8. QED
  BY <1>6, <1>7

LEMMA UpdateStep ==
    ASSUME CallsSound, NEW T, NEW N, NEW F, FilesInv(T, N, F),
           NEW p \in Processes, NEW c \in Processes, NEW d \in Given, F[c][d] = -1,
           NEW s, s = [table |-> T, nodes |-> N, fds |-> F[p]],
           NEW r, r = UpdateInode(s, d)
    PROVE  /\ r \in States
           /\ r.fds = F[p]
           /\ FilesInv(r.table, r.nodes, [F EXCEPT ![c][d] = F[p][d]])
<1>1. /\ T \in Tables /\ N \in Nodes /\ F \in [Processes -> FdMap]
      /\ F[p] \in FdMap /\ F[c] \in FdMap
      /\ Given \subseteq Fds /\ -1 \notin Slots
  BY FilesAssumption DEF FilesInv, Typed, Given
<1>2. PICK g \in Slots \cup {-1} : g = F[p][d]
  BY <1>1 DEF FdMap
<1>3. PICK f \in FdMap : f = [F[c] EXCEPT ![d] = g]
  BY <1>1 DEF FdMap
<1>4. PICK G \in [Processes -> FdMap] : G = [F EXCEPT ![c] = f]
  BY <1>1
<1>5. [F EXCEPT ![c][d] = F[p][d]] = G
  BY <1>2, <1>3, <1>4
<1>6. OnlyFd(F, G, c, d) /\ G[c][d] = g
  BY <1>1, <1>3, <1>4 DEF OnlyFd, FdMap
<1> SUFFICES r \in States /\ r.fds = F[p] /\ FilesInv(r.table, r.nodes, G)
  BY <1>5
<1>7. CASE g = -1
  <2>1. r = s
    BY <1>2, <1>7 DEF UpdateInode
  <2>2. f = F[c]
    BY <1>1, <1>3, <1>7 DEF FdMap
  <2>3. G = F
    BY <1>1, <1>4, <2>2
  <2>4. QED
    BY <1>1, <2>1, <2>3 DEF States
<1>8. CASE g # -1
  <2>1. g \in Slots /\ T[g] \in FileRec
    BY <1>1, <1>8 DEF Tables
  <2>2. T[g].inode = Pipe \/ T[g].inode \in Files \cap entries
    BY <1>2, <1>8 DEF FilesInv, Led
  <2>3. s.table = T /\ s.nodes = N /\ s.fds[d] = g
    BY <1>2
  <2>4. CASE T[g].flag = "pipe"
    <3>1. T[g].inode = Pipe
      BY <2>1, <2>2, <2>4 DEF FilesInv, Flagged
    <3>2. PICK U : U = [T EXCEPT ![g].fd_pos = T[g].fd_pos + 1]
      OBVIOUS
    <3>3. r = [table |-> U, nodes |-> N, fds |-> F[p]]
      BY <1>8, <2>3, <2>4, <3>2 DEF UpdateInode
    <3>4. /\ T[g].fd_pos = Cardinality(Lead(F, {g}))
          /\ T[g].fd_pos \in Int /\ T[g].fd_pos > 0
      BY <2>1, <3>1 DEF FilesInv, PipesCounted, FileRec
    <3>5. Cardinality(Lead(G, {g})) = Cardinality(Lead(F, {g})) + 1
      <4>1. PICK S : S = {g}
        OBVIOUS
      <4>2. F[c][d] \notin S /\ G[c][d] \in S
        BY <1>6, <1>8, <4>1
      <4>3. Cardinality(Lead(G, S)) = Cardinality(Lead(F, S)) + 1
        BY <1>6, <4>2, LeadMore
      <4>4. QED
        BY <4>1, <4>3
    <3>6. U \in Tables /\ U[g] \in FileRec /\ OnlySlot(T, U, g)
      BY <1>1, <2>1, <3>2, <3>4 DEF OnlySlot, Tables, FileRec
    <3>7. U[g].inode = Pipe /\ U[g].flag = "pipe" /\ U[g].fd_pos = T[g].fd_pos + 1
      BY <1>1, <2>1, <2>4, <3>1, <3>2 DEF Tables, FileRec
    <3>8. FilesInv(U, N, G)
      <4>1. F[c][d] \in {g, -1} /\ G[c][d] \in {g, -1}
        BY <1>6
      <4>2. U[g].fd_pos > 0 /\ U[g].fd_pos = Cardinality(Lead(G, {g}))
        BY <3>4, <3>5, <3>7
      <4>3. U[g].inode = None => \A q \in Processes, e \in Given : G[q][e] # g
        BY <3>7, FilesAssumption
      <4>4. QED
        BY <1>6, <2>1, <3>1, <3>6, <3>7, <4>1, <4>2, <4>3, PipeStep
    <3>9. QED
      BY <1>1, <3>3, <3>6, <3>8 DEF States
  <2>5. CASE T[g].flag # "pipe"
    <3>1. PICK n \in Files \cap entries : n = T[g].inode
      BY <2>1, <2>2, <2>5 DEF FilesInv, Flagged
    <3>2. n # None
      BY FilesAssumption
    <3>3. PICK M : M = [N EXCEPT ![n].open_cnt = N[n].open_cnt + 1]
      OBVIOUS
    <3>4. r = [table |-> T, nodes |-> M, fds |-> F[p]]
      BY <1>8, <2>3, <2>5, <3>1, <3>3 DEF UpdateInode
    <3>5. /\ \A q \in Processes : ~Removing(q, n) /\ ~Making(q, n)
          /\ N[n].open_cnt = Cardinality(Lead(F, SlotsOf(T, n))) + lost[n]
      BY <1>2, <1>8, <3>1, OpenCounted
    <3>6. N[n] \in NodeRec /\ lost[n] \in Nat
      BY <1>1, <3>1 DEF Nodes, CallsSound
    <3>7. M \in Nodes /\ OnlyInode(N, M, n) /\ M[n].open_cnt = N[n].open_cnt + 1
      BY <1>1, <3>3, <3>6 DEF Nodes, OnlyInode, NodeRec
    <3>8. PICK k \in Nat : k = Cardinality(Lead(F, SlotsOf(T, n)))
      BY LeadFinite
    <3>9. Cardinality(Lead(G, SlotsOf(T, n))) = k + 1
      <4>1. PICK S : S = SlotsOf(T, n)
        OBVIOUS
      <4>2. F[c][d] \notin S /\ G[c][d] \in S
        BY <1>1, <1>6, <2>1, <3>1, <4>1 DEF SlotsOf
      <4>3. Cardinality(Lead(G, S)) = Cardinality(Lead(F, S)) + 1
        BY <1>6, <4>2, LeadMore
      <4>4. QED
        BY <3>8, <4>1, <4>3
    <3>10. OnlySlot(T, T, g)
      BY <1>1 DEF OnlySlot
    <3>11. FilesInv(T, M, G)
      <4>1. M[n].open_cnt = Cardinality(Lead(G, SlotsOf(T, n))) + lost[n]
        BY <3>5, <3>6, <3>7, <3>8, <3>9
      <4>2. F[c][d] \in {g, -1} /\ G[c][d] \in {g, -1}
        BY <1>6
      <4>3. T[g].inode = None => \A q \in Processes, e \in Given : G[q][e] # g
        BY <3>1, <3>2
      <4>4. QED
        BY <1>6, <2>1, <2>5, <3>1, <3>5, <3>7, <3>10, <4>1, <4>2, <4>3, FileStep
    <3>12. QED
      BY <1>1, <3>4, <3>7, <3>11 DEF States
  <2>6. QED
    BY <2>4, <2>5
<1>9. QED
  BY <1>7, <1>8

-----------------------------------------------------------------------------
(* All the descriptors of a process *)

LEMMA GivenFinite == Given \in SUBSET Int /\ IsFiniteSet(Given) /\ Given \subseteq Fds
<1>1. IsFiniteSet(Fds) /\ Fds \subseteq Int
  BY FS_Interval, FilesAssumption DEF Fds
<1>2. IsFiniteSet(Given)
  BY <1>1, FS_Difference DEF Given
<1>3. QED
  BY <1>1, <1>2 DEF Given

\* The process with the descriptors of S closed.
Without(p, S) == [d \in Fds |-> IF d \in S THEN -1 ELSE fd[p][d]]

ClosedFor(p) ==
    {z \in (SUBSET Given) \X States :
        /\ z[2].fds = Without(p, z[1])
        /\ FilesInv(z[2].table, z[2].nodes, [fd EXCEPT ![p] = z[2].fds])}

LEMMA ClosedOne ==
    ASSUME FilesNow, NEW p \in Processes, NEW S \in SUBSET Given, S # {},
           NEW x \in States, <<S \ {Max(S)}, x>> \in ClosedFor(p)
    PROVE  Close(x, Max(S)) \in States /\ <<S, Close(x, Max(S))>> \in ClosedFor(p)
<1>1. S \in SUBSET Int /\ IsFiniteSet(S)
  BY GivenFinite, FS_Subset
<1>2. PICK d \in S : d = Max(S)
  BY <1>1, MaxOfFinite
<1>3. d \in Given /\ d \in Fds
  BY GivenFinite
<1>4. /\ x.fds = Without(p, S \ {d})
      /\ FilesInv(x.table, x.nodes, [fd EXCEPT ![p] = x.fds])
  BY <1>2 DEF ClosedFor
<1>5. fd \in [Processes -> FdMap]
  BY DEF FilesNow, FilesInv, Typed
<1>6. PICK F : F = [fd EXCEPT ![p] = x.fds]
  OBVIOUS
<1>7. PICK r : r = Close(x, d)
  OBVIOUS
<1>8. PICK T, N : T = x.table /\ N = x.nodes
  OBVIOUS
<1>9. x = [table |-> T, nodes |-> N, fds |-> F[p]] /\ FilesInv(T, N, F)
  BY <1>4, <1>5, <1>6, <1>8 DEF States
<1>10. /\ r \in States
      /\ r.fds = [F[p] EXCEPT ![d] = -1]
      /\ FilesInv(r.table, r.nodes, [F EXCEPT ![p] = r.fds])
  BY <1>3, <1>7, <1>9, CloseStep DEF FilesNow
<1>11. [F EXCEPT ![p] = r.fds] = [fd EXCEPT ![p] = r.fds]
  BY <1>5, <1>6
<1>12. F[p] = Without(p, S \ {d})
  BY <1>4, <1>5, <1>6
<1>13. r.fds = Without(p, S)
  BY <1>3, <1>10, <1>12 DEF Without
<1>14. QED
  BY <1>2, <1>7, <1>10, <1>11, <1>13 DEF ClosedFor

LEMMA CloseAllGiven ==
    ASSUME FilesNow, NEW p \in Processes
    PROVE  <<Given, MapThenFoldSet(LAMBDA d, s : Close(s, d), State(p), LAMBDA d : d, Max, Given)>>
              \in ClosedFor(p)
<1>1. Given \in SUBSET Int /\ IsFiniteSet(Given) /\ Given \in SUBSET Given
  BY GivenFinite
<1>2. PICK a \in States : a = State(p)
  BY DEF State, States, FilesNow, FilesInv, Typed
<1>3. <<{}, a>> \in ClosedFor(p)
  <2>1. fd \in [Processes -> FdMap] /\ fd[p] \in FdMap
    BY DEF FilesNow, FilesInv, Typed
  <2>2. a.table = GlobalFileTable /\ a.nodes = inodes /\ a.fds = fd[p]
    BY <1>2 DEF State
  <2>3. a.fds = Without(p, {}) /\ [fd EXCEPT ![p] = a.fds] = fd
    BY <2>1, <2>2 DEF Without, FdMap
  <2>4. {} \in SUBSET Given
    OBVIOUS
  <2>5. QED
    BY <2>2, <2>3, <2>4 DEF ClosedFor, FilesNow
<1> DEFINE F == [z \in Given \X States |->
                   IF Close(z[2], z[1]) \in States THEN Close(z[2], z[1]) ELSE z[2]]
<1>4. F \in [Given \X States -> States]
  OBVIOUS
<1>5. \A S \in SUBSET Given : S # {} => Max(S) \in S /\ Max(S) \in Given
  BY <1>1, FS_Subset, MaxOfFinite
<1>6. \A S \in SUBSET Given, x \in States :
         S # {} /\ <<S \ {Max(S)}, x>> \in ClosedFor(p) =>
            F[<<Max(S), x>>] = Close(x, Max(S))
  <2> SUFFICES ASSUME NEW S \in SUBSET Given, NEW x \in States,
                      S # {}, <<S \ {Max(S)}, x>> \in ClosedFor(p)
               PROVE  F[<<Max(S), x>>] = Close(x, Max(S))
    OBVIOUS
  <2>1. PICK d \in Given : d = Max(S)
    BY <1>5
  <2>2. Close(x, d) \in States
    BY <2>1, ClosedOne
  <2>3. F[<<d, x>>] = Close(x, d)
    BY <2>2
  <2>4. QED
    BY <2>1, <2>3
<1>7. PICK g \in [SUBSET Given -> States] :
         Recurses(g, Given, a, F) /\ \A S \in SUBSET Given : <<S, g[S]>> \in ClosedFor(p)
  <2>1. PICK H : H = F
    OBVIOUS
  <2>2. PICK Good : Good = ClosedFor(p)
    OBVIOUS
  <2>3. PICK X : X = States
    OBVIOUS
  <2>4. Keeps(Given, X, a, H, Good)
    <3> HIDE DEF F
    <3>1. QED
      BY <1>1, <1>3, <1>4, <1>6, <2>1, <2>2, <2>3, ClosedOne DEF Keeps
  <2>5. Kept(Given, X, a, H, Good)
    BY <2>4, FoldSteps
  <2> HIDE DEF F
  <2>6. QED
    BY <2>1, <2>2, <2>3, <2>5 DEF Kept
<1> HIDE DEF F
<1>8. \A S \in SUBSET Given :
         g[S] = IF S = {} THEN a ELSE Close(g[S \ {Max(S)}], Max(S))
  BY <1>6, <1>7 DEF Recurses
<1> DEFINE body(h) == [S \in SUBSET Given |->
                         IF S = {} THEN State(p) ELSE Close(h[S \ {Max(S)}], Max(S))]
           iter == CHOOSE h : h = body(h)
<1>9. g = body(g)
  BY <1>2, <1>7, <1>8
<1>10. iter = body(iter)
  <2> HIDE DEF body
  <2>1. QED
    BY <1>9
<1>11. \A S \in SUBSET Given :
          iter[S] = IF S = {} THEN State(p) ELSE Close(iter[S \ {Max(S)}], Max(S))
  <2> HIDE DEF iter
  <2>1. QED
    BY <1>10
<1>12. iter[Given] = g[Given]
  <2> DEFINE G == {S \in SUBSET Given : iter[S] = g[S]}
  <2> HIDE DEF iter
  <2>1. {} \in G
    BY <1>2, <1>8, <1>11
  <2>2. ASSUME NEW S \in SUBSET Given, S # {}, S \ {Max(S)} \in G PROVE S \in G
    BY <1>8, <1>11, <2>2
  <2>3. G \in SUBSET (SUBSET Given)
    OBVIOUS
  <2>4. Given \in G
    <3> HIDE DEF G
    <3>1. QED
      BY <1>1, <2>1, <2>2, <2>3, SetInduction
  <2>5. QED
    BY <2>4
<1>13. MapThenFoldSet(LAMBDA d, s : Close(s, d), State(p), LAMBDA d : d, Max, Given) = iter[Given]
  BY DEF MapThenFoldSet
<1> HIDE DEF iter
<1>14. QED
  BY <1>1, <1>7, <1>12, <1>13

\* A step that leaves the calls, the directory and the working directories,
\* but for a process that takes another's or the root.
LEMMA OnlyOpen ==
    ASSUME CallsSound, FilesInv(GlobalFileTable', inodes', fd'),
           UNCHANGED <<entries, call, lost>>,
           workDir' \in [Processes -> Dirs \cup {Root}],
           \A q \in Processes : workDir'[q] = Root \/ \E r \in Processes : workDir'[q] = workDir[r]
    PROVE  FilesNow'
<1>1. CallsSound'
  BY DEF CallsSound, CallSound, NoCall
<1>2. \A q, n : Removing(q, n)' = Removing(q, n) /\ Making(q, n)' = Making(q, n)
  BY DEF Removing, Making
<1>3. \A n : Removers(n)' = Removers(n)
  BY <1>2 DEF Removers
<1>4. /\ Typed(GlobalFileTable, inodes, fd)' /\ Flagged(GlobalFileTable)'
      /\ Led(GlobalFileTable, fd)' /\ PipesCounted(GlobalFileTable, fd)'
  BY DEF FilesInv, Typed, Flagged, Led, PipesCounted, Lead
<1>5. FilesCounted(GlobalFileTable, inodes, fd)'
  BY <1>3 DEF FilesInv, FilesCounted, Lead, SlotsOf
<1>6. MakersApart(GlobalFileTable, inodes)'
  BY <1>2 DEF FilesInv, MakersApart
<1>7. RemoversAlone(inodes)'
  <2> SUFFICES ASSUME NEW q \in Processes, NEW n \in Files \cup Dirs, Removing(q, n)
               PROVE  /\ inodes'[n].open_cnt = 1
                      /\ \A r \in Processes : Removing(r, n) => r = q
                      /\ \A r \in Processes : workDir'[r] # n
    BY <1>2 DEF RemoversAlone
  <2>1. n # Root
    BY FilesAssumption
  <2>2. QED
    BY <2>1 DEF FilesInv, RemoversAlone
<1>8. WorkDirsListed(inodes)'
  BY DEF FilesInv, WorkDirsListed
<1>9. QED
  BY <1>1, <1>4, <1>5, <1>6, <1>7, <1>8 DEF FilesNow, FilesInv

LEMMA CloseFiles ==
    ASSUME FilesNow, NEW p \in Processes, NEW d \in Given, syscall_close(p, d)
    PROVE  FilesNow' /\ fd' = [fd EXCEPT ![p][d] = -1]
<1>1. fd \in [Processes -> FdMap] /\ workDir \in [Processes -> Dirs \cup {Root}]
  BY DEF FilesNow, FilesInv, Typed, CallsSound
<1>2. PICK s : s = State(p)
  OBVIOUS
<1>3. PICK r : r = Close(s, d)
  OBVIOUS
<1>4. s = [table |-> GlobalFileTable, nodes |-> inodes, fds |-> fd[p]]
  BY <1>2 DEF State
<1>5. PICK T, N : T = GlobalFileTable /\ N = inodes
  OBVIOUS
<1>6. PICK F : F = fd
  OBVIOUS
<1>7. FilesInv(T, N, F) /\ s = [table |-> T, nodes |-> N, fds |-> F[p]]
  BY <1>4, <1>5, <1>6 DEF FilesNow
<1>8. /\ r.fds = [F[p] EXCEPT ![d] = -1]
      /\ FilesInv(r.table, r.nodes, [F EXCEPT ![p] = r.fds])
  BY <1>3, <1>7, CloseStep DEF FilesNow
<1>9. GlobalFileTable' = r.table /\ inodes' = r.nodes /\ fd' = [fd EXCEPT ![p] = r.fds]
  BY <1>2, <1>3 DEF syscall_close, SetState
<1>10. FilesInv(GlobalFileTable', inodes', fd')
  BY <1>6, <1>8, <1>9
<1>11. FilesNow'
  BY <1>1, <1>10, OnlyOpen DEF FilesNow, syscall_close
<1>12. QED
  BY <1>6, <1>8, <1>9, <1>11

LEMMA CloseAllFiles ==
    ASSUME FilesNow, NEW p \in Processes, CloseAll(p)
    PROVE  FilesNow' /\ fd' = [fd EXCEPT ![p] = [d \in Fds |-> -1]]
<1>1. fd \in [Processes -> FdMap] /\ workDir \in [Processes -> Dirs \cup {Root}]
  BY DEF FilesNow, FilesInv, Typed, CallsSound
<1>2. PICK end : end = MapThenFoldSet(LAMBDA d, s : Close(s, d), State(p), LAMBDA d : d, Max, Given)
  OBVIOUS
<1>3. <<Given, end>> \in ClosedFor(p)
  BY <1>2, CloseAllGiven
<1>4. /\ end \in States /\ end.fds = Without(p, Given)
      /\ FilesInv(end.table, end.nodes, [fd EXCEPT ![p] = end.fds])
  BY <1>3 DEF ClosedFor
<1>5. PICK last : last = [end EXCEPT !.fds = [d \in Fds |-> -1]]
  OBVIOUS
<1>6. SetState(p, last)
  BY <1>2, <1>5 DEF CloseAll
<1>7. last.table = end.table /\ last.nodes = end.nodes /\ last.fds = [d \in Fds |-> -1]
  BY <1>4, <1>5 DEF States
<1>8. /\ GlobalFileTable' = end.table /\ inodes' = end.nodes
      /\ fd' = [fd EXCEPT ![p] = [d \in Fds |-> -1]]
  BY <1>6, <1>7 DEF SetState
<1>9. FilesInv(GlobalFileTable', inodes', fd')
  <2>1. PICK F, G : F = [fd EXCEPT ![p] = end.fds] /\ G = fd'
    OBVIOUS
  <2>2. G \in [Processes -> FdMap]
    BY <1>1, <1>8, <2>1 DEF FdMap
  <2>3. \A q \in Processes, d \in Given : G[q][d] = F[q][d]
    BY <1>1, <1>4, <1>8, <2>1, GivenFinite DEF Without
  <2>4. PICK T, N : T = end.table /\ N = end.nodes
    OBVIOUS
  <2>5. FilesInv(T, N, F)
    BY <1>4, <2>1, <2>4
  <2>6. FilesInv(T, N, G)
    BY <2>2, <2>3, <2>5, GivenOnly DEF FilesNow
  <2>7. QED
    BY <1>8, <2>1, <2>4, <2>6
<1>10. UNCHANGED <<entries, call, lost>> /\ workDir' = [workDir EXCEPT ![p] = Root]
  BY DEF CloseAll
<1>11. FilesNow'
  BY <1>1, <1>9, <1>10, OnlyOpen DEF FilesNow
<1>12. QED
  BY <1>8, <1>11

\* The child with the descriptors of S.
Shared(p, c, S) ==
    [fd EXCEPT ![c] = [d \in Fds |-> IF d \in S THEN fd[p][d] ELSE -1]]

CountedFor(p, c) ==
    {z \in (SUBSET Given) \X States :
        /\ z[2].fds = fd[p]
        /\ FilesInv(z[2].table, z[2].nodes, Shared(p, c, z[1]))}

LEMMA CountedOne ==
    ASSUME FilesNow, NEW p \in Processes, NEW c \in Processes \ {p},
           NEW S \in SUBSET Given, S # {},
           NEW x \in States, <<S \ {Max(S)}, x>> \in CountedFor(p, c)
    PROVE  UpdateInode(x, Max(S)) \in States /\ <<S, UpdateInode(x, Max(S))>> \in CountedFor(p, c)
<1>1. S \in SUBSET Int /\ IsFiniteSet(S)
  BY GivenFinite, FS_Subset
<1>2. PICK d \in S : d = Max(S)
  BY <1>1, MaxOfFinite
<1>3. d \in Given /\ d \in Fds
  BY GivenFinite
<1>4. x.fds = fd[p] /\ FilesInv(x.table, x.nodes, Shared(p, c, S \ {d}))
  BY <1>2 DEF CountedFor
<1>5. fd \in [Processes -> FdMap]
  BY DEF FilesNow, FilesInv, Typed
<1>6. PICK F : F = Shared(p, c, S \ {d})
  OBVIOUS
<1>7. PICK r : r = UpdateInode(x, d)
  OBVIOUS
<1>8. F[p] = fd[p] /\ F[c][d] = -1
  BY <1>3, <1>5, <1>6 DEF Shared
<1>9. PICK T, N : T = x.table /\ N = x.nodes
  OBVIOUS
<1>10. x = [table |-> T, nodes |-> N, fds |-> F[p]] /\ FilesInv(T, N, F)
  BY <1>4, <1>6, <1>8, <1>9 DEF States
<1>11. /\ r \in States /\ r.fds = F[p]
       /\ FilesInv(r.table, r.nodes, [F EXCEPT ![c][d] = F[p][d]])
  BY <1>3, <1>7, <1>8, <1>10, UpdateStep DEF FilesNow
<1>12. [F EXCEPT ![c][d] = F[p][d]] = Shared(p, c, S)
  <2>1. F[c] = [e \in Fds |-> IF e \in S \ {d} THEN fd[p][e] ELSE -1]
    BY <1>5, <1>6 DEF Shared
  <2>2. [F[c] EXCEPT ![d] = F[p][d]] = [e \in Fds |-> IF e \in S THEN fd[p][e] ELSE -1]
    BY <1>3, <1>8, <2>1
  <2>3. QED
    BY <1>5, <1>6, <2>2 DEF Shared
<1>13. QED
  BY <1>2, <1>7, <1>8, <1>11, <1>12 DEF CountedFor

LEMMA CountAllGiven ==
    ASSUME FilesNow, NEW p \in Processes, NEW c \in Processes \ {p},
           fd[c] = [d \in Fds |-> -1]
    PROVE  <<Given, MapThenFoldSet(LAMBDA d, s : UpdateInode(s, d), State(p), LAMBDA d : d, Max, Given)>>
              \in CountedFor(p, c)
<1>1. Given \in SUBSET Int /\ IsFiniteSet(Given) /\ Given \in SUBSET Given
  BY GivenFinite
<1>2. PICK a \in States : a = State(p)
  BY DEF State, States, FilesNow, FilesInv, Typed
<1>3. <<{}, a>> \in CountedFor(p, c)
  <2>1. fd \in [Processes -> FdMap] /\ fd[p] \in FdMap
    BY DEF FilesNow, FilesInv, Typed
  <2>2. a.table = GlobalFileTable /\ a.nodes = inodes /\ a.fds = fd[p]
    BY <1>2 DEF State
  <2>3. [d \in Fds |-> IF d \in {} THEN fd[p][d] ELSE -1] = fd[c]
    OBVIOUS
  <2>4. Shared(p, c, {}) = fd
    BY <2>1, <2>3 DEF Shared
  <2>5. {} \in SUBSET Given
    OBVIOUS
  <2>6. FilesInv(a.table, a.nodes, Shared(p, c, {}))
    BY <2>2, <2>4 DEF FilesNow
  <2>7. QED
    BY <2>2, <2>5, <2>6 DEF CountedFor
<1> DEFINE F == [z \in Given \X States |->
                   IF UpdateInode(z[2], z[1]) \in States THEN UpdateInode(z[2], z[1]) ELSE z[2]]
<1>4. F \in [Given \X States -> States]
  OBVIOUS
<1>5. \A S \in SUBSET Given : S # {} => Max(S) \in S /\ Max(S) \in Given
  BY <1>1, FS_Subset, MaxOfFinite
<1>6. \A S \in SUBSET Given, x \in States :
         S # {} /\ <<S \ {Max(S)}, x>> \in CountedFor(p, c) =>
            F[<<Max(S), x>>] = UpdateInode(x, Max(S))
  <2> SUFFICES ASSUME NEW S \in SUBSET Given, NEW x \in States,
                      S # {}, <<S \ {Max(S)}, x>> \in CountedFor(p, c)
               PROVE  F[<<Max(S), x>>] = UpdateInode(x, Max(S))
    OBVIOUS
  <2>1. PICK d \in Given : d = Max(S)
    BY <1>5
  <2>2. UpdateInode(x, d) \in States
    BY <2>1, CountedOne
  <2>3. F[<<d, x>>] = UpdateInode(x, d)
    BY <2>2
  <2>4. QED
    BY <2>1, <2>3
<1>7. PICK g \in [SUBSET Given -> States] :
         Recurses(g, Given, a, F) /\ \A S \in SUBSET Given : <<S, g[S]>> \in CountedFor(p, c)
  <2>1. PICK H : H = F
    OBVIOUS
  <2>2. PICK Good : Good = CountedFor(p, c)
    OBVIOUS
  <2>3. PICK X : X = States
    OBVIOUS
  <2>4. Keeps(Given, X, a, H, Good)
    <3> HIDE DEF F
    <3>1. QED
      BY <1>1, <1>3, <1>4, <1>6, <2>1, <2>2, <2>3, CountedOne DEF Keeps
  <2>5. Kept(Given, X, a, H, Good)
    BY <2>4, FoldSteps
  <2> HIDE DEF F
  <2>6. QED
    BY <2>1, <2>2, <2>3, <2>5 DEF Kept
<1> HIDE DEF F
<1>8. \A S \in SUBSET Given :
         g[S] = IF S = {} THEN a ELSE UpdateInode(g[S \ {Max(S)}], Max(S))
  BY <1>6, <1>7 DEF Recurses
<1> DEFINE body(h) == [S \in SUBSET Given |->
                         IF S = {} THEN State(p) ELSE UpdateInode(h[S \ {Max(S)}], Max(S))]
           iter == CHOOSE h : h = body(h)
<1>9. g = body(g)
  BY <1>2, <1>7, <1>8
<1>10. iter = body(iter)
  <2> HIDE DEF body
  <2>1. QED
    BY <1>9
<1>11. \A S \in SUBSET Given :
          iter[S] = IF S = {} THEN State(p) ELSE UpdateInode(iter[S \ {Max(S)}], Max(S))
  <2> HIDE DEF iter
  <2>1. QED
    BY <1>10
<1>12. iter[Given] = g[Given]
  <2> DEFINE G == {S \in SUBSET Given : iter[S] = g[S]}
  <2> HIDE DEF iter
  <2>1. {} \in G
    BY <1>2, <1>8, <1>11
  <2>2. ASSUME NEW S \in SUBSET Given, S # {}, S \ {Max(S)} \in G PROVE S \in G
    BY <1>8, <1>11, <2>2
  <2>3. G \in SUBSET (SUBSET Given)
    OBVIOUS
  <2>4. Given \in G
    <3> HIDE DEF G
    <3>1. QED
      BY <1>1, <2>1, <2>2, <2>3, SetInduction
  <2>5. QED
    BY <2>4
<1>13. MapThenFoldSet(LAMBDA d, s : UpdateInode(s, d), State(p), LAMBDA d : d, Max, Given) = iter[Given]
  BY DEF MapThenFoldSet
<1> HIDE DEF iter
<1>14. QED
  BY <1>1, <1>7, <1>12, <1>13

LEMMA ForkAllFiles ==
    ASSUME FilesNow, NEW p \in Processes, NEW c \in Processes \ {p},
           fd[c] = [d \in Fds |-> -1], ForkFiles(p, c)
    PROVE  FilesNow' /\ fd' = [fd EXCEPT ![c] = fd[p]]
<1>1. fd \in [Processes -> FdMap] /\ workDir \in [Processes -> Dirs \cup {Root}]
  BY DEF FilesNow, FilesInv, Typed, CallsSound
<1>2. PICK end : end = MapThenFoldSet(LAMBDA d, s : UpdateInode(s, d), State(p), LAMBDA d : d, Max, Given)
  OBVIOUS
<1>3. <<Given, end>> \in CountedFor(p, c)
  BY <1>2, CountAllGiven
<1>4. /\ end \in States /\ end.fds = fd[p]
      /\ FilesInv(end.table, end.nodes, Shared(p, c, Given))
  BY <1>3 DEF CountedFor
<1>5. GlobalFileTable' = end.table /\ inodes' = end.nodes /\ fd' = [fd EXCEPT ![c] = fd[p]]
  BY <1>2, <1>4 DEF ForkFiles, SetState
<1>6. FilesInv(GlobalFileTable', inodes', fd')
  <2>1. PICK F, G : F = Shared(p, c, Given) /\ G = fd'
    OBVIOUS
  <2>2. G \in [Processes -> FdMap]
    BY <1>1, <1>5, <2>1 DEF FdMap
  <2>3. \A q \in Processes, d \in Given : G[q][d] = F[q][d]
    BY <1>1, <1>5, <2>1, GivenFinite DEF Shared
  <2>4. PICK T, N : T = end.table /\ N = end.nodes
    OBVIOUS
  <2>5. FilesInv(T, N, F)
    BY <1>4, <2>1, <2>4
  <2>6. FilesInv(T, N, G)
    BY <2>2, <2>3, <2>5, GivenOnly DEF FilesNow
  <2>7. QED
    BY <1>5, <2>1, <2>4, <2>6
<1>7. UNCHANGED <<entries, call, lost>> /\ workDir' = [workDir EXCEPT ![c] = workDir[p]]
  BY DEF ForkFiles
<1>8. FilesNow'
  BY <1>1, <1>6, <1>7, OnlyOpen DEF FilesNow
<1>9. QED
  BY <1>5, <1>8

-----------------------------------------------------------------------------
(* The calls *)

Quiet(c) == c.at \notin {"create", "made", "remove", "unlisted"}

\* Process p has call k now.
CallOf(p, k) == k \in Calls /\ CallSound(k) /\ call' = [call EXCEPT ![p] = k]

LEMMA QuietCall ==
    ASSUME CallsSound, NEW p \in Processes, NEW k, CallOf(p, k), Quiet(call[p]), Quiet(k)
    PROVE  /\ \A q \in Processes : \A n : Removing(q, n)' = Removing(q, n)
           /\ \A q \in Processes : \A n : Making(q, n)' = Making(q, n)
           /\ \A n : Removers(n)' = Removers(n)
           /\ \A q \in Processes : \A n : Making(q, n) => call'[q] = call[q]
<1>1. \A q \in Processes : q # p => call'[q] = call[q]
  BY DEF CallOf, CallsSound
<1>2. call'[p] = k
  BY DEF CallOf, CallsSound
<1>3. \A q \in Processes : \A n : Removing(q, n)' = Removing(q, n)
  BY <1>1, <1>2 DEF Removing, Quiet
<1>4. \A q \in Processes : \A n : Making(q, n)' = Making(q, n)
  BY <1>1, <1>2 DEF Making, Quiet
<1>5. \A n : Removers(n)' = Removers(n)
  BY <1>3 DEF Removers
<1>6. \A q \in Processes : \A n : Making(q, n) => call'[q] = call[q]
  BY <1>1 DEF Making, Quiet
<1>7. QED
  BY <1>3, <1>4, <1>5, <1>6

LEMMA CallTyped ==
    ASSUME CallsSound, NEW p \in Processes, NEW k, CallOf(p, k)
    PROVE  /\ call' \in [Processes -> Calls] /\ \A q \in Processes : CallSound(call[q])'
           /\ call'[p] = k /\ \A q \in Processes \ {p} : call'[q] = call[q]
<1>1. call' \in [Processes -> Calls] /\ call'[p] = k /\ \A q \in Processes \ {p} : call'[q] = call[q]
  BY DEF CallOf, CallsSound
<1>2. \A q \in Processes : CallSound(call[q])'
  BY <1>1 DEF CallOf, CallsSound, CallSound, NoCall
<1>3. QED
  BY <1>1, <1>2

\* The counts are the same: a slot that no descriptor leads to is taken or
\* given up, or only the call changes.
SlotFree(s) == \A q \in Processes, e \in Given : fd[q][e] # s

LEMMA SlotStep ==
    ASSUME FilesNow, NEW p \in Processes, NEW k, CallOf(p, k), Quiet(call[p]), Quiet(k),
           NEW s \in Slots, SlotFree(s), OnlySlot(GlobalFileTable, GlobalFileTable', s),
           GlobalFileTable[s].inode = None, GlobalFileTable'[s].inode = None,
           inodes' \in Nodes, \A n \in Files \cup Dirs : inodes'[n].open_cnt = inodes[n].open_cnt,
           UNCHANGED <<fd, workDir, entries, lost>>
    PROVE  FilesNow'
<1>1. Pipe \notin Files /\ None \notin Files /\ Pipe # None /\ Root \notin Dirs /\ Root \notin Files
  BY FilesAssumption
<1>2. /\ \A q \in Processes : \A n : Removing(q, n)' = Removing(q, n)
      /\ \A q \in Processes : \A n : Making(q, n)' = Making(q, n)
      /\ \A n : Removers(n)' = Removers(n)
      /\ \A q \in Processes : \A n : Making(q, n) => call'[q] = call[q]
  BY QuietCall DEF FilesNow
<1>3. CallsSound'
  BY CallTyped DEF FilesNow, CallsSound
<1>4. /\ GlobalFileTable \in Tables /\ inodes \in Nodes /\ fd \in [Processes -> FdMap]
      /\ Given \subseteq Fds
  BY GivenFinite DEF FilesNow, FilesInv, Typed
<1>5. Typed(GlobalFileTable, inodes, fd)'
  BY <1>4 DEF Typed, OnlySlot, FdMap, Tables, Nodes, FileRec, NodeRec
<1>6. Flagged(GlobalFileTable)'
  BY <1>1 DEF FilesNow, FilesInv, Flagged, OnlySlot
<1>7. Led(GlobalFileTable, fd)'
  BY <1>4 DEF FilesNow, FilesInv, Led, OnlySlot, SlotFree, FdMap
<1>8. PipesCounted(GlobalFileTable, fd)'
  BY <1>1 DEF FilesNow, FilesInv, PipesCounted, OnlySlot, Lead
<1>9. FilesCounted(GlobalFileTable, inodes, fd)'
  <2>1. \A n \in Files : SlotsOf(GlobalFileTable', n) = SlotsOf(GlobalFileTable, n)
    BY <1>1 DEF SlotsOf, OnlySlot
  <2>2. QED
    BY <1>2, <2>1 DEF FilesNow, FilesInv, FilesCounted, SlotsOf, Lead
<1>10. MakersApart(GlobalFileTable, inodes)'
  <2> SUFFICES ASSUME NEW q \in Processes, NEW n \in Files, Making(q, n)
               PROVE  /\ call'[q].slot \in Slots
                      /\ GlobalFileTable'[call'[q].slot].inode = n
                      /\ GlobalFileTable'[call'[q].slot].flag = "write"
                      /\ inodes'[n].open_cnt = 0
                      /\ \A r \in Processes : Making(r, n) => r = q
                      /\ call'[q].at = "made" => n \in entries'
    BY <1>2 DEF MakersApart
  <2>1. /\ call[q].slot \in Slots
        /\ GlobalFileTable[call[q].slot].inode = n /\ GlobalFileTable[call[q].slot].flag = "write"
        /\ inodes[n].open_cnt = 0
        /\ \A r \in Processes : Making(r, n) => r = q
        /\ call[q].at = "made" => n \in entries
    BY DEF FilesNow, FilesInv, MakersApart
  <2>2. call[q].slot # s
    BY <1>1, <2>1
  <2>3. GlobalFileTable'[call[q].slot] = GlobalFileTable[call[q].slot] /\ call'[q] = call[q]
    BY <1>2, <2>1, <2>2 DEF OnlySlot
  <2>4. QED
    BY <2>1, <2>3
<1>11. RemoversAlone(inodes)'
  BY <1>2 DEF FilesNow, FilesInv, RemoversAlone
<1>12. WorkDirsListed(inodes)'
  BY DEF FilesNow, FilesInv, WorkDirsListed, CallsSound
<1>13. QED
  BY <1>3, <1>5, <1>6, <1>7, <1>8, <1>9, <1>10, <1>11, <1>12 DEF FilesNow, FilesInv

LEMMA CallOnly ==
    ASSUME FilesNow, NEW p \in Processes, NEW k, CallOf(p, k), Quiet(call[p]), Quiet(k),
           inodes' \in Nodes, \A n \in Files \cup Dirs : inodes'[n].open_cnt = inodes[n].open_cnt,
           UNCHANGED <<GlobalFileTable, fd, workDir, entries, lost>>
    PROVE  FilesNow'
<1>1. /\ \A q \in Processes : \A n : Removing(q, n)' = Removing(q, n)
      /\ \A q \in Processes : \A n : Making(q, n)' = Making(q, n)
      /\ \A n : Removers(n)' = Removers(n)
      /\ \A q \in Processes : \A n : Making(q, n) => call'[q] = call[q]
  BY QuietCall DEF FilesNow
<1>2. CallsSound'
  BY CallTyped DEF FilesNow, CallsSound
<1>3. /\ Typed(GlobalFileTable, inodes, fd)' /\ Flagged(GlobalFileTable)'
      /\ Led(GlobalFileTable, fd)' /\ PipesCounted(GlobalFileTable, fd)'
  BY DEF FilesNow, FilesInv, Typed, Flagged, Led, PipesCounted, Lead, Nodes, NodeRec
<1>4. FilesCounted(GlobalFileTable, inodes, fd)'
  BY <1>1 DEF FilesNow, FilesInv, FilesCounted, SlotsOf, Lead
<1>5. MakersApart(GlobalFileTable, inodes)'
  BY <1>1 DEF FilesNow, FilesInv, MakersApart
<1>6. RemoversAlone(inodes)'
  BY <1>1 DEF FilesNow, FilesInv, RemoversAlone
<1>7. WorkDirsListed(inodes)'
  BY DEF FilesNow, FilesInv, WorkDirsListed, CallsSound
<1>8. QED
  BY <1>2, <1>3, <1>4, <1>5, <1>6, <1>7 DEF FilesNow, FilesInv

\* A file is opened by p in slot s: there is a descriptor of p for it, or the
\* open is lost.
Installed(p, d, s) ==
    /\ OnlyFd(fd, fd', p, d) /\ fd[p][d] = -1 /\ fd'[p][d] = s
    /\ lost' = lost

LostOne(n) == fd' = fd /\ lost' = [lost EXCEPT ![n] = @ + 1]

LEMMA OpenStep ==
    ASSUME FilesNow, NEW p \in Processes, NEW k, CallOf(p, k), Quiet(k),
           NEW n \in Files \cap entries, NEW s \in Slots, SlotFree(s),
           \A q \in Processes : ~Removing(q, n),
           \A q \in Processes \ {p} : ~Making(q, n),
           \A m \in Files \cup Dirs : ~Removing(p, m) /\ (Making(p, m) => m = n),
           OnlySlot(GlobalFileTable, GlobalFileTable', s),
           GlobalFileTable[s].inode \in {n, None},
           GlobalFileTable'[s].inode = n, GlobalFileTable'[s].flag # "pipe",
           OnlyInode(inodes, inodes', n), inodes'[n].open_cnt = inodes[n].open_cnt + 1,
           LostOne(n) \/ \E d \in Given : Installed(p, d, s),
           UNCHANGED <<workDir, entries>>
    PROVE  FilesNow'
<1>1. Pipe \notin Files /\ None \notin Files /\ Pipe # None /\ n # Root /\ n \notin Dirs /\ -1 \notin Slots
  BY FilesAssumption
<1>2. /\ GlobalFileTable \in Tables /\ inodes \in Nodes /\ fd \in [Processes -> FdMap]
      /\ Given \subseteq Fds /\ lost \in [Files -> Nat]
  BY GivenFinite DEF FilesNow, FilesInv, Typed, CallsSound
<1>3. /\ call' \in [Processes -> Calls] /\ \A q \in Processes : CallSound(call[q])'
      /\ call'[p] = k /\ \A q \in Processes \ {p} : call'[q] = call[q]
  BY CallTyped DEF FilesNow
<1>4. lost' \in [Files -> Nat]
  BY <1>2 DEF LostOne, Installed
<1>5. CallsSound'
  BY <1>3, <1>4 DEF FilesNow, CallsSound
<1>6. fd' \in [Processes -> FdMap]
  BY <1>2 DEF LostOne, Installed, OnlyFd
<1>7. Typed(GlobalFileTable, inodes, fd)'
  BY <1>6 DEF Typed, OnlySlot, OnlyInode, FdMap, Tables, Nodes, FileRec, NodeRec
<1>8. Flagged(GlobalFileTable)'
  BY <1>1 DEF FilesNow, FilesInv, Flagged, OnlySlot
<1>9. \A q \in Processes, e \in Given : fd'[q][e] = fd[q][e] \/ fd'[q][e] = s
  BY <1>2 DEF LostOne, Installed, OnlyFd
<1>10. \A q \in Processes, e \in Given, x \in Slots : x # s => (fd'[q][e] = x <=> fd[q][e] = x)
  BY <1>1, <1>2 DEF LostOne, Installed, OnlyFd
<1>11. Led(GlobalFileTable, fd)'
  <2> SUFFICES ASSUME NEW q \in Processes, NEW e \in Given, fd'[q][e] # -1
               PROVE  \/ GlobalFileTable'[fd'[q][e]].inode = Pipe
                      \/ GlobalFileTable'[fd'[q][e]].inode \in Files \cap entries'
    BY DEF Led
  <2>1. CASE fd'[q][e] = s
    BY <2>1
  <2>2. CASE fd'[q][e] # s
    <3>1. fd'[q][e] = fd[q][e] /\ fd[q][e] \in Slots
      BY <1>2, <1>9, <2>2 DEF FdMap
    <3>2. GlobalFileTable'[fd'[q][e]] = GlobalFileTable[fd[q][e]]
      BY <2>2, <3>1 DEF OnlySlot
    <3>3. QED
      BY <3>1, <3>2 DEF FilesNow, FilesInv, Led
  <2>3. QED
    BY <2>1, <2>2
<1>12. PipesCounted(GlobalFileTable, fd)'
  <2> SUFFICES ASSUME NEW x \in Slots, GlobalFileTable'[x].inode = Pipe
               PROVE  /\ GlobalFileTable'[x].fd_pos = Cardinality(Lead(fd', {x}))
                      /\ GlobalFileTable'[x].fd_pos > 0
    BY DEF PipesCounted, Lead
  <2>1. x # s /\ GlobalFileTable'[x] = GlobalFileTable[x]
    BY <1>1 DEF OnlySlot
  <2>2. \A q \in Processes, e \in Given : fd[q][e] \in {x} <=> fd'[q][e] \in {x}
    BY <1>10, <2>1
  <2>3. Lead(fd, {x}) = Lead(fd', {x})
    BY <2>2, LeadSame
  <2>4. QED
    BY <2>1, <2>3 DEF FilesNow, FilesInv, PipesCounted
<1>13. \A q \in Processes, m \in Files \cup Dirs : Removing(q, m)' = Removing(q, m)
  BY <1>3 DEF Removing, Quiet
<1>14. \A q \in Processes, m \in Files \cup Dirs : Making(q, m)' =>
          q # p /\ m # n /\ Making(q, m) /\ call'[q] = call[q]
  BY <1>3 DEF Making, Quiet
<1>15. \A m \in Files : Removers(m)' = Removers(m)
  BY <1>13 DEF Removers
<1>16. \A q \in Processes, e \in Given : fd[q][e] # s
  BY DEF SlotFree
<1>17. ASSUME NEW m \in Files
       PROVE  inodes'[m].open_cnt =
                 Cardinality(Lead(fd', SlotsOf(GlobalFileTable', m))) + Cardinality(Removers(m)) + lost'[m]
  <2>1. inodes[m].open_cnt =
          Cardinality(Lead(fd, SlotsOf(GlobalFileTable, m))) + Cardinality(Removers(m)) + lost[m]
    BY DEF FilesNow, FilesInv, FilesCounted
  <2>2. CASE m # n
    <3>1. /\ SlotsOf(GlobalFileTable', m) = SlotsOf(GlobalFileTable, m)
          /\ SlotsOf(GlobalFileTable, m) \subseteq Slots \ {s}
      BY <1>1, <2>2 DEF SlotsOf, OnlySlot
    <3>2. \A q \in Processes, e \in Given :
             fd[q][e] \in SlotsOf(GlobalFileTable, m) <=> fd'[q][e] \in SlotsOf(GlobalFileTable', m)
      BY <1>10, <3>1
    <3>3. Lead(fd, SlotsOf(GlobalFileTable, m)) = Lead(fd', SlotsOf(GlobalFileTable', m))
      BY <3>2, LeadSame
    <3>4. inodes'[m] = inodes[m] /\ lost'[m] = lost[m]
      BY <1>2, <2>2 DEF OnlyInode, LostOne, Installed
    <3>5. QED
      BY <2>1, <3>3, <3>4
  <2>3. CASE m = n
    <3>1. SlotsOf(GlobalFileTable', n) = SlotsOf(GlobalFileTable, n) \cup {s}
      BY DEF SlotsOf, OnlySlot
    <3>2. PICK S : S = SlotsOf(GlobalFileTable', n)
      OBVIOUS
    <3>3. \A q \in Processes, e \in Given : fd[q][e] \in SlotsOf(GlobalFileTable, n) <=> fd[q][e] \in S
      BY <1>16, <3>1, <3>2
    <3>4. Lead(fd, SlotsOf(GlobalFileTable, n)) = Lead(fd, S)
      BY <3>3, LeadSame
    <3>5. PICK j \in Nat, r \in Nat : j = Cardinality(Lead(fd, S)) /\ r = Cardinality(Removers(n))
      BY LeadFinite, RemoversFinite
    <3>6. inodes[n].open_cnt = j + r + lost[n] /\ lost[n] \in Nat
      BY <1>2, <2>1, <2>3, <3>4, <3>5
    <3>7. CASE LostOne(n)
      <4>1. Lead(fd', S) = Lead(fd, S) /\ lost'[n] = lost[n] + 1
        BY <1>2, <3>7 DEF LostOne
      <4>2. QED
        BY <2>3, <3>2, <3>5, <3>6, <4>1
    <3>8. ASSUME NEW d \in Given, Installed(p, d, s)
          PROVE  inodes'[n].open_cnt =
                    Cardinality(Lead(fd', SlotsOf(GlobalFileTable', n))) + Cardinality(Removers(n)) + lost'[n]
      <4>1. PICK F, G : F = fd /\ G = fd'
        OBVIOUS
      <4>2. F[p][d] \notin S /\ G[p][d] \in S /\ OnlyFd(F, G, p, d)
        BY <1>1, <3>1, <3>2, <3>8, <4>1 DEF Installed, SlotsOf
      <4>3. Cardinality(Lead(G, S)) = Cardinality(Lead(F, S)) + 1
        BY <4>2, LeadMore
      <4>4. lost'[n] = lost[n]
        BY <3>8 DEF Installed
      <4>5. QED
        BY <3>2, <3>5, <3>6, <4>1, <4>3, <4>4
    <3>9. QED
      BY <2>3, <3>7, <3>8
  <2>4. QED
    BY <2>2, <2>3
<1>18. FilesCounted(GlobalFileTable, inodes, fd)'
  <2>1. \A m : SlotsOf(GlobalFileTable, m)' = SlotsOf(GlobalFileTable', m)
    BY DEF SlotsOf
  <2>2. \A S : Lead(fd, S)' = Lead(fd', S)
    BY DEF Lead
  <2>3. QED
    BY <1>15, <1>17, <2>1, <2>2 DEF FilesCounted
<1>19. MakersApart(GlobalFileTable, inodes)'
  <2> SUFFICES ASSUME NEW q \in Processes, NEW m \in Files, Making(q, m)'
               PROVE  /\ call'[q].slot \in Slots
                      /\ GlobalFileTable'[call'[q].slot].inode = m
                      /\ GlobalFileTable'[call'[q].slot].flag = "write"
                      /\ inodes'[m].open_cnt = 0
                      /\ \A r \in Processes : Making(r, m)' => r = q
                      /\ call'[q].at = "made" => m \in entries'
    BY DEF MakersApart
  <2>1. q # p /\ m # n /\ Making(q, m) /\ call'[q] = call[q]
    BY <1>14
  <2>2. /\ call[q].slot \in Slots
        /\ GlobalFileTable[call[q].slot].inode = m /\ GlobalFileTable[call[q].slot].flag = "write"
        /\ inodes[m].open_cnt = 0
        /\ \A r \in Processes : Making(r, m) => r = q
        /\ call[q].at = "made" => m \in entries
    BY <2>1 DEF FilesNow, FilesInv, MakersApart
  <2>3. call[q].slot # s
    BY <1>1, <2>1, <2>2
  <2>4. GlobalFileTable'[call[q].slot] = GlobalFileTable[call[q].slot] /\ inodes'[m] = inodes[m]
    BY <2>1, <2>2, <2>3 DEF OnlySlot, OnlyInode
  <2>5. QED
    BY <1>14, <2>1, <2>2, <2>4
<1>20. RemoversAlone(inodes)'
  BY <1>13 DEF FilesNow, FilesInv, RemoversAlone, OnlyInode
<1>21. WorkDirsListed(inodes)'
  <2>1. \A q \in Processes : workDir[q] # Root => workDir[q] \in Dirs
    BY DEF FilesNow, CallsSound
  <2>2. QED
    BY <1>1, <2>1 DEF FilesNow, FilesInv, WorkDirsListed, OnlyInode
<1>22. QED
  BY <1>5, <1>7, <1>8, <1>11, <1>12, <1>18, <1>19, <1>20, <1>21 DEF FilesNow, FilesInv

\* file_create takes slot s for file n.
LEMMA MakeStep ==
    ASSUME FilesNow, NEW p \in Processes, NEW k, CallOf(p, k), call[p].at = "search",
           NEW n \in Files, NEW s \in Slots, k.at = "create", k.name = n, k.slot = s,
           n \notin entries, ~Listed(n),
           \A q \in Processes : ~(call[q].at = "create" /\ call[q].name = n),
           SlotFree(s), OnlySlot(GlobalFileTable, GlobalFileTable', s),
           GlobalFileTable[s].inode = None,
           GlobalFileTable'[s].inode = n, GlobalFileTable'[s].flag = "write",
           UNCHANGED <<fd, inodes, workDir, entries, lost>>
    PROVE  FilesNow'
<1>1. Pipe \notin Files /\ None \notin Files /\ Pipe # None
  BY FilesAssumption
<1>2. /\ GlobalFileTable \in Tables /\ inodes \in Nodes /\ fd \in [Processes -> FdMap]
      /\ Given \subseteq Fds
  BY GivenFinite DEF FilesNow, FilesInv, Typed
<1>3. /\ call' \in [Processes -> Calls] /\ \A q \in Processes : CallSound(call[q])'
      /\ call'[p] = k /\ \A q \in Processes \ {p} : call'[q] = call[q]
  BY CallTyped DEF FilesNow
<1>4. CallsSound'
  BY <1>3 DEF FilesNow, CallsSound
<1>5. \A q \in Processes : ~Making(q, n)
  BY DEF Making, FilesNow, FilesInv, MakersApart
<1>6. inodes[n].open_cnt = 0
  BY ClosedForAll DEF FilesNow, Listed
<1>7. \A q \in Processes : \A m : Removing(q, m)' = Removing(q, m)
  BY <1>3 DEF Removing
<1>8. \A m : Removers(m)' = Removers(m)
  BY <1>7 DEF Removers
<1>9. \A q \in Processes : \A m : Making(q, m)' =>
         \/ q = p /\ m = n
         \/ q # p /\ m # n /\ Making(q, m) /\ call'[q] = call[q]
  BY <1>3, <1>5 DEF Making
<1>10. Typed(GlobalFileTable, inodes, fd)'
  BY <1>2 DEF Typed, OnlySlot, FdMap, Tables, Nodes, FileRec, NodeRec
<1>11. Flagged(GlobalFileTable)'
  BY <1>1 DEF FilesNow, FilesInv, Flagged, OnlySlot
<1>12. Led(GlobalFileTable, fd)'
  <2> SUFFICES ASSUME NEW q \in Processes, NEW d \in Given, fd'[q][d] # -1
               PROVE  \/ GlobalFileTable'[fd'[q][d]].inode = Pipe
                      \/ GlobalFileTable'[fd'[q][d]].inode \in Files \cap entries'
    BY DEF Led
  <2>1. fd[q][d] \in Slots
    BY <1>2 DEF FdMap
  <2>2. \/ GlobalFileTable[fd[q][d]].inode = Pipe
        \/ GlobalFileTable[fd[q][d]].inode \in Files \cap entries
    BY DEF FilesNow, FilesInv, Led
  <2>3. fd[q][d] # s
    BY <1>1, <2>2
  <2>4. GlobalFileTable'[fd[q][d]] = GlobalFileTable[fd[q][d]]
    BY <2>1, <2>3 DEF OnlySlot
  <2>5. QED
    BY <2>2, <2>4
<1>13. PipesCounted(GlobalFileTable, fd)'
  <2> SUFFICES ASSUME NEW x \in Slots, GlobalFileTable'[x].inode = Pipe
               PROVE  /\ GlobalFileTable'[x].fd_pos = Cardinality(Lead(fd, {x}))
                      /\ GlobalFileTable'[x].fd_pos > 0
    BY DEF PipesCounted, Lead
  <2>1. GlobalFileTable'[x] = GlobalFileTable[x]
    BY <1>1 DEF OnlySlot
  <2>2. QED
    BY <2>1 DEF FilesNow, FilesInv, PipesCounted
<1>14. FilesCounted(GlobalFileTable, inodes, fd)'
  <2>1. \A m \in Files : Lead(fd, SlotsOf(GlobalFileTable', m)) = Lead(fd, SlotsOf(GlobalFileTable, m))
    <3> SUFFICES ASSUME NEW m \in Files
                 PROVE  Lead(fd, SlotsOf(GlobalFileTable', m)) = Lead(fd, SlotsOf(GlobalFileTable, m))
      OBVIOUS
    <3>1. \A q \in Processes, e \in Given :
             fd[q][e] \in SlotsOf(GlobalFileTable', m) <=> fd[q][e] \in SlotsOf(GlobalFileTable, m)
      BY DEF SlotsOf, OnlySlot, SlotFree
    <3>2. QED
      BY <3>1, LeadSame
  <2>2. \A m : SlotsOf(GlobalFileTable, m)' = SlotsOf(GlobalFileTable', m)
    BY DEF SlotsOf
  <2>3. \A S : Lead(fd, S)' = Lead(fd, S)
    BY DEF Lead
  <2>4. QED
    BY <1>8, <2>1, <2>2, <2>3 DEF FilesNow, FilesInv, FilesCounted
<1>15. MakersApart(GlobalFileTable, inodes)'
  <2> SUFFICES ASSUME NEW q \in Processes, NEW m \in Files, Making(q, m)'
               PROVE  /\ call'[q].slot \in Slots
                      /\ GlobalFileTable'[call'[q].slot].inode = m
                      /\ GlobalFileTable'[call'[q].slot].flag = "write"
                      /\ inodes'[m].open_cnt = 0
                      /\ \A r \in Processes : Making(r, m)' => r = q
                      /\ call'[q].at = "made" => m \in entries'
    BY DEF MakersApart
  <2>1. CASE q = p /\ m = n
    BY <1>3, <1>6, <1>9, <2>1
  <2>2. CASE q # p /\ m # n /\ Making(q, m) /\ call'[q] = call[q]
    <3>1. /\ call[q].slot \in Slots
          /\ GlobalFileTable[call[q].slot].inode = m /\ GlobalFileTable[call[q].slot].flag = "write"
          /\ inodes[m].open_cnt = 0
          /\ \A r \in Processes : Making(r, m) => r = q
          /\ call[q].at = "made" => m \in entries
      BY <2>2 DEF FilesNow, FilesInv, MakersApart
    <3>2. call[q].slot # s
      BY <1>1, <3>1
    <3>3. GlobalFileTable'[call[q].slot] = GlobalFileTable[call[q].slot]
      BY <3>1, <3>2 DEF OnlySlot
    <3>4. QED
      BY <1>9, <2>2, <3>1, <3>3
  <2>3. QED
    BY <1>9, <2>1, <2>2
<1>16. RemoversAlone(inodes)'
  BY <1>7 DEF FilesNow, FilesInv, RemoversAlone
<1>17. WorkDirsListed(inodes)'
  BY DEF FilesNow, FilesInv, WorkDirsListed
<1>18. QED
  BY <1>4, <1>10, <1>11, <1>12, <1>13, <1>14, <1>15, <1>16, <1>17 DEF FilesNow, FilesInv

LEMMA EntryMadeStep ==
    ASSUME FilesNow, NEW p \in Processes, EntryMade(p)
    PROVE  FilesNow'
<1>1. PICK n, s : n = call[p].name /\ s = call[p].slot
  OBVIOUS
<1>2. /\ Making(p, n) /\ n \in Files /\ call[p].at = "create" /\ call[p].for = "create"
      /\ call[p] \in Calls
  BY <1>1 DEF EntryMade, Making, FilesNow, CallsSound, CallSound
<1>3. /\ s \in Slots /\ GlobalFileTable[s].inode = n
      /\ inodes[n].open_cnt = 0
      /\ \A q \in Processes : Making(q, n) => q = p
  BY <1>1, <1>2 DEF FilesNow, FilesInv, MakersApart
<1>4. /\ GlobalFileTable \in Tables /\ inodes \in Nodes /\ fd \in [Processes -> FdMap]
      /\ Given \subseteq Fds /\ call \in [Processes -> Calls]
  BY GivenFinite DEF FilesNow, FilesInv, Typed, CallsSound
<1>5. Pipe \notin Files /\ None \notin Files /\ Pipe # None
  BY FilesAssumption
<1>6. /\ \A q \in Processes, e \in Given : fd[q][e] \notin SlotsOf(GlobalFileTable, n)
      /\ Lead(fd, SlotsOf(GlobalFileTable, n)) = {}
  BY <1>2, <1>3, ClosedForAll DEF FilesNow
<1>7. SlotFree(s)
  BY <1>3, <1>6 DEF SlotFree, SlotsOf
<1>8. UNCHANGED <<fd, workDir, inodes, lost, harm>>
  BY DEF EntryMade
<1>9. CASE entries' = entries \cup {n} /\ WaitAt(p, "made", s) /\ UNCHANGED GlobalFileTable
  <2>1. call'[p] = [call[p] EXCEPT !.at = "made"] /\ \A q \in Processes \ {p} : call'[q] = call[q]
    BY <1>1, <1>2, <1>4, <1>9 DEF WaitAt, Calls
  <2>2. call' \in [Processes -> Calls]
    BY <1>1, <1>2, <1>4, <1>9 DEF WaitAt, Calls
  <2>3. CallSound(call[p])'
    BY <1>1, <1>2, <2>1 DEF CallSound, Calls
  <2>4. \A q \in Processes : CallSound(call[q])'
    <3>1. SUFFICES ASSUME NEW q \in Processes PROVE CallSound(call[q])'
      OBVIOUS
    <3>2. CallSound(call[q])
      BY DEF FilesNow, CallsSound
    <3>3. CASE q = p
      BY <2>3, <3>3
    <3>4. CASE q # p
      <4>1. call'[q] = call[q]
        BY <2>1, <3>4
      <4>2. QED
        BY <3>2, <4>1 DEF CallSound, NoCall
    <3>5. QED
      BY <3>3, <3>4
  <2>5. CallsSound'
    BY <1>2, <1>8, <1>9, <2>2, <2>4 DEF FilesNow, CallsSound
  <2>6. \A q \in Processes : \A m :
            /\ Removing(q, m)' = Removing(q, m)
            /\ Making(q, m)' = Making(q, m)
            /\ call'[q].slot = call[q].slot
    BY <1>2, <2>1 DEF Removing, Making, Calls
  <2>7. \A m : Removers(m)' = Removers(m)
    BY <2>6 DEF Removers
  <2>8. /\ Typed(GlobalFileTable, inodes, fd)' /\ Flagged(GlobalFileTable)'
        /\ Led(GlobalFileTable, fd)' /\ PipesCounted(GlobalFileTable, fd)'
    BY <1>8, <1>9 DEF FilesNow, FilesInv, Typed, Flagged, Led, PipesCounted, Lead
  <2>9. FilesCounted(GlobalFileTable, inodes, fd)'
    BY <1>8, <1>9, <2>7 DEF FilesNow, FilesInv, FilesCounted, SlotsOf, Lead
  <2>10. MakersApart(GlobalFileTable, inodes)'
    <3> SUFFICES ASSUME NEW q \in Processes, NEW m \in Files, Making(q, m)
                 PROVE  call'[q].at = "made" => m \in entries'
      BY <1>8, <1>9, <2>6 DEF FilesNow, FilesInv, MakersApart
    <3>1. CASE q = p
      BY <1>1, <1>9, <3>1 DEF Making
    <3>2. CASE q # p
      BY <1>9, <2>1, <3>2 DEF FilesNow, FilesInv, MakersApart
    <3>3. QED
      BY <3>1, <3>2
  <2>11. RemoversAlone(inodes)'
    BY <1>8, <2>6 DEF FilesNow, FilesInv, RemoversAlone
  <2>12. WorkDirsListed(inodes)'
    BY <1>8, <1>9 DEF FilesNow, FilesInv, WorkDirsListed
  <2>13. QED
    BY <2>5, <2>8, <2>9, <2>10, <2>11, <2>12 DEF FilesNow, FilesInv
<1>10. CASE /\ GlobalFileTable' = [GlobalFileTable EXCEPT ![s] = NoFile]
            /\ Return(p, -1) /\ UNCHANGED entries
  <2>1. PICK k : k = [call[p] EXCEPT !.at = "done", !.slot = -1]
    OBVIOUS
  <2>2. k \in Calls /\ CallSound(k) /\ Quiet(k)
    BY <1>2, <2>1 DEF Calls, CallSound, Quiet
  <2>3. call'[p] = k /\ \A q \in Processes \ {p} : call'[q] = call[q]
    BY <1>4, <1>10, <2>1 DEF Return, Calls
  <2>4. call' \in [Processes -> Calls]
    BY <1>4, <1>10, <2>1, <2>2, <2>3 DEF Return
  <2>5. \A q \in Processes : CallSound(call[q])'
    BY <2>2, <2>3 DEF FilesNow, CallsSound, CallSound, NoCall
  <2>6. CallsSound'
    BY <1>8, <1>10, <2>4, <2>5 DEF FilesNow, CallsSound
  <2>7. NoFile \in FileRec
    BY DEF NoFile, FileRec
  <2>8. OnlySlot(GlobalFileTable, GlobalFileTable', s) /\ GlobalFileTable'[s].inode = None
    BY <1>3, <1>4, <1>10, <2>7 DEF OnlySlot, Tables, NoFile
  <2>9. \A q \in Processes : \A m : Removing(q, m)' = Removing(q, m)
    BY <1>2, <2>2, <2>3 DEF Removing, Quiet
  <2>10. \A m : Removers(m)' = Removers(m)
    BY <2>9 DEF Removers
  <2>11. \A q \in Processes : \A m : Making(q, m)' =>
            q # p /\ m # n /\ Making(q, m) /\ call'[q] = call[q]
    BY <1>3, <2>2, <2>3 DEF Making, Quiet
  <2>12. Typed(GlobalFileTable, inodes, fd)'
    BY <1>4, <1>8, <2>8 DEF Typed, OnlySlot, FdMap, Tables, Nodes, FileRec, NodeRec
  <2>13. Flagged(GlobalFileTable)'
    BY <1>5, <2>8 DEF FilesNow, FilesInv, Flagged, OnlySlot
  <2>14. Led(GlobalFileTable, fd)'
    BY <1>4, <1>7, <1>8, <1>10, <2>8 DEF FilesNow, FilesInv, Led, OnlySlot, SlotFree, FdMap
  <2>15. PipesCounted(GlobalFileTable, fd)'
    BY <1>5, <1>8, <2>8 DEF FilesNow, FilesInv, PipesCounted, OnlySlot, Lead
  <2>16. FilesCounted(GlobalFileTable, inodes, fd)'
    <3>1. \A m \in Files : Lead(fd, SlotsOf(GlobalFileTable', m)) = Lead(fd, SlotsOf(GlobalFileTable, m))
      <4> SUFFICES ASSUME NEW m \in Files
                   PROVE  Lead(fd, SlotsOf(GlobalFileTable', m)) = Lead(fd, SlotsOf(GlobalFileTable, m))
        OBVIOUS
      <4>1. \A q \in Processes, e \in Given :
               fd[q][e] \in SlotsOf(GlobalFileTable', m) <=> fd[q][e] \in SlotsOf(GlobalFileTable, m)
        BY <1>7, <2>8 DEF SlotsOf, OnlySlot, SlotFree
      <4>2. QED
        BY <4>1, LeadSame
    <3>2. \A m : SlotsOf(GlobalFileTable, m)' = SlotsOf(GlobalFileTable', m)
      BY DEF SlotsOf
    <3>3. \A S : Lead(fd, S)' = Lead(fd, S)
      BY <1>8 DEF Lead
    <3>4. QED
      BY <1>8, <2>10, <3>1, <3>2, <3>3 DEF FilesNow, FilesInv, FilesCounted
  <2>17. MakersApart(GlobalFileTable, inodes)'
    <3> SUFFICES ASSUME NEW q \in Processes, NEW m \in Files, Making(q, m)'
                 PROVE  /\ call'[q].slot \in Slots
                        /\ GlobalFileTable'[call'[q].slot].inode = m
                        /\ GlobalFileTable'[call'[q].slot].flag = "write"
                        /\ inodes'[m].open_cnt = 0
                        /\ \A r \in Processes : Making(r, m)' => r = q
                        /\ call'[q].at = "made" => m \in entries'
      BY DEF MakersApart
    <3>1. q # p /\ m # n /\ Making(q, m) /\ call'[q] = call[q]
      BY <2>11
    <3>2. /\ call[q].slot \in Slots
          /\ GlobalFileTable[call[q].slot].inode = m /\ GlobalFileTable[call[q].slot].flag = "write"
          /\ inodes[m].open_cnt = 0
          /\ \A r \in Processes : Making(r, m) => r = q
          /\ call[q].at = "made" => m \in entries
      BY <3>1 DEF FilesNow, FilesInv, MakersApart
    <3>3. call[q].slot # s
      BY <1>3, <3>1, <3>2
    <3>4. GlobalFileTable'[call[q].slot] = GlobalFileTable[call[q].slot]
      BY <2>8, <3>2, <3>3 DEF OnlySlot
    <3>5. QED
      BY <1>8, <1>10, <2>11, <3>1, <3>2, <3>4
  <2>18. RemoversAlone(inodes)'
    BY <1>8, <2>9 DEF FilesNow, FilesInv, RemoversAlone
  <2>19. WorkDirsListed(inodes)'
    BY <1>8, <1>10 DEF FilesNow, FilesInv, WorkDirsListed
  <2>20. QED
    BY <2>6, <2>12, <2>13, <2>14, <2>15, <2>16, <2>17, <2>18, <2>19 DEF FilesNow, FilesInv
<1>11. QED
  BY <1>1, <1>9, <1>10 DEF EntryMade

\* syscall_unlink or syscall_rmdir has the inode for itself.
LEMMA RemoveStep ==
    ASSUME FilesNow, NEW p \in Processes, NEW k, CallOf(p, k), Quiet(call[p]),
           NEW n \in Files \cup Dirs, k.at = "remove", k.name = n,
           ~Listed(n), \A q \in Processes : ~Making(q, n),
           OnlyInode(inodes, inodes', n), inodes'[n].open_cnt = 1,
           UNCHANGED <<GlobalFileTable, fd, workDir, entries, lost>>
    PROVE  FilesNow'
<1>1. Root \notin Files \cup Dirs
  BY FilesAssumption
<1>2. /\ call' \in [Processes -> Calls] /\ \A q \in Processes : CallSound(call[q])'
      /\ call'[p] = k /\ \A q \in Processes \ {p} : call'[q] = call[q]
  BY CallTyped DEF FilesNow
<1>3. CallsSound'
  BY <1>2 DEF FilesNow, CallsSound
<1>4. ~(inodes[n].open_cnt > 0) /\ inodes[n].open_cnt # 1
  BY DEF Listed
<1>5. \A q \in Processes : ~Removing(q, n)
  BY <1>4 DEF FilesNow, FilesInv, RemoversAlone
<1>6. \A q \in Processes : \A m : Removing(q, m)' <=> (q = p /\ m = n) \/ (q # p /\ Removing(q, m))
  BY <1>2 DEF Removing
<1>7. \A q \in Processes : \A m : Removing(q, m)' => (q = p /\ m = n) \/ (m # n /\ Removing(q, m))
  BY <1>5, <1>6
<1>8. \A q \in Processes : \A m : Making(q, m)' => m # n /\ Making(q, m) /\ call'[q] = call[q]
  BY <1>2 DEF Making
<1>9. \A q \in Processes : \A m : Removing(q, m) => q # p
  BY DEF Removing, Quiet
<1>10. \A m : m # n => Removers(m)' = Removers(m)
  BY <1>6, <1>9 DEF Removers
<1>11. Removers(n)' = {p}
  BY <1>5, <1>6 DEF Removers
<1>12. /\ Typed(GlobalFileTable, inodes, fd)' /\ Flagged(GlobalFileTable)'
       /\ Led(GlobalFileTable, fd)' /\ PipesCounted(GlobalFileTable, fd)'
  BY DEF FilesNow, FilesInv, Typed, Flagged, Led, PipesCounted, Lead, OnlyInode
<1>13. FilesCounted(GlobalFileTable, inodes, fd)'
  <2>1. \A m : SlotsOf(GlobalFileTable, m)' = SlotsOf(GlobalFileTable, m)
    BY DEF SlotsOf
  <2>2. \A S : Lead(fd, S)' = Lead(fd, S)
    BY DEF Lead
  <2>3. ASSUME NEW m \in Files
        PROVE  inodes'[m].open_cnt =
                  Cardinality(Lead(fd, SlotsOf(GlobalFileTable, m))) + Cardinality(Removers(m)') + lost[m]
    <3>1. CASE m # n
      BY <1>10, <3>1 DEF FilesNow, FilesInv, FilesCounted, OnlyInode
    <3>2. CASE m = n
      <4>1. Lead(fd, SlotsOf(GlobalFileTable, n)) = {} /\ lost[n] = 0
        BY <1>4, <3>2, ClosedForAll DEF FilesNow
      <4>2. Cardinality(Lead(fd, SlotsOf(GlobalFileTable, n))) = 0 /\ Cardinality(Removers(n)') = 1
        BY <1>11, <4>1, FS_EmptySet, FS_Singleton
      <4>3. QED
        BY <3>2, <4>1, <4>2
    <3>3. QED
      BY <3>1, <3>2
  <2>4. QED
    BY <2>1, <2>2, <2>3 DEF FilesCounted
<1>14. MakersApart(GlobalFileTable, inodes)'
  BY <1>8 DEF FilesNow, FilesInv, MakersApart, OnlyInode
<1>15. \A q \in Processes : workDir[q] # n
  BY <1>1, <1>4 DEF FilesNow, FilesInv, WorkDirsListed
<1>16. RemoversAlone(inodes)'
  <2> SUFFICES ASSUME NEW q \in Processes, NEW m \in Files \cup Dirs, Removing(q, m)'
               PROVE  /\ inodes'[m].open_cnt = 1
                      /\ \A r \in Processes : Removing(r, m)' => r = q
                      /\ \A r \in Processes : workDir'[r] # m
    BY DEF RemoversAlone
  <2>1. CASE q = p /\ m = n
    BY <1>7, <1>15, <2>1
  <2>2. CASE m # n /\ Removing(q, m)
    <3>1. inodes'[m] = inodes[m]
      BY <2>2 DEF OnlyInode
    <3>2. QED
      BY <1>7, <2>2, <3>1 DEF FilesNow, FilesInv, RemoversAlone
  <2>3. QED
    BY <1>7, <2>1, <2>2
<1>17. WorkDirsListed(inodes)'
  <2>1. \A q \in Processes : workDir[q] # Root => workDir[q] \in Dirs
    BY DEF FilesNow, CallsSound
  <2>2. QED
    BY <1>15, <2>1 DEF FilesNow, FilesInv, WorkDirsListed, OnlyInode
<1>18. QED
  BY <1>3, <1>12, <1>13, <1>14, <1>16, <1>17 DEF FilesNow, FilesInv

\* What is being removed is open to nobody else.
LEMMA RemovedAlone ==
    ASSUME FilesNow, NEW p \in Processes, NEW n \in Files \cup Dirs, Removing(p, n)
    PROVE  /\ inodes[n].open_cnt = 1
           /\ \A q \in Processes : Removing(q, n) => q = p
           /\ \A q \in Processes : workDir[q] # n /\ ~Making(q, n)
           /\ Removers(n) = {p}
           /\ n \in Files => /\ \A q \in Processes, e \in Given : fd[q][e] \notin SlotsOf(GlobalFileTable, n)
                             /\ Lead(fd, SlotsOf(GlobalFileTable, n)) = {} /\ lost[n] = 0
<1>1. /\ inodes[n].open_cnt = 1
      /\ \A q \in Processes : Removing(q, n) => q = p
      /\ \A q \in Processes : workDir[q] # n
  BY DEF FilesNow, FilesInv, RemoversAlone
<1>2. \A q \in Processes : ~Making(q, n)
  <2> SUFFICES ASSUME NEW q \in Processes, Making(q, n) PROVE FALSE
    OBVIOUS
  <2>1. n \in Files
    BY DEF Making, FilesNow, CallsSound, CallSound
  <2>2. QED
    BY <1>1, <2>1 DEF FilesNow, FilesInv, MakersApart
<1>3. Removers(n) = {p}
  BY <1>1 DEF Removers
<1>4. ASSUME n \in Files
      PROVE  /\ \A q \in Processes, e \in Given : fd[q][e] \notin SlotsOf(GlobalFileTable, n)
             /\ Lead(fd, SlotsOf(GlobalFileTable, n)) = {} /\ lost[n] = 0
  <2>1. PICK j \in Nat : /\ j = Cardinality(Lead(fd, SlotsOf(GlobalFileTable, n)))
                         /\ j = 0 <=> Lead(fd, SlotsOf(GlobalFileTable, n)) = {}
    BY LeadFinite
  <2>2. Cardinality(Removers(n)) = 1
    BY <1>3, FS_Singleton
  <2>3. lost[n] \in Nat
    BY <1>4 DEF FilesNow, CallsSound
  <2>4. inodes[n].open_cnt = j + 1 + lost[n]
    BY <1>4, <2>1, <2>2 DEF FilesNow, FilesInv, FilesCounted
  <2>5. j = 0 /\ lost[n] = 0
    BY <1>1, <2>1, <2>3, <2>4
  <2>6. \A q \in Processes, e \in Given : fd[q][e] \notin SlotsOf(GlobalFileTable, n)
    <3> SUFFICES ASSUME NEW q \in Processes, NEW e \in Given,
                        fd[q][e] \in SlotsOf(GlobalFileTable, n)
                 PROVE  FALSE
      OBVIOUS
    <3>1. Cardinality(Lead(fd, SlotsOf(GlobalFileTable, n))) > 0
      BY LeadSome
    <3>2. QED
      BY <2>1, <2>5, <3>1
  <2>7. QED
    BY <2>1, <2>5, <2>6
<1>5. QED
  BY <1>1, <1>2, <1>3, <1>4

LEMMA EntryGoneStep ==
    ASSUME FilesNow, NEW p \in Processes, EntryGone(p)
    PROVE  FilesNow'
<1>1. PICK n : n = call[p].name
  OBVIOUS
<1>2. /\ Removing(p, n) /\ n \in Files \cup Dirs /\ call[p].at = "remove" /\ call[p].for = "remove"
      /\ call[p] \in Calls
  BY <1>1 DEF EntryGone, Removing, FilesNow, CallsSound, CallSound
<1>3. /\ \A q \in Processes : workDir[q] # n /\ ~Making(q, n)
      /\ n \in Files => \A q \in Processes, e \in Given : fd[q][e] \notin SlotsOf(GlobalFileTable, n)
  BY <1>2, RemovedAlone
<1>4. /\ GlobalFileTable \in Tables /\ inodes \in Nodes /\ fd \in [Processes -> FdMap]
      /\ Given \subseteq Fds /\ call \in [Processes -> Calls]
  BY GivenFinite DEF FilesNow, FilesInv, Typed, CallsSound
<1>5. /\ UNCHANGED <<tableVars, workDir, lost, harm>>
      /\ entries' = entries \ {n} /\ WaitAt(p, "unlisted", -1)
  BY <1>1 DEF EntryGone
<1>6. UNCHANGED <<GlobalFileTable, fd, inodes, workDir, lost>>
  BY <1>5 DEF tableVars
<1>7. PICK k : k = [call[p] EXCEPT !.at = "unlisted", !.slot = -1]
  OBVIOUS
<1>8. k \in Calls /\ CallSound(k) /\ k.at = "unlisted" /\ k.name = n
  BY <1>1, <1>2, <1>7 DEF Calls, CallSound
<1>9. CallOf(p, k)
  <2>1. call' = [call EXCEPT ![p] = k]
    BY <1>4, <1>5, <1>7 DEF WaitAt, Calls
  <2>2. QED
    BY <1>8, <2>1 DEF CallOf
<1>10. /\ call' \in [Processes -> Calls] /\ \A q \in Processes : CallSound(call[q])'
       /\ call'[p] = k /\ \A q \in Processes \ {p} : call'[q] = call[q]
  BY <1>9, CallTyped DEF FilesNow
<1>11. CallsSound'
  BY <1>5, <1>6, <1>10 DEF FilesNow, CallsSound
<1>12. \A q \in Processes : \A m : Removing(q, m)' = Removing(q, m)
  BY <1>1, <1>2, <1>8, <1>10 DEF Removing
<1>13. \A q \in Processes : \A m : Making(q, m)' = Making(q, m)
  BY <1>2, <1>8, <1>10 DEF Making
<1>14. \A m : Removers(m)' = Removers(m)
  BY <1>12 DEF Removers
<1>15. /\ Typed(GlobalFileTable, inodes, fd)' /\ Flagged(GlobalFileTable)'
       /\ PipesCounted(GlobalFileTable, fd)'
  BY <1>6 DEF FilesNow, FilesInv, Typed, Flagged, PipesCounted, Lead
<1>16. Led(GlobalFileTable, fd)'
  <2> SUFFICES ASSUME NEW q \in Processes, NEW e \in Given, fd[q][e] # -1,
                      GlobalFileTable[fd[q][e]].inode # Pipe
               PROVE  GlobalFileTable[fd[q][e]].inode \in Files \cap entries'
    BY <1>6 DEF Led
  <2>1. GlobalFileTable[fd[q][e]].inode \in Files \cap entries
    BY DEF FilesNow, FilesInv, Led
  <2>2. fd[q][e] \in Slots
    BY <1>4 DEF FdMap
  <2>3. GlobalFileTable[fd[q][e]].inode # n
    BY <1>3, <2>1, <2>2 DEF SlotsOf
  <2>4. QED
    BY <1>5, <2>1, <2>3
<1>17. FilesCounted(GlobalFileTable, inodes, fd)'
  BY <1>6, <1>14 DEF FilesNow, FilesInv, FilesCounted, SlotsOf, Lead
<1>18. MakersApart(GlobalFileTable, inodes)'
  <2> SUFFICES ASSUME NEW q \in Processes, NEW m \in Files, Making(q, m)
               PROVE  call'[q].slot = call[q].slot /\ (call'[q].at = "made" => m \in entries')
    BY <1>6, <1>13 DEF FilesNow, FilesInv, MakersApart
  <2>1. q # p /\ m # n
    BY <1>2, <1>3 DEF Making
  <2>2. QED
    BY <1>5, <1>10, <2>1 DEF FilesNow, FilesInv, MakersApart
<1>19. RemoversAlone(inodes)'
  BY <1>6, <1>12 DEF FilesNow, FilesInv, RemoversAlone
<1>20. WorkDirsListed(inodes)'
  BY <1>3, <1>5, <1>6 DEF FilesNow, FilesInv, WorkDirsListed
<1>21. QED
  BY <1>11, <1>15, <1>16, <1>17, <1>18, <1>19, <1>20 DEF FilesNow, FilesInv

LEMMA RemovedStep ==
    ASSUME FilesNow, NEW p \in Processes, Removed(p)
    PROVE  FilesNow'
<1>1. PICK n : n = call[p].name
  OBVIOUS
<1>2. /\ Removing(p, n) /\ n \in Files \cup Dirs /\ call[p].at = "unlisted" /\ call[p].for = "remove"
      /\ call[p] \in Calls
  BY <1>1 DEF Removed, Removing, FilesNow, CallsSound, CallSound
<1>3. /\ inodes[n].open_cnt = 1
      /\ \A q \in Processes : Removing(q, n) => q = p
      /\ \A q \in Processes : workDir[q] # n /\ ~Making(q, n)
      /\ Removers(n) = {p}
      /\ n \in Files => Lead(fd, SlotsOf(GlobalFileTable, n)) = {} /\ lost[n] = 0
  BY <1>2, RemovedAlone
<1>4. /\ GlobalFileTable \in Tables /\ inodes \in Nodes /\ fd \in [Processes -> FdMap]
      /\ Given \subseteq Fds /\ call \in [Processes -> Calls] /\ 1 \in Fds
  BY GivenFinite, FilesAssumption DEF FilesNow, FilesInv, Typed, CallsSound, Fds
<1>5. /\ UNCHANGED <<GlobalFileTable, fd, workDir, entries, lost>>
      /\ inodes' = InodeClose(inodes, n) /\ Return(p, 1)
  BY <1>1 DEF Removed
<1>6. PICK k : k = [call[p] EXCEPT !.at = "done", !.slot = 1]
  OBVIOUS
<1>7. k \in Calls /\ CallSound(k) /\ k.at = "done"
  BY <1>2, <1>4, <1>6 DEF Calls, CallSound
<1>8. CallOf(p, k)
  <2>1. call' = [call EXCEPT ![p] = k]
    BY <1>4, <1>5, <1>6 DEF Return, Calls
  <2>2. QED
    BY <1>7, <2>1 DEF CallOf
<1>9. /\ call' \in [Processes -> Calls] /\ \A q \in Processes : CallSound(call[q])'
      /\ call'[p] = k /\ \A q \in Processes \ {p} : call'[q] = call[q]
  BY <1>8, CallTyped DEF FilesNow
<1>10. CallsSound'
  BY <1>5, <1>9 DEF FilesNow, CallsSound
<1>11. inodes' \in Nodes /\ OnlyInode(inodes, inodes', n) /\ inodes'[n].open_cnt = 0
  BY <1>2, <1>3, <1>4, <1>5 DEF InodeClose, Decremented, Closed, Nodes, NodeRec, OnlyInode
<1>12. \A q \in Processes : \A m : Removing(q, m)' <=> q # p /\ Removing(q, m)
  BY <1>7, <1>9 DEF Removing
<1>13. \A q \in Processes : \A m : Making(q, m)' => m # n /\ Making(q, m) /\ call'[q] = call[q]
  BY <1>3, <1>7, <1>9 DEF Making
<1>14. \A m : m # n => Removers(m)' = Removers(m)
  BY <1>1, <1>12 DEF Removers, Removing
<1>15. Removers(n)' = {}
  BY <1>3, <1>12 DEF Removers
<1>16. /\ Typed(GlobalFileTable, inodes, fd)' /\ Flagged(GlobalFileTable)'
       /\ Led(GlobalFileTable, fd)' /\ PipesCounted(GlobalFileTable, fd)'
  BY <1>5, <1>11 DEF FilesNow, FilesInv, Typed, Flagged, Led, PipesCounted, Lead
<1>17. FilesCounted(GlobalFileTable, inodes, fd)'
  <2>1. \A m : SlotsOf(GlobalFileTable, m)' = SlotsOf(GlobalFileTable, m)
    BY <1>5 DEF SlotsOf
  <2>2. \A S : Lead(fd, S)' = Lead(fd, S)
    BY <1>5 DEF Lead
  <2>3. ASSUME NEW m \in Files
        PROVE  inodes'[m].open_cnt =
                  Cardinality(Lead(fd, SlotsOf(GlobalFileTable, m))) + Cardinality(Removers(m)') + lost[m]
    <3>1. CASE m # n
      BY <1>11, <1>14, <3>1 DEF FilesNow, FilesInv, FilesCounted, OnlyInode
    <3>2. CASE m = n
      <4>1. Cardinality(Lead(fd, SlotsOf(GlobalFileTable, n))) = 0 /\ Cardinality(Removers(n)') = 0
        BY <1>3, <1>15, <3>2, FS_EmptySet
      <4>2. QED
        BY <1>3, <1>11, <3>2, <4>1
    <3>3. QED
      BY <3>1, <3>2
  <2>4. QED
    BY <1>5, <2>1, <2>2, <2>3 DEF FilesCounted
<1>18. MakersApart(GlobalFileTable, inodes)'
  BY <1>5, <1>11, <1>13 DEF FilesNow, FilesInv, MakersApart, OnlyInode
<1>19. RemoversAlone(inodes)'
  BY <1>3, <1>5, <1>11, <1>12 DEF FilesNow, FilesInv, RemoversAlone, OnlyInode
<1>20. WorkDirsListed(inodes)'
  <2>1. \A q \in Processes : workDir[q] # Root => workDir[q] \in Dirs
    BY DEF FilesNow, CallsSound
  <2>2. QED
    BY <1>3, <1>5, <1>11, <2>1 DEF FilesNow, FilesInv, WorkDirsListed, OnlyInode
<1>21. QED
  BY <1>10, <1>16, <1>17, <1>18, <1>19, <1>20 DEF FilesNow, FilesInv

\* syscall_chdir: n is the directory that has been opened, or the root.
LEMMA ChangeDirStep ==
    ASSUME FilesNow, NEW p \in Processes, NEW n \in Dirs \cup {Root}, NEW nodes \in Nodes,
           ChangeDir(p, n, nodes), call[p].at \in {"user", "search", "inode"},
           \A m \in (Files \cup Dirs) \ {n} : nodes[m] = inodes[m],
           n # Root => /\ n \in entries /\ nodes[n].open_cnt > 0
                       /\ nodes[n].open_cnt >= inodes[n].open_cnt + 1
                       /\ \A q \in Processes : ~Removing(q, n),
           harm' = "none"
    PROVE  FilesNow' /\ fd' = fd /\ Return(p, 1)
<1>1. /\ Root \notin Files \cup Dirs /\ Dirs \cap Files = {} /\ 1 \in Fds
  BY FilesAssumption DEF Fds
<1>2. /\ GlobalFileTable \in Tables /\ inodes \in Nodes /\ fd \in [Processes -> FdMap]
      /\ call \in [Processes -> Calls] /\ workDir \in [Processes -> Dirs \cup {Root}]
  BY DEF FilesNow, FilesInv, Typed, CallsSound
<1>3. PICK old \in Dirs \cup {Root} : old = workDir[p]
  BY <1>2
<1>4. PICK left : left = IF old = Root THEN nodes ELSE InodeClose(nodes, old)
  OBVIOUS
<1>5. /\ ~(old # Root /\ left[old].open_cnt = 0 /\ \E q \in Processes \ {p} : workDir[q] = old)
      /\ inodes' = left /\ workDir' = [workDir EXCEPT ![p] = n]
      /\ Return(p, 1)
      /\ UNCHANGED <<GlobalFileTable, fd, entries, lost>>
  <2>1. "a directory is closed that another works in" # "none"
    OBVIOUS
  <2>2. QED
    BY <1>3, <1>4, <2>1 DEF ChangeDir, Harm
<1>6. PICK k : k = [call[p] EXCEPT !.at = "done", !.slot = 1]
  OBVIOUS
<1>7. CallOf(p, k) /\ Quiet(k) /\ Quiet(call[p])
  <2>1. call[p] \in Calls
    BY <1>2
  <2>2. k \in Calls /\ CallSound(k)
    BY <1>1, <1>6, <2>1 DEF Calls, CallSound
  <2>3. call' = [call EXCEPT ![p] = k]
    BY <1>2, <1>5, <1>6, <2>1 DEF Return, Calls
  <2>4. Quiet(k) /\ Quiet(call[p])
    BY <1>6, <2>1 DEF Quiet, Calls
  <2>5. QED
    BY <2>2, <2>3, <2>4 DEF CallOf
<1>8. /\ \A q \in Processes : \A m : Removing(q, m)' = Removing(q, m)
      /\ \A q \in Processes : \A m : Making(q, m)' = Making(q, m)
      /\ \A m : Removers(m)' = Removers(m)
      /\ \A q \in Processes : \A m : Making(q, m) => call'[q] = call[q]
  BY <1>7, QuietCall DEF FilesNow
<1>9. workDir' \in [Processes -> Dirs \cup {Root}]
  BY <1>2, <1>5
<1>10. CallsSound'
  BY <1>5, <1>7, <1>9, CallTyped DEF FilesNow, CallsSound
<1>11. /\ left \in Nodes
       /\ \A m \in Files : left[m] = inodes[m]
       /\ \A m \in (Files \cup Dirs) \ {n, old} : left[m] = inodes[m]
       /\ old # Root => left[old] = Decremented(nodes[old])
       /\ n # Root /\ n # old => left[n] = nodes[n]
  <2>1. CASE old = Root
    BY <1>1, <1>4, <2>1
  <2>2. CASE old # Root
    <3>1. old \in Dirs /\ nodes[old] \in NodeRec
      BY <2>2 DEF Nodes
    <3>2. Decremented(nodes[old]) \in NodeRec
      BY <3>1 DEF Decremented, Closed, NodeRec
    <3>3. left = [nodes EXCEPT ![old] = Decremented(nodes[old])]
      BY <1>4, <2>2 DEF InodeClose
    <3>4. QED
      BY <1>1, <3>1, <3>2, <3>3 DEF Nodes
  <2>3. QED
    BY <2>1, <2>2
<1>12. old # Root => inodes[old].open_cnt > 0 /\ nodes[old].open_cnt > 0 /\ old \in entries
  <2>1. old # Root => inodes[old].open_cnt > 0 /\ old \in entries
    BY <1>3 DEF FilesNow, FilesInv, WorkDirsListed
  <2>2. QED
    BY <2>1
<1>13. old # Root => left[old].open_cnt >= 0
  <2> SUFFICES ASSUME old # Root PROVE left[old].open_cnt >= 0
    OBVIOUS
  <2>1. nodes[old] \in NodeRec
    BY DEF Nodes
  <2>2. QED
    BY <1>11, <1>12, <2>1 DEF Decremented, Closed, NodeRec
<1>14. n # Root => left[n].open_cnt > 0
  <2> SUFFICES ASSUME n # Root PROVE left[n].open_cnt > 0
    OBVIOUS
  <2>1. CASE n # old
    BY <1>11, <2>1
  <2>2. CASE n = old
    <3>1. nodes[n] \in NodeRec /\ inodes[n] \in NodeRec
      BY <1>2 DEF Nodes
    <3>2. inodes[n].open_cnt >= 1 /\ nodes[n].open_cnt >= 2
      BY <1>12, <2>2, <3>1 DEF NodeRec
    <3>3. left[n].open_cnt = nodes[n].open_cnt - 1
      BY <1>11, <2>2, <3>1, <3>2 DEF Decremented, NodeRec
    <3>4. QED
      BY <3>1, <3>2, <3>3 DEF NodeRec
  <2>3. QED
    BY <2>1, <2>2
<1>15. /\ Typed(GlobalFileTable, inodes, fd)' /\ Flagged(GlobalFileTable)'
       /\ Led(GlobalFileTable, fd)' /\ PipesCounted(GlobalFileTable, fd)'
  BY <1>5, <1>11 DEF FilesNow, FilesInv, Typed, Flagged, Led, PipesCounted, Lead
<1>16. FilesCounted(GlobalFileTable, inodes, fd)'
  BY <1>5, <1>8, <1>11 DEF FilesNow, FilesInv, FilesCounted, SlotsOf, Lead
<1>17. MakersApart(GlobalFileTable, inodes)'
  BY <1>5, <1>8, <1>11 DEF FilesNow, FilesInv, MakersApart
<1>18. RemoversAlone(inodes)'
  <2> SUFFICES ASSUME NEW q \in Processes, NEW m \in Files \cup Dirs, Removing(q, m)
               PROVE  /\ inodes'[m].open_cnt = 1
                      /\ \A r \in Processes : Removing(r, m) => r = q
                      /\ \A r \in Processes : workDir'[r] # m
    BY <1>8 DEF RemoversAlone
  <2>1. /\ inodes[m].open_cnt = 1
        /\ \A r \in Processes : Removing(r, m) => r = q
        /\ \A r \in Processes : workDir[r] # m
    BY DEF FilesNow, FilesInv, RemoversAlone
  <2>2. m # n /\ m # old
    BY <1>1, <1>3, <2>1
  <2>3. inodes'[m] = inodes[m]
    BY <1>5, <1>11, <2>2
  <2>4. QED
    BY <1>2, <1>5, <2>1, <2>2, <2>3
<1>19. WorkDirsListed(inodes)'
  <2> SUFFICES ASSUME NEW q \in Processes, workDir'[q] # Root
               PROVE  workDir'[q] \in entries /\ left[workDir'[q]].open_cnt > 0
    BY <1>5 DEF WorkDirsListed
  <2>1. CASE q = p
    BY <1>2, <1>5, <1>14, <2>1
  <2>2. CASE q # p
    <3>1. workDir'[q] = workDir[q] /\ workDir[q] \in Dirs
      BY <1>2, <1>5, <2>2
    <3>2. workDir[q] \in entries /\ inodes[workDir[q]].open_cnt > 0
      BY <3>1 DEF FilesNow, FilesInv, WorkDirsListed
    <3>3. CASE workDir[q] = old
      <4>1. left[old].open_cnt # 0 /\ old # Root
        BY <1>5, <2>2, <3>1, <3>3
      <4>2. left[old] \in NodeRec
        BY <1>11, <4>1 DEF Nodes
      <4>3. left[old].open_cnt > 0
        BY <1>13, <4>1, <4>2 DEF NodeRec
      <4>4. QED
        BY <3>1, <3>2, <3>3, <4>3
    <3>4. CASE workDir[q] = n
      BY <1>14, <3>1, <3>2, <3>4
    <3>5. CASE workDir[q] # old /\ workDir[q] # n
      BY <1>11, <3>1, <3>2, <3>5
    <3>6. QED
      BY <3>3, <3>4, <3>5
  <2>3. QED
    BY <2>1, <2>2
<1>20. QED
  BY <1>5, <1>10, <1>15, <1>16, <1>17, <1>18, <1>19 DEF FilesNow, FilesInv

LEMMA LowestIn ==
    ASSUME NEW S \in SUBSET Nat
    PROVE  IF S = {} THEN Lowest(S) = -1 ELSE Lowest(S) \in S
<1>1. CASE S = {}
  BY <1>1 DEF Lowest
<1>2. CASE S # {}
  <2>1. PICK x \in S : \A y \in S : x <= y
    BY <1>2, LeastNat
  <2>2. Min(S) \in S
    BY <2>1 DEF Min
  <2>3. QED
    BY <1>2, <2>2 DEF Lowest
<1>3. QED
  BY <1>1, <1>2

\* A slot without an inode is in use by nobody.
LEMMA NobodysSlot ==
    ASSUME FilesNow, NEW s \in Slots, GlobalFileTable[s].inode = None
    PROVE  SlotFree(s)
<1> SUFFICES ASSUME NEW q \in Processes, NEW e \in Given, fd[q][e] = s PROVE FALSE
  BY DEF SlotFree
<1>1. s # -1 /\ None # Pipe /\ None \notin Files
  BY FilesAssumption
<1>2. QED
  BY <1>1 DEF FilesNow, FilesInv, Led

LEMMA FreeSlot ==
    ASSUME FilesNow, GetFreeGlobalFd # -1
    PROVE  /\ GetFreeGlobalFd \in Slots /\ GlobalFileTable[GetFreeGlobalFd].inode = None
           /\ SlotFree(GetFreeGlobalFd)
<1>1. {s \in Slots : GlobalFileTable[s].inode = None} \in SUBSET Nat
  BY FilesAssumption
<1>2. GetFreeGlobalFd \in {s \in Slots : GlobalFileTable[s].inode = None}
  BY <1>1, LowestIn DEF GetFreeGlobalFd
<1>3. QED
  BY <1>2, NobodysSlot

\* The descriptor that is taken was free.
LEMMA FreeDescriptor ==
    ASSUME NEW f \in FdMap, NEW s \in Slots
    PROVE  /\ FreeFd(f) \in Given \cup {-1}
           /\ FreeFd(f) = -1 => ProcessInstallFd(f, s) = f
           /\ FreeFd(f) # -1 => /\ f[FreeFd(f)] = -1
                                /\ ProcessInstallFd(f, s) = [f EXCEPT ![FreeFd(f)] = s]
<1>1. {d \in Given : f[d] = -1} \in SUBSET Nat
  BY FilesAssumption DEF Given, Fds
<1>2. FreeFd(f) = -1 \/ FreeFd(f) \in {d \in Given : f[d] = -1}
  BY <1>1, LowestIn DEF FreeFd
<1>3. QED
  BY <1>2 DEF ProcessInstallFd

LEMMA PipeFdsFree ==
    ASSUME NEW p \in Processes, fd \in [Processes -> FdMap], NEW s \in Slots, PipeFds(p)[2] # -1,
           NEW a, NEW b, a = PipeFds(p)[1], b = PipeFds(p)[2]
    PROVE  /\ a \in Given /\ b \in Given /\ a # b /\ fd[p][a] = -1 /\ fd[p][b] = -1
           /\ ProcessInstallFd(ProcessInstallFd(fd[p], s), s) = [[fd[p] EXCEPT ![a] = s] EXCEPT ![b] = s]
<1>1. PICK f \in FdMap : f = fd[p]
  OBVIOUS
<1> DEFINE S == {d \in Given : f[d] = -1}
<1>2. S \in SUBSET Nat /\ S \ {a} \in SUBSET Nat /\ Given \subseteq Fds /\ s # -1
  BY FilesAssumption, GivenFinite DEF Given, Fds
<1>3. a = Lowest(S) /\ b = Lowest(S \ {a})
  BY <1>1 DEF PipeFds, FreeFd
<1>4. b \in S \ {a}
  <2>1. b # -1
    OBVIOUS
  <2> HIDE DEF S
  <2>2. QED
    BY <1>2, <1>3, <2>1, LowestIn
<1>5. a \in S
  <2>1. S # {}
    BY <1>4
  <2> HIDE DEF S
  <2>2. QED
    BY <1>2, <1>3, <2>1, LowestIn
<1>6. a # -1
  BY <1>2, <1>5
<1>7. FreeFd(f) = a
  BY <1>3 DEF FreeFd
<1>8. PICK h \in FdMap : h = [f EXCEPT ![a] = s]
  BY <1>2, <1>5 DEF FdMap
<1>9. ProcessInstallFd(f, s) = h
  BY <1>6, <1>7, <1>8 DEF ProcessInstallFd
<1>10. {d \in Given : h[d] = -1} = S \ {a}
  BY <1>2, <1>5, <1>8 DEF FdMap
<1>11. FreeFd(h) = b
  BY <1>3, <1>10 DEF FreeFd
<1>12. ProcessInstallFd(h, s) = [h EXCEPT ![b] = s]
  BY <1>11 DEF ProcessInstallFd
<1>13. QED
  BY <1>1, <1>4, <1>5, <1>8, <1>9, <1>12

\* Both lead to the slot of the pipe.
BothTaken(p, a, b) ==
    /\ a \in Given /\ b \in Given /\ a # b
    /\ \E s \in Slots : fd' = [fd EXCEPT ![p] = [[fd[p] EXCEPT ![a] = s] EXCEPT ![b] = s]]

LEMMA PipeMadeStep ==
    ASSUME FilesNow, NEW p \in Processes, PipeMade(p),
           NEW a, NEW b, a = PipeFds(p)[1], b = PipeFds(p)[2]
    PROVE  FilesNow' /\ BothTaken(p, a, b)
<1>1. PICK s : s = GetFreeGlobalFd
  OBVIOUS
<1>2. s \in Slots /\ GlobalFileTable[s].inode = None /\ SlotFree(s)
  BY <1>1, FreeSlot DEF PipeMade
<1>3. /\ GlobalFileTable \in Tables /\ inodes \in Nodes /\ fd \in [Processes -> FdMap]
      /\ workDir \in [Processes -> Dirs \cup {Root}] /\ Given \subseteq Fds
  BY GivenFinite DEF FilesNow, FilesInv, Typed, CallsSound
<1>4. PipeFds(p)[2] # -1
  BY DEF PipeMade
<1>5. /\ a \in Given /\ b \in Given /\ a # b /\ fd[p][a] = -1 /\ fd[p][b] = -1
      /\ ProcessInstallFd(ProcessInstallFd(fd[p], s), s) = [[fd[p] EXCEPT ![a] = s] EXCEPT ![b] = s]
  BY <1>2, <1>3, <1>4, PipeFdsFree
<1>6. /\ GlobalFileTable' = [GlobalFileTable EXCEPT ![s] = [inode |-> Pipe, flag |-> "pipe", fd_pos |-> 2]]
      /\ fd' = [fd EXCEPT ![p] = ProcessInstallFd(ProcessInstallFd(fd[p], s), s)]
      /\ UNCHANGED <<workDir, inodes, entries, call, lost>>
  BY <1>1 DEF PipeMade
<1>7. PICK T, N, F : T = GlobalFileTable /\ N = inodes /\ F = fd
  OBVIOUS
<1>8. FilesInv(T, N, F) /\ T \in Tables /\ F \in [Processes -> FdMap]
  BY <1>3, <1>7 DEF FilesNow
<1> DEFINE Rec(i) == [inode |-> Pipe, flag |-> "pipe", fd_pos |-> i]
<1>9. \A i \in Int : Rec(i) \in FileRec
  BY DEF FileRec
<1>10. PICK U, V : U = [T EXCEPT ![s] = Rec(1)] /\ V = [T EXCEPT ![s] = Rec(2)]
  OBVIOUS
<1>11. /\ U \in Tables /\ U[s] = Rec(1) /\ V \in Tables /\ V[s] = Rec(2)
       /\ OnlySlot(T, U, s) /\ OnlySlot(U, V, s)
  <2> HIDE DEF Rec
  <2>1. QED
    BY <1>2, <1>8, <1>9, <1>10 DEF Tables, OnlySlot
<1>12. PICK G : G = [F EXCEPT ![p] = [F[p] EXCEPT ![a] = s]]
  OBVIOUS
<1>13. PICK H : H = [F EXCEPT ![p] = [[F[p] EXCEPT ![a] = s] EXCEPT ![b] = s]]
  OBVIOUS
<1>14. /\ OnlyFd(F, G, p, a) /\ G[p][a] = s /\ F[p][a] = -1 /\ G \in [Processes -> FdMap]
       /\ G[p][b] = -1
  BY <1>2, <1>3, <1>5, <1>7, <1>8, <1>12 DEF OnlyFd, FdMap
<1>15. H = [G EXCEPT ![p] = [G[p] EXCEPT ![b] = s]]
  BY <1>8, <1>12, <1>13
<1>16. OnlyFd(G, H, p, b) /\ H[p][b] = s
  BY <1>2, <1>3, <1>5, <1>14, <1>15 DEF OnlyFd, FdMap
<1>17. PICK S : S = {s}
  OBVIOUS
<1>18. s # -1 /\ Pipe # None
  BY <1>2, FilesAssumption
<1>19. Cardinality(Lead(F, S)) = 0
  BY <1>2, <1>7, <1>17, LeadNone DEF SlotFree
<1>20. Cardinality(Lead(G, S)) = 1
  <2>1. F[p][a] \notin S /\ G[p][a] \in S
    BY <1>14, <1>17, <1>18
  <2>2. Cardinality(Lead(G, S)) = Cardinality(Lead(F, S)) + 1
    BY <1>5, <1>14, <2>1, LeadMore
  <2>3. QED
    BY <1>19, <2>2
<1>21. Cardinality(Lead(H, S)) = 2
  <2>1. G[p][b] \notin S /\ H[p][b] \in S
    BY <1>14, <1>16, <1>17, <1>18
  <2>2. Cardinality(Lead(H, S)) = Cardinality(Lead(G, S)) + 1
    BY <1>5, <1>16, <2>1, LeadMore
  <2>3. QED
    BY <1>20, <2>2
<1>22. FilesInv(U, N, G)
  <2>1. T[s].inode \in {Pipe, None} /\ U[s].inode = Pipe /\ U[s].flag = "pipe" /\ U[s].fd_pos = 1
    BY <1>2, <1>7, <1>11
  <2>2. U[s].fd_pos > 0 /\ U[s].fd_pos = Cardinality(Lead(G, {s}))
    BY <1>17, <1>20, <2>1
  <2>3. U[s].inode = None => \A q \in Processes, e \in Given : G[q][e] # s
    BY <1>18, <2>1
  <2>4. F[p][a] \in {s, -1} /\ G[p][a] \in {s, -1}
    BY <1>14
  <2> HIDE DEF Rec
  <2>5. QED
    BY <1>2, <1>5, <1>8, <1>11, <1>14, <2>1, <2>2, <2>3, <2>4, PipeStep DEF FilesNow
<1>23. FilesInv(V, N, H)
  <2>1. U[s].inode \in {Pipe, None} /\ V[s].inode = Pipe /\ V[s].flag = "pipe" /\ V[s].fd_pos = 2
    BY <1>11
  <2>2. V[s].fd_pos > 0 /\ V[s].fd_pos = Cardinality(Lead(H, {s}))
    BY <1>17, <1>21, <2>1
  <2>3. V[s].inode = None => \A q \in Processes, e \in Given : H[q][e] # s
    BY <1>18, <2>1
  <2>4. G[p][b] \in {s, -1} /\ H[p][b] \in {s, -1}
    BY <1>14, <1>16
  <2> HIDE DEF Rec
  <2>5. QED
    BY <1>2, <1>5, <1>11, <1>16, <1>22, <2>1, <2>2, <2>3, <2>4, PipeStep DEF FilesNow
<1>24. FilesInv(GlobalFileTable', inodes', fd')
  BY <1>5, <1>6, <1>7, <1>10, <1>13, <1>23
<1>25. FilesNow'
  BY <1>3, <1>6, <1>24, OnlyOpen DEF FilesNow
<1>26. QED
  BY <1>2, <1>5, <1>6, <1>25 DEF BothTaken

LEMMA PipeFailsStep ==
    ASSUME FilesNow, NEW p \in Processes, call[p] = NoCall, PipeFails(p)
    PROVE  FilesNow' /\ fd' = fd
<1>1. UNCHANGED <<fd, workDir, inodes, entries, call, lost>>
  BY DEF PipeFails
<1>2. workDir \in [Processes -> Dirs \cup {Root}] /\ GlobalFileTable \in Tables /\ inodes \in Nodes
  BY DEF FilesNow, CallsSound, FilesInv, Typed
<1>3. CASE UNCHANGED GlobalFileTable
  BY <1>1, <1>2, <1>3, OnlyOpen DEF FilesNow
<1>4. CASE /\ GetFreeGlobalFd # -1
           /\ GlobalFileTable' = [GlobalFileTable EXCEPT ![GetFreeGlobalFd].flag = "pipe",
                                                         ![GetFreeGlobalFd].fd_pos = 2]
  <2>1. PICK s \in Slots : s = GetFreeGlobalFd /\ GlobalFileTable[s].inode = None /\ SlotFree(s)
    BY <1>4, FreeSlot
  <2>2. PICK T : T = [GlobalFileTable EXCEPT ![s].flag = "pipe"]
    OBVIOUS
  <2>3. GlobalFileTable' = [T EXCEPT ![s].fd_pos = 2]
    BY <1>4, <2>1, <2>2
  <2>4. T \in Tables /\ T[s].inode = None /\ OnlySlot(GlobalFileTable, T, s)
    BY <1>2, <2>1, <2>2 DEF Tables, FileRec, OnlySlot
  <2>5. OnlySlot(GlobalFileTable, GlobalFileTable', s) /\ GlobalFileTable'[s].inode = None
    BY <1>2, <2>1, <2>3, <2>4 DEF Tables, FileRec, OnlySlot
  <2>6. CallOf(p, NoCall) /\ Quiet(NoCall)
    BY <1>1 DEF CallOf, Quiet, NoCall, FilesNow, CallsSound
  <2>7. QED
    BY <1>1, <1>2, <2>1, <2>5, <2>6, SlotStep
<1>5. QED
  BY <1>3, <1>4 DEF PipeFails

LEMMA RedirectStep ==
    ASSUME FilesNow, NEW p \in Processes, NEW std, NEW new \in Fds \cup {-1},
           fd_redirect(p, std, new), harm' = "none"
    PROVE  /\ FilesNow' /\ std \in STD_FD
           /\ fd' = [fd EXCEPT ![p][std] = IF new = -1 THEN -1 ELSE fd[p][new]]
<1>1. fd \in [Processes -> FdMap] /\ workDir \in [Processes -> Dirs \cup {Root}]
  BY DEF FilesNow, FilesInv, Typed, CallsSound
<1>2. std \in STD_FD /\ std \in Fds /\ std \notin Given
  <2>1. std \in STD_FD
    BY DEF fd_redirect
  <2>2. 0 \in Fds /\ 1 \in Fds
    BY FilesAssumption DEF Fds
  <2>3. QED
    BY <2>1, <2>2 DEF STD_FD, Given
<1>3. /\ fd' = [fd EXCEPT ![p][std] = IF new = -1 THEN -1 ELSE fd[p][new]]
      /\ UNCHANGED <<GlobalFileTable, workDir, inodes, entries, call, lost>>
  <2>1. "an uncounted descriptor is closed" # "none"
    OBVIOUS
  <2>2. CASE new = -1
    BY <2>2 DEF fd_redirect
  <2>3. CASE new # -1
    BY <2>1, <2>3 DEF fd_redirect, Harm
  <2>4. QED
    BY <2>2, <2>3
<1>4. fd' \in [Processes -> FdMap] /\ \A q \in Processes, d \in Given : fd'[q][d] = fd[q][d]
  BY <1>1, <1>2, <1>3, GivenFinite DEF FdMap
<1>5. PICK T, N, F, G : T = GlobalFileTable /\ N = inodes /\ F = fd /\ G = fd'
  OBVIOUS
<1>6. FilesInv(T, N, G)
  BY <1>4, <1>5, GivenOnly DEF FilesNow
<1>7. FilesNow'
  BY <1>1, <1>3, <1>5, <1>6, OnlyOpen DEF FilesNow
<1>8. QED
  BY <1>2, <1>3, <1>7

LEMMA SearchStep ==
    ASSUME FilesNow, NEW p \in Processes, NEW for, NEW n, Search(p, for, n)
    PROVE  /\ FilesNow' /\ fd' = fd
           /\ call' = [call EXCEPT ![p] = [at |-> "search", for |-> for, name |-> n, slot |-> -1]]
<1>1. PICK k : k = [at |-> "search", for |-> for, name |-> n, slot |-> -1]
  OBVIOUS
<1>2. CallOf(p, k) /\ Quiet(k) /\ Quiet(call[p])
  BY <1>1 DEF Search, CallOf, Calls, CallSound, NoCall, Quiet
<1>3. UNCHANGED <<GlobalFileTable, fd, inodes, workDir, entries, lost>>
  BY DEF Search, tableVars
<1>4. FilesNow'
  BY <1>2, <1>3, CallOnly DEF FilesNow, FilesInv, Typed
<1>5. QED
  BY <1>3, <1>4 DEF Search

LEMMA ReturnedStep ==
    ASSUME FilesNow, NEW p \in Processes, Returned(p),
           UNCHANGED <<tableVars, workDir, entries, lost>>
    PROVE  FilesNow' /\ fd' = fd /\ call' = [call EXCEPT ![p] = NoCall]
<1>1. CallOf(p, NoCall) /\ Quiet(NoCall) /\ Quiet(call[p])
  BY DEF Returned, CallOf, Calls, CallSound, NoCall, Quiet
<1>2. UNCHANGED <<GlobalFileTable, fd, inodes, workDir, entries, lost>>
  BY DEF tableVars
<1>3. FilesNow'
  BY <1>1, <1>2, CallOnly DEF FilesNow, FilesInv, Typed
<1>4. QED
  BY <1>2, <1>3 DEF Returned

\* What a step after the disk does to p, and to nobody else.
DiskFrame(p) ==
    /\ \A q \in Processes \ {p} : call'[q] = call[q] /\ fd'[q] = fd[q] /\ workDir'[q] = workDir[q]
    /\ call[p].at # "user" /\ call'[p].at # "user" /\ call'[p].for = call[p].for
    /\ \/ /\ fd' = fd
          /\ call'[p].at = "done" /\ call[p].for \in {"read", "write", "create"} => call'[p].slot = -1
       \/ \E d \in Given : /\ OnlyFd(fd, fd', p, d) /\ fd[p][d] = -1 /\ fd'[p][d] \in Slots
                           /\ call'[p].at = "done" /\ call'[p].slot = d

\* The call of p ends, or waits at another place.
LEMMA Ends ==
    ASSUME FilesNow, NEW p \in Processes, call[p].at # "user",
           NEW r \in Slots \cup Fds \cup {-1}, Return(p, r)
    PROVE  \E k \in Calls :
              /\ CallOf(p, k) /\ Quiet(k) /\ k.at = "done" /\ k.slot = r /\ k.for = call[p].for
              /\ call'[p] = k /\ \A q \in Processes \ {p} : call'[q] = call[q]
<1>1. call \in [Processes -> Calls] /\ call[p] \in Calls
  BY DEF FilesNow, CallsSound
<1>2. PICK k : k = [call[p] EXCEPT !.at = "done", !.slot = r]
  OBVIOUS
<1>3. k \in Calls /\ k.at = "done" /\ k.slot = r /\ k.for = call[p].for
  BY <1>1, <1>2 DEF Calls
<1>4. CallSound(k) /\ Quiet(k)
  BY <1>3 DEF CallSound, Quiet
<1>5. call' = [call EXCEPT ![p] = k]
  BY <1>1, <1>2 DEF Calls, Return
<1>6. QED
  BY <1>1, <1>3, <1>4, <1>5 DEF CallOf

LEMMA Waits ==
    ASSUME FilesNow, NEW p \in Processes, call[p].at \in {"search", "inode"},
           NEW place, NEW r \in Slots \cup {-1}, WaitAt(p, place, r),
           \/ place = "inode" /\ call[p].for # "create"
                              /\ (call[p].for \in {"read", "write"} => r \in Slots)
           \/ place = "create" /\ call[p].for = "create"
           \/ place = "remove" /\ call[p].for = "remove"
    PROVE  \E k \in Calls :
              /\ CallOf(p, k) /\ k.at = place /\ k.slot = r
              /\ k.for = call[p].for /\ k.name = call[p].name
              /\ call'[p] = k /\ \A q \in Processes \ {p} : call'[q] = call[q]
<1>1. call \in [Processes -> Calls] /\ call[p] \in Calls /\ CallSound(call[p])
  BY DEF FilesNow, CallsSound
<1>2. PICK k : k = [call[p] EXCEPT !.at = place, !.slot = r]
  OBVIOUS
<1>3. /\ k \in Calls /\ k.at = place /\ k.slot = r
      /\ k.for = call[p].for /\ k.name = call[p].name
  BY <1>1, <1>2 DEF Calls
<1>4. CallSound(k)
  BY <1>1, <1>3 DEF CallSound
<1>5. call' = [call EXCEPT ![p] = k]
  BY <1>1, <1>2 DEF Calls, WaitAt
<1>6. QED
  BY <1>1, <1>3, <1>4, <1>5 DEF CallOf

LEMMA OpenFileStep ==
    ASSUME FilesNow, NEW p \in Processes, NEW s \in Slots, NEW nodes \in Nodes,
           call[p].at \in {"search", "inode"}, call[p].for \in {"read", "write"},
           call[p].name \in Files \cap entries,
           OnlyInode(inodes, nodes, call[p].name),
           nodes[call[p].name].open_cnt = inodes[call[p].name].open_cnt + 1,
           \A q \in Processes : ~Removing(q, call[p].name) /\ ~Making(q, call[p].name),
           OpenFile(p, s, nodes), harm' = "none"
    PROVE  FilesNow' /\ DiskFrame(p)
<1>1. PICK n \in Files \cap entries : n = call[p].name
  OBVIOUS
<1>2. PICK opened : opened = [inode |-> n, flag |-> call[p].for, fd_pos |-> 0]
  OBVIOUS
<1>3. PICK denying : denying = IF call[p].for = "write"
                               THEN [nodes EXCEPT ![n].write_deny = TRUE] ELSE nodes
  OBVIOUS
<1>4. PICK d : d = FreeFd(fd[p])
  OBVIOUS
<1>5. /\ GlobalFileTable \in Tables /\ inodes \in Nodes /\ fd \in [Processes -> FdMap]
      /\ fd[p] \in FdMap /\ lost \in [Files -> Nat]
  BY DEF FilesNow, FilesInv, Typed, CallsSound
<1>6. /\ d \in Given \cup {-1}
      /\ d # -1 => fd[p][d] = -1 /\ ProcessInstallFd(fd[p], s) = [fd[p] EXCEPT ![d] = s]
  BY <1>4, <1>5, FreeDescriptor
<1>7. GlobalFileTable[s].inode = None /\ SlotFree(s)
  <2>1. "two opens take one slot" # "none"
    OBVIOUS
  <2>2. GlobalFileTable[s].inode = None
    BY <2>1 DEF OpenFile, Harm
  <2>3. QED
    BY <2>2, NobodysSlot
<1>8. opened \in FileRec /\ opened.inode = n /\ opened.flag # "pipe"
  BY <1>2 DEF FileRec
<1>9. nodes[n] \in NodeRec
  BY DEF Nodes
<1>10. /\ denying \in Nodes /\ denying[n].open_cnt = inodes[n].open_cnt + 1
       /\ \A m \in (Files \cup Dirs) \ {n} : denying[m] = inodes[m]
  BY <1>1, <1>3, <1>9 DEF Nodes, NodeRec, OnlyInode
<1>11. \A q \in Processes : ~Removing(q, n) /\ ~Making(q, n)
  BY <1>1
<1>12. \A m \in Files \cup Dirs : ~Removing(p, m) /\ ~Making(p, m)
  BY DEF Removing, Making
<1>13. Given \subseteq Fds /\ UNCHANGED <<workDir, entries>>
  BY <1>7, GivenFinite DEF OpenFile
<1>14. CASE call[p].for = "write" /\ nodes[n].write_deny
  <2>1. /\ GlobalFileTable' = [GlobalFileTable EXCEPT ![s] = opened] /\ inodes' = nodes
        /\ LostOne(n) /\ Return(p, -1)
    BY <1>1, <1>2, <1>7, <1>14 DEF OpenFile, LostOne
  <2>2. OnlySlot(GlobalFileTable, GlobalFileTable', s) /\ GlobalFileTable'[s] = opened
    BY <1>5, <1>8, <2>1 DEF OnlySlot, Tables
  <2>3. PICK k \in Calls :
        /\ CallOf(p, k) /\ Quiet(k) /\ k.at = "done" /\ k.slot = -1 /\ k.for = call[p].for
        /\ call'[p] = k /\ \A q \in Processes \ {p} : call'[q] = call[q]
    BY <2>1, Ends
  <2>4. FilesNow'
    BY <1>1, <1>7, <1>8, <1>11, <1>12, <1>13, <2>1, <2>2, <2>3, OpenStep
  <2>5. DiskFrame(p)
    BY <1>13, <2>1, <2>3 DEF DiskFrame, LostOne
  <2>6. QED
    BY <2>4, <2>5
<1>15. CASE ~(call[p].for = "write" /\ nodes[n].write_deny) /\ d = -1
  <2>1. /\ GlobalFileTable' = [GlobalFileTable EXCEPT ![s] = NoFile]
        /\ inodes' = InodeClose(denying, n) /\ Return(p, -1)
        /\ UNCHANGED <<fd, lost>>
    BY <1>1, <1>3, <1>4, <1>7, <1>15 DEF OpenFile
  <2>2. NoFile \in FileRec /\ NoFile.inode = None
    BY DEF NoFile, FileRec
  <2>3. OnlySlot(GlobalFileTable, GlobalFileTable', s) /\ GlobalFileTable'[s].inode = None
    BY <1>5, <2>1, <2>2 DEF OnlySlot, Tables
  <2>4. denying[n] \in NodeRec /\ inodes[n] \in NodeRec
    BY <1>5, <1>10 DEF Nodes
  <2>5. Decremented(denying[n]) \in NodeRec /\ Decremented(denying[n]).open_cnt = inodes[n].open_cnt
    BY <1>10, <2>4 DEF Decremented, Closed, NodeRec
  <2>6. inodes' \in Nodes /\ \A m \in Files \cup Dirs : inodes'[m].open_cnt = inodes[m].open_cnt
    BY <1>10, <2>1, <2>5 DEF InodeClose, Nodes
  <2>7. PICK k \in Calls :
        /\ CallOf(p, k) /\ Quiet(k) /\ k.at = "done" /\ k.slot = -1 /\ k.for = call[p].for
        /\ call'[p] = k /\ \A q \in Processes \ {p} : call'[q] = call[q]
    BY <2>1, Ends
  <2>8. Quiet(call[p])
    BY DEF Quiet
  <2>9. FilesNow'
    BY <1>7, <1>13, <2>1, <2>3, <2>6, <2>7, <2>8, SlotStep
  <2>10. DiskFrame(p)
    BY <1>13, <2>1, <2>7 DEF DiskFrame
  <2>11. QED
    BY <2>9, <2>10
<1>16. CASE ~(call[p].for = "write" /\ nodes[n].write_deny) /\ d # -1
  <2>1. /\ GlobalFileTable' = [GlobalFileTable EXCEPT ![s] = opened] /\ inodes' = denying
        /\ fd' = [fd EXCEPT ![p] = ProcessInstallFd(fd[p], s)]
        /\ Return(p, d) /\ UNCHANGED lost
    BY <1>1, <1>2, <1>3, <1>4, <1>7, <1>16 DEF OpenFile
  <2>2. OnlySlot(GlobalFileTable, GlobalFileTable', s) /\ GlobalFileTable'[s] = opened
    BY <1>5, <1>8, <2>1 DEF OnlySlot, Tables
  <2>3. d \in Given /\ fd[p][d] = -1
    BY <1>6, <1>16
  <2>4. OnlyFd(fd, fd', p, d) /\ fd'[p][d] = s
    <3>1. fd' = [fd EXCEPT ![p] = [fd[p] EXCEPT ![d] = s]]
      BY <1>6, <1>16, <2>1
    <3>2. d \in Fds
      BY <1>13, <2>3
    <3>3. QED
      BY <1>5, <3>1, <3>2 DEF OnlyFd, FdMap
  <2>5. Installed(p, d, s)
    BY <2>1, <2>3, <2>4 DEF Installed
  <2>6. PICK k \in Calls :
        /\ CallOf(p, k) /\ Quiet(k) /\ k.at = "done" /\ k.slot = d /\ k.for = call[p].for
        /\ call'[p] = k /\ \A q \in Processes \ {p} : call'[q] = call[q]
    BY <1>13, <2>1, <2>3, Ends
  <2>7. OnlyInode(inodes, inodes', n) /\ inodes'[n].open_cnt = inodes[n].open_cnt + 1
    BY <1>10, <2>1 DEF OnlyInode
  <2>8. FilesNow'
    BY <1>1, <1>7, <1>8, <1>11, <1>12, <1>13, <2>2, <2>3, <2>5, <2>6, <2>7, OpenStep
  <2>9. \A q \in Processes \ {p} : fd'[q] = fd[q]
    BY <1>5, <2>1
  <2>10. DiskFrame(p)
    BY <1>13, <2>3, <2>4, <2>6, <2>9 DEF DiskFrame
  <2>11. QED
    BY <2>8, <2>10
<1>17. QED
  BY <1>14, <1>15, <1>16

\* syscall_unlink and syscall_rmdir have opened the inode.
LEMMA UnlinkStep ==
    ASSUME FilesNow, NEW p \in Processes, NEW nodes \in Nodes,
           call[p].at \in {"search", "inode"}, call[p].for = "remove",
           OnlyInode(inodes, nodes, call[p].name), call[p].name \in Files \cup Dirs,
           \/ /\ Listed(call[p].name)
              /\ nodes[call[p].name].open_cnt = inodes[call[p].name].open_cnt + 1
           \/ /\ ~Listed(call[p].name) /\ nodes[call[p].name].open_cnt = 1
              /\ \A q \in Processes : ~Making(q, call[p].name),
           Unlink(p, nodes)
    PROVE  FilesNow' /\ DiskFrame(p)
<1>1. PICK n \in Files \cup Dirs : n = call[p].name
  OBVIOUS
<1>2. nodes[n] \in NodeRec /\ inodes[n] \in NodeRec /\ inodes \in Nodes
  BY DEF Nodes, FilesNow, FilesInv, Typed
<1>3. UNCHANGED <<GlobalFileTable, fd, workDir, entries, lost>>
  BY DEF Unlink
<1>4. 0 \in Fds
  BY FilesAssumption DEF Fds
<1>5. Quiet(call[p]) /\ call[p].at # "user"
  BY DEF Quiet
<1>6. CASE Listed(n) /\ nodes[n].open_cnt = inodes[n].open_cnt + 1
  <2>1. nodes[n].open_cnt >= 2
    BY <1>2, <1>6 DEF Listed, NodeRec
  <2>2. inodes' = InodeClose(nodes, n) /\ Return(p, 0)
    BY <1>1, <2>1 DEF Unlink
  <2>3. Decremented(nodes[n]) \in NodeRec /\ Decremented(nodes[n]).open_cnt = inodes[n].open_cnt
    BY <1>2, <1>6, <2>1 DEF Decremented, Closed, NodeRec
  <2>4. inodes' \in Nodes /\ \A m \in Files \cup Dirs : inodes'[m].open_cnt = inodes[m].open_cnt
    BY <1>1, <2>2, <2>3 DEF InodeClose, Nodes, OnlyInode
  <2>5. PICK k \in Calls :
        /\ CallOf(p, k) /\ Quiet(k) /\ k.at = "done" /\ k.slot = 0 /\ k.for = call[p].for
        /\ call'[p] = k /\ \A q \in Processes \ {p} : call'[q] = call[q]
    BY <1>4, <1>5, <2>2, Ends
  <2>6. FilesNow'
    BY <1>3, <1>5, <2>4, <2>5, CallOnly
  <2>7. DiskFrame(p)
    BY <1>3, <1>5, <2>5 DEF DiskFrame
  <2>8. QED
    BY <2>6, <2>7
<1>7. CASE ~Listed(n) /\ nodes[n].open_cnt = 1 /\ \A q \in Processes : ~Making(q, n)
  <2>1. ~(nodes[n].open_cnt >= 2)
    BY <1>7
  <2>2. inodes' = nodes /\ WaitAt(p, "remove", -1)
    BY <1>1, <2>1 DEF Unlink
  <2>3. PICK k \in Calls :
        /\ CallOf(p, k) /\ k.at = "remove" /\ k.slot = -1
        /\ k.for = call[p].for /\ k.name = call[p].name
        /\ call'[p] = k /\ \A q \in Processes \ {p} : call'[q] = call[q]
    BY <2>2, Waits
  <2>4. OnlyInode(inodes, inodes', n) /\ inodes'[n].open_cnt = 1
    BY <1>1, <1>7, <2>2
  <2>5. FilesNow'
    BY <1>1, <1>3, <1>5, <1>7, <2>3, <2>4, RemoveStep
  <2>6. DiskFrame(p)
    BY <1>3, <1>5, <2>3 DEF DiskFrame
  <2>7. QED
    BY <2>5, <2>6
<1>8. QED
  BY <1>1, <1>6, <1>7

\* What a call does with the inode that it has opened; none removes or makes n.
LEMMA UseStep ==
    ASSUME FilesNow, NEW p \in Processes, NEW s \in Slots \cup Fds \cup {-1}, NEW nodes \in Nodes,
           call[p].at \in {"search", "inode"}, call[p].for # "create",
           call[p].for \in {"read", "write"} => s \in Slots,
           call[p].name \in entries,
           OnlyInode(inodes, nodes, call[p].name),
           nodes[call[p].name].open_cnt > 0,
           \/ /\ Listed(call[p].name)
              /\ nodes[call[p].name].open_cnt = inodes[call[p].name].open_cnt + 1
           \/ ~Listed(call[p].name) /\ nodes[call[p].name].open_cnt = 1,
           \A q \in Processes : ~Making(q, call[p].name),
           call[p].for # "remove" => \A q \in Processes : ~Removing(q, call[p].name),
           Use(p, s, nodes), harm' = "none"
    PROVE  FilesNow' /\ DiskFrame(p)
<1>1. PICK n : n = call[p].name
  OBVIOUS
<1>2. /\ \/ call[p].for \in {"read", "write", "create"} /\ n \in Files
         \/ call[p].for = "chdir" /\ n \in Dirs
         \/ call[p].for = "remove" /\ n \in Files \cup Dirs
      /\ inodes \in Nodes
  BY <1>1 DEF FilesNow, CallsSound, CallSound, FilesInv, Typed
<1>3. call[p].at # "user" /\ 1 \in Fds
  BY FilesAssumption DEF Fds
<1>4. CASE call[p].for \in {"read", "write"} /\ OpenFile(p, s, nodes)
  <2>1. n \in Files \cap entries /\ s \in Slots
    BY <1>1, <1>2, <1>4
  <2>2. ~Listed(n) => inodes[n].open_cnt = 0
    BY <2>1, ClosedForAll DEF FilesNow, Listed
  <2>3. nodes[n].open_cnt = inodes[n].open_cnt + 1
    BY <1>1, <2>2
  <2>4. QED
    BY <1>1, <1>4, <2>1, <2>3, OpenFileStep
<1>5. CASE call[p].for = "chdir" /\ ChangeDir(p, n, nodes)
  <2>1. n \in Dirs /\ inodes[n] \in NodeRec
    BY <1>2, <1>5 DEF Nodes
  <2>2. nodes[n].open_cnt >= inodes[n].open_cnt + 1
    BY <1>1, <2>1 DEF Listed, NodeRec
  <2>3. \A q \in Processes : ~Removing(q, n)
    BY <1>1, <1>5
  <2>4. FilesNow' /\ fd' = fd /\ Return(p, 1)
    BY <1>1, <1>5, <2>1, <2>2, <2>3, ChangeDirStep DEF OnlyInode
  <2>5. PICK k \in Calls :
        /\ CallOf(p, k) /\ Quiet(k) /\ k.at = "done" /\ k.slot = 1 /\ k.for = call[p].for
        /\ call'[p] = k /\ \A q \in Processes \ {p} : call'[q] = call[q]
    BY <1>3, <2>4, Ends
  <2>6. \A q \in Processes \ {p} : workDir'[q] = workDir[q]
    <3>1. "a directory is closed that another works in" # "none"
      OBVIOUS
    <3>2. workDir' = [workDir EXCEPT ![p] = n]
      BY <1>5, <3>1 DEF ChangeDir, Harm
    <3>3. QED
      BY <3>2 DEF FilesNow, CallsSound
  <2>7. DiskFrame(p)
    BY <1>3, <1>5, <2>4, <2>5, <2>6 DEF DiskFrame
  <2>8. QED
    BY <2>4, <2>7
<1>6. CASE call[p].for = "remove" /\ Unlink(p, nodes)
  BY <1>1, <1>2, <1>6, UnlinkStep
<1>7. QED
  BY <1>1, <1>4, <1>5, <1>6 DEF Use

LEMMA InodeOpenStep ==
    ASSUME FilesNow, NEW p \in Processes, NEW s \in Slots \cup {-1},
           call[p].at = "search", call[p].for # "create", call[p].name \in entries,
           call[p].for \in {"read", "write"} => s \in Slots,
           InodeOpen(p, s), harm' = "none"
    PROVE  FilesNow' /\ DiskFrame(p)
<1>1. PICK n : n = call[p].name
  OBVIOUS
<1>2. n \in Files \cup Dirs /\ call[p] \in Calls /\ inodes \in Nodes /\ inodes[n] \in NodeRec
  BY <1>1 DEF FilesNow, CallsSound, CallSound, FilesInv, Typed, Nodes
<1>3. CASE ~Listed(n)
  <2>1. WaitAt(p, "inode", s) /\ UNCHANGED <<GlobalFileTable, fd, inodes, workDir, entries, lost>>
    BY <1>1, <1>3 DEF InodeOpen, tableVars
  <2>2. PICK k \in Calls :
        /\ CallOf(p, k) /\ k.at = "inode" /\ k.slot = s
        /\ k.for = call[p].for /\ k.name = call[p].name
        /\ call'[p] = k /\ \A q \in Processes \ {p} : call'[q] = call[q]
    BY <2>1, Waits
  <2>3. Quiet(k) /\ Quiet(call[p])
    BY <2>2 DEF Quiet
  <2>4. FilesNow'
    BY <1>2, <2>1, <2>2, <2>3, CallOnly
  <2>5. DiskFrame(p)
    BY <2>1, <2>2 DEF DiskFrame
  <2>6. QED
    BY <2>4, <2>5
<1>4. CASE Listed(n)
  <2>1. PICK nodes : nodes = [inodes EXCEPT ![n].open_cnt = inodes[n].open_cnt + 1]
    OBVIOUS
  <2>2. /\ ~(OthersAt(p, {"remove", "unlisted"}) /\ call[p].for # "remove")
        /\ Use(p, s, nodes)
    <3>1. "what is being removed is opened" # "none"
      OBVIOUS
    <3>2. QED
      BY <1>1, <1>4, <2>1, <3>1 DEF InodeOpen, Harm
  <2>3. /\ nodes \in Nodes /\ OnlyInode(inodes, nodes, n)
        /\ nodes[n].open_cnt = inodes[n].open_cnt + 1 /\ nodes[n].open_cnt > 0
    BY <1>2, <1>4, <2>1 DEF Nodes, NodeRec, OnlyInode, Listed
  <2>4. \A q \in Processes : ~Making(q, n)
    <3> SUFFICES ASSUME NEW q \in Processes, Making(q, n) PROVE FALSE
      OBVIOUS
    <3>1. n \in Files
      BY DEF Making, FilesNow, CallsSound, CallSound
    <3>2. inodes[n].open_cnt = 0
      BY <3>1 DEF FilesNow, FilesInv, MakersApart
    <3>3. QED
      BY <1>4, <3>2 DEF Listed
  <2>5. call[p].for # "remove" => \A q \in Processes : ~Removing(q, n)
    BY <1>1, <2>2 DEF OthersAt, Removing
  <2>6. QED
    BY <1>1, <1>4, <2>2, <2>3, <2>4, <2>5, UseStep
<1>5. QED
  BY <1>3, <1>4

LEMMA InodeReadStep ==
    ASSUME FilesNow, NEW p \in Processes, InodeRead(p), harm' = "none"
    PROVE  FilesNow' /\ DiskFrame(p)
<1>1. PICK n, s : n = call[p].name /\ s = call[p].slot
  OBVIOUS
<1>2. /\ n \in Files \cup Dirs /\ call[p] \in Calls /\ inodes \in Nodes /\ inodes[n] \in NodeRec
      /\ call[p].at = "inode" /\ call[p].for # "create"
      /\ call[p].for \in {"read", "write"} => s \in Slots
  BY <1>1 DEF InodeRead, FilesNow, CallsSound, CallSound, FilesInv, Typed, Nodes
<1>3. PICK nodes : nodes = [inodes EXCEPT ![n].open_cnt = 1]
  OBVIOUS
<1>4. /\ ~Listed(n) /\ ~OthersAt(p, {"create", "made"}) /\ n \in entries
      /\ Use(p, s, nodes)
  <2>1. "an inode is in memory twice" # "none" /\ "what is being removed is opened" # "none"
    OBVIOUS
  <2>2. QED
    BY <1>1, <1>3, <2>1 DEF InodeRead, Harm
<1>5. /\ nodes \in Nodes /\ OnlyInode(inodes, nodes, n) /\ nodes[n].open_cnt = 1
  BY <1>2, <1>3 DEF Nodes, NodeRec, OnlyInode
<1>6. \A q \in Processes : ~Making(q, n)
  BY <1>1, <1>2, <1>4 DEF OthersAt, Making
<1>7. \A q \in Processes : ~Removing(q, n)
  BY <1>2, <1>4 DEF FilesNow, FilesInv, RemoversAlone, Listed
<1>8. s \in Slots \cup Fds \cup {-1}
  BY <1>1, <1>2 DEF Calls
<1>9. QED
  BY <1>1, <1>2, <1>4, <1>5, <1>6, <1>7, <1>8, UseStep

LEMMA FoundStep ==
    ASSUME FilesNow, NEW p \in Processes, Found(p), harm' = "none"
    PROVE  FilesNow' /\ DiskFrame(p)
<1>1. PICK n : n = call[p].name
  OBVIOUS
<1>2. /\ call[p].at = "search" /\ call[p] \in Calls
      /\ \/ call[p].for \in {"read", "write", "create"} /\ n \in Files
         \/ call[p].for = "chdir" /\ n \in Dirs
         \/ call[p].for = "remove" /\ n \in Files \cup Dirs
  BY <1>1 DEF Found, FilesNow, CallsSound, CallSound
<1>3. Quiet(call[p]) /\ call[p].at # "user" /\ 0 \in Fds
  BY <1>2, FilesAssumption DEF Quiet, Fds
<1>4. PICK s : s = IF call[p].for \in {"read", "write"} THEN GetFreeGlobalFd ELSE -1
  OBVIOUS
<1>5. CASE /\ Return(p, IF call[p].for \in {"chdir", "remove"} THEN 0 ELSE -1)
           /\ UNCHANGED <<tableVars, workDir, entries, lost, harm>>
  <2>1. PICK r : r = IF call[p].for \in {"chdir", "remove"} THEN 0 ELSE -1
    OBVIOUS
  <2>2. r \in Fds \cup {-1}
    BY <1>3, <2>1
  <2>3. PICK k \in Calls :
        /\ CallOf(p, k) /\ Quiet(k) /\ k.at = "done" /\ k.slot = r /\ k.for = call[p].for
        /\ call'[p] = k /\ \A q \in Processes \ {p} : call'[q] = call[q]
    BY <1>3, <1>5, <2>1, <2>2, Ends
  <2>4. UNCHANGED <<GlobalFileTable, fd, inodes, workDir, entries, lost>>
    BY <1>5 DEF tableVars
  <2>5. FilesNow'
    BY <1>3, <2>3, <2>4, CallOnly DEF FilesNow, FilesInv, Typed
  <2>6. DiskFrame(p)
    BY <1>3, <2>1, <2>3, <2>4 DEF DiskFrame
  <2>7. QED
    BY <2>5, <2>6
<1>6. CASE call[p].for = "create" /\ n \notin entries /\ file_create(p)
  <2>1. PICK g : g = GetFreeGlobalFd
    OBVIOUS
  <2>2. n \in Files
    BY <1>2, <1>6
  <2>3. /\ ~Listed(n) /\ ~OthersAt(p, {"create"})
        /\ UNCHANGED <<fd, workDir, inodes, entries, lost>>
        /\ \/ g = -1 /\ Return(p, -1) /\ UNCHANGED GlobalFileTable
           \/ /\ g # -1 /\ WaitAt(p, "create", g)
              /\ GlobalFileTable' = [GlobalFileTable EXCEPT ![g] =
                                        [inode |-> n, flag |-> "write", fd_pos |-> 0]]
    <3>1. "a name is made twice" # "none"
      OBVIOUS
    <3>2. QED
      BY <1>1, <1>6, <2>1, <3>1 DEF file_create, Harm
  <2>4. CASE g = -1 /\ Return(p, -1) /\ UNCHANGED GlobalFileTable
    <3>1. PICK k \in Calls :
          /\ CallOf(p, k) /\ Quiet(k) /\ k.at = "done" /\ k.slot = -1 /\ k.for = call[p].for
          /\ call'[p] = k /\ \A q \in Processes \ {p} : call'[q] = call[q]
      BY <1>3, <2>4, Ends
    <3>2. FilesNow'
      BY <1>3, <2>3, <2>4, <3>1, CallOnly DEF FilesNow, FilesInv, Typed
    <3>3. DiskFrame(p)
      BY <1>3, <2>3, <3>1 DEF DiskFrame
    <3>4. QED
      BY <3>2, <3>3
  <2>5. CASE /\ g # -1 /\ WaitAt(p, "create", g)
             /\ GlobalFileTable' = [GlobalFileTable EXCEPT ![g] =
                                       [inode |-> n, flag |-> "write", fd_pos |-> 0]]
    <3>1. g \in Slots /\ GlobalFileTable[g].inode = None /\ SlotFree(g)
      BY <2>1, <2>5, FreeSlot
    <3>2. PICK k \in Calls :
          /\ CallOf(p, k) /\ k.at = "create" /\ k.slot = g
          /\ k.for = call[p].for /\ k.name = call[p].name
          /\ call'[p] = k /\ \A q \in Processes \ {p} : call'[q] = call[q]
      BY <1>2, <1>6, <2>5, <3>1, Waits
    <3>3. \A q \in Processes : ~(call[q].at = "create" /\ call[q].name = n)
      BY <1>1, <1>2, <2>3 DEF OthersAt
    <3>4. /\ OnlySlot(GlobalFileTable, GlobalFileTable', g)
          /\ GlobalFileTable'[g].inode = n /\ GlobalFileTable'[g].flag = "write"
      <4>1. [inode |-> n, flag |-> "write", fd_pos |-> 0] \in FileRec
        BY <2>2 DEF FileRec
      <4>2. GlobalFileTable \in Tables
        BY DEF FilesNow, FilesInv, Typed
      <4>3. QED
        BY <2>5, <3>1, <4>1, <4>2 DEF OnlySlot, Tables
    <3>5. FilesNow'
      BY <1>1, <1>2, <1>6, <2>2, <2>3, <3>1, <3>2, <3>3, <3>4, MakeStep
    <3>6. DiskFrame(p)
      BY <1>3, <2>3, <3>2 DEF DiskFrame
    <3>7. QED
      BY <3>5, <3>6
  <2>6. QED
    BY <2>3, <2>4, <2>5
<1>7. CASE /\ call[p].for # "create" /\ n \in entries
           /\ call[p].for \in {"read", "write"} => s # -1
           /\ InodeOpen(p, s)
  <2>1. s \in Slots \cup {-1} /\ (call[p].for \in {"read", "write"} => s \in Slots)
    BY <1>4, <1>7, FreeSlot
  <2>2. QED
    BY <1>1, <1>2, <1>7, <2>1, InodeOpenStep
<1>8. QED
  BY <1>1, <1>4, <1>5, <1>6, <1>7 DEF Found

LEMMA CreatedStep ==
    ASSUME FilesNow, NEW p \in Processes, Created(p)
    PROVE  FilesNow' /\ DiskFrame(p)
<1>1. PICK n, s : n = call[p].name /\ s = call[p].slot
  OBVIOUS
<1>2. /\ Making(p, n) /\ n \in Files /\ call[p].at = "made" /\ call[p].for = "create"
      /\ call[p] \in Calls
  BY <1>1 DEF Created, Making, FilesNow, CallsSound, CallSound
<1>3. /\ s \in Slots /\ GlobalFileTable[s].inode = n /\ GlobalFileTable[s].flag = "write"
      /\ inodes[n].open_cnt = 0 /\ n \in entries
      /\ \A q \in Processes : Making(q, n) => q = p
  BY <1>1, <1>2 DEF FilesNow, FilesInv, MakersApart
<1>4. /\ GlobalFileTable \in Tables /\ inodes \in Nodes /\ fd \in [Processes -> FdMap]
      /\ fd[p] \in FdMap /\ lost \in [Files -> Nat] /\ inodes[n] \in NodeRec
  BY <1>2 DEF FilesNow, FilesInv, Typed, CallsSound, Nodes
<1>5. /\ \A q \in Processes, e \in Given : fd[q][e] \notin SlotsOf(GlobalFileTable, n)
      /\ Removers(n) = {}
  BY <1>2, <1>3, ClosedForAll DEF FilesNow
<1>6. SlotFree(s) /\ \A q \in Processes : ~Removing(q, n)
  BY <1>3, <1>5 DEF SlotFree, SlotsOf, Removers
<1>7. PICK d : d = FreeFd(fd[p])
  OBVIOUS
<1>8. /\ d \in Given \cup {-1}
      /\ d = -1 => ProcessInstallFd(fd[p], s) = fd[p]
      /\ d # -1 => fd[p][d] = -1 /\ ProcessInstallFd(fd[p], s) = [fd[p] EXCEPT ![d] = s]
  BY <1>3, <1>4, <1>7, FreeDescriptor
<1>9. /\ inodes' = [inodes EXCEPT ![n].open_cnt = 1]
      /\ fd' = [fd EXCEPT ![p] = ProcessInstallFd(fd[p], s)]
      /\ lost' = [lost EXCEPT ![n] = IF d = -1 THEN lost[n] + 1 ELSE lost[n]]
      /\ Return(p, d)
      /\ UNCHANGED <<GlobalFileTable, workDir, entries>>
  BY <1>1, <1>7 DEF Created
<1>10. Given \subseteq Fds
  BY GivenFinite
<1>11. PICK k \in Calls :
        /\ CallOf(p, k) /\ Quiet(k) /\ k.at = "done" /\ k.slot = d /\ k.for = call[p].for
        /\ call'[p] = k /\ \A q \in Processes \ {p} : call'[q] = call[q]
  <2>1. call[p].at # "user" /\ d \in Slots \cup Fds \cup {-1}
    BY <1>2, <1>8, <1>10
  <2>2. QED
    BY <1>9, <2>1, Ends
<1>12. /\ OnlyInode(inodes, inodes', n) /\ inodes'[n].open_cnt = inodes[n].open_cnt + 1
  BY <1>2, <1>3, <1>4, <1>9 DEF OnlyInode, Nodes, NodeRec
<1>13. OnlySlot(GlobalFileTable, GlobalFileTable', s) /\ GlobalFileTable'[s] = GlobalFileTable[s]
  BY <1>4, <1>9 DEF OnlySlot
<1>14. \A m \in Files \cup Dirs : ~Removing(p, m) /\ (Making(p, m) => m = n)
  BY <1>1, <1>2 DEF Removing, Making
<1>15. \A q \in Processes \ {p} : ~Making(q, n)
  BY <1>3
<1>16. CASE d = -1
  <2>1. fd' = fd
    BY <1>4, <1>8, <1>9, <1>16
  <2>2. LostOne(n)
    BY <1>9, <1>16, <2>1 DEF LostOne
  <2>3. FilesNow'
    BY <1>2, <1>3, <1>6, <1>9, <1>11, <1>12, <1>13, <1>14, <1>15, <2>2, OpenStep
  <2>4. DiskFrame(p)
    BY <1>2, <1>9, <1>11, <1>16, <2>1 DEF DiskFrame
  <2>5. QED
    BY <2>3, <2>4
<1>17. CASE d # -1
  <2>1. d \in Given /\ fd[p][d] = -1
    BY <1>8, <1>17
  <2>2. fd' = [fd EXCEPT ![p] = [fd[p] EXCEPT ![d] = s]]
    BY <1>8, <1>9, <1>17
  <2>3. OnlyFd(fd, fd', p, d) /\ fd'[p][d] = s
    BY <1>3, <1>4, <1>10, <2>1, <2>2 DEF OnlyFd, FdMap
  <2>4. lost' = lost
    BY <1>4, <1>9, <1>17
  <2>5. Installed(p, d, s)
    BY <2>1, <2>3, <2>4 DEF Installed
  <2>6. FilesNow'
    BY <1>2, <1>3, <1>6, <1>9, <1>11, <1>12, <1>13, <1>14, <1>15, <2>1, <2>5, OpenStep
  <2>7. \A q \in Processes \ {p} : fd'[q] = fd[q]
    BY <1>4, <2>2
  <2>8. DiskFrame(p)
    BY <1>2, <1>3, <1>9, <1>11, <2>1, <2>3, <2>7 DEF DiskFrame
  <2>9. QED
    BY <2>6, <2>8
<1>18. QED
  BY <1>16, <1>17

LEMMA AfterDiskStep ==
    ASSUME FilesNow, NEW p \in Processes, AfterDisk(p), harm' = "none"
    PROVE  FilesNow' /\ DiskFrame(p)
<1>1. call \in [Processes -> Calls] /\ call[p] \in Calls
  BY DEF FilesNow, CallsSound
<1>2. CASE EntryMade(p)
  <2>1. fd' = fd /\ workDir' = workDir /\ call[p].at = "create"
    BY <1>2 DEF EntryMade
  <2>2. \/ call' = [call EXCEPT ![p].at = "made", ![p].slot = call[p].slot]
        \/ call' = [call EXCEPT ![p].at = "done", ![p].slot = -1]
    BY <1>2 DEF EntryMade, WaitAt, Return
  <2>3. /\ \A q \in Processes \ {p} : call'[q] = call[q]
        /\ call'[p].at # "user" /\ call'[p].for = call[p].for
        /\ call'[p].at = "done" => call'[p].slot = -1
    BY <1>1, <2>2 DEF Calls
  <2>4. DiskFrame(p)
    BY <2>1, <2>3 DEF DiskFrame
  <2>5. QED
    BY <1>2, <2>4, EntryMadeStep
<1>3. CASE EntryGone(p)
  <2>1. fd' = fd /\ workDir' = workDir /\ call[p].at = "remove"
    BY <1>3 DEF EntryGone, tableVars
  <2>2. call' = [call EXCEPT ![p].at = "unlisted", ![p].slot = -1]
    BY <1>3 DEF EntryGone, WaitAt
  <2>3. /\ \A q \in Processes \ {p} : call'[q] = call[q]
        /\ call'[p].at = "unlisted" /\ call'[p].for = call[p].for
    BY <1>1, <2>2 DEF Calls
  <2>4. DiskFrame(p)
    BY <2>1, <2>3 DEF DiskFrame
  <2>5. QED
    BY <1>3, <2>4, EntryGoneStep
<1>4. CASE Removed(p)
  <2>1. fd' = fd /\ workDir' = workDir /\ call[p].at = "unlisted"
    BY <1>4 DEF Removed
  <2>2. call' = [call EXCEPT ![p].at = "done", ![p].slot = 1] /\ call[p].for = "remove"
    BY <1>4, <2>1 DEF Removed, Return, FilesNow, CallsSound, CallSound
  <2>3. /\ \A q \in Processes \ {p} : call'[q] = call[q]
        /\ call'[p].at = "done" /\ call'[p].for = call[p].for
    BY <1>1, <2>2 DEF Calls
  <2>4. DiskFrame(p)
    BY <2>1, <2>2, <2>3 DEF DiskFrame
  <2>5. QED
    BY <1>4, <2>4, RemovedStep
<1>5. QED
  BY <1>2, <1>3, <1>4, FoundStep, InodeReadStep, CreatedStep DEF AfterDisk

-----------------------------------------------------------------------------
(* The shell: where the processes are, and what a redirected stream leans on *)

Working == {"exec", "load", "program", "program open", "exit", "exit now"}
Streams == {"stdin back", "stdout back", "wait both"}
OneChild == {"wait", "wait file", "fork second", "wait other"}
InCall == {"buildin", "open", "exit", "load", "program open"}
PipePlaces == {"fork first", "fork second", "first", "first close", "second", "second close",
               "wait other", "pipe close", "pipe close other"} \cup Streams
ShellPlaces == {"prompt", "buildin", "wait", "open", "fork", "close", "wait file", "fork first",
                "fork second", "wait other", "pipe close", "pipe close other"} \cup Streams
Keepers == Working \cup {"first close", "second close"}
Places == ShellPlaces \cup Keepers \cup {"free", "exited", "redirect", "first", "second"}

ShellTyped ==
    /\ at \in [Processes -> Places]
    /\ resume \in [Processes -> {"prompt", "wait file", "fork second", "stdin back"}]
    /\ local \in [Processes -> (Fds \cup {-1}) \X (Fds \cup {-1})]
    /\ father \in [Processes -> Processes \cup {None}]

\* What a place says of the rest of a process: r is where it goes on if
\* CMD_Exec returns, l its locals, f its descriptors, k its call.
PlacedAt(a, r, l, f, k) ==
    /\ a = "redirect" => r = "wait file"
    /\ a \in {"first", "first close"} => r = "fork second"
    /\ a \in {"second", "second close"} => r = "stdin back"
    /\ a \in {"free", "exited"} => f = [d \in Fds |-> -1]
    /\ a \in {"prompt", "buildin", "wait"} \/ (a \in Working /\ r = "prompt") => l = <<-1, -1>>
    /\ a \in {"fork", "close", "wait file"} => l[2] \in Given /\ f[l[2]] \in Slots
    /\ a \in PipePlaces \/ (a \in Working /\ r \in {"fork second", "stdin back"}) =>
          l[1] \in Given /\ l[2] \in Given /\ l[1] # l[2]
    /\ a \in {"open", "load"} => k.for \in {"read", "write", "create"}
    /\ a \in {"open", "load"} /\ k.at = "done" /\ k.slot # -1 => k.slot \in Given /\ f[k.slot] \in Slots
    /\ a \notin InCall => k = NoCall

Placed(q) == PlacedAt(at[q], resume[q], local[q], fd[q], call[q])

\* The descriptor that a child keeps open for its redirected stream, which
\* leads to the slot g.
Mine(r, l) == IF r = "stdin back" THEN l[1] ELSE l[2]
Has(a, r, l, f, k, g) ==
    /\ Mine(r, l) \in Given /\ f[Mine(r, l)] = g
    /\ a = "load" /\ k.at = "done" => k.slot # Mine(r, l)
Own(q, g) == Has(at[q], resume[q], local[q], fd[q], call[q], g)

AtMostOne(C) == \A c, d \in C : c = d
AtMostTwo(C) == \A c, d, e \in C : c = d \/ d = e \/ c = e

\* A father has the children he is going to wait for, and no others.
FewChildren ==
    \A q \in Processes :
        /\ at[q] \notin OneChild \cup Streams => Children(q) = {}
        /\ at[q] \in OneChild => AtMostOne(Children(q))
        /\ at[q] \in Streams => AtMostTwo(Children(q))

\* The father of a child with a redirected stream waits, with the file open
\* that the stream leads to.
Redirecting(q) == at[q] = "redirect" \/ (at[q] \in Working /\ resume[q] = "wait file")
Redirected ==
    \A q \in Processes : Redirecting(q) =>
        /\ father[q] \in Processes /\ at[father[q]] = "wait file"
        /\ Own(q, fd[father[q]][local[father[q]][2]])

\* Who never gets out of the place where it is: it waits for more children
\* than it has, or for a child that has become a shell.
Stuck(h) ==
    \/ at[h] \in {"fork second", "wait other"} /\ Children(h) = {}
    \/ at[h] \in Streams /\ AtMostOne(Children(h))
    \/ at[h] = "wait file" /\ \E c \in Children(h) : at[c] \in ShellPlaces

\* What a redirected stream leads to is kept open by somebody who is stuck or
\* by the child itself.
Held(g) == \E h \in Processes, e \in Given : Stuck(h) /\ fd[h][e] = g
Leans(q, g) == Held(g) \/ (at[q] \in Keepers /\ Own(q, g))
StdKept == \A q \in Processes, d \in STD_FD : fd[q][d] # -1 => Leans(q, fd[q][d])

ShellNow ==
    /\ FilesNow
    /\ ShellTyped
    /\ \A q \in Processes : Placed(q) /\ (at[q] = "free" => father[q] = None)
    /\ FewChildren
    /\ Redirected
    /\ StdKept

\* A step of p alone, from the place a to b, its locals from l to m, its
\* descriptors from f to h and its call from k to j.
Moved(a, b, r, l, m, f, h, k, j) ==
    /\ a \in ShellPlaces => b \in ShellPlaces
    /\ a \in {"wait", "fork second", "wait other"} => b = a
    /\ a \in Streams => b \in Streams
    /\ a \in {"fork second", "wait other"} \cup Streams => \A e \in Given : h[e] = f[e]
    /\ b \notin {"free", "redirect"}
    /\ b \in Working /\ r = "wait file" => a \in Working \cup {"redirect"}
    /\ \A d \in STD_FD : h[d] \in {-1, f[d]} \/ (b \in Keepers /\ Has(b, r, m, h, j, h[d]))
    /\ a \in Keepers \cup {"redirect"} => \A g \in Slots : Has(a, r, l, f, k, g) =>
          \/ b = "exited"
          \/ b \in Keepers /\ Has(b, r, m, h, j, g)
          \/ a \in Working /\ b = r /\ m = l /\ h[Mine(r, l)] = g

MovedNow(p) ==
    Moved(at[p], at'[p], resume[p], local[p], local'[p], fd[p], fd'[p], call[p], call'[p])

Alone(p) ==
    /\ UNCHANGED <<resume, father>>
    /\ \A q \in Processes \ {p} :
          at'[q] = at[q] /\ local'[q] = local[q] /\ call'[q] = call[q] /\ fd'[q] = fd[q]

\* Nothing of what is used of q is changed.
Still(q) ==
    /\ at'[q] = at[q] /\ local'[q] = local[q] /\ call'[q] = call[q] /\ fd'[q] = fd[q]
    /\ resume'[q] = resume[q] /\ father'[q] = father[q]

LEMMA StdFds == STD_FD \subseteq Fds /\ Given \subseteq Fds /\ -1 \notin Given /\ Given \cap STD_FD = {}
<1>1. 0 \in Fds /\ 1 \in Fds
  BY FilesAssumption DEF Fds
<1>2. -1 \notin Fds
  BY FilesAssumption DEF Fds
<1>3. QED
  BY <1>1, <1>2 DEF STD_FD, Given

LEMMA PairParts ==
    ASSUME NEW x, NEW y, NEW l, l = <<x, y>>
    PROVE  l[1] = x /\ l[2] = y
OBVIOUS

LEMMA NoneMine ==
    ASSUME NEW r, NEW l, r = "prompt", l = <<-1, -1>>
    PROVE  Mine(r, l) \notin Given
<1>1. PICK x : x = -1
  OBVIOUS
<1>2. l[2] = x
  BY <1>1, PairParts
<1>3. QED
  BY <1>1, <1>2, StdFds DEF Mine

LEMMA StillSame ==
    ASSUME NEW q, Still(q)
    PROVE  /\ Placed(q)' = Placed(q)
           /\ \A g : Own(q, g)' = Own(q, g)
           /\ Redirecting(q)' = Redirecting(q)
<1>1. Placed(q)' = Placed(q)
  BY DEF Still, Placed
<1>2. \A g : Own(q, g)' = Own(q, g)
  BY DEF Still, Own
<1>3. QED
  BY <1>1, <1>2 DEF Still, Redirecting

LEMMA StillFiles ==
    ASSUME FilesNow, UNCHANGED <<GlobalFileTable, fd, inodes, workDir, entries, call, lost>>
    PROVE  FilesNow' /\ fd' = fd /\ call' = call
<1>1. CallsSound' = CallsSound
  BY DEF CallsSound
<1>2. /\ \A q, n : Removing(q, n)' = Removing(q, n)
      /\ \A q, n : Making(q, n)' = Making(q, n)
  BY DEF Removing, Making
<1>3. \A n : Removers(n)' = Removers(n)
  BY <1>2 DEF Removers
<1>4. /\ Typed(GlobalFileTable, inodes, fd)' = Typed(GlobalFileTable, inodes, fd)
      /\ Flagged(GlobalFileTable)' = Flagged(GlobalFileTable)
      /\ Led(GlobalFileTable, fd)' = Led(GlobalFileTable, fd)
      /\ PipesCounted(GlobalFileTable, fd)' = PipesCounted(GlobalFileTable, fd)
  BY DEF Typed, Flagged, Led, PipesCounted
<1>5. FilesCounted(GlobalFileTable, inodes, fd)' = FilesCounted(GlobalFileTable, inodes, fd)
  BY <1>3 DEF FilesCounted
<1>6. MakersApart(GlobalFileTable, inodes)' = MakersApart(GlobalFileTable, inodes)
  BY <1>2 DEF MakersApart
<1>7. RemoversAlone(inodes)' = RemoversAlone(inodes)
  BY <1>2 DEF RemoversAlone
<1>8. WorkDirsListed(inodes)' = WorkDirsListed(inodes)
  BY DEF WorkDirsListed
<1>9. QED
  BY <1>1, <1>4, <1>5, <1>6, <1>7, <1>8 DEF FilesNow, FilesInv

\* A step of one process alone keeps the shell's invariant if it is a move.
LEMMA AloneStep ==
    ASSUME ShellNow, NEW p \in Processes, FilesNow', ShellTyped', Alone(p), MovedNow(p), Placed(p)',
           at[p] = "wait file" => Children(p) = {}
    PROVE  ShellNow'
<1>1. \A q \in Processes \ {p} : Still(q)
  BY DEF Alone, Still
<1>2. \A q \in Processes : Children(q)' = Children(q)
  BY DEF Alone, Children
<1>3. father' = father /\ resume' = resume
  BY DEF Alone
<1>4. PICK a, b : a = at[p] /\ b = at'[p]
  OBVIOUS
<1>5. a \in Places /\ b \in Places
  BY <1>4 DEF ShellNow, ShellTyped
<1>6. /\ a \in ShellPlaces => b \in ShellPlaces
      /\ a \in {"wait", "fork second", "wait other"} => b = a
      /\ a \in Streams => b \in Streams
      /\ a \in {"fork second", "wait other"} \cup Streams => \A e \in Given : fd'[p][e] = fd[p][e]
      /\ b \notin {"free", "redirect"}
      /\ b \in Working /\ resume[p] = "wait file" => a \in Working \cup {"redirect"}
  BY <1>4 DEF MovedNow, Moved
<1>7. /\ \A d \in STD_FD : \A g : g = fd'[p][d] => g \in {-1, fd[p][d]} \/ (b \in Keepers /\ Own(p, g)')
      /\ a \in Keepers \cup {"redirect"} => \A g \in Slots : Own(p, g) =>
          \/ b = "exited"
          \/ b \in Keepers /\ Own(p, g)'
          \/ a \in Working /\ b = resume[p] /\ local'[p] = local[p]
             /\ fd'[p][Mine(resume[p], local[p])] = g
  <2>1. \A g : /\ Own(p, g) <=> Has(a, resume[p], local[p], fd[p], call[p], g)
               /\ Own(p, g)' <=> Has(b, resume[p], local'[p], fd'[p], call'[p], g)
    BY <1>3, <1>4 DEF Own
  <2>2. QED
    BY <1>4, <2>1 DEF MovedNow, Moved
<1>0. STD_FD \subseteq Fds
  BY StdFds
<1> USE <1>3
<1>8. FewChildren'
  <2> SUFFICES ASSUME NEW q \in Processes
               PROVE  /\ at'[q] \notin OneChild \cup Streams => Children(q) = {}
                      /\ at'[q] \in OneChild => AtMostOne(Children(q))
                      /\ at'[q] \in Streams => AtMostTwo(Children(q))
    BY <1>2 DEF FewChildren
  <2>1. /\ at[q] \notin OneChild \cup Streams => Children(q) = {}
        /\ at[q] \in OneChild => AtMostOne(Children(q))
        /\ at[q] \in Streams => AtMostTwo(Children(q))
    BY DEF ShellNow, FewChildren
  <2>2. CASE q # p
    BY <1>1, <2>1, <2>2 DEF Still
  <2>3. CASE q = p
    <3>1. CASE Children(q) = {}
      BY <3>1 DEF AtMostOne, AtMostTwo
    <3>2. CASE Children(q) # {}
      BY <1>4, <1>6, <2>1, <2>3, <3>2 DEF OneChild, Streams
    <3>3. QED
      BY <3>1, <3>2
  <2>4. QED
    BY <2>2, <2>3
<1>9. Redirected'
  <2> SUFFICES ASSUME NEW q \in Processes, Redirecting(q)'
               PROVE  /\ father[q] \in Processes /\ at'[father[q]] = "wait file"
                      /\ Own(q, fd[father[q]][local[father[q]][2]])'
    BY DEF Redirected
  <2>1. Redirecting(q)
    <3>1. CASE q # p
      BY <1>1, <3>1, StillSame
    <3>2. CASE q = p
      BY <1>4, <1>6, <3>2 DEF Redirecting
    <3>3. QED
      BY <3>1, <3>2
  <2>2. PICK h : h = father[q]
    OBVIOUS
  <2>3. h \in Processes /\ at[h] = "wait file" /\ Own(q, fd[h][local[h][2]])
    BY <2>1, <2>2 DEF ShellNow, Redirected
  <2>4. q \in Children(h)
    BY <2>2 DEF Children
  <2>5. h # p
    BY <2>3, <2>4
  <2>6. /\ at'[h] = "wait file"
        /\ fd'[h] = fd[h] /\ local'[h] = local[h]
    BY <1>1, <2>3, <2>5 DEF Still
  <2>7. fd[h][local[h][2]] \in Slots
    BY <2>3 DEF ShellNow, Placed, PlacedAt
  <2>8. PICK g \in Slots : g = fd[h][local[h][2]]
    BY <2>7
  <2>9. Own(q, g)'
    <3>1. CASE q # p
      BY <1>1, <2>3, <2>8, <3>1, StillSame
    <3>2. CASE q = p
      <4>1. a \in Keepers \cup {"redirect"} /\ Own(q, g)
        BY <1>4, <2>1, <2>3, <2>8, <3>2 DEF Redirecting, Keepers
      <4>2. b \in Working /\ resume[p] = "wait file"
        BY <1>4, <1>6, <3>2 DEF Redirecting
      <4>3. b # "exited" /\ b # resume[p]
        BY <4>2 DEF Working
      <4>4. QED
        BY <1>7, <3>2, <4>1, <4>3
    <3>3. QED
      BY <3>1, <3>2
  <2>10. QED
    BY <2>2, <2>3, <2>6, <2>8, <2>9
<1>10. ASSUME NEW h \in Processes, Stuck(h)
       PROVE  Stuck(h)' /\ \A e \in Given : fd'[h][e] = fd[h][e]
  <2>1. CASE at[h] = "wait file"
    <3>1. Children(h) # {}
      BY <1>10, <2>1 DEF Stuck, Streams
    <3>2. h # p
      BY <2>1, <3>1
    <3>3. PICK c \in Children(h) : at[c] \in ShellPlaces
      BY <1>10, <2>1 DEF Stuck, Streams
    <3>4. at'[c] \in ShellPlaces
      BY <1>1, <1>4, <1>6, <3>3 DEF Still, Children
    <3>5. at'[h] = "wait file" /\ fd'[h] = fd[h]
      BY <1>1, <2>1, <3>2 DEF Still
    <3>6. QED
      BY <1>2, <3>3, <3>4, <3>5 DEF Stuck
  <2>2. CASE at[h] \in {"fork second", "wait other"}
    <3>1. Children(h) = {}
      BY <1>10, <2>2 DEF Stuck, Streams
    <3>2. at'[h] = at[h] /\ \A e \in Given : fd'[h][e] = fd[h][e]
      BY <1>1, <1>4, <1>6, <2>2 DEF Still
    <3>3. QED
      BY <1>2, <2>2, <3>1, <3>2 DEF Stuck
  <2>3. CASE at[h] \in Streams
    <3>1. AtMostOne(Children(h))
      BY <1>10, <2>3 DEF Stuck, Streams
    <3>2. at'[h] \in Streams /\ \A e \in Given : fd'[h][e] = fd[h][e]
      BY <1>1, <1>4, <1>6, <2>3 DEF Still
    <3>3. QED
      BY <1>2, <3>1, <3>2 DEF Stuck
  <2>4. QED
    BY <1>10, <2>1, <2>2, <2>3 DEF Stuck
<1>11. ASSUME NEW g, Held(g) PROVE Held(g)'
  BY <1>10, <1>11 DEF Held
<1>12. StdKept'
  <2> SUFFICES ASSUME NEW q \in Processes, NEW d \in STD_FD, NEW g, g = fd'[q][d], g # -1
               PROVE  Held(g)' \/ (at'[q] \in Keepers /\ Own(q, g)')
    BY DEF StdKept, Leans
  <2>1. CASE q # p
    <3>1. fd[q][d] = g /\ at'[q] = at[q] /\ Own(q, g)' = Own(q, g)
      BY <1>1, <2>1, StillSame DEF Still
    <3>2. Held(g) \/ (at[q] \in Keepers /\ Own(q, g))
      BY <3>1 DEF ShellNow, StdKept, Leans
    <3>3. QED
      BY <1>11, <3>1, <3>2
  <2>2. CASE q = p /\ g # fd[p][d]
    BY <1>4, <1>7, <2>2
  <2>3. CASE q = p /\ g = fd[p][d]
    <3>1. Held(g) \/ (a \in Keepers /\ Own(p, g))
      BY <1>4, <2>3 DEF ShellNow, StdKept, Leans
    <3>2. g \in Slots
      <4>1. fd \in [Processes -> FdMap] /\ d \in Fds
        BY <1>0 DEF ShellNow, FilesNow, FilesInv, Typed
      <4>2. QED
        BY <2>3, <4>1 DEF FdMap
    <3>3. CASE Held(g)
      BY <1>11, <3>3
    <3>4. CASE a \in Keepers /\ Own(p, g) /\ b = "exited"
      <4>1. fd'[p] = [e \in Fds |-> -1] /\ d \in Fds
        BY <1>4, <1>0, <3>4 DEF Placed, PlacedAt
      <4>2. QED
        BY <2>3, <4>1
    <3>5. CASE a \in Keepers /\ Own(p, g) /\ b \in Keepers /\ Own(p, g)'
      BY <1>4, <2>3, <3>5
    <3>6. CASE /\ a \in Working /\ Own(p, g) /\ b = resume[p] /\ local'[p] = local[p]
               /\ fd'[p][Mine(resume[p], local[p])] = g
      <4>1. PICK e \in Given : e = Mine(resume[p], local[p]) /\ fd[p][e] = g
        BY <3>6 DEF Own, Has
      <4>2. resume[p] \in {"prompt", "wait file", "fork second", "stdin back"}
        BY DEF ShellNow, ShellTyped
      <4>3. CASE resume[p] = "prompt"
        <5>1. local[p] = <<-1, -1>>
          BY <1>4, <3>6, <4>3 DEF ShellNow, Placed, PlacedAt
        <5>2. QED
          BY <4>1, <4>3, <5>1, NoneMine
      <4>4. CASE resume[p] = "wait file"
        <5>1. Redirecting(p)
          BY <1>4, <3>6, <4>4 DEF Redirecting
        <5>2. PICK h \in Processes : h = father[p] /\ at[h] = "wait file" /\ Own(p, fd[h][local[h][2]])
          BY <5>1 DEF ShellNow, Redirected
        <5>3. PICK i : i = local[h][2] /\ i \in Given
          BY <5>2 DEF ShellNow, Placed, PlacedAt
        <5>4. fd[h][i] = g
          BY <4>1, <5>2, <5>3 DEF Own, Has
        <5>5. p \in Children(h) /\ h # p
          BY <1>4, <3>6, <5>2 DEF Children, Working
        <5>6. at'[h] = "wait file" /\ fd'[h] = fd[h]
          BY <1>1, <5>2, <5>5 DEF Still
        <5>7. Stuck(h)'
          BY <1>2, <1>4, <3>6, <4>4, <5>5, <5>6 DEF Stuck, ShellPlaces
        <5>8. QED
          BY <5>3, <5>4, <5>6, <5>7 DEF Held
      <4>5. CASE resume[p] \in {"fork second", "stdin back"}
        <5>1. Children(p) = {}
          BY <1>4, <3>6 DEF ShellNow, FewChildren, Working, OneChild, Streams
        <5>2. Stuck(p)'
          BY <1>2, <1>4, <3>6, <4>5, <5>1 DEF Stuck, Streams, AtMostOne
        <5>3. QED
          BY <3>6, <4>1, <5>2 DEF Held
      <4>6. QED
        BY <4>2, <4>3, <4>4, <4>5
    <3>7. QED
      BY <1>7, <3>1, <3>2, <3>3, <3>4, <3>5, <3>6
  <2>4. QED
    BY <2>1, <2>2, <2>3
<1>13. \A q \in Processes : Placed(q)' /\ (at'[q] = "free" => father'[q] = None)
  <2> SUFFICES ASSUME NEW q \in Processes PROVE Placed(q)' /\ (at'[q] = "free" => father[q] = None)
    OBVIOUS
  <2>1. Placed(q) /\ (at[q] = "free" => father[q] = None)
    BY DEF ShellNow
  <2>2. QED
    BY <1>1, <1>4, <1>6, <2>1, StillSame DEF Still
<1>14. QED
  BY <1>8, <1>9, <1>12, <1>13 DEF ShellNow

\* The four forks of shell.c.
ForkPlaces(a, mine, childs, back) ==
    \/ a = "prompt" /\ mine = "wait" /\ childs = "exec" /\ back = "prompt"
    \/ a = "fork" /\ mine = "wait file" /\ childs = "redirect" /\ back = "wait file"
    \/ a = "fork first" /\ mine = "fork second" /\ childs = "first" /\ back = "fork second"
    \/ a = "fork second" /\ mine = "stdin back" /\ childs = "second" /\ back = "stdin back"

\* A child has copies of its father's descriptors, and what its father's
\* streams lean on is with somebody who is stuck.
LEMMA ForkStep ==
    ASSUME ShellNow, NEW p \in Processes, NEW mine, NEW childs, NEW back,
           ForkPlaces(at[p], mine, childs, back), fork(p, mine, childs, back)
    PROVE  ShellNow'
<1>1. PICK c \in Processes :
        /\ at[c] = "free"
        /\ ForkFiles(p, c)
        /\ at' = [at EXCEPT ![p] = mine, ![c] = childs]
        /\ resume' = [resume EXCEPT ![c] = back]
        /\ local' = [local EXCEPT ![c] = local[p]]
        /\ father' = [father EXCEPT ![c] = p]
  BY DEF fork
<1>2. c # p
  BY <1>1 DEF ForkPlaces
<1>3. fd[c] = [d \in Fds |-> -1] /\ call[c] = NoCall /\ call' = call /\ father[c] = None
  BY <1>1 DEF ShellNow, Placed, PlacedAt, InCall, ForkFiles
<1>4. FilesNow' /\ fd' = [fd EXCEPT ![c] = fd[p]]
  BY <1>1, <1>2, <1>3, ForkAllFiles DEF ShellNow
<1>5. fd \in [Processes -> FdMap] /\ STD_FD \subseteq Fds
  BY StdFds DEF ShellNow, FilesNow, FilesInv, Typed
<1>6. /\ at'[p] = mine /\ at'[c] = childs
      /\ resume'[c] = back /\ local'[c] = local[p] /\ father'[c] = p /\ fd'[c] = fd[p]
      /\ resume'[p] = resume[p] /\ local'[p] = local[p] /\ father'[p] = father[p] /\ fd'[p] = fd[p]
  BY <1>1, <1>2, <1>4, <1>5 DEF ShellNow, ShellTyped
<1>7. \A q \in Processes \ {p, c} : Still(q)
  BY <1>1, <1>2, <1>3, <1>4, <1>5 DEF ShellNow, ShellTyped, Still
<1>8. ShellTyped'
  <2>1. mine \in Places /\ childs \in Places /\ back \in {"prompt", "wait file", "fork second", "stdin back"}
    BY DEF ForkPlaces, Places, ShellPlaces, Keepers, Working, Streams
  <2>2. QED
    BY <1>1, <2>1 DEF ShellNow, ShellTyped
<1>9. \A q \in Processes : Placed(q)' /\ (at'[q] = "free" => father'[q] = None)
  <2> SUFFICES ASSUME NEW q \in Processes PROVE Placed(q)' /\ (at'[q] = "free" => father'[q] = None)
    OBVIOUS
  <2>1. Placed(q) /\ (at[q] = "free" => father[q] = None) /\ Placed(p)
    BY DEF ShellNow
  <2>2. CASE q \notin {p, c}
    BY <1>7, <2>1, <2>2, StillSame DEF Still
  <2>3. call[p] = NoCall
    BY <2>1 DEF ForkPlaces, Placed, PlacedAt, InCall
  <2>4. PICK a, l, f, r : a = at[p] /\ l = local[p] /\ f = fd[p] /\ r = resume[p]
    OBVIOUS
  <2>5. PlacedAt(a, r, l, f, NoCall)
    BY <2>1, <2>3, <2>4 DEF Placed
  <2>6. PlacedAt(mine, r, l, f, NoCall)
    BY <2>4, <2>5 DEF ForkPlaces, PlacedAt, Working, InCall, PipePlaces, Streams
  <2>7. PlacedAt(childs, back, l, f, NoCall)
    BY <2>4, <2>5 DEF ForkPlaces, PlacedAt, Working, InCall, PipePlaces, Streams, NoCall
  <2>8. Placed(p)' /\ at'[p] # "free"
    BY <1>3, <1>6, <2>3, <2>4, <2>6 DEF Placed, ForkPlaces
  <2>9. Placed(c)' /\ at'[c] # "free"
    BY <1>3, <1>6, <2>4, <2>7 DEF Placed, ForkPlaces
  <2>10. QED
    BY <2>2, <2>8, <2>9
<1>10. /\ c \notin Children(p) /\ Children(p)' = Children(p) \cup {c}
       /\ Children(c) = {} /\ Children(c)' = {}
       /\ \A q \in Processes \ {p} : Children(q)' = Children(q)
  <2>1. Children(c) = {}
    BY <1>1 DEF ShellNow, FewChildren, OneChild, Streams
  <2>2. c \notin Children(p)
    BY <1>3, ShellAssumption DEF Children
  <2>3. father'[c] = p /\ \A q \in Processes \ {c} : father'[q] = father[q]
    BY <1>1 DEF ShellNow, ShellTyped
  <2>4. \A q \in Processes \ {p} : Children(q)' = Children(q)
    BY <1>3, <2>3, ShellAssumption DEF Children
  <2>5. Children(p)' = Children(p) \cup {c}
    BY <2>3 DEF Children
  <2>6. QED
    BY <1>2, <2>1, <2>2, <2>4, <2>5
<1>11. FewChildren'
  <2> SUFFICES ASSUME NEW q \in Processes
               PROVE  /\ at'[q] \notin OneChild \cup Streams => Children(q)' = {}
                      /\ at'[q] \in OneChild => AtMostOne(Children(q)')
                      /\ at'[q] \in Streams => AtMostTwo(Children(q)')
    BY DEF FewChildren
  <2>1. /\ at[q] \notin OneChild \cup Streams => Children(q) = {}
        /\ at[q] \in OneChild => AtMostOne(Children(q))
        /\ at[q] \in Streams => AtMostTwo(Children(q))
    BY DEF ShellNow, FewChildren
  <2>2. CASE q \notin {p, c}
    BY <1>7, <1>10, <2>1, <2>2 DEF Still
  <2>3. CASE q = c
    BY <1>10, <2>3 DEF AtMostOne, AtMostTwo
  <2>4. CASE q = p /\ at[p] = "fork second"
    <3>1. at'[p] = "stdin back"
      BY <1>6, <2>4 DEF ForkPlaces
    <3>2. AtMostOne(Children(p))
      BY <2>1, <2>4 DEF OneChild
    <3>3. AtMostTwo(Children(p) \cup {c})
      BY <3>2 DEF AtMostOne, AtMostTwo
    <3>4. QED
      BY <1>10, <2>4, <3>1, <3>3 DEF OneChild, Streams
  <2>5. CASE q = p /\ at[p] # "fork second"
    <3>1. at[p] \in {"prompt", "fork", "fork first"} /\ at'[p] \in OneChild
      BY <1>6, <2>5 DEF ForkPlaces, OneChild
    <3>2. Children(p) = {}
      BY <2>1, <2>5, <3>1 DEF OneChild, Streams
    <3>3. AtMostOne(Children(p)')
      BY <1>10, <3>2 DEF AtMostOne
    <3>4. QED
      BY <2>5, <3>1, <3>3 DEF OneChild, Streams
  <2>6. QED
    BY <2>2, <2>3, <2>4, <2>5
<1>12. Redirected'
  <2> SUFFICES ASSUME NEW q \in Processes, Redirecting(q)'
               PROVE  /\ father'[q] \in Processes /\ at'[father'[q]] = "wait file"
                      /\ Own(q, fd[father[q]][local[father[q]][2]])'
    BY DEF Redirected
  <2>1. q # p
    BY <1>6 DEF Redirecting, ForkPlaces, Working
  <2>2. CASE q = c
    <3>1. at[p] = "fork" /\ mine = "wait file" /\ childs = "redirect" /\ back = "wait file"
      BY <1>6, <2>2 DEF Redirecting, ForkPlaces, Working
    <3>2. local[p][2] \in Given
      BY <3>1 DEF ShellNow, Placed, PlacedAt
    <3>3. Mine(back, local[p]) = local[p][2]
      BY <3>1 DEF Mine
    <3>4. Own(c, fd[p][local[p][2]])'
      BY <1>6, <3>1, <3>2, <3>3 DEF Own, Has
    <3>5. QED
      BY <1>6, <2>2, <3>1, <3>4
  <2>3. CASE q # c
    <3>1. Still(q)
      BY <1>7, <2>1, <2>3
    <3>2. Redirecting(q)
      BY <3>1, StillSame
    <3>3. PICK h \in Processes : h = father[q] /\ at[h] = "wait file" /\ Own(q, fd[h][local[h][2]])
      BY <3>2 DEF ShellNow, Redirected
    <3>4. h \notin {p, c}
      BY <1>1, <3>3 DEF ForkPlaces
    <3>5. Still(h)
      BY <1>7, <3>4
    <3>6. PICK g : g = fd[h][local[h][2]]
      OBVIOUS
    <3>7. Own(q, g)'
      BY <3>1, <3>3, <3>6, StillSame
    <3>8. father'[q] = h /\ at'[h] = "wait file" /\ g = fd'[h][local'[h][2]]
      BY <3>1, <3>3, <3>5, <3>6 DEF Still
    <3>9. QED
      BY <3>7, <3>8
  <2>4. QED
    BY <2>2, <2>3
<1>13. ASSUME NEW h \in Processes, Stuck(h)
       PROVE  Stuck(h)' /\ fd'[h] = fd[h]
  <2>1. h # c
    BY <1>1, <1>13 DEF Stuck, Streams
  <2>2. CASE h = p
    <3>1. at[p] = "fork second" /\ Children(p) = {}
      BY <1>13, <2>2 DEF Stuck, Streams, ForkPlaces
    <3>2. at'[p] \in Streams /\ AtMostOne(Children(p)')
      BY <1>6, <1>10, <3>1 DEF Streams, AtMostOne, ForkPlaces
    <3>3. QED
      BY <1>6, <2>2, <3>2 DEF Stuck
  <2>3. CASE h # p
    <3>1. Still(h) /\ Children(h)' = Children(h)
      BY <1>7, <1>10, <2>1, <2>3
    <3>2. \A k \in Children(h) : at[k] \in ShellPlaces => at'[k] \in ShellPlaces
      <4> SUFFICES ASSUME NEW k \in Children(h), at[k] \in ShellPlaces PROVE at'[k] \in ShellPlaces
        OBVIOUS
      <4>1. k \in Processes /\ k # c
        BY <1>1 DEF Children, ShellPlaces, Streams
      <4>2. CASE k = p
        BY <1>6, <4>2 DEF ForkPlaces, ShellPlaces, Streams
      <4>3. CASE k # p
        BY <1>7, <4>1, <4>3 DEF Still
      <4>4. QED
        BY <4>2, <4>3
    <3>3. QED
      BY <1>13, <3>1, <3>2 DEF Stuck, Still
  <2>4. QED
    BY <2>2, <2>3
<1>14. ASSUME NEW g, Held(g) PROVE Held(g)'
  BY <1>13, <1>14 DEF Held
<1>15. StdKept'
  <2> SUFFICES ASSUME NEW q \in Processes, NEW d \in STD_FD, NEW g, g = fd'[q][d], g # -1
               PROVE  Held(g)' \/ (at'[q] \in Keepers /\ Own(q, g)')
    BY DEF StdKept, Leans
  <2>1. CASE q \in {p, c}
    <3>1. g = fd[p][d] /\ at[p] \notin Keepers
      BY <1>6, <2>1 DEF ForkPlaces, Keepers, Working
    <3>2. Held(g)
      BY <3>1 DEF ShellNow, StdKept, Leans
    <3>3. QED
      BY <1>14, <3>2
  <2>2. CASE q \notin {p, c}
    <3>1. fd[q][d] = g /\ at'[q] = at[q] /\ Own(q, g)' = Own(q, g)
      BY <1>7, <2>2, StillSame DEF Still
    <3>2. Held(g) \/ (at[q] \in Keepers /\ Own(q, g))
      BY <3>1 DEF ShellNow, StdKept, Leans
    <3>3. QED
      BY <1>14, <3>1, <3>2
  <2>3. QED
    BY <2>1, <2>2
<1>16. QED
  BY <1>4, <1>8, <1>9, <1>11, <1>12, <1>15 DEF ShellNow

\* A child that has exited leans on nothing, and nothing leans on its father.
LEMMA ReapStep ==
    ASSUME ShellNow, NEW p \in Processes, NEW place, Reap(p, place),
           \/ at[p] = "wait" /\ place = "prompt"
           \/ at[p] = "wait file" /\ place = "close"
           \/ at[p] = "wait both" /\ place = "wait other"
           \/ at[p] = "wait other" /\ place = "pipe close"
    PROVE  ShellNow'
<1>1. PICK c \in Children(p) :
          /\ at[c] = "exited"
          /\ at' = [at EXCEPT ![p] = place, ![c] = "free"]
          /\ father' = [father EXCEPT ![c] = None]
          /\ resume' = [resume EXCEPT ![c] = "prompt"]
          /\ local' = [local EXCEPT ![c] = <<-1, -1>>]
  BY DEF Reap
<1>2. c \in Processes /\ c # p /\ father[c] = p
  BY <1>1 DEF Children
<1>3. UNCHANGED filesVars
  BY DEF Reap
<1>4. FilesNow' /\ fd' = fd /\ call' = call
  <2>1. FilesNow
    BY DEF ShellNow
  <2>2. UNCHANGED <<GlobalFileTable, fd, inodes, workDir, entries, call, lost>>
    BY <1>3 DEF filesVars, tableVars
  <2>3. QED
    BY <2>1, <2>2, StillFiles
<1>5. fd \in [Processes -> FdMap] /\ STD_FD \subseteq Fds
  BY StdFds DEF ShellNow, FilesNow, FilesInv, Typed
<1>6. /\ at'[p] = place /\ at'[c] = "free"
      /\ resume'[c] = "prompt" /\ local'[c] = <<-1, -1>> /\ father'[c] = None
      /\ resume'[p] = resume[p] /\ local'[p] = local[p] /\ father'[p] = father[p]
  BY <1>1, <1>2 DEF ShellNow, ShellTyped
<1>7. \A q \in Processes \ {p, c} : Still(q)
  BY <1>1, <1>2, <1>4 DEF ShellNow, ShellTyped, Still
<1>8. ShellTyped'
  <2>1. place \in Places /\ "free" \in Places
    BY DEF Places, ShellPlaces, Keepers, Working, Streams
  <2>2. <<-1, -1>> \in (Fds \cup {-1}) \X (Fds \cup {-1})
    OBVIOUS
  <2>3. QED
    BY <1>1, <2>1, <2>2 DEF ShellNow, ShellTyped
<1>9. \A q \in Processes : Placed(q)' /\ (at'[q] = "free" => father'[q] = None)
  <2> SUFFICES ASSUME NEW q \in Processes PROVE Placed(q)' /\ (at'[q] = "free" => father'[q] = None)
    OBVIOUS
  <2>1. Placed(q) /\ (at[q] = "free" => father[q] = None) /\ Placed(p) /\ Placed(c)
    BY <1>2 DEF ShellNow
  <2>2. CASE q \notin {p, c}
    BY <1>7, <2>1, <2>2, StillSame DEF Still
  <2>3. call[p] = NoCall /\ call[c] = NoCall /\ fd[c] = [d \in Fds |-> -1]
    BY <1>1, <2>1 DEF Placed, PlacedAt, InCall
  <2>4. PICK a, l, f, r : a = at[p] /\ l = local[p] /\ f = fd[p] /\ r = resume[p]
    OBVIOUS
  <2>5. PlacedAt(a, r, l, f, NoCall)
    BY <2>1, <2>3, <2>4 DEF Placed
  <2>6. PlacedAt(place, r, l, f, NoCall)
    BY <2>4, <2>5 DEF PlacedAt, Working, InCall, PipePlaces, Streams
  <2>7. PlacedAt("free", "prompt", <<-1, -1>>, [d \in Fds |-> -1], NoCall)
    BY DEF PlacedAt, Working, InCall, PipePlaces, Streams
  <2>8. Placed(p)' /\ at'[p] # "free"
    BY <1>4, <1>6, <2>3, <2>4, <2>6 DEF Placed
  <2>9. Placed(c)' /\ father'[c] = None
    BY <1>4, <1>6, <2>3, <2>7 DEF Placed
  <2>10. QED
    BY <2>2, <2>8, <2>9
<1>10. /\ Children(p)' = Children(p) \ {c}
       /\ \A q \in Processes \ {p} : Children(q)' = Children(q)
  <2>1. father'[c] = None /\ \A q \in Processes \ {c} : father'[q] = father[q]
    BY <1>1, <1>2 DEF ShellNow, ShellTyped
  <2>2. QED
    BY <1>2, <2>1, ShellAssumption DEF Children
<1>11. FewChildren'
  <2> SUFFICES ASSUME NEW q \in Processes
               PROVE  /\ at'[q] \notin OneChild \cup Streams => Children(q)' = {}
                      /\ at'[q] \in OneChild => AtMostOne(Children(q)')
                      /\ at'[q] \in Streams => AtMostTwo(Children(q)')
    BY DEF FewChildren
  <2>1. /\ at[q] \notin OneChild \cup Streams => Children(q) = {}
        /\ at[q] \in OneChild => AtMostOne(Children(q))
        /\ at[q] \in Streams => AtMostTwo(Children(q))
    BY DEF ShellNow, FewChildren
  <2>2. CASE q \notin {p, c}
    BY <1>7, <1>10, <2>1, <2>2 DEF Still
  <2>3. CASE q = c
    <3>1. Children(c)' = {}
      BY <1>1, <1>2, <1>10, <2>1, <2>3 DEF OneChild, Streams
    <3>2. QED
      BY <2>3, <3>1 DEF AtMostOne, AtMostTwo
  <2>4. CASE q = p /\ at[p] = "wait both"
    <3>1. AtMostTwo(Children(p)) /\ at'[p] = "wait other"
      BY <1>6, <2>1, <2>4 DEF Streams
    <3>2. AtMostOne(Children(p) \ {c})
      BY <1>1, <3>1 DEF AtMostOne, AtMostTwo
    <3>3. QED
      BY <1>10, <2>4, <3>1, <3>2 DEF OneChild, Streams
  <2>5. CASE q = p /\ at[p] # "wait both"
    <3>1. AtMostOne(Children(p)) /\ at'[p] \notin OneChild \cup Streams
      BY <1>6, <2>1, <2>5 DEF OneChild, Streams
    <3>2. Children(p)' = {}
      BY <1>1, <1>10, <3>1 DEF AtMostOne
    <3>3. QED
      BY <2>5, <3>1, <3>2
  <2>6. QED
    BY <2>2, <2>3, <2>4, <2>5
<1>12. Redirected'
  <2> SUFFICES ASSUME NEW q \in Processes, Redirecting(q)'
               PROVE  /\ father'[q] \in Processes /\ at'[father'[q]] = "wait file"
                      /\ Own(q, fd[father[q]][local[father[q]][2]])'
    BY DEF Redirected
  <2>1. q \notin {p, c}
    BY <1>6 DEF Redirecting, Working
  <2>2. Still(q)
    BY <1>7, <2>1
  <2>3. Redirecting(q)
    BY <2>2, StillSame
  <2>4. PICK h \in Processes : h = father[q] /\ at[h] = "wait file" /\ Own(q, fd[h][local[h][2]])
    BY <2>3 DEF ShellNow, Redirected
  <2>5. h # c
    BY <1>1, <2>4
  <2>6. h # p
    <3> SUFFICES ASSUME h = p PROVE FALSE
      OBVIOUS
    <3>1. AtMostOne(Children(p))
      BY <2>4 DEF ShellNow, FewChildren, OneChild
    <3>2. q \in Children(p) /\ q # c
      BY <2>1, <2>4 DEF Children
    <3>3. QED
      BY <1>1, <3>1, <3>2 DEF AtMostOne
  <2>7. Still(h)
    BY <1>7, <2>5, <2>6
  <2>8. PICK g : g = fd[h][local[h][2]]
    OBVIOUS
  <2>9. Own(q, g)'
    BY <2>2, <2>4, <2>8, StillSame
  <2>10. father'[q] = h /\ at'[h] = "wait file" /\ g = fd'[h][local'[h][2]]
    BY <2>2, <2>4, <2>7, <2>8 DEF Still
  <2>11. QED
    BY <2>9, <2>10
<1>13. ASSUME NEW h \in Processes, Stuck(h)
       PROVE  Stuck(h)'
  <2>1. h # c
    BY <1>1, <1>13 DEF Stuck, Streams
  <2>2. CASE h = p
    <3>1. at[p] # "wait other"
      BY <1>1, <1>13, <2>2 DEF Stuck, Streams
    <3>2. at[p] # "wait file"
      <4> SUFFICES ASSUME at[p] = "wait file" PROVE FALSE
        OBVIOUS
      <4>1. PICK k \in Children(p) : at[k] \in ShellPlaces
        BY <1>13, <2>2 DEF Stuck, Streams
      <4>2. k = c
        BY <1>1 DEF ShellNow, FewChildren, OneChild, AtMostOne
      <4>3. QED
        BY <1>1, <4>1, <4>2 DEF ShellPlaces, Streams
    <3>3. at[p] = "wait both" /\ AtMostOne(Children(p))
      BY <1>13, <2>2, <3>1, <3>2 DEF Stuck, Streams
    <3>4. Children(p)' = {} /\ at'[p] = "wait other"
      BY <1>1, <1>6, <1>10, <3>3 DEF AtMostOne
    <3>5. QED
      BY <2>2, <3>4 DEF Stuck
  <2>3. CASE h # p
    <3>1. Still(h) /\ Children(h)' = Children(h)
      BY <1>7, <1>10, <2>1, <2>3
    <3>2. \A k \in Children(h) : at[k] \in ShellPlaces => at'[k] \in ShellPlaces
      <4> SUFFICES ASSUME NEW k \in Children(h), at[k] \in ShellPlaces PROVE at'[k] \in ShellPlaces
        OBVIOUS
      <4>1. k \in Processes /\ k # c
        BY <1>1 DEF Children, ShellPlaces, Streams
      <4>2. CASE k = p
        BY <1>6, <4>2 DEF ShellPlaces, Streams
      <4>3. CASE k # p
        BY <1>7, <4>1, <4>3 DEF Still
      <4>4. QED
        BY <4>2, <4>3
    <3>3. QED
      BY <1>13, <3>1, <3>2 DEF Stuck, Still
  <2>4. QED
    BY <2>2, <2>3
<1>14. ASSUME NEW g, Held(g) PROVE Held(g)'
  BY <1>4, <1>13, <1>14 DEF Held
<1>15. StdKept'
  <2> SUFFICES ASSUME NEW q \in Processes, NEW d \in STD_FD, NEW g, g = fd[q][d], g # -1
               PROVE  Held(g)' \/ (at'[q] \in Keepers /\ Own(q, g)')
    BY <1>4 DEF StdKept, Leans
  <2>1. q # c
    <3>1. fd[c] = [e \in Fds |-> -1] /\ d \in Fds
      BY <1>1, <1>2, <1>5 DEF ShellNow, Placed, PlacedAt
    <3>2. QED
      BY <3>1
  <2>2. Held(g) \/ (at[q] \in Keepers /\ Own(q, g))
    BY DEF ShellNow, StdKept, Leans
  <2>3. CASE q = p
    BY <1>14, <2>2, <2>3 DEF Keepers, Working
  <2>4. CASE q # p
    <3>1. at'[q] = at[q] /\ Own(q, g)' = Own(q, g)
      BY <1>7, <2>1, <2>4, StillSame DEF Still
    <3>2. QED
      BY <1>14, <2>2, <3>1
  <2>5. QED
    BY <2>3, <2>4
<1>16. QED
  BY <1>4, <1>8, <1>9, <1>11, <1>12, <1>15 DEF ShellNow

-----------------------------------------------------------------------------
(* The steps of one process alone, on the values of what it has *)

ResumePlaces == {"prompt", "wait file", "fork second", "stdin back"}
Pairs == (Fds \cup {-1}) \X (Fds \cup {-1})

\* A child of a redirection still has the descriptor that it was made with.
Backed(a, r, l, f, k) ==
    a \in Working /\ r = "wait file" => \E g \in Slots : Has(a, r, l, f, k, g)

Lawful(a, b, r, l, m, f, h, k, j) ==
    /\ b \in Places
    /\ PlacedAt(b, r, m, h, j)
    /\ Moved(a, b, r, l, m, f, h, k, j)

\* Only the call goes on.
IdleMove(a, b, r, k, j) ==
    \/ a = "prompt" /\ b = "buildin"
    \/ a = "exec" /\ b = "exit"
    \/ a = "exec" /\ b = "load" /\ j.at = "search" /\ j.for = "read"
    \/ a = "program" /\ b = "program open"
    \/ /\ j = NoCall
       /\ \/ a = "buildin" /\ b = "prompt"
          \/ a = "exit" /\ b = "exit now"
          \/ a = "program open" /\ b = "program"
          \/ a \in {"exec", "load"} /\ b = r
          \/ a \in {"prompt", "wait both", "wait other"} /\ b = a
          \/ a = "wait file" /\ b = "close"

LEMMA LawfulIdle ==
    ASSUME NEW a, NEW b, NEW r \in ResumePlaces, NEW l \in Pairs, NEW f \in FdMap, NEW k, NEW j,
           PlacedAt(a, r, l, f, k), Backed(a, r, l, f, k), IdleMove(a, b, r, k, j)
    PROVE  Lawful(a, b, r, l, l, f, f, k, j)
<1>1. b \in Places
  BY DEF IdleMove, ResumePlaces, Places, ShellPlaces, Keepers, Working, Streams
<1>2. PlacedAt(b, r, l, f, j)
  <2>1. CASE a \in {"exec", "load"} /\ b = r
    <3>1. CASE r = "wait file"
      <4>1. l[2] \in Given /\ f[l[2]] \in Slots
        BY <2>1, <3>1 DEF Backed, Has, Mine, Working
      <4>2. QED
        BY <2>1, <3>1, <4>1 DEF PlacedAt, IdleMove, Working, InCall, PipePlaces, Streams, NoCall
    <3>2. CASE r # "wait file"
      BY <2>1, <3>2 DEF PlacedAt, IdleMove, ResumePlaces, Working, InCall, PipePlaces, Streams, NoCall
    <3>3. QED
      BY <3>1, <3>2
  <2>2. CASE ~(a \in {"exec", "load"} /\ b = r)
    BY <2>2 DEF PlacedAt, IdleMove, Working, InCall, PipePlaces, Streams, NoCall
  <2>3. QED
    BY <2>1, <2>2
<1>3. \A g \in Slots : a \in Keepers /\ Has(a, r, l, f, k, g) /\ b \in Keepers => Has(b, r, l, f, j, g)
  BY DEF IdleMove, Has, NoCall, Keepers, Working, ResumePlaces
<1>4. \A g \in Slots : Has(a, r, l, f, k, g) => f[Mine(r, l)] = g
  BY DEF Has
<1>5. a \in Keepers \cup {"redirect"} => b \in Keepers \/ (a \in Working /\ b = r)
  BY DEF IdleMove, Keepers, Working
<1>6. a # "redirect"
  BY DEF IdleMove
<1>7. QED
  <2>1. /\ a \in ShellPlaces => b \in ShellPlaces
        /\ a \in {"wait", "fork second", "wait other"} => b = a
        /\ a \in Streams => b \in Streams
        /\ b \notin {"free", "redirect"}
        /\ b \in Working /\ r = "wait file" => a \in Working \cup {"redirect"}
    BY DEF IdleMove, ResumePlaces, ShellPlaces, Streams, Working
  <2>2. Moved(a, b, r, l, l, f, f, k, j)
    BY <1>3, <1>4, <1>5, <1>6, <2>1 DEF Moved
  <2>3. QED
    BY <1>1, <1>2, <2>2 DEF Lawful

\* A file is opened to send the output or the input to; and the end of it.
OpenMove(a, b, l, m, k, j) ==
    \/ /\ a = "prompt" /\ b = "open"
       /\ j.at = "search" /\ j.for \in {"read", "write", "create"}
    \/ a = "open" /\ b = "prompt" /\ m = <<-1, -1>> /\ j = NoCall
    \/ /\ a = "open" /\ b \in {"fork", "close"} /\ j = NoCall
       /\ k.at = "done" /\ k.slot # -1 /\ m[2] = k.slot

LEMMA LawfulOpen ==
    ASSUME NEW a, NEW b, NEW r \in ResumePlaces, NEW l, NEW m, NEW f \in FdMap, NEW k, NEW j,
           PlacedAt(a, r, l, f, k), OpenMove(a, b, l, m, k, j)
    PROVE  Lawful(a, b, r, l, m, f, f, k, j)
<1>1. b \in Places
  BY DEF OpenMove, Places, ShellPlaces
<1>2. PlacedAt(b, r, m, f, j)
  BY DEF PlacedAt, OpenMove, Working, InCall, PipePlaces, Streams, NoCall
<1>3. Moved(a, b, r, l, m, f, f, k, j)
  BY DEF OpenMove, Moved, ShellPlaces, Keepers, Working, Streams
<1>4. QED
  BY <1>1, <1>2, <1>3 DEF Lawful

\* The descriptor e is closed.
CloseMove(a, b, r, l, m, k, e) ==
    \/ a = "close" /\ b = "prompt" /\ e = l[2] /\ m = <<-1, -1>>
    \/ a = "first close" /\ b = "exec" /\ e = l[1] /\ m = l
    \/ a = "second close" /\ b = "exec" /\ e = l[2] /\ m = l
    \/ a = "pipe close" /\ b = "pipe close other" /\ e = l[1] /\ m = l
    \/ a = "pipe close other" /\ b = "prompt" /\ e = l[2] /\ m = <<-1, -1>>
    \/ a = "load" /\ b \in {"program", r} /\ k.at = "done" /\ e = k.slot /\ e # -1 /\ m = l

LEMMA LawfulClose ==
    ASSUME NEW a, NEW b, NEW r \in ResumePlaces, NEW l \in Pairs, NEW m, NEW f \in FdMap, NEW k,
           NEW e, PlacedAt(a, r, l, f, k), Backed(a, r, l, f, k), CloseMove(a, b, r, l, m, k, e)
    PROVE  e \in Given /\ Lawful(a, b, r, l, m, f, [f EXCEPT ![e] = -1], k, NoCall)
<1>1. e \in Given
  BY DEF PlacedAt, CloseMove, PipePlaces
<1>2. PICK h : h = [f EXCEPT ![e] = -1]
  OBVIOUS
<1>3. /\ e \in Fds /\ e \notin STD_FD
      /\ h[e] = -1 /\ \A d \in Fds \ {e} : h[d] = f[d]
      /\ STD_FD \subseteq Fds /\ Given \subseteq Fds
  BY <1>1, <1>2, FilesAssumption DEF Given, Fds, STD_FD, FdMap
<1>4. b \in Places
  BY DEF CloseMove, ResumePlaces, Places, ShellPlaces, Keepers, Working, Streams
<1>5. ASSUME NEW g \in Slots, Has(a, r, l, f, k, g), a \in Keepers
      PROVE  Mine(r, l) \in Given /\ Mine(r, l) # e /\ h[Mine(r, l)] = g
  <2>1. Mine(r, l) \in Given /\ f[Mine(r, l)] = g
    BY <1>5 DEF Has
  <2>2. Mine(r, l) # e
    BY <1>5 DEF Has, Mine, CloseMove, PlacedAt, PipePlaces, Keepers, Working
  <2>3. QED
    BY <1>3, <2>1, <2>2
<1>6. PlacedAt(b, r, m, h, NoCall)
  <2>1. CASE a = "load" /\ b = r /\ r = "wait file"
    <3>1. PICK g \in Slots : Has(a, r, l, f, k, g)
      BY <2>1 DEF Backed, Working
    <3>2. l[2] \in Given /\ h[l[2]] = g /\ m = l
      BY <1>5, <2>1, <3>1 DEF Mine, Keepers, Working, CloseMove
    <3>3. QED
      BY <2>1, <3>2 DEF PlacedAt, Working, InCall, PipePlaces, Streams
  <2>2. CASE ~(a = "load" /\ b = r /\ r = "wait file")
    BY <2>2 DEF PlacedAt, CloseMove, ResumePlaces, Working, InCall, PipePlaces, Streams
  <2>3. QED
    BY <2>1, <2>2
<1>7. Moved(a, b, r, l, m, f, h, k, NoCall)
  <2>1. /\ a \in ShellPlaces => b \in ShellPlaces
        /\ a \notin {"wait", "fork second", "wait other", "redirect"} \cup Streams
        /\ b \notin {"free", "redirect"}
        /\ b \in Working /\ r = "wait file" => a \in Working
    BY DEF CloseMove, PlacedAt, ResumePlaces, ShellPlaces, Streams, Working
  <2>2. \A d \in STD_FD : h[d] = f[d]
    BY <1>3
  <2>3. a \in Keepers => m = l /\ (b \in Keepers \/ (a \in Working /\ b = r))
    BY DEF CloseMove, Keepers, Working
  <2>4. ASSUME NEW g \in Slots, Has(a, r, l, f, k, g), a \in Keepers, b \in Keepers
        PROVE  Has(b, r, m, h, NoCall, g)
    BY <1>5, <2>3, <2>4 DEF Has, NoCall
  <2>5. QED
    BY <1>5, <2>1, <2>2, <2>3, <2>4 DEF Moved
<1>8. QED
  BY <1>1, <1>2, <1>4, <1>6, <1>7 DEF Lawful

\* A standard stream takes what another descriptor leads to, or is set back.
RedirectMove(a, b, l, std, new) ==
    \/ a = "redirect" /\ b = "exec" /\ new = l[2]
    \/ a = "first" /\ b = "first close" /\ new = l[2]
    \/ a = "second" /\ b = "second close" /\ new = l[1]
    \/ a = "stdin back" /\ b = "stdout back" /\ new = -1
    \/ a = "stdout back" /\ b = "wait both" /\ new = -1

LEMMA LawfulRedirect ==
    ASSUME NEW a, NEW b, NEW r \in ResumePlaces, NEW l \in Pairs, NEW f \in FdMap,
           NEW std \in STD_FD, NEW new, RedirectMove(a, b, l, std, new),
           PlacedAt(a, r, l, f, NoCall), a = "redirect" => \E g \in Slots : Has(a, r, l, f, NoCall, g),
           NEW h, h = [f EXCEPT ![std] = IF new = -1 THEN -1 ELSE f[new]]
    PROVE  Lawful(a, b, r, l, l, f, h, NoCall, NoCall)
<1>1. /\ \A d \in Given : h[d] = f[d]
      /\ h[std] = IF new = -1 THEN -1 ELSE f[new]
      /\ \A d \in STD_FD \ {std} : h[d] = f[d]
  BY FilesAssumption DEF Given, Fds, STD_FD, FdMap
<1>2. b \in Places
  BY DEF RedirectMove, Places, ShellPlaces, Keepers, Working, Streams
<1>3. PlacedAt(b, r, l, h, NoCall)
  BY DEF PlacedAt, RedirectMove, Working, InCall, PipePlaces, Streams
<1>4. \A g : Has(a, r, l, f, NoCall, g) => Has(b, r, l, h, NoCall, g)
  BY <1>1 DEF Has, NoCall
<1>5. CASE a \in {"redirect", "first", "second"}
  <2>1. new = Mine(r, l) /\ new \in Given
    BY <1>5 DEF RedirectMove, PlacedAt, Mine, PipePlaces, Has
  <2>2. new # -1
    BY <2>1 DEF Given, Fds
  <2>3. Has(b, r, l, h, NoCall, h[std])
    BY <1>1, <2>1, <2>2 DEF Has, NoCall
  <2>4. /\ b \in Keepers /\ a \notin ShellPlaces /\ a \notin Streams /\ a \notin Keepers
        /\ a \notin {"wait", "fork second", "wait other"} /\ b \notin {"free", "redirect"}
        /\ b \in Working => a = "redirect"
    BY <1>5 DEF RedirectMove, Keepers, ShellPlaces, Streams, Working
  <2>5. Moved(a, b, r, l, l, f, h, NoCall, NoCall)
    BY <1>1, <1>4, <2>3, <2>4 DEF Moved
  <2>6. QED
    BY <1>2, <1>3, <2>5 DEF Lawful
<1>6. CASE a \in {"stdin back", "stdout back"}
  <2>1. h[std] = -1
    BY <1>1, <1>6 DEF RedirectMove
  <2>2. a \in Streams /\ b \in Streams /\ b \in ShellPlaces /\ a \notin Keepers \cup {"redirect"}
    BY <1>6 DEF RedirectMove, Streams, ShellPlaces, Keepers, Working
  <2>3. /\ a \notin {"wait", "fork second", "wait other"} /\ b \notin {"free", "redirect"}
        /\ b \notin Working
    BY <1>6, <2>2 DEF Streams, Working
  <2>4. Moved(a, b, r, l, l, f, h, NoCall, NoCall)
    BY <1>1, <2>1, <2>2, <2>3 DEF Moved
  <2>5. QED
    BY <1>2, <1>3, <2>4 DEF Lawful
<1>7. QED
  BY <1>5, <1>6 DEF RedirectMove

\* Everything is closed at the end.
LEMMA LawfulExit ==
    ASSUME NEW a, NEW r, NEW l, NEW f, NEW h, h = [d \in Fds |-> -1],
           a \in {"exec", "exit now", "program"}, PlacedAt(a, r, l, f, NoCall)
    PROVE  Lawful(a, "exited", r, l, l, f, h, NoCall, NoCall)
<1>1. "exited" \in Places
  BY DEF Places
<1>2. PlacedAt("exited", r, l, h, NoCall)
  BY DEF PlacedAt, Working, InCall, PipePlaces, Streams
<1>3. \A d \in STD_FD : h[d] = -1
  BY StdFds
<1>4. /\ a \notin ShellPlaces /\ a \notin Streams
      /\ a \notin {"wait", "fork second", "wait other"} /\ "exited" \notin Working
  BY DEF ShellPlaces, Streams, Working
<1>5. Moved(a, "exited", r, l, l, f, h, NoCall, NoCall)
  BY <1>3, <1>4 DEF Moved
<1>6. QED
  BY <1>1, <1>2, <1>5 DEF Lawful

\* The two descriptors of a pipe are taken.
LEMMA LawfulPipe ==
    ASSUME NEW b, NEW r \in ResumePlaces, NEW l \in Pairs, NEW m, NEW f \in FdMap, NEW h,
           NEW x \in Given, NEW y \in Given, x # y, NEW s \in Slots,
           h = [[f EXCEPT ![x] = s] EXCEPT ![y] = s],
           \/ b = "prompt" /\ m = l
           \/ b = "fork first" /\ m = <<x, y>>,
           PlacedAt("prompt", r, l, f, NoCall)
    PROVE  Lawful("prompt", b, r, l, m, f, h, NoCall, NoCall)
<1>1. b \in Places
  BY DEF Places, ShellPlaces
<1>2. PlacedAt(b, r, m, h, NoCall)
  <2>1. CASE b = "prompt" /\ m = l
    BY <2>1 DEF PlacedAt, Working, InCall, PipePlaces, Streams
  <2>2. CASE b = "fork first" /\ m = <<x, y>>
    <3>1. m[1] = x /\ m[2] = y
      BY <2>2, PairParts
    <3>2. QED
      BY <2>2, <3>1 DEF PlacedAt, Working, InCall, PipePlaces, Streams
  <2>3. QED
    BY <2>1, <2>2
<1>3. \A d \in STD_FD : h[d] = f[d]
  BY StdFds DEF FdMap
<1>4. Moved("prompt", b, r, l, m, f, h, NoCall, NoCall)
  BY <1>3 DEF Moved, ShellPlaces, Streams, Working, Keepers
<1>5. QED
  BY <1>1, <1>2, <1>4 DEF Lawful

\* A call goes on when the disk has answered: it may have ended with a new
\* descriptor.
LEMMA LawfulDisk ==
    ASSUME NEW a, NEW r \in ResumePlaces, NEW l \in Pairs, NEW f \in FdMap, NEW h \in FdMap, NEW k, NEW j,
           a \in Places, PlacedAt(a, r, l, f, k), k # NoCall, j.for = k.for,
           \/ /\ h = f
              /\ j.at = "done" /\ k.for \in {"read", "write", "create"} => j.slot = -1
           \/ \E d \in Given :
                 /\ \A e \in Fds \ {d} : h[e] = f[e]
                 /\ f[d] = -1 /\ h[d] \in Slots /\ j.at = "done" /\ j.slot = d
    PROVE  Lawful(a, a, r, l, l, f, h, k, j)
<1>1. a \in InCall
  BY DEF PlacedAt
<1>2. ASSUME NEW e \in Given, f[e] \in Slots PROVE h[e] = f[e] /\ (j.at = "done" /\ a = "load" => j.slot # e)
  <2>1. f[e] # -1 /\ e # -1 /\ e \in Fds
    BY <1>2, StdFds, FilesAssumption
  <2>2. a = "load" => k.for \in {"read", "write", "create"}
    BY DEF PlacedAt
  <2>3. QED
    BY <2>1, <2>2
<1>3. \A d \in STD_FD : h[d] = f[d]
  BY StdFds
<1>4. a \in {"open", "load"} /\ j.at = "done" /\ j.slot # -1 => j.slot \in Given /\ h[j.slot] \in Slots
  <2>1. a \in {"open", "load"} => k.for \in {"read", "write", "create"}
    BY DEF PlacedAt
  <2>2. QED
    BY <2>1
<1>5. PlacedAt(a, r, l, h, j)
  BY <1>1, <1>4 DEF PlacedAt, Working, InCall, PipePlaces, Streams
<1>6. ASSUME NEW g \in Slots, Has(a, r, l, f, k, g) PROVE Has(a, r, l, h, j, g)
  <2>1. Mine(r, l) \in Given /\ f[Mine(r, l)] = g
    BY <1>6 DEF Has
  <2>2. h[Mine(r, l)] = g /\ (j.at = "done" /\ a = "load" => j.slot # Mine(r, l))
    BY <1>2, <2>1
  <2>3. QED
    BY <2>1, <2>2 DEF Has
<1>7. /\ a \notin {"wait", "fork second", "wait other", "free", "redirect"} \cup Streams
      /\ a \in Keepers \cup {"redirect"} => a \in Keepers
  BY <1>1 DEF InCall, Streams
<1>8. Moved(a, a, r, l, l, f, h, k, j)
  BY <1>3, <1>6, <1>7 DEF Moved
<1>9. QED
  BY <1>5, <1>8 DEF Lawful

-----------------------------------------------------------------------------
(* The steps of one process alone *)

\* p comes to the place b, with the locals m, the descriptors h, the call j.
Lands(p, b, m, h, j) ==
    /\ at' = [at EXCEPT ![p] = b] /\ local' = [local EXCEPT ![p] = m]
    /\ UNCHANGED <<resume, father>>
    /\ fd'[p] = h /\ call'[p] = j
    /\ \A q \in Processes \ {p} : fd'[q] = fd[q] /\ call'[q] = call[q]

LawfulNow(p, b, m, h, j) ==
    Lawful(at[p], b, resume[p], local[p], m, fd[p], h, call[p], j)

LEMMA SoloStep ==
    ASSUME ShellNow, NEW p \in Processes, FilesNow', NEW b, NEW m \in Pairs, NEW h, NEW j,
           Lands(p, b, m, h, j), LawfulNow(p, b, m, h, j),
           at[p] = "wait file" => Children(p) = {}
    PROVE  ShellNow'
<1>1. b \in Places /\ PlacedAt(b, resume[p], m, h, j)
  BY DEF LawfulNow, Lawful
<1>2. ShellTyped'
  BY <1>1 DEF ShellNow, ShellTyped, Lands, Pairs
<1>3. /\ at'[p] = b /\ local'[p] = m /\ fd'[p] = h /\ call'[p] = j
      /\ resume' = resume /\ father' = father
      /\ \A q \in Processes \ {p} : at'[q] = at[q] /\ local'[q] = local[q]
  BY DEF Lands, ShellNow, ShellTyped
<1>4. Alone(p)
  BY <1>3 DEF Alone, Lands
<1>5. MovedNow(p)
  BY <1>3 DEF MovedNow, LawfulNow, Lawful
<1>6. Placed(p)'
  BY <1>1, <1>3 DEF Placed
<1>7. QED
  BY <1>2, <1>4, <1>5, <1>6, AloneStep

\* What is known of a process before it moves.
LEMMA Before ==
    ASSUME ShellNow, NEW p \in Processes
    PROVE  /\ at[p] \in Places /\ resume[p] \in ResumePlaces /\ local[p] \in Pairs /\ fd[p] \in FdMap
           /\ PlacedAt(at[p], resume[p], local[p], fd[p], call[p])
           /\ Backed(at[p], resume[p], local[p], fd[p], call[p])
           /\ at[p] = "redirect" => \E g \in Slots : Has(at[p], resume[p], local[p], fd[p], call[p], g)
           /\ local = [local EXCEPT ![p] = local[p]] /\ call \in [Processes -> Calls]
           /\ fd \in [Processes -> FdMap] /\ FilesNow
<1>1. fd \in [Processes -> FdMap] /\ call \in [Processes -> Calls] /\ FilesNow
  BY DEF ShellNow, FilesNow, FilesInv, Typed, CallsSound
<1>2. /\ at[p] \in Places /\ resume[p] \in ResumePlaces /\ local[p] \in Pairs
      /\ local = [local EXCEPT ![p] = local[p]]
  BY DEF ShellNow, ShellTyped, ResumePlaces, Pairs
<1>3. PlacedAt(at[p], resume[p], local[p], fd[p], call[p])
  BY DEF ShellNow, Placed
<1>4. ASSUME Redirecting(p) PROVE \E g \in Slots : Own(p, g)
  <2>1. PICK h \in Processes : h = father[p] /\ at[h] = "wait file" /\ Own(p, fd[h][local[h][2]])
    BY <1>4 DEF ShellNow, Redirected
  <2>2. fd[h][local[h][2]] \in Slots
    BY <2>1 DEF ShellNow, Placed, PlacedAt
  <2>3. QED
    BY <2>1, <2>2
<1>5. QED
  BY <1>1, <1>2, <1>3, <1>4 DEF Own, Redirecting, Backed

LEMMA GotoLands ==
    ASSUME ShellNow, NEW p \in Processes, NEW b, Goto(p, b),
           NEW h, NEW j, fd'[p] = h, call'[p] = j,
           \A q \in Processes \ {p} : fd'[q] = fd[q] /\ call'[q] = call[q]
    PROVE  Lands(p, b, local[p], h, j) /\ local[p] \in Pairs
BY Before DEF Goto, Lands

LEMMA GotoWithLands ==
    ASSUME NEW p \in Processes, NEW b, NEW m, GotoWith(p, b, m),
           NEW h, NEW j, fd'[p] = h, call'[p] = j,
           \A q \in Processes \ {p} : fd'[q] = fd[q] /\ call'[q] = call[q]
    PROVE  Lands(p, b, m, h, j)
BY DEF GotoWith, Lands

LEMMA NoPair == <<-1, -1>> \in Pairs
BY DEF Pairs

\* A command of the shell: its call begins, or changes to the root directory.
LEMMA BuildinBegins ==
    ASSUME ShellNow, NEW p \in Processes, NEW place, ProcessBuildin_CMD(p, place), harm' = "none",
           \/ Ready(p, "prompt") /\ place = "buildin"
           \/ Ready(p, "exec") /\ place = "exit"
    PROVE  ShellNow'
<1>1. Goto(p, place) /\ call[p] = NoCall
  BY DEF ProcessBuildin_CMD, Ready
<1>2. PICK j : j = call'[p]
  OBVIOUS
<1>3. FilesNow' /\ fd' = fd /\ \A q \in Processes \ {p} : call'[q] = call[q]
  <2>1. ASSUME NEW for, NEW n, Search(p, for, n)
        PROVE  FilesNow' /\ fd' = fd /\ \A q \in Processes \ {p} : call'[q] = call[q]
    <3>1. FilesNow /\ call \in [Processes -> Calls]
      BY Before
    <3>2. QED
      BY <2>1, <3>1, SearchStep
  <2>2. ASSUME ChdirRoot(p)
        PROVE  FilesNow' /\ fd' = fd /\ \A q \in Processes \ {p} : call'[q] = call[q]
    <3>1. ChangeDir(p, Root, inodes) /\ inodes \in Nodes /\ call[p].at = "user"
      BY <1>1, <2>2 DEF ChdirRoot, ShellNow, FilesNow, FilesInv, Typed, NoCall
    <3>2. FilesNow' /\ fd' = fd /\ Return(p, 1)
      BY <3>1, Before, ChangeDirStep
    <3>3. QED
      BY <3>2, Before DEF Return
  <2>3. QED
    BY <2>1, <2>2 DEF ProcessBuildin_CMD
<1>4. Lands(p, place, local[p], fd[p], j) /\ local[p] \in Pairs
  BY <1>1, <1>2, <1>3, GotoLands
<1>5. IdleMove(at[p], place, resume[p], call[p], j) /\ at[p] # "wait file"
  BY DEF IdleMove, Ready
<1>6. LawfulNow(p, place, local[p], fd[p], j)
  BY <1>5, Before, LawfulIdle DEF LawfulNow
<1>7. QED
  BY <1>3, <1>4, <1>5, <1>6, SoloStep

\* A file is looked for.
LEMMA SearchBegins ==
    ASSUME ShellNow, NEW p \in Processes, NEW f \in Files, NEW for, Search(p, for, f),
           NEW place, NEW m \in Pairs,
           \/ at[p] = "exec" /\ place = "load" /\ for = "read" /\ Goto(p, place)
           \/ at[p] = "program" /\ place = "program open" /\ Goto(p, place)
           \/ /\ at[p] = "prompt" /\ place = "open" /\ GotoWith(p, place, m)
              /\ for \in {"read", "write", "create"}
    PROVE  ShellNow'
<1>1. PICK j : j = [at |-> "search", for |-> for, name |-> f, slot |-> -1]
  OBVIOUS
<1>2. FilesNow' /\ fd' = fd /\ call' = [call EXCEPT ![p] = j]
  <2>1. FilesNow
    BY DEF ShellNow
  <2>2. /\ FilesNow' /\ fd' = fd
        /\ call' = [call EXCEPT ![p] = [at |-> "search", for |-> for, name |-> f, slot |-> -1]]
    BY <2>1, SearchStep
  <2>3. QED
    BY <1>1, <2>2
<1>3. call'[p] = j /\ \A q \in Processes \ {p} : call'[q] = call[q]
  BY <1>2, Before
<1>4. j.at = "search" /\ j.for = for
  BY <1>1
<1>5. at[p] # "wait file"
  OBVIOUS
<1>6. CASE Goto(p, place) /\ at[p] # "prompt"
  <2>1. Lands(p, place, local[p], fd[p], j) /\ local[p] \in Pairs
    BY <1>2, <1>3, <1>6, GotoLands
  <2>2. IdleMove(at[p], place, resume[p], call[p], j)
    BY <1>4, <1>6 DEF IdleMove
  <2>3. LawfulNow(p, place, local[p], fd[p], j)
    BY <2>2, Before, LawfulIdle DEF LawfulNow
  <2>4. QED
    BY <1>2, <1>5, <2>1, <2>3, SoloStep
<1>7. CASE at[p] = "prompt"
  <2>1. Lands(p, place, m, fd[p], j)
    BY <1>2, <1>3, <1>7, GotoWithLands
  <2>2. OpenMove(at[p], place, local[p], m, call[p], j)
    BY <1>4, <1>7 DEF OpenMove
  <2>3. LawfulNow(p, place, m, fd[p], j)
    BY <2>2, Before, LawfulOpen DEF LawfulNow
  <2>4. QED
    BY <1>2, <1>5, <2>1, <2>3, SoloStep
<1>8. QED
  BY <1>6, <1>7

\* A call has returned, and nothing is done with its result.
LEMMA CallReturns ==
    ASSUME ShellNow, NEW p \in Processes, NEW place, Returned(p), Goto(p, place),
           UNCHANGED <<tableVars, workDir, entries, lost>>,
           \/ at[p] = "buildin" /\ place = "prompt"
           \/ at[p] = "exit" /\ place = "exit now"
           \/ at[p] = "program open" /\ place = "program"
           \/ at[p] = "load" /\ place = resume[p]
    PROVE  ShellNow'
<1>1. FilesNow' /\ fd' = fd /\ call' = [call EXCEPT ![p] = NoCall]
  BY Before, ReturnedStep
<1>2. call'[p] = NoCall /\ \A q \in Processes \ {p} : call'[q] = call[q]
  BY <1>1, Before
<1>3. Lands(p, place, local[p], fd[p], NoCall) /\ local[p] \in Pairs
  BY <1>1, <1>2, GotoLands
<1>4. IdleMove(at[p], place, resume[p], call[p], NoCall) /\ at[p] # "wait file"
  BY DEF IdleMove
<1>5. LawfulNow(p, place, local[p], fd[p], NoCall)
  BY <1>4, Before, LawfulIdle DEF LawfulNow
<1>6. QED
  BY <1>1, <1>3, <1>4, <1>5, SoloStep

LEMMA FileOpened ==
    ASSUME ShellNow, NEW p \in Processes, ReFdOpened(p)
    PROVE  ShellNow'
<1>1. /\ at[p] = "open" /\ Returned(p) /\ call[p].at = "done"
      /\ UNCHANGED <<tableVars, workDir, entries, lost>>
  BY DEF ReFdOpened, Returned
<1>2. FilesNow' /\ fd' = fd /\ call' = [call EXCEPT ![p] = NoCall]
  BY <1>1, Before, ReturnedStep
<1>3. call'[p] = NoCall /\ \A q \in Processes \ {p} : call'[q] = call[q]
  BY <1>2, Before
<1>4. PICK place, m : /\ GotoWith(p, place, m) /\ m \in Pairs
                      /\ OpenMove("open", place, local[p], m, call[p], NoCall)
  <2>1. CASE Result(p) = -1
    <3>1. GotoWith(p, "prompt", <<-1, -1>>)
      BY <2>1 DEF ReFdOpened
    <3>2. QED
      BY <3>1, NoPair DEF OpenMove
  <2>2. CASE Result(p) # -1
    <3>1. PICK place \in {"fork", "close"} : GotoWith(p, place, <<local[p][1], Result(p)>>)
      BY <2>2 DEF ReFdOpened
    <3>2. PICK m : m = <<local[p][1], Result(p)>>
      OBVIOUS
    <3>3. m[2] = Result(p)
      BY <3>2, PairParts
    <3>4. Result(p) \in Given
      BY <1>1, <2>2 DEF ShellNow, Placed, PlacedAt, Result
    <3>5. local[p][1] \in Fds \cup {-1} /\ Given \subseteq Fds
      BY Before, StdFds DEF Pairs
    <3>6. m \in Pairs
      BY <3>2, <3>4, <3>5 DEF Pairs
    <3>7. QED
      BY <1>1, <2>2, <3>1, <3>2, <3>3, <3>6 DEF OpenMove, Result
  <2>3. QED
    BY <2>1, <2>2
<1>5. Lands(p, place, m, fd[p], NoCall)
  BY <1>2, <1>3, <1>4, GotoWithLands
<1>6. LawfulNow(p, place, m, fd[p], NoCall)
  BY <1>1, <1>4, Before, LawfulOpen DEF LawfulNow
<1>7. QED
  BY <1>1, <1>2, <1>4, <1>5, <1>6, SoloStep

\* A descriptor is closed.
LEMMA ClosesOne ==
    ASSUME ShellNow, NEW p \in Processes, NEW e, syscall_close(p, e), call[p] = NoCall,
           NEW place, NEW m \in Pairs, CloseMove(at[p], place, resume[p], local[p], m, call[p], e),
           (Goto(p, place) /\ m = local[p]) \/ GotoWith(p, place, m)
    PROVE  ShellNow'
<1>1. e \in Given /\ LawfulNow(p, place, m, [fd[p] EXCEPT ![e] = -1], NoCall)
  BY Before, LawfulClose DEF LawfulNow
<1>2. FilesNow' /\ fd' = [fd EXCEPT ![p][e] = -1] /\ call' = call
  BY <1>1, Before, CloseFiles DEF syscall_close
<1>3. PICK h : h = [fd[p] EXCEPT ![e] = -1]
  OBVIOUS
<1>4. /\ fd'[p] = h /\ call'[p] = NoCall
      /\ \A q \in Processes \ {p} : fd'[q] = fd[q] /\ call'[q] = call[q]
  BY <1>2, <1>3, Before
<1>5. Lands(p, place, m, h, NoCall)
  BY <1>4, GotoLands, GotoWithLands
<1>6. at[p] # "wait file"
  BY DEF CloseMove
<1>7. QED
  BY <1>1, <1>2, <1>3, <1>5, <1>6, SoloStep

LEMMA Redirects ==
    ASSUME ShellNow, NEW p \in Processes, NEW std, NEW new, fd_redirect(p, std, new),
           call[p] = NoCall, harm' = "none", NEW place, Goto(p, place),
           RedirectMove(at[p], place, local[p], std, new)
    PROVE  ShellNow'
<1>1. new \in Fds \cup {-1}
  BY Before DEF RedirectMove, Pairs
<1>2. PICK h : h = [fd[p] EXCEPT ![std] = IF new = -1 THEN -1 ELSE fd[p][new]]
  OBVIOUS
<1>3. FilesNow' /\ std \in STD_FD /\ fd' = [fd EXCEPT ![p] = h] /\ call' = call
  <2>1. /\ FilesNow' /\ std \in STD_FD
        /\ fd' = [fd EXCEPT ![p][std] = IF new = -1 THEN -1 ELSE fd[p][new]]
    BY <1>1, Before, RedirectStep
  <2>2. call' = call
    BY DEF fd_redirect, Harm
  <2>3. QED
    BY <1>2, <2>1, <2>2
<1>4. /\ fd'[p] = h /\ call'[p] = NoCall
      /\ \A q \in Processes \ {p} : fd'[q] = fd[q] /\ call'[q] = call[q]
  BY <1>3, Before
<1>5. Lands(p, place, local[p], h, NoCall) /\ local[p] \in Pairs
  BY <1>4, GotoLands
<1>6. LawfulNow(p, place, local[p], h, NoCall)
  BY <1>2, <1>3, Before, LawfulRedirect DEF LawfulNow
<1>7. at[p] # "wait file"
  BY DEF RedirectMove
<1>8. QED
  BY <1>3, <1>5, <1>6, <1>7, SoloStep

LEMMA Exits ==
    ASSUME ShellNow, NEW p \in Processes, exit(p), call[p] = NoCall,
           at[p] \in {"exec", "exit now", "program"}
    PROVE  ShellNow'
<1>1. PICK h : h = [d \in Fds |-> -1]
  OBVIOUS
<1>2. FilesNow' /\ fd' = [fd EXCEPT ![p] = h] /\ call' = call
  BY <1>1, Before, CloseAllFiles DEF exit, CloseAll
<1>3. /\ fd'[p] = h /\ call'[p] = NoCall
      /\ \A q \in Processes \ {p} : fd'[q] = fd[q] /\ call'[q] = call[q]
  BY <1>2, Before
<1>4. Lands(p, "exited", local[p], h, NoCall) /\ local[p] \in Pairs
  BY <1>3, GotoLands DEF exit
<1>5. LawfulNow(p, "exited", local[p], h, NoCall)
  BY <1>1, Before, LawfulExit DEF LawfulNow
<1>6. QED
  BY <1>2, <1>4, <1>5, SoloStep

\* The files are left alone.
LEMMA GoesIdle ==
    ASSUME ShellNow, NEW p \in Processes, FilesNow', UNCHANGED <<fd, call>>, call[p] = NoCall,
           NEW place, Goto(p, place), IdleMove(at[p], place, resume[p], NoCall, NoCall),
           at[p] = "wait file" => Children(p) = {}
    PROVE  ShellNow'
<1>1. Lands(p, place, local[p], fd[p], NoCall) /\ local[p] \in Pairs
  BY GotoLands
<1>2. LawfulNow(p, place, local[p], fd[p], NoCall)
  BY Before, LawfulIdle DEF LawfulNow
<1>3. QED
  BY <1>1, <1>2, SoloStep

LEMMA GoesOn ==
    ASSUME ShellNow, NEW p \in Processes, UNCHANGED filesVars, call[p] = NoCall,
           NEW place, Goto(p, place), IdleMove(at[p], place, resume[p], NoCall, NoCall),
           at[p] = "wait file" => Children(p) = {}
    PROVE  ShellNow'
<1>1. UNCHANGED <<GlobalFileTable, fd, inodes, workDir, entries, call, lost>>
  BY DEF filesVars, tableVars
<1>2. FilesNow' /\ UNCHANGED <<fd, call>>
  BY <1>1, Before, StillFiles
<1>3. QED
  BY <1>2, GoesIdle

LEMMA MakesPipe ==
    ASSUME ShellNow, NEW p \in Processes, Ready(p, "prompt"), PipeMade(p), NEW place,
           \/ place = "prompt" /\ Goto(p, place)
           \/ place = "fork first" /\ GotoWith(p, place, PipeFds(p))
    PROVE  ShellNow'
<1>1. at[p] = "prompt" /\ call[p] = NoCall
  BY DEF Ready
<1>2. PICK x, y : x = PipeFds(p)[1] /\ y = PipeFds(p)[2]
  OBVIOUS
<1>3. FilesNow' /\ BothTaken(p, x, y)
  <2>1. FilesNow
    BY DEF ShellNow
  <2>2. QED
    BY <1>2, <2>1, PipeMadeStep
<1>4. PICK s \in Slots : fd' = [fd EXCEPT ![p] = [[fd[p] EXCEPT ![x] = s] EXCEPT ![y] = s]]
  BY <1>3 DEF BothTaken
<1>5. PICK h : h = [[fd[p] EXCEPT ![x] = s] EXCEPT ![y] = s]
  OBVIOUS
<1>6. /\ fd'[p] = h /\ call'[p] = NoCall
      /\ \A q \in Processes \ {p} : fd'[q] = fd[q] /\ call'[q] = call[q]
  BY <1>1, <1>4, <1>5, Before DEF PipeMade
<1>7. PipeFds(p) = <<x, y>>
  BY <1>2 DEF PipeFds
<1>8. <<x, y>> \in Pairs
  BY <1>3, StdFds DEF Pairs, BothTaken
<1>9. PICK m \in Pairs : /\ Lands(p, place, m, h, NoCall)
                         /\ \/ place = "prompt" /\ m = local[p]
                            \/ place = "fork first" /\ m = <<x, y>>
  <2>1. CASE place = "prompt" /\ Goto(p, place)
    BY <1>6, <2>1, GotoLands
  <2>2. CASE place = "fork first" /\ GotoWith(p, place, PipeFds(p))
    BY <1>6, <1>7, <1>8, <2>2, GotoWithLands
  <2>3. QED
    BY <2>1, <2>2
<1>10. LawfulNow(p, place, m, h, NoCall)
  <2>1. PICK r, l, f : r = resume[p] /\ l = local[p] /\ f = fd[p]
    OBVIOUS
  <2>2. /\ r \in ResumePlaces /\ l \in Pairs /\ f \in FdMap
        /\ PlacedAt("prompt", r, l, f, NoCall)
    BY <1>1, <2>1, Before
  <2>3. h = [[f EXCEPT ![x] = s] EXCEPT ![y] = s]
    BY <1>5, <2>1
  <2>4. (place = "prompt" /\ m = l) \/ (place = "fork first" /\ m = <<x, y>>)
    BY <1>9, <2>1
  <2>5. Lawful("prompt", place, r, l, m, f, h, NoCall, NoCall)
    BY <1>3, <2>2, <2>3, <2>4, LawfulPipe DEF BothTaken
  <2>6. QED
    BY <1>1, <2>1, <2>5 DEF LawfulNow
<1>11. QED
  BY <1>1, <1>3, <1>9, <1>10, SoloStep

\* The descriptors and the call of p change together.
LEMMA QuietOpen ==
    ASSUME CallsSound, FilesInv(GlobalFileTable', inodes', fd'),
           NEW p \in Processes, NEW k, CallOf(p, k), Quiet(call[p]), Quiet(k),
           UNCHANGED <<workDir, entries, lost>>
    PROVE  FilesNow'
<1>1. /\ \A q \in Processes : \A n : Removing(q, n)' = Removing(q, n)
      /\ \A q \in Processes : \A n : Making(q, n)' = Making(q, n)
      /\ \A n : Removers(n)' = Removers(n)
      /\ \A q \in Processes : \A n : Making(q, n) => call'[q] = call[q]
  BY QuietCall
<1>2. CallsSound'
  BY CallTyped DEF CallsSound
<1>3. /\ Typed(GlobalFileTable, inodes, fd)' /\ Flagged(GlobalFileTable)'
      /\ Led(GlobalFileTable, fd)' /\ PipesCounted(GlobalFileTable, fd)'
  BY DEF FilesInv, Typed, Flagged, Led, PipesCounted, Lead
<1>4. FilesCounted(GlobalFileTable, inodes, fd)'
  BY <1>1 DEF FilesInv, FilesCounted, SlotsOf, Lead
<1>5. MakersApart(GlobalFileTable, inodes)'
  BY <1>1 DEF FilesInv, MakersApart
<1>6. RemoversAlone(inodes)'
  BY <1>1 DEF FilesInv, RemoversAlone
<1>7. WorkDirsListed(inodes)'
  BY DEF FilesInv, WorkDirsListed, CallsSound
<1>8. QED
  BY <1>2, <1>3, <1>4, <1>5, <1>6, <1>7 DEF FilesNow, FilesInv

\* The file of a program has been read, and is closed.
LEMMA ProgramLoaded ==
    ASSUME ShellNow, NEW p \in Processes, ExecLoaded(p), Result(p) # -1
    PROVE  ShellNow'
<1>1. /\ at[p] = "load" /\ call[p].at = "done" /\ call' = [call EXCEPT ![p] = NoCall]
      /\ SetState(p, Close(State(p), Result(p)))
      /\ UNCHANGED <<workDir, entries, lost>>
  BY DEF ExecLoaded, Returned
<1>2. PICK place \in {"program", resume[p]} : Goto(p, place)
  BY DEF ExecLoaded
<1>3. PICK e : e = Result(p)
  OBVIOUS
<1>4. CloseMove(at[p], place, resume[p], local[p], local[p], call[p], e)
  BY <1>1, <1>2, <1>3 DEF CloseMove, Result
<1>5. e \in Given /\ LawfulNow(p, place, local[p], [fd[p] EXCEPT ![e] = -1], NoCall)
  BY <1>4, Before, LawfulClose DEF LawfulNow
<1>6. PICK s : s = State(p)
  OBVIOUS
<1>7. PICK r : r = Close(s, e)
  OBVIOUS
<1>8. s = [table |-> GlobalFileTable, nodes |-> inodes, fds |-> fd[p]]
  BY <1>6 DEF State
<1>9. PICK T, N, F : T = GlobalFileTable /\ N = inodes /\ F = fd
  OBVIOUS
<1>10. CallsSound /\ FilesInv(T, N, F) /\ s = [table |-> T, nodes |-> N, fds |-> F[p]]
  BY <1>8, <1>9 DEF ShellNow, FilesNow
<1>11. /\ r.fds = [F[p] EXCEPT ![e] = -1]
       /\ FilesInv(r.table, r.nodes, [F EXCEPT ![p] = r.fds])
  BY <1>5, <1>7, <1>10, CloseStep
<1>12. GlobalFileTable' = r.table /\ inodes' = r.nodes /\ fd' = [fd EXCEPT ![p] = r.fds]
  BY <1>1, <1>3, <1>6, <1>7 DEF SetState
<1>13. FilesInv(GlobalFileTable', inodes', fd')
  BY <1>9, <1>11, <1>12
<1>14. CallOf(p, NoCall) /\ Quiet(NoCall) /\ Quiet(call[p])
  BY <1>1 DEF CallOf, Calls, CallSound, NoCall, Quiet
<1>15. FilesNow'
  BY <1>1, <1>10, <1>13, <1>14, QuietOpen
<1>16. PICK h : h = [fd[p] EXCEPT ![e] = -1]
  OBVIOUS
<1>17. /\ fd'[p] = h /\ call'[p] = NoCall
       /\ \A q \in Processes \ {p} : fd'[q] = fd[q] /\ call'[q] = call[q]
  BY <1>1, <1>9, <1>11, <1>12, <1>16, Before
<1>18. Lands(p, place, local[p], h, NoCall) /\ local[p] \in Pairs
  BY <1>2, <1>17, GotoLands
<1>19. QED
  BY <1>1, <1>5, <1>15, <1>16, <1>18, SoloStep

LEMMA DiskAnswers ==
    ASSUME ShellNow, NEW p \in Processes, DiskStep(p), harm' = "none"
    PROVE  ShellNow'
<1>1. FilesNow' /\ DiskFrame(p)
  BY Before, AfterDiskStep DEF DiskStep
<1>2. fd' \in [Processes -> FdMap]
  BY <1>1 DEF FilesNow, FilesInv, Typed
<1>3. PICK h \in FdMap : h = fd'[p]
  BY <1>2
<1>4. PICK j : j = call'[p]
  OBVIOUS
<1>5. PICK f, k : f = fd[p] /\ k = call[p]
  OBVIOUS
<1>6. k # NoCall /\ j.for = k.for
  BY <1>1, <1>4, <1>5 DEF DiskFrame, NoCall
<1>7. \/ /\ h = f
         /\ j.at = "done" /\ k.for \in {"read", "write", "create"} => j.slot = -1
      \/ \E d \in Given :
            /\ \A e \in Fds \ {d} : h[e] = f[e]
            /\ f[d] = -1 /\ h[d] \in Slots /\ j.at = "done" /\ j.slot = d
  <2>1. CASE /\ fd' = fd
             /\ call'[p].at = "done" /\ call[p].for \in {"read", "write", "create"} => call'[p].slot = -1
    BY <1>3, <1>4, <1>5, <2>1
  <2>2. CASE \E d \in Given : /\ OnlyFd(fd, fd', p, d) /\ fd[p][d] = -1 /\ fd'[p][d] \in Slots
                              /\ call'[p].at = "done" /\ call'[p].slot = d
    BY <1>3, <1>4, <1>5, <2>2 DEF OnlyFd
  <2>3. QED
    BY <1>1, <2>1, <2>2 DEF DiskFrame
<1>8. LawfulNow(p, at[p], local[p], h, j)
  BY <1>5, <1>6, <1>7, Before, LawfulDisk DEF LawfulNow
<1>9. Lands(p, at[p], local[p], h, j)
  BY <1>1, <1>3, <1>4, Before DEF DiskFrame, Lands, DiskStep, shellVars, ShellNow, ShellTyped
<1>10. at[p] # "wait file"
  BY <1>5, <1>6, Before DEF PlacedAt, InCall
<1>11. local[p] \in Pairs
  BY Before
<1>12. QED
  BY <1>1, <1>8, <1>9, <1>10, <1>11, SoloStep

-----------------------------------------------------------------------------
(* The invariant of the shell *)

LEMMA ForksAndWaits ==
    ASSUME ShellNow, NEW p \in Processes,
           \/ RegularFork(p) \/ RegularWait(p) \/ ReFdFork(p) \/ ReFdWait(p)
           \/ PipeFork(p) \/ PipeWait(p)
    PROVE  ShellNow'
<1>1. CASE RegularFork(p)
  BY <1>1, ForkStep DEF RegularFork, Ready, ForkPlaces
<1>2. CASE ReFdFork(p)
  BY <1>2, ForkStep DEF ReFdFork, Ready, ForkPlaces
<1>3. CASE PipeFork(p)
  <2>1. CASE Ready(p, "fork first") /\ fork(p, "fork second", "first", "fork second")
    BY <2>1, ForkStep DEF Ready, ForkPlaces
  <2>2. CASE Ready(p, "fork second") /\ fork(p, "stdin back", "second", "stdin back")
    BY <2>2, ForkStep DEF Ready, ForkPlaces
  <2>3. QED
    BY <1>3, <2>1, <2>2 DEF PipeFork
<1>4. CASE RegularWait(p)
  BY <1>4, ReapStep DEF RegularWait, Ready
<1>5. ASSUME NEW place, WaitFails(p, place), call[p] = NoCall,
             \/ at[p] = "wait file" /\ place = "close"
             \/ at[p] \in {"wait both", "wait other"} /\ place = at[p]
      PROVE  ShellNow'
  <2>1. Children(p) = {} /\ Goto(p, place) /\ UNCHANGED filesVars
    BY <1>5 DEF WaitFails
  <2>2. IdleMove(at[p], place, resume[p], NoCall, NoCall)
    BY <1>5 DEF IdleMove
  <2>3. QED
    BY <1>5, <2>1, <2>2, GoesOn
<1>6. CASE ReFdWait(p)
  <2>1. at[p] = "wait file" /\ call[p] = NoCall
    BY <1>6 DEF ReFdWait, Ready
  <2>2. CASE Reap(p, "close")
    BY <2>1, <2>2, ReapStep
  <2>3. CASE WaitFails(p, "close")
    BY <1>5, <2>1, <2>3
  <2>4. QED
    BY <1>6, <2>2, <2>3 DEF ReFdWait
<1>7. CASE PipeWait(p)
  <2>1. CASE Ready(p, "wait both") /\ Reap(p, "wait other")
    BY <2>1, ReapStep DEF Ready
  <2>2. CASE Ready(p, "wait other") /\ Reap(p, "pipe close")
    BY <2>2, ReapStep DEF Ready
  <2>3. CASE Ready(p, "wait both") /\ WaitFails(p, "wait both")
    BY <1>5, <2>3 DEF Ready
  <2>4. CASE Ready(p, "wait other") /\ WaitFails(p, "wait other")
    BY <1>5, <2>4 DEF Ready
  <2>5. QED
    BY <1>7, <2>1, <2>2, <2>3, <2>4 DEF PipeWait
<1>8. QED
  BY <1>1, <1>2, <1>3, <1>4, <1>6, <1>7

LEMMA ShellCommands ==
    ASSUME ShellNow, NEW p \in Processes, harm' = "none",
           BuildinInShell(p) \/ BuildinDone(p) \/ BuildinExit(p) \/ CMD_Exec(p)
    PROVE  ShellNow'
<1>1. CASE BuildinInShell(p)
  BY <1>1, BuildinBegins DEF BuildinInShell
<1>2. CASE BuildinDone(p)
  BY <1>2, CallReturns DEF BuildinDone
<1>3. CASE BuildinExit(p)
  <2>1. CASE Ready(p, "exit now") /\ exit(p)
    BY <2>1, Exits DEF Ready
  <2>2. CASE /\ at[p] = "exit" /\ Returned(p)
             /\ Goto(p, "exit now")
             /\ UNCHANGED <<tableVars, workDir, entries, lost, harm>>
    BY <2>2, CallReturns
  <2>3. QED
    BY <1>3, <2>1, <2>2 DEF BuildinExit
<1>4. CASE CMD_Exec(p)
  <2>1. Ready(p, "exec") /\ at[p] = "exec" /\ call[p] = NoCall
    BY <1>4 DEF CMD_Exec, Ready
  <2>2. CASE ProcessBuildin_CMD(p, "exit")
    BY <2>1, <2>2, BuildinBegins
  <2>3. CASE exit(p)
    BY <2>1, <2>3, Exits
  <2>4. CASE Goto(p, resume[p]) /\ UNCHANGED filesVars
    <3>1. PICK place : place = resume[p]
      OBVIOUS
    <3>2. IdleMove(at[p], place, resume[p], NoCall, NoCall)
      BY <2>1, <3>1 DEF IdleMove
    <3>3. QED
      BY <2>1, <2>4, <3>1, <3>2, GoesOn
  <2>5. CASE (\E f \in Files : Search(p, "read", f)) /\ Goto(p, "load")
    BY <2>1, <2>5, NoPair, SearchBegins
  <2>6. QED
    BY <1>4, <2>2, <2>3, <2>4, <2>5 DEF CMD_Exec
<1>5. QED
  BY <1>1, <1>2, <1>3, <1>4

LEMMA Programs ==
    ASSUME ShellNow, NEW p \in Processes, harm' = "none",
           ExecLoaded(p) \/ Program(p) \/ ProgramOpened(p)
    PROVE  ShellNow'
<1>1. CASE ExecLoaded(p)
  <2>1. CASE Result(p) # -1
    BY <1>1, <2>1, ProgramLoaded
  <2>2. CASE Result(p) = -1
    <3>1. /\ at[p] = "load" /\ Returned(p) /\ Goto(p, resume[p])
          /\ UNCHANGED <<tableVars, workDir, entries, lost>>
      BY <1>1, <2>2 DEF ExecLoaded
    <3>2. QED
      BY <3>1, CallReturns
  <2>3. QED
    BY <2>1, <2>2
<1>2. CASE Program(p)
  <2>1. at[p] = "program" /\ call[p] = NoCall
    BY <1>2 DEF Program, Ready
  <2>2. CASE (\E f \in Files : Search(p, "read", f)) /\ Goto(p, "program open")
    BY <2>1, <2>2, NoPair, SearchBegins
  <2>3. CASE exit(p)
    BY <2>1, <2>3, Exits
  <2>4. QED
    BY <1>2, <2>2, <2>3 DEF Program
<1>3. CASE ProgramOpened(p)
  BY <1>3, CallReturns DEF ProgramOpened
<1>4. QED
  BY <1>1, <1>2, <1>3

LEMMA FileRedirections ==
    ASSUME ShellNow, NEW p \in Processes, harm' = "none",
           OutputReFd(p) \/ InputReFd(p) \/ ReFdOpened(p) \/ ReFdChild(p) \/ ReFdClose(p)
    PROVE  ShellNow'
<1>1. PICK out, in : out = <<STDOUT_FD, -1>> /\ in = <<STDIN_FD, -1>>
  OBVIOUS
<1>2. out \in Pairs /\ in \in Pairs
  <2>1. 0 \in Fds /\ 1 \in Fds
    BY StdFds DEF STD_FD
  <2>2. QED
    BY <1>1, <2>1 DEF Pairs, STDOUT_FD, STDIN_FD
<1>3. CASE OutputReFd(p)
  <2>1. at[p] = "prompt" /\ GotoWith(p, "open", out)
    BY <1>1, <1>3 DEF OutputReFd, Ready
  <2>2. PICK f \in Files : Search(p, IF f \in entries THEN "write" ELSE "create", f)
    BY <1>3 DEF OutputReFd
  <2>3. PICK for : for = IF f \in entries THEN "write" ELSE "create"
    OBVIOUS
  <2>4. Search(p, for, f) /\ for \in {"read", "write", "create"}
    BY <2>2, <2>3
  <2>5. QED
    BY <1>2, <2>1, <2>4, SearchBegins
<1>4. CASE InputReFd(p)
  <2>1. at[p] = "prompt" /\ GotoWith(p, "open", in)
    BY <1>1, <1>4 DEF InputReFd, Ready
  <2>2. PICK f \in Files : Search(p, "read", f)
    BY <1>4 DEF InputReFd
  <2>3. QED
    BY <1>2, <2>1, <2>2, SearchBegins
<1>5. CASE ReFdOpened(p)
  BY <1>5, FileOpened
<1>6. CASE ReFdChild(p)
  <2>1. PICK std, new : std = local[p][1] /\ new = local[p][2]
    OBVIOUS
  <2>2. /\ at[p] = "redirect" /\ call[p] = NoCall
        /\ fd_redirect(p, std, new) /\ Goto(p, "exec")
    BY <1>6, <2>1 DEF ReFdChild, Ready
  <2>3. RedirectMove(at[p], "exec", local[p], std, new)
    BY <2>1, <2>2 DEF RedirectMove
  <2>4. QED
    BY <2>2, <2>3, Redirects
<1>7. CASE ReFdClose(p)
  <2>1. PICK e, m : e = local[p][2] /\ m = <<-1, -1>> /\ m \in Pairs
    BY NoPair
  <2>2. /\ at[p] = "close" /\ call[p] = NoCall
        /\ syscall_close(p, e) /\ GotoWith(p, "prompt", m)
    BY <1>7, <2>1 DEF ReFdClose, Ready
  <2>3. CloseMove(at[p], "prompt", resume[p], local[p], m, call[p], e)
    BY <2>1, <2>2 DEF CloseMove
  <2>4. QED
    BY <2>1, <2>2, <2>3, ClosesOne
<1>8. QED
  BY <1>3, <1>4, <1>5, <1>6, <1>7

LEMMA PipeCommands ==
    ASSUME ShellNow, NEW p \in Processes, harm' = "none",
           PipeCMD(p) \/ PipeChild(p) \/ PipeStreams(p) \/ PipeClose(p)
    PROVE  ShellNow'
<1>1. ASSUME NEW place, NEW e, NEW m \in Pairs, call[p] = NoCall, syscall_close(p, e),
             (Goto(p, place) /\ m = local[p]) \/ GotoWith(p, place, m),
             CloseMove(at[p], place, resume[p], local[p], m, call[p], e)
      PROVE  ShellNow'
  BY <1>1, ClosesOne
<1>2. local[p] \in Pairs
  BY Before
<1>3. CASE PipeCMD(p)
  <2>1. Ready(p, "prompt") /\ at[p] = "prompt" /\ call[p] = NoCall
    BY <1>3 DEF PipeCMD, Ready
  <2>2. CASE PipeFails(p) /\ Goto(p, "prompt")
    <3>1. FilesNow' /\ fd' = fd /\ call' = call
      BY <2>1, <2>2, Before, PipeFailsStep DEF PipeFails
    <3>2. IdleMove(at[p], "prompt", resume[p], NoCall, NoCall)
      BY <2>1 DEF IdleMove
    <3>3. QED
      BY <2>1, <2>2, <3>1, <3>2, GoesIdle
  <2>3. CASE PipeMade(p) /\ Goto(p, "prompt")
    BY <2>1, <2>3, MakesPipe
  <2>4. CASE PipeMade(p) /\ GotoWith(p, "fork first", PipeFds(p))
    BY <2>1, <2>4, MakesPipe
  <2>5. QED
    BY <1>3, <2>2, <2>3, <2>4 DEF PipeCMD
<1>4. CASE PipeChild(p)
  <2>1. PICK x, y : x = local[p][1] /\ y = local[p][2]
    OBVIOUS
  <2>2. CASE Ready(p, "first") /\ fd_redirect(p, STDOUT_FD, local[p][2]) /\ Goto(p, "first close")
    <3>1. RedirectMove(at[p], "first close", local[p], STDOUT_FD, y)
      BY <2>1, <2>2 DEF RedirectMove, Ready
    <3>2. QED
      BY <2>1, <2>2, <3>1, Redirects DEF Ready
  <2>3. CASE Ready(p, "second") /\ fd_redirect(p, STDIN_FD, local[p][1]) /\ Goto(p, "second close")
    <3>1. RedirectMove(at[p], "second close", local[p], STDIN_FD, x)
      BY <2>1, <2>3 DEF RedirectMove, Ready
    <3>2. QED
      BY <2>1, <2>3, <3>1, Redirects DEF Ready
  <2>4. CASE Ready(p, "first close") /\ syscall_close(p, local[p][1]) /\ Goto(p, "exec")
    <3>1. CloseMove(at[p], "exec", resume[p], local[p], local[p], call[p], x)
      BY <2>1, <2>4 DEF CloseMove, Ready
    <3>2. QED
      BY <1>1, <1>2, <2>1, <2>4, <3>1 DEF Ready
  <2>5. CASE Ready(p, "second close") /\ syscall_close(p, local[p][2]) /\ Goto(p, "exec")
    <3>1. CloseMove(at[p], "exec", resume[p], local[p], local[p], call[p], y)
      BY <2>1, <2>5 DEF CloseMove, Ready
    <3>2. QED
      BY <1>1, <1>2, <2>1, <2>5, <3>1 DEF Ready
  <2>6. QED
    BY <1>4, <2>2, <2>3, <2>4, <2>5 DEF PipeChild
<1>5. CASE PipeStreams(p)
  <2>1. CASE Ready(p, "stdin back") /\ fd_redirect(p, STDIN_FD, -1) /\ Goto(p, "stdout back")
    <3>1. RedirectMove(at[p], "stdout back", local[p], STDIN_FD, -1)
      BY <2>1 DEF RedirectMove, Ready
    <3>2. QED
      BY <2>1, <3>1, Redirects DEF Ready
  <2>2. CASE Ready(p, "stdout back") /\ fd_redirect(p, STDOUT_FD, -1) /\ Goto(p, "wait both")
    <3>1. RedirectMove(at[p], "wait both", local[p], STDOUT_FD, -1)
      BY <2>2 DEF RedirectMove, Ready
    <3>2. QED
      BY <2>2, <3>1, Redirects DEF Ready
  <2>3. QED
    BY <1>5, <2>1, <2>2 DEF PipeStreams
<1>6. CASE PipeClose(p)
  <2>1. PICK x, y : x = local[p][1] /\ y = local[p][2]
    OBVIOUS
  <2>2. CASE /\ Ready(p, "pipe close") /\ syscall_close(p, local[p][1])
             /\ Goto(p, "pipe close other")
    <3>1. CloseMove(at[p], "pipe close other", resume[p], local[p], local[p], call[p], x)
      BY <2>1, <2>2 DEF CloseMove, Ready
    <3>2. QED
      BY <1>1, <1>2, <2>1, <2>2, <3>1 DEF Ready
  <2>3. CASE /\ Ready(p, "pipe close other") /\ syscall_close(p, local[p][2])
             /\ GotoWith(p, "prompt", <<-1, -1>>)
    <3>1. PICK m : m = <<-1, -1>> /\ m \in Pairs
      BY NoPair
    <3>2. CloseMove(at[p], "prompt", resume[p], local[p], m, call[p], y)
      BY <2>1, <2>3, <3>1 DEF CloseMove, Ready
    <3>3. QED
      BY <1>1, <2>1, <2>3, <3>1, <3>2 DEF Ready
  <2>4. QED
    BY <1>6, <2>2, <2>3 DEF PipeClose
<1>7. QED
  BY <1>3, <1>4, <1>5, <1>6

\* The inductive invariant.
Sound == harm = "none" => ShellNow

LEMMA ShellInit ==
    ASSUME Init
    PROVE  ShellNow
<1>1. /\ GlobalFileTable = [s \in Slots |-> NoFile]
      /\ fd = [p \in Processes |-> [d \in Fds |-> -1]]
      /\ workDir = [p \in Processes |-> Root]
      /\ inodes = [n \in Files \cup Dirs |-> Closed]
      /\ entries \in SUBSET (Files \cup Dirs)
      /\ call = [p \in Processes |-> NoCall]
      /\ lost = [n \in Files |-> 0]
  BY DEF Init, FilesInit
<1>2. /\ at = [p \in Processes |-> IF p = First THEN "prompt" ELSE "free"]
      /\ resume = [p \in Processes |-> "prompt"]
      /\ local = [p \in Processes |-> <<-1, -1>>]
      /\ father = [p \in Processes |-> None]
  BY DEF Init
<1>3. Pipe \notin Files /\ None \notin Files /\ Pipe # None /\ -1 \notin Slots
  BY FilesAssumption
<1>4. CallsSound
  <2>1. NoCall \in Calls /\ CallSound(NoCall)
    BY DEF NoCall, Calls, CallSound
  <2>2. QED
    BY <1>1, <2>1 DEF CallsSound
<1>5. Typed(GlobalFileTable, inodes, fd)
  <2>1. NoFile \in FileRec
    BY DEF NoFile, FileRec
  <2>2. Closed \in NodeRec
    BY DEF Closed, NodeRec
  <2>3. QED
    BY <1>1, <2>1, <2>2 DEF Typed, Tables, Nodes, FdMap
<1>6. \A s \in Slots : GlobalFileTable[s].inode = None
  BY <1>1 DEF NoFile
<1>7. Flagged(GlobalFileTable) /\ PipesCounted(GlobalFileTable, fd)
  BY <1>3, <1>6 DEF Flagged, PipesCounted
<1>8. \A p \in Processes, d \in Given : fd[p][d] = -1
  BY <1>1, StdFds
<1>9. Led(GlobalFileTable, fd)
  BY <1>8 DEF Led
<1>10. \A q \in Processes : \A n : ~Removing(q, n) /\ ~Making(q, n)
  BY <1>1 DEF Removing, Making, NoCall
<1>11. FilesCounted(GlobalFileTable, inodes, fd)
  <2> SUFFICES ASSUME NEW n \in Files
               PROVE  inodes[n].open_cnt = Cardinality(Lead(fd, SlotsOf(GlobalFileTable, n)))
                                           + Cardinality(Removers(n)) + lost[n]
    BY DEF FilesCounted
  <2>1. inodes[n].open_cnt = 0 /\ lost[n] = 0
    BY <1>1 DEF Closed
  <2>2. Cardinality(Removers(n)) = 0
    <3>1. Removers(n) = {}
      BY <1>10 DEF Removers
    <3>2. QED
      BY <3>1, RemoversFinite
  <2>3. PICK F, S : F = fd /\ S = SlotsOf(GlobalFileTable, n)
    OBVIOUS
  <2>4. \A q \in Processes, e \in Given : F[q][e] \notin S
    BY <1>3, <1>8, <2>3 DEF SlotsOf
  <2>5. Cardinality(Lead(F, S)) = 0
    BY <2>4, LeadNone
  <2>6. QED
    BY <2>1, <2>2, <2>3, <2>5
<1>12. MakersApart(GlobalFileTable, inodes) /\ RemoversAlone(inodes)
  BY <1>10 DEF MakersApart, RemoversAlone
<1>13. WorkDirsListed(inodes)
  BY <1>1 DEF WorkDirsListed
<1>14. FilesNow
  BY <1>4, <1>5, <1>7, <1>9, <1>11, <1>12, <1>13 DEF FilesNow, FilesInv
<1>15. ShellTyped
  <2>1. <<-1, -1>> \in (Fds \cup {-1}) \X (Fds \cup {-1})
    OBVIOUS
  <2>2. "prompt" \in Places /\ "free" \in Places
    BY DEF Places, ShellPlaces
  <2>3. QED
    BY <1>2, <2>1, <2>2 DEF ShellTyped
<1>16. ASSUME NEW q \in Processes
       PROVE  /\ Placed(q) /\ (at[q] = "free" => father[q] = None)
              /\ at[q] \in {"prompt", "free"} /\ Children(q) = {}
  <2>1. /\ at[q] \in {"prompt", "free"} /\ resume[q] = "prompt" /\ local[q] = <<-1, -1>>
        /\ fd[q] = [d \in Fds |-> -1] /\ call[q] = NoCall /\ father[q] = None
    BY <1>1, <1>2
  <2>2. Placed(q)
    BY <2>1 DEF Placed, PlacedAt, Working, InCall, PipePlaces, Streams
  <2>3. Children(q) = {}
    BY <1>2, ShellAssumption DEF Children
  <2>4. QED
    BY <2>1, <2>2, <2>3
<1>17. FewChildren
  BY <1>16 DEF FewChildren, OneChild, Streams
<1>18. Redirected
  BY <1>16 DEF Redirected, Redirecting, Working
<1>19. StdKept
  <2>1. \A q \in Processes, d \in STD_FD : fd[q][d] = -1
    BY <1>1, StdFds
  <2>2. QED
    BY <2>1 DEF StdKept
<1>20. QED
  BY <1>14, <1>15, <1>16, <1>17, <1>18, <1>19 DEF ShellNow

LEMMA ShellNext ==
    ASSUME ShellNow, NEW p \in Processes, ShellStep(p) \/ DiskStep(p), harm' = "none"
    PROVE  ShellNow'
<1>1. CASE DiskStep(p)
  BY <1>1, DiskAnswers
<1>2. CASE ShellStep(p)
  BY <1>2, ForksAndWaits, ShellCommands, Programs, FileRedirections, PipeCommands DEF ShellStep
<1>3. QED
  BY <1>1, <1>2

\* Nothing goes on once harm has been done but the end of what has returned.
LEMMA HarmStays ==
    ASSUME NEW p \in Processes, ShellStep(p) \/ DiskStep(p), harm' = "none"
    PROVE  harm = "none"
BY DEF ShellStep, DiskStep, Ready, BuildinInShell, BuildinDone, RegularFork, RegularWait,
       OutputReFd, InputReFd, ReFdOpened, ReFdFork, ReFdChild, ReFdWait, ReFdClose,
       PipeCMD, PipeFork, PipeChild, PipeStreams, PipeWait, PipeClose,
       CMD_Exec, BuildinExit, ExecLoaded, Program, ProgramOpened

\* As long as no two calls have spoilt each other, the files are as FilesInv
\* says, every process has what its place in shell.c asks for, and whatever a
\* redirected stream leads to is kept open by somebody.
THEOREM SoundAlways == Spec => []Sound
<1>1. Init => Sound
  BY ShellInit DEF Sound
<1>2. Sound /\ [Next]_vars => Sound'
  <2> SUFFICES ASSUME Sound, [Next]_vars, harm' = "none" PROVE ShellNow'
    BY DEF Sound
  <2>1. CASE Next
    <3>1. PICK p \in Processes : ShellStep(p) \/ DiskStep(p)
      BY <2>1 DEF Next
    <3>2. ShellNow
      BY <3>1, HarmStays DEF Sound
    <3>3. QED
      BY <3>1, <3>2, ShellNext
  <2>2. CASE UNCHANGED vars
    <3>1. /\ UNCHANGED <<GlobalFileTable, fd, inodes, workDir, entries, call, lost, harm>>
          /\ UNCHANGED <<at, resume, local, father>>
      BY <2>2 DEF vars, filesVars, tableVars, shellVars
    <3>2. ShellNow
      BY <3>1 DEF Sound
    <3>3. FilesNow'
      BY <3>1, <3>2, StillFiles DEF ShellNow
    <3>4. /\ ShellTyped' = ShellTyped
          /\ \A q : Still(q) /\ Children(q)' = Children(q)
      BY <3>1 DEF ShellTyped, Still, Children
    <3>5. FewChildren' = FewChildren
      BY <3>1, <3>4 DEF FewChildren
    <3>6. \A q : Placed(q)' = Placed(q) /\ Redirecting(q)' = Redirecting(q)
      BY <3>4, StillSame
    <3>7. Redirected'
      BY <3>1, <3>2, <3>6 DEF ShellNow, Redirected, Own
    <3>8. \A h : Stuck(h)' = Stuck(h)
      BY <3>1, <3>4 DEF Stuck
    <3>9. \A g : Held(g)' = Held(g)
      BY <3>1, <3>8 DEF Held
    <3>10. StdKept'
      BY <3>1, <3>2, <3>9 DEF ShellNow, StdKept, Leans, Own
    <3>11. QED
      BY <3>1, <3>2, <3>3, <3>4, <3>5, <3>6, <3>7, <3>10 DEF ShellNow
  <2>3. QED
    BY <2>1, <2>2
<1>3. QED
  BY <1>1, <1>2, PTL DEF Spec

LEMMA CountsHold ==
    ASSUME Sound
    PROVE  CountsRight
<1> SUFFICES ASSUME harm = "none"
             PROVE  /\ \A s \in Slots : GlobalFileTable[s].inode = Pipe =>
                          /\ GlobalFileTable[s].fd_pos = Cardinality(Leading({s}))
                          /\ GlobalFileTable[s].fd_pos > 0
                    /\ \A n \in Files : inodes[n].open_cnt =
                          Cardinality(Leading({s \in Slots : GlobalFileTable[s].inode = n}))
                          + Cardinality({p \in Processes : call[p].at \in {"remove", "unlisted"}
                                                           /\ call[p].name = n})
                          + lost[n]
  BY DEF CountsRight
<1>1. PipesCounted(GlobalFileTable, fd) /\ FilesCounted(GlobalFileTable, inodes, fd)
  BY DEF Sound, ShellNow, FilesNow, FilesInv
<1>2. \A S : Leading(S) = Lead(fd, S)
  BY DEF Leading, Lead
<1>3. \A n \in Files : Removers(n) = {p \in Processes : call[p].at \in {"remove", "unlisted"}
                                                        /\ call[p].name = n}
  BY DEF Removers, Removing
<1>4. \A n \in Files : SlotsOf(GlobalFileTable, n) = {s \in Slots : GlobalFileTable[s].inode = n}
  BY DEF SlotsOf
<1>5. QED
  BY <1>1, <1>2, <1>3, <1>4 DEF PipesCounted, FilesCounted

LEMMA DescriptorsHold ==
    ASSUME Sound
    PROVE  DescriptorsLive
<1> SUFFICES ASSUME harm = "none", NEW p \in Processes
             PROVE  /\ \A d \in Fds : fd[p][d] # -1 =>
                          LET file == GlobalFileTable[fd[p][d]]
                          IN  IF file.flag = "pipe" THEN file.inode = Pipe
                              ELSE file.inode \in Files \cap entries /\ Listed(file.inode)
                    /\ workDir[p] # Root => workDir[p] \in entries /\ Listed(workDir[p])
  BY DEF DescriptorsLive
<1>1. /\ CallsSound /\ FilesInv(GlobalFileTable, inodes, fd) /\ StdKept
      /\ fd \in [Processes -> FdMap]
      /\ \A q \in Processes : Placed(q)
  BY DEF Sound, ShellNow, FilesNow, FilesInv, Typed
<1>2. ASSUME NEW q \in Processes, NEW e \in Given, NEW g, g = fd[q][e], g # -1
      PROVE  LET file == GlobalFileTable[g]
             IN  IF file.flag = "pipe" THEN file.inode = Pipe
                 ELSE file.inode \in Files \cap entries /\ Listed(file.inode)
  <2>1. g \in Slots
    BY <1>1, <1>2, StdFds DEF FdMap
  <2>2. /\ GlobalFileTable[g].inode = Pipe => GlobalFileTable[g].flag = "pipe"
        /\ GlobalFileTable[g].inode \in Files => GlobalFileTable[g].flag # "pipe"
    BY <1>1, <2>1 DEF FilesInv, Flagged
  <2>3. GlobalFileTable[g].inode = Pipe \/ GlobalFileTable[g].inode \in Files \cap entries
    BY <1>1, <1>2 DEF FilesInv, Led
  <2>4. ASSUME NEW n \in Files, GlobalFileTable[g].inode = n PROVE Listed(n)
    <3>1. PICK T, N, F : T = GlobalFileTable /\ N = inodes /\ F = fd
      OBVIOUS
    <3>2. FilesInv(T, N, F) /\ F[q][e] # -1 /\ T[F[q][e]].inode = n
      BY <1>1, <1>2, <2>4, <3>1
    <3>3. N[n].open_cnt > 0
      BY <1>1, <3>2, OpenCounted
    <3>4. QED
      BY <3>1, <3>3 DEF Listed
  <2>5. QED
    BY <2>2, <2>3, <2>4
<1>3. ASSUME NEW d \in Fds, fd[p][d] # -1
      PROVE  \E q \in Processes, e \in Given : fd[q][e] = fd[p][d]
  <2>1. CASE d \in Given
    BY <2>1
  <2>2. CASE d \in STD_FD
    <3>1. Held(fd[p][d]) \/ Own(p, fd[p][d])
      BY <1>1, <1>3, <2>2 DEF StdKept, Leans
    <3>2. QED
      BY <3>1 DEF Held, Own, Has
  <2>3. QED
    BY <2>1, <2>2 DEF Given
<1>4. \A d \in Fds : fd[p][d] # -1 =>
          LET file == GlobalFileTable[fd[p][d]]
          IN  IF file.flag = "pipe" THEN file.inode = Pipe
              ELSE file.inode \in Files \cap entries /\ Listed(file.inode)
  <2> SUFFICES ASSUME NEW d \in Fds, fd[p][d] # -1
               PROVE  LET file == GlobalFileTable[fd[p][d]]
                      IN  IF file.flag = "pipe" THEN file.inode = Pipe
                          ELSE file.inode \in Files \cap entries /\ Listed(file.inode)
    OBVIOUS
  <2>1. PICK q \in Processes, e \in Given : fd[q][e] = fd[p][d]
    BY <1>3
  <2>2. PICK g : g = fd[q][e]
    OBVIOUS
  <2>3. g # -1 /\ g = fd[p][d]
    BY <2>1, <2>2
  <2>4. QED
    BY <1>2, <2>2, <2>3
<1>5. workDir[p] # Root => workDir[p] \in entries /\ Listed(workDir[p])
  BY <1>1 DEF FilesInv, WorkDirsListed, Listed
<1>6. QED
  BY <1>4, <1>5

\* As long as no two calls have spoilt each other, the count of a pipe is that
\* of the descriptors, of all the processes, that lead to it, and the open
\* count of a file that of its descriptors, the call that removes it and the
\* opens known to be lost: fork, close, exit, redirection, open and unlink of
\* syscallFun.c keep them so however they overlap.
THEOREM CountsRightAlways == Spec => []CountsRight
BY SoundAlways, CountsHold, PTL

\* As long as no two calls have spoilt each other, every descriptor leads to
\* something open: also a standard stream that shell.c has redirected, which
\* sys_fd_redirect takes over without counting it, and a working directory.
THEOREM DescriptorsLiveAlways == Spec => []DescriptorsLive
BY SoundAlways, DescriptorsHold, PTL
=============================================================================
