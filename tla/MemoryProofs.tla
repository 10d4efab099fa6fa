---------------------------- MODULE MemoryProofs -----------------------------
(***************************************************************************)
(* What is proved of the memory, for any number of processes, pages, page  *)
(* tables and block sizes: no page is mapped twice, every page taken has   *)
(* one user, malloc's lists and headers agree, and only exit leaves pages  *)
(* of the kernel behind.                                                   *)
(*                                                                         *)
(* From the bottom up: induction over numbers and finite sets; the bitmap; *)
(* GetOnePage, GetPages, malloc_page and free_page, which keep PageSound;  *)
(* then the invariant, Sound, and one lemma for each action.               *)
(***************************************************************************)
EXTENDS Memory, FiniteSetTheorems, WellFoundedInduction, TLAPS

\* The least element, which stands in for induction.
LEMMA LeastNat ==
    ASSUME NEW T \in SUBSET Nat, T # {}
    PROVE  \E x \in T : \A y \in T : x <= y
<1>1. PICK R : R = OpToRel(<, Nat)
  OBVIOUS
<1>2. \A x, y \in Nat : <<y, x>> \in R <=> y < x
  BY <1>1 DEF OpToRel
<1>3. PICK x \in T : \A y \in T : ~(<<y, x>> \in R)
  BY <1>1, NatLessThanWellFounded, WFMin
<1>4. \A y \in T : x <= y
  <2> SUFFICES ASSUME NEW y \in T PROVE x <= y
    OBVIOUS
  <2>1. x \in Nat /\ y \in Nat /\ ~(y < x)
    BY <1>2, <1>3
  <2>2. QED
    BY <2>1
<1>5. QED
  BY <1>4

\* Induction, with a set for the property.
LEMMA NatSetInduction ==
    ASSUME NEW G \in SUBSET Nat, 0 \in G, \A n \in G : n + 1 \in G
    PROVE  \A n \in Nat : n \in G
<1> SUFFICES ASSUME NEW n \in Nat, n \notin G PROVE FALSE
  OBVIOUS
<1>1. PICK x \in Nat \ G : \A y \in Nat \ G : x <= y
  <2>1. Nat \ G \in SUBSET Nat /\ Nat \ G # {}
    OBVIOUS
  <2>2. QED
    BY <2>1, LeastNat
<1>2. x # 0 /\ x - 1 \in Nat
  BY <1>1
<1>3. x - 1 \in G
  BY <1>1, <1>2
<1>4. (x - 1) + 1 = x
  BY <1>1
<1>5. QED
  BY <1>1, <1>3, <1>4

LEMMA MinInt ==
    ASSUME NEW S \in SUBSET Int, S # {}, NEW b \in Int, \A x \in S : b <= x
    PROVE  Min(S) \in S /\ \A y \in S : Min(S) <= y
<1> DEFINE T == {x - b : x \in S}
<1>1. T \in SUBSET Nat /\ T # {}
  <2>1. \A x \in S : x \in Int /\ x - b \in Nat
    OBVIOUS
  <2>2. QED
    BY <2>1
<1>2. PICK d \in T : \A e \in T : d <= e
  <2> HIDE DEF T
  <2> QED BY <1>1, LeastNat
<1>3. PICK x \in S : d = x - b
  BY <1>2
<1>4. \A y \in S : x <= y
  <2> SUFFICES ASSUME NEW y \in S PROVE x <= y
    OBVIOUS
  <2>1. x - b <= y - b
    BY <1>2, <1>3
  <2>2. x \in Int /\ y \in Int
    OBVIOUS
  <2>3. QED
    BY <2>1, <2>2
<1>5. QED
  BY <1>4 DEF Min

LEMMA MaxInt ==
    ASSUME NEW S \in SUBSET Int, S # {}, NEW b \in Int, \A x \in S : x <= b
    PROVE  Max(S) \in S /\ \A y \in S : y <= Max(S)
<1> DEFINE T == {b - x : x \in S}
<1>1. T \in SUBSET Nat /\ T # {}
  <2>1. \A x \in S : x \in Int /\ b - x \in Nat
    OBVIOUS
  <2>2. QED
    BY <2>1
<1>2. PICK d \in T : \A e \in T : d <= e
  <2> HIDE DEF T
  <2> QED BY <1>1, LeastNat
<1>3. PICK x \in S : d = b - x
  BY <1>2
<1>4. \A y \in S : x >= y
  <2> SUFFICES ASSUME NEW y \in S PROVE x >= y
    OBVIOUS
  <2>1. b - x <= b - y
    BY <1>2, <1>3
  <2>2. x \in Int /\ y \in Int
    OBVIOUS
  <2>3. QED
    BY <2>1, <2>2
<1>5. PICK z : z = Max(S)
  OBVIOUS
<1>6. z \in S /\ \A y \in S : z >= y
  BY <1>4, <1>5 DEF Max
<1>7. QED
  BY <1>5, <1>6

\* BitMapAllocate finds the first run of cnt free positions, if there is one.
LEMMA WindowIsFree ==
    ASSUME NEW bits \in SUBSET Int, NEW r \in Int, r >= 0
    PROVE  /\ WindowStart(bits, r) \in Nat /\ WindowStart(bits, r) <= r + 1
           /\ \A i \in bits : ~(WindowStart(bits, r) <= i /\ i <= r)
           /\ WindowStart(bits, r) # 0 => WindowStart(bits, r) - 1 \in bits
<1> DEFINE S == {-1} \cup {i \in bits : i <= r}
<1>1. S \in SUBSET Int /\ -1 \in S /\ \A x \in S : x <= r
  <2>1. -1 \in Int /\ -1 <= r
    OBVIOUS
  <2>2. QED
    BY <2>1
<1>2. PICK k : k = Max(S)
  OBVIOUS
<1>3. k \in S /\ \A y \in S : y <= k
  <2> HIDE DEF S
  <2> QED BY <1>1, <1>2, MaxInt
<1>4. WindowStart(bits, r) = 1 + k
  BY <1>2 DEF WindowStart
<1>5. k \in Int /\ k >= -1 /\ k <= r /\ (k # -1 => k \in bits)
  BY <1>3
<1>6. \A i \in bits : i <= r => i <= k
  BY <1>3
<1>7. QED
  BY <1>4, <1>5, <1>6

\* BitMapAllocate finds the lowest window of free bits that is wide enough,
\* inside the map, or -1 if there is none: whatever the bits are, the window it
\* gives to palloc and VaddrGet is free.
THEOREM AllocatesFirstFree ==
    ASSUME NEW bits \in SUBSET Int, NEW len \in Nat, NEW cnt \in Nat
    PROVE  LET v == BitMapAllocate(bits, len, cnt) IN
           \/ /\ v = -1
              /\ \A u \in Nat : u + cnt <= len /\ cnt # 0 => \E i \in bits : u <= i /\ i < u + cnt
           \/ /\ v \in Nat /\ v + cnt <= len
              /\ \A i \in bits : ~(v <= i /\ i < v + cnt)
              /\ \A u \in Nat : u < v /\ cnt # 0 => \E i \in bits : u <= i /\ i < u + cnt
<1> DEFINE wide == {r \in 0 .. len - 1 : r - WindowStart(bits, r) + 1 >= cnt}
           v == BitMapAllocate(bits, len, cnt)
<1>1. ASSUME NEW u \in Nat, u + cnt <= len, cnt # 0, \A i \in bits : ~(u <= i /\ i < u + cnt)
      PROVE  u + cnt - 1 \in wide /\ WindowStart(bits, u + cnt - 1) <= u
  <2> DEFINE r == u + cnt - 1
  <2>1. r \in Int /\ r >= 0 /\ r \in 0 .. len - 1
    BY <1>1
  <2>2. /\ WindowStart(bits, r) \in Nat /\ WindowStart(bits, r) <= r + 1
        /\ WindowStart(bits, r) # 0 => WindowStart(bits, r) - 1 \in bits
    BY <2>1, WindowIsFree
  <2>3. WindowStart(bits, r) <= u
    BY <1>1, <2>1, <2>2
  <2>4. QED
    BY <2>1, <2>2, <2>3
<1>2. CASE wide = {}
  BY <1>1, <1>2 DEF BitMapAllocate
<1>3. CASE wide # {}
  <2>1. PICK r : r = Min(wide)
    OBVIOUS
  <2>2. r \in wide /\ \A y \in wide : r <= y
    <3>1. wide \in SUBSET Int /\ \A x \in wide : 0 <= x
      OBVIOUS
    <3> HIDE DEF wide
    <3>2. QED
      BY <1>3, <2>1, <3>1, MinInt
  <2>3. v = WindowStart(bits, r)
    BY <1>3, <2>1 DEF BitMapAllocate
  <2>4. r \in Int /\ r >= 0 /\ r <= len - 1 /\ r - v + 1 >= cnt
    BY <2>2, <2>3
  <2>5. /\ v \in Nat /\ v <= r + 1
        /\ \A i \in bits : ~(v <= i /\ i <= r)
    BY <2>3, <2>4, WindowIsFree
  <2>6. v + cnt <= len /\ \A i \in bits : ~(v <= i /\ i < v + cnt)
    BY <2>4, <2>5
  <2>7. ASSUME NEW u \in Nat, u < v, cnt # 0, \A i \in bits : ~(u <= i /\ i < u + cnt)
        PROVE  FALSE
    <3>1. u + cnt <= len
      BY <2>6, <2>5, <2>7
    <3>2. u + cnt - 1 \in wide
      BY <1>1, <2>7, <3>1
    <3>3. r <= u + cnt - 1
      BY <2>2, <3>2
    <3>4. QED
      BY <2>4, <2>5, <2>7, <3>3
  <2>8. QED
    BY <2>5, <2>6, <2>7
<1>4. QED
  BY <1>2, <1>3

\* The largest element of a finite set of integers, and the set without it.
LEMMA MaxOfFinite ==
    ASSUME NEW S \in SUBSET Int, IsFiniteSet(S), S # {}
    PROVE  Max(S) \in S /\ \A y \in S : y <= Max(S)
<1> DEFINE G == {n \in Nat : \A T \in SUBSET S : T # {} /\ Cardinality(T) <= n =>
                                \E b \in Int : \A x \in T : x <= b}
<1>1. 0 \in G
  <2> SUFFICES ASSUME NEW T \in SUBSET S, T # {}, Cardinality(T) <= 0 PROVE FALSE
    OBVIOUS
  <2>1. IsFiniteSet(T)
    BY FS_Subset
  <2>2. QED
    BY <2>1, FS_EmptySet, FS_CardinalityType
<1>2. ASSUME NEW n \in G PROVE n + 1 \in G
  <2> SUFFICES ASSUME NEW T \in SUBSET S, T # {}, Cardinality(T) <= n + 1
               PROVE  \E b \in Int : \A x \in T : x <= b
    BY <1>2
  <2>1. IsFiniteSet(T)
    BY FS_Subset
  <2>2. PICK t \in T : TRUE
    OBVIOUS
  <2>3. /\ IsFiniteSet(T \ {t}) /\ Cardinality(T \ {t}) = Cardinality(T) - 1
        /\ Cardinality(T) \in Nat
    BY <2>1, FS_RemoveElement, FS_CardinalityType
  <2>4. n \in Nat /\ Cardinality(T \ {t}) <= n
    BY <2>3
  <2>5. PICK b \in Int : \A x \in T \ {t} : x <= b
    BY <2>4
  <2>6. CASE t <= b
    BY <2>5, <2>6
  <2>7. CASE ~(t <= b)
    <3>1. t \in Int
      OBVIOUS
    <3>2. \A x \in T : x <= t
      BY <2>5, <2>7, <3>1
    <3>3. QED
      BY <3>1, <3>2
  <2>8. QED
    BY <2>6, <2>7
<1>3. Cardinality(S) \in G
  <2>1. G \in SUBSET Nat
    OBVIOUS
  <2> HIDE DEF G
  <2>2. QED
    BY <1>1, <1>2, <2>1, NatSetInduction, FS_CardinalityType
<1>4. PICK b \in Int : \A x \in S : x <= b
  <2>1. S \in SUBSET S /\ Cardinality(S) <= Cardinality(S)
    BY FS_CardinalityType
  <2>2. QED
    BY <1>3, <2>1
<1>5. QED
  BY <1>4, MaxInt

\* A finite set of integers is built from its elements, the lowest first.
LEMMA SetInduction ==
    ASSUME NEW P \in SUBSET Int, IsFiniteSet(P),
           NEW G \in SUBSET (SUBSET P), {} \in G,
           \A S \in SUBSET P : S # {} /\ S \ {Max(S)} \in G => S \in G
    PROVE  P \in G
<1> DEFINE H == {n \in Nat : \A S \in SUBSET P : Cardinality(S) = n => S \in G}
<1>1. 0 \in H
  BY FS_Subset, FS_EmptySet
<1>2. ASSUME NEW n \in H PROVE n + 1 \in H
  <2> SUFFICES ASSUME NEW S \in SUBSET P, Cardinality(S) = n + 1 PROVE S \in G
    BY <1>2
  <2>1. IsFiniteSet(S)
    BY FS_Subset
  <2>2. S # {}
    BY FS_EmptySet
  <2>3. Max(S) \in S
    BY <2>1, <2>2, MaxOfFinite
  <2>4. Cardinality(S \ {Max(S)}) = n
    <3>1. Cardinality(S \ {Max(S)}) = Cardinality(S) - 1 /\ n \in Nat
      BY <2>1, <2>3, FS_RemoveElement
    <3>2. QED
      BY <3>1
  <2>5. QED
    BY <2>2, <2>4
<1>3. Cardinality(P) \in H
  <2>1. H \in SUBSET Nat
    OBVIOUS
  <2> HIDE DEF H
  <2>2. QED
    BY <1>1, <1>2, <2>1, NatSetInduction, FS_CardinalityType
<1>4. QED
  BY <1>3

\* What is said of a set by what is said of it without its largest element.
Recurses(g, P, a, F) ==
    \A S \in SUBSET P : g[S] = IF S = {} THEN a ELSE F[<<Max(S), g[S \ {Max(S)}]>>]

LEMMA SetRecursion ==
    ASSUME NEW P \in SUBSET Int, IsFiniteSet(P),
           NEW X, NEW a \in X, NEW F \in [P \X X -> X]
    PROVE  \E g \in [SUBSET P -> X] : Recurses(g, P, a, F)
<1> DEFINE Of(n) == {S \in SUBSET P : Cardinality(S) <= n}
           Good(g, n) == /\ g \in [Of(n) -> X]
                         /\ \A S \in Of(n) :
                              g[S] = IF S = {} THEN a ELSE F[<<Max(S), g[S \ {Max(S)}]>>]
           H == {n \in Nat : \E g \in [Of(n) -> X] : Good(g, n)}
<1>1. \A S \in SUBSET P : IsFiniteSet(S) /\ Cardinality(S) \in Nat
  BY FS_Subset, FS_CardinalityType
<1>2. \A S \in SUBSET P : S # {} =>
         Max(S) \in S /\ Cardinality(S \ {Max(S)}) = Cardinality(S) - 1
  BY <1>1, MaxOfFinite, FS_RemoveElement
<1>3. 0 \in H
  <2> DEFINE g == [S \in Of(0) |-> a]
  <2>1. \A S \in Of(0) : S = {}
    BY <1>1, FS_EmptySet
  <2>2. Good(g, 0)
    BY <2>1
  <2>3. QED
    BY <2>2
<1>4. ASSUME NEW n \in H PROVE n + 1 \in H
  <2>1. n \in Nat
    OBVIOUS
  <2>2. PICK g \in [Of(n) -> X] : Good(g, n)
    BY <1>4
  <2> DEFINE h == [S \in Of(n + 1) |->
                     IF S = {} THEN a ELSE F[<<Max(S), g[S \ {Max(S)}]>>]]
  <2>3. \A S \in Of(n + 1) : S # {} => Max(S) \in P /\ S \ {Max(S)} \in Of(n)
    <3> SUFFICES ASSUME NEW S \in SUBSET P, Cardinality(S) <= n + 1, S # {}
                 PROVE  Max(S) \in P /\ S \ {Max(S)} \in Of(n)
      OBVIOUS
    <3>1. Max(S) \in S /\ Cardinality(S \ {Max(S)}) = Cardinality(S) - 1
      BY <1>2
    <3>2. Cardinality(S) \in Nat
      BY <1>1
    <3>3. Cardinality(S \ {Max(S)}) <= n
      BY <2>1, <3>1, <3>2
    <3>4. Max(S) \in P /\ S \ {Max(S)} \in SUBSET P
      BY <3>1
    <3>5. QED
      BY <3>3, <3>4
  <2>4. \A S \in Of(n + 1) : h[S] \in X
    BY <2>3
  <2>5. Of(n) \subseteq Of(n + 1)
    BY <1>1, <2>1
  <2>6. \A S \in Of(n) : h[S] = g[S]
    BY <2>2, <2>5
  <2>7. Good(h, n + 1)
    <3>1. h \in [Of(n + 1) -> X]
      BY <2>4
    <3>2. ASSUME NEW S \in Of(n + 1)
          PROVE  h[S] = IF S = {} THEN a ELSE F[<<Max(S), h[S \ {Max(S)}]>>]
      BY <2>3, <2>6
    <3> HIDE DEF h
    <3>3. QED
      BY <3>1, <3>2
  <2>8. n + 1 \in Nat /\ h \in [Of(n + 1) -> X]
    BY <2>1, <2>7
  <2> HIDE DEF h, Good
  <2>9. QED
    BY <2>7, <2>8
<1>5. Cardinality(P) \in H
  <2>1. H \in SUBSET Nat
    OBVIOUS
  <2> HIDE DEF H
  <2>2. QED
    BY <1>3, <1>4, <2>1, NatSetInduction, FS_CardinalityType
<1>6. PICK g : Good(g, Cardinality(P))
  BY <1>5
<1>7. Of(Cardinality(P)) = SUBSET P
  BY FS_Subset
<1>8. QED
  BY <1>6, <1>7 DEF Recurses

-----------------------------------------------------------------------------
(* The memory: its type, and the steps of GetPages and WithoutPage. *)

Pools == {"kernel", "user"}

\* A page directory or a part of it: functions from numbers to numbers.
Maps == UNION {[D -> Int] : D \in SUBSET Int}

MemSet == [pool   : [Pools -> SUBSET Int],
           vpool  : [Spaces -> SUBSET Int],
           map    : [Spaces -> Maps],
           tables : [Procs -> Maps],
           err    : {"none", "nomem", "fault", "assert"}]

LEMMA IsMap ==
    ASSUME NEW f \in Maps
    PROVE  /\ DOMAIN f \in SUBSET Int
           /\ f = [x \in DOMAIN f |-> f[x]]
           /\ \A x \in DOMAIN f : f[x] \in Int
BY DEF Maps

LEMMA MakesMap ==
    ASSUME NEW D \in SUBSET Int, NEW f \in [D -> Int]
    PROVE  f \in Maps
BY DEF Maps

LEMMA WithMap ==
    ASSUME NEW f \in Maps, NEW x \in Int, NEW y \in Int
    PROVE  /\ With(f, x, y) \in Maps
           /\ DOMAIN With(f, x, y) = DOMAIN f \cup {x}
           /\ With(f, x, y)[x] = y
           /\ \A z \in DOMAIN f : z # x => With(f, x, y)[z] = f[z]
<1>1. DOMAIN f \cup {x} \in SUBSET Int
  BY IsMap
<1>2. With(f, x, y) \in [DOMAIN f \cup {x} -> Int]
  BY IsMap DEF With
<1>3. QED
  BY <1>1, <1>2, MakesMap DEF With

LEMMA PartMap ==
    ASSUME NEW f \in Maps, NEW A
    PROVE  /\ [x \in DOMAIN f \ A |-> f[x]] \in Maps
           /\ DOMAIN [x \in DOMAIN f \ A |-> f[x]] = DOMAIN f \ A
<1>1. DOMAIN f \ A \in SUBSET Int /\ [x \in DOMAIN f \ A |-> f[x]] \in [DOMAIN f \ A -> Int]
  BY IsMap
<1>2. QED
  BY <1>1, MakesMap

LEMMA PallocSpec ==
    ASSUME NEW m \in MemSet, NEW q \in Pools
    PROVE  /\ Palloc(m, q) \in Int
           /\ Palloc(m, q) = -1 \/ (Palloc(m, q) \in Nat /\ Palloc(m, q) \notin m.pool[q])
<1>1. m.pool[q] \in SUBSET Int /\ PoolLen[q] \in Nat
  BY MemoryAssumption DEF MemSet, Pools
<1> DEFINE v == BitMapAllocate(m.pool[q], PoolLen[q], 1)
<1>2. v = -1 \/ (v \in Nat /\ \A i \in m.pool[q] : ~(v <= i /\ i < v + 1))
  BY <1>1, AllocatesFirstFree
<1>3. Palloc(m, q) = v
  BY DEF Palloc
<1> HIDE DEF v
<1>4. v \in Nat => v \notin m.pool[q]
  BY <1>1, <1>2
<1>5. -1 \in Int
  OBVIOUS
<1>6. QED
  BY <1>2, <1>3, <1>4, <1>5

LEMMA VaddrSpec ==
    ASSUME NEW m \in MemSet, NEW s \in Spaces, NEW n \in Nat
    PROVE  \/ VaddrGet(m, s, n) = -1
           \/ VaddrGet(m, s, n) \in Nat /\ Area(VaddrGet(m, s, n), n) \cap m.vpool[s] = {}
<1>1. m.vpool[s] \in SUBSET Int /\ SpaceLen[Owner(s)] \in Nat
  BY MemoryAssumption DEF MemSet, Owner
<1> DEFINE v == BitMapAllocate(m.vpool[s], SpaceLen[Owner(s)], n)
<1>2. v = -1 \/ (v \in Nat /\ \A i \in m.vpool[s] : ~(v <= i /\ i < v + n))
  BY <1>1, AllocatesFirstFree
<1>3. VaddrGet(m, s, n) = v
  BY DEF VaddrGet
<1> HIDE DEF v
<1>4. v \in Nat => Area(v, n) \cap m.vpool[s] = {}
  BY <1>1, <1>2 DEF Area
<1>5. QED
  BY <1>2, <1>3, <1>4

LEMMA SpaceTypes ==
    /\ \A s \in Spaces : Owner(s) \in Pools
    /\ Kernel \in Spaces /\ Owner(Kernel) = "kernel" /\ Kernel \notin Procs
    /\ \A p \in Procs : p \in Spaces /\ p # Kernel /\ Owner(p) = "user"
    /\ \A s \in Spaces : s # Kernel => s \in Procs
    /\ \A s \in Spaces : s \in Procs => s # Kernel
BY MemoryAssumption DEF Spaces, Owner, Pools

LEMMA TableInt ==
    ASSUME NEW v \in Int
    PROVE  Table(v) \in Int
BY MemoryAssumption DEF Table

\* The ways GetOnePage can go.  A page v of space s gets the physical page x,
\* and perhaps a page table first, in page t.
Mapped(m, r, s, v, x) ==
    /\ r.vpool = [m.vpool EXCEPT ![s] = @ \cup {v}]
    /\ x \in Nat /\ x \notin m.pool[Owner(s)]
    /\ v \notin DOMAIN m.map[s]
    /\ r.map = [m.map EXCEPT ![s] = With(@, v, x)]
    /\ r.err = "none"

PageOnly(m, r, s, x) ==
    /\ r.pool = [m.pool EXCEPT ![Owner(s)] = @ \cup {x}]
    /\ r.tables = m.tables

WithTable(m, r, s, v, x, t) ==
    /\ s \in Procs
    /\ t \in Nat /\ t \notin m.pool["kernel"]
    /\ Table(v) \notin DOMAIN m.tables[s]
    /\ r.pool = [m.pool EXCEPT !["user"] = @ \cup {x}, !["kernel"] = @ \cup {t}]
    /\ r.tables = [m.tables EXCEPT ![s] = With(@, Table(v), t)]

NoPage(m, r, s, v) ==
    /\ r.err = "nomem" /\ r.pool = m.pool /\ r.map = m.map /\ r.tables = m.tables
    /\ r.vpool = [m.vpool EXCEPT ![s] = @ \cup {v}]

Outcome(m, r, s, v) ==
    \/ NoPage(m, r, s, v)
    \/ r.err = "fault" /\ s # Kernel
    \/ r.err = "assert" /\ v \in DOMAIN m.map[s]
    \/ \E x \in Int : Mapped(m, r, s, v, x) /\ PageOnly(m, r, s, x)
    \/ \E x, t \in Int : Mapped(m, r, s, v, x) /\ WithTable(m, r, s, v, x, t)

LEMMA OnePage ==
    ASSUME NEW m \in MemSet, m.err = "none", NEW s \in Spaces, NEW v \in Int
    PROVE  /\ GetOnePage(m, s, v) \in MemSet
           /\ Outcome(m, GetOnePage(m, s, v), s, v)
<1> DEFINE r == GetOnePage(m, s, v)
           o == Owner(s)
           m1 == [m EXCEPT !.vpool[s] = @ \cup {v}]
           x == Palloc(m1, o)
           m2 == [m1 EXCEPT !.pool[o] = @ \cup {x}]
           t == Palloc(m2, "kernel")
<1>1. m1 \in MemSet /\ o \in Pools /\ "kernel" \in Pools
  BY SpaceTypes DEF MemSet, Pools
<1>2. x \in Int /\ (x = -1 \/ (x \in Nat /\ x \notin m.pool[o]))
  <2>1. m1.pool = m.pool
    BY DEF MemSet
  <2>2. QED
    BY <1>1, <2>1, PallocSpec
<1>3. m2 \in MemSet
  <2>1. m1.pool[o] \cup {x} \in SUBSET Int
    BY <1>1, <1>2 DEF MemSet
  <2> HIDE DEF m1, x, o
  <2>2. QED
    BY <1>1, <2>1 DEF MemSet
<1>4. t \in Int /\ (t = -1 \/ (t \in Nat /\ t \notin m2.pool["kernel"]))
  BY <1>1, <1>3, PallocSpec
<1>5. /\ m2.vpool = [m.vpool EXCEPT ![s] = @ \cup {v}] /\ m2.map = m.map
      /\ m2.tables = m.tables /\ m2.pool = [m.pool EXCEPT ![o] = @ \cup {x}]
      /\ m2.err = "none"
  BY DEF MemSet
<1> DEFINE Goal == r \in MemSet /\ Outcome(m, r, s, v)
<1>6. ASSUME x = -1 PROVE Goal
  <2>1. r = [m1 EXCEPT !.err = "nomem"]
    BY <1>6 DEF GetOnePage, MapPage
  <2>2. /\ m1.vpool = [m.vpool EXCEPT ![s] = @ \cup {v}] /\ m1.map = m.map
        /\ m1.tables = m.tables /\ m1.pool = m.pool
    BY DEF MemSet
  <2>3. r \in MemSet /\ NoPage(m, r, s, v)
    <3> HIDE DEF m1, r
    <3>1. QED
      BY <1>1, <2>1, <2>2 DEF MemSet, NoPage
  <2> HIDE DEF r
  <2>4. QED
    BY <2>3 DEF Outcome
<1>7. ASSUME x # -1 PROVE Goal
  <2>1. r = AddToPageTable(m2, s, x, v)
    BY <1>7 DEF GetOnePage, MapPage
  <2> DEFINE mapped == [m2 EXCEPT !.map[s] = With(@, v, x)]
  <2>2. m2.map[s] \in Maps /\ With(m2.map[s], v, x) \in Maps
    BY <1>2, <1>3, WithMap DEF MemSet
  <2>3. mapped \in MemSet
    <3> HIDE DEF m2
    <3>1. QED
      BY <1>3, <2>2 DEF MemSet
  <2>4. /\ mapped.vpool = m2.vpool /\ mapped.pool = m2.pool /\ mapped.tables = m2.tables
        /\ mapped.map = [m2.map EXCEPT ![s] = With(@, v, x)] /\ mapped.err = "none"
    <3> HIDE DEF m2
    <3>1. QED
      BY <1>3, <1>5 DEF MemSet
  <2>5. CASE v \in DOMAIN m2.map[s]
    <3>1. r = [m2 EXCEPT !.err = "assert"]
      BY <2>1, <2>5 DEF AddToPageTable
    <3>2. r \in MemSet /\ r.err = "assert"
      <4> HIDE DEF m2, r
      <4>1. QED
        BY <1>3, <3>1 DEF MemSet
    <3> HIDE DEF m2, r
    <3>3. QED
      BY <1>5, <2>5, <3>2 DEF Outcome
  <2>6. CASE v \notin DOMAIN m2.map[s] /\ HasTable(m2, s, v)
    <3>1. r = mapped
      BY <2>1, <2>6 DEF AddToPageTable
    <3>2. Mapped(m, r, s, v, x) /\ PageOnly(m, r, s, x)
      <4> HIDE DEF m2, r, mapped, x
      <4>1. QED
        BY <1>2, <1>5, <1>7, <2>4, <2>6, <3>1 DEF Mapped, PageOnly
    <3> HIDE DEF r, mapped, x
    <3>3. QED
      BY <1>2, <2>3, <3>1, <3>2 DEF Outcome
  <2>7. CASE v \notin DOMAIN m2.map[s] /\ ~HasTable(m2, s, v) /\ t = -1
    <3>1. r = [m2 EXCEPT !.err = "fault"]
      BY <2>1, <2>7 DEF AddToPageTable
    <3>2. r \in MemSet /\ r.err = "fault"
      <4> HIDE DEF m2, r
      <4>1. QED
        BY <1>3, <3>1 DEF MemSet
    <3>3. s # Kernel
      BY <2>7 DEF HasTable
    <3> HIDE DEF r
    <3>4. QED
      BY <3>2, <3>3 DEF Outcome
  <2>8. CASE v \notin DOMAIN m2.map[s] /\ ~HasTable(m2, s, v) /\ t # -1
    <3>1. r = [mapped EXCEPT !.pool["kernel"] = @ \cup {t},
                             !.tables[s] = With(@, Table(v), t)]
      BY <2>1, <2>8 DEF AddToPageTable
    <3>2. s \in Procs /\ o = "user"
      BY <2>8, SpaceTypes DEF HasTable
    <3>3. m2.tables[s] \in Maps /\ With(m2.tables[s], Table(v), t) \in Maps
      BY <1>3, <1>4, <3>2, TableInt, WithMap DEF MemSet
    <3>4. m2.pool["kernel"] \cup {t} \in SUBSET Int
      <4> HIDE DEF m2, t
      <4>1. QED
        BY <1>1, <1>3, <1>4 DEF MemSet
    <3>5. /\ r \in MemSet /\ r.err = "none" /\ r.vpool = m2.vpool /\ r.map = mapped.map
          /\ r.pool = [m2.pool EXCEPT !["kernel"] = @ \cup {t}]
          /\ r.tables = [m2.tables EXCEPT ![s] = With(@, Table(v), t)]
      <4> HIDE DEF m2, r, mapped, t
      <4>1. mapped.pool["kernel"] \cup {t} \in SUBSET Int /\ With(mapped.tables[s], Table(v), t) \in Maps
        BY <2>4, <3>3, <3>4
      <4>2. QED
        BY <2>3, <2>4, <3>1, <3>2, <4>1 DEF MemSet
    <3>6. t \in Nat /\ t \notin m.pool["kernel"]
      <4> HIDE DEF m2, t, x
      <4>1. m2.pool["kernel"] = m.pool["kernel"]
        BY <1>1, <1>5, <3>2 DEF MemSet
      <4>2. QED
        BY <1>4, <2>8, <4>1
    <3>7. Table(v) \notin DOMAIN m.tables[s]
      BY <1>5, <2>8 DEF HasTable
    <3>8. Mapped(m, r, s, v, x)
      <4> HIDE DEF m2, r, mapped, x, t
      <4>1. QED
        BY <1>2, <1>5, <1>7, <2>4, <2>8, <3>5 DEF Mapped
    <3>9. WithTable(m, r, s, v, x, t)
      <4> HIDE DEF m2, r, mapped, x, t
      <4>1. r.pool = [m.pool EXCEPT !["user"] = @ \cup {x}, !["kernel"] = @ \cup {t}]
        BY <1>5, <3>2, <3>5 DEF MemSet, Pools
      <4>2. QED
        BY <1>5, <3>2, <3>5, <3>6, <3>7, <4>1 DEF WithTable
    <3> HIDE DEF r, x, t, mapped, m2
    <3>10. QED
      BY <1>2, <1>4, <3>5, <3>8, <3>9 DEF Outcome
  <2> HIDE DEF Goal, m2, t
  <2>9. QED
    BY <2>5, <2>6, <2>7, <2>8
<1>8. Goal
  <2> HIDE DEF Goal, x
  <2>1. QED
    BY <1>6, <1>7
<1>9. QED
  BY <1>8

\* GetPages goes up through the pages, one GetOnePage after another.
Steps(g, m, s, P) ==
    /\ g[{}] = m
    /\ \A S \in SUBSET P : S # {} =>
          g[S] = IF g[S \ {Max(S)}].err = "none"
                 THEN GetOnePage(g[S \ {Max(S)}], s, Max(S)) ELSE g[S \ {Max(S)}]

InSteps(m, s, P) ==
    \E g \in [SUBSET P -> MemSet] : Steps(g, m, s, P) /\ GetPages(m, s, P) = g[P]

LEMMA GetPagesSteps ==
    ASSUME NEW m \in MemSet, NEW s \in Spaces, NEW P \in SUBSET Int, IsFiniteSet(P)
    PROVE  InSteps(m, s, P)
<1> DEFINE F == [z \in P \X MemSet |->
                   IF z[2].err = "none" THEN GetOnePage(z[2], s, z[1]) ELSE z[2]]
<1>1. F \in [P \X MemSet -> MemSet]
  BY OnePage
<1>2. PICK g \in [SUBSET P -> MemSet] :
         \A S \in SUBSET P : g[S] = IF S = {} THEN m ELSE F[<<Max(S), g[S \ {Max(S)}]>>]
  <2>1. PICK X : X = MemSet
    OBVIOUS
  <2>2. PICK H : H = F
    OBVIOUS
  <2>3. m \in X /\ H \in [P \X X -> X]
    BY <1>1, <2>1, <2>2
  <2>4. \E g \in [SUBSET P -> X] : Recurses(g, P, m, H)
    BY <2>3, SetRecursion
  <2> HIDE DEF F
  <2>5. QED
    BY <2>1, <2>2, <2>4 DEF Recurses
<1>3. \A S \in SUBSET P : S # {} => Max(S) \in S
  BY FS_Subset, MaxOfFinite
<1> DEFINE Step(v, acc) == IF acc.err = "none" THEN GetOnePage(acc, s, v) ELSE acc
<1>4. \A S \in SUBSET P : S # {} => g[S] = Step(Max(S), g[S \ {Max(S)}])
  <2> SUFFICES ASSUME NEW S \in SUBSET P, S # {}
               PROVE  g[S] = Step(Max(S), g[S \ {Max(S)}])
    OBVIOUS
  <2>1. PICK x \in P : x = Max(S)
    BY <1>3
  <2>2. PICK acc \in MemSet : acc = g[S \ {x}]
    OBVIOUS
  <2>3. F[<<x, acc>>] = Step(x, acc)
    OBVIOUS
  <2> HIDE DEF F, Step
  <2>4. QED
    BY <1>2, <2>1, <2>2, <2>3
<1> DEFINE body(h) == [S \in SUBSET P |-> IF S = {} THEN m ELSE Step(Max(S), h[S \ {Max(S)}])]
           iter == CHOOSE h : h = body(h)
<1>5. g = body(g)
  <2> HIDE DEF Step, F
  <2>1. QED
    BY <1>2, <1>4
<1>6. iter = body(iter)
  <2> HIDE DEF body
  <2>1. QED
    BY <1>5
<1>7. \A S \in SUBSET P : iter[S] = IF S = {} THEN m ELSE Step(Max(S), iter[S \ {Max(S)}])
  <2> HIDE DEF iter, Step
  <2>1. QED
    BY <1>6
<1>8. P \in {S \in SUBSET P : iter[S] = g[S]}
  <2> DEFINE G == {S \in SUBSET P : iter[S] = g[S]}
  <2> HIDE DEF iter, Step, F
  <2>1. {} \in G
    BY <1>2, <1>7
  <2>2. ASSUME NEW S \in SUBSET P, S # {}, S \ {Max(S)} \in G PROVE S \in G
    BY <1>4, <1>7, <2>2
  <2>3. G \in SUBSET (SUBSET P)
    OBVIOUS
  <2> HIDE DEF G
  <2>4. P \in G
    BY <2>1, <2>2, <2>3, SetInduction
  <2>5. QED
    BY <2>4 DEF G
<1>9. GetPages(m, s, P) = iter[P]
  BY DEF GetPages, MapThenFoldSet
<1>10. g[{}] = m
  BY <1>2
<1>11. QED
  <2> HIDE DEF iter, F
  <2>1. QED
    BY <1>4, <1>8, <1>9, <1>10 DEF Steps, InSteps

-----------------------------------------------------------------------------
(* The pages: what every call keeps. *)

\* Every page that is mapped, or holds a page table, is taken from its pool, ...
Owned(m) ==
    /\ \A s \in Spaces : \A v \in DOMAIN m.map[s] : m.map[s][v] \in m.pool[Owner(s)]
    /\ \A p \in Procs : \A t \in DOMAIN m.tables[p] : m.tables[p][t] \in m.pool["kernel"]

\* ... none of them twice, ...
Apart(m) ==
    /\ \A s1, s2 \in Spaces : \A v1 \in DOMAIN m.map[s1], v2 \in DOMAIN m.map[s2] :
          Owner(s1) = Owner(s2) /\ m.map[s1][v1] = m.map[s2][v2] => s1 = s2 /\ v1 = v2
    /\ \A p1, p2 \in Procs : \A t1 \in DOMAIN m.tables[p1], t2 \in DOMAIN m.tables[p2] :
          m.tables[p1][t1] = m.tables[p2][t2] => p1 = p2 /\ t1 = t2
    /\ \A v \in DOMAIN m.map[Kernel], p \in Procs : \A t \in DOMAIN m.tables[p] :
          m.map[Kernel][v] # m.tables[p][t]

\* ... and no other page is taken.
AllUsed(m) ==
    /\ \A x \in m.pool["user"] : \E p \in Procs : \E v \in DOMAIN m.map[p] : m.map[p][v] = x
    /\ \A x \in m.pool["kernel"] :
          \/ \E v \in DOMAIN m.map[Kernel] : m.map[Kernel][v] = x
          \/ \E p \in Procs : \E t \in DOMAIN m.tables[p] : m.tables[p][t] = x

\* The bit of a page that is mapped is set.
Finite(m) ==
    /\ \A q \in Pools : IsFiniteSet(m.pool[q])
    /\ \A s \in Spaces : IsFiniteSet(m.vpool[s]) /\ DOMAIN m.map[s] \subseteq m.vpool[s]

PageSound(m) == Finite(m) /\ Owned(m) /\ Apart(m) /\ AllUsed(m)

LEMMA NoPageSound ==
    ASSUME NEW m \in MemSet, NEW r \in MemSet, NEW s \in Spaces, NEW v \in Int,
           PageSound(m), NoPage(m, r, s, v)
    PROVE  PageSound(r)
<1>1. Finite(r)
  <2>1. \A u \in Spaces : r.vpool[u] = m.vpool[u] \/ r.vpool[u] = m.vpool[u] \cup {v}
    BY DEF NoPage, MemSet
  <2>2. \A u \in Spaces : IsFiniteSet(m.vpool[u]) /\ IsFiniteSet(m.vpool[u] \cup {v})
    BY FS_AddElement DEF PageSound, Finite
  <2>3. \A u \in Spaces : IsFiniteSet(r.vpool[u]) /\ DOMAIN r.map[u] \subseteq r.vpool[u]
    <3> SUFFICES ASSUME NEW u \in Spaces
                 PROVE  IsFiniteSet(r.vpool[u]) /\ DOMAIN r.map[u] \subseteq r.vpool[u]
      OBVIOUS
    <3>1. r.map[u] = m.map[u] /\ DOMAIN m.map[u] \subseteq m.vpool[u]
      BY DEF NoPage, PageSound, Finite
    <3>2. QED
      BY <2>1, <2>2, <3>1
  <2>4. QED
    BY <2>3 DEF NoPage, PageSound, Finite
<1>2. QED
  BY <1>1 DEF NoPage, PageSound, Owned, Apart, AllUsed

\* What adding page v of space s, in physical page x, does to the maps.
LEMMA AddedMap ==
    ASSUME NEW m \in MemSet, NEW r \in MemSet, NEW s \in Spaces, NEW v \in Int, NEW x \in Int,
           Mapped(m, r, s, v, x)
    PROVE  /\ DOMAIN r.map[s] = DOMAIN m.map[s] \cup {v}
           /\ r.map[s][v] = x
           /\ \A w \in DOMAIN m.map[s] : w # v /\ r.map[s][w] = m.map[s][w]
           /\ \A u \in Spaces : u # s => r.map[u] = m.map[u]
<1>1. m.map[s] \in Maps /\ r.map[s] = With(m.map[s], v, x)
  BY DEF Mapped, MemSet
<1>2. \A u \in Spaces : u # s => r.map[u] = m.map[u]
  BY DEF Mapped, MemSet
<1>3. v \notin DOMAIN m.map[s]
  BY DEF Mapped
<1>4. PICK f \in Maps : f = m.map[s]
  BY <1>1
<1>5. /\ DOMAIN r.map[s] = DOMAIN f \cup {v}
      /\ r.map[s][v] = x
      /\ \A z \in DOMAIN f : z # v => r.map[s][z] = f[z]
  <2>1. PICK h : h = With(f, v, x)
    OBVIOUS
  <2>2. DOMAIN h = DOMAIN f \cup {v} /\ h[v] = x /\ \A z \in DOMAIN f : z # v => h[z] = f[z]
    BY <2>1, WithMap
  <2>3. r.map[s] = h
    BY <1>1, <1>4, <2>1
  <2>4. QED
    BY <2>2, <2>3
<1>6. \A w \in DOMAIN f : w # v
  BY <1>3, <1>4
<1>7. QED
  BY <1>2, <1>4, <1>5, <1>6

LEMMA AddedFinite ==
    ASSUME NEW m \in MemSet, NEW r \in MemSet, NEW s \in Spaces, NEW v \in Int, NEW x \in Int,
           Finite(m), Mapped(m, r, s, v, x), \A q \in Pools : IsFiniteSet(r.pool[q])
    PROVE  Finite(r)
<1>1. /\ r.vpool[s] = m.vpool[s] \cup {v}
      /\ \A u \in Spaces : u # s => r.vpool[u] = m.vpool[u]
  BY DEF Mapped, MemSet
<1>2. IsFiniteSet(r.vpool[s]) /\ DOMAIN r.map[s] \subseteq r.vpool[s]
  <2>1. IsFiniteSet(m.vpool[s]) /\ DOMAIN m.map[s] \subseteq m.vpool[s]
    BY DEF Finite
  <2>2. IsFiniteSet(m.vpool[s] \cup {v})
    BY <2>1, FS_AddElement
  <2>3. DOMAIN r.map[s] = DOMAIN m.map[s] \cup {v}
    BY AddedMap
  <2>4. QED
    BY <1>1, <2>1, <2>2, <2>3
<1>3. \A u \in Spaces : u # s => IsFiniteSet(r.vpool[u]) /\ DOMAIN r.map[u] \subseteq r.vpool[u]
  BY <1>1, AddedMap DEF Finite
<1>4. QED
  BY <1>2, <1>3 DEF Finite

\* A page of the pool of the space, and no page table.
LEMMA PageOnlySound ==
    ASSUME NEW m \in MemSet, NEW r \in MemSet, NEW s \in Spaces, NEW v \in Int, NEW x \in Int,
           PageSound(m), Mapped(m, r, s, v, x), PageOnly(m, r, s, x)
    PROVE  PageSound(r)
<1> DEFINE o == Owner(s)
<1>1. /\ o \in Pools /\ r.pool[o] = m.pool[o] \cup {x}
      /\ \A q \in Pools : q # o => r.pool[q] = m.pool[q]
      /\ r.tables = m.tables /\ x \notin m.pool[o]
  BY SpaceTypes DEF PageOnly, Mapped, MemSet
<1> HIDE DEF o
<1>2. Finite(r)
  <2>1. \A q \in Pools : IsFiniteSet(r.pool[q])
    BY <1>1, FS_AddElement DEF PageSound, Finite
  <2>2. QED
    BY <2>1, AddedFinite DEF PageSound
<1>3. /\ DOMAIN r.map[s] = DOMAIN m.map[s] \cup {v}
      /\ r.map[s][v] = x
      /\ \A w \in DOMAIN m.map[s] : w # v /\ r.map[s][w] = m.map[s][w]
      /\ \A u \in Spaces : u # s => r.map[u] = m.map[u]
  BY AddedMap
<1>4. Owned(r)
  <2>1. ASSUME NEW u \in Spaces, NEW w \in DOMAIN r.map[u]
        PROVE  r.map[u][w] \in r.pool[Owner(u)]
    <3>1. CASE u = s /\ w = v
      BY <1>1, <1>3, <3>1 DEF o
    <3>2. CASE ~(u = s /\ w = v)
      <4>1. w \in DOMAIN m.map[u] /\ r.map[u][w] = m.map[u][w]
        BY <1>3, <3>2
      <4>2. m.map[u][w] \in m.pool[Owner(u)] /\ Owner(u) \in Pools
        BY <4>1, SpaceTypes DEF PageSound, Owned
      <4>3. QED
        BY <1>1, <4>1, <4>2
    <3>3. QED
      BY <3>1, <3>2
  <2>2. \A p \in Procs : \A t \in DOMAIN r.tables[p] : r.tables[p][t] \in r.pool["kernel"]
    BY <1>1 DEF PageSound, Owned, Pools
  <2>3. QED
    BY <2>1, <2>2 DEF Owned
<1>5. Apart(r)
  <2>1. ASSUME NEW s1 \in Spaces, NEW s2 \in Spaces,
               NEW v1 \in DOMAIN r.map[s1], NEW v2 \in DOMAIN r.map[s2],
               Owner(s1) = Owner(s2), r.map[s1][v1] = r.map[s2][v2]
        PROVE  s1 = s2 /\ v1 = v2
    <3>1. \A u \in Spaces : \A w \in DOMAIN r.map[u] :
             \/ u = s /\ w = v /\ r.map[u][w] = x
             \/ /\ w \in DOMAIN m.map[u] /\ r.map[u][w] = m.map[u][w]
                /\ (Owner(u) = o => m.map[u][w] # x)
      BY <1>1, <1>3 DEF PageSound, Owned
    <3>2. CASE v1 \in DOMAIN m.map[s1] /\ v2 \in DOMAIN m.map[s2]
      <4>1. r.map[s1][v1] = m.map[s1][v1] /\ r.map[s2][v2] = m.map[s2][v2]
        BY <1>3, <3>2
      <4>2. m.map[s1][v1] = m.map[s2][v2]
        BY <2>1, <4>1
      <4>3. QED
        BY <2>1, <3>2, <4>2, Zenon DEF PageSound, Apart
    <3>3. ASSUME v1 \notin DOMAIN m.map[s1] PROVE s1 = s2 /\ v1 = v2
      <4>1. s1 = s /\ v1 = v /\ r.map[s1][v1] = x /\ Owner(s2) = o
        BY <2>1, <3>1, <3>3 DEF o
      <4>2. \/ s2 = s /\ v2 = v
            \/ r.map[s2][v2] # x
        BY <3>1, <4>1 DEF o
      <4>3. QED
        BY <2>1, <4>1, <4>2
    <3>4. ASSUME v2 \notin DOMAIN m.map[s2] PROVE s1 = s2 /\ v1 = v2
      <4>1. s2 = s /\ v2 = v /\ r.map[s2][v2] = x /\ Owner(s1) = o
        BY <2>1, <3>1, <3>4 DEF o
      <4>2. \/ s1 = s /\ v1 = v
            \/ r.map[s1][v1] # x
        BY <3>1, <4>1
      <4>3. QED
        BY <2>1, <4>1, <4>2
    <3>5. QED
      BY <3>2, <3>3, <3>4
  <2>2. \A p1, p2 \in Procs : \A t1 \in DOMAIN r.tables[p1], t2 \in DOMAIN r.tables[p2] :
           r.tables[p1][t1] = r.tables[p2][t2] => p1 = p2 /\ t1 = t2
    BY <1>1 DEF PageSound, Apart
  <2>3. ASSUME NEW w \in DOMAIN r.map[Kernel], NEW p \in Procs, NEW t \in DOMAIN r.tables[p]
        PROVE  r.map[Kernel][w] # r.tables[p][t]
    <3>1. r.tables[p][t] = m.tables[p][t] /\ m.tables[p][t] \in m.pool["kernel"] /\ t \in DOMAIN m.tables[p]
      BY <1>1 DEF PageSound, Owned
    <3>2. CASE s = Kernel /\ w = v
      BY <1>1, <1>3, <3>1, <3>2, SpaceTypes DEF o
    <3>3. CASE ~(s = Kernel /\ w = v)
      <4>1. w \in DOMAIN m.map[Kernel] /\ r.map[Kernel][w] = m.map[Kernel][w]
        BY <1>3, <3>3, SpaceTypes
      <4>2. QED
        BY <3>1, <4>1 DEF PageSound, Apart
    <3>4. QED
      BY <3>2, <3>3
  <2>4. QED
    BY <2>1, <2>2, <2>3 DEF Apart
<1>6. AllUsed(r)
  <2>1. ASSUME NEW y \in r.pool["user"]
        PROVE  \E p \in Procs : \E w \in DOMAIN r.map[p] : r.map[p][w] = y
    <3>1. CASE y \in m.pool["user"]
      <4>1. PICK p \in Procs : \E w \in DOMAIN m.map[p] : m.map[p][w] = y
        BY <3>1 DEF PageSound, AllUsed
      <4>2. PICK w \in DOMAIN m.map[p] : m.map[p][w] = y
        BY <4>1
      <4>3. w \in DOMAIN r.map[p] /\ r.map[p][w] = y
        BY <1>3, <4>2, SpaceTypes
      <4>4. QED
        BY <4>3
    <3>2. CASE y \notin m.pool["user"]
      <4>1. y = x /\ o = "user"
        BY <1>1, <3>2 DEF Pools
      <4>2. s \in Procs
        BY <4>1, SpaceTypes DEF o
      <4>3. QED
        BY <1>3, <4>1, <4>2
    <3>3. QED
      BY <3>1, <3>2
  <2>2. ASSUME NEW y \in r.pool["kernel"]
        PROVE  \/ \E w \in DOMAIN r.map[Kernel] : r.map[Kernel][w] = y
               \/ \E p \in Procs : \E t \in DOMAIN r.tables[p] : r.tables[p][t] = y
    <3>1. CASE y \in m.pool["kernel"]
      <4>1. CASE \E w \in DOMAIN m.map[Kernel] : m.map[Kernel][w] = y
        BY <1>3, <4>1, SpaceTypes
      <4>2. CASE ~(\E w \in DOMAIN m.map[Kernel] : m.map[Kernel][w] = y)
        BY <1>1, <3>1, <4>2 DEF PageSound, AllUsed
      <4>3. QED
        BY <4>1, <4>2
    <3>2. CASE y \notin m.pool["kernel"]
      <4>1. y = x /\ o = "kernel"
        BY <1>1, <3>2 DEF Pools
      <4>2. s = Kernel
        BY <4>1, SpaceTypes DEF o
      <4>3. QED
        BY <1>3, <4>1, <4>2
    <3>3. QED
      BY <3>1, <3>2
  <2>3. QED
    BY <2>1, <2>2 DEF AllUsed
<1>7. QED
  BY <1>2, <1>4, <1>5, <1>6 DEF PageSound

\* A page table t for entry e of the directory of a process, and nothing else.
LEMMA TableSound ==
    ASSUME NEW m \in MemSet, NEW r \in MemSet, NEW p \in Procs, NEW e \in Int, NEW t \in Int,
           PageSound(m), t \notin m.pool["kernel"], e \notin DOMAIN m.tables[p],
           r.vpool = m.vpool, r.map = m.map,
           r.pool = [m.pool EXCEPT !["kernel"] = @ \cup {t}],
           r.tables = [m.tables EXCEPT ![p] = With(@, e, t)]
    PROVE  PageSound(r)
<1>1. /\ r.pool["kernel"] = m.pool["kernel"] \cup {t}
      /\ r.pool["user"] = m.pool["user"]
  BY DEF MemSet, Pools
<1>2. /\ DOMAIN r.tables[p] = DOMAIN m.tables[p] \cup {e}
      /\ r.tables[p][e] = t
      /\ \A w \in DOMAIN m.tables[p] : w # e /\ r.tables[p][w] = m.tables[p][w]
      /\ \A u \in Procs : u # p => r.tables[u] = m.tables[u]
  <2>1. PICK f \in Maps : f = m.tables[p]
    BY DEF MemSet
  <2>2. PICK h : h = With(f, e, t)
    OBVIOUS
  <2>3. DOMAIN h = DOMAIN f \cup {e} /\ h[e] = t /\ \A z \in DOMAIN f : z # e => h[z] = f[z]
    <3>1. h = [z \in DOMAIN f \cup {e} |-> IF z = e THEN t ELSE f[z]]
      BY <2>2 DEF With
    <3>2. QED
      BY <3>1
  <2>4. r.tables[p] = h /\ \A u \in Procs : u # p => r.tables[u] = m.tables[u]
    BY <2>1, <2>2 DEF MemSet
  <2>5. \A w \in DOMAIN f : w # e
    BY <2>1
  <2>6. QED
    BY <2>1, <2>3, <2>4, <2>5
<1>3. Finite(r)
  <2>1. \A q \in Pools : IsFiniteSet(r.pool[q])
    BY <1>1, FS_AddElement DEF PageSound, Finite, Pools
  <2>2. QED
    BY <2>1 DEF PageSound, Finite
<1>4. \A u \in Procs : \A w \in DOMAIN r.tables[u] :
         \/ u = p /\ w = e /\ r.tables[u][w] = t
         \/ /\ w \in DOMAIN m.tables[u] /\ r.tables[u][w] = m.tables[u][w]
            /\ m.tables[u][w] \in m.pool["kernel"]
  BY <1>2 DEF PageSound, Owned
<1>5. \A u \in Spaces : \A w \in DOMAIN m.map[u] : m.map[u][w] \in m.pool[Owner(u)]
  BY DEF PageSound, Owned
<1>6. Owned(r)
  <2>1. \A u \in Spaces : m.pool[Owner(u)] \subseteq r.pool[Owner(u)]
    BY <1>1, SpaceTypes DEF Pools
  <2>2. QED
    BY <1>1, <1>4, <1>5, <2>1 DEF Owned
<1>7. Apart(r)
  <2>1. ASSUME NEW p1 \in Procs, NEW p2 \in Procs,
               NEW t1 \in DOMAIN r.tables[p1], NEW t2 \in DOMAIN r.tables[p2],
               r.tables[p1][t1] = r.tables[p2][t2]
        PROVE  p1 = p2 /\ t1 = t2
    <3>1. CASE /\ t1 \in DOMAIN m.tables[p1] /\ r.tables[p1][t1] = m.tables[p1][t1]
               /\ t2 \in DOMAIN m.tables[p2] /\ r.tables[p2][t2] = m.tables[p2][t2]
      <4>1. m.tables[p1][t1] = m.tables[p2][t2]
        BY <2>1, <3>1
      <4>2. QED
        <5>1. \A q1, q2 \in Procs : \A z1 \in DOMAIN m.tables[q1], z2 \in DOMAIN m.tables[q2] :
                 m.tables[q1][z1] = m.tables[q2][z2] => q1 = q2 /\ z1 = z2
          BY DEF PageSound, Apart
        <5>2. t1 \in DOMAIN m.tables[p1] /\ t2 \in DOMAIN m.tables[p2]
          BY <3>1
        <5>3. QED
          BY <4>1, <5>1, <5>2
    <3>2. ASSUME p1 = p, t1 = e, r.tables[p1][t1] = t PROVE p1 = p2 /\ t1 = t2
      BY <1>4, <2>1, <3>2
    <3>3. ASSUME p2 = p, t2 = e, r.tables[p2][t2] = t PROVE p1 = p2 /\ t1 = t2
      BY <1>4, <2>1, <3>3
    <3>4. \/ p1 = p /\ t1 = e /\ r.tables[p1][t1] = t
          \/ t1 \in DOMAIN m.tables[p1] /\ r.tables[p1][t1] = m.tables[p1][t1]
      BY <1>4
    <3>5. \/ p2 = p /\ t2 = e /\ r.tables[p2][t2] = t
          \/ t2 \in DOMAIN m.tables[p2] /\ r.tables[p2][t2] = m.tables[p2][t2]
      BY <1>4
    <3>6. QED
      BY <3>1, <3>2, <3>3, <3>4, <3>5
  <2>2. ASSUME NEW w \in DOMAIN r.map[Kernel], NEW u \in Procs, NEW z \in DOMAIN r.tables[u]
        PROVE  r.map[Kernel][w] # r.tables[u][z]
    <3>1. r.map[Kernel][w] = m.map[Kernel][w] /\ m.map[Kernel][w] \in m.pool["kernel"]
      BY <1>5, SpaceTypes
    <3>2. CASE r.tables[u][z] = t
      BY <3>1, <3>2
    <3>3. CASE z \in DOMAIN m.tables[u] /\ r.tables[u][z] = m.tables[u][z]
      BY <3>1, <3>3 DEF PageSound, Apart
    <3>4. QED
      BY <1>4, <3>2, <3>3
  <2>3. QED
    BY <2>1, <2>2 DEF PageSound, Apart
<1>8. AllUsed(r)
  <2>1. ASSUME NEW y \in r.pool["kernel"]
        PROVE  \/ \E w \in DOMAIN r.map[Kernel] : r.map[Kernel][w] = y
               \/ \E u \in Procs : \E z \in DOMAIN r.tables[u] : r.tables[u][z] = y
    <3>1. CASE y = t
      BY <1>2, <3>1
    <3>2. CASE y # t
      <4>1. y \in m.pool["kernel"]
        BY <1>1, <3>2
      <4>2. CASE \E w \in DOMAIN m.map[Kernel] : m.map[Kernel][w] = y
        BY <4>2
      <4>3. CASE \E u \in Procs : \E z \in DOMAIN m.tables[u] : m.tables[u][z] = y
        <5>1. PICK u \in Procs : \E z \in DOMAIN m.tables[u] : m.tables[u][z] = y
          BY <4>3
        <5>2. PICK z \in DOMAIN m.tables[u] : m.tables[u][z] = y
          BY <5>1
        <5>3. z \in DOMAIN r.tables[u] /\ r.tables[u][z] = y
          BY <1>2, <5>2
        <5>4. QED
          BY <5>3
      <4>4. QED
        BY <4>1, <4>2, <4>3 DEF PageSound, AllUsed
    <3>3. QED
      BY <3>1, <3>2
  <2>2. QED
    BY <1>1, <2>1 DEF PageSound, AllUsed
<1>9. QED
  BY <1>3, <1>6, <1>7, <1>8 DEF PageSound

LEMMA WithTableSound ==
    ASSUME NEW m \in MemSet, NEW r \in MemSet, NEW s \in Spaces, NEW v \in Int,
           NEW x \in Int, NEW t \in Int,
           PageSound(m), Mapped(m, r, s, v, x), WithTable(m, r, s, v, x, t)
    PROVE  PageSound(r)
<1>1. PICK a : a = [r EXCEPT !.pool = [m.pool EXCEPT !["user"] = @ \cup {x}], !.tables = m.tables]
  OBVIOUS
<1>2. s \in Procs /\ Owner(s) = "user" /\ t \in Nat /\ t \notin m.pool["kernel"]
  BY SpaceTypes DEF WithTable
<1>3. m.pool["user"] \cup {x} \in SUBSET Int /\ "user" \in Pools /\ "kernel" \in Pools
  BY DEF MemSet, Pools
<1>4. [m.pool EXCEPT !["user"] = @ \cup {x}] \in [Pools -> SUBSET Int]
  BY <1>3 DEF MemSet
<1>5. /\ a \in MemSet /\ a.pool = [m.pool EXCEPT !["user"] = @ \cup {x}]
      /\ a.tables = m.tables /\ a.map = r.map /\ a.vpool = r.vpool /\ a.err = r.err
  BY <1>1, <1>4 DEF MemSet
<1>6. Mapped(m, a, s, v, x) /\ PageOnly(m, a, s, x)
  BY <1>2, <1>5 DEF Mapped, PageOnly
<1>7. PageSound(a)
  BY <1>5, <1>6, PageOnlySound
<1>8. r.pool = [a.pool EXCEPT !["kernel"] = @ \cup {t}]
  BY <1>3, <1>5 DEF WithTable, MemSet, Pools
<1>9. r.tables = [a.tables EXCEPT ![s] = With(@, Table(v), t)] /\ Table(v) \notin DOMAIN a.tables[s]
  BY <1>5 DEF WithTable
<1>10. t \notin a.pool["kernel"]
  BY <1>2, <1>3, <1>5 DEF MemSet
<1>11. Table(v) \in Int
  BY TableInt
<1>12. QED
  BY <1>2, <1>5, <1>7, <1>8, <1>9, <1>10, <1>11, TableSound

\* The pages of space s that are mapped are those of m and Q.
MapsAlso(m, r, s, Q) ==
    /\ DOMAIN r.map[s] = DOMAIN m.map[s] \cup Q
    /\ \A u \in Spaces \ {s} : DOMAIN r.map[u] = DOMAIN m.map[u]
    /\ \A p \in Procs \ {s} : DOMAIN r.tables[p] = DOMAIN m.tables[p]

After(m, r, s, v) ==
    /\ r.err \in {"none", "nomem", "fault"}
    /\ r.err = "fault" => s # Kernel
    /\ r.err = "none" => PageSound(r) /\ MapsAlso(m, r, s, {v})
    /\ r.err = "nomem" => PageSound(r) /\ MapsAlso(m, r, s, {})

LEMMA OnePageSound ==
    ASSUME NEW m \in MemSet, m.err = "none", NEW s \in Spaces, NEW v \in Int,
           PageSound(m), v \notin DOMAIN m.map[s]
    PROVE  After(m, GetOnePage(m, s, v), s, v)
<1>1. PICK r \in MemSet : r = GetOnePage(m, s, v)
  BY OnePage
<1>2. Outcome(m, r, s, v)
  BY <1>1, OnePage
<1>3. ASSUME NoPage(m, r, s, v) PROVE After(m, r, s, v)
  <2>1. PageSound(r)
    BY <1>3, NoPageSound
  <2>2. r.err = "nomem" /\ MapsAlso(m, r, s, {})
    BY <1>3 DEF NoPage, MapsAlso
  <2>3. QED
    BY <2>1, <2>2 DEF After
<1>4. ASSUME r.err = "fault", s # Kernel PROVE After(m, r, s, v)
  BY <1>4 DEF After
<1>5. ASSUME NEW x \in Int, Mapped(m, r, s, v, x)
      PROVE  /\ r.err = "none"
             /\ DOMAIN r.map[s] = DOMAIN m.map[s] \cup {v}
             /\ \A u \in Spaces \ {s} : DOMAIN r.map[u] = DOMAIN m.map[u]
  <2>1. r.err = "none"
    BY <1>5 DEF Mapped
  <2>2. /\ DOMAIN r.map[s] = DOMAIN m.map[s] \cup {v}
        /\ \A u \in Spaces : u # s => r.map[u] = m.map[u]
    BY <1>5, AddedMap
  <2>3. QED
    BY <2>1, <2>2
<1>6. ASSUME NEW x \in Int, Mapped(m, r, s, v, x), PageOnly(m, r, s, x)
      PROVE  After(m, r, s, v)
  <2>1. PageSound(r)
    BY <1>6, PageOnlySound
  <2>2. MapsAlso(m, r, s, {v}) /\ r.err = "none"
    BY <1>5, <1>6 DEF MapsAlso, PageOnly
  <2>3. QED
    BY <2>1, <2>2 DEF After
<1>7. ASSUME NEW x \in Int, NEW t \in Int, Mapped(m, r, s, v, x), WithTable(m, r, s, v, x, t)
      PROVE  After(m, r, s, v)
  <2>1. PageSound(r)
    BY <1>7, WithTableSound
  <2>2. \A p \in Procs \ {s} : r.tables[p] = m.tables[p]
    BY <1>7 DEF WithTable, MemSet
  <2>3. MapsAlso(m, r, s, {v}) /\ r.err = "none"
    BY <1>5, <1>7, <2>2 DEF MapsAlso
  <2>4. QED
    BY <2>1, <2>3 DEF After
<1>8. After(m, r, s, v)
  BY <1>2, <1>3, <1>4, <1>6, <1>7 DEF Outcome
<1>9. QED
  BY <1>1, <1>8

\* What GetPages leaves: all the pages, or the lowest of them.
Lowest(Q, P) == Q \subseteq P /\ Q # P /\ \A q \in Q, x \in P \ Q : q < x

Got(m, r, s, P) ==
    /\ r.err \in {"none", "nomem", "fault"}
    /\ r.err = "fault" => s # Kernel
    /\ r.err = "none" => PageSound(r) /\ MapsAlso(m, r, s, P)
    /\ r.err = "nomem" => PageSound(r) /\ \E Q \in SUBSET P : Lowest(Q, P) /\ MapsAlso(m, r, s, Q)

LEMMA GetPagesSound ==
    ASSUME NEW m \in MemSet, m.err = "none", NEW s \in Spaces,
           NEW P \in SUBSET Int, IsFiniteSet(P),
           PageSound(m), P \cap DOMAIN m.map[s] = {}
    PROVE  GetPages(m, s, P) \in MemSet /\ Got(m, GetPages(m, s, P), s, P)
<1>1. PICK g \in [SUBSET P -> MemSet] : Steps(g, m, s, P) /\ GetPages(m, s, P) = g[P]
  <2>1. InSteps(m, s, P)
    BY GetPagesSteps
  <2>2. QED
    BY <2>1 DEF InSteps
<1> DEFINE G == {S \in SUBSET P : Got(m, g[S], s, S)}
<1>2. {} \in G
  <2>1. MapsAlso(m, m, s, {})
    BY DEF MapsAlso
  <2>2. QED
    BY <1>1, <2>1 DEF Got, Steps
<1>3. ASSUME NEW S \in SUBSET P, S # {}, S \ {Max(S)} \in G PROVE S \in G
  <2>1. PICK x : x = Max(S)
    OBVIOUS
  <2>2. x \in S /\ x \in Int /\ \A y \in S : y \in Int /\ y <= x
    BY <1>3, <2>1, FS_Subset, MaxOfFinite
  <2>3. PICK T \in SUBSET P : T = S \ {x}
    OBVIOUS
  <2>4. PICK a \in MemSet : a = g[T]
    OBVIOUS
  <2>5. PICK r \in MemSet : r = g[S]
    OBVIOUS
  <2>6. Got(m, a, s, T)
    BY <1>3, <2>1, <2>3, <2>4
  <2>7. r = IF a.err = "none" THEN GetOnePage(a, s, x) ELSE a
    BY <1>1, <1>3, <2>1, <2>3, <2>4, <2>5 DEF Steps
  <2>8. S = T \cup {x} /\ x \notin T
    BY <2>2, <2>3
  <2> HIDE DEF G
  <2>9. CASE a.err = "none"
    <3>1. PageSound(a) /\ MapsAlso(m, a, s, T)
      BY <2>6, <2>9 DEF Got
    <3>2. x \notin DOMAIN a.map[s]
      BY <2>2, <2>8, <3>1 DEF MapsAlso
    <3>3. /\ r.err \in {"none", "nomem", "fault"}
          /\ r.err = "fault" => s # Kernel
          /\ r.err = "none" => PageSound(r) /\ MapsAlso(a, r, s, {x})
          /\ r.err = "nomem" => PageSound(r) /\ MapsAlso(a, r, s, {})
      BY <2>2, <2>7, <2>9, <3>1, <3>2, OnePageSound DEF After
    <3>4. MapsAlso(a, r, s, {x}) => MapsAlso(m, r, s, S)
      BY <2>8, <3>1 DEF MapsAlso
    <3>5. MapsAlso(a, r, s, {}) => MapsAlso(m, r, s, T)
      BY <3>1 DEF MapsAlso
    <3>6. Lowest(T, S) /\ T \in SUBSET S
      <4>1. ASSUME NEW q \in T, NEW y \in S \ T PROVE q < y
        <5>1. y = x /\ q \in S /\ q # x /\ q \in Int /\ q <= x
          BY <2>2, <2>3, <2>8
        <5>2. QED
          BY <2>2, <5>1
      <4>2. QED
        BY <2>8, <4>1 DEF Lowest
    <3>7. Got(m, r, s, S)
      BY <3>3, <3>4, <3>5, <3>6 DEF Got
    <3>8. QED
      BY <2>5, <3>7 DEF G
  <2>10. CASE a.err # "none"
    <3>1. r = a
      BY <2>7, <2>10
    <3>2. ASSUME NEW Q \in SUBSET T, Lowest(Q, T) PROVE Q \in SUBSET S /\ Lowest(Q, S)
      <4>1. ASSUME NEW q \in Q, NEW y \in S \ Q PROVE q < y
        <5>1. CASE y \in T
          BY <3>2, <5>1 DEF Lowest
        <5>2. CASE y \notin T
          <6>1. y = x /\ q \in S /\ q # x /\ q \in Int /\ q <= x
            BY <2>2, <2>3, <2>8, <5>2
          <6>2. QED
            BY <2>2, <6>1
        <5>3. QED
          BY <5>1, <5>2
      <4>2. QED
        BY <2>8, <4>1 DEF Lowest
    <3>3. Got(m, r, s, S)
      BY <2>6, <2>10, <3>1, <3>2 DEF Got
    <3>4. QED
      BY <2>5, <3>3 DEF G
  <2>11. QED
    BY <2>9, <2>10
<1>4. P \in G
  <2>1. G \in SUBSET (SUBSET P)
    OBVIOUS
  <2> HIDE DEF G
  <2>2. QED
    BY <1>2, <1>3, <2>1, SetInduction
<1>5. QED
  BY <1>1, <1>4

\* The pages A of space s are given back: FreePage for any set of pages.
Freed(m, r, s, A) ==
    /\ r.pool = [m.pool EXCEPT ![Owner(s)] = @ \ {m.map[s][w] : w \in A}]
    /\ r.map = [m.map EXCEPT ![s] = [w \in DOMAIN @ \ A |-> @[w]]]
    /\ r.vpool = [m.vpool EXCEPT ![s] = @ \ A]
    /\ r.tables = m.tables
    /\ r.err = m.err

\* The pages of space s that are mapped are those of m but A.
MapsLess(m, r, s, A) ==
    /\ DOMAIN r.map[s] = DOMAIN m.map[s] \ A
    /\ \A u \in Spaces \ {s} : DOMAIN r.map[u] = DOMAIN m.map[u]
    /\ \A p \in Procs : DOMAIN r.tables[p] = DOMAIN m.tables[p]
    /\ r.err = m.err

LEMMA FreePageFrees ==
    ASSUME NEW m \in MemSet, NEW s \in Spaces, NEW v \in Int, NEW n \in Int
    PROVE  /\ FreePage(m, s, v, n) \in MemSet
           /\ Freed(m, FreePage(m, s, v, n), s, Area(v, n))
<1> DEFINE A == Area(v, n)
           o == Owner(s)
           f == [w \in DOMAIN m.map[s] \ A |-> m.map[s][w]]
           gone == {m.map[s][w] : w \in A}
<1>1. PICK r : r = FreePage(m, s, v, n)
  OBVIOUS
<1>2. r = [m EXCEPT !.pool[o] = @ \ gone, !.map[s] = f, !.vpool[s] = @ \ A]
  BY <1>1 DEF FreePage
<1>3. f \in Maps
  <2>1. m.map[s] \in Maps
    BY DEF MemSet
  <2> HIDE DEF A
  <2>2. QED
    BY <2>1, PartMap
<1>4. o \in Pools /\ m.pool[o] \ gone \in SUBSET Int /\ m.vpool[s] \ A \in SUBSET Int
  BY SpaceTypes DEF MemSet
<1> HIDE DEF o, gone, A
<1>5. /\ r.pool = [m.pool EXCEPT ![o] = @ \ gone]
      /\ r.map = [m.map EXCEPT ![s] = f]
      /\ r.vpool = [m.vpool EXCEPT ![s] = @ \ A]
      /\ r.tables = m.tables /\ r.err = m.err
  BY <1>2 DEF MemSet
<1>6. r \in MemSet
  <2> HIDE DEF f
  <2>1. QED
    BY <1>2, <1>3, <1>4 DEF MemSet
<1>7. Freed(m, r, s, A)
  BY <1>5 DEF Freed, o, gone
<1>8. QED
  BY <1>1, <1>6, <1>7 DEF A

LEMMA FreedSound ==
    ASSUME NEW m \in MemSet, NEW r \in MemSet, NEW s \in Spaces, NEW A \in SUBSET Int,
           PageSound(m), A \subseteq DOMAIN m.map[s], Freed(m, r, s, A)
    PROVE  PageSound(r) /\ MapsLess(m, r, s, A)
<1> DEFINE o == Owner(s)
           gone == {m.map[s][w] : w \in A}
<1>1. /\ o \in Pools /\ r.pool[o] = m.pool[o] \ gone
      /\ \A q \in Pools : q # o => r.pool[q] = m.pool[q]
      /\ r.tables = m.tables
  BY SpaceTypes DEF Freed, MemSet
<1>2. /\ DOMAIN r.map[s] = DOMAIN m.map[s] \ A
      /\ \A w \in DOMAIN r.map[s] : r.map[s][w] = m.map[s][w]
      /\ \A u \in Spaces : u # s => r.map[u] = m.map[u]
  BY DEF Freed, MemSet
<1>3. MapsLess(m, r, s, A)
  BY <1>2 DEF MapsLess, Freed
<1>4. Finite(r)
  <2>1. \A q \in Pools : IsFiniteSet(m.pool[q]) /\ r.pool[q] \in SUBSET m.pool[q]
    BY <1>1 DEF PageSound, Finite
  <2>2. \A q \in Pools : IsFiniteSet(r.pool[q])
    BY <2>1, FS_Subset
  <2>3. \A u \in Spaces : IsFiniteSet(m.vpool[u]) /\ r.vpool[u] \in SUBSET m.vpool[u]
    BY DEF PageSound, Finite, Freed, MemSet
  <2>4. \A u \in Spaces : IsFiniteSet(r.vpool[u])
    BY <2>3, FS_Subset
  <2>5. \A u \in Spaces : DOMAIN r.map[u] \subseteq r.vpool[u]
    <3>1. \A u \in Spaces : DOMAIN m.map[u] \subseteq m.vpool[u]
      BY DEF PageSound, Finite
    <3>2. r.vpool[s] = m.vpool[s] \ A /\ \A u \in Spaces : u # s => r.vpool[u] = m.vpool[u]
      BY DEF Freed, MemSet
    <3>3. QED
      BY <1>2, <3>1, <3>2
  <2>6. QED
    BY <2>2, <2>4, <2>5 DEF Finite
<1>5. /\ \A s1, s2 \in Spaces : \A v1 \in DOMAIN m.map[s1], v2 \in DOMAIN m.map[s2] :
            Owner(s1) = Owner(s2) /\ m.map[s1][v1] = m.map[s2][v2] => s1 = s2 /\ v1 = v2
      /\ \A w \in DOMAIN m.map[Kernel], p \in Procs : \A t \in DOMAIN m.tables[p] :
            m.map[Kernel][w] # m.tables[p][t]
  BY DEF PageSound, Apart
<1>6. /\ \A u \in Spaces : \A w \in DOMAIN m.map[u] : m.map[u][w] \in m.pool[Owner(u)]
      /\ \A p \in Procs : \A t \in DOMAIN m.tables[p] : m.tables[p][t] \in m.pool["kernel"]
  BY DEF PageSound, Owned
<1>7. \A u \in Spaces : \A w \in DOMAIN r.map[u] :
         w \in DOMAIN m.map[u] /\ r.map[u][w] = m.map[u][w] /\ ~(u = s /\ w \in A)
  BY <1>2
<1>8. Owned(r)
  <2>1. ASSUME NEW u \in Spaces, NEW w \in DOMAIN r.map[u]
        PROVE  r.map[u][w] \in r.pool[Owner(u)]
    <3>1. w \in DOMAIN m.map[u] /\ r.map[u][w] = m.map[u][w] /\ m.map[u][w] \in m.pool[Owner(u)]
      BY <1>6, <1>7
    <3>2. Owner(u) = o => m.map[u][w] \notin gone
      <4> SUFFICES ASSUME Owner(u) = o, NEW z \in A, m.map[u][w] = m.map[s][z] PROVE FALSE
        OBVIOUS
      <4>1. u = s /\ w = z
        BY <1>5, <3>1
      <4>2. QED
        BY <1>7, <4>1
    <3> HIDE DEF o, gone
    <3>3. QED
      BY <1>1, <3>1, <3>2, SpaceTypes
  <2>2. ASSUME NEW p \in Procs, NEW t \in DOMAIN r.tables[p]
        PROVE  r.tables[p][t] \in r.pool["kernel"]
    <3>1. t \in DOMAIN m.tables[p] /\ r.tables[p][t] = m.tables[p][t] /\ m.tables[p][t] \in m.pool["kernel"]
      BY <1>1, <1>6
    <3>2. o = "kernel" => m.tables[p][t] \notin gone
      <4> SUFFICES ASSUME o = "kernel", NEW z \in A, m.tables[p][t] = m.map[s][z] PROVE FALSE
        OBVIOUS
      <4>1. s = Kernel
        BY SpaceTypes
      <4>2. QED
        BY <1>5, <3>1, <4>1
    <3> HIDE DEF o, gone
    <3>3. "kernel" \in Pools
      BY DEF Pools
    <3>4. QED
      BY <1>1, <3>1, <3>2, <3>3
  <2>3. QED
    BY <2>1, <2>2 DEF Owned
<1>9. Apart(r)
  <2>1. \A s1, s2 \in Spaces : \A v1 \in DOMAIN r.map[s1], v2 \in DOMAIN r.map[s2] :
           Owner(s1) = Owner(s2) /\ r.map[s1][v1] = r.map[s2][v2] => s1 = s2 /\ v1 = v2
    BY <1>5, <1>7
  <2>2. \A w \in DOMAIN r.map[Kernel], p \in Procs : \A t \in DOMAIN r.tables[p] :
           r.map[Kernel][w] # r.tables[p][t]
    BY <1>1, <1>5, <1>7, SpaceTypes
  <2>3. QED
    BY <1>1, <2>1, <2>2 DEF PageSound, Apart
<1>10. AllUsed(r)
  <2>1. ASSUME NEW u \in Spaces, NEW w \in DOMAIN m.map[u], m.map[u][w] \in r.pool[Owner(u)]
        PROVE  w \in DOMAIN r.map[u] /\ r.map[u][w] = m.map[u][w]
    <3>1. CASE u = s /\ w \in A
      BY <1>1, <2>1, <3>1
    <3>2. CASE ~(u = s /\ w \in A)
      BY <1>2, <3>2
    <3>3. QED
      BY <3>1, <3>2
  <2>2. ASSUME NEW y \in r.pool["user"]
        PROVE  \E p \in Procs : \E w \in DOMAIN r.map[p] : r.map[p][w] = y
    <3>1. y \in m.pool["user"]
      BY <1>1 DEF Pools
    <3>2. PICK p \in Procs : \E w \in DOMAIN m.map[p] : m.map[p][w] = y
      BY <3>1 DEF PageSound, AllUsed
    <3>3. PICK w \in DOMAIN m.map[p] : m.map[p][w] = y
      BY <3>2
    <3>4. w \in DOMAIN r.map[p] /\ r.map[p][w] = y
      BY <2>1, <3>3, SpaceTypes
    <3>5. QED
      BY <3>4
  <2>3. ASSUME NEW y \in r.pool["kernel"]
        PROVE  \/ \E w \in DOMAIN r.map[Kernel] : r.map[Kernel][w] = y
               \/ \E p \in Procs : \E t \in DOMAIN r.tables[p] : r.tables[p][t] = y
    <3>1. y \in m.pool["kernel"]
      BY <1>1 DEF Pools
    <3>2. CASE \E w \in DOMAIN m.map[Kernel] : m.map[Kernel][w] = y
      <4>1. PICK w \in DOMAIN m.map[Kernel] : m.map[Kernel][w] = y
        BY <3>2
      <4>2. w \in DOMAIN r.map[Kernel] /\ r.map[Kernel][w] = y
        BY <2>1, <4>1, SpaceTypes
      <4>3. QED
        BY <4>2
    <3>3. CASE ~(\E w \in DOMAIN m.map[Kernel] : m.map[Kernel][w] = y)
      BY <1>1, <3>1, <3>3 DEF PageSound, AllUsed
    <3>4. QED
      BY <3>2, <3>3
  <2>4. QED
    BY <2>2, <2>3 DEF AllUsed
<1>11. QED
  BY <1>3, <1>4, <1>8, <1>9, <1>10 DEF PageSound

LEMMA FreePageSound ==
    ASSUME NEW m \in MemSet, NEW s \in Spaces, NEW v \in Int, NEW n \in Int,
           PageSound(m), Area(v, n) \subseteq DOMAIN m.map[s]
    PROVE  /\ FreePage(m, s, v, n) \in MemSet
           /\ PageSound(FreePage(m, s, v, n))
           /\ MapsLess(m, FreePage(m, s, v, n), s, Area(v, n))
<1>1. Area(v, n) \in SUBSET Int
  BY DEF Area
<1>2. PICK r \in MemSet : r = FreePage(m, s, v, n)
  BY FreePageFrees
<1>3. Freed(m, r, s, Area(v, n))
  BY <1>2, FreePageFrees
<1>4. QED
  BY <1>1, <1>2, <1>3, FreedSound

LEMMA FreeOnePage ==
    ASSUME NEW m \in MemSet, NEW s \in Spaces, NEW v \in Int, PageSound(m), v \in DOMAIN m.map[s]
    PROVE  /\ FreePage(m, s, v, 1) \in MemSet
           /\ PageSound(FreePage(m, s, v, 1))
           /\ MapsLess(m, FreePage(m, s, v, 1), s, {v})
<1>1. Area(v, 1) = {v} /\ 1 \in Int
  BY DEF Area
<1>2. Area(v, 1) \subseteq DOMAIN m.map[s]
  BY <1>1
<1>3. /\ FreePage(m, s, v, 1) \in MemSet
      /\ PageSound(FreePage(m, s, v, 1))
      /\ MapsLess(m, FreePage(m, s, v, 1), s, Area(v, 1))
  BY <1>1, <1>2, FreePageSound
<1>4. QED
  BY <1>1, <1>3

LEMMA SameSound ==
    ASSUME NEW m, NEW r, PageSound(m),
           r.pool = m.pool, r.vpool = m.vpool, r.map = m.map, r.tables = m.tables
    PROVE  PageSound(r)
BY DEF PageSound, Finite, Owned, Apart, AllUsed

\* malloc_page maps the whole area, or leaves what was mapped.
Granted(m, r, s, n) ==
    /\ r.err \in {"none", "nomem", "fault"}
    /\ s = Kernel => r.err # "fault"
    /\ r.err = "none" =>
          /\ VaddrGet(m, s, n) \in Nat
          /\ Area(VaddrGet(m, s, n), n) \cap DOMAIN m.map[s] = {}
          /\ PageSound(r) /\ MapsAlso(m, r, s, Area(VaddrGet(m, s, n), n))
    /\ r.err = "nomem" => PageSound(r) /\ MapsAlso(m, r, s, {})

LEMMA AreaFinite ==
    ASSUME NEW v \in Int, NEW n \in Int
    PROVE  Area(v, n) \in SUBSET Int /\ IsFiniteSet(Area(v, n))
<1>1. v + n - 1 \in Int
  OBVIOUS
<1>2. IsFiniteSet(v .. v + n - 1)
  BY <1>1, FS_Interval
<1>3. QED
  BY <1>2 DEF Area

LEMMA MallocPageSound ==
    ASSUME NEW m \in MemSet, m.err = "none", NEW s \in Spaces, NEW n \in Nat, PageSound(m)
    PROVE  MallocPage(m, s, n) \in MemSet /\ Granted(m, MallocPage(m, s, n), s, n)
<1>1. PICK r : r = MallocPage(m, s, n)
  OBVIOUS
<1>2. PICK v : v = VaddrGet(m, s, n)
  OBVIOUS
<1>3. v = -1 \/ (v \in Nat /\ Area(v, n) \cap m.vpool[s] = {})
  BY <1>2, VaddrSpec
<1>4. CASE v = -1
  <2>1. r = [m EXCEPT !.err = "nomem"]
    BY <1>1, <1>2, <1>4 DEF MallocPage
  <2>2. /\ r \in MemSet /\ r.err = "nomem"
        /\ r.pool = m.pool /\ r.vpool = m.vpool /\ r.map = m.map /\ r.tables = m.tables
    BY <2>1 DEF MemSet
  <2>3. PageSound(r) /\ MapsAlso(m, r, s, {})
    BY <2>2, SameSound DEF MapsAlso
  <2>4. QED
    BY <1>1, <2>2, <2>3 DEF Granted
<1>5. CASE v # -1
  <2>1. v \in Nat /\ Area(v, n) \cap m.vpool[s] = {}
    BY <1>3, <1>5
  <2>2. PICK P \in SUBSET Int : P = Area(v, n) /\ IsFiniteSet(P)
    BY <2>1, AreaFinite
  <2>3. P \cap DOMAIN m.map[s] = {}
    BY <2>1, <2>2 DEF PageSound, Finite
  <2>4. PICK a : a = [m EXCEPT !.vpool[s] = @ \cup P]
    OBVIOUS
  <2>5. /\ a \in MemSet /\ a.err = "none" /\ a.pool = m.pool /\ a.map = m.map
        /\ a.tables = m.tables /\ a.vpool = [m.vpool EXCEPT ![s] = @ \cup P]
    BY <2>4 DEF MemSet
  <2>6. PageSound(a)
    <3>1. IsFiniteSet(m.vpool[s] \cup P)
      BY <2>2, FS_Union DEF PageSound, Finite
    <3>2. a.vpool[s] = m.vpool[s] \cup P /\ \A u \in Spaces : u # s => a.vpool[u] = m.vpool[u]
      BY <2>5 DEF MemSet
    <3>3. \A u \in Spaces : IsFiniteSet(a.vpool[u]) /\ DOMAIN a.map[u] \subseteq a.vpool[u]
      <4>1. \A u \in Spaces : IsFiniteSet(m.vpool[u]) /\ DOMAIN m.map[u] \subseteq m.vpool[u]
        BY DEF PageSound, Finite
      <4>2. QED
        BY <2>5, <3>1, <3>2, <4>1
    <3>4. Finite(a)
      BY <2>5, <3>3 DEF PageSound, Finite
    <3>5. Owned(a) /\ Apart(a) /\ AllUsed(a)
      BY <2>5 DEF PageSound, Owned, Apart, AllUsed
    <3>6. QED
      BY <3>4, <3>5 DEF PageSound
  <2>7. PICK got : got = GetPages(a, s, P)
    OBVIOUS
  <2>8. got \in MemSet /\ Got(a, got, s, P)
    BY <2>2, <2>3, <2>5, <2>6, <2>7, GetPagesSound
  <2>9. r = IF got.err = "nomem" THEN GiveUp(got, s, v, Min(P \ DOMAIN got.map[s])) ELSE got
    <3>1. r = MapPages(m, s, v, n)
      BY <1>1, <1>2, <1>5 DEF MallocPage
    <3>2. QED
      BY <2>2, <2>4, <2>7, <3>1 DEF MapPages
  <2>10. CASE got.err # "nomem"
    <3>1. r = got
      BY <2>9, <2>10
    <3>2. MapsAlso(a, got, s, P) => MapsAlso(m, got, s, P)
      BY <2>5 DEF MapsAlso
    <3>3. QED
      BY <1>1, <1>2, <2>1, <2>2, <2>3, <2>8, <2>10, <3>1, <3>2 DEF Got, Granted
  <2>11. CASE got.err = "nomem"
    <3>1. PICK Q \in SUBSET P : Lowest(Q, P) /\ MapsAlso(a, got, s, Q)
      BY <2>8, <2>11 DEF Got
    <3>2. P \ DOMAIN got.map[s] = P \ Q
      BY <2>3, <2>5, <3>1 DEF MapsAlso
    <3>3. PICK w : w = Min(P \ Q)
      OBVIOUS
    <3>4. w \in P \ Q /\ \A y \in P \ Q : w <= y
      <4>1. P \ Q \in SUBSET Int /\ P \ Q # {} /\ v \in Int /\ \A y \in P \ Q : v <= y
        <5>1. \A y \in P : v <= y
          BY <2>1, <2>2 DEF Area
        <5>2. P \ Q # {}
          BY <3>1 DEF Lowest
        <5>3. QED
          BY <2>1, <5>1, <5>2
      <4>2. QED
        BY <3>3, <4>1, MinInt
    <3>5. w \in Int /\ v <= w /\ w <= v + n - 1
      BY <2>1, <2>2, <3>4 DEF Area
    <3>6. Area(v, w - v) = Q
      <4>1. ASSUME NEW z \in Area(v, w - v) PROVE z \in Q
        <5>1. z \in Int /\ v <= z /\ z < w /\ z \in P
          BY <2>1, <2>2, <3>5 DEF Area
        <5>2. QED
          BY <3>4, <5>1
      <4>2. ASSUME NEW z \in Q PROVE z \in Area(v, w - v)
        <5>1. z \in Int /\ v <= z /\ z < w
          BY <2>1, <2>2, <3>1, <3>4 DEF Area, Lowest
        <5>2. QED
          BY <2>1, <3>5, <5>1 DEF Area
      <4>3. QED
        BY <4>1, <4>2
    <3>7. r = GiveUp(got, s, v, w)
      BY <2>9, <2>11, <3>2, <3>3
    <3>8. CASE w = v /\ ~HasTable(got, s, v)
      <4>1. r = [got EXCEPT !.err = "fault"]
        BY <3>7, <3>8 DEF GiveUp
      <4>2. r \in MemSet /\ r.err = "fault"
        BY <2>8, <4>1 DEF MemSet
      <4>3. s # Kernel
        BY <3>8 DEF HasTable
      <4>4. QED
        BY <1>1, <4>2, <4>3 DEF Granted
    <3>9. CASE ~(w = v /\ ~HasTable(got, s, v))
      <4>1. r = FreePage(got, s, v, w - v)
        BY <3>7, <3>9 DEF GiveUp
      <4>2. PageSound(got) /\ Area(v, w - v) \subseteq DOMAIN got.map[s]
        BY <2>8, <2>11, <3>1, <3>6 DEF Got, MapsAlso
      <4>3. v \in Int /\ w - v \in Int
        BY <2>1, <3>5
      <4>4. r \in MemSet /\ PageSound(r) /\ MapsLess(got, r, s, Q)
        BY <2>8, <3>6, <4>1, <4>2, <4>3, FreePageSound
      <4>5. DOMAIN r.map[s] = DOMAIN m.map[s]
        BY <2>3, <2>5, <3>1, <4>4 DEF MapsAlso, MapsLess
      <4>6. MapsAlso(m, r, s, {})
        BY <2>5, <3>1, <4>4, <4>5 DEF MapsAlso, MapsLess
      <4>7. r.err = "nomem"
        BY <2>11, <4>4 DEF MapsLess
      <4>8. QED
        BY <1>1, <4>4, <4>6, <4>7 DEF Granted
    <3>10. QED
      BY <3>8, <3>9
  <2>12. QED
    BY <2>10, <2>11
<1>6. QED
  BY <1>4, <1>5

\* What the page directory of a process leads to is given back.
LEMMA ReleaseSound ==
    ASSUME NEW m \in MemSet, NEW p \in Procs, PageSound(m)
    PROVE  LET r == ReleaseUserPages(m, p) IN
           /\ r \in MemSet /\ PageSound(r) /\ r.err = m.err
           /\ DOMAIN r.map[p] = {} /\ DOMAIN r.tables[p] = {}
           /\ \A u \in Spaces \ {p} : r.map[u] = m.map[u]
           /\ \A q \in Procs \ {p} : r.tables[q] = m.tables[q]
<1> DEFINE A == {m.map[p][v] : v \in DOMAIN m.map[p]}
           B == {m.tables[p][t] : t \in DOMAIN m.tables[p]}
<1>1. PICK r : r = ReleaseUserPages(m, p)
  OBVIOUS
<1>2. PICK e : e = Empty
  OBVIOUS
<1>3. e \in Maps /\ DOMAIN e = {}
  <2>1. {} \in SUBSET Int /\ e \in [{} -> Int]
    BY <1>2 DEF Empty
  <2>2. QED
    BY <2>1, MakesMap
<1>4. p \in Spaces /\ p # Kernel /\ "user" \in Pools /\ "kernel" \in Pools
  BY SpaceTypes DEF Pools
<1>5. r = [m EXCEPT !.pool["user"] = @ \ A, !.pool["kernel"] = @ \ B,
                    !.map[p] = e, !.tables[p] = e, !.vpool[p] = {}]
  BY <1>1, <1>2 DEF ReleaseUserPages
<1> HIDE DEF A, B
<1>6. /\ r.pool = [[m.pool EXCEPT !["user"] = @ \ A] EXCEPT !["kernel"] = @ \ B]
      /\ r.map = [m.map EXCEPT ![p] = e] /\ r.tables = [m.tables EXCEPT ![p] = e]
      /\ r.vpool = [m.vpool EXCEPT ![p] = {}] /\ r.err = m.err
  BY <1>5 DEF MemSet
<1>7. /\ r.pool["user"] = m.pool["user"] \ A /\ r.pool["kernel"] = m.pool["kernel"] \ B
      /\ DOMAIN r.map[p] = {} /\ DOMAIN r.tables[p] = {} /\ r.vpool[p] = {}
      /\ \A u \in Spaces \ {p} : r.map[u] = m.map[u] /\ r.vpool[u] = m.vpool[u]
      /\ \A q \in Procs \ {p} : r.tables[q] = m.tables[q]
  BY <1>3, <1>4, <1>6 DEF MemSet, Pools
<1>8. r \in MemSet
  <2>1. r.pool \in [Pools -> SUBSET Int]
    BY <1>6 DEF MemSet, Pools
  <2>2. /\ r.map \in [Spaces -> Maps] /\ r.tables \in [Procs -> Maps]
        /\ r.vpool \in [Spaces -> SUBSET Int]
    BY <1>3, <1>4, <1>6 DEF MemSet
  <2>3. r = [pool |-> r.pool, vpool |-> r.vpool, map |-> r.map, tables |-> r.tables, err |-> r.err]
    BY <1>5 DEF MemSet
  <2>4. r.err \in {"none", "nomem", "fault", "assert"}
    BY <1>6 DEF MemSet
  <2>5. QED
    BY <2>1, <2>2, <2>3, <2>4 DEF MemSet
<1>9. PageSound(r)
  <2>1. Finite(r)
    <3>1. \A q \in Pools : IsFiniteSet(m.pool[q]) /\ r.pool[q] \in SUBSET m.pool[q]
      BY <1>7 DEF PageSound, Finite, Pools
    <3>2. \A q \in Pools : IsFiniteSet(r.pool[q])
      BY <3>1, FS_Subset
    <3>3. \A u \in Spaces : IsFiniteSet(r.vpool[u]) /\ DOMAIN r.map[u] \subseteq r.vpool[u]
      BY <1>7, FS_EmptySet DEF PageSound, Finite
    <3>4. QED
      BY <3>2, <3>3 DEF Finite
  <2>2. /\ \A s1, s2 \in Spaces : \A v1 \in DOMAIN m.map[s1], v2 \in DOMAIN m.map[s2] :
              Owner(s1) = Owner(s2) /\ m.map[s1][v1] = m.map[s2][v2] => s1 = s2 /\ v1 = v2
        /\ \A q1, q2 \in Procs : \A t1 \in DOMAIN m.tables[q1], t2 \in DOMAIN m.tables[q2] :
              m.tables[q1][t1] = m.tables[q2][t2] => q1 = q2 /\ t1 = t2
        /\ \A w \in DOMAIN m.map[Kernel], q \in Procs : \A t \in DOMAIN m.tables[q] :
              m.map[Kernel][w] # m.tables[q][t]
    BY DEF PageSound, Apart
  <2>3. \A u \in Spaces : \A w \in DOMAIN r.map[u] : u # p /\ u \in Spaces \ {p} /\ r.map[u] = m.map[u]
    BY <1>7
  <2>4. \A q \in Procs : \A t \in DOMAIN r.tables[q] : q # p /\ r.tables[q] = m.tables[q]
    BY <1>7
  <2>5. Owned(r)
    <3>1. ASSUME NEW u \in Spaces, NEW w \in DOMAIN r.map[u]
          PROVE  r.map[u][w] \in r.pool[Owner(u)]
      <4>1. u # p /\ w \in DOMAIN m.map[u] /\ r.map[u][w] = m.map[u][w]
        BY <2>3
      <4>2. m.map[u][w] \in m.pool[Owner(u)]
        BY <4>1 DEF PageSound, Owned
      <4>3. CASE u = Kernel
        <5>1. m.map[u][w] \notin B
          BY <2>2, <4>1, <4>3 DEF B
        <5>2. QED
          BY <1>7, <4>1, <4>2, <4>3, <5>1, SpaceTypes
      <4>4. CASE u # Kernel
        <5>1. Owner(u) = "user" /\ Owner(p) = "user"
          BY <4>4, SpaceTypes
        <5>2. m.map[u][w] \notin A
          BY <1>4, <2>2, <4>1, <5>1 DEF A
        <5>3. QED
          BY <1>7, <4>1, <4>2, <5>1, <5>2
      <4>5. QED
        BY <4>3, <4>4
    <3>2. ASSUME NEW q \in Procs, NEW t \in DOMAIN r.tables[q]
          PROVE  r.tables[q][t] \in r.pool["kernel"]
      <4>1. q # p /\ t \in DOMAIN m.tables[q] /\ r.tables[q][t] = m.tables[q][t]
        BY <2>4
      <4>2. m.tables[q][t] \in m.pool["kernel"]
        BY <4>1 DEF PageSound, Owned
      <4>3. m.tables[q][t] \notin B
        BY <2>2, <4>1 DEF B
      <4>4. QED
        BY <1>7, <4>1, <4>2, <4>3
    <3>3. QED
      BY <3>1, <3>2 DEF Owned
  <2>6. Apart(r)
    <3>1. \A s1, s2 \in Spaces : \A v1 \in DOMAIN r.map[s1], v2 \in DOMAIN r.map[s2] :
              Owner(s1) = Owner(s2) /\ r.map[s1][v1] = r.map[s2][v2] => s1 = s2 /\ v1 = v2
      BY <2>2, <2>3
    <3>2. \A q1, q2 \in Procs : \A t1 \in DOMAIN r.tables[q1], t2 \in DOMAIN r.tables[q2] :
              r.tables[q1][t1] = r.tables[q2][t2] => q1 = q2 /\ t1 = t2
      BY <2>2, <2>4
    <3>3. \A w \in DOMAIN r.map[Kernel], q \in Procs : \A t \in DOMAIN r.tables[q] :
              r.map[Kernel][w] # r.tables[q][t]
      BY <2>2, <2>3, <2>4, SpaceTypes
    <3>4. QED
      BY <3>1, <3>2, <3>3 DEF Apart
  <2>7. AllUsed(r)
    <3>1. ASSUME NEW y \in r.pool["user"]
          PROVE  \E q \in Procs : \E w \in DOMAIN r.map[q] : r.map[q][w] = y
      <4>1. y \in m.pool["user"] /\ y \notin A
        BY <1>7
      <4>2. PICK q \in Procs : \E w \in DOMAIN m.map[q] : m.map[q][w] = y
        BY <4>1 DEF PageSound, AllUsed
      <4>3. q # p
        BY <4>1, <4>2 DEF A
      <4>4. r.map[q] = m.map[q]
        BY <1>7, <4>3, SpaceTypes
      <4>5. QED
        BY <4>2, <4>4
    <3>2. ASSUME NEW y \in r.pool["kernel"]
          PROVE  \/ \E w \in DOMAIN r.map[Kernel] : r.map[Kernel][w] = y
                 \/ \E q \in Procs : \E t \in DOMAIN r.tables[q] : r.tables[q][t] = y
      <4>1. y \in m.pool["kernel"] /\ y \notin B
        BY <1>7
      <4>2. CASE \E w \in DOMAIN m.map[Kernel] : m.map[Kernel][w] = y
        BY <1>4, <1>7, <4>2, SpaceTypes
      <4>3. CASE \E q \in Procs : \E t \in DOMAIN m.tables[q] : m.tables[q][t] = y
        <5>1. PICK q \in Procs : \E t \in DOMAIN m.tables[q] : m.tables[q][t] = y
          BY <4>3
        <5>2. q # p
          BY <4>1, <5>1 DEF B
        <5>3. r.tables[q] = m.tables[q]
          BY <1>7, <5>2
        <5>4. QED
          BY <5>1, <5>3
      <4>4. QED
        BY <4>1, <4>2, <4>3 DEF PageSound, AllUsed
    <3>3. QED
      BY <3>1, <3>2 DEF AllUsed
  <2>8. QED
    BY <2>1, <2>5, <2>6, <2>7 DEF PageSound
<1>10. QED
  BY <1>1, <1>6, <1>7, <1>8, <1>9

-----------------------------------------------------------------------------
(* Calls in a row: what is asserted, and how a call ends. *)

LEMMA GetPagesStopped ==
    ASSUME NEW m \in MemSet, m.err # "none", NEW s \in Spaces,
           NEW P \in SUBSET Int, IsFiniteSet(P)
    PROVE  GetPages(m, s, P) = m
<1>1. PICK g \in [SUBSET P -> MemSet] : Steps(g, m, s, P) /\ GetPages(m, s, P) = g[P]
  <2>1. InSteps(m, s, P)
    BY GetPagesSteps
  <2>2. QED
    BY <2>1 DEF InSteps
<1> DEFINE G == {S \in SUBSET P : g[S] = m}
<1>2. {} \in G
  BY <1>1 DEF Steps
<1>3. ASSUME NEW S \in SUBSET P, S # {}, S \ {Max(S)} \in G PROVE S \in G
  BY <1>1, <1>3 DEF Steps
<1>4. P \in G
  <2>1. G \in SUBSET (SUBSET P)
    OBVIOUS
  <2> HIDE DEF G
  <2>2. QED
    BY <1>2, <1>3, <2>1, SetInduction
<1>5. QED
  BY <1>1, <1>4

LEMMA MustSound ==
    ASSUME NEW m \in MemSet, m.err \in {"none", "nomem", "fault"}
    PROVE  /\ Must(m) \in MemSet /\ Must(m).err \in {"none", "fault"}
           /\ Must(m).err = "none" => Must(m) = m
<1>1. CASE m.err = "nomem"
  <2>1. Must(m) = [m EXCEPT !.err = "fault"]
    BY <1>1 DEF Must
  <2>2. QED
    BY <2>1 DEF MemSet
<1>2. CASE m.err # "nomem"
  BY <1>2 DEF Must
<1>3. QED
  BY <1>1, <1>2

\* r is m with n pages of the kernel's more, at v, or the system has stopped.
Needed(m, r, n, v) ==
    /\ r \in MemSet /\ r.err \in {"none", "fault"}
    /\ r.err = "none" =>
          /\ m.err = "none" /\ v \in Nat /\ Area(v, n) \cap DOMAIN m.map[Kernel] = {}
          /\ PageSound(r) /\ MapsAlso(m, r, Kernel, Area(v, n))

LEMMA NeededPages ==
    ASSUME NEW m \in MemSet, m.err \in {"none", "fault"}, m.err = "none" => PageSound(m),
           NEW n \in Nat
    PROVE  Needed(m, Must(MallocPage(m, Kernel, n)), n, VaddrGet(m, Kernel, n))
<1>1. PICK a : a = MallocPage(m, Kernel, n)
  OBVIOUS
<1>2. PICK r : r = Must(a)
  OBVIOUS
<1>3. CASE m.err = "fault"
  <2>1. a = m
    BY <1>1, <1>3 DEF MallocPage
  <2>2. r = m
    BY <1>2, <1>3, <2>1 DEF Must
  <2>3. QED
    BY <1>1, <1>2, <1>3, <2>2 DEF Needed
<1>4. CASE m.err = "none"
  <2>1. a \in MemSet /\ Granted(m, a, Kernel, n)
    BY <1>1, <1>4, SpaceTypes, MallocPageSound
  <2>2. a.err \in {"none", "nomem", "fault"}
    BY <2>1 DEF Granted
  <2>3. r \in MemSet /\ r.err \in {"none", "fault"} /\ (r.err = "none" => r = a)
    BY <1>2, <2>1, <2>2, MustSound
  <2>4. QED
    BY <1>1, <1>2, <1>4, <2>1, <2>3 DEF Needed, Granted
<1>5. QED
  BY <1>3, <1>4

\* r is m with the pages P of space s, or the system has stopped.
NeededAt(m, r, s, P) ==
    /\ r \in MemSet /\ r.err \in {"none", "fault"}
    /\ r.err = "none" => m.err = "none" /\ PageSound(r) /\ MapsAlso(m, r, s, P)

LEMMA NeededGetPages ==
    ASSUME NEW m \in MemSet, m.err \in {"none", "fault"}, NEW s \in Spaces,
           NEW P \in SUBSET Int, IsFiniteSet(P),
           m.err = "none" => PageSound(m) /\ P \cap DOMAIN m.map[s] = {}
    PROVE  NeededAt(m, Must(GetPages(m, s, P)), s, P)
<1>1. PICK a : a = GetPages(m, s, P)
  OBVIOUS
<1>2. PICK r : r = Must(a)
  OBVIOUS
<1>3. CASE m.err = "fault"
  <2>1. a = m
    BY <1>1, <1>3, GetPagesStopped
  <2>2. r = m
    BY <1>2, <1>3, <2>1 DEF Must
  <2>3. QED
    BY <1>1, <1>2, <1>3, <2>2 DEF NeededAt
<1>4. CASE m.err = "none"
  <2>1. a \in MemSet /\ Got(m, a, s, P)
    BY <1>1, <1>4, GetPagesSound
  <2>2. a.err \in {"none", "nomem", "fault"}
    BY <2>1 DEF Got
  <2>3. r \in MemSet /\ r.err \in {"none", "fault"} /\ (r.err = "none" => r = a)
    BY <1>2, <2>1, <2>2, MustSound
  <2>4. QED
    BY <1>1, <1>2, <1>4, <2>1, <2>3 DEF NeededAt, Got
<1>5. QED
  BY <1>3, <1>4

LEMMA BitmapSizes ==
    /\ BitmapPages \in Nat /\ ReleasedPages \in Nat /\ ReleasedPages <= BitmapPages
<1>1. BitmapLen \in Nat /\ PageSize \in Nat /\ PageSize > 0
  BY MemoryAssumption
<1>2. ASSUME NEW a \in Nat, NEW b \in Nat, NEW d \in Nat, d > 0, a <= b
      PROVE  a \div d \in Nat /\ b \div d \in Nat /\ a \div d <= b \div d
  BY <1>2
<1>3. BitmapLen + PageSize - 1 \in Nat /\ BitmapLen <= BitmapLen + PageSize - 1
  BY <1>1
<1>4. QED
  BY <1>1, <1>2, <1>3 DEF BitmapPages, ReleasedPages

\* CopyStack3 gives the child c the pages of the father p.
LEMMA CopySound ==
    ASSUME NEW m \in MemSet, m.err \in {"none", "fault"}, m.err = "none" => PageSound(m),
           NEW p \in Procs, NEW c \in Procs, p # c,
           m.err = "none" => DOMAIN m.map[c] = {}
    PROVE  LET r == CopyStack3(m, p, c) IN
           /\ r \in MemSet /\ r.err \in {"none", "fault"}
           /\ r.err = "none" =>
                /\ m.err = "none" /\ PageSound(r)
                /\ \A u \in Spaces \ {c} : DOMAIN r.map[u] = DOMAIN m.map[u]
                /\ \A q \in Procs \ {c} : DOMAIN r.tables[q] = DOMAIN m.tables[q]
<1>1. PICK r : r = CopyStack3(m, p, c)
  OBVIOUS
<1>2. p \in Spaces /\ c \in Spaces
  BY SpaceTypes
<1>3. CASE m.err = "fault"
  <2>1. r = m
    BY <1>1, <1>3 DEF CopyStack3
  <2>2. QED
    BY <1>1, <1>3, <2>1
<1>4. CASE m.err = "none" /\ ~(m.vpool[p] \subseteq DOMAIN m.map[p])
  <2>1. r = [m EXCEPT !.err = "fault"]
    BY <1>1, <1>4 DEF CopyStack3
  <2>2. r \in MemSet /\ r.err = "fault"
    BY <2>1 DEF MemSet
  <2>3. QED
    BY <1>1, <2>2
<1>5. CASE m.err = "none" /\ m.vpool[p] \subseteq DOMAIN m.map[p]
  <2>1. PICK P \in SUBSET Int : P = m.vpool[p] /\ IsFiniteSet(P)
    BY <1>2, <1>5 DEF MemSet, PageSound, Finite
  <2>2. PICK a : a = [m EXCEPT !.vpool[c] = P]
    OBVIOUS
  <2>3. /\ a \in MemSet /\ a.err = "none" /\ a.pool = m.pool /\ a.map = m.map
        /\ a.tables = m.tables /\ a.vpool = [m.vpool EXCEPT ![c] = P]
    BY <1>5, <2>2 DEF MemSet
  <2>4. r = Must(GetPages(a, c, P))
    BY <1>1, <1>5, <2>1, <2>2 DEF CopyStack3
  <2>5. PageSound(a)
    <3>1. a.vpool[c] = P /\ \A u \in Spaces : u # c => a.vpool[u] = m.vpool[u]
      BY <1>2, <2>3 DEF MemSet
    <3>2. \A u \in Spaces : IsFiniteSet(m.vpool[u]) /\ DOMAIN m.map[u] \subseteq m.vpool[u]
      BY <1>5 DEF PageSound, Finite
    <3>3. \A u \in Spaces : IsFiniteSet(a.vpool[u]) /\ DOMAIN a.map[u] \subseteq a.vpool[u]
      BY <1>5, <2>1, <2>3, <3>1, <3>2
    <3>4. Finite(a)
      BY <1>5, <2>3, <3>3 DEF PageSound, Finite
    <3>5. Owned(a) /\ Apart(a) /\ AllUsed(a)
      BY <1>5, <2>3 DEF PageSound, Owned, Apart, AllUsed
    <3>6. QED
      BY <3>4, <3>5 DEF PageSound
  <2>6. P \cap DOMAIN a.map[c] = {}
    BY <1>5, <2>3
  <2>7. NeededAt(a, r, c, P)
    BY <1>2, <2>1, <2>3, <2>4, <2>5, <2>6, NeededGetPages
  <2>8. r.err = "none" =>
          /\ \A u \in Spaces \ {c} : DOMAIN r.map[u] = DOMAIN m.map[u]
          /\ \A q \in Procs \ {c} : DOMAIN r.tables[q] = DOMAIN m.tables[q]
    BY <2>3, <2>7 DEF NeededAt, MapsAlso
  <2>9. r \in MemSet /\ r.err \in {"none", "fault"} /\ (r.err = "none" => PageSound(r))
    BY <2>7 DEF NeededAt
  <2>10. QED
    BY <1>1, <1>5, <2>8, <2>9
<1>6. QED
  BY <1>3, <1>4, <1>5

\* End: a call leaves what it has made, or stops the system where it was.
LEMMA EndSound ==
    ASSUME mem \in MemSet, NEW m \in MemSet, m.err \in {"none", "nomem", "fault"},
           NEW n, n = End(m)
    PROVE  /\ n.err \in {"none", "fault"}
           /\ n.err = "none" =>
                 /\ m.err # "fault" /\ n \in MemSet
                 /\ n.pool = m.pool /\ n.vpool = m.vpool /\ n.map = m.map /\ n.tables = m.tables
           /\ m.err = "none" => n = m
BY DEF End, MemSet

-----------------------------------------------------------------------------
(* The inductive invariant. *)

ProcType == [state : {"unused", "alive", "hanging"}, pcb : Int, bits : Int, dir : Int]

Headers == [class : {0} \cup Classes, cnt : Nat]
HeaderMaps == UNION {[D -> Headers] : D \in SUBSET Int}
Blocks == [page : Int, idx : Nat]

TypeInv ==
    /\ mem \in MemSet
    /\ proc \in [Procs -> ProcType]
    /\ arena \in [Spaces -> HeaderMaps]
    /\ free \in [Spaces -> [Classes -> Seq(Blocks)]]
    /\ held \in [Spaces -> SUBSET Blocks]

\* A process that is not alive has no pages of its own; what the kernel keeps
\* of a process is mapped, is in no arena, and is its own alone.
Dormant(p) ==
    proc[p].state # "alive" =>
        DOMAIN mem.map[p] = {} /\ DOMAIN mem.tables[p] = {} /\ DOMAIN arena[p] = {}

OwnPages(p) ==
    /\ ProcessPages(p) \subseteq DOMAIN mem.map[Kernel]
    /\ ProcessPages(p) \cap ArenaPages(Kernel) = {}
    /\ \A q \in Procs : q # p => ProcessPages(p) \cap ProcessPages(q) = {}
    /\ proc[p].state # "unused" => proc[p].pcb # proc[p].dir
    /\ proc[p].state = "alive" =>
          {proc[p].pcb, proc[p].dir} \cap Area(proc[p].bits, BitmapPages) = {}

\* The pages of arena v, with header h.
Extent(h, v) == Area(v, IF h.class = 0 THEN h.cnt ELSE 1)

\* Arenas lie in mapped pages, and apart.
ArenaSound(s) ==
    /\ \A v \in DOMAIN arena[s] :
          /\ arena[s][v].class = 0 => arena[s][v].cnt # 0
          /\ Extent(arena[s][v], v) \subseteq DOMAIN mem.map[s]
    /\ \A v, w \in DOMAIN arena[s] :
          v # w => Extent(arena[s][v], v) \cap Extent(arena[s][w], w) = {}

\* The blocks of a page: what malloc has handed out, and what is on a list.
Out(s, v) == {b \in held[s] : b.page = v}
In(s, v, c) == {b \in Range(free[s][c]) : b.page = v}

PageBlocks(s, v) ==
    LET c == arena[s][v].class
    IN  IF c = 0 THEN Out(s, v) = {[page |-> v, idx |-> 0]}
        ELSE /\ Out(s, v) # {} /\ arena[s][v].cnt = Cardinality(In(s, v, c))
             /\ Out(s, v) \cup In(s, v, c) = [page : {v}, idx : 0 .. BlockCnt[c] - 1]

ListSound(s, c) ==
    /\ IsInjective(free[s][c])
    /\ \A b \in Range(free[s][c]) :
          b \notin held[s] /\ b.page \in DOMAIN arena[s] /\ arena[s][b.page].class = c

HeapOf(s) ==
    /\ \A b \in held[s] : b.page \in DOMAIN arena[s]
    /\ \A c \in Classes : ListSound(s, c)
    /\ \A v \in DOMAIN arena[s] : PageBlocks(s, v)

Sound ==
    /\ TypeInv
    /\ PageSound(mem)
    /\ \A p \in Procs : Dormant(p) /\ OwnPages(p)
    /\ \A s \in Spaces : ArenaSound(s) /\ HeapOf(s)

\* A call that has stopped the system is the last.
IndInv == mem.err # "assert" /\ (Up => Sound)

LEMMA HeaderMap ==
    ASSUME NEW f \in HeaderMaps
    PROVE  /\ DOMAIN f \in SUBSET Int
           /\ f = [x \in DOMAIN f |-> f[x]]
           /\ \A x \in DOMAIN f : f[x] \in Headers
BY DEF HeaderMaps

LEMMA MakesHeaderMap ==
    ASSUME NEW D \in SUBSET Int, NEW f \in [D -> Headers]
    PROVE  f \in HeaderMaps
BY DEF HeaderMaps

LEMMA EmptyMap ==
    DOMAIN Empty = {} /\ Empty \in Maps /\ Empty \in HeaderMaps
<1>1. DOMAIN Empty = {} /\ {} \in SUBSET Int /\ Empty \in [{} -> Int] /\ Empty \in [{} -> Headers]
  BY DEF Empty
<1>2. QED
  BY <1>1, MakesMap, MakesHeaderMap

LEMMA ClassesAre ==
    /\ Classes \in SUBSET Nat /\ 0 \notin Classes
    /\ \A c \in Classes : BlockCnt[c] \in Nat /\ BlockCnt[c] # 0
<1>1. BlockCnt \in Seq(Nat \ {0})
  BY MemoryAssumption
<1>2. Classes = 1 .. Len(BlockCnt) /\ Len(BlockCnt) \in Nat
  BY <1>1 DEF Classes
<1>3. \A c \in 1 .. Len(BlockCnt) : BlockCnt[c] \in Nat \ {0}
  BY <1>1
<1>4. QED
  BY <1>2, <1>3

\* What one space holds tells nothing of another.
LEMMA SameHeap ==
    ASSUME NEW s \in Spaces, HeapOf(s),
           arena'[s] = arena[s], free'[s] = free[s], held'[s] = held[s]
    PROVE  HeapOf(s)'
BY ZenonT(60) DEF HeapOf, ListSound, PageBlocks, Out, In

LEMMA SameArena ==
    ASSUME NEW s \in Spaces, ArenaSound(s), arena'[s] = arena[s],
           DOMAIN mem.map[s] \subseteq DOMAIN mem'.map[s]
    PROVE  ArenaSound(s)'
BY DEF ArenaSound

LEMMA SamePages ==
    ASSUME NEW p \in Procs, proc'[p] = proc[p]
    PROVE  ProcessPages(p)' = ProcessPages(p)
BY DEF ProcessPages

LEMMA SameArenaPages ==
    ASSUME arena'[Kernel] = arena[Kernel]
    PROVE  ArenaPages(Kernel)' = ArenaPages(Kernel)
BY DEF ArenaPages

LEMMA EmptyHeap ==
    ASSUME NEW s \in Spaces, arena'[s] = Empty, free'[s] = [c \in Classes |-> <<>>], held'[s] = {}
    PROVE  HeapOf(s)' /\ ArenaSound(s)'
<1>1. DOMAIN arena'[s] = {}
  BY EmptyMap
<1>2. ASSUME NEW c \in Classes PROVE ListSound(s, c)'
  <2>1. free'[s][c] = <<>>
    OBVIOUS
  <2>2. DOMAIN free'[s][c] = {} /\ Range(free'[s][c]) = {}
    BY <2>1 DEF Range
  <2>3. QED
    BY <2>2 DEF ListSound, IsInjective
<1>3. QED
  BY <1>1, <1>2 DEF HeapOf, ArenaSound

\* A page of the kernel that is in an arena is no process's, and the reverse.
LEMMA InArena ==
    ASSUME NEW s \in Spaces, NEW v \in DOMAIN arena[s]
    PROVE  Extent(arena[s][v], v) \subseteq ArenaPages(s)
BY DEF Extent, ArenaPages

LEMMA ArenaPagesMapped ==
    ASSUME NEW s \in Spaces, ArenaSound(s)
    PROVE  ArenaPages(s) \subseteq DOMAIN mem.map[s]
BY DEF ArenaSound, Extent, ArenaPages

-----------------------------------------------------------------------------
(* It holds at first, and every action keeps it. *)

LEMMA InitSound ==
    Init => IndInv
<1> SUFFICES ASSUME Init PROVE IndInv
  OBVIOUS
<1>1. /\ mem.pool = [p \in Pools |-> {}] /\ mem.vpool = [s \in Spaces |-> {}]
      /\ mem.map = [s \in Spaces |-> Empty] /\ mem.tables = [s \in Procs |-> Empty]
      /\ mem.err = "none"
  BY DEF Init, Pools
<1>2. mem \in MemSet
  <2>1. mem.map \in [Spaces -> Maps] /\ mem.tables \in [Procs -> Maps]
    BY <1>1, EmptyMap
  <2>2. mem.pool \in [Pools -> SUBSET Int] /\ mem.vpool \in [Spaces -> SUBSET Int]
    BY <1>1
  <2>3. mem = [pool |-> mem.pool, vpool |-> mem.vpool, map |-> mem.map,
               tables |-> mem.tables, err |-> mem.err]
    BY DEF Init
  <2>4. QED
    BY <1>1, <2>1, <2>2, <2>3 DEF MemSet
<1>3. TypeInv
  <2>1. Unused \in ProcType
    BY DEF Unused, ProcType
  <2>2. proc \in [Procs -> ProcType]
    BY <2>1 DEF Init
  <2>3. arena \in [Spaces -> HeaderMaps] /\ held \in [Spaces -> SUBSET Blocks]
    BY EmptyMap DEF Init
  <2>4. free \in [Spaces -> [Classes -> Seq(Blocks)]]
    BY DEF Init
  <2>5. QED
    BY <1>2, <2>2, <2>3, <2>4 DEF TypeInv
<1>4. \A s \in Spaces : DOMAIN mem.map[s] = {} /\ DOMAIN arena[s] = {}
  BY <1>1, EmptyMap DEF Init
<1>5. \A p \in Procs : p \in Spaces /\ DOMAIN mem.tables[p] = {} /\ proc[p].state = "unused"
  BY <1>1, EmptyMap, SpaceTypes DEF Init, Unused
<1>6. PageSound(mem)
  <2>1. Finite(mem)
    BY <1>1, <1>4, FS_EmptySet DEF Finite
  <2>2. Owned(mem)
    BY <1>4, <1>5 DEF Owned
  <2>3. Apart(mem)
    BY <1>4, <1>5 DEF Apart
  <2>4. AllUsed(mem)
    BY <1>1 DEF AllUsed, Pools
  <2>5. QED
    BY <2>1, <2>2, <2>3, <2>4 DEF PageSound
<1>7. ASSUME NEW p \in Procs PROVE Dormant(p) /\ OwnPages(p)
  <2>1. \A q \in Procs : ProcessPages(q) = {}
    BY <1>5 DEF ProcessPages
  <2>2. Dormant(p)
    BY <1>4, <1>5 DEF Dormant
  <2>3. OwnPages(p)
    BY <1>5, <2>1 DEF OwnPages
  <2>4. QED
    BY <2>2, <2>3
<1>8. ASSUME NEW s \in Spaces PROVE ArenaSound(s) /\ HeapOf(s)
  <2>1. ASSUME NEW c \in Classes PROVE ListSound(s, c)
    <3>1. free[s][c] = <<>>
      BY DEF Init
    <3>2. DOMAIN free[s][c] = {} /\ Range(free[s][c]) = {}
      BY <3>1 DEF Range
    <3>3. QED
      BY <3>2 DEF ListSound, IsInjective
  <2>2. held[s] = {}
    BY DEF Init
  <2>3. QED
    BY <1>4, <2>1, <2>2 DEF ArenaSound, HeapOf
<1>9. QED
  BY <1>1, <1>3, <1>6, <1>7, <1>8 DEF IndInv, Sound, Up

LEMMA SameSoundly ==
    ASSUME Sound, UNCHANGED vars
    PROVE  Sound'
<1>1. mem' = mem /\ proc' = proc /\ arena' = arena /\ free' = free /\ held' = held
  BY DEF vars
<1>2. TypeInv' /\ PageSound(mem')
  BY <1>1 DEF Sound, TypeInv
<1>3. ASSUME NEW p \in Procs PROVE Dormant(p)' /\ OwnPages(p)'
  <2>1. ArenaPages(Kernel)' = ArenaPages(Kernel) /\ \A q \in Procs : ProcessPages(q)' = ProcessPages(q)
    BY <1>1, SameArenaPages, SamePages
  <2>2. Dormant(p) /\ OwnPages(p)
    BY DEF Sound
  <2>3. QED
    BY <1>1, <2>1, <2>2 DEF Dormant, OwnPages
<1>4. ASSUME NEW s \in Spaces PROVE ArenaSound(s)' /\ HeapOf(s)'
  <2>1. ArenaSound(s) /\ HeapOf(s)
    BY DEF Sound
  <2>2. ArenaSound(s)'
    BY <1>1, <2>1, SameArena
  <2>3. HeapOf(s)'
    BY <1>1, <2>1, SameHeap
  <2>4. QED
    BY <2>2, <2>3
<1>5. QED
  BY <1>2, <1>3, <1>4 DEF Sound

\* A step that leaves no page of the kernel without an owner.
Keeps == Sound' /\ Ownerless' = Ownerless

Others(p) == ArenaPages(Kernel) \cup UNION {ProcessPages(q) : q \in Procs \ {p}}

LEMMA OwnersAre ==
    ASSUME NEW p \in Procs
    PROVE  Ownerless = DOMAIN mem.map[Kernel] \ (Others(p) \cup ProcessPages(p))
BY DEF Ownerless, Others

LEMMA SameOwners ==
    ASSUME proc' = proc, arena'[Kernel] = arena[Kernel],
           DOMAIN mem'.map[Kernel] = DOMAIN mem.map[Kernel]
    PROVE  Ownerless' = Ownerless
<1>1. ArenaPages(Kernel)' = ArenaPages(Kernel) /\ \A q \in Procs : ProcessPages(q)' = ProcessPages(q)
  BY SameArenaPages, SamePages
<1>2. QED
  BY <1>1 DEF Ownerless

\* A new process, with its pages of the kernel: what fork and ProcessExe have
\* in common.
New(c, pcb, bits, dir) == {pcb, dir} \cup Area(bits, BitmapPages)

LEMMA NewProcess ==
    ASSUME Sound, NEW c \in Procs, proc[c].state = "unused",
           NEW pcb \in Int, NEW bits \in Int, NEW dir \in Int,
           proc' = [proc EXCEPT ![c] =
                       [state |-> "alive", pcb |-> pcb, bits |-> bits, dir |-> dir]],
           pcb # dir, {pcb, dir} \cap Area(bits, BitmapPages) = {},
           New(c, pcb, bits, dir) \cap DOMAIN mem.map[Kernel] = {},
           mem' \in MemSet, PageSound(mem'),
           DOMAIN mem'.map[Kernel] = DOMAIN mem.map[Kernel] \cup New(c, pcb, bits, dir),
           \A u \in Spaces \ {c, Kernel} : DOMAIN mem'.map[u] = DOMAIN mem.map[u],
           \A q \in Procs \ {c} : DOMAIN mem'.tables[q] = DOMAIN mem.tables[q],
           UNCHANGED <<arena, free, held>>
    PROVE  Keeps
<1> DEFINE N == New(c, pcb, bits, dir)
<1>1. c \in Spaces /\ c # Kernel /\ \A q \in Procs : q \in Spaces /\ q # Kernel
  BY SpaceTypes
<1>2. TypeInv'
  <2>1. proc' \in [Procs -> ProcType]
    BY DEF Sound, TypeInv, ProcType
  <2>2. QED
    BY <2>1 DEF Sound, TypeInv
<1>3. /\ proc'[c].state = "alive" /\ proc'[c].pcb = pcb /\ proc'[c].bits = bits
      /\ proc'[c].dir = dir
      /\ \A q \in Procs : q # c => proc'[q] = proc[q]
  BY DEF Sound, TypeInv
<1>4. ProcessPages(c)' = N /\ ProcessPages(c) = {}
  BY <1>3 DEF ProcessPages, New
<1>5. \A q \in Procs : q # c => ProcessPages(q)' = ProcessPages(q)
  BY <1>3, SamePages
<1>6. ArenaPages(Kernel)' = ArenaPages(Kernel) /\ ArenaPages(Kernel) \subseteq DOMAIN mem.map[Kernel]
  BY SameArenaPages, ArenaPagesMapped, SpaceTypes DEF Sound
<1>7. ASSUME NEW q \in Procs PROVE Dormant(q)'
  <2>1. CASE q = c
    BY <1>3, <2>1 DEF Dormant
  <2>2. CASE q # c
    <3>1. DOMAIN mem'.map[q] = DOMAIN mem.map[q] /\ DOMAIN mem'.tables[q] = DOMAIN mem.tables[q]
      BY <1>1, <2>2
    <3>2. Dormant(q)
      BY DEF Sound
    <3>3. QED
      BY <1>3, <2>2, <3>1, <3>2 DEF Dormant
  <2>3. QED
    BY <2>1, <2>2
<1>8. \A q \in Procs : ProcessPages(q) \subseteq DOMAIN mem.map[Kernel]
  BY DEF Sound, OwnPages
<1> HIDE DEF N
<1>9. ASSUME NEW q \in Procs PROVE OwnPages(q)'
  <2>1. CASE q = c
    <3>1. N \cap ArenaPages(Kernel) = {} /\ \A r \in Procs : N \cap ProcessPages(r) = {}
      BY <1>6, <1>8 DEF N
    <3>2. N \subseteq DOMAIN mem'.map[Kernel]
      BY DEF N
    <3>3. \A r \in Procs : r # c => ProcessPages(c)' \cap ProcessPages(r)' = {}
      BY <1>4, <1>5, <3>1
    <3>4. QED
      BY <1>3, <1>4, <1>6, <2>1, <3>1, <3>2, <3>3 DEF OwnPages
  <2>2. CASE q # c
    <3>1. OwnPages(q)
      BY DEF Sound
    <3>2. N \cap ProcessPages(q) = {}
      BY <1>8 DEF N
    <3>3. ASSUME NEW r \in Procs, r # q PROVE ProcessPages(q)' \cap ProcessPages(r)' = {}
      <4>1. CASE r = c
        BY <1>4, <1>5, <2>2, <3>2, <4>1
      <4>2. CASE r # c
        BY <1>5, <2>2, <3>1, <3>3, <4>2 DEF OwnPages
      <4>3. QED
        BY <4>1, <4>2
    <3>4. ProcessPages(q)' \subseteq DOMAIN mem'.map[Kernel]
      BY <1>5, <1>8, <2>2
    <3>5. QED
      BY <1>3, <1>5, <1>6, <2>2, <3>1, <3>3, <3>4 DEF OwnPages
  <2>3. QED
    BY <2>1, <2>2
<1>10. ASSUME NEW u \in Spaces PROVE ArenaSound(u)' /\ HeapOf(u)'
  <2>1. HeapOf(u)'
    BY SameHeap DEF Sound
  <2>2. DOMAIN mem.map[u] \subseteq DOMAIN mem'.map[u]
    <3>1. CASE u = c
      <4>1. DOMAIN mem.map[u] = {}
        BY <3>1 DEF Sound, Dormant
      <4>2. QED
        BY <4>1
    <3>2. CASE u # c
      BY <3>2
    <3>3. QED
      BY <3>1, <3>2
  <2>3. ArenaSound(u)'
    BY <2>2, SameArena DEF Sound
  <2>4. QED
    BY <2>1, <2>3
<1>11. Sound'
  BY <1>2, <1>7, <1>9, <1>10 DEF Sound
<1>12. Ownerless' = Ownerless
  <2>1. Others(c)' = Others(c)
    BY <1>5, <1>6 DEF Others
  <2>2. Ownerless = DOMAIN mem.map[Kernel] \ (Others(c) \cup {})
    BY <1>4, OwnersAre
  <2>3. Ownerless' = DOMAIN mem'.map[Kernel] \ (Others(c) \cup N)
    <3>1. Ownerless' = DOMAIN mem'.map[Kernel] \ (Others(c)' \cup ProcessPages(c)')
      BY DEF Ownerless, Others
    <3>2. QED
      BY <1>4, <2>1, <3>1
  <2>4. N \cap DOMAIN mem.map[Kernel] = {}
        /\ DOMAIN mem'.map[Kernel] = DOMAIN mem.map[Kernel] \cup N
    BY DEF N
  <2>5. QED
    BY <2>2, <2>3, <2>4
<1>13. QED
  BY <1>11, <1>12 DEF Keeps

LEMMA ProcessExeSound ==
    ASSUME Sound, Up, ProcessExe
    PROVE  mem'.err \in {"none", "fault"} /\ (Up' => Keeps)
<1>1. PICK m1, m2, m3, m4 :
         /\ m1 = Must(MallocPage(mem, Kernel, 1))
         /\ m2 = Must(MallocPage(m1, Kernel, BitmapPages))
         /\ m3 = Must(MallocPage(m2, Kernel, 1))
         /\ m4 = Must(GetPages(m3, Root, {SpaceLen["user"] - 1}))
  OBVIOUS
<1>2. PICK pcb, bits, dir :
         /\ pcb = VaddrGet(mem, Kernel, 1) /\ bits = VaddrGet(m1, Kernel, BitmapPages)
         /\ dir = VaddrGet(m2, Kernel, 1)
  OBVIOUS
<1>3. /\ proc[Root].state = "unused" /\ mem' = End(m4)
      /\ proc' = [proc EXCEPT ![Root] =
                     [state |-> "alive", pcb |-> pcb, bits |-> bits, dir |-> dir]]
      /\ UNCHANGED <<arena, free, held>>
  BY <1>1, <1>2 DEF ProcessExe
<1>4. mem \in MemSet /\ PageSound(mem) /\ mem.err = "none"
  BY DEF Sound, TypeInv, Up
<1>5. Root \in Procs /\ Root \in Spaces /\ Root # Kernel
  BY MemoryAssumption, SpaceTypes
<1>6. Needed(mem, m1, 1, pcb)
  BY <1>1, <1>2, <1>4, NeededPages
<1>7. Needed(m1, m2, BitmapPages, bits)
  BY <1>1, <1>2, <1>6, BitmapSizes, NeededPages DEF Needed
<1>8. Needed(m2, m3, 1, dir)
  BY <1>1, <1>2, <1>7, NeededPages DEF Needed
<1>9. PICK P \in SUBSET Int : P = {SpaceLen["user"] - 1} /\ IsFiniteSet(P)
  <2>1. SpaceLen["user"] - 1 \in Int
    BY MemoryAssumption
  <2>2. IsFiniteSet({SpaceLen["user"] - 1})
    BY FS_Singleton
  <2>3. {SpaceLen["user"] - 1} \in SUBSET Int
    BY <2>1
  <2>4. QED
    BY <2>2, <2>3
<1>10. m3.err = "none" => P \cap DOMAIN m3.map[Root] = {}
  <2>1. DOMAIN mem.map[Root] = {}
    BY <1>3, <1>5 DEF Sound, Dormant
  <2>2. QED
    BY <1>5, <1>6, <1>7, <1>8, <2>1 DEF Needed, MapsAlso
<1>11. NeededAt(m3, m4, Root, P)
  BY <1>1, <1>5, <1>8, <1>9, <1>10, NeededGetPages DEF Needed
<1>12. /\ mem'.err \in {"none", "fault"}
       /\ mem'.err = "none" => m4.err = "none" /\ mem' = m4
  BY <1>3, <1>4, <1>11, EndSound DEF NeededAt
<1>13. ASSUME Up' PROVE Keeps
  <2>1. m4.err = "none" /\ mem' = m4
    BY <1>12, <1>13 DEF Up
  <2>2. m1.err = "none" /\ m2.err = "none" /\ m3.err = "none"
    BY <1>7, <1>8, <1>11, <2>1 DEF Needed, NeededAt
  <2>3. /\ pcb \in Nat /\ bits \in Nat /\ dir \in Nat
        /\ {pcb} \cap DOMAIN mem.map[Kernel] = {}
        /\ Area(bits, BitmapPages) \cap DOMAIN m1.map[Kernel] = {}
        /\ {dir} \cap DOMAIN m2.map[Kernel] = {}
        /\ DOMAIN m1.map[Kernel] = DOMAIN mem.map[Kernel] \cup {pcb}
        /\ DOMAIN m2.map[Kernel] = DOMAIN m1.map[Kernel] \cup Area(bits, BitmapPages)
        /\ DOMAIN m3.map[Kernel] = DOMAIN m2.map[Kernel] \cup {dir}
    <3>1. pcb \in Nat /\ bits \in Nat /\ dir \in Nat
      BY <1>6, <1>7, <1>8, <2>1, <2>2 DEF Needed
    <3>2. Area(pcb, 1) = {pcb} /\ Area(dir, 1) = {dir}
      BY <3>1 DEF Area
    <3>3. QED
      BY <1>6, <1>7, <1>8, <2>1, <2>2, <3>1, <3>2, SpaceTypes DEF Needed, MapsAlso
  <2>4. DOMAIN m4.map[Kernel] = DOMAIN m3.map[Kernel]
    BY <1>5, <1>11, <2>1, SpaceTypes DEF NeededAt, MapsAlso
  <2>5. /\ \A u \in Spaces \ {Root, Kernel} : DOMAIN m4.map[u] = DOMAIN mem.map[u]
        /\ \A q \in Procs \ {Root} : DOMAIN m4.tables[q] = DOMAIN mem.tables[q]
    <3>1. /\ \A u \in Spaces \ {Kernel} : DOMAIN m3.map[u] = DOMAIN mem.map[u]
          /\ \A q \in Procs : DOMAIN m3.tables[q] = DOMAIN mem.tables[q]
      BY <1>6, <1>7, <1>8, <2>2, SpaceTypes DEF Needed, MapsAlso
    <3>2. QED
      BY <1>11, <2>1, <3>1 DEF NeededAt, MapsAlso
  <2>6. m4 \in MemSet /\ PageSound(m4)
    BY <1>11, <2>1 DEF NeededAt
  <2>7. pcb # dir /\ {pcb, dir} \cap Area(bits, BitmapPages) = {}
    BY <2>3
  <2>8. /\ New(Root, pcb, bits, dir) \cap DOMAIN mem.map[Kernel] = {}
        /\ DOMAIN m4.map[Kernel] = DOMAIN mem.map[Kernel] \cup New(Root, pcb, bits, dir)
    BY <2>3, <2>4 DEF New
  <2>9. pcb \in Int /\ bits \in Int /\ dir \in Int
    BY <2>3
  <2>10. /\ mem' \in MemSet /\ PageSound(mem')
         /\ DOMAIN mem'.map[Kernel] = DOMAIN mem.map[Kernel] \cup New(Root, pcb, bits, dir)
         /\ \A u \in Spaces \ {Root, Kernel} : DOMAIN mem'.map[u] = DOMAIN mem.map[u]
         /\ \A q \in Procs \ {Root} : DOMAIN mem'.tables[q] = DOMAIN mem.tables[q]
    BY <2>1, <2>5, <2>6, <2>8
  <2>11. QED
    <3>1. /\ proc[Root].state = "unused" /\ UNCHANGED <<arena, free, held>>
          /\ proc' = [proc EXCEPT ![Root] =
                         [state |-> "alive", pcb |-> pcb, bits |-> bits, dir |-> dir]]
      BY <1>3
    <3>2. New(Root, pcb, bits, dir) \cap DOMAIN mem.map[Kernel] = {}
      BY <2>8
    <3>3. QED
      BY <1>5, <2>7, <2>9, <2>10, <3>1, <3>2, NewProcess, ZenonT(60)
<1>14. QED
  BY <1>12, <1>13

LEMMA ForkSound ==
    ASSUME Sound, Up, NEW p \in Procs, NEW c \in Procs, syscall_fork(p, c)
    PROVE  mem'.err \in {"none", "fault"} /\ (Up' => Keeps)
<1>1. PICK m1, m2, m3, m4, m5 :
         /\ m1 = MallocPage(mem, Kernel, 1)
         /\ m2 = Must(MallocPage(m1, Kernel, 1))
         /\ m3 = Must(MallocPage(m2, Kernel, BitmapPages))
         /\ m4 = Must(MallocPage(m3, Kernel, 1))
         /\ m5 = CopyStack3(m4, p, c)
  OBVIOUS
<1>2. PICK pcb, buf, bits, dir :
         /\ pcb = VaddrGet(mem, Kernel, 1) /\ buf = VaddrGet(m1, Kernel, 1)
         /\ bits = VaddrGet(m2, Kernel, BitmapPages) /\ dir = VaddrGet(m3, Kernel, 1)
  OBVIOUS
<1>3. /\ proc[c].state = "unused" /\ proc[p].state = "alive" /\ p # c
      /\ UNCHANGED <<arena, free, held>>
  BY DEF syscall_fork, Alive
<1>4. mem \in MemSet /\ PageSound(mem) /\ mem.err = "none"
  BY DEF Sound, TypeInv, Up
<1>5. c \in Spaces /\ c # Kernel /\ Kernel \in Spaces
  BY SpaceTypes
<1>6. CASE m1.err # "none"
  <2>1. UNCHANGED <<mem, proc>>
    BY <1>1, <1>6 DEF syscall_fork
  <2>2. UNCHANGED vars
    BY <1>3, <2>1 DEF vars
  <2>3. Keeps
    BY <2>1, <2>2, SameSoundly, SameOwners, <1>3 DEF Keeps
  <2>4. QED
    BY <1>4, <2>1, <2>3
<1>7. CASE m1.err = "none"
  <2>1. /\ mem' = IF m5.err # "none" THEN End(m5) ELSE FreePage(m5, Kernel, buf, 1)
        /\ proc' = [proc EXCEPT ![c] =
                       [state |-> "alive", pcb |-> pcb, bits |-> bits, dir |-> dir]]
    BY <1>1, <1>2, <1>7 DEF syscall_fork
  <2>2. /\ m1 \in MemSet /\ PageSound(m1) /\ MapsAlso(mem, m1, Kernel, Area(pcb, 1))
        /\ pcb \in Nat /\ Area(pcb, 1) \cap DOMAIN mem.map[Kernel] = {}
    BY <1>1, <1>2, <1>4, <1>5, <1>7, MallocPageSound DEF Granted
  <2>3. Needed(m1, m2, 1, buf)
    BY <1>1, <1>2, <1>7, <2>2, NeededPages
  <2>4. Needed(m2, m3, BitmapPages, bits)
    BY <1>1, <1>2, <2>3, BitmapSizes, NeededPages DEF Needed
  <2>5. Needed(m3, m4, 1, dir)
    BY <1>1, <1>2, <2>4, NeededPages DEF Needed
  <2>6. m4.err = "none" => DOMAIN m4.map[c] = {}
    <3>1. DOMAIN mem.map[c] = {}
      BY <1>3, <1>5 DEF Sound, Dormant
    <3>2. QED
      BY <1>5, <2>2, <2>3, <2>4, <2>5, <3>1 DEF Needed, MapsAlso
  <2>7. /\ m5 \in MemSet /\ m5.err \in {"none", "fault"}
        /\ m5.err = "none" =>
             /\ m4.err = "none" /\ PageSound(m5)
             /\ \A u \in Spaces \ {c} : DOMAIN m5.map[u] = DOMAIN m4.map[u]
             /\ \A q \in Procs \ {c} : DOMAIN m5.tables[q] = DOMAIN m4.tables[q]
    <3>1. m4 \in MemSet /\ m4.err \in {"none", "fault"} /\ (m4.err = "none" => PageSound(m4))
      BY <2>5 DEF Needed
    <3>2. QED
      BY <1>1, <1>3, <2>6, <3>1, CopySound
  <2>8. CASE m5.err # "none"
    <3>1. mem' = End(m5) /\ m5.err = "fault"
      BY <2>1, <2>7, <2>8
    <3>2. mem'.err = "fault"
      BY <1>4, <2>7, <3>1, EndSound
    <3>3. QED
      BY <3>2 DEF Up
  <2>9. CASE m5.err = "none"
    <3>1. mem' = FreePage(m5, Kernel, buf, 1)
      BY <2>1, <2>9
    <3>2. m2.err = "none" /\ m3.err = "none" /\ m4.err = "none"
      BY <2>4, <2>5, <2>7, <2>9 DEF Needed
    <3>3. buf \in Nat /\ bits \in Nat /\ dir \in Nat
      BY <2>3, <2>4, <2>5, <3>2 DEF Needed
    <3>4. Area(pcb, 1) = {pcb} /\ Area(buf, 1) = {buf} /\ Area(dir, 1) = {dir}
      BY <2>2, <3>3 DEF Area
    <3>5. /\ {pcb} \cap DOMAIN mem.map[Kernel] = {}
          /\ {buf} \cap DOMAIN m1.map[Kernel] = {}
          /\ Area(bits, BitmapPages) \cap DOMAIN m2.map[Kernel] = {}
          /\ {dir} \cap DOMAIN m3.map[Kernel] = {}
          /\ DOMAIN m1.map[Kernel] = DOMAIN mem.map[Kernel] \cup {pcb}
          /\ DOMAIN m2.map[Kernel] = DOMAIN m1.map[Kernel] \cup {buf}
          /\ DOMAIN m3.map[Kernel] = DOMAIN m2.map[Kernel] \cup Area(bits, BitmapPages)
          /\ DOMAIN m4.map[Kernel] = DOMAIN m3.map[Kernel] \cup {dir}
      BY <2>2, <2>3, <2>4, <2>5, <3>2, <3>4 DEF Needed, MapsAlso
    <3>6. DOMAIN m5.map[Kernel] = DOMAIN m4.map[Kernel]
      BY <1>5, <2>7, <2>9
    <3>7. /\ mem' \in MemSet /\ PageSound(mem') /\ MapsLess(m5, mem', Kernel, {buf})
      <4>1. buf \in DOMAIN m5.map[Kernel]
        BY <3>5, <3>6
      <4>2. m5 \in MemSet /\ PageSound(m5)
        BY <2>7, <2>9
      <4>3. QED
        BY <1>5, <3>1, <3>3, <4>1, <4>2, FreeOnePage
    <3>8. /\ New(c, pcb, bits, dir) \cap DOMAIN mem.map[Kernel] = {}
          /\ buf \notin DOMAIN mem.map[Kernel] /\ buf \notin New(c, pcb, bits, dir)
          /\ pcb # dir /\ {pcb, dir} \cap Area(bits, BitmapPages) = {}
      BY <3>5 DEF New
    <3>9. DOMAIN mem'.map[Kernel] = DOMAIN m5.map[Kernel] \ {buf}
      BY <3>7 DEF MapsLess
    <3>10. DOMAIN mem'.map[Kernel] = DOMAIN mem.map[Kernel] \cup New(c, pcb, bits, dir)
      <4>1. DOMAIN m5.map[Kernel] = DOMAIN mem.map[Kernel] \cup New(c, pcb, bits, dir) \cup {buf}
        BY <3>5, <3>6 DEF New
      <4>2. QED
        BY <3>8, <3>9, <4>1
    <3>11. /\ \A u \in Spaces \ {c, Kernel} : DOMAIN mem'.map[u] = DOMAIN mem.map[u]
           /\ \A q \in Procs \ {c} : DOMAIN mem'.tables[q] = DOMAIN mem.tables[q]
      <4>1. /\ \A u \in Spaces \ {Kernel} : DOMAIN m4.map[u] = DOMAIN mem.map[u]
            /\ \A q \in Procs : DOMAIN m4.tables[q] = DOMAIN mem.tables[q]
        BY <2>2, <2>3, <2>4, <2>5, <3>2, SpaceTypes DEF Needed, MapsAlso
      <4>2. QED
        BY <2>7, <2>9, <3>7, <4>1 DEF MapsLess
    <3>12. mem'.err = "none"
      BY <2>9, <3>7 DEF MapsLess
    <3>13. pcb \in Int /\ bits \in Int /\ dir \in Int
      BY <2>2, <3>3
    <3>14. Keeps
      <4>1. proc[c].state = "unused" /\ UNCHANGED <<arena, free, held>>
        BY <1>3
      <4>2. proc' = [proc EXCEPT ![c] =
                       [state |-> "alive", pcb |-> pcb, bits |-> bits, dir |-> dir]]
        BY <2>1
      <4>3. mem' \in MemSet /\ PageSound(mem')
        BY <3>7
      <4>4. QED
        BY <3>8, <3>10, <3>11, <3>13, <4>1, <4>2, <4>3, NewProcess
    <3>15. QED
      BY <3>12, <3>14
  <2>10. QED
    BY <2>8, <2>9
<1>8. QED
  BY <1>6, <1>7

\* A call that maps more pages of a space, or none, and nothing else.
LEMMA MoreMapped ==
    ASSUME Sound, NEW s \in Spaces, s = Kernel \/ proc[s].state = "alive",
           UNCHANGED <<proc, arena, free, held>>,
           mem' \in MemSet, PageSound(mem'),
           DOMAIN mem.map[s] \subseteq DOMAIN mem'.map[s],
           s = Kernel => DOMAIN mem'.map[s] = DOMAIN mem.map[s],
           \A u \in Spaces \ {s} : DOMAIN mem'.map[u] = DOMAIN mem.map[u],
           \A q \in Procs \ {s} : DOMAIN mem'.tables[q] = DOMAIN mem.tables[q]
    PROVE  Keeps
<1>1. TypeInv'
  BY DEF Sound, TypeInv
<1>2. \A u \in Spaces : DOMAIN mem.map[u] \subseteq DOMAIN mem'.map[u]
  OBVIOUS
<1>3. ASSUME NEW p \in Procs PROVE Dormant(p)' /\ OwnPages(p)'
  <2>1. ArenaPages(Kernel)' = ArenaPages(Kernel) /\ \A q \in Procs : ProcessPages(q)' = ProcessPages(q)
    BY SameArenaPages, SamePages
  <2>2. Dormant(p) /\ OwnPages(p)
    BY DEF Sound
  <2>3. Dormant(p)'
    BY <2>2, SpaceTypes DEF Dormant
  <2>4. DOMAIN mem.map[Kernel] \subseteq DOMAIN mem'.map[Kernel]
    BY <1>2, SpaceTypes
  <2>5. OwnPages(p)'
    BY <2>1, <2>2, <2>4 DEF OwnPages
  <2>6. QED
    BY <2>3, <2>5
<1>4. ASSUME NEW u \in Spaces PROVE ArenaSound(u)' /\ HeapOf(u)'
  <2>1. ArenaSound(u) /\ HeapOf(u)
    BY DEF Sound
  <2>2. ArenaSound(u)'
    BY <1>2, <2>1, SameArena
  <2>3. HeapOf(u)'
    BY <2>1, SameHeap
  <2>4. QED
    BY <2>2, <2>3
<1>5. DOMAIN mem'.map[Kernel] = DOMAIN mem.map[Kernel]
  BY SpaceTypes
<1>6. Sound' /\ Ownerless' = Ownerless
  BY <1>1, <1>3, <1>4, <1>5, SameOwners DEF Sound
<1>7. QED
  BY <1>6 DEF Keeps

LEMMA SegmentLoadSound ==
    ASSUME Sound, Up, NEW p \in Procs, NEW first \in Int, NEW n \in Int, SegmentLoad(p, first, n)
    PROVE  mem'.err \in {"none", "fault"} /\ (Up' => Keeps)
<1>1. PICK P \in SUBSET Int : P = Area(first, n) \ DOMAIN mem.map[p] /\ IsFiniteSet(P)
  <2>1. Area(first, n) \in SUBSET Int /\ IsFiniteSet(Area(first, n))
    BY AreaFinite
  <2>2. IsFiniteSet(Area(first, n) \ DOMAIN mem.map[p])
    BY <2>1, FS_Subset
  <2>3. Area(first, n) \ DOMAIN mem.map[p] \in SUBSET Int
    BY <2>1
  <2>4. QED
    BY <2>2, <2>3
<1>2. PICK a : a = GetPages(mem, p, P)
  OBVIOUS
<1>3. mem' = End(a) /\ proc[p].state = "alive" /\ UNCHANGED <<proc, arena, free, held>>
  BY <1>1, <1>2 DEF SegmentLoad, Alive
<1>4. mem \in MemSet /\ PageSound(mem) /\ mem.err = "none"
  BY DEF Sound, TypeInv, Up
<1>5. p \in Spaces /\ p # Kernel /\ P \cap DOMAIN mem.map[p] = {}
  BY <1>1, SpaceTypes
<1>6. a \in MemSet /\ Got(mem, a, p, P)
  BY <1>1, <1>2, <1>4, <1>5, GetPagesSound
<1>7. /\ mem'.err \in {"none", "fault"}
      /\ mem'.err = "none" =>
            /\ a.err # "fault" /\ mem' \in MemSet
            /\ mem'.pool = a.pool /\ mem'.vpool = a.vpool /\ mem'.map = a.map /\ mem'.tables = a.tables
  <2>1. a.err \in {"none", "nomem", "fault"}
    BY <1>6 DEF Got
  <2>2. QED
    BY <1>3, <1>4, <1>6, <2>1, EndSound
<1>8. ASSUME Up' PROVE Keeps
  <2>1. mem'.err = "none"
    BY <1>8 DEF Up
  <2>2. PageSound(a) /\ \E Q \in SUBSET P : MapsAlso(mem, a, p, Q)
    BY <1>6, <1>7, <2>1 DEF Got
  <2>3. PageSound(mem')
    BY <1>7, <2>1, <2>2, SameSound
  <2>4. /\ DOMAIN mem.map[p] \subseteq DOMAIN mem'.map[p]
        /\ \A u \in Spaces \ {p} : DOMAIN mem'.map[u] = DOMAIN mem.map[u]
        /\ \A q \in Procs \ {p} : DOMAIN mem'.tables[q] = DOMAIN mem.tables[q]
    BY <1>7, <2>1, <2>2 DEF MapsAlso
  <2>5. mem' \in MemSet
    BY <1>7, <2>1
  <2>6. QED
    BY <1>3, <1>5, <2>3, <2>4, <2>5, MoreMapped
<1>9. QED
  BY <1>7, <1>8

\* A process that has exited gives back pages A of those the kernel has for it.
LEMMA GivenBack ==
    ASSUME Sound, NEW p \in Procs, proc' \in [Procs -> ProcType],
           \A q \in Procs : q # p => proc'[q] = proc[q],
           proc'[p].state # "alive",
           proc'[p].state # "unused" => proc'[p].pcb # proc'[p].dir,
           NEW A, A \subseteq ProcessPages(p),
           ProcessPages(p)' \subseteq ProcessPages(p) \ A,
           mem' \in MemSet, PageSound(mem'),
           DOMAIN mem'.map[Kernel] = DOMAIN mem.map[Kernel] \ A,
           \A u \in Spaces \ {p, Kernel} : DOMAIN mem'.map[u] = DOMAIN mem.map[u],
           \A q \in Procs \ {p} : DOMAIN mem'.tables[q] = DOMAIN mem.tables[q],
           DOMAIN mem'.map[p] = {}, DOMAIN mem'.tables[p] = {}, DOMAIN arena'[p] = {},
           arena' \in [Spaces -> HeaderMaps], free' \in [Spaces -> [Classes -> Seq(Blocks)]],
           held' \in [Spaces -> SUBSET Blocks],
           \A u \in Spaces \ {p} :
              arena'[u] = arena[u] /\ free'[u] = free[u] /\ held'[u] = held[u],
           ArenaSound(p)', HeapOf(p)'
    PROVE  /\ Sound'
           /\ Ownerless' = Ownerless \cup (ProcessPages(p) \ (A \cup ProcessPages(p)'))
           /\ Ownerless \cap ProcessPages(p) = {}
<1>1. p \in Spaces /\ p # Kernel /\ Kernel \in Spaces \ {p}
  BY SpaceTypes
<1>2. TypeInv'
  BY DEF TypeInv
<1>3. ArenaPages(Kernel)' = ArenaPages(Kernel)
  BY <1>1, SameArenaPages
<1>4. \A q \in Procs : q # p => ProcessPages(q)' = ProcessPages(q)
  BY SamePages
<1>5. ASSUME NEW q \in Procs PROVE Dormant(q)'
  <2>1. CASE q = p
    BY <2>1 DEF Dormant
  <2>2. CASE q # p
    <3>1. q \in Spaces \ {p, Kernel}
      BY <2>2, SpaceTypes
    <3>2. Dormant(q)
      BY DEF Sound
    <3>3. QED
      BY <2>2, <3>1, <3>2 DEF Dormant
  <2>3. QED
    BY <2>1, <2>2
<1>6. ASSUME NEW q \in Procs PROVE OwnPages(q)'
  <2>1. OwnPages(q) /\ OwnPages(p)
    BY DEF Sound
  <2>2. CASE q = p
    <3>1. ProcessPages(p)' \subseteq DOMAIN mem'.map[Kernel]
      BY <2>1 DEF OwnPages
    <3>2. ProcessPages(p)' \cap ArenaPages(Kernel)' = {}
      BY <1>3, <2>1 DEF OwnPages
    <3>3. \A r \in Procs : r # p => ProcessPages(p)' \cap ProcessPages(r)' = {}
      BY <1>4, <2>1 DEF OwnPages
    <3>4. QED
      BY <2>2, <3>1, <3>2, <3>3 DEF OwnPages
  <2>3. CASE q # p
    <3>1. ProcessPages(q) \cap ProcessPages(p) = {}
      BY <2>1, <2>3 DEF OwnPages
    <3>2. ProcessPages(q)' \subseteq DOMAIN mem'.map[Kernel]
      BY <1>4, <2>1, <2>3, <3>1 DEF OwnPages
    <3>3. ProcessPages(q)' \cap ArenaPages(Kernel)' = {}
      BY <1>3, <1>4, <2>1, <2>3 DEF OwnPages
    <3>4. ASSUME NEW r \in Procs, r # q PROVE ProcessPages(q)' \cap ProcessPages(r)' = {}
      <4>1. ProcessPages(r)' \subseteq ProcessPages(r)
        BY <1>4
      <4>2. QED
        BY <1>4, <2>1, <2>3, <3>4, <4>1 DEF OwnPages
    <3>5. proc'[q] = proc[q]
      BY <2>3
    <3>6. QED
      BY <2>1, <3>2, <3>3, <3>4, <3>5 DEF OwnPages
  <2>4. QED
    BY <2>2, <2>3
<1>7. ASSUME NEW u \in Spaces PROVE ArenaSound(u)' /\ HeapOf(u)'
  <2>1. CASE u = p
    BY <2>1
  <2>2. CASE u = Kernel
    <3>1. ArenaSound(u) /\ HeapOf(u)
      BY DEF Sound
    <3>2. HeapOf(u)'
      BY <1>1, <2>2, <3>1, SameHeap
    <3>3. \A v \in DOMAIN arena[u] : Extent(arena[u][v], v) \cap A = {}
      <4>1. ProcessPages(p) \cap ArenaPages(Kernel) = {}
        BY DEF Sound, OwnPages
      <4>2. QED
        BY <2>2, <4>1, InArena
    <3>4. ArenaSound(u)'
      BY <1>1, <2>2, <3>1, <3>3, ZenonT(60) DEF ArenaSound
    <3>5. QED
      BY <3>2, <3>4
  <2>3. CASE u # p /\ u # Kernel
    <3>1. ArenaSound(u) /\ HeapOf(u)
      BY DEF Sound
    <3>2. HeapOf(u)'
      BY <2>3, <3>1, SameHeap
    <3>3. ArenaSound(u)'
      BY <2>3, <3>1, SameArena
    <3>4. QED
      BY <3>2, <3>3
  <2>4. QED
    BY <2>1, <2>2, <2>3
<1>8. Sound'
  BY <1>2, <1>5, <1>6, <1>7 DEF Sound
<1>9. Others(p)' = Others(p)
  BY <1>3, <1>4 DEF Others
<1>10. Ownerless = DOMAIN mem.map[Kernel] \ (Others(p) \cup ProcessPages(p))
  BY OwnersAre
<1>11. Ownerless' = DOMAIN mem'.map[Kernel] \ (Others(p) \cup ProcessPages(p)')
  <2>1. Ownerless' = DOMAIN mem'.map[Kernel] \ (Others(p)' \cup ProcessPages(p)')
    BY DEF Ownerless, Others
  <2>2. QED
    BY <1>9, <2>1
<1>12. ProcessPages(p) \subseteq DOMAIN mem.map[Kernel] /\ ProcessPages(p) \cap Others(p) = {}
  BY DEF Sound, OwnPages, Others
<1>13. QED
  BY <1>8, <1>10, <1>11, <1>12

LEMMA ExitSound ==
    ASSUME Sound, Up, NEW p \in Procs, syscall_exit(p)
    PROVE  /\ mem'.err \in {"none", "fault"} /\ (Up' => Sound')
           /\ proc[p].state = "alive" /\ proc'[p].state = "hanging"
           /\ Ownerless \subseteq Ownerless'
           /\ Cardinality(Ownerless' \ Ownerless) = BitmapPages - ReleasedPages
<1> DEFINE A == Area(proc[p].bits, ReleasedPages)
<1>1. PICK m : m = ReleaseUserPages(mem, p)
  OBVIOUS
<1>2. /\ proc[p].state = "alive" /\ mem' = FreePage(m, Kernel, proc[p].bits, ReleasedPages)
      /\ proc' = [proc EXCEPT ![p].state = "hanging"]
      /\ arena' = [arena EXCEPT ![p] = Empty]
      /\ free' = [free EXCEPT ![p] = [c \in Classes |-> <<>>]]
      /\ held' = [held EXCEPT ![p] = {}]
  BY <1>1 DEF syscall_exit, Alive
<1>3. mem \in MemSet /\ PageSound(mem) /\ mem.err = "none"
  BY DEF Sound, TypeInv, Up
<1>4. p \in Spaces /\ p # Kernel /\ Kernel \in Spaces
  BY SpaceTypes
<1>5. /\ m \in MemSet /\ PageSound(m) /\ m.err = "none"
      /\ DOMAIN m.map[p] = {} /\ DOMAIN m.tables[p] = {}
      /\ \A u \in Spaces \ {p} : m.map[u] = mem.map[u]
      /\ \A q \in Procs \ {p} : m.tables[q] = mem.tables[q]
  BY <1>1, <1>3, ReleaseSound
<1>6. OwnPages(p) /\ proc[p] \in ProcType
  BY DEF Sound, TypeInv
<1>7. /\ proc'[p].state = "hanging" /\ proc'[p].pcb = proc[p].pcb /\ proc'[p].dir = proc[p].dir
      /\ \A q \in Procs : q # p => proc'[q] = proc[q]
      /\ proc' \in [Procs -> ProcType]
  BY <1>2 DEF Sound, TypeInv, ProcType
<1>8. ProcessPages(p) = {proc[p].pcb, proc[p].dir} \cup Area(proc[p].bits, BitmapPages)
  BY <1>2 DEF ProcessPages
<1>9. ProcessPages(p)' = {proc[p].pcb, proc[p].dir}
  BY <1>7 DEF ProcessPages
<1>10. A \subseteq Area(proc[p].bits, BitmapPages)
  <2>1. proc[p].bits \in Int
    BY <1>6 DEF ProcType
  <2>2. QED
    BY <2>1, BitmapSizes DEF Area
<1>11. /\ A \subseteq ProcessPages(p)
       /\ ProcessPages(p)' \subseteq ProcessPages(p) \ A
       /\ proc[p].pcb # proc[p].dir
  <2>1. {proc[p].pcb, proc[p].dir} \cap Area(proc[p].bits, BitmapPages) = {}
        /\ proc[p].pcb # proc[p].dir
    BY <1>2, <1>6 DEF OwnPages
  <2>2. QED
    BY <1>8, <1>9, <1>10, <2>1
<1>12. A \subseteq DOMAIN m.map[Kernel]
  <2>1. ProcessPages(p) \subseteq DOMAIN mem.map[Kernel]
    BY <1>6 DEF OwnPages
  <2>2. m.map[Kernel] = mem.map[Kernel]
    BY <1>4, <1>5
  <2>3. QED
    BY <1>11, <2>1, <2>2
<1>13. mem' \in MemSet /\ PageSound(mem') /\ MapsLess(m, mem', Kernel, A)
  <2>1. proc[p].bits \in Int /\ ReleasedPages \in Int
    BY <1>6, BitmapSizes DEF ProcType
  <2>2. QED
    BY <1>2, <1>4, <1>5, <1>12, <2>1, FreePageSound
<1> HIDE DEF A
<1>14. /\ DOMAIN mem'.map[Kernel] = DOMAIN mem.map[Kernel] \ A
       /\ \A u \in Spaces \ {p, Kernel} : DOMAIN mem'.map[u] = DOMAIN mem.map[u]
       /\ \A q \in Procs \ {p} : DOMAIN mem'.tables[q] = DOMAIN mem.tables[q]
       /\ DOMAIN mem'.map[p] = {} /\ DOMAIN mem'.tables[p] = {} /\ mem'.err = "none"
  BY <1>4, <1>5, <1>13 DEF MapsLess
<1>15. /\ arena'[p] = Empty /\ free'[p] = [c \in Classes |-> <<>>] /\ held'[p] = {}
       /\ \A u \in Spaces \ {p} :
             arena'[u] = arena[u] /\ free'[u] = free[u] /\ held'[u] = held[u]
       /\ arena' \in [Spaces -> HeaderMaps] /\ held' \in [Spaces -> SUBSET Blocks]
  BY <1>2, <1>4, EmptyMap DEF Sound, TypeInv
<1>16. free' \in [Spaces -> [Classes -> Seq(Blocks)]]
  <2>1. [c \in Classes |-> <<>>] \in [Classes -> Seq(Blocks)]
    OBVIOUS
  <2>2. QED
    BY <1>2, <2>1 DEF Sound, TypeInv
<1>17. ArenaSound(p)' /\ HeapOf(p)' /\ DOMAIN arena'[p] = {}
  BY <1>4, <1>15, EmptyHeap, EmptyMap
<1>18. /\ Sound'
       /\ Ownerless' = Ownerless \cup (ProcessPages(p) \ (A \cup ProcessPages(p)'))
       /\ Ownerless \cap ProcessPages(p) = {}
  BY <1>7, <1>11, <1>13, <1>14, <1>15, <1>16, <1>17, GivenBack
<1>19. Ownerless' \ Ownerless = Area(proc[p].bits, BitmapPages) \ A
  <2>1. {proc[p].pcb, proc[p].dir} \cap Area(proc[p].bits, BitmapPages) = {}
    BY <1>2, <1>6 DEF OwnPages
  <2>2. QED
    BY <1>8, <1>9, <1>18, <2>1
<1>20. Cardinality(Area(proc[p].bits, BitmapPages) \ A) = BitmapPages - ReleasedPages
  <2>1. proc[p].bits \in Int
    BY <1>6 DEF ProcType
  <2>2. PICK v \in Int, n \in Nat, k \in Nat :
           v = proc[p].bits /\ n = BitmapPages /\ k = ReleasedPages /\ k <= n
    BY <2>1, BitmapSizes
  <2>3. Area(v, n) \ Area(v, k) = v + k .. v + n - 1
    BY <2>2 DEF Area
  <2>4. Cardinality(v + k .. v + n - 1) = n - k
    <3>1. v + k \in Int /\ v + n - 1 \in Int
      BY <2>2
    <3>2. Cardinality(v + k .. v + n - 1) =
             IF v + k > v + n - 1 THEN 0 ELSE (v + n - 1) - (v + k) + 1
      BY <3>1, FS_Interval
    <3>3. QED
      BY <2>2, <3>2
  <2>5. QED
    BY <2>2, <2>3, <2>4 DEF A
<1>21. Ownerless \subseteq Ownerless'
  BY <1>18
<1>22. QED
  BY <1>2, <1>7, <1>14, <1>18, <1>19, <1>20, <1>21

LEMMA ThreadExitSound ==
    ASSUME Sound, Up, NEW p \in Procs, ThreadExit(p)
    PROVE  mem'.err \in {"none", "fault"} /\ (Up' => Keeps)
<1> DEFINE A == {proc[p].pcb, proc[p].dir}
<1>1. PICK m : m = FreePage(mem, Kernel, proc[p].dir, 1)
  OBVIOUS
<1>2. /\ proc[p].state = "hanging" /\ mem' = FreePage(m, Kernel, proc[p].pcb, 1)
      /\ proc' = [proc EXCEPT ![p] = Unused] /\ UNCHANGED <<arena, free, held>>
  BY <1>1 DEF ThreadExit
<1>3. mem \in MemSet /\ PageSound(mem) /\ mem.err = "none"
  BY DEF Sound, TypeInv, Up
<1>4. p \in Spaces /\ p # Kernel /\ Kernel \in Spaces
  BY SpaceTypes
<1>5. OwnPages(p) /\ Dormant(p) /\ proc[p] \in ProcType
  BY DEF Sound, TypeInv
<1>6. ProcessPages(p) = A
  BY <1>2 DEF ProcessPages
<1>7. /\ proc[p].pcb \in Int /\ proc[p].dir \in Int /\ proc[p].pcb # proc[p].dir
      /\ A \subseteq DOMAIN mem.map[Kernel]
  BY <1>2, <1>5, <1>6 DEF OwnPages, ProcType
<1>9. m \in MemSet /\ PageSound(m) /\ MapsLess(mem, m, Kernel, {proc[p].dir})
  BY <1>1, <1>3, <1>4, <1>7, FreeOnePage
<1>10. mem' \in MemSet /\ PageSound(mem') /\ MapsLess(m, mem', Kernel, {proc[p].pcb})
  <2>1. {proc[p].pcb} \subseteq DOMAIN m.map[Kernel]
    BY <1>7, <1>9 DEF MapsLess
  <2>2. QED
    BY <1>2, <1>4, <1>7, <1>9, <2>1, FreeOnePage
<1>11. /\ DOMAIN mem'.map[Kernel] = DOMAIN mem.map[Kernel] \ A
       /\ \A u \in Spaces \ {Kernel} : DOMAIN mem'.map[u] = DOMAIN mem.map[u]
       /\ \A q \in Procs : DOMAIN mem'.tables[q] = DOMAIN mem.tables[q]
       /\ mem'.err = "none"
  BY <1>3, <1>9, <1>10 DEF MapsLess
<1>12. /\ proc'[p].state = "unused"
       /\ \A q \in Procs : q # p => proc'[q] = proc[q]
       /\ proc' \in [Procs -> ProcType]
  BY <1>2 DEF Sound, TypeInv, ProcType, Unused
<1>13. ProcessPages(p)' = {}
  BY <1>12 DEF ProcessPages
<1>14. DOMAIN mem'.map[p] = {} /\ DOMAIN mem'.tables[p] = {} /\ DOMAIN arena'[p] = {}
  BY <1>2, <1>4, <1>5, <1>11 DEF Dormant
<1>15. ArenaSound(p)' /\ HeapOf(p)'
  <2>1. HeapOf(p)'
    BY <1>2, <1>4, SameHeap DEF Sound
  <2>2. ArenaSound(p)'
    BY <1>14 DEF ArenaSound
  <2>3. QED
    BY <2>1, <2>2
<1>16. /\ arena' \in [Spaces -> HeaderMaps] /\ free' \in [Spaces -> [Classes -> Seq(Blocks)]]
       /\ held' \in [Spaces -> SUBSET Blocks]
  BY <1>2 DEF Sound, TypeInv
<1>17. /\ proc'[p].state # "alive" /\ ~(proc'[p].state # "unused")
       /\ A \subseteq ProcessPages(p) /\ ProcessPages(p)' \subseteq ProcessPages(p) \ A
       /\ \A u \in Spaces \ {p} :
             arena'[u] = arena[u] /\ free'[u] = free[u] /\ held'[u] = held[u]
  BY <1>2, <1>6, <1>12, <1>13
<1> HIDE DEF A
<1>18. /\ Sound'
       /\ Ownerless' = Ownerless \cup (ProcessPages(p) \ (A \cup ProcessPages(p)'))
  BY <1>10, <1>11, <1>12, <1>14, <1>15, <1>16, <1>17, GivenBack
<1>19. Ownerless' = Ownerless
  BY <1>6, <1>18
<1>20. QED
  BY <1>11, <1>18, <1>19 DEF Keeps

-----------------------------------------------------------------------------
(* Lists of blocks. *)

\* r is list, with one block more.
Appended(T, list, b, r) ==
    r \in Seq(T) /\ IsInjective(r) /\ Range(r) = Range(list) \cup {b}

LEMMA AppendBlock ==
    ASSUME NEW T, NEW list \in Seq(T), IsInjective(list), NEW b \in T, b \notin Range(list)
    PROVE  Appended(T, list, b, Append(list, b))
<1> DEFINE n == Len(list)
           r == Append(list, b)
<1>1. /\ n \in Nat /\ DOMAIN list = 1 .. n /\ r \in Seq(T) /\ DOMAIN r = 1 .. n + 1
      /\ r[n + 1] = b /\ \A i \in 1 .. n : r[i] = list[i]
  OBVIOUS
<1> HIDE DEF n, r
<1>2. \A i \in 1 .. n : list[i] # b
  BY <1>1 DEF Range
<1>3. IsInjective(r)
  <2> SUFFICES ASSUME NEW i \in 1 .. n + 1, NEW j \in 1 .. n + 1, r[i] = r[j] PROVE i = j
    BY <1>1 DEF IsInjective
  <2>1. i \in 1 .. n \/ i = n + 1
    BY <1>1
  <2>2. j \in 1 .. n \/ j = n + 1
    BY <1>1
  <2>3. QED
    BY <1>1, <1>2, <2>1, <2>2 DEF IsInjective
<1>4. Range(r) = Range(list) \cup {b}
  <2>1. \A i \in 1 .. n : i \in 1 .. n + 1
    BY <1>1
  <2>2. n + 1 \in 1 .. n + 1 /\ \A i \in 1 .. n + 1 : i \in 1 .. n \/ i = n + 1
    BY <1>1
  <2>3. QED
    BY <1>1, <2>1, <2>2 DEF Range
<1>5. QED
  BY <1>1, <1>3, <1>4 DEF r, Appended

LEMMA TailBlocks ==
    ASSUME NEW T, NEW list \in Seq(T), list # <<>>, IsInjective(list)
    PROVE  /\ Head(list) \in T /\ Head(list) \in Range(list)
           /\ Tail(list) \in Seq(T) /\ IsInjective(Tail(list))
           /\ Range(Tail(list)) = Range(list) \ {Head(list)}
<1> DEFINE n == Len(list)
           r == Tail(list)
<1>1. /\ n \in Nat /\ n # 0 /\ DOMAIN list = 1 .. n /\ r \in Seq(T) /\ DOMAIN r = 1 .. n - 1
      /\ Head(list) = list[1] /\ \A i \in 1 .. n - 1 : r[i] = list[i + 1]
      /\ \A i \in 1 .. n : list[i] \in T
  OBVIOUS
<1> HIDE DEF n, r
<1>2. 1 \in 1 .. n /\ \A i \in 1 .. n - 1 : i + 1 \in 1 .. n /\ i + 1 # 1
  BY <1>1
<1>3. \A i \in 1 .. n : i # 1 => i - 1 \in 1 .. n - 1 /\ (i - 1) + 1 = i
  BY <1>1
<1>4. IsInjective(r)
  <2> SUFFICES ASSUME NEW i \in 1 .. n - 1, NEW j \in 1 .. n - 1, r[i] = r[j] PROVE i = j
    BY <1>1 DEF IsInjective
  <2>1. list[i + 1] = list[j + 1] /\ i + 1 \in DOMAIN list /\ j + 1 \in DOMAIN list
    BY <1>1, <1>2
  <2>2. i + 1 = j + 1
    BY <2>1 DEF IsInjective
  <2>3. QED
    BY <1>1, <2>2
<1>5. Range(r) = Range(list) \ {list[1]}
  <2>1. ASSUME NEW x \in Range(r) PROVE x \in Range(list) /\ x # list[1]
    <3>1. PICK i \in 1 .. n - 1 : x = list[i + 1]
      BY <1>1 DEF Range
    <3>2. QED
      BY <1>1, <1>2, <3>1 DEF Range, IsInjective
  <2>2. ASSUME NEW x \in Range(list), x # list[1] PROVE x \in Range(r)
    <3>1. PICK i \in 1 .. n : x = list[i] /\ i # 1
      BY <1>1, <2>2 DEF Range
    <3>2. i - 1 \in 1 .. n - 1 /\ r[i - 1] = x
      BY <1>1, <1>3, <3>1
    <3>3. QED
      BY <1>1, <3>2 DEF Range
  <2>3. QED
    BY <2>1, <2>2
<1>6. Head(list) \in Range(list) /\ Head(list) \in T
  BY <1>1, <1>2 DEF Range
<1>7. QED
  BY <1>1, <1>4, <1>5, <1>6 DEF r

LEMMA RangeFinite ==
    ASSUME NEW T, NEW list \in Seq(T)
    PROVE  IsFiniteSet(Range(list)) /\ Range(list) \in SUBSET T
<1>1. PICK n \in Nat : DOMAIN list = 1 .. n
  OBVIOUS
<1>2. IsFiniteSet(DOMAIN list)
  BY <1>1, FS_Interval
<1>3. list \in Surjection(DOMAIN list, Range(list))
  BY DEF Surjection, Range
<1>4. IsFiniteSet(Range(list))
  BY <1>2, <1>3, FS_Surjection
<1>5. QED
  BY <1>4 DEF Range

\* WithoutPage keeps the other blocks, each once, and no block of the page.
Without(list, r, v) ==
    /\ r \in Seq(Blocks) /\ IsInjective(r)
    /\ Range(r) = {b \in Range(list) : b.page # v}

LEMMA WithoutPageKeeps ==
    ASSUME NEW list \in Seq(Blocks), IsInjective(list), NEW v
    PROVE  Without(list, WithoutPage(list, v), v)
<1> DEFINE Step(b, kept) == IF b.page = v THEN kept ELSE Append(kept, b)
<1>1. PICK P \in SUBSET Int : P = DOMAIN list /\ IsFiniteSet(P)
  <2>1. PICK n \in Nat : DOMAIN list = 1 .. n
    OBVIOUS
  <2>2. QED
    BY <2>1, FS_Interval
<1>2. PICK X : X = Seq(Blocks)
  OBVIOUS
<1>3. PICK F \in [P \X X -> X] : \A i \in P, kept \in X : F[<<i, kept>>] = Step(list[i], kept)
  <2> DEFINE H == [z \in P \X X |-> Step(list[z[1]], z[2])]
  <2>1. \A i \in P, kept \in X : list[i] \in Blocks /\ Step(list[i], kept) \in X
    BY <1>1, <1>2
  <2>2. H \in [P \X X -> X]
    BY <2>1
  <2>3. \A i \in P, kept \in X : H[<<i, kept>>] = Step(list[i], kept)
    OBVIOUS
  <2> HIDE DEF H, Step
  <2>4. QED
    BY <2>2, <2>3
<1>4. <<>> \in X
  BY <1>2
<1>5. PICK g \in [SUBSET P -> X] : Recurses(g, P, <<>>, F)
  BY <1>1, <1>4, SetRecursion
<1>6. \A S \in SUBSET P : S # {} => Max(S) \in S /\ \A y \in S : y <= Max(S)
  <2> SUFFICES ASSUME NEW S \in SUBSET P, S # {} PROVE Max(S) \in S /\ \A y \in S : y <= Max(S)
    OBVIOUS
  <2>1. IsFiniteSet(S) /\ S \in SUBSET Int
    BY <1>1, FS_Subset
  <2>2. QED
    BY <2>1, MaxOfFinite
<1>7. \A S \in SUBSET P : g[S] = IF S = {} THEN <<>> ELSE Step(list[Max(S)], g[S \ {Max(S)}])
  <2> SUFFICES ASSUME NEW S \in SUBSET P, S # {} PROVE g[S] = Step(list[Max(S)], g[S \ {Max(S)}])
    BY <1>5 DEF Recurses
  <2>1. Max(S) \in P /\ g[S \ {Max(S)}] \in X
    BY <1>6
  <2>2. g[S] = F[<<Max(S), g[S \ {Max(S)}]>>]
    BY <1>5 DEF Recurses
  <2> HIDE DEF Step
  <2>3. QED
    BY <1>3, <2>1, <2>2
<1> DEFINE body(h) == [S \in SUBSET P |-> IF S = {} THEN <<>>
                                          ELSE Step(list[Max(S)], h[S \ {Max(S)}])]
           iter == CHOOSE h : h = body(h)
<1>8. g = body(g)
  <2> HIDE DEF Step
  <2>1. QED
    BY <1>7
<1>9. iter = body(iter)
  <2> HIDE DEF body
  <2>1. QED
    BY <1>8
<1>10. \A S \in SUBSET P : iter[S] = IF S = {} THEN <<>>
                                     ELSE Step(list[Max(S)], iter[S \ {Max(S)}])
  <2> HIDE DEF iter, Step
  <2>1. QED
    BY <1>9
<1>11. P \in {S \in SUBSET P : iter[S] = g[S]}
  <2> DEFINE G == {S \in SUBSET P : iter[S] = g[S]}
  <2> HIDE DEF iter, Step
  <2>1. {} \in G
    BY <1>7, <1>10
  <2>2. ASSUME NEW S \in SUBSET P, S # {}, S \ {Max(S)} \in G PROVE S \in G
    BY <1>7, <1>10, <2>2
  <2>3. G \in SUBSET (SUBSET P)
    OBVIOUS
  <2> HIDE DEF G
  <2>4. P \in G
    BY <1>1, <2>1, <2>2, <2>3, SetInduction
  <2>5. QED
    BY <2>4 DEF G
<1>12. WithoutPage(list, v) = iter[P]
  BY <1>1 DEF WithoutPage, FoldLeft, MapThenFoldSet
<1>13. WithoutPage(list, v) = g[P]
  <2> HIDE DEF iter
  <2>1. QED
    BY <1>11, <1>12
<1> HIDE DEF iter, body
<1> DEFINE Kept(S) == {list[i] : i \in {j \in S : list[j].page # v}}
           G == {S \in SUBSET P : IsInjective(g[S]) /\ Range(g[S]) = Kept(S)}
<1>14. {} \in G
  <2>1. g[{}] = <<>>
    BY <1>7
  <2>2. DOMAIN g[{}] = {}
    BY <2>1
  <2>3. Range(g[{}]) = {} /\ IsInjective(g[{}])
    BY <2>2 DEF Range, IsInjective
  <2>4. QED
    BY <2>3
<1>15. ASSUME NEW S \in SUBSET P, S # {}, S \ {Max(S)} \in G PROVE S \in G
  <2>1. PICK x \in P : x = Max(S) /\ x \in S
    BY <1>6, <1>15
  <2>2. PICK T \in SUBSET P : T = S \ {x}
    OBVIOUS
  <2>3. T \in G
    BY <1>15, <2>1, <2>2
  <2>4. IsInjective(g[T]) /\ Range(g[T]) = Kept(T)
    BY <2>3
  <2>5. g[S] = Step(list[x], g[T])
    <3> HIDE DEF Step, G
    <3>1. QED
      BY <1>7, <1>15, <2>1, <2>2
  <2>6. PICK kept \in Seq(Blocks), b \in Blocks : kept = g[T] /\ b = list[x]
    <3>1. g[T] \in Seq(Blocks)
      BY <1>2, <2>2
    <3>2. \A i \in DOMAIN list : list[i] \in Blocks
      OBVIOUS
    <3>3. QED
      BY <1>1, <3>1, <3>2
  <2>7. CASE list[x].page = v
    <3>1. g[S] = g[T]
      BY <2>5, <2>7
    <3>2. Kept(S) = Kept(T)
      BY <2>1, <2>2, <2>7
    <3>3. QED
      BY <2>4, <3>1, <3>2
  <2>8. CASE list[x].page # v
    <3>1. g[S] = Append(g[T], list[x])
      BY <2>5, <2>8
    <3>2. b \notin Range(kept)
      BY <1>1, <2>1, <2>2, <2>4, <2>6 DEF IsInjective
    <3>3. IsInjective(Append(kept, b)) /\ Range(Append(kept, b)) = Range(kept) \cup {b}
      <4> HIDE DEF G, Step, Kept
      <4>1. IsInjective(kept)
        BY <2>4, <2>6
      <4>2. QED
        BY <2>6, <3>2, <4>1, AppendBlock DEF Appended
    <3>4. Kept(S) = Kept(T) \cup {list[x]}
      BY <2>1, <2>2, <2>8
    <3>5. QED
      BY <2>4, <2>6, <3>1, <3>3, <3>4
  <2>9. QED
    BY <2>7, <2>8
<1>16. P \in G
  <2>1. G \in SUBSET (SUBSET P)
    OBVIOUS
  <2> HIDE DEF G
  <2>2. QED
    BY <1>1, <1>14, <1>15, <2>1, SetInduction
<1>17. Kept(P) = {b \in Range(list) : b.page # v}
  BY <1>1 DEF Range
<1>18. g[P] \in Seq(Blocks)
  BY <1>2
<1>19. QED
  BY <1>13, <1>16, <1>17, <1>18 DEF Without

-----------------------------------------------------------------------------
(* Arenas. *)

\* g is f with header h for arena v.
Headed(f, v, h, g) ==
    /\ g \in HeaderMaps /\ DOMAIN g = DOMAIN f \cup {v} /\ g[v] = h
    /\ \A w \in DOMAIN f : w # v => g[w] = f[w]

LEMMA WithHeader ==
    ASSUME NEW f \in HeaderMaps, NEW v \in Int, NEW h \in Headers
    PROVE  Headed(f, v, h, With(f, v, h))
<1>1. DOMAIN f \cup {v} \in SUBSET Int
  BY HeaderMap
<1>2. With(f, v, h) \in [DOMAIN f \cup {v} -> Headers]
  BY HeaderMap DEF With
<1>3. QED
  BY <1>1, <1>2, MakesHeaderMap DEF With, Headed

LEMMA LessHeader ==
    ASSUME NEW f \in HeaderMaps, NEW v
    PROVE  /\ [w \in DOMAIN f \ {v} |-> f[w]] \in HeaderMaps
           /\ DOMAIN [w \in DOMAIN f \ {v} |-> f[w]] = DOMAIN f \ {v}
<1>1. DOMAIN f \ {v} \in SUBSET Int /\ [w \in DOMAIN f \ {v} |-> f[w]] \in [DOMAIN f \ {v} -> Headers]
  BY HeaderMap
<1>2. QED
  BY <1>1, MakesHeaderMap

LEMMA OfArena ==
    ASSUME NEW s \in Spaces
    PROVE  ArenaPages(s) = UNION {Extent(arena[s][v], v) : v \in DOMAIN arena[s]}
BY DEF ArenaPages, Extent

\* An arena has its first page.
LEMMA FirstPage ==
    ASSUME TypeInv, NEW s \in Spaces, ArenaSound(s), NEW v \in DOMAIN arena[s]
    PROVE  v \in Int /\ arena[s][v] \in Headers /\ v \in Extent(arena[s][v], v)
<1>1. arena[s] \in HeaderMaps
  BY DEF TypeInv
<1>2. v \in Int /\ arena[s][v] \in Headers
  BY <1>1, HeaderMap
<1>3. arena[s][v].class = 0 => arena[s][v].cnt # 0
  BY DEF ArenaSound
<1>4. PICK k \in Nat : k = (IF arena[s][v].class = 0 THEN arena[s][v].cnt ELSE 1) /\ k # 0
  BY <1>2, <1>3 DEF Headers
<1>5. v \in Area(v, k)
  BY <1>2, <1>4 DEF Area
<1>6. QED
  BY <1>2, <1>4, <1>5 DEF Extent

\* What the kernel keeps of the processes stays out of its arenas.
KeptApart(s) ==
    s = Kernel =>
        /\ \A p \in Procs :
              /\ ProcessPages(p) \subseteq DOMAIN mem'.map[Kernel]
              /\ ProcessPages(p) \cap ArenaPages(Kernel)' = {}
        /\ Ownerless' = Ownerless

\* What malloc and free do in the space of a process, or of the kernel.
LEMMA HeapStep ==
    ASSUME Sound, NEW s \in Spaces, s = Kernel \/ proc[s].state = "alive", proc' = proc,
           mem' \in MemSet, PageSound(mem'),
           \A u \in Spaces \ {s} : DOMAIN mem'.map[u] = DOMAIN mem.map[u],
           \A q \in Procs \ {s} : DOMAIN mem'.tables[q] = DOMAIN mem.tables[q],
           arena' \in [Spaces -> HeaderMaps], free' \in [Spaces -> [Classes -> Seq(Blocks)]],
           held' \in [Spaces -> SUBSET Blocks],
           \A u \in Spaces \ {s} :
              arena'[u] = arena[u] /\ free'[u] = free[u] /\ held'[u] = held[u],
           ArenaSound(s)', HeapOf(s)',
           KeptApart(s)
    PROVE  Keeps
<1>1. TypeInv'
  BY DEF Sound, TypeInv
<1>2. \A p \in Procs : ProcessPages(p)' = ProcessPages(p)
  BY SamePages
<1>3. ASSUME NEW p \in Procs PROVE Dormant(p)'
  <2>1. Dormant(p)
    BY DEF Sound
  <2>2. CASE p = s
    BY <2>2, SpaceTypes DEF Dormant
  <2>3. CASE p # s
    BY <2>1, <2>3, SpaceTypes DEF Dormant
  <2>4. QED
    BY <2>2, <2>3
<1>4. ASSUME NEW p \in Procs PROVE OwnPages(p)'
  <2>1. OwnPages(p)
    BY DEF Sound
  <2>2. /\ ProcessPages(p) \subseteq DOMAIN mem'.map[Kernel]
        /\ ProcessPages(p) \cap ArenaPages(Kernel)' = {}
    <3>1. CASE s = Kernel
      BY <3>1 DEF KeptApart
    <3>2. CASE s # Kernel
      <4>1. Kernel \in Spaces \ {s}
        BY <3>2, SpaceTypes
      <4>2. ArenaPages(Kernel)' = ArenaPages(Kernel)
        BY <4>1, SameArenaPages
      <4>3. DOMAIN mem'.map[Kernel] = DOMAIN mem.map[Kernel]
        BY <4>1
      <4>4. QED
        BY <2>1, <4>2, <4>3 DEF OwnPages
    <3>3. QED
      BY <3>1, <3>2
  <2>3. QED
    BY <1>2, <2>1, <2>2 DEF OwnPages
<1>5. ASSUME NEW u \in Spaces PROVE ArenaSound(u)' /\ HeapOf(u)'
  <2>1. ArenaSound(u) /\ HeapOf(u)
    BY DEF Sound
  <2>2. CASE u = s
    BY <2>2
  <2>3. CASE u # s
    <3>1. HeapOf(u)'
      BY <2>1, <2>3, SameHeap
    <3>2. ArenaSound(u)'
      BY <2>1, <2>3, SameArena
    <3>3. QED
      BY <3>1, <3>2
  <2>4. QED
    BY <2>2, <2>3
<1>6. Sound'
  BY <1>1, <1>3, <1>4, <1>5 DEF Sound
<1>7. CASE s = Kernel
  BY <1>6, <1>7 DEF Keeps, KeptApart
<1>8. CASE s # Kernel
  <2>1. arena'[Kernel] = arena[Kernel] /\ DOMAIN mem'.map[Kernel] = DOMAIN mem.map[Kernel]
    BY <1>8, SpaceTypes
  <2>2. QED
    BY <1>6, <2>1, SameOwners DEF Keeps
<1>9. QED
  BY <1>7, <1>8

\* A new arena in pages that were not mapped.
ArenaMade(s, v, h) ==
    /\ v \notin DOMAIN arena[s] /\ DOMAIN arena'[s] = DOMAIN arena[s] \cup {v}
    /\ arena'[s][v] = h /\ \A w \in DOMAIN arena[s] : arena'[s][w] = arena[s][w]
    /\ arena'[s] \in HeaderMaps

LEMMA NewArena ==
    ASSUME Sound, NEW s \in Spaces, NEW v \in Int, NEW h \in Headers,
           h.class = 0 => h.cnt # 0,
           Extent(h, v) \cap DOMAIN mem.map[s] = {},
           DOMAIN mem'.map[s] = DOMAIN mem.map[s] \cup Extent(h, v),
           arena'[s] = With(arena[s], v, h), proc' = proc
    PROVE  ArenaMade(s, v, h) /\ ArenaSound(s)' /\ KeptApart(s)
<1>1. TypeInv /\ ArenaSound(s) /\ arena[s] \in HeaderMaps
  BY DEF Sound, TypeInv
<1>2. v \in Extent(h, v)
  <2>1. PICK k \in Nat : k = (IF h.class = 0 THEN h.cnt ELSE 1) /\ k # 0
    BY DEF Headers
  <2>2. v \in Area(v, k)
    BY <2>1 DEF Area
  <2>3. QED
    BY <2>1, <2>2 DEF Extent
<1>3. \A w \in DOMAIN arena[s] :
         w \in Extent(arena[s][w], w) /\ Extent(arena[s][w], w) \subseteq DOMAIN mem.map[s]
  BY <1>1, FirstPage DEF ArenaSound
<1>4. v \notin DOMAIN arena[s]
  BY <1>2, <1>3
<1>5. /\ DOMAIN arena'[s] = DOMAIN arena[s] \cup {v}
      /\ arena'[s][v] = h /\ \A w \in DOMAIN arena[s] : arena'[s][w] = arena[s][w]
      /\ arena'[s] \in HeaderMaps
  <2>1. Headed(arena[s], v, h, With(arena[s], v, h))
    BY <1>1, WithHeader
  <2>2. QED
    BY <1>4, <2>1 DEF Headed
<1>6. \A w \in DOMAIN arena'[s] :
         /\ arena'[s][w].class = 0 => arena'[s][w].cnt # 0
         /\ Extent(arena'[s][w], w) \subseteq DOMAIN mem'.map[s]
  <2>1. \A w \in DOMAIN arena[s] : arena[s][w].class = 0 => arena[s][w].cnt # 0
    BY <1>1 DEF ArenaSound
  <2>2. QED
    BY <1>3, <1>5, <2>1
<1>7. ASSUME NEW w \in DOMAIN arena'[s], NEW x \in DOMAIN arena'[s], w # x
      PROVE  Extent(arena'[s][w], w) \cap Extent(arena'[s][x], x) = {}
  <2>1. \A y, z \in DOMAIN arena[s] : y # z => Extent(arena[s][y], y) \cap Extent(arena[s][z], z) = {}
    BY <1>1 DEF ArenaSound
  <2>2. \A y \in DOMAIN arena[s] : Extent(arena[s][y], y) \cap Extent(h, v) = {}
    BY <1>3
  <2>3. QED
    BY <1>5, <1>7, <2>1, <2>2
<1>8. ArenaSound(s)'
  BY <1>6, <1>7 DEF ArenaSound
<1>9. ASSUME NEW p \in Procs, s = Kernel
      PROVE  /\ ProcessPages(p) \subseteq DOMAIN mem'.map[Kernel]
             /\ ProcessPages(p) \cap ArenaPages(Kernel)' = {}
  <2>1. OwnPages(p)
    BY DEF Sound
  <2>2. ProcessPages(p) \subseteq DOMAIN mem.map[s] /\ ProcessPages(p) \cap ArenaPages(s) = {}
    BY <1>9, <2>1 DEF OwnPages
  <2>3. ArenaPages(s) = UNION {Extent(arena[s][w], w) : w \in DOMAIN arena[s]}
    BY OfArena
  <2>4. ArenaPages(s)' = UNION {Extent(arena'[s][w], w) : w \in DOMAIN arena'[s]}
    BY DEF ArenaPages, Extent
  <2>5. ArenaPages(s)' \subseteq ArenaPages(s) \cup Extent(h, v)
    BY <1>5, <2>3, <2>4
  <2>6. QED
    BY <1>9, <2>2, <2>5
<1>10. ASSUME s = Kernel PROVE Ownerless' = Ownerless
  <2>1. \A p \in Procs : ProcessPages(p)' = ProcessPages(p)
    BY SamePages
  <2>2. ArenaPages(s) = UNION {Extent(arena[s][w], w) : w \in DOMAIN arena[s]}
    BY OfArena
  <2>3. ArenaPages(s)' = UNION {Extent(arena'[s][w], w) : w \in DOMAIN arena'[s]}
    BY DEF ArenaPages, Extent
  <2>4. ArenaPages(s)' = ArenaPages(s) \cup Extent(h, v)
    BY <1>5, <2>2, <2>3
  <2>5. QED
    BY <1>10, <2>1, <2>4 DEF Ownerless
<1>11. QED
  BY <1>4, <1>5, <1>8, <1>9, <1>10 DEF ArenaMade, KeptApart

\* The pages of the arenas stay as they were.
LEMMA SameExtents ==
    ASSUME Sound, NEW s \in Spaces, mem' = mem, proc' = proc, DOMAIN arena'[s] = DOMAIN arena[s],
           \A v \in DOMAIN arena[s] :
              /\ Extent(arena'[s][v], v) = Extent(arena[s][v], v)
              /\ arena'[s][v].class = 0 => arena'[s][v].cnt # 0
    PROVE  /\ ArenaSound(s)'
           /\ KeptApart(s)
<1>1. ArenaSound(s)
  BY DEF Sound
<1>2. ArenaSound(s)'
  BY <1>1 DEF ArenaSound
<1>3. ArenaPages(s) = UNION {Extent(arena[s][w], w) : w \in DOMAIN arena[s]}
  BY OfArena
<1>4. ArenaPages(s)' = UNION {Extent(arena'[s][w], w) : w \in DOMAIN arena'[s]}
  BY DEF ArenaPages, Extent
<1>5. ArenaPages(s)' = ArenaPages(s)
  BY <1>3, <1>4
<1>6. \A p \in Procs : ProcessPages(p)' = ProcessPages(p)
  BY SamePages
<1>7. s = Kernel => Ownerless' = Ownerless
  BY <1>5, <1>6 DEF Ownerless
<1>8. QED
  BY <1>2, <1>5, <1>7 DEF Sound, OwnPages, KeptApart

\* An arena is given back with its pages.
LEMMA LessArena ==
    ASSUME Sound, NEW s \in Spaces, NEW v \in DOMAIN arena[s],
           DOMAIN mem'.map[s] = DOMAIN mem.map[s] \ Extent(arena[s][v], v),
           arena'[s] = [w \in DOMAIN arena[s] \ {v} |-> arena[s][w]], proc' = proc
    PROVE  /\ arena'[s] \in HeaderMaps /\ ArenaSound(s)'
           /\ KeptApart(s)
<1>1. ArenaSound(s) /\ arena[s] \in HeaderMaps
  BY DEF Sound, TypeInv
<1>2. DOMAIN arena'[s] = DOMAIN arena[s] \ {v} /\ arena'[s] \in HeaderMaps
      /\ \A w \in DOMAIN arena'[s] : arena'[s][w] = arena[s][w]
  BY <1>1, LessHeader
<1>3. ArenaSound(s)'
  BY <1>1, <1>2 DEF ArenaSound
<1>4. ASSUME NEW p \in Procs, s = Kernel
      PROVE  /\ ProcessPages(p) \subseteq DOMAIN mem'.map[Kernel]
             /\ ProcessPages(p) \cap ArenaPages(Kernel)' = {}
  <2>1. OwnPages(p)
    BY DEF Sound
  <2>2. ProcessPages(p) \subseteq DOMAIN mem.map[s] /\ ProcessPages(p) \cap ArenaPages(s) = {}
    BY <1>4, <2>1 DEF OwnPages
  <2>3. ArenaPages(s) = UNION {Extent(arena[s][w], w) : w \in DOMAIN arena[s]}
    BY OfArena
  <2>4. ArenaPages(s)' = UNION {Extent(arena'[s][w], w) : w \in DOMAIN arena'[s]}
    BY DEF ArenaPages, Extent
  <2>5. ArenaPages(s)' \subseteq ArenaPages(s) /\ Extent(arena[s][v], v) \subseteq ArenaPages(s)
    BY <1>2, <2>3, <2>4
  <2>6. QED
    BY <1>4, <2>2, <2>5
<1>5. ASSUME s = Kernel PROVE Ownerless' = Ownerless
  <2>1. \A p \in Procs : ProcessPages(p)' = ProcessPages(p)
    BY SamePages
  <2>2. ArenaPages(s) = UNION {Extent(arena[s][w], w) : w \in DOMAIN arena[s]}
    BY OfArena
  <2>3. ArenaPages(s)' = UNION {Extent(arena'[s][w], w) : w \in DOMAIN arena'[s]}
    BY DEF ArenaPages, Extent
  <2>4. PICK X : X = Extent(arena[s][v], v)
    OBVIOUS
  <2>5. ArenaPages(s)' \subseteq ArenaPages(s) /\ ArenaPages(s) \subseteq ArenaPages(s)' \cup X
        /\ X \subseteq ArenaPages(s)
    BY <1>2, <2>2, <2>3, <2>4
  <2>6. DOMAIN mem'.map[Kernel] = DOMAIN mem.map[Kernel] \ X
    BY <1>5, <2>4
  <2>7. QED
    BY <1>5, <2>1, <2>5, <2>6 DEF Ownerless
<1>6. QED
  BY <1>2, <1>3, <1>4, <1>5 DEF KeptApart

\* What malloc leaves of the pages: n more of space s from v on, or all as it
\* was.
PagesMore(s, v, n) ==
    /\ v \in Nat /\ mem' \in MemSet /\ PageSound(mem') /\ mem'.err = "none"
    /\ Area(v, n) \cap DOMAIN mem.map[s] = {}
    /\ DOMAIN mem'.map[s] = DOMAIN mem.map[s] \cup Area(v, n)
    /\ \A u \in Spaces \ {s} : DOMAIN mem'.map[u] = DOMAIN mem.map[u]
    /\ \A q \in Procs \ {s} : DOMAIN mem'.tables[q] = DOMAIN mem.tables[q]

LEMMA MallocCall ==
    ASSUME Sound, Up, NEW s \in Spaces, NEW n \in Nat, MayCall(s), proc' = proc,
           NEW m, m = MallocPage(mem, s, n), mem' = End(m)
    PROVE  /\ s = Kernel \/ proc[s].state = "alive"
           /\ mem'.err \in {"none", "fault"}
           /\ m.err = "none" => PagesMore(s, VaddrGet(mem, s, n), n)
           /\ m.err # "none" /\ UNCHANGED <<arena, free, held>> => (Up' => Keeps)
<1>1. mem \in MemSet /\ PageSound(mem) /\ mem.err = "none"
  BY DEF Sound, TypeInv, Up
<1>2. s = Kernel \/ proc[s].state = "alive"
  BY DEF MayCall
<1>3. m \in MemSet /\ Granted(mem, m, s, n)
  BY <1>1, MallocPageSound
<1>4. /\ mem'.err \in {"none", "fault"}
      /\ mem'.err = "none" =>
            /\ m.err # "fault" /\ mem' \in MemSet
            /\ mem'.pool = m.pool /\ mem'.vpool = m.vpool /\ mem'.map = m.map /\ mem'.tables = m.tables
      /\ m.err = "none" => mem' = m
  <2>1. m.err \in {"none", "nomem", "fault"}
    BY <1>3 DEF Granted
  <2>2. QED
    BY <1>1, <1>3, <2>1, EndSound
<1>5. ASSUME m.err = "none" PROVE PagesMore(s, VaddrGet(mem, s, n), n)
  <2>1. mem' = m
    BY <1>4, <1>5
  <2>2. /\ VaddrGet(mem, s, n) \in Nat
        /\ Area(VaddrGet(mem, s, n), n) \cap DOMAIN mem.map[s] = {}
        /\ PageSound(m) /\ MapsAlso(mem, m, s, Area(VaddrGet(mem, s, n), n))
    BY <1>3, <1>5 DEF Granted
  <2>3. QED
    BY <1>3, <1>5, <2>1, <2>2 DEF PagesMore, MapsAlso
<1>6. ASSUME m.err # "none", UNCHANGED <<arena, free, held>>, Up' PROVE Keeps
  <2>1. mem'.err = "none"
    BY <1>6 DEF Up
  <2>2. PageSound(m) /\ MapsAlso(mem, m, s, {})
    BY <1>3, <1>4, <1>6, <2>1 DEF Granted
  <2>3. PageSound(mem') /\ mem' \in MemSet
    BY <1>4, <2>1, <2>2, SameSound
  <2>4. /\ DOMAIN mem'.map[s] = DOMAIN mem.map[s]
        /\ \A u \in Spaces \ {s} : DOMAIN mem'.map[u] = DOMAIN mem.map[u]
        /\ \A q \in Procs \ {s} : DOMAIN mem'.tables[q] = DOMAIN mem.tables[q]
    BY <1>4, <2>1, <2>2 DEF MapsAlso
  <2>5. QED
    BY <1>2, <1>6, <2>3, <2>4, MoreMapped
<1>7. QED
  BY <1>2, <1>4, <1>5, <1>6


\* A page that malloc or free does not touch.
LEMMA SamePageBlocks ==
    ASSUME TypeInv, NEW s \in Spaces, NEW w \in DOMAIN arena[s], PageBlocks(s, w),
           arena'[s][w] = arena[s][w], Out(s, w)' = Out(s, w),
           \A c \in Classes : In(s, w, c)' = In(s, w, c)
    PROVE  PageBlocks(s, w)'
<1>1. arena[s] \in HeaderMaps
  BY DEF TypeInv
<1>2. arena[s][w].class = 0 \/ arena[s][w].class \in Classes
  BY <1>1, HeaderMap DEF Headers
<1>3. QED
  BY <1>2 DEF PageBlocks

LEMMA MallocLargeSound ==
    ASSUME Sound, Up, NEW s \in Spaces, NEW n \in Sizes, MallocLarge(s, n)
    PROVE  mem'.err \in {"none", "fault"} /\ (Up' => Keeps)
<1>1. n \in Nat /\ n # 0
  BY MemoryAssumption
<1>2. PICK m : m = MallocPage(mem, s, n)
  OBVIOUS
<1>3. PICK v : v = VaddrGet(mem, s, n)
  OBVIOUS
<1>4. /\ MayCall(s) /\ mem' = End(m) /\ proc' = proc /\ free' = free
      /\ m.err # "none" => UNCHANGED <<arena, held>>
      /\ m.err = "none" =>
            /\ arena' = [arena EXCEPT ![s] = With(@, v, [class |-> 0, cnt |-> n])]
            /\ held' = [held EXCEPT ![s] = @ \cup {[page |-> v, idx |-> 0]}]
  BY <1>2, <1>3 DEF MallocLarge
<1>5. /\ s = Kernel \/ proc[s].state = "alive"
      /\ mem'.err \in {"none", "fault"}
      /\ m.err = "none" => PagesMore(s, v, n)
      /\ m.err # "none" /\ UNCHANGED <<arena, free, held>> => (Up' => Keeps)
  BY <1>1, <1>2, <1>3, <1>4, MallocCall
<1>6. ASSUME m.err = "none" PROVE Keeps
  <2>1. PICK h \in Headers : h = [class |-> 0, cnt |-> n]
    BY <1>1 DEF Headers
  <2>2. PICK b \in Blocks : b = [page |-> v, idx |-> 0]
    <3>1. v \in Int
      BY <1>5, <1>6 DEF PagesMore
    <3>2. [page |-> v, idx |-> 0] \in Blocks
      BY <3>1 DEF Blocks
    <3>3. QED
      BY <3>2
  <2>3. PagesMore(s, v, n) /\ Extent(h, v) = Area(v, n) /\ v \in Int /\ h.class = 0 /\ h.cnt # 0
    BY <1>1, <1>5, <1>6, <2>1 DEF Extent, PagesMore
  <2>4. TypeInv
    BY DEF Sound
  <2>5. /\ arena'[s] = With(arena[s], v, h) /\ held'[s] = held[s] \cup {b} /\ free'[s] = free[s]
        /\ \A u \in Spaces \ {s} :
              arena'[u] = arena[u] /\ free'[u] = free[u] /\ held'[u] = held[u]
    BY <1>4, <1>6, <2>1, <2>2, <2>4 DEF TypeInv
  <2>6. ArenaMade(s, v, h) /\ ArenaSound(s)' /\ KeptApart(s)
    <3>1. /\ Extent(h, v) \cap DOMAIN mem.map[s] = {}
          /\ DOMAIN mem'.map[s] = DOMAIN mem.map[s] \cup Extent(h, v)
      BY <2>3 DEF PagesMore
    <3>2. QED
      BY <1>4, <2>3, <2>5, <3>1, NewArena
  <2>7. /\ arena' \in [Spaces -> HeaderMaps] /\ free' \in [Spaces -> [Classes -> Seq(Blocks)]]
        /\ held' \in [Spaces -> SUBSET Blocks]
    <3>1. arena'[s] \in HeaderMaps
      BY <2>6 DEF ArenaMade
    <3>2. arena' \in [Spaces -> HeaderMaps]
      BY <1>4, <1>6, <2>4, <3>1 DEF TypeInv
    <3>3. held' \in [Spaces -> SUBSET Blocks]
      <4>1. held \in [Spaces -> SUBSET Blocks]
        BY <2>4 DEF TypeInv
      <4>2. held' = [held EXCEPT ![s] = @ \cup {b}]
        BY <1>4, <1>6, <2>2
      <4>3. QED
        BY <4>1, <4>2
    <3>4. QED
      BY <1>4, <2>4, <3>2, <3>3 DEF TypeInv
  <2>8. HeapOf(s)
    BY DEF Sound
  <2>9. \A w \in DOMAIN arena[s] : w # v /\ Out(s, w)' = Out(s, w)
    BY <2>2, <2>5, <2>6 DEF Out, ArenaMade
  <2>10. ASSUME NEW c \in Classes PROVE ListSound(s, c)'
    <3>1. ListSound(s, c)
      BY <2>8 DEF HeapOf
    <3>2. b.page = v
      BY <2>2
    <3>3. QED
      BY <2>5, <2>6, <3>1, <3>2 DEF ListSound, ArenaMade
  <2>11. ASSUME NEW w \in DOMAIN arena'[s] PROVE PageBlocks(s, w)'
    <3>1. CASE w = v
      <4>1. Out(s, v)' = {b}
        BY <2>2, <2>5, <2>6, <2>8 DEF Out, HeapOf, ArenaMade
      <4>2. QED
        BY <2>2, <2>3, <2>6, <3>1, <4>1 DEF PageBlocks, ArenaMade
    <3>2. CASE w # v
      <4>1. w \in DOMAIN arena[s] /\ PageBlocks(s, w)
        BY <2>6, <2>8, <3>2 DEF HeapOf, ArenaMade
      <4>2. \A c \in Classes : In(s, w, c)' = In(s, w, c)
        BY <2>5 DEF In
      <4>3. arena'[s][w] = arena[s][w] /\ Out(s, w)' = Out(s, w)
        BY <2>6, <2>9, <4>1 DEF ArenaMade
      <4>4. QED
        BY <2>4, <4>1, <4>2, <4>3, SamePageBlocks
    <3>3. QED
      BY <3>1, <3>2
  <2>12. HeapOf(s)'
    <3>1. \A x \in held'[s] : x.page \in DOMAIN arena'[s]
      BY <2>2, <2>5, <2>6, <2>8 DEF HeapOf, ArenaMade
    <3>2. QED
      BY <2>10, <2>11, <3>1 DEF HeapOf
  <2>13. QED
    <3>1. /\ mem' \in MemSet /\ PageSound(mem')
          /\ \A u \in Spaces \ {s} : DOMAIN mem'.map[u] = DOMAIN mem.map[u]
          /\ \A q \in Procs \ {s} : DOMAIN mem'.tables[q] = DOMAIN mem.tables[q]
      BY <2>3 DEF PagesMore
    <3>2. QED
      BY <1>4, <1>5, <2>5, <2>6, <2>7, <2>12, <3>1, HeapStep
<1>7. QED
  BY <1>4, <1>5, <1>6

\* What a step has done to the variables of space s: the header of v is h, the
\* list of class c is list, and the blocks handed out are H.
Changed(s, v, h, c, list, H) ==
    /\ proc' = proc
    /\ Headed(arena[s], v, h, arena'[s])
    /\ free'[s] \in [Classes -> Seq(Blocks)] /\ free'[s][c] = list
    /\ \A d \in Classes : d # c => free'[s][d] = free[s][d]
    /\ held'[s] = H
    /\ \A u \in Spaces \ {s} :
          arena'[u] = arena[u] /\ free'[u] = free[u] /\ held'[u] = held[u]
    /\ arena' \in [Spaces -> HeaderMaps] /\ free' \in [Spaces -> [Classes -> Seq(Blocks)]]
    /\ held' \in [Spaces -> SUBSET Blocks]

LEMMA MakesChange ==
    ASSUME TypeInv, NEW s \in Spaces, NEW v \in Int, NEW h \in Headers, NEW c \in Classes,
           NEW list \in Seq(Blocks), NEW H \in SUBSET Blocks,
           proc' = proc,
           arena' = [arena EXCEPT ![s] = With(@, v, h)],
           free' = [free EXCEPT ![s][c] = list],
           held' = [held EXCEPT ![s] = H]
    PROVE  Changed(s, v, h, c, list, H)
<1>1. arena \in [Spaces -> HeaderMaps] /\ free \in [Spaces -> [Classes -> Seq(Blocks)]]
      /\ held \in [Spaces -> SUBSET Blocks]
  BY DEF TypeInv
<1>2. Headed(arena[s], v, h, With(arena[s], v, h))
  BY <1>1, WithHeader
<1>3. arena'[s] = With(arena[s], v, h) /\ With(arena[s], v, h) \in HeaderMaps
  BY <1>1, <1>2 DEF Headed
<1>4. arena' \in [Spaces -> HeaderMaps]
  BY <1>1, <1>3
<1>5. free' \in [Spaces -> [Classes -> Seq(Blocks)]]
  BY <1>1
<1>6. held' \in [Spaces -> SUBSET Blocks]
  BY <1>1
<1>7. Headed(arena[s], v, h, arena'[s])
  BY <1>2, <1>3
<1>8. /\ held'[s] = H /\ free'[s][c] = list
      /\ \A d \in Classes : d # c => free'[s][d] = free[s][d]
      /\ \A u \in Spaces \ {s} : arena'[u] = arena[u] /\ free'[u] = free[u] /\ held'[u] = held[u]
  BY <1>1
<1>9. QED
  BY <1>4, <1>5, <1>6, <1>7, <1>8 DEF Changed

\* A header is that of an arena of blocks, or of pages.
LEMMA HeaderIs ==
    ASSUME TypeInv, NEW s \in Spaces, NEW w \in DOMAIN arena[s]
    PROVE  /\ w \in Int /\ arena[s][w] \in Headers /\ arena[s][w].cnt \in Nat
           /\ arena[s][w].class = 0 \/ arena[s][w].class \in Classes
<1>1. arena[s] \in HeaderMaps
  BY DEF TypeInv
<1>2. QED
  BY <1>1, HeaderMap DEF Headers

\* The blocks of a page on a list can be counted.
LEMMA InFinite ==
    ASSUME TypeInv, NEW s \in Spaces, NEW c \in Classes, NEW v
    PROVE  IsFiniteSet(In(s, v, c)) /\ free[s][c] \in Seq(Blocks)
<1>1. free[s][c] \in Seq(Blocks)
  BY DEF TypeInv
<1>2. IsFiniteSet(Range(free[s][c]))
  BY <1>1, RangeFinite
<1>3. In(s, v, c) \in SUBSET Range(free[s][c])
  BY DEF In
<1>4. QED
  BY <1>1, <1>2, <1>3, FS_Subset

\* A block is taken from the list.
LEMMA BlockTaken ==
    ASSUME Sound, Up, NEW s \in Spaces, NEW c \in Classes, MallocBlock(s, c), free[s][c] # <<>>
    PROVE  mem'.err \in {"none", "fault"} /\ (Up' => Keeps)
<1>1. PICK list \in Seq(Blocks) : list = free[s][c] /\ list # <<>>
  BY DEF Sound, TypeInv
<1>2. TypeInv /\ HeapOf(s) /\ ListSound(s, c) /\ c # 0
  BY ClassesAre DEF Sound, HeapOf
<1>3. IsInjective(list)
  BY <1>1, <1>2 DEF ListSound
<1>4. PICK b \in Blocks : /\ b = Head(list) /\ b \in Range(list)
                          /\ Tail(list) \in Seq(Blocks) /\ IsInjective(Tail(list))
                          /\ Range(Tail(list)) = Range(list) \ {b}
  BY <1>1, <1>3, TailBlocks
<1>5. PICK v \in Int : v = b.page
  BY <1>4 DEF Blocks
<1>6. v \in DOMAIN arena[s] /\ arena[s][v].class = c /\ b \notin held[s]
  BY <1>1, <1>2, <1>4, <1>5 DEF ListSound
<1>7. /\ arena[s][v].cnt = Cardinality(In(s, v, c)) /\ Out(s, v) # {}
      /\ Out(s, v) \cup In(s, v, c) = [page : {v}, idx : 0 .. BlockCnt[c] - 1]
  <2>1. PageBlocks(s, v)
    BY <1>2, <1>6 DEF HeapOf
  <2>2. QED
    BY <1>2, <1>6, <2>1 DEF PageBlocks
<1>8. b \in In(s, v, c)
  BY <1>1, <1>4, <1>5 DEF In
<1>9. /\ Cardinality(In(s, v, c) \ {b}) = arena[s][v].cnt - 1
      /\ Cardinality(In(s, v, c) \ {b}) \in Nat
  <2>1. IsFiniteSet(In(s, v, c))
    BY <1>2, InFinite
  <2>2. QED
    BY <1>7, <1>8, <2>1, FS_RemoveElement, FS_CardinalityType
<1>10. PICK h \in Headers : h = [class |-> c, cnt |-> arena[s][v].cnt - 1]
  BY <1>9 DEF Headers
<1>11. PICK H \in SUBSET Blocks : H = held[s] \cup {b}
  <2>1. held[s] \in SUBSET Blocks
    BY <1>2 DEF TypeInv
  <2>2. QED
    BY <2>1
<1>12. /\ mem' = mem /\ proc' = proc /\ MayCall(s)
       /\ arena' = [arena EXCEPT ![s] = With(@, v, h)]
       /\ free' = [free EXCEPT ![s][c] = Tail(list)]
       /\ held' = [held EXCEPT ![s] = H]
  <2>1. mem.err = "none" /\ End(mem) = mem
    BY DEF Up, End
  <2>2. /\ mem' = End(mem) /\ proc' = proc /\ MayCall(s)
        /\ arena' = [arena EXCEPT ![s] = With(@, v, [class |-> c, cnt |-> arena[s][v].cnt - 1])]
        /\ free' = [free EXCEPT ![s][c] = Tail(list)]
        /\ held' = [held EXCEPT ![s] = @ \cup {b}]
    BY <1>1, <1>4, <1>5, <2>1 DEF MallocBlock
  <2>3. QED
    BY <1>10, <1>11, <2>1, <2>2
<1>13. Changed(s, v, h, c, Tail(list), H)
  BY <1>2, <1>4, <1>12, MakesChange
<1>14. /\ DOMAIN arena'[s] = DOMAIN arena[s] /\ arena'[s][v] = h
       /\ \A w \in DOMAIN arena[s] : w # v => arena'[s][w] = arena[s][w]
  BY <1>6, <1>13 DEF Changed, Headed
<1>15. ArenaSound(s)' /\ KeptApart(s)
  <2>1. ArenaSound(s)
    BY DEF Sound
  <2>2. ASSUME NEW w \in DOMAIN arena[s]
        PROVE  /\ Extent(arena'[s][w], w) = Extent(arena[s][w], w)
               /\ arena'[s][w].class = 0 => arena'[s][w].cnt # 0
    <3>1. arena'[s][w].class = arena[s][w].class /\ (arena[s][w].class = 0 => arena'[s][w] = arena[s][w])
      BY <1>2, <1>6, <1>10, <1>14
    <3>2. arena[s][w].class = 0 => arena[s][w].cnt # 0
      BY <2>1 DEF ArenaSound
    <3>3. QED
      BY <3>1, <3>2 DEF Extent
  <2>3. QED
    BY <1>12, <1>14, <2>2, SameExtents
<1>16. ASSUME NEW d \in Classes PROVE ListSound(s, d)'
  <2>1. \A w \in DOMAIN arena[s] : arena'[s][w].class = arena[s][w].class
    BY <1>6, <1>10, <1>14
  <2>2. held'[s] = held[s] \cup {b}
    BY <1>11, <1>13 DEF Changed
  <2>3. ListSound(s, d)
    BY <1>2 DEF HeapOf
  <2>4. CASE d = c
    <3>1. free'[s][d] = Tail(list)
      BY <1>13, <2>4 DEF Changed
    <3>2. QED
      BY <1>1, <1>4, <1>14, <2>1, <2>2, <2>3, <2>4, <3>1 DEF ListSound
  <2>5. CASE d # c
    <3>1. free'[s][d] = free[s][d]
      BY <1>13, <2>5 DEF Changed
    <3>2. \A x \in Range(free[s][d]) : x # b
      BY <1>5, <1>6, <2>3, <2>5 DEF ListSound
    <3>3. QED
      BY <1>14, <2>1, <2>2, <2>3, <3>1, <3>2 DEF ListSound
  <2>6. QED
    BY <2>4, <2>5
<1>17. ASSUME NEW w \in DOMAIN arena'[s] PROVE PageBlocks(s, w)'
  <2>1. held'[s] = held[s] \cup {b} /\ free'[s][c] = Tail(list)
    BY <1>11, <1>13 DEF Changed
  <2>2. CASE w = v
    <3>1. Out(s, v)' = Out(s, v) \cup {b}
      BY <1>5, <2>1 DEF Out
    <3>2. In(s, v, c)' = In(s, v, c) \ {b}
      BY <1>1, <1>4, <2>1 DEF In
    <3>3. Out(s, v)' \cup In(s, v, c)' = Out(s, v) \cup In(s, v, c)
      BY <1>8, <3>1, <3>2
    <3>4. arena'[s][v].class = c /\ arena'[s][v].cnt = Cardinality(In(s, v, c)')
      BY <1>9, <1>10, <1>14, <3>2
    <3>5. QED
      BY <1>2, <1>7, <2>2, <3>1, <3>3, <3>4 DEF PageBlocks
  <2>3. CASE w # v
    <3>1. w \in DOMAIN arena[s] /\ arena'[s][w] = arena[s][w]
      BY <1>14, <2>3
    <3>2. PageBlocks(s, w)
      BY <1>2, <3>1 DEF HeapOf
    <3>3. Out(s, w)' = Out(s, w)
      BY <1>5, <2>1, <2>3 DEF Out
    <3>4. ASSUME NEW d \in Classes PROVE In(s, w, d)' = In(s, w, d)
      <4>1. CASE d = c
        BY <1>1, <1>4, <1>5, <2>1, <2>3, <4>1 DEF In
      <4>2. CASE d # c
        <5>1. free'[s][d] = free[s][d]
          BY <1>13, <4>2 DEF Changed
        <5>2. QED
          BY <5>1 DEF In
      <4>3. QED
        BY <4>1, <4>2
    <3>5. QED
      BY <1>2, <3>1, <3>2, <3>3, <3>4, SamePageBlocks
  <2>4. QED
    BY <2>2, <2>3
<1>18. HeapOf(s)'
  <2>1. \A x \in held'[s] : x.page \in DOMAIN arena'[s]
    BY <1>2, <1>5, <1>6, <1>11, <1>13, <1>14 DEF HeapOf, Changed
  <2>2. QED
    BY <1>16, <1>17, <2>1 DEF HeapOf
<1>19. Keeps
  <2>1. mem' \in MemSet /\ PageSound(mem') /\ (s = Kernel \/ proc[s].state = "alive")
    BY <1>12 DEF Sound, TypeInv, MayCall
  <2>2. /\ arena' \in [Spaces -> HeaderMaps] /\ free' \in [Spaces -> [Classes -> Seq(Blocks)]]
        /\ held' \in [Spaces -> SUBSET Blocks]
        /\ \A u \in Spaces \ {s} :
              arena'[u] = arena[u] /\ free'[u] = free[u] /\ held'[u] = held[u]
    BY <1>13 DEF Changed
  <2>3. QED
    BY <1>12, <1>15, <1>18, <2>1, <2>2, HeapStep
<1>20. QED
  BY <1>12, <1>19 DEF Up

\* The blocks of a new page.
PageList(v, n) == [i \in 1 .. n |-> [page |-> v, idx |-> i - 1]]

LEMMA NewBlocks ==
    ASSUME NEW v \in Int, NEW n \in Nat, n # 0
    PROVE  /\ PageList(v, n) \in Seq(Blocks) /\ PageList(v, n) # <<>>
           /\ IsInjective(PageList(v, n))
           /\ Range(PageList(v, n)) = [page : {v}, idx : 0 .. n - 1]
           /\ IsFiniteSet(Range(PageList(v, n))) /\ Cardinality(Range(PageList(v, n))) = n
<1> DEFINE list == PageList(v, n)
<1>1. \A i \in 1 .. n : [page |-> v, idx |-> i - 1] \in Blocks
  BY DEF Blocks
<1>2. list \in Seq(Blocks) /\ DOMAIN list = 1 .. n
      /\ \A i \in 1 .. n : list[i] = [page |-> v, idx |-> i - 1]
  BY <1>1 DEF PageList
<1>3. 1 \in 1 .. n
  OBVIOUS
<1> HIDE DEF list
<1>4. list # <<>>
  BY <1>2, <1>3
<1>5. IsInjective(list)
  <2> SUFFICES ASSUME NEW i \in 1 .. n, NEW j \in 1 .. n, list[i] = list[j] PROVE i = j
    BY <1>2 DEF IsInjective
  <2>1. list[i].idx = i - 1 /\ list[j].idx = j - 1
    BY <1>2
  <2>2. QED
    BY <2>1
<1>6. Range(list) = [page : {v}, idx : 0 .. n - 1]
  <2>1. ASSUME NEW b \in Range(list) PROVE b \in [page : {v}, idx : 0 .. n - 1]
    <3>1. PICK i \in 1 .. n : b = [page |-> v, idx |-> i - 1]
      BY <1>2 DEF Range
    <3>2. i - 1 \in 0 .. n - 1
      OBVIOUS
    <3>3. QED
      BY <3>1, <3>2
  <2>2. ASSUME NEW b \in [page : {v}, idx : 0 .. n - 1] PROVE b \in Range(list)
    <3>1. PICK i \in 0 .. n - 1 : b = [page |-> v, idx |-> i]
      OBVIOUS
    <3>2. i + 1 \in 1 .. n /\ (i + 1) - 1 = i
      OBVIOUS
    <3>3. list[i + 1] = b
      BY <1>2, <3>1, <3>2
    <3>4. QED
      BY <1>2, <3>2, <3>3 DEF Range
  <2>3. QED
    BY <2>1, <2>2
<1>7. Cardinality(Range(list)) = n /\ IsFiniteSet(Range(list))
  <2>1. IsFiniteSet(1 .. n) /\ Cardinality(1 .. n) = n
    BY FS_Interval
  <2>2. list \in Surjection(1 .. n, Range(list))
    BY <1>2 DEF Surjection, Range
  <2>3. list \in Injection(1 .. n, Range(list))
    BY <1>2, <1>5 DEF Injection, Range
  <2>4. QED
    BY <2>1, <2>2, <2>3, FS_Surjection
<1>8. QED
  BY <1>2, <1>4, <1>5, <1>6, <1>7 DEF list

\* A block is taken from a new page.
LEMMA BlockMade ==
    ASSUME Sound, Up, NEW s \in Spaces, NEW c \in Classes, MallocBlock(s, c), free[s][c] = <<>>
    PROVE  mem'.err \in {"none", "fault"} /\ (Up' => Keeps)
<1>1. PICK n \in Nat : n = BlockCnt[c] /\ n # 0
  BY ClassesAre
<1>2. TypeInv /\ HeapOf(s) /\ c # 0
  BY ClassesAre DEF Sound
<1>3. PICK v : v = VaddrGet(mem, s, 1)
  OBVIOUS
<1>4. PICK m : m = MallocPage(mem, s, 1)
  OBVIOUS
<1>5. PICK list : list = PageList(v, n)
  OBVIOUS
<1>6. PICK b : b = Head(list)
  OBVIOUS
<1>7. PICK h : h = [class |-> c, cnt |-> n - 1]
  OBVIOUS
<1>8. /\ mem' = End(m) /\ proc' = proc /\ MayCall(s)
      /\ m.err # "none" => UNCHANGED <<arena, free, held>>
      /\ m.err = "none" =>
            /\ arena' = [arena EXCEPT ![s] = With(@, b.page, h)]
            /\ free' = [free EXCEPT ![s][c] = Tail(list)]
            /\ held' = [held EXCEPT ![s] = @ \cup {b}]
  BY <1>1, <1>3, <1>4, <1>5, <1>6, <1>7 DEF MallocBlock, PageList
<1>9. /\ s = Kernel \/ proc[s].state = "alive"
      /\ mem'.err \in {"none", "fault"}
      /\ m.err = "none" => PagesMore(s, v, 1)
      /\ m.err # "none" /\ UNCHANGED <<arena, free, held>> => (Up' => Keeps)
  BY <1>3, <1>4, <1>8, MallocCall
<1>10. ASSUME m.err = "none" PROVE Keeps
  <2>1. PagesMore(s, v, 1)
    BY <1>9, <1>10
  <2>2. v \in Int
    BY <2>1 DEF PagesMore
  <2>3. /\ list \in Seq(Blocks) /\ list # <<>> /\ IsInjective(list)
        /\ Range(list) = [page : {v}, idx : 0 .. n - 1]
        /\ IsFiniteSet(Range(list)) /\ Cardinality(Range(list)) = n
    BY <1>1, <1>5, <2>2, NewBlocks
  <2>4. /\ b \in Blocks /\ b \in Range(list)
        /\ Tail(list) \in Seq(Blocks) /\ IsInjective(Tail(list))
        /\ Range(Tail(list)) = Range(list) \ {b}
    BY <1>6, <2>3, TailBlocks
  <2>5. b.page = v /\ \A x \in Range(list) : x.page = v
    BY <2>3, <2>4
  <2>6. h \in Headers /\ h.class = c /\ h.cnt = n - 1
    BY <1>1, <1>7 DEF Headers
  <2>7. PICK H \in SUBSET Blocks : H = held[s] \cup {b}
    <3>1. held[s] \in SUBSET Blocks
      BY <1>2 DEF TypeInv
    <3>2. QED
      BY <2>4, <3>1
  <2>8. Changed(s, v, h, c, Tail(list), H)
    <3>1. /\ arena' = [arena EXCEPT ![s] = With(@, v, h)]
          /\ free' = [free EXCEPT ![s][c] = Tail(list)]
          /\ held' = [held EXCEPT ![s] = H]
      BY <1>8, <1>10, <2>5, <2>7
    <3>2. QED
      BY <1>2, <1>8, <2>2, <2>4, <2>6, <3>1, MakesChange
  <2>9. ArenaMade(s, v, h) /\ ArenaSound(s)' /\ KeptApart(s)
    <3>1. Extent(h, v) = Area(v, 1)
      BY <1>2, <2>6 DEF Extent
    <3>2. /\ Extent(h, v) \cap DOMAIN mem.map[s] = {}
          /\ DOMAIN mem'.map[s] = DOMAIN mem.map[s] \cup Extent(h, v)
      BY <2>1, <3>1 DEF PagesMore
    <3>3. arena'[s] = With(arena[s], v, h)
      BY <1>2, <1>8, <1>10, <2>5 DEF TypeInv
    <3>4. QED
      BY <1>2, <1>8, <2>2, <2>6, <3>2, <3>3, NewArena
  <2>10. /\ held'[s] = held[s] \cup {b} /\ free'[s][c] = Tail(list)
         /\ \A d \in Classes : d # c => free'[s][d] = free[s][d]
    BY <2>7, <2>8 DEF Changed
  <2>11. \A x \in held[s] : x.page \in DOMAIN arena[s] /\ x.page # v
    BY <1>2, <2>9 DEF HeapOf, ArenaMade
  <2>12. Range(free[s][c]) = {}
    <3>1. DOMAIN free[s][c] = {}
      OBVIOUS
    <3>2. QED
      BY <3>1 DEF Range
  <2>13. ASSUME NEW d \in Classes PROVE ListSound(s, d)'
    <3>1. CASE d = c
      <4>1. \A x \in Range(Tail(list)) : x \notin held'[s]
        BY <2>4, <2>5, <2>10, <2>11
      <4>2. arena'[s][v].class = c /\ v \in DOMAIN arena'[s]
        BY <2>6, <2>9 DEF ArenaMade
      <4>3. QED
        BY <2>4, <2>5, <2>10, <3>1, <4>1, <4>2 DEF ListSound
    <3>2. CASE d # c
      <4>1. ListSound(s, d)
        BY <1>2 DEF HeapOf
      <4>2. \A x \in Range(free[s][d]) : x # b
        BY <2>5, <2>9, <4>1 DEF ListSound, ArenaMade
      <4>3. QED
        BY <2>9, <2>10, <3>2, <4>1, <4>2 DEF ListSound, ArenaMade
    <3>3. QED
      BY <3>1, <3>2
  <2>14. ASSUME NEW w \in DOMAIN arena'[s] PROVE PageBlocks(s, w)'
    <3>1. CASE w = v
      <4>1. Out(s, v)' = {b}
        BY <2>5, <2>10, <2>11 DEF Out
      <4>2. In(s, v, c)' = Range(list) \ {b}
        BY <2>4, <2>5, <2>10 DEF In
      <4>3. Cardinality(Range(list) \ {b}) = n - 1
        BY <2>3, <2>4, FS_RemoveElement
      <4>4. Out(s, v)' \cup In(s, v, c)' = [page : {v}, idx : 0 .. BlockCnt[c] - 1]
        BY <1>1, <2>3, <2>4, <4>1, <4>2
      <4>5. arena'[s][v] = h
        BY <2>9 DEF ArenaMade
      <4>6. QED
        BY <1>2, <2>6, <3>1, <4>1, <4>2, <4>3, <4>4, <4>5 DEF PageBlocks
    <3>2. CASE w # v
      <4>1. w \in DOMAIN arena[s] /\ arena'[s][w] = arena[s][w]
        BY <2>9, <3>2 DEF ArenaMade
      <4>2. PageBlocks(s, w)
        BY <1>2, <4>1 DEF HeapOf
      <4>3. Out(s, w)' = Out(s, w)
        BY <2>5, <2>10, <3>2 DEF Out
      <4>4. ASSUME NEW d \in Classes PROVE In(s, w, d)' = In(s, w, d)
        <5>1. CASE d = c
          BY <2>4, <2>5, <2>10, <2>12, <3>2, <5>1 DEF In
        <5>2. CASE d # c
          <6>1. free'[s][d] = free[s][d]
            BY <2>10, <5>2
          <6>2. QED
            BY <6>1 DEF In
        <5>3. QED
          BY <5>1, <5>2
      <4>5. QED
        BY <1>2, <4>1, <4>2, <4>3, <4>4, SamePageBlocks
    <3>3. QED
      BY <3>1, <3>2
  <2>15. HeapOf(s)'
    <3>1. \A x \in held'[s] : x.page \in DOMAIN arena'[s]
      BY <2>5, <2>9, <2>10, <2>11 DEF ArenaMade
    <3>2. QED
      BY <2>13, <2>14, <3>1 DEF HeapOf
  <2>16. /\ mem' \in MemSet /\ PageSound(mem')
         /\ \A u \in Spaces \ {s} : DOMAIN mem'.map[u] = DOMAIN mem.map[u]
         /\ \A q \in Procs \ {s} : DOMAIN mem'.tables[q] = DOMAIN mem.tables[q]
    BY <2>1 DEF PagesMore
  <2>17. /\ arena' \in [Spaces -> HeaderMaps] /\ free' \in [Spaces -> [Classes -> Seq(Blocks)]]
         /\ held' \in [Spaces -> SUBSET Blocks]
         /\ \A u \in Spaces \ {s} :
               arena'[u] = arena[u] /\ free'[u] = free[u] /\ held'[u] = held[u]
    BY <2>8 DEF Changed
  <2>18. QED
    BY <1>8, <1>9, <2>9, <2>15, <2>16, <2>17, HeapStep
<1>11. QED
  BY <1>8, <1>9, <1>10

LEMMA MallocBlockSound ==
    ASSUME Sound, Up, NEW s \in Spaces, NEW c \in Classes, MallocBlock(s, c)
    PROVE  mem'.err \in {"none", "fault"} /\ (Up' => Keeps)
BY BlockTaken, BlockMade

\* What free leaves of the pages: those of an arena are gone.
PagesLess(s, v) ==
    /\ mem' \in MemSet /\ PageSound(mem') /\ mem'.err = "none"
    /\ DOMAIN mem'.map[s] = DOMAIN mem.map[s] \ Extent(arena[s][v], v)
    /\ \A u \in Spaces \ {s} : DOMAIN mem'.map[u] = DOMAIN mem.map[u]
    /\ \A q \in Procs \ {s} : DOMAIN mem'.tables[q] = DOMAIN mem.tables[q]

LEMMA FreeCall ==
    ASSUME Sound, Up, NEW s \in Spaces, NEW v \in DOMAIN arena[s],
           NEW n \in Nat, n = (IF arena[s][v].class = 0 THEN arena[s][v].cnt ELSE 1),
           mem' = FreePage(mem, s, v, n)
    PROVE  PagesLess(s, v)
<1>1. mem \in MemSet /\ PageSound(mem) /\ mem.err = "none" /\ v \in Int
  BY HeaderIs DEF Sound, TypeInv, Up
<1>2. Area(v, n) = Extent(arena[s][v], v)
  BY DEF Extent
<1>3. Area(v, n) \subseteq DOMAIN mem.map[s]
  BY <1>2 DEF Sound, ArenaSound
<1>4. mem' \in MemSet /\ PageSound(mem') /\ MapsLess(mem, mem', s, Area(v, n))
  <2>1. PICK r : r = FreePage(mem, s, v, n)
    OBVIOUS
  <2>2. r \in MemSet /\ PageSound(r) /\ MapsLess(mem, r, s, Area(v, n))
    BY <1>1, <1>3, <2>1, FreePageSound
  <2>3. QED
    BY <2>1, <2>2
<1>5. QED
  BY <1>1, <1>2, <1>4 DEF PagesLess, MapsLess

\* The lists and the blocks handed out, when an arena is given back.
LEMMA ArenaGone ==
    ASSUME Sound, Up, NEW s \in Spaces, MayCall(s), NEW v \in DOMAIN arena[s], PagesLess(s, v),
           NEW b \in held[s], Out(s, v) = {b},
           arena' = [arena EXCEPT ![s] = [w \in DOMAIN @ \ {v} |-> @[w]]],
           held' = [held EXCEPT ![s] = @ \ {b}], proc' = proc,
           free' \in [Spaces -> [Classes -> Seq(Blocks)]],
           \A u \in Spaces \ {s} : free'[u] = free[u],
           \A c \in Classes :
              /\ IsInjective(free'[s][c])
              /\ Range(free'[s][c]) = {x \in Range(free[s][c]) : x.page # v}
    PROVE  Keeps
<1>1. TypeInv /\ HeapOf(s)
  BY DEF Sound
<1>2. /\ arena'[s] = [w \in DOMAIN arena[s] \ {v} |-> arena[s][w]]
      /\ held'[s] = held[s] \ {b} /\ held' \in [Spaces -> SUBSET Blocks]
      /\ \A u \in Spaces \ {s} :
            arena'[u] = arena[u] /\ free'[u] = free[u] /\ held'[u] = held[u]
  <2>1. arena \in [Spaces -> HeaderMaps] /\ held \in [Spaces -> SUBSET Blocks]
    BY <1>1 DEF TypeInv
  <2>2. QED
    BY <2>1
<1>3. arena'[s] \in HeaderMaps /\ ArenaSound(s)' /\ KeptApart(s)
  BY <1>2, LessArena DEF PagesLess
<1>4. arena' \in [Spaces -> HeaderMaps]
  BY <1>1, <1>3 DEF TypeInv
<1>5. DOMAIN arena'[s] = DOMAIN arena[s] \ {v}
      /\ \A w \in DOMAIN arena'[s] : arena'[s][w] = arena[s][w]
  BY <1>2
<1>6. \A x \in held'[s] : x.page \in DOMAIN arena'[s]
  BY <1>1, <1>2, <1>5 DEF HeapOf, Out
<1>7. ASSUME NEW c \in Classes PROVE ListSound(s, c)'
  <2>1. ListSound(s, c)
    BY <1>1 DEF HeapOf
  <2>2. QED
    BY <1>2, <1>5, <2>1 DEF ListSound
<1>8. ASSUME NEW w \in DOMAIN arena'[s] PROVE PageBlocks(s, w)'
  <2>1. w \in DOMAIN arena[s] /\ w # v /\ arena'[s][w] = arena[s][w]
    BY <1>5
  <2>2. PageBlocks(s, w)
    BY <1>1, <2>1 DEF HeapOf
  <2>3. b.page = v
    BY DEF Out
  <2>4. Out(s, w)' = Out(s, w)
    BY <1>2, <2>1, <2>3 DEF Out
  <2>5. \A c \in Classes : In(s, w, c)' = In(s, w, c)
    BY <2>1 DEF In
  <2>6. QED
    BY <1>1, <2>1, <2>2, <2>4, <2>5, SamePageBlocks
<1>9. HeapOf(s)'
  BY <1>6, <1>7, <1>8 DEF HeapOf
<1>10. s = Kernel \/ proc[s].state = "alive"
  BY DEF MayCall
<1>11. /\ mem' \in MemSet /\ PageSound(mem')
       /\ \A u \in Spaces \ {s} : DOMAIN mem'.map[u] = DOMAIN mem.map[u]
       /\ \A q \in Procs \ {s} : DOMAIN mem'.tables[q] = DOMAIN mem.tables[q]
  BY DEF PagesLess
<1>12. QED
  BY <1>2, <1>3, <1>4, <1>9, <1>10, <1>11, HeapStep

LEMMA FreeLargeSound ==
    ASSUME Sound, Up, NEW s \in Spaces, NEW b \in held[s], FreeLarge(s, b)
    PROVE  mem'.err \in {"none", "fault"} /\ (Up' => Keeps)
<1>1. TypeInv /\ HeapOf(s) /\ ArenaSound(s)
  BY DEF Sound
<1>2. PICK v \in DOMAIN arena[s] : v = b.page
  BY <1>1 DEF HeapOf
<1>3. PICK n \in Nat : n = arena[s][v].cnt
  BY <1>1, HeaderIs
<1>4. /\ MayCall(s) /\ arena[s][v].class = 0
      /\ mem' = FreePage(mem, s, v, n)
      /\ arena' = [arena EXCEPT ![s] = [w \in DOMAIN @ \ {v} |-> @[w]]]
      /\ held' = [held EXCEPT ![s] = @ \ {b}] /\ proc' = proc /\ free' = free
  BY <1>2, <1>3 DEF FreeLarge
<1>5. PagesLess(s, v)
  BY <1>3, <1>4, FreeCall
<1>6. Out(s, v) = {b}
  <2>1. PageBlocks(s, v)
    BY <1>1 DEF HeapOf
  <2>2. Out(s, v) = {[page |-> v, idx |-> 0]}
    BY <1>4, <2>1 DEF PageBlocks
  <2>3. b \in Out(s, v)
    BY <1>2 DEF Out
  <2>4. QED
    BY <2>2, <2>3
<1>7. ASSUME NEW c \in Classes
      PROVE  /\ IsInjective(free'[s][c])
             /\ Range(free'[s][c]) = {x \in Range(free[s][c]) : x.page # v}
  <2>1. ListSound(s, c) /\ c # 0
    BY <1>1, ClassesAre DEF HeapOf
  <2>2. \A x \in Range(free[s][c]) : x.page # v
    BY <1>4, <2>1 DEF ListSound
  <2>3. QED
    BY <1>4, <2>1, <2>2 DEF ListSound
<1>8. free' \in [Spaces -> [Classes -> Seq(Blocks)]] /\ \A u \in Spaces \ {s} : free'[u] = free[u]
  BY <1>1, <1>4 DEF TypeInv
<1>9. Keeps
  BY <1>4, <1>5, <1>6, <1>7, <1>8, ArenaGone
<1>10. mem'.err = "none"
  BY <1>5 DEF PagesLess
<1>11. QED
  BY <1>9, <1>10

\* The books of the page of a block that is given back.
HeldBlock(s, b, v, c) ==
    /\ v \in DOMAIN arena[s] /\ v \in Int /\ c \in Classes /\ c # 0 /\ b \in Blocks
    /\ b \in Out(s, v) /\ b \notin Range(free[s][c])
    /\ free[s][c] \in Seq(Blocks) /\ IsInjective(free[s][c])
    /\ Out(s, v) \cup In(s, v, c) = [page : {v}, idx : 0 .. BlockCnt[c] - 1]
    /\ arena[s][v].cnt = Cardinality(In(s, v, c)) /\ arena[s][v].cnt \in Nat
    /\ IsFiniteSet(In(s, v, c))
    /\ arena[s][v].cnt + 1 = BlockCnt[c] <=> Out(s, v) = {b}

LEMMA BlockHeld ==
    ASSUME Sound, NEW s \in Spaces, NEW b \in held[s], arena[s][b.page].class # 0,
           NEW v, v = b.page, NEW c, c = arena[s][v].class
    PROVE  HeldBlock(s, b, v, c)
<1>1. TypeInv /\ HeapOf(s)
  BY DEF Sound
<1>2. v \in DOMAIN arena[s] /\ b \in Out(s, v) /\ b \in Blocks
  BY <1>1 DEF HeapOf, Out, TypeInv
<1>3. v \in Int /\ c \in Classes /\ c # 0 /\ arena[s][v].cnt \in Nat
  BY <1>1, <1>2, HeaderIs
<1>4. ListSound(s, c) /\ PageBlocks(s, v)
  BY <1>1, <1>2, <1>3 DEF HeapOf
<1>5. b \notin Range(free[s][c]) /\ IsInjective(free[s][c])
  BY <1>4 DEF ListSound
<1>6. /\ Out(s, v) \cup In(s, v, c) = [page : {v}, idx : 0 .. BlockCnt[c] - 1]
      /\ arena[s][v].cnt = Cardinality(In(s, v, c))
  BY <1>3, <1>4 DEF PageBlocks
<1>7. IsFiniteSet(In(s, v, c)) /\ free[s][c] \in Seq(Blocks)
  BY <1>1, <1>3, InFinite
<1>8. Out(s, v) \cap In(s, v, c) = {}
  BY <1>4 DEF ListSound, Out, In
<1>9. PICK n \in Nat : n = BlockCnt[c] /\ n # 0
  BY <1>3, ClassesAre
<1>10. PICK all : all = [page : {v}, idx : 0 .. n - 1] /\ IsFiniteSet(all) /\ Cardinality(all) = n
  BY <1>3, <1>9, NewBlocks, ZenonT(60)
<1>11. PICK in : in = In(s, v, c) /\ in \subseteq all /\ Out(s, v) = all \ in
  BY <1>6, <1>8, <1>9, <1>10, ZenonT(60)
<1>12. ASSUME arena[s][v].cnt + 1 = n PROVE Out(s, v) = {b}
  <2>1. /\ IsFiniteSet(in \cup {b}) /\ b \notin in /\ in \cup {b} \subseteq all
    BY <1>2, <1>7, <1>11, FS_AddElement
  <2>2. Cardinality(in \cup {b}) = Cardinality(in) + 1
    BY <1>7, <1>11, <2>1, FS_AddElement
  <2>3. Cardinality(in \cup {b}) = n
    BY <1>6, <1>11, <1>12, <2>2
  <2>4. in \cup {b} = all
    BY <1>10, <2>1, <2>3, FS_Subset
  <2>5. QED
    BY <1>11, <2>1, <2>4
<1>13. ASSUME Out(s, v) = {b} PROVE arena[s][v].cnt + 1 = n
  <2>1. in = all \ {b} /\ b \in all
    BY <1>2, <1>11, <1>13
  <2>2. Cardinality(all \ {b}) = n - 1
    BY <1>10, <2>1, FS_RemoveElement, ZenonT(60)
  <2>3. QED
    BY <1>6, <1>11, <2>1, <2>2
<1>14. QED
  BY <1>2, <1>3, <1>5, <1>6, <1>7, <1>9, <1>12, <1>13 DEF HeldBlock

\* The last block of a page goes back, and the page with it.
LEMMA PageGivenBack ==
    ASSUME Sound, Up, NEW s \in Spaces, NEW b \in held[s], FreeBlock(s, b),
           NEW v, v = b.page, NEW c, c = arena[s][v].class, arena[s][v].cnt + 1 = BlockCnt[c]
    PROVE  mem'.err \in {"none", "fault"} /\ (Up' => Keeps)
<1>1. TypeInv /\ HeapOf(s) /\ arena[s][b.page].class # 0
  BY DEF Sound, FreeBlock
<1>2. /\ v \in DOMAIN arena[s] /\ v \in Int /\ c \in Classes /\ c # 0 /\ b \in Blocks
      /\ b \notin Range(free[s][c])
      /\ free[s][c] \in Seq(Blocks) /\ IsInjective(free[s][c])
      /\ Out(s, v) = {b}
  <2>1. HeldBlock(s, b, v, c)
    BY <1>1, BlockHeld
  <2>2. QED
    BY <2>1 DEF HeldBlock
<1>3. PICK list : /\ list = Append(free[s][c], b)
                  /\ list \in Seq(Blocks) /\ IsInjective(list)
                  /\ Range(list) = Range(free[s][c]) \cup {b}
  <2>1. Appended(Blocks, free[s][c], b, Append(free[s][c], b))
    BY <1>2, AppendBlock
  <2>2. QED
    BY <2>1 DEF Appended
<1>4. /\ MayCall(s) /\ mem' = FreePage(mem, s, v, 1)
      /\ free' = [free EXCEPT ![s][c] = WithoutPage(list, v)]
      /\ arena' = [arena EXCEPT ![s] = [w \in DOMAIN @ \ {v} |-> @[w]]]
      /\ held' = [held EXCEPT ![s] = @ \ {b}] /\ proc' = proc
  BY <1>3 DEF FreeBlock
<1>5. PagesLess(s, v)
  BY <1>2, <1>4, FreeCall
<1>6. PICK rest : rest = WithoutPage(list, v) /\ Without(list, rest, v)
  BY <1>3, WithoutPageKeeps
<1>7. /\ free' \in [Spaces -> [Classes -> Seq(Blocks)]] /\ free'[s][c] = rest
      /\ \A d \in Classes : d # c => free'[s][d] = free[s][d]
      /\ \A u \in Spaces \ {s} : free'[u] = free[u]
  <2>1. free \in [Spaces -> [Classes -> Seq(Blocks)]] /\ rest \in Seq(Blocks)
    BY <1>1, <1>6 DEF TypeInv, Without
  <2>2. free' = [free EXCEPT ![s][c] = rest]
    BY <1>4, <1>6
  <2>3. QED
    BY <1>2, <2>1, <2>2
<1>8. ASSUME NEW d \in Classes
      PROVE  /\ IsInjective(free'[s][d])
             /\ Range(free'[s][d]) = {x \in Range(free[s][d]) : x.page # v}
  <2>1. CASE d = c
    <3>1. Range(rest) = {x \in Range(list) : x.page # v} /\ IsInjective(rest)
      BY <1>6 DEF Without
    <3>2. QED
      BY <1>3, <1>7, <2>1, <3>1
  <2>2. CASE d # c
    <3>1. ListSound(s, d)
      BY <1>1 DEF HeapOf
    <3>2. \A x \in Range(free[s][d]) : x.page # v
      BY <2>2, <3>1 DEF ListSound
    <3>3. QED
      BY <1>7, <2>2, <3>1, <3>2 DEF ListSound
  <2>3. QED
    BY <2>1, <2>2
<1>9. Keeps
  BY <1>2, <1>4, <1>5, <1>7, <1>8, ArenaGone
<1>10. mem'.err = "none"
  BY <1>5 DEF PagesLess
<1>11. QED
  BY <1>9, <1>10

\* A block goes back to its list.
LEMMA BlockGivenBack ==
    ASSUME Sound, Up, NEW s \in Spaces, NEW b \in held[s], FreeBlock(s, b),
           NEW v, v = b.page, NEW c, c = arena[s][v].class, arena[s][v].cnt + 1 # BlockCnt[c]
    PROVE  mem'.err \in {"none", "fault"} /\ (Up' => Keeps)
<1>1. TypeInv /\ HeapOf(s) /\ arena[s][b.page].class # 0
  BY DEF Sound, FreeBlock
<1>2. /\ v \in DOMAIN arena[s] /\ v \in Int /\ c \in Classes /\ c # 0 /\ b \in Blocks
      /\ b \in Out(s, v) /\ b \notin Range(free[s][c])
      /\ free[s][c] \in Seq(Blocks) /\ IsInjective(free[s][c])
      /\ Out(s, v) \cup In(s, v, c) = [page : {v}, idx : 0 .. BlockCnt[c] - 1]
      /\ arena[s][v].cnt = Cardinality(In(s, v, c)) /\ arena[s][v].cnt \in Nat
      /\ IsFiniteSet(In(s, v, c))
      /\ Out(s, v) # {b}
  <2>1. HeldBlock(s, b, v, c)
    BY <1>1, BlockHeld
  <2>2. QED
    BY <2>1 DEF HeldBlock
<1>3. PICK list : /\ list = Append(free[s][c], b)
                  /\ list \in Seq(Blocks) /\ IsInjective(list)
                  /\ Range(list) = Range(free[s][c]) \cup {b}
  <2>1. Appended(Blocks, free[s][c], b, Append(free[s][c], b))
    BY <1>2, AppendBlock
  <2>2. QED
    BY <2>1 DEF Appended
<1>4. PICK h \in Headers : h = [class |-> c, cnt |-> arena[s][v].cnt + 1]
  <2>1. arena[s][v].cnt + 1 \in Nat /\ c \in {0} \cup Classes
    <3>1. arena[s][v].cnt \in Nat /\ c \in Classes
      BY <1>2
    <3>2. QED
      BY <3>1
  <2>2. [class |-> c, cnt |-> arena[s][v].cnt + 1] \in Headers
    BY <2>1 DEF Headers
  <2>3. QED
    BY <2>2
<1>5. PICK H \in SUBSET Blocks : H = held[s] \ {b}
  <2>1. held[s] \in SUBSET Blocks
    BY <1>1 DEF TypeInv
  <2>2. QED
    BY <2>1
<1>6. /\ MayCall(s) /\ mem' = mem /\ proc' = proc
      /\ free' = [free EXCEPT ![s][c] = list]
      /\ arena' = [arena EXCEPT ![s][v].cnt = arena[s][v].cnt + 1]
      /\ held' = [held EXCEPT ![s] = H]
  BY <1>3, <1>5 DEF FreeBlock
<1>7. Headed(arena[s], v, h, arena'[s])
  <2>1. arena \in [Spaces -> HeaderMaps] /\ arena[s] \in HeaderMaps
    BY <1>1 DEF TypeInv
  <2>2. PICK f \in HeaderMaps : f = arena[s]
    BY <2>1
  <2>3. /\ DOMAIN f \in SUBSET Int /\ f = [x \in DOMAIN f |-> f[x]]
        /\ \A x \in DOMAIN f : f[x] \in Headers
    BY HeaderMap
  <2>4. PICK g : g = arena'[s]
    OBVIOUS
  <2>5. g = [f EXCEPT ![v].cnt = f[v].cnt + 1]
    BY <1>6, <2>1, <2>2, <2>4
  <2>6. [f[v] EXCEPT !.cnt = f[v].cnt + 1] = h
    <3>1. f[v] \in Headers /\ f[v].class = c
      BY <1>2, <2>2, <2>3
    <3>2. f[v] = [class |-> c, cnt |-> f[v].cnt]
      BY <3>1 DEF Headers
    <3>3. QED
      BY <1>4, <2>2, <3>2
  <2>7. DOMAIN g = DOMAIN f /\ g[v] = h /\ \A w \in DOMAIN f : w # v => g[w] = f[w]
    BY <1>2, <2>2, <2>3, <2>5, <2>6
  <2>8. g \in [DOMAIN f -> Headers]
    BY <2>3, <2>5, <2>7
  <2>9. g \in HeaderMaps
    BY <2>3, <2>8, MakesHeaderMap
  <2>10. QED
    BY <1>2, <2>2, <2>4, <2>7, <2>9 DEF Headed
<1>8. Changed(s, v, h, c, list, H)
  <2>1. arena \in [Spaces -> HeaderMaps] /\ free \in [Spaces -> [Classes -> Seq(Blocks)]]
        /\ held \in [Spaces -> SUBSET Blocks]
    BY <1>1 DEF TypeInv
  <2>2. arena' \in [Spaces -> HeaderMaps] /\ \A u \in Spaces \ {s} : arena'[u] = arena[u]
    <3>1. arena'[s] \in HeaderMaps
      BY <1>7 DEF Headed
    <3>2. arena' = [arena EXCEPT ![s] = arena'[s]]
      BY <1>6, <2>1
    <3>3. QED
      BY <2>1, <3>1, <3>2
  <2>3. /\ free' \in [Spaces -> [Classes -> Seq(Blocks)]] /\ free'[s][c] = list
        /\ \A d \in Classes : d # c => free'[s][d] = free[s][d]
        /\ \A u \in Spaces \ {s} : free'[u] = free[u]
    BY <1>2, <1>3, <1>6, <2>1
  <2>4. /\ held' \in [Spaces -> SUBSET Blocks] /\ held'[s] = H
        /\ \A u \in Spaces \ {s} : held'[u] = held[u]
    BY <1>6, <2>1
  <2>5. QED
    BY <1>6, <1>7, <2>2, <2>3, <2>4 DEF Changed
<1>9. /\ DOMAIN arena'[s] = DOMAIN arena[s] /\ arena'[s][v] = h
      /\ \A w \in DOMAIN arena[s] : w # v => arena'[s][w] = arena[s][w]
  BY <1>2, <1>7 DEF Headed
<1>10. ArenaSound(s)' /\ KeptApart(s)
  <2>1. ArenaSound(s)
    BY DEF Sound
  <2>2. ASSUME NEW w \in DOMAIN arena[s]
        PROVE  /\ Extent(arena'[s][w], w) = Extent(arena[s][w], w)
               /\ arena'[s][w].class = 0 => arena'[s][w].cnt # 0
    <3>1. arena'[s][w].class = arena[s][w].class /\ (arena[s][w].class = 0 => arena'[s][w] = arena[s][w])
      <4>1. CASE w = v
        <5>1. arena[s][w].class = c /\ c # 0
          BY <1>2, <4>1
        <5>2. arena'[s][w].class = c
          BY <1>4, <1>9, <4>1
        <5>3. QED
          BY <5>1, <5>2
      <4>2. CASE w # v
        BY <1>9, <4>2
      <4>3. QED
        BY <4>1, <4>2
    <3>2. arena[s][w].class = 0 => arena[s][w].cnt # 0
      BY <2>1 DEF ArenaSound
    <3>3. QED
      BY <3>1, <3>2 DEF Extent
  <2>3. QED
    BY <1>6, <1>9, <2>2, SameExtents
<1>11. /\ held'[s] = held[s] \ {b} /\ free'[s][c] = list
       /\ \A d \in Classes : d # c => free'[s][d] = free[s][d]
  BY <1>5, <1>8 DEF Changed
<1>12. ASSUME NEW d \in Classes PROVE ListSound(s, d)'
  <2>1. \A w \in DOMAIN arena[s] : arena'[s][w].class = arena[s][w].class
    BY <1>4, <1>9
  <2>2. ListSound(s, d)
    BY <1>1 DEF HeapOf
  <2>3. CASE d = c
    <3>1. \A x \in Range(list) : x \in Range(free[s][c]) \/ x = b
      BY <1>3
    <3>2. \A x \in Range(list) : /\ x \notin held[s] \ {b} /\ x.page \in DOMAIN arena[s]
                                 /\ arena[s][x.page].class = c
      BY <1>2, <2>2, <2>3, <3>1 DEF ListSound
    <3>3. QED
      BY <1>3, <1>9, <1>11, <2>1, <2>3, <3>2 DEF ListSound
  <2>4. CASE d # c
    BY <1>9, <1>11, <2>1, <2>2, <2>4 DEF ListSound
  <2>5. QED
    BY <2>3, <2>4
<1>13. ASSUME NEW w \in DOMAIN arena'[s] PROVE PageBlocks(s, w)'
  <2>1. CASE w = v
    <3>1. Out(s, v)' = Out(s, v) \ {b}
      BY <1>11 DEF Out
    <3>2. In(s, v, c)' = In(s, v, c) \cup {b}
      BY <1>3, <1>11 DEF In
    <3>3. b \notin In(s, v, c)
      BY <1>2 DEF In
    <3>4. Cardinality(In(s, v, c) \cup {b}) = arena[s][v].cnt + 1
      <4>1. PICK in : in = In(s, v, c)
        OBVIOUS
      <4>2. IsFiniteSet(in) /\ b \notin in /\ Cardinality(in) = arena[s][v].cnt
        BY <1>2, <3>3, <4>1
      <4>3. Cardinality(in \cup {b}) = Cardinality(in) + 1
        BY <4>2, FS_AddElement
      <4>4. QED
        BY <4>1, <4>2, <4>3
    <3>5. Out(s, v)' \cup In(s, v, c)' = Out(s, v) \cup In(s, v, c)
      <4>1. b \in Out(s, v)
        BY <1>2 DEF Out
      <4>2. \A A, B : b \in A => (A \ {b}) \cup (B \cup {b}) = A \cup B
        OBVIOUS
      <4>3. QED
        BY <3>1, <3>2, <4>1, <4>2
    <3>6. Out(s, v)' # {}
      BY <1>2, <3>1
    <3>7. arena'[s][v].class = c /\ arena'[s][v].cnt = Cardinality(In(s, v, c)')
      BY <1>4, <1>9, <3>2, <3>4
    <3>8. QED
      BY <1>2, <2>1, <3>5, <3>6, <3>7 DEF PageBlocks
  <2>2. CASE w # v
    <3>1. w \in DOMAIN arena[s] /\ arena'[s][w] = arena[s][w]
      BY <1>9, <2>2
    <3>2. PageBlocks(s, w)
      BY <1>1, <3>1 DEF HeapOf
    <3>3. Out(s, w)' = Out(s, w)
      BY <1>11, <2>2 DEF Out
    <3>4. ASSUME NEW d \in Classes PROVE In(s, w, d)' = In(s, w, d)
      <4>1. CASE d = c
        BY <1>3, <1>11, <2>2, <4>1, ZenonT(60) DEF In
      <4>2. CASE d # c
        <5>1. free'[s][d] = free[s][d]
          BY <1>11, <4>2
        <5>2. QED
          BY <5>1 DEF In
      <4>3. QED
        BY <4>1, <4>2
    <3>5. QED
      BY <1>1, <3>1, <3>2, <3>3, <3>4, SamePageBlocks
  <2>3. QED
    BY <2>1, <2>2
<1>14. HeapOf(s)'
  <2>1. \A x \in held'[s] : x.page \in DOMAIN arena'[s]
    BY <1>1, <1>9, <1>11 DEF HeapOf
  <2>2. QED
    BY <1>12, <1>13, <2>1 DEF HeapOf
<1>15. Keeps
  <2>1. mem' \in MemSet /\ PageSound(mem') /\ (s = Kernel \/ proc[s].state = "alive")
    BY <1>6 DEF Sound, TypeInv, MayCall
  <2>2. /\ arena' \in [Spaces -> HeaderMaps] /\ free' \in [Spaces -> [Classes -> Seq(Blocks)]]
        /\ held' \in [Spaces -> SUBSET Blocks]
        /\ \A u \in Spaces \ {s} :
              arena'[u] = arena[u] /\ free'[u] = free[u] /\ held'[u] = held[u]
    BY <1>8 DEF Changed
  <2>3. QED
    BY <1>6, <1>10, <1>14, <2>1, <2>2, HeapStep
<1>16. QED
  BY <1>6, <1>15 DEF Up

LEMMA FreeBlockSound ==
    ASSUME Sound, Up, NEW s \in Spaces, NEW b \in held[s], FreeBlock(s, b)
    PROVE  mem'.err \in {"none", "fault"} /\ (Up' => Keeps)
<1>1. PICK v : v = b.page
  OBVIOUS
<1>2. PICK c : c = arena[s][v].class
  OBVIOUS
<1>3. CASE arena[s][v].cnt + 1 = BlockCnt[c]
  BY <1>1, <1>2, <1>3, PageGivenBack
<1>4. CASE arena[s][v].cnt + 1 # BlockCnt[c]
  BY <1>1, <1>2, <1>4, BlockGivenBack
<1>5. QED
  BY <1>3, <1>4

-----------------------------------------------------------------------------
(* The theorems. *)

\* Exit alone leaves pages without an owner.
Leaves ==
    \/ Ownerless' = Ownerless
    \/ \E p \in Procs :
          /\ proc[p].state = "alive" /\ proc'[p].state = "hanging"
          /\ Ownerless \subseteq Ownerless'
          /\ Cardinality(Ownerless' \ Ownerless) = BitmapPages - ReleasedPages

LEMMA StepSound ==
    IndInv /\ Next => mem'.err \in {"none", "fault"} /\ (Up' => Sound' /\ Leaves)
<1> SUFFICES ASSUME IndInv, Next
             PROVE  mem'.err \in {"none", "fault"} /\ (Up' => Sound' /\ Leaves)
  OBVIOUS
<1>1. Up
  BY DEF Next, ProcessExe, syscall_fork, SegmentLoad, syscall_exit, ThreadExit,
         MallocLarge, MallocBlock, FreeLarge, FreeBlock, Alive, MayCall
<1>2. Sound
  BY <1>1 DEF IndInv
<1>3. ASSUME mem'.err \in {"none", "fault"} /\ (Up' => Keeps)
      PROVE  mem'.err \in {"none", "fault"} /\ (Up' => Sound' /\ Leaves)
  BY <1>3 DEF Keeps, Leaves
<1>4. CASE ProcessExe
  BY <1>1, <1>2, <1>3, <1>4, ProcessExeSound
<1>5. ASSUME NEW p \in Procs, NEW c \in Procs, syscall_fork(p, c)
      PROVE  mem'.err \in {"none", "fault"} /\ (Up' => Sound' /\ Leaves)
  BY <1>1, <1>2, <1>3, <1>5, ForkSound
<1>6. ASSUME NEW p \in Procs, NEW first \in 0 .. SpaceLen["user"], NEW n \in Sizes \cup {1},
             SegmentLoad(p, first, n)
      PROVE  mem'.err \in {"none", "fault"} /\ (Up' => Sound' /\ Leaves)
  <2>1. first \in Int /\ n \in Int
    BY MemoryAssumption
  <2>2. QED
    BY <1>1, <1>2, <1>3, <1>6, <2>1, SegmentLoadSound
<1>7. ASSUME NEW p \in Procs, syscall_exit(p)
      PROVE  mem'.err \in {"none", "fault"} /\ (Up' => Sound' /\ Leaves)
  <2>1. /\ mem'.err \in {"none", "fault"} /\ (Up' => Sound')
        /\ proc[p].state = "alive" /\ proc'[p].state = "hanging"
        /\ Ownerless \subseteq Ownerless'
        /\ Cardinality(Ownerless' \ Ownerless) = BitmapPages - ReleasedPages
    BY <1>1, <1>2, <1>7, ExitSound
  <2>2. QED
    BY <2>1 DEF Leaves
<1>8. ASSUME NEW p \in Procs, ThreadExit(p)
      PROVE  mem'.err \in {"none", "fault"} /\ (Up' => Sound' /\ Leaves)
  BY <1>1, <1>2, <1>3, <1>8, ThreadExitSound
<1>9. ASSUME NEW s \in Spaces, NEW n \in Sizes, MallocLarge(s, n)
      PROVE  mem'.err \in {"none", "fault"} /\ (Up' => Sound' /\ Leaves)
  BY <1>1, <1>2, <1>3, <1>9, MallocLargeSound
<1>10. ASSUME NEW s \in Spaces, NEW c \in Classes, MallocBlock(s, c)
       PROVE  mem'.err \in {"none", "fault"} /\ (Up' => Sound' /\ Leaves)
  BY <1>1, <1>2, <1>3, <1>10, MallocBlockSound
<1>11. ASSUME NEW s \in Spaces, NEW b \in held[s], FreeLarge(s, b)
       PROVE  mem'.err \in {"none", "fault"} /\ (Up' => Sound' /\ Leaves)
  BY <1>1, <1>2, <1>3, <1>11, FreeLargeSound
<1>12. ASSUME NEW s \in Spaces, NEW b \in held[s], FreeBlock(s, b)
       PROVE  mem'.err \in {"none", "fault"} /\ (Up' => Sound' /\ Leaves)
  BY <1>1, <1>2, <1>3, <1>12, FreeBlockSound
<1>13. QED
  BY <1>4, <1>5, <1>6, <1>7, <1>8, <1>9, <1>10, <1>11, <1>12 DEF Next

LEMMA NextSound ==
    IndInv /\ [Next]_vars => IndInv'
<1> SUFFICES ASSUME IndInv, [Next]_vars PROVE IndInv'
  OBVIOUS
<1>1. CASE UNCHANGED vars
  <2>1. Up => Sound'
    BY <1>1, SameSoundly DEF IndInv
  <2>2. QED
    BY <1>1, <2>1 DEF IndInv, vars, Up
<1>2. CASE Next
  BY <1>2, StepSound DEF IndInv
<1>3. QED
  BY <1>1, <1>2

\* Whatever is called, fails and is given back, in whatever order: the pages
\* are sound, what the kernel keeps of each process is its own, the arenas lie
\* apart in mapped pages and the lists are those of their blocks.
THEOREM MemoryInvariant ==
    Spec => []IndInv
<1>1. Init => IndInv
  BY InitSound
<1>2. IndInv /\ [Next]_vars => IndInv'
  BY NextSound
<1>3. QED
  BY <1>1, <1>2, PTL DEF Spec

\* The ASSERT of AddToPageTable never fails.
THEOREM NoPageIsMappedTwice ==
    Spec => []NoPageMappedTwice
<1>1. IndInv => NoPageMappedTwice
  BY DEF IndInv, NoPageMappedTwice
<1>2. QED
  BY <1>1, MemoryInvariant, PTL

\* malloc's books are right, for any number of spaces, pages and block sizes.
THEOREM HeapIsSound ==
    Spec => []HeapSound
<1>1. ASSUME IndInv PROVE HeapSound
  <2> SUFFICES ASSUME Up, NEW s \in Spaces
               PROVE  /\ ArenaPages(s) \subseteq DOMAIN mem.map[s]
                      /\ \A c \in Classes : ListSound(s, c)
                      /\ \A v \in DOMAIN arena[s] : PageBlocks(s, v)
    BY DEF HeapSound, ListSound, PageBlocks, Out, In
  <2>1. ArenaSound(s) /\ HeapOf(s)
    BY <1>1 DEF IndInv, Sound
  <2>2. QED
    BY <2>1, ArenaPagesMapped DEF HeapOf
<1>2. QED
  BY <1>1, MemoryInvariant, PTL

LEMMA UsersAre ==
    ASSUME NEW pool \in Pools
    PROVE  /\ \A s \in Spaces : \A v \in DOMAIN mem.map[s] :
                 Owner(s) = pool => <<s, "page", v>> \in Users(pool)
           /\ \A p \in Procs : \A t \in DOMAIN mem.tables[p] :
                 pool = "kernel" => <<p, "table", t>> \in Users(pool)
           /\ \A u \in Users(pool) :
                 \/ \E s \in Spaces : \E v \in DOMAIN mem.map[s] :
                       Owner(s) = pool /\ u = <<s, "page", v>>
                 \/ \E p \in Procs : \E t \in DOMAIN mem.tables[p] :
                       pool = "kernel" /\ u = <<p, "table", t>>
<1> DEFINE Pages == UNION {{<<s, "page", v>> : v \in DOMAIN mem.map[s]} :
                              s \in {x \in Spaces : Owner(x) = pool}}
           Tables == UNION {{<<p, "table", t>> : t \in DOMAIN mem.tables[p]} : p \in Procs}
<1>1. /\ pool = "kernel" => Users(pool) = Pages \cup Tables
      /\ pool # "kernel" => Users(pool) = Pages
  <2>1. Users(pool) = Pages \cup (IF pool = "user" THEN {} ELSE Tables)
    BY DEF Users
  <2> HIDE DEF Pages, Tables
  <2>2. QED
    BY <2>1 DEF Pools
<1>2. \A s \in Spaces : \A v \in DOMAIN mem.map[s] : Owner(s) = pool => <<s, "page", v>> \in Pages
  OBVIOUS
<1>3. \A p \in Procs : \A t \in DOMAIN mem.tables[p] : <<p, "table", t>> \in Tables
  OBVIOUS
<1>4. \A u \in Pages : \E s \in Spaces : \E v \in DOMAIN mem.map[s] :
         Owner(s) = pool /\ u = <<s, "page", v>>
  OBVIOUS
<1>5. \A u \in Tables : \E p \in Procs : \E t \in DOMAIN mem.tables[p] : u = <<p, "table", t>>
  OBVIOUS
<1> HIDE DEF Pages, Tables
<1>6. QED
  BY <1>1, <1>2, <1>3, <1>4, <1>5

\* Every page taken has one user, and every user a page that is taken.
THEOREM PagesAreAccounted ==
    Spec => []PagesAccounted
<1>1. ASSUME IndInv PROVE PagesAccounted
  <2> SUFFICES ASSUME Up, NEW pool \in Pools
               PROVE  /\ mem.pool[pool] = {PageOf(u) : u \in Users(pool)}
                      /\ Cardinality(mem.pool[pool]) = Cardinality(Users(pool))
    BY DEF PagesAccounted, Pools
  <2>1. Finite(mem) /\ Owned(mem) /\ Apart(mem) /\ AllUsed(mem)
    BY <1>1 DEF IndInv, Sound, PageSound
  <2>2. /\ \A s \in Spaces : \A v \in DOMAIN mem.map[s] : PageOf(<<s, "page", v>>) = mem.map[s][v]
        /\ \A p \in Procs : \A t \in DOMAIN mem.tables[p] :
              PageOf(<<p, "table", t>>) = mem.tables[p][t]
    BY DEF PageOf
  <2>3. \A u \in Users(pool) : PageOf(u) \in mem.pool[pool]
    BY <2>1, <2>2, UsersAre DEF Owned
  <2>4. ASSUME NEW u \in Users(pool), NEW w \in Users(pool), PageOf(u) = PageOf(w) PROVE u = w
    <3>1. \A s \in Spaces : Owner(s) = "kernel" => s = Kernel
      BY SpaceTypes
    <3>2. /\ \/ \E s \in Spaces : \E v \in DOMAIN mem.map[s] :
                   Owner(s) = pool /\ u = <<s, "page", v>>
             \/ \E p \in Procs : \E t \in DOMAIN mem.tables[p] :
                   pool = "kernel" /\ u = <<p, "table", t>>
          /\ \/ \E s \in Spaces : \E v \in DOMAIN mem.map[s] :
                   Owner(s) = pool /\ w = <<s, "page", v>>
             \/ \E p \in Procs : \E t \in DOMAIN mem.tables[p] :
                   pool = "kernel" /\ w = <<p, "table", t>>
      BY UsersAre
    <3>3. CASE \E s, r \in Spaces : \E v \in DOMAIN mem.map[s], x \in DOMAIN mem.map[r] :
                 Owner(s) = pool /\ Owner(r) = pool /\ u = <<s, "page", v>> /\ w = <<r, "page", x>>
      BY <2>1, <2>2, <2>4, <3>3 DEF Apart
    <3>4. CASE \E p, q \in Procs : \E t \in DOMAIN mem.tables[p], y \in DOMAIN mem.tables[q] :
                 u = <<p, "table", t>> /\ w = <<q, "table", y>>
      BY <2>1, <2>2, <2>4, <3>4 DEF Apart
    <3>5. CASE \E s \in Spaces, p \in Procs :
                 \E v \in DOMAIN mem.map[s], t \in DOMAIN mem.tables[p] :
                    Owner(s) = "kernel" /\ (\/ u = <<s, "page", v>> /\ w = <<p, "table", t>>
                                            \/ w = <<s, "page", v>> /\ u = <<p, "table", t>>)
      BY <2>1, <2>2, <2>4, <3>1, <3>5 DEF Apart
    <3>6. QED
      BY <3>2, <3>3, <3>4, <3>5
  <2>5. \A x \in mem.pool[pool] : \E u \in Users(pool) : PageOf(u) = x
    <3> SUFFICES ASSUME NEW x \in mem.pool[pool] PROVE \E u \in Users(pool) : PageOf(u) = x
      OBVIOUS
    <3>1. \/ \E s \in Spaces : \E v \in DOMAIN mem.map[s] : Owner(s) = pool /\ mem.map[s][v] = x
          \/ \E p \in Procs : \E t \in DOMAIN mem.tables[p] : pool = "kernel" /\ mem.tables[p][t] = x
      BY <2>1, SpaceTypes DEF AllUsed, Pools
    <3>2. CASE \E s \in Spaces : \E v \in DOMAIN mem.map[s] : Owner(s) = pool /\ mem.map[s][v] = x
      <4>1. PICK s \in Spaces : \E v \in DOMAIN mem.map[s] : Owner(s) = pool /\ mem.map[s][v] = x
        BY <3>2
      <4>2. PICK v \in DOMAIN mem.map[s] : Owner(s) = pool /\ mem.map[s][v] = x
        BY <4>1
      <4>3. <<s, "page", v>> \in Users(pool) /\ PageOf(<<s, "page", v>>) = x
        BY <2>2, <4>2, UsersAre
      <4>4. QED
        BY <4>3
    <3>3. CASE \E p \in Procs : \E t \in DOMAIN mem.tables[p] : pool = "kernel" /\ mem.tables[p][t] = x
      <4>1. PICK p \in Procs : \E t \in DOMAIN mem.tables[p] : pool = "kernel" /\ mem.tables[p][t] = x
        BY <3>3
      <4>2. PICK t \in DOMAIN mem.tables[p] : pool = "kernel" /\ mem.tables[p][t] = x
        BY <4>1
      <4>3. <<p, "table", t>> \in Users(pool) /\ PageOf(<<p, "table", t>>) = x
        BY <2>2, <4>2, UsersAre
      <4>4. QED
        BY <4>3
    <3>4. QED
      BY <3>1, <3>2, <3>3
  <2>6. mem.pool[pool] = {PageOf(u) : u \in Users(pool)}
    BY <2>3, <2>5
  <2>7. Cardinality(mem.pool[pool]) = Cardinality(Users(pool))
    <3>1. PICK f : f = [u \in Users(pool) |-> PageOf(u)]
      OBVIOUS
    <3>2. f \in Injection(Users(pool), mem.pool[pool])
      BY <2>3, <2>4, <3>1 DEF Injection, IsInjective
    <3>3. f \in Surjection(Users(pool), mem.pool[pool])
      BY <2>3, <2>5, <3>1 DEF Surjection
    <3>4. IsFiniteSet(mem.pool[pool])
      BY <2>1 DEF Finite
    <3>5. QED
      BY <3>2, <3>3, <3>4, FS_Injection
  <2>8. QED
    BY <2>6, <2>7
<1>2. QED
  BY <1>1, MemoryInvariant, PTL

\* No call leaves a page of the kernel without an owner, but the exit of a
\* process, which leaves as many as its bitmap is rounded by.
THEOREM KernelPagesStayOwned ==
    Spec => KernelPagesOwned
<1>1. IndInv /\ [Next]_vars => [Up' => Leaves]_vars
  BY StepSound
<1>2. QED
  BY <1>1, MemoryInvariant, PTL DEF Spec, KernelPagesOwned, Leaves
=============================================================================
