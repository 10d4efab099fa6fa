---------------------------- MODULE MinHeapProofs ----------------------------
(***************************************************************************)
(* What is proved of the delay heap, for any keys and any capacity: the    *)
(* order of its nodes between the turns of the loops, and that it is a     *)
(* priority queue.                                                         *)
(***************************************************************************)
EXTENDS MinHeap, FiniteSetTheorems, SequenceTheorems, WellFoundedInduction, TLAPS

\* The node above i; the nodes below it are 2 * i and 2 * i + 1.
LEMMA Above ==
    ASSUME NEW i \in Nat \ {0}
    PROVE  /\ MinHeapFa(i) \in Nat /\ MinHeapFa(i) < i
           /\ \A j \in Nat : MinHeapFa(i) = j <=> i = 2 * j \/ i = 2 * j + 1
<1>1. i \div 2 \in Nat /\ (i = 2 * (i \div 2) \/ i = 2 * (i \div 2) + 1)
  OBVIOUS
<1> DEFINE h == i \div 2
<1>2. h \in Nat /\ (i = 2 * h \/ i = 2 * h + 1)
  BY <1>1
<1> HIDE DEF h
<1>3. h < i /\ \A j \in Nat : h = j <=> i = 2 * j \/ i = 2 * j + 1
  BY <1>2
<1>4. QED
  BY <1>2, <1>3 DEF MinHeapFa, h

LEMMA SeqOfKeys ==
    ASSUME NEW s \in Seq(Keys)
    PROVE  /\ Len(s) \in Nat /\ DOMAIN s = 1 .. Len(s)
           /\ \A i \in DOMAIN s : s[i] \in Keys /\ s[i] \in Int /\ i \in Nat \ {0}
<1>1. Len(s) \in Nat /\ DOMAIN s = 1 .. Len(s) /\ s \in [1 .. Len(s) -> Keys]
  OBVIOUS
<1>2. \A i \in DOMAIN s : s[i] \in Keys
  BY <1>1
<1>3. \A k \in Keys : k \in Int
  BY MinHeapAssumption
<1>4. \A i \in DOMAIN s : i \in Nat \ {0}
  BY <1>1
<1>5. QED
  BY <1>1, <1>2, <1>3, <1>4

\* Two elements change places.
LEMMA Swapped ==
    ASSUME NEW s \in Seq(Keys), NEW i \in DOMAIN s, NEW j \in DOMAIN s
    PROVE  /\ Swap(s, i, j) \in Seq(Keys) /\ DOMAIN Swap(s, i, j) = DOMAIN s
           /\ Len(Swap(s, i, j)) = Len(s)
           /\ Swap(s, i, j)[i] = s[j] /\ Swap(s, i, j)[j] = s[i]
           /\ \A k \in DOMAIN s : k # i /\ k # j => Swap(s, i, j)[k] = s[k]
<1>1. s \in [1 .. Len(s) -> Keys] /\ Len(s) \in Nat /\ DOMAIN s = 1 .. Len(s)
  OBVIOUS
<1>2. Swap(s, i, j) \in [1 .. Len(s) -> Keys]
  BY <1>1 DEF Swap
<1>3. Swap(s, i, j) \in Seq(Keys) /\ Len(Swap(s, i, j)) = Len(s)
  BY <1>1, <1>2
<1>4. QED
  BY <1>1, <1>2, <1>3 DEF Swap

\* The node the way down goes on to is the least of the node and those below.
LEMMA TargetIsLeast ==
    ASSUME NEW i \in Nat \ {0}, buf \in Seq(Keys), i \in DOMAIN buf
    PROVE  /\ Target(i) \in DOMAIN buf
           /\ Target(i) = i \/ MinHeapFa(Target(i)) = i
           /\ buf[Target(i)] <= buf[i]
           /\ \A j \in DOMAIN buf : MinHeapFa(j) = i => buf[Target(i)] <= buf[j]
<1>1. /\ \A k \in DOMAIN buf : buf[k] \in Int
      /\ DOMAIN buf = 1 .. Len(buf) /\ Len(buf) \in Nat
      /\ \A k \in DOMAIN buf : k \in Nat \ {0}
  BY SeqOfKeys
<1>2. \A j \in DOMAIN buf : MinHeapFa(j) = i => j = 2 * i \/ j = 2 * i + 1
  BY <1>1, Above
<1>3. /\ 2 * i \in Nat \ {0} /\ 2 * i + 1 \in Nat \ {0}
      /\ MinHeapFa(2 * i) = i /\ MinHeapFa(2 * i + 1) = i
  BY Above
<1> DEFINE t == IF 2 * i <= Len(buf) /\ buf[2 * i] < buf[i] THEN 2 * i ELSE i
<1>4. Target(i) = IF 2 * i + 1 <= Len(buf) /\ buf[2 * i + 1] < buf[t] THEN 2 * i + 1 ELSE t
  BY DEF Target, MinHeapLeft, MinHeapRight, cmp
<1>5. /\ t \in DOMAIN buf /\ (t = i \/ t = 2 * i)
      /\ buf[t] <= buf[i] /\ (2 * i \in DOMAIN buf => buf[t] <= buf[2 * i])
  BY <1>1
<1> HIDE DEF t
<1>6. /\ Target(i) \in DOMAIN buf /\ (Target(i) = t \/ Target(i) = 2 * i + 1)
      /\ buf[Target(i)] <= buf[t]
      /\ 2 * i + 1 \in DOMAIN buf => buf[Target(i)] <= buf[2 * i + 1]
  <2>1. CASE 2 * i + 1 <= Len(buf) /\ buf[2 * i + 1] < buf[t]
    <3>1. 2 * i + 1 \in DOMAIN buf /\ Target(i) = 2 * i + 1
      BY <1>1, <1>4, <2>1
    <3>2. buf[2 * i + 1] \in Int /\ buf[t] \in Int
      BY <1>1, <1>5, <3>1
    <3>3. QED
      BY <2>1, <3>1, <3>2
  <2>2. CASE ~(2 * i + 1 <= Len(buf) /\ buf[2 * i + 1] < buf[t])
    <3>1. Target(i) = t /\ t \in DOMAIN buf /\ buf[t] \in Int
      BY <1>1, <1>4, <1>5, <2>2
    <3>2. ASSUME 2 * i + 1 \in DOMAIN buf PROVE buf[t] <= buf[2 * i + 1]
      <4>1. 2 * i + 1 <= Len(buf) /\ buf[2 * i + 1] \in Int
        BY <1>1, <3>2
      <4>2. QED
        BY <2>2, <3>1, <4>1
    <3>3. QED
      BY <3>1, <3>2
  <2>3. QED
    BY <2>1, <2>2
<1>7. buf[Target(i)] <= buf[i] /\ (2 * i \in DOMAIN buf => buf[Target(i)] <= buf[2 * i])
  BY <1>1, <1>5, <1>6
<1>8. QED
  BY <1>2, <1>3, <1>5, <1>6, <1>7

-----------------------------------------------------------------------------
(* The order of the nodes *)

Inv == TypeOK /\ (pc = "up" => idx \in DOMAIN buf) /\ HeapOrder

LEMMA IsSeq ==
    ASSUME TypeOK
    PROVE  /\ buf \in Seq(Keys) /\ Len(buf) \in Nat /\ DOMAIN buf = 1 .. Len(buf)
           /\ \A i \in DOMAIN buf : buf[i] \in Keys /\ buf[i] \in Int /\ i \in Nat \ {0}
BY SeqOfKeys DEF TypeOK

LEMMA InsertOrders ==
    ASSUME Inv, NEW k \in Keys, MinHeapInsert(k)
    PROVE  Inv'
<1>1. /\ buf \in Seq(Keys) /\ Len(buf) \in Nat /\ DOMAIN buf = 1 .. Len(buf)
      /\ pc = "ready" /\ Len(buf) < maxCnt /\ Ordered(DOMAIN buf)
  BY IsSeq DEF Inv, HeapOrder, MinHeapInsert
<1>2. /\ buf' \in Seq(Keys) /\ Len(buf') = Len(buf) + 1 /\ DOMAIN buf' = 1 .. Len(buf) + 1
      /\ \A i \in DOMAIN buf : buf'[i] = buf[i]
      /\ idx' = Len(buf) + 1 /\ pc' = "up" /\ ret' = ret
  BY <1>1 DEF MinHeapInsert
<1>3. TypeOK' /\ idx' \in DOMAIN buf'
  BY <1>1, <1>2, MinHeapAssumption DEF Inv, TypeOK
<1>4. \A i \in DOMAIN buf' \ {idx'} : MinHeapFa(i) # 0 =>
         MinHeapFa(i) \in DOMAIN buf /\ i \in DOMAIN buf
  BY <1>1, <1>2, Above
<1>5. \A i \in DOMAIN buf' \ {idx'} : MinHeapFa(i) # 0 => buf'[MinHeapFa(i)] <= buf'[i]
  BY <1>1, <1>2, <1>4 DEF Ordered
<1>6. \A i \in DOMAIN buf' : MinHeapFa(i) # idx'
  BY <1>1, <1>2, Above
<1>7. QED
  BY <1>2, <1>3, <1>5, <1>6 DEF Inv, HeapOrder, Ordered

LEMMA UpOrders ==
    ASSUME Inv, SiftUp
    PROVE  Inv'
<1> DEFINE fa == MinHeapFa(idx)
<1>1. /\ buf \in Seq(Keys) /\ Len(buf) \in Nat /\ DOMAIN buf = 1 .. Len(buf)
      /\ \A i \in DOMAIN buf : buf[i] \in Int /\ i \in Nat \ {0}
      /\ pc = "up" /\ idx \in DOMAIN buf /\ ret' = ret
  BY IsSeq DEF Inv, SiftUp
<1>2. \A i \in DOMAIN buf \ {idx} : MinHeapFa(i) # 0 => buf[MinHeapFa(i)] <= buf[i]
  BY <1>1 DEF Inv, HeapOrder, Ordered
<1>3. \A i \in DOMAIN buf : MinHeapFa(i) = idx /\ fa # 0 => buf[fa] <= buf[i]
  BY <1>1 DEF Inv, HeapOrder
<1>4. \A i \in DOMAIN buf : MinHeapFa(i) \in Nat /\ MinHeapFa(i) < i
                            /\ (MinHeapFa(i) # 0 => MinHeapFa(i) \in DOMAIN buf)
  BY <1>1, Above
<1>5. CASE fa # 0 /\ cmp(buf[idx], buf[fa])
  <2>1. fa \in DOMAIN buf /\ fa # idx /\ buf[idx] <= buf[fa]
    BY <1>1, <1>4, <1>5 DEF cmp
  <2>2. buf' = Swap(buf, idx, fa) /\ idx' = fa /\ pc' = "up"
    BY <1>1, <1>5 DEF SiftUp
  <2> HIDE DEF fa
  <2>3. /\ buf' \in Seq(Keys) /\ DOMAIN buf' = DOMAIN buf /\ Len(buf') = Len(buf)
        /\ buf'[idx] = buf[fa] /\ buf'[fa] = buf[idx]
        /\ \A k \in DOMAIN buf : k # idx /\ k # fa => buf'[k] = buf[k]
    <3>1. buf \in Seq(Keys) /\ idx \in DOMAIN buf /\ fa \in DOMAIN buf
      BY <1>1, <2>1
    <3> DEFINE w == Swap(buf, idx, fa)
    <3>2. /\ w \in Seq(Keys) /\ DOMAIN w = DOMAIN buf /\ Len(w) = Len(buf)
          /\ w[idx] = buf[fa] /\ w[fa] = buf[idx]
          /\ \A k \in DOMAIN buf : k # idx /\ k # fa => w[k] = buf[k]
      BY <3>1, Swapped
    <3>3. buf' = w
      BY <2>2
    <3> HIDE DEF w
    <3>4. QED
      BY <3>2, <3>3
  <2>4. TypeOK' /\ idx' \in DOMAIN buf'
    <3>1. Len(buf) <= maxCnt /\ ret \in Keys \cup {None} /\ maxCnt \in Nat
      BY MinHeapAssumption DEF Inv, TypeOK
    <3>2. fa \in 1 .. maxCnt
      BY <1>1, <2>1, <3>1
    <3>3. QED
      BY <1>1, <2>1, <2>2, <2>3, <3>1, <3>2 DEF TypeOK
  <2>5. ASSUME NEW i \in DOMAIN buf, i # fa, MinHeapFa(i) # 0
        PROVE  buf'[MinHeapFa(i)] <= buf'[i]
    <3>1. CASE i = idx
      BY <1>1, <2>1, <2>3, <3>1 DEF fa
    <3>2. CASE i # idx /\ MinHeapFa(i) = idx
      BY <1>3, <2>3, <2>5, <3>2, <2>1, <1>4
    <3>3. CASE i # idx /\ MinHeapFa(i) = fa
      <4>1. buf[fa] <= buf[i] /\ buf'[i] = buf[i]
        BY <1>2, <2>3, <2>5, <3>3
      <4>2. buf[idx] \in Int /\ buf[fa] \in Int /\ buf[i] \in Int
        BY <1>1, <2>1
      <4>3. QED
        BY <2>1, <2>3, <3>3, <4>1, <4>2
    <3>4. CASE i # idx /\ MinHeapFa(i) # idx /\ MinHeapFa(i) # fa
      BY <1>2, <1>4, <2>3, <2>5, <3>4
    <3>5. QED
      BY <3>1, <3>2, <3>3, <3>4
  <2>6. ASSUME NEW i \in DOMAIN buf, MinHeapFa(i) = fa, MinHeapFa(fa) # 0
        PROVE  buf'[MinHeapFa(fa)] <= buf'[i]
    <3>1. /\ MinHeapFa(fa) \in DOMAIN buf /\ MinHeapFa(fa) < fa /\ fa < idx
          /\ MinHeapFa(fa) # fa /\ MinHeapFa(fa) # idx /\ fa # i
      BY <1>1, <1>4, <2>1, <2>6 DEF fa
    <3>2. buf'[MinHeapFa(fa)] = buf[MinHeapFa(fa)] /\ buf[MinHeapFa(fa)] <= buf[fa]
      BY <1>2, <2>1, <2>3, <2>6, <3>1
    <3>3. CASE i = idx
      BY <2>3, <3>2, <3>3
    <3>4. CASE i # idx
      <4>1. buf'[i] = buf[i] /\ buf[fa] <= buf[i]
        BY <1>2, <2>1, <2>3, <2>6, <3>1, <3>4
      <4>2. buf[MinHeapFa(fa)] \in Int /\ buf[fa] \in Int /\ buf[i] \in Int
        BY <1>1, <2>1, <3>1
      <4>3. QED
        BY <3>2, <4>1, <4>2
    <3>5. QED
      BY <3>3, <3>4
  <2>7. QED
    BY <2>2, <2>3, <2>4, <2>5, <2>6 DEF Inv, HeapOrder, Ordered
<1>6. CASE ~(fa # 0 /\ cmp(buf[idx], buf[fa]))
  <2>1. buf' = buf /\ idx' = 1 /\ pc' = "ready"
    BY <1>1, <1>6 DEF SiftUp
  <2>2. TypeOK'
    BY <1>1, <2>1, MinHeapAssumption DEF Inv, TypeOK
  <2>3. fa # 0 => buf[fa] <= buf[idx]
    BY <1>1, <1>4, <1>6 DEF cmp
  <2>4. \A i \in DOMAIN buf : MinHeapFa(i) # 0 => buf[MinHeapFa(i)] <= buf[i]
    BY <1>2, <2>3
  <2>5. QED
    BY <2>1, <2>2, <2>4 DEF Inv, HeapOrder, Ordered
<1>7. QED
  BY <1>5, <1>6

\* What MinHeapPop leaves: the nodes without the first, the last in its place.
LEMMA PopMoves ==
    ASSUME NEW s \in Seq(Keys), s # << >>
    PROVE  LET t == Front([s EXCEPT ![1] = Last(s)]) IN
           /\ Len(s) \in Nat \ {0} /\ 1 \in DOMAIN s /\ Len(s) \in DOMAIN s
           /\ t \in Seq(Keys) /\ Len(t) = Len(s) - 1 /\ DOMAIN t = 1 .. Len(s) - 1
           /\ 1 \in DOMAIN t => t[1] = s[Len(s)]
           /\ \A i \in DOMAIN t : i # 1 => t[i] = s[i]
<1>1. Len(s) \in Nat \ {0} /\ DOMAIN s = 1 .. Len(s) /\ s \in [1 .. Len(s) -> Keys]
  OBVIOUS
<1> DEFINE r == [s EXCEPT ![1] = s[Len(s)]]
<1>2. r \in Seq(Keys) /\ Len(r) = Len(s) /\ r[1] = s[Len(s)] /\ \A i \in DOMAIN s : i # 1 => r[i] = s[i]
  <2>1. r \in [1 .. Len(s) -> Keys]
    BY <1>1
  <2>2. QED
    BY <1>1, <2>1
<1> DEFINE t == SubSeq(r, 1, Len(r) - 1)
<1>3. t = Front([s EXCEPT ![1] = Last(s)])
  BY DEF Front, Last
<1>4. t \in Seq(Keys) /\ Len(t) = Len(s) - 1 /\ \A i \in 1 .. Len(s) - 1 : t[i] = r[i]
  <2> HIDE DEF r
  <2> QED BY <1>1, <1>2
<1> HIDE DEF t, r
<1>5. DOMAIN t = 1 .. Len(s) - 1
  BY <1>1, <1>4
<1>6. /\ Len(s) \in Nat \ {0} /\ 1 \in DOMAIN s /\ Len(s) \in DOMAIN s
      /\ 1 \in DOMAIN t => t[1] = s[Len(s)]
      /\ \A i \in DOMAIN t : i # 1 => t[i] = s[i]
  BY <1>1, <1>2, <1>4, <1>5
<1>7. QED
  BY <1>3, <1>4, <1>5, <1>6

LEMMA PopOrders ==
    ASSUME Inv, MinHeapPop
    PROVE  Inv'
<1>1. /\ buf \in Seq(Keys) /\ buf # << >> /\ DOMAIN buf = 1 .. Len(buf) /\ Ordered(DOMAIN buf)
      /\ buf' = Front([buf EXCEPT ![1] = Last(buf)])
      /\ idx' = 1 /\ pc' = "down" /\ ret' = buf[1]
  BY IsSeq DEF Inv, HeapOrder, MinHeapPop
<1>2. /\ Len(buf) \in Nat \ {0} /\ 1 \in DOMAIN buf
      /\ buf' \in Seq(Keys) /\ Len(buf') = Len(buf) - 1 /\ DOMAIN buf' = 1 .. Len(buf) - 1
      /\ \A i \in DOMAIN buf' : i # 1 => buf'[i] = buf[i]
  BY <1>1, PopMoves
<1>3. TypeOK'
  <2>1. buf[1] \in Keys /\ Len(buf') <= maxCnt /\ 1 \in 1 .. maxCnt
    BY <1>1, <1>2, MinHeapAssumption DEF Inv, TypeOK
  <2>2. QED
    BY <1>1, <1>2, <2>1 DEF TypeOK
<1>4. \A i \in DOMAIN buf' : MinHeapFa(i) # 0 =>
         /\ i # 1 /\ MinHeapFa(i) \in DOMAIN buf' /\ i \in DOMAIN buf
         /\ buf[MinHeapFa(i)] <= buf[i]
  BY <1>1, <1>2, Above DEF Ordered
<1>5. \A i \in DOMAIN buf' : MinHeapFa(i) # 1 /\ MinHeapFa(i) # 0 => buf'[MinHeapFa(i)] <= buf'[i]
  BY <1>2, <1>4
<1>6. MinHeapFa(1) = 0
  BY DEF MinHeapFa
<1>7. QED
  BY <1>1, <1>3, <1>5, <1>6 DEF Inv, HeapOrder, Ordered

LEMMA DownOrders ==
    ASSUME Inv, SiftDown
    PROVE  Inv'
<1>1. /\ buf \in Seq(Keys) /\ Len(buf) \in Nat /\ DOMAIN buf = 1 .. Len(buf)
      /\ \A i \in DOMAIN buf : buf[i] \in Int /\ i \in Nat \ {0}
      /\ pc = "down" /\ idx \in Nat \ {0} /\ ret' = ret
  BY IsSeq DEF Inv, SiftDown, TypeOK
<1>2. \A i \in DOMAIN buf : MinHeapFa(i) # idx /\ MinHeapFa(i) # 0 => buf[MinHeapFa(i)] <= buf[i]
  BY <1>1 DEF Inv, HeapOrder, Ordered
<1>3. \A i \in DOMAIN buf : MinHeapFa(i) = idx /\ MinHeapFa(idx) # 0 =>
                              buf[MinHeapFa(idx)] <= buf[i]
  BY <1>1 DEF Inv, HeapOrder
<1>4. \A i \in DOMAIN buf : MinHeapFa(i) \in Nat /\ MinHeapFa(i) < i
                            /\ (MinHeapFa(i) # 0 => MinHeapFa(i) \in DOMAIN buf)
  BY <1>1, Above
<1>5. CASE MinHeapLeft(idx) <= Len(buf) \/ MinHeapRight(idx) <= Len(buf)
  <2> DEFINE t == Target(idx)
  <2>1. idx \in DOMAIN buf
    BY <1>1, <1>5 DEF MinHeapLeft, MinHeapRight
  <2>2. /\ t \in DOMAIN buf /\ (t = idx \/ MinHeapFa(t) = idx)
        /\ buf[t] <= buf[idx]
        /\ \A j \in DOMAIN buf : MinHeapFa(j) = idx => buf[t] <= buf[j]
    BY <1>1, <2>1, TargetIsLeast
  <2>3. buf' = Swap(buf, idx, t) /\ idx' = t /\ pc' = "down"
    BY <1>1, <1>5 DEF SiftDown
  <2> HIDE DEF t
  <2>4. /\ buf' \in Seq(Keys) /\ DOMAIN buf' = DOMAIN buf /\ Len(buf') = Len(buf)
        /\ buf'[idx] = buf[t] /\ buf'[t] = buf[idx]
        /\ \A k \in DOMAIN buf : k # idx /\ k # t => buf'[k] = buf[k]
    <3>1. buf \in Seq(Keys) /\ idx \in DOMAIN buf /\ t \in DOMAIN buf
      BY <1>1, <2>1, <2>2
    <3> DEFINE w == Swap(buf, idx, t)
    <3>2. /\ w \in Seq(Keys) /\ DOMAIN w = DOMAIN buf /\ Len(w) = Len(buf)
          /\ w[idx] = buf[t] /\ w[t] = buf[idx]
          /\ \A k \in DOMAIN buf : k # idx /\ k # t => w[k] = buf[k]
      BY <3>1, Swapped
    <3>3. buf' = w
      BY <2>3
    <3> HIDE DEF w
    <3>4. QED
      BY <3>2, <3>3
  <2>5. TypeOK'
    <3>1. Len(buf) <= maxCnt /\ ret \in Keys \cup {None} /\ maxCnt \in Nat
      BY MinHeapAssumption DEF Inv, TypeOK
    <3>2. t \in 1 .. maxCnt
      BY <1>1, <2>2, <3>1
    <3>3. QED
      BY <1>1, <2>3, <2>4, <3>1, <3>2 DEF TypeOK
  <2>6. CASE t = idx
    <3>1. \A k \in DOMAIN buf : buf'[k] = buf[k]
      BY <2>4, <2>6
    <3>2. \A i \in DOMAIN buf : MinHeapFa(i) # idx /\ MinHeapFa(i) # 0 =>
             buf'[MinHeapFa(i)] <= buf'[i]
      BY <1>2, <1>4, <3>1
    <3>3. \A i \in DOMAIN buf : MinHeapFa(i) = idx /\ MinHeapFa(idx) # 0 =>
             buf'[MinHeapFa(idx)] <= buf'[i]
      BY <1>3, <1>4, <2>1, <3>1
    <3>4. QED
      BY <2>3, <2>4, <2>5, <2>6, <3>2, <3>3 DEF Inv, HeapOrder, Ordered
  <2>7. CASE t # idx
    <3>1. MinHeapFa(t) = idx /\ idx < t
      BY <1>4, <2>2, <2>7
    <3>2. ASSUME NEW i \in DOMAIN buf, MinHeapFa(i) # t, MinHeapFa(i) # 0
          PROVE  buf'[MinHeapFa(i)] <= buf'[i]
      <4>1. CASE i = idx
        <5>1. MinHeapFa(idx) # idx /\ MinHeapFa(idx) \in DOMAIN buf
          BY <1>4, <2>1, <3>2, <4>1
        <5>2. buf[MinHeapFa(idx)] <= buf[t]
          BY <1>3, <2>2, <3>1, <3>2, <4>1
        <5>3. QED
          BY <2>4, <3>2, <4>1, <5>1, <5>2
      <4>2. CASE i = t
        BY <2>2, <2>4, <3>1, <4>2
      <4>3. CASE i # idx /\ i # t /\ MinHeapFa(i) = idx
        BY <2>2, <2>4, <4>3
      <4>4. CASE i # idx /\ i # t /\ MinHeapFa(i) # idx
        BY <1>2, <1>4, <2>4, <3>2, <4>4
      <4>5. QED
        BY <4>1, <4>2, <4>3, <4>4
    <3>3. ASSUME NEW i \in DOMAIN buf, MinHeapFa(i) = t
          PROVE  buf'[MinHeapFa(t)] <= buf'[i]
      <4>1. i # t /\ i # idx
        BY <1>1, <1>4, <2>2, <3>1, <3>3
      <4>2. buf'[i] = buf[i] /\ buf'[MinHeapFa(t)] = buf[t]
        BY <2>4, <3>1, <4>1
      <4>3. t # 0
        BY <1>1, <2>2
      <4>4. buf[t] <= buf[i]
        BY <1>2, <2>7, <3>3, <4>3
      <4>5. QED
        BY <4>2, <4>4
    <3>4. QED
      BY <2>3, <2>4, <2>5, <3>2, <3>3 DEF Inv, HeapOrder, Ordered
  <2>8. QED
    BY <2>6, <2>7
<1>6. CASE ~(MinHeapLeft(idx) <= Len(buf) \/ MinHeapRight(idx) <= Len(buf))
  <2>1. buf' = buf /\ idx' = 1 /\ pc' = "ready"
    BY <1>1, <1>6 DEF SiftDown
  <2>2. \A i \in DOMAIN buf : MinHeapFa(i) # idx
    <3>1. ~(2 * idx <= Len(buf)) /\ ~(2 * idx + 1 <= Len(buf))
      BY <1>6 DEF MinHeapLeft, MinHeapRight
    <3>2. SUFFICES ASSUME NEW i \in DOMAIN buf, MinHeapFa(i) = idx PROVE FALSE
      OBVIOUS
    <3>3. i \in Nat /\ i <= Len(buf) /\ (i = 2 * idx \/ i = 2 * idx + 1)
      <4>1. i \in Nat \ {0} /\ idx \in Nat /\ i <= Len(buf)
        BY <1>1
      <4>2. i = 2 * idx \/ i = 2 * idx + 1
        BY <3>2, <4>1, Above
      <4>3. QED
        BY <4>1, <4>2
    <3>4. QED
      BY <1>1, <3>1, <3>3
  <2>3. TypeOK'
    BY <1>1, <2>1, MinHeapAssumption DEF Inv, TypeOK
  <2>4. QED
    BY <1>2, <2>1, <2>2, <2>3 DEF Inv, HeapOrder, Ordered
<1>7. QED
  BY <1>5, <1>6

LEMMA InitOrders == Init => Inv
<1> SUFFICES ASSUME Init PROVE Inv
  OBVIOUS
<1>1. TypeOK
  BY MinHeapAssumption DEF Init, TypeOK
<1>2. QED
  BY <1>1 DEF Inv, Init, HeapOrder, Ordered

LEMMA StepOrders == Inv /\ [Next]_vars => Inv'
<1> SUFFICES ASSUME Inv, [Next]_vars PROVE Inv'
  OBVIOUS
<1>1. CASE UNCHANGED vars
  BY <1>1 DEF vars, Inv, TypeOK, HeapOrder, Ordered
<1>2. CASE Next
  BY <1>2, InsertOrders, UpOrders, PopOrders, DownOrders DEF Next
<1>3. QED
  BY <1>1, <1>2

\* Whatever is inserted and popped, the nodes are in order, but for the one
\* that a loop of MinHeapInsert or MinHeapPop is at.
THEOREM HeapOrdered == Spec => []HeapOrder
<1>1. Inv => HeapOrder
  BY DEF Inv
<1>2. QED
  BY <1>1, InitOrders, StepOrders, PTL DEF Spec

-----------------------------------------------------------------------------
(* The heap is a priority queue *)

\* The least element, which stands in for induction.
LEMMA LeastNat ==
    ASSUME NEW T \in SUBSET Nat, T # {}
    PROVE  \E x \in T : \A y \in T : x <= y
<1>1. PICK R : R = OpToRel(<, Nat)
  OBVIOUS
<1>2. \A x, y \in Nat : <<y, x>> \in R <=> y < x
  BY <1>1 DEF OpToRel
<1>3. PICK x \in T : \A y \in T : ~(<<y, x>> \in R)
  BY <1>1, NatLessThanWellFounded, WFMin
<1>4. \A y \in T : x <= y
  <2> SUFFICES ASSUME NEW y \in T PROVE x <= y
    OBVIOUS
  <2>1. x \in Nat /\ y \in Nat /\ ~(y < x)
    BY <1>2, <1>3
  <2>2. QED
    BY <2>1
<1>5. QED
  BY <1>4

\* In a heap in order the first node is a least one.
LEMMA RootIsLeast ==
    ASSUME buf \in Seq(Keys), Ordered(DOMAIN buf), NEW i \in DOMAIN buf
    PROVE  buf[1] <= buf[i]
<1> DEFINE T == {j \in DOMAIN buf : ~(buf[1] <= buf[j])}
<1>1. /\ DOMAIN buf = 1 .. Len(buf) /\ Len(buf) \in Nat
      /\ \A j \in DOMAIN buf : buf[j] \in Int /\ j \in Nat \ {0}
  BY SeqOfKeys
<1> SUFFICES ASSUME T # {} PROVE FALSE
  OBVIOUS
<1>2. T \in SUBSET Nat
  BY <1>1
<1>3. PICK j \in T : \A k \in T : j <= k
  <2> HIDE DEF T
  <2> QED BY <1>2, LeastNat
<1>4. j \in DOMAIN buf /\ ~(buf[1] <= buf[j]) /\ buf[j] \in Int /\ j \in Nat \ {0} /\ 1 \in DOMAIN buf
  BY <1>1
<1>5. j # 1 /\ buf[1] \in Int
  BY <1>1, <1>4
<1>6. MinHeapFa(j) \in Nat /\ MinHeapFa(j) < j /\ (MinHeapFa(j) = 0 => j = 1)
  BY <1>4, Above
<1>7. MinHeapFa(j) \in DOMAIN buf /\ MinHeapFa(j) \notin T
  BY <1>1, <1>3, <1>4, <1>5, <1>6
<1>8. buf[1] <= buf[MinHeapFa(j)] /\ buf[MinHeapFa(j)] <= buf[j] /\ buf[MinHeapFa(j)] \in Int
  BY <1>1, <1>4, <1>5, <1>6, <1>7 DEF Ordered
<1>9. QED
  BY <1>4, <1>5, <1>8

Positions(s, k) == {i \in DOMAIN s : s[i] = k}
Copies(s, k) == Cardinality(Positions(s, k))
BagOf(s) == [k \in ToSet(s) |-> Cardinality({i \in DOMAIN s : s[i] = k})]

LEMMA CopiesCounted ==
    ASSUME NEW s \in Seq(Keys)
    PROVE  /\ \A k : IsFiniteSet(Positions(s, k)) /\ Copies(s, k) \in Nat
           /\ \A k : Copies(s, k) > 0 <=> k \in ToSet(s)
           /\ ToSet(s) \subseteq Keys
           /\ DOMAIN BagOf(s) = ToSet(s)
           /\ \A k \in ToSet(s) : BagOf(s)[k] = Copies(s, k)
<1>1. DOMAIN s = 1 .. Len(s) /\ Len(s) \in Nat /\ \A i \in DOMAIN s : s[i] \in Keys
  BY SeqOfKeys
<1>2. IsFiniteSet(DOMAIN s)
  BY <1>1, FS_Interval
<1>3. \A k : IsFiniteSet(Positions(s, k))
  <2> SUFFICES ASSUME NEW k PROVE IsFiniteSet(Positions(s, k))
    OBVIOUS
  <2>1. Positions(s, k) \in SUBSET DOMAIN s
    BY DEF Positions
  <2>2. QED
    BY <1>2, <2>1, FS_Subset
<1>4. \A k : Copies(s, k) \in Nat /\ (Copies(s, k) = 0 <=> Positions(s, k) = {})
  BY <1>3, FS_CardinalityType, FS_EmptySet DEF Copies
<1>5. \A k : Positions(s, k) # {} <=> k \in ToSet(s)
  BY DEF Positions, ToSet
<1>6. \A k : Copies(s, k) > 0 <=> k \in ToSet(s)
  BY <1>4, <1>5
<1>7. QED
  BY <1>1, <1>3, <1>4, <1>6 DEF BagOf, Copies, Positions, ToSet

\* A sequence with as many copies of every key is the same bag.
LEMMA SameBag ==
    ASSUME NEW s \in Seq(Keys), NEW t \in Seq(Keys), \A k \in Keys : Copies(t, k) = Copies(s, k)
    PROVE  BagOf(t) = BagOf(s)
<1>1. \A k \in Keys : k \in ToSet(t) <=> k \in ToSet(s)
  BY CopiesCounted
<1>2. ToSet(t) = ToSet(s)
  BY <1>1, CopiesCounted
<1>3. \A k \in ToSet(s) : Cardinality({i \in DOMAIN t : t[i] = k}) = Cardinality({i \in DOMAIN s : s[i] = k})
  BY CopiesCounted DEF Copies, Positions
<1>4. QED
  BY <1>2, <1>3 DEF BagOf

LEMMA OneMore ==
    ASSUME NEW S, IsFiniteSet(S), NEW x, x \notin S
    PROVE  Cardinality(S \cup {x}) = Cardinality(S) + 1
BY FS_AddElement

LEMMA OneLess ==
    ASSUME NEW S, IsFiniteSet(S), NEW x \in S
    PROVE  IsFiniteSet(S \ {x}) /\ Cardinality(S \ {x}) = Cardinality(S) - 1
BY FS_RemoveElement

LEMMA SwapKeepsBag ==
    ASSUME NEW s \in Seq(Keys), NEW i \in DOMAIN s, NEW j \in DOMAIN s
    PROVE  BagOf(Swap(s, i, j)) = BagOf(s)
<1> DEFINE t == Swap(s, i, j)
<1>1. /\ t \in Seq(Keys) /\ DOMAIN t = DOMAIN s /\ t[i] = s[j] /\ t[j] = s[i]
      /\ \A k \in DOMAIN s : k # i /\ k # j => t[k] = s[k]
  BY Swapped
<1> HIDE DEF t
<1>2. ASSUME NEW k \in Keys PROVE Copies(t, k) = Copies(s, k)
  <2> DEFINE P == Positions(s, k)
  <2>1. IsFiniteSet(P)
    BY CopiesCounted
  <2>2. CASE s[i] = s[j]
    <3>1. Positions(t, k) = P
      BY <1>1, <2>2 DEF Positions
    <3>2. QED
      BY <3>1 DEF Copies
  <2>3. CASE s[i] # s[j] /\ k = s[i]
    <3>1. Positions(t, k) = (P \ {i}) \cup {j} /\ i \in P /\ j \notin P \ {i}
      BY <1>1, <2>3 DEF Positions
    <3>2. Copies(s, k) = Cardinality(P) /\ Copies(s, k) \in Nat
      BY CopiesCounted DEF Copies
    <3> HIDE DEF P
    <3>3. IsFiniteSet(P \ {i}) /\ Cardinality(P \ {i}) = Cardinality(P) - 1
      BY <2>1, <3>1, OneLess
    <3>4. Cardinality((P \ {i}) \cup {j}) = Cardinality(P \ {i}) + 1
      BY <3>1, <3>3, OneMore
    <3>5. QED
      BY <3>1, <3>2, <3>3, <3>4 DEF Copies
  <2>4. CASE s[i] # s[j] /\ k = s[j]
    <3>1. Positions(t, k) = (P \ {j}) \cup {i} /\ j \in P /\ i \notin P \ {j}
      BY <1>1, <2>4 DEF Positions
    <3>2. Copies(s, k) = Cardinality(P) /\ Copies(s, k) \in Nat
      BY CopiesCounted DEF Copies
    <3> HIDE DEF P
    <3>3. IsFiniteSet(P \ {j}) /\ Cardinality(P \ {j}) = Cardinality(P) - 1
      BY <2>1, <3>1, OneLess
    <3>4. Cardinality((P \ {j}) \cup {i}) = Cardinality(P \ {j}) + 1
      BY <3>1, <3>3, OneMore
    <3>5. QED
      BY <3>1, <3>2, <3>3, <3>4 DEF Copies
  <2>5. CASE k # s[i] /\ k # s[j]
    <3>1. Positions(t, k) = P
      BY <1>1, <2>5 DEF Positions
    <3>2. QED
      BY <3>1 DEF Copies
  <2>6. QED
    BY <2>2, <2>3, <2>4, <2>5
<1>3. QED
  BY <1>1, <1>2, SameBag DEF t

LEMMA AppendAdds ==
    ASSUME NEW s \in Seq(Keys), NEW k \in Keys
    PROVE  BagOf(Append(s, k)) = Queue!(+)(BagOf(s), Queue!SetToBag({k}))
<1> DEFINE t == Append(s, k)
           b == Queue!SetToBag({k})
<1>1. /\ Len(s) \in Nat /\ DOMAIN s = 1 .. Len(s)
      /\ t \in Seq(Keys) /\ DOMAIN t = 1 .. Len(s) + 1 /\ t[Len(s) + 1] = k
      /\ \A i \in DOMAIN s : t[i] = s[i]
  BY SeqOfKeys
<1>2. DOMAIN b = {k} /\ b[k] = 1
  BY DEF Queue!SetToBag
<1> HIDE DEF t, b
<1>3. ToSet(t) = ToSet(s) \cup {k}
  BY <1>1 DEF ToSet
<1>4. Copies(t, k) = Copies(s, k) + 1
  <2>1. Positions(t, k) = Positions(s, k) \cup {Len(s) + 1} /\ Len(s) + 1 \notin Positions(s, k)
    BY <1>1 DEF Positions
  <2>2. IsFiniteSet(Positions(s, k))
    BY CopiesCounted
  <2>3. QED
    BY <2>1, <2>2, OneMore DEF Copies
<1>5. ASSUME NEW l \in ToSet(s), l # k PROVE Copies(t, l) = Copies(s, l)
  <2>1. Positions(t, l) = Positions(s, l)
    BY <1>1, <1>5 DEF Positions
  <2>2. QED
    BY <2>1 DEF Copies
<1>6. k \notin ToSet(s) => Copies(s, k) = 0
  BY CopiesCounted
<1> DEFINE u == Queue!(+)(BagOf(s), b)
<1>7. /\ u = [e \in DOMAIN u |-> u[e]] /\ DOMAIN u = ToSet(s) \cup {k}
      /\ \A e \in DOMAIN u : u[e] = (IF e \in ToSet(s) THEN BagOf(s)[e] ELSE 0) + (IF e \in {k} THEN b[e] ELSE 0)
  BY <1>2, CopiesCounted DEF Queue!(+)
<1> HIDE DEF u
<1>8. \A e \in DOMAIN u : u[e] = Copies(t, e)
  <2> SUFFICES ASSUME NEW e \in DOMAIN u PROVE u[e] = Copies(t, e)
    OBVIOUS
  <2>1. Copies(s, e) \in Nat /\ (e \in ToSet(s) => BagOf(s)[e] = Copies(s, e))
    BY CopiesCounted
  <2>2. CASE e = k
    BY <1>2, <1>4, <1>6, <1>7, <2>1, <2>2
  <2>3. CASE e # k
    BY <1>5, <1>7, <2>1, <2>3
  <2>4. QED
    BY <2>2, <2>3
<1>9. BagOf(t) = u
  BY <1>1, <1>3, <1>7, <1>8 DEF BagOf, Copies, Positions
<1>10. QED
  BY <1>9 DEF t, u, b

LEMMA PopRemoves ==
    ASSUME NEW s \in Seq(Keys), s # << >>
    PROVE  BagOf(Front([s EXCEPT ![1] = Last(s)])) = Queue!(-)(BagOf(s), Queue!SetToBag({s[1]}))
<1> DEFINE t == Front([s EXCEPT ![1] = Last(s)])
           b == Queue!SetToBag({s[1]})
           n == Len(s)
<1>1. /\ n \in Nat \ {0} /\ 1 \in DOMAIN s /\ n \in DOMAIN s
      /\ t \in Seq(Keys) /\ DOMAIN t = 1 .. n - 1
      /\ 1 \in DOMAIN t => t[1] = s[n]
      /\ \A i \in DOMAIN t : i # 1 => t[i] = s[i]
  BY PopMoves
<1>2. DOMAIN b = {s[1]} /\ b[s[1]] = 1
  BY DEF Queue!SetToBag
<1>3. DOMAIN s = 1 .. n
  BY SeqOfKeys
<1> HIDE DEF t, b, n
<1>4. ASSUME NEW k PROVE Copies(t, k) = Copies(s, k) - (IF k = s[1] THEN 1 ELSE 0)
  <2> DEFINE P == Positions(s, k)
  <2>1. IsFiniteSet(P) /\ Copies(s, k) = Cardinality(P) /\ Cardinality(P) \in Nat
    BY CopiesCounted, FS_CardinalityType DEF Copies
  <2>2. 1 \in P <=> k = s[1]
    BY <1>1 DEF Positions
  <2>3. CASE s[n] # k \/ n = 1
    <3>1. Positions(t, k) = P \ {1}
      BY <1>1, <1>3, <2>3 DEF Positions
    <3>2. CASE 1 \in P
      BY <2>1, <2>2, <3>1, <3>2, OneLess DEF Copies
    <3>3. CASE 1 \notin P
      <4>1. P \ {1} = P /\ k # s[1]
        BY <2>2, <3>3
      <4>2. Copies(t, k) = Cardinality(P)
        BY <3>1, <4>1 DEF Copies
      <4> HIDE DEF P
      <4>3. QED
        BY <2>1, <4>1, <4>2
    <3>4. QED
      BY <3>2, <3>3
  <2>4. CASE s[n] = k /\ n # 1
    <3>1. /\ Positions(t, k) = (P \ {n}) \cup {1} /\ n \in P
          /\ 1 \in P \ {n} <=> k = s[1]
      BY <1>1, <1>3, <2>4 DEF Positions
    <3>2. IsFiniteSet(P \ {n}) /\ Cardinality(P \ {n}) = Cardinality(P) - 1
      BY <2>1, <3>1, FS_RemoveElement
    <3>3. Cardinality((P \ {n}) \cup {1}) = IF k = s[1] THEN Cardinality(P) - 1 ELSE Cardinality(P)
      <4> HIDE DEF P
      <4>1. CASE 1 \in P \ {n}
        <5>1. (P \ {n}) \cup {1} = P \ {n}
          BY <4>1
        <5>2. QED
          BY <3>1, <3>2, <4>1, <5>1
      <4>2. CASE 1 \notin P \ {n}
        <5>1. Cardinality((P \ {n}) \cup {1}) = Cardinality(P \ {n}) + 1
          BY <3>2, <4>2, OneMore
        <5>2. QED
          BY <2>1, <3>1, <3>2, <4>2, <5>1
      <4>3. QED
        BY <4>1, <4>2
    <3>4. QED
      BY <2>1, <3>1, <3>3 DEF Copies
  <2>5. QED
    BY <2>3, <2>4
<1> DEFINE u == Queue!(-)(BagOf(s), b)
           B == [e \in ToSet(s) |-> IF e \in {s[1]} THEN BagOf(s)[e] - b[e] ELSE BagOf(s)[e]]
<1>5. u = [e \in {d \in ToSet(s) : B[d] > 0} |-> B[e]]
  BY <1>2, CopiesCounted DEF Queue!(-)
<1>6. \A e \in ToSet(s) : B[e] = Copies(t, e)
  <2> SUFFICES ASSUME NEW e \in ToSet(s) PROVE B[e] = Copies(t, e)
    OBVIOUS
  <2>1. Copies(s, e) \in Nat /\ BagOf(s)[e] = Copies(s, e)
    BY CopiesCounted
  <2>2. CASE e = s[1]
    BY <1>2, <1>4, <2>1, <2>2
  <2>3. CASE e # s[1]
    BY <1>4, <2>1, <2>3
  <2>4. QED
    BY <2>2, <2>3
<1> HIDE DEF B, u
<1>7. {d \in ToSet(s) : B[d] > 0} = ToSet(t)
  <2>1. \A d : Copies(t, d) > 0 <=> d \in ToSet(t)
    BY <1>1, CopiesCounted
  <2>2. \A d \in ToSet(t) : d \in ToSet(s)
    <3> SUFFICES ASSUME NEW d \in ToSet(t) PROVE Copies(s, d) > 0
      BY CopiesCounted
    <3>1. Copies(t, d) > 0 /\ Copies(t, d) \in Nat /\ Copies(s, d) \in Nat
      BY <1>1, <2>1, CopiesCounted
    <3>2. QED
      BY <1>4, <3>1
  <2>3. QED
    BY <1>6, <2>1, <2>2
<1>8. BagOf(t) = [e \in ToSet(t) |-> Copies(t, e)]
  BY DEF BagOf, Copies, Positions
<1>9. BagOf(t) = u
  BY <1>5, <1>6, <1>7, <1>8
<1>10. QED
  BY <1>9 DEF t, u, b

LEMMA InitImplements == Init => Queue!Init
<1> SUFFICES ASSUME Init PROVE Queue!Init
  OBVIOUS
<1>1. ToSet(buf) = {} /\ ret = None
  BY DEF Init, ToSet
<1>2. QED
  BY <1>1 DEF Queue!Init, Queue!EmptyBag, Queue!SetToBag

LEMMA StepImplements == Inv /\ [Next]_vars => [Queue!Next]_(Queue!pqVars)
<1> SUFFICES ASSUME Inv, [Next]_vars PROVE [Queue!Next]_(Queue!pqVars)
  OBVIOUS
<1>1. buf \in Seq(Keys) /\ Len(buf) \in Nat /\ DOMAIN buf = 1 .. Len(buf)
  BY IsSeq DEF Inv
<1>2. BagOf(buf)' = BagOf(buf')
  BY DEF BagOf
<1>3. CASE UNCHANGED vars
  BY <1>3 DEF vars, Queue!pqVars
<1>4. ASSUME NEW k \in Keys, MinHeapInsert(k) PROVE Queue!Next
  <2>1. BagOf(buf') = Queue!(+)(BagOf(buf), Queue!SetToBag({k})) /\ ret' = ret
    BY <1>1, <1>4, AppendAdds DEF MinHeapInsert
  <2>2. Queue!Insert(k)
    BY <1>2, <2>1 DEF Queue!Insert, BagOf
  <2>3. QED
    BY <2>2 DEF Queue!Next
<1>5. ASSUME MinHeapPop PROVE Queue!Next
  <2>1. buf # << >> /\ Ordered(DOMAIN buf) /\ ret' = buf[1]
        /\ buf' = Front([buf EXCEPT ![1] = Last(buf)])
    BY <1>5 DEF MinHeapPop, Inv, HeapOrder
  <2>2. BagOf(buf') = Queue!(-)(BagOf(buf), Queue!SetToBag({buf[1]}))
    BY <1>1, <2>1, PopRemoves
  <2>3. 1 \in DOMAIN buf /\ buf[1] \in Keys /\ buf[1] \in ToSet(buf)
    BY <1>1, <2>1, PopMoves, SeqOfKeys DEF ToSet
  <2>4. \A j \in ToSet(buf) : buf[1] <= j
    BY <1>1, <2>1, RootIsLeast DEF ToSet
  <2>5. Queue!Pop(buf[1])
    BY <1>2, <2>1, <2>2, <2>3, <2>4 DEF Queue!Pop, Queue!BagIn, Queue!BagToSet, BagOf
  <2>6. QED
    BY <2>3, <2>5 DEF Queue!Next
<1>6. ASSUME SiftUp PROVE UNCHANGED Queue!pqVars
  <2>1. BagOf(buf') = BagOf(buf)
    <3>1. CASE MinHeapFa(idx) # 0 /\ cmp(buf[idx], buf[MinHeapFa(idx)])
      <4>1. idx \in DOMAIN buf /\ idx \in Nat \ {0}
        BY <1>1, <1>6 DEF Inv, SiftUp
      <4>2. MinHeapFa(idx) \in DOMAIN buf
        BY <1>1, <3>1, <4>1, Above
      <4>3. QED
        BY <1>1, <1>6, <3>1, <4>1, <4>2, SwapKeepsBag DEF SiftUp
    <3>2. CASE ~(MinHeapFa(idx) # 0 /\ cmp(buf[idx], buf[MinHeapFa(idx)]))
      BY <1>6, <3>2 DEF SiftUp
    <3>3. QED
      BY <3>1, <3>2
  <2>2. ret' = ret
    BY <1>6 DEF SiftUp
  <2>3. QED
    BY <1>2, <2>1, <2>2 DEF Queue!pqVars, BagOf
<1>7. ASSUME SiftDown PROVE UNCHANGED Queue!pqVars
  <2>1. BagOf(buf') = BagOf(buf)
    <3>1. CASE MinHeapLeft(idx) <= Len(buf) \/ MinHeapRight(idx) <= Len(buf)
      <4>1. idx \in DOMAIN buf /\ idx \in Nat \ {0}
        BY <1>1, <3>1 DEF Inv, TypeOK, MinHeapLeft, MinHeapRight
      <4>2. Target(idx) \in DOMAIN buf
        BY <1>1, <4>1, TargetIsLeast
      <4>3. QED
        BY <1>1, <1>7, <3>1, <4>1, <4>2, SwapKeepsBag DEF SiftDown
    <3>2. CASE ~(MinHeapLeft(idx) <= Len(buf) \/ MinHeapRight(idx) <= Len(buf))
      BY <1>7, <3>2 DEF SiftDown
    <3>3. QED
      BY <3>1, <3>2
  <2>2. ret' = ret
    BY <1>7 DEF SiftDown
  <2>3. QED
    BY <1>2, <2>1, <2>2 DEF Queue!pqVars, BagOf
<1>8. QED
  BY <1>3, <1>4, <1>5, <1>6, <1>7 DEF Next

\* The heap is a priority queue: inserting and popping keep the bag of keys,
\* the loops change nothing of it, and what MinHeapPop returns is a least key.
THEOREM HeapIsQueue == Spec => ImplementsQueue
<1>1. QED
  BY InitOrders, StepOrders, InitImplements, StepImplements, PTL
     DEF Spec, ImplementsQueue, Queue!Spec
=============================================================================
