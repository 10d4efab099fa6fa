------------------------------ MODULE MinHeap -------------------------------
(***************************************************************************)
(* The binary heap of lib/kernel/minHeap.c, which orders the sleepers by   *)
(* TargetDelayTime.  A node stands for its key: the comparison reads       *)
(* nothing else.  An insertion or a pop runs with interrupts off; each     *)
(* turn of its loop is an action here, so that a loop that does not end    *)
(* shows.                                                                  *)
(***************************************************************************)
EXTENDS Integers, Sequences, SequencesExt

CONSTANTS Keys,   \* target times of sleepers
          maxCnt, \* DelayMinHeapMaxCnt
          None    \* nothing popped yet

ASSUME MinHeapAssumption ==
    Keys \subseteq Nat /\ maxCnt \in Nat \ {0} /\ None \notin Keys

VARIABLES buf,  \* buf[1 .. curCnt]
          idx,  \* the node the loop is at
          pc,   \* "ready", or the loop that runs: "up" of insert, "down" of pop
          ret   \* what the last pop returns

vars == <<buf, idx, pc, ret>>

MinHeapLeft(i) == 2 * i
MinHeapRight(i) == 2 * i + 1
MinHeapFa(i) == i \div 2

\* DelayMinHeapCMP
cmp(k, l) == k < l

Swap(s, i, j) == [s EXCEPT ![i] = s[j], ![j] = s[i]]

Init == buf = << >> /\ idx = 1 /\ pc = "ready" /\ ret = None

MinHeapInsert(k) ==
    /\ pc = "ready" /\ Len(buf) < maxCnt
    /\ buf' = Append(buf, k)
    /\ idx' = Len(buf) + 1
    /\ pc' = "up"
    /\ UNCHANGED ret

\* One turn of the loop of MinHeapInsert, or its end.
SiftUp ==
    /\ pc = "up"
    /\ LET fa == MinHeapFa(idx) IN
       IF fa # 0 /\ cmp(buf[idx], buf[fa])
       THEN buf' = Swap(buf, idx, fa) /\ idx' = fa /\ UNCHANGED pc
       ELSE pc' = "ready" /\ idx' = 1 /\ UNCHANGED buf
    /\ UNCHANGED ret

\* Wrong: the last node is dropped, not moved to the first place.
PopDropsLast ==
    /\ pc = "ready" /\ buf # << >>
    /\ ret' = buf[1]
    /\ buf' = Front(buf)
    /\ idx' = 1
    /\ pc' = "down"

\* The last node takes the place of the first.
MinHeapPop ==
    /\ pc = "ready" /\ buf # << >>
    /\ ret' = buf[1]
    /\ buf' = Front([buf EXCEPT ![1] = Last(buf)])
    /\ idx' = 1
    /\ pc' = "down"

\* Wrong: the right child is not looked at.
TargetLeftOnly(i) ==
    LET left == MinHeapLeft(i)
    IN IF left <= Len(buf) /\ cmp(buf[left], buf[i]) THEN left ELSE i

\* The node the loop of MinHeapPop moves on to: the least of the node and its
\* children.
Target(i) ==
    LET left == MinHeapLeft(i)
        right == MinHeapRight(i)
        t == IF left <= Len(buf) /\ cmp(buf[left], buf[i]) THEN left ELSE i
    IN IF right <= Len(buf) /\ cmp(buf[right], buf[t]) THEN right ELSE t

\* Wrong: the size is the one before the pop.
SiftDownOldSize ==
    /\ pc = "down"
    /\ IF MinHeapLeft(idx) <= Len(buf) + 1
       THEN /\ buf' = Swap(buf, idx, Target(idx))
            /\ idx' = Target(idx)
            /\ UNCHANGED pc
       ELSE pc' = "ready" /\ idx' = 1 /\ UNCHANGED buf
    /\ UNCHANGED ret

\* One turn of the loop of MinHeapPop, or its end: the loop ends at a node
\* without children, and nowhere else.
SiftDown ==
    /\ pc = "down"
    /\ IF MinHeapLeft(idx) <= Len(buf) \/ MinHeapRight(idx) <= Len(buf)
       THEN /\ buf' = Swap(buf, idx, Target(idx))
            /\ idx' = Target(idx)
            /\ UNCHANGED pc
       ELSE pc' = "ready" /\ idx' = 1 /\ UNCHANGED buf
    /\ UNCHANGED ret

Next == (\E k \in Keys : MinHeapInsert(k)) \/ SiftUp \/ MinHeapPop \/ SiftDown

Spec == Init /\ [][Next]_vars

\* The processor goes on with the loops.
FairSpec == Spec /\ WF_vars(SiftUp) /\ WF_vars(SiftDown)

-----------------------------------------------------------------------------

TypeOK ==
    /\ buf \in Seq(Keys) /\ Len(buf) <= maxCnt
    /\ pc \in {"ready", "up", "down"}
    /\ idx \in 1 .. maxCnt
    /\ ret \in Keys \cup {None}

Ordered(S) == \A i \in S : MinHeapFa(i) # 0 => buf[MinHeapFa(i)] <= buf[i]

\* No parent is greater than its child; while a loop runs, only the node it is
\* at may be out of order: with its parent on the way up, with its children on
\* the way down, and its children are in order with its parent.
HeapOrder ==
    /\ pc = "ready" => Ordered(DOMAIN buf)
    /\ pc = "up" => Ordered(DOMAIN buf \ {idx})
    /\ pc = "down" => Ordered({i \in DOMAIN buf : MinHeapFa(i) # idx})
    /\ pc # "ready" =>
         \A i \in DOMAIN buf : MinHeapFa(i) = idx /\ MinHeapFa(idx) # 0 =>
                                 buf[MinHeapFa(idx)] <= buf[i]

Queue == INSTANCE PriorityQueue WITH
    items <- [k \in ToSet(buf) |-> Cardinality({i \in DOMAIN buf : buf[i] = k})],
    popped <- ret

\* Insertions and pops keep the bag of keys, and pop takes the least.
ImplementsQueue == Queue!Spec

\* A pop that leaves at most one node returns: what the bound on sleepers in
\* Thread relies on.
ShortPopReturns == (pc = "down" /\ Len(buf) <= 1) ~> pc = "ready"

\* Every pop returns, so that the sleepers behind the first are reached.
PopReturns == pc = "down" ~> pc = "ready"
=============================================================================
