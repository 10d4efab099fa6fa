--------------------------- MODULE PriorityQueue ----------------------------
(***************************************************************************)
(* What a minimum heap promises: a bag of keys, from which pop takes a     *)
(* least one.                                                              *)
(***************************************************************************)
EXTENDS Naturals, Bags

CONSTANTS Keys, None

VARIABLES items,  \* the bag of keys in the queue
          popped  \* the key the last pop returned

pqVars == <<items, popped>>

Init == items = EmptyBag /\ popped = None

Insert(k) ==
    /\ items' = items (+) SetToBag({k})
    /\ UNCHANGED popped

Pop(k) ==
    /\ BagIn(k, items)
    /\ \A j \in BagToSet(items) : k <= j
    /\ items' = items (-) SetToBag({k})
    /\ popped' = k

Next == \E k \in Keys : Insert(k) \/ Pop(k)

Spec == Init /\ [][Next]_pqVars
=============================================================================
