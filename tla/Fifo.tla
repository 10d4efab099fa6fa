-------------------------------- MODULE Fifo --------------------------------
(* What the ring buffer promises: a first-in-first-out queue of bytes that  *)
(* holds one byte less than the buffer is long.                             *)
EXTENDS Naturals, Sequences

CONSTANTS Bytes, Capacity

VARIABLE contents

Init == contents = << >>

Put(b) == Len(contents) < Capacity /\ contents' = Append(contents, b)

Get == contents # << >> /\ contents' = Tail(contents)

Next == Get \/ \E b \in Bytes : Put(b)

Spec == Init /\ [][Next]_contents
=============================================================================
