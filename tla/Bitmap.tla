------------------------------- MODULE Bitmap -------------------------------
(***************************************************************************)
(* The bitmaps of lib/kernel/bitmap.c, which every pool of pages, blocks   *)
(* and inodes is kept in: the set of the positions that are 1, of len      *)
(* positions.  Setting and resetting a bit is adding it and taking it out. *)
(***************************************************************************)
EXTENDS Integers, FiniteSets, FiniteSetsExt

\* The l of the sliding window at position r: it starts after the last 1.
WindowStart(bits, r) == 1 + Max({-1} \cup {i \in bits : i <= r})

\* The first positions of cnt free ones in a row, or -1.
BitMapAllocate(bits, len, cnt) ==
    LET wide == {r \in 0 .. len - 1 : r - WindowStart(bits, r) + 1 >= cnt}
    IN  IF wide = {} THEN -1 ELSE WindowStart(bits, Min(wide))
=============================================================================
