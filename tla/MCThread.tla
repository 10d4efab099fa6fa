------------------------------ MODULE MCThread ------------------------------
(* Small instances of Thread for TLC. *)
EXTENDS Thread, TLC

CONSTANTS idle, main, p1, p2, m1, disk

MCSymmetry == Permutations({p1, p2})
=============================================================================
