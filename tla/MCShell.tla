------------------------------- MODULE MCShell -------------------------------
(* A small instance of Shell for TLC. *)
EXTENDS Shell, TLC

CONSTANTS sh, c1, c2, file1, file2, dir1

Permuted == Permutations({c1, c2}) \cup Permutations(Files)
=============================================================================
