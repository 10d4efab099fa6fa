---------------------------- MODULE MCFileSystem ----------------------------
(* A small instance of FileSystem for TLC. *)
EXTENDS FileSystem, TLC

CONSTANTS a, b, c

Permuted == Permutations(Names)
=============================================================================
