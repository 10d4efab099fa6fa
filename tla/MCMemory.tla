------------------------------ MODULE MCMemory ------------------------------
(* A small instance of Memory for TLC. *)
EXTENDS Memory

CONSTANTS kernel, init, p1, KernelPages, UserPages, KernelSpace, UserSpace

Pools == [x \in {"kernel", "user"} |-> IF x = "kernel" THEN KernelPages ELSE UserPages]
SpaceLens == [x \in {"kernel", "user"} |-> IF x = "kernel" THEN KernelSpace ELSE UserSpace]
Blocks == <<2>>
=============================================================================
