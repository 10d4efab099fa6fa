------------------------------- MODULE MCPipe -------------------------------
(* Small instances of Pipe for TLC. *)
EXTENDS Pipe

CONSTANTS idle, main, p1, p2, p3, ioLock, a, b
=============================================================================
