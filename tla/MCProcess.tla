------------------------------ MODULE MCProcess ------------------------------
(* A small instance of Process for TLC. *)
EXTENDS Process

CONSTANTS idle, init, p1, p2, p3
=============================================================================
