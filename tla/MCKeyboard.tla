----------------------------- MODULE MCKeyboard -----------------------------
(* Small instances of Keyboard for TLC. *)
EXTENDS Keyboard, TLC

CONSTANTS idle, main, p1, ioLock

MCBytes == Codes \X {"high", "low"}
=============================================================================
