------------------------------- MODULE MCIde --------------------------------
(* A small instance of Ide for TLC. *)
EXTENDS Ide

CONSTANTS idle, main, p1, channelLock, diskDone
=============================================================================
