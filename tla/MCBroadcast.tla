----------------------------- MODULE MCBroadcast ------------------------------
(* Sections of up to three entries that end below, on and above the end of a     *)
(* packet, on a pid of 13 bits and one of 14 that is the same in 13, with a    *)
(* counter about to pass the end of its ui8.                                   *)
EXTENDS Broadcast

ErrOnly == { << TRUE, FALSE >> }
==============================================================================
