---------------------------- MODULE MCPublication ----------------------------
(* TLC instances of Publication. *)
EXTENDS Publication

CONSTANTS live, replay
=============================================================================
