---------------------------- MODULE MCAutoCapture ----------------------------
(* TLC instances of AutoCapture: the monitor and one other client. *)
EXTENDS AutoCapture

CONSTANTS gui
=============================================================================
