----------------------------- MODULE MCRequests -----------------------------
(* TLC instance of Requests. *)
EXTENDS Requests, TLC

CONSTANTS gui, cli
=============================================================================
