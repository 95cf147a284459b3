--------------------------- MODULE MCOutputRouter ---------------------------
(* TLC instances of OutputRouter: one event route and one state route. *)
EXTENDS OutputRouter

CONSTANTS marker, value, gui, cli, low, high

OneOfEach == [r \in {marker, value} |-> IF r = marker THEN "event" ELSE "state"]
=============================================================================
