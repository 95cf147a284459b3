------------------------------- MODULE MCRules -------------------------------
(* TLC instances of CoordinatedRule: three numbers, one below the band, one *)
(* inside it and one above it, and compositions of two elements.           *)
EXTENDS CoordinatedRule
=============================================================================
