----------------------------- MODULE MCEvidence -----------------------------
(* TLC instances of EvidenceReview: two profiles with a dataset each. *)
EXTENDS EvidenceReview, TLC

CONSTANTS blaz, queen, gui, cli

(* Noon and night differ in the picture alone, and a menu, half as bright,  *)
(* from each in the evidence alone.                                        *)
MCThumbnail == <<2, 0, 1>>
MCSignature == <<"hud", "hud", "menu">>

Interchangeable ==
  {p @@ r : p \in Permutations(Profiles), r \in Permutations(Reviewers)}

(* Bound: once a write was orphaned and two reviews overlapped, only the   *)
(* type invariant says anything, and the behaviour is not followed.        *)
OneInterference == ~(orphaned /\ overlapped)
=============================================================================
