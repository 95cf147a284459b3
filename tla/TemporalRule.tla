---------------------------- MODULE TemporalRule ----------------------------
(***************************************************************************)
(* A boolean or text rule of the engine (TemporalRule): every valid,       *)
(* confident observation of the predicate's type is one sample, "active"   *)
(* when the predicate matches.  Unknown, erroneous, low-confidence and     *)
(* mismatched observations return before any state is touched: they are    *)
(* stuttering steps.                                                       *)
(***************************************************************************)
EXTENDS TransitionGate

Observe(matched, t) ==
  /\ Len(journal) < MaxSamples
  /\ Sampled(matched, t)

TemporalNext == \E matched \in Phase, t \in Clock .. Clock + MaxStep : Observe(matched, t)

TemporalSpec == GateInit /\ [][TemporalNext]_gateVars
=============================================================================
