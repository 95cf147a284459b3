---------------------------- MODULE CompositeRule ----------------------------
(***************************************************************************)
(* A conjunction or disjunction over the latest observation of up to       *)
(* sixteen elements (CompositeRule of the engine).  Every observation of   *)
(* one of its elements evaluates all of them, with the values the others   *)
(* had when they were last observed, and is one sample of TransitionGate.  *)
(*                                                                         *)
(* A reading is what one condition sees in an observation: "match" or      *)
(* "miss", a match of too little confidence ("faint"), a value of another  *)
(* type than the predicate's ("mistyped"), or no valid value ("invalid").  *)
(***************************************************************************)
EXTENDS TransitionGate

CONSTANT Leaves  \* the elements of the conditions

ASSUME LeavesAssumption == IsFiniteSet(Leaves) /\ Cardinality(Leaves) \in 1 .. 16

VARIABLES
  latest,  \* the last valid reading of each element
  heard    \* the last reading of each element, valid or not (history)

compositeVars == <<gateVars, latest, heard>>

Valid == {"match", "miss", "mistyped", "faint"}
Reading == Valid \cup {"invalid"}
Unknown == "unknown"

CompositeTypeOK ==
  /\ latest \in [Leaves -> Valid \cup {Unknown}]
  /\ heard \in [Leaves -> Reading \cup {Unknown}]

CompositeInit ==
  /\ GateInit
  /\ latest = [leaf \in Leaves |-> Unknown]
  /\ heard = [leaf \in Leaves |-> Unknown]

(* Mutant: an observation without a valid value leaves the last one. *)
LatestKept(leaf, reading) ==
  IF reading \in Valid THEN [latest EXCEPT ![leaf] = reading] ELSE latest

LatestAfter(leaf, reading) ==
  [latest EXCEPT ![leaf] = IF reading \in Valid THEN reading ELSE Unknown]

(* Every condition is known, of its predicate's type and confident: the    *)
(* confidence of a composition is the least of its leaves, for a           *)
(* disjunction too.                                                        *)
Decidable(readings) == \A leaf \in Leaves : readings[leaf] \in {"match", "miss"}

Composed(requireAll, readings) ==
  LET matching == {leaf \in Leaves : readings[leaf] = "match"} IN
    IF IF requireAll THEN matching = Leaves ELSE matching # {} THEN "active" ELSE "inactive"

ObserveLeaf(requireAll, leaf, reading, t) ==
  /\ heard' = [heard EXCEPT ![leaf] = reading]
  /\ latest' = LatestAfter(leaf, reading)
  /\ IF reading \in Valid /\ Decidable(latest')
     THEN Len(journal) < MaxSamples /\ Sampled(Composed(requireAll, latest'), t)
     ELSE UNCHANGED gateVars
=============================================================================
