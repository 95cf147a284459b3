--------------------------- MODULE CoordinatedRule ---------------------------
(***************************************************************************)
(* One rule of a profile in the live pipeline (build_coordinated_rule of   *)
(* the daemon): the predicate of the rule decides which of the engine's    *)
(* rules runs, and every one of them is driven by the observations of the  *)
(* elements it depends on.  Observations of other elements do not reach    *)
(* it.                                                                     *)
(***************************************************************************)
EXTENDS TemporalRule, NumericRule, CompositeRule, RapidIncreaseRule

CONSTANT MaxMixed  \* bound: samples of a rule that is not "temporal"

ASSUME MixedAssumption == MaxMixed \in Nat

VARIABLE kind  \* which rule the predicate asks for

coordinatedVars == <<compositeVars, rapidVars, value, seen, torn, kind>>

Kinds == {"temporal", "numeric", "all", "any", "rapid"}

RuleTypeOK ==
  /\ kind \in Kinds
  /\ NumericTypeOK
  /\ CompositeTypeOK
  /\ RapidTypeOK

CoordinatedInit ==
  /\ kind \in Kinds
  /\ NumericInit
  /\ CompositeInit
  /\ RapidInit

Boolean(t) ==
  /\ kind = "temporal"
  /\ \E matched \in Phase : Observe(matched, t)
  /\ UNCHANGED <<latest, heard, rapidVars, value, seen, torn>>

Numeric(t) ==
  /\ kind = "numeric"
  /\ Len(journal) < MaxMixed
  /\ \E v \in Values : ObserveNumber(v, t)
  /\ UNCHANGED <<latest, heard, rapidVars>>

Composite(t) ==
  /\ kind \in {"all", "any"}
  /\ Len(journal) < MaxMixed
  /\ \E leaf \in Leaves, reading \in Reading : ObserveLeaf(kind = "all", leaf, reading, t)
  /\ UNCHANGED <<rapidVars, value, seen, torn>>

Rapid(step) ==
  /\ kind = "rapid"
  /\ Len(levels) < MaxMixed
  /\ \E v \in Levels : ObserveLevel(v, RapidClock + step)
  /\ UNCHANGED <<compositeVars, value, seen, torn>>

(* CoordinatedRule::observe *)
CoordinatedNext ==
  /\ UNCHANGED kind
  /\ \E step \in 0 .. MaxStep :
       \/ Boolean(Clock + step)
       \/ Numeric(Clock + step)
       \/ Composite(Clock + step)
       \/ Rapid(step)

CoordinatedSpec == CoordinatedInit /\ [][CoordinatedNext]_coordinatedVars

-----------------------------------------------------------------------------
(* What a consumer of the events may rely on, whichever predicate the rule *)
(* has: entered and left alternate with updates only between them, two     *)
(* changes are a cooldown apart whatever is reported between them, and an  *)
(* update comes no sooner than UpdateInterval after any report, in every   *)
(* well-typed state (SPEC-EVENT-002, SPEC-EVENT-003).                      *)
ReportsAreDebounced ==
  /\ RuleTypeOK
  /\ EventsAlternate
  /\ CooldownKept
  /\ UpdatesRateLimited

(* A composition is judged only while the last observation of every one of *)
(* its elements is a confident value of the right type, and by those: an   *)
(* element that fell silent with an invalid observation suspends the rule  *)
(* until it is read again (CompositeRule::observe, SPEC-EVENT-001).        *)
JudgesTheLastReadings ==
  journal' # journal =>
    /\ Decidable(heard')
    /\ journal'[Len(journal')].sample = Composed(kind = "all", heard')
CompositionIsCurrent == [][(kind \in {"all", "any"}) => JudgesTheLastReadings]_coordinatedVars

(* The hysteresis of the numeric rules. *)
NumbersKeepHysteresis == [][kind = "numeric" => KeepsHysteresis]_coordinatedVars
=============================================================================
