---------------------------- MODULE NumericRule ----------------------------
(***************************************************************************)
(* A numeric threshold rule of the engine (NumericRule): the sample is     *)
(* taken from the number with hysteresis, against a threshold that depends *)
(* on the state at the time of the observation; the rest is the debouncing *)
(* of TransitionGate.  Observations that are not valid finite numbers of   *)
(* enough confidence leave the rule untouched.                             *)
(***************************************************************************)
EXTENDS TransitionGate, Integers

CONSTANTS
  EnterBelow,  \* the rule enters below this value ...
  LeaveAbove,  \* ... and leaves above this one
  Values       \* numbers a detector reads

ASSUME ThresholdAssumption ==
  /\ EnterBelow \in Int
  /\ LeaveAbove \in Int
  /\ EnterBelow <= LeaveAbove
  /\ Values \subseteq Int

VARIABLES
  value,  \* the number of the last observation
  seen,   \* the numbers read since the state last changed (history)
  torn    \* the evidence of that change carried the other state as well (history)

numericVars == <<gateVars, value, seen, torn>>

NumericTypeOK ==
  /\ GateTypeOK
  /\ value \in Values \cup {EnterBelow}
  /\ seen \subseteq Values
  /\ torn \in BOOLEAN

NumericInit == GateInit /\ value = EnterBelow /\ seen = {} /\ torn = FALSE

(* Mutant: no hysteresis. *)
SampleOfOneThreshold(v) == IF v < EnterBelow THEN "active" ELSE "inactive"

(* The sample a number stands for in the present state. *)
SampleOf(v) ==
  IF IF state = "active" THEN v <= LeaveAbove ELSE v < EnterBelow
  THEN "active"
  ELSE "inactive"

ObserveNumber(v, t) ==
  /\ Len(journal) < MaxSamples
  /\ Sampled(SampleOf(v), t)
  /\ value' = v
  /\ seen' = IF state' = state THEN seen \cup {v} ELSE {}
  /\ torn' = IF state' = state THEN torn ELSE \A phase \in Phase : Carries(evidence', phase)

NumericNext == \E v \in Values, t \in Clock .. Clock + MaxStep : ObserveNumber(v, t)

NumericSpec == NumericInit /\ [][NumericNext]_numericVars

-----------------------------------------------------------------------------
(* A quorum that both states can have in one window, N <= M \div 2, leaves  *)
(* samples of the previous state that can still carry it.                  *)
OldSamplesCarry == torn /\ 2 * RequiredSamples <= SampleWindow

(* The hysteresis of SPEC-EVENT-002: "left" is reported only if a value    *)
(* above LeaveAbove was read since the state last changed, and "entered"   *)
(* only after one below EnterBelow, so values that stay inside the band,   *)
(* or on one side of it, report no change.  A first "left", of a rule that *)
(* had no state yet, needs one that is not below EnterBelow.  The value    *)
(* that completes StableFor may be any: N of the last M decide, not the    *)
(* last.  The one exception are samples older than the last change, and    *)
(* only if at that change they carried the other state too, which no       *)
(* majority allows.                                                        *)
KeepsHysteresis ==
  events' # events =>
    LET report == events'[Len(events')].kind IN
      /\ report = "left" =>
           \/ \E v \in seen \cup {value'} : IF state = "unset" THEN v >= EnterBelow ELSE v > LeaveAbove
           \/ OldSamplesCarry
      /\ report = "entered" => (\E v \in seen \cup {value'} : v < EnterBelow) \/ OldSamplesCarry
=============================================================================
