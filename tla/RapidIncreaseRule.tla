-------------------------- MODULE RapidIncreaseRule --------------------------
(***************************************************************************)
(* The rule of the live pipeline that reports a quick rise of a number     *)
(* (RapidIncreaseRule of the daemon): it keeps the readings of a sliding   *)
(* window of time and compares each new one with the least of them.  It    *)
(* reports bursts only; nothing is established and nothing left again.     *)
(* Observations without a number, or of too little confidence, leave it    *)
(* untouched.                                                              *)
(***************************************************************************)
EXTENDS TransitionGate

CONSTANTS
  MinimumDelta,  \* least rise that is reported ...
  Within,        \* ... over at most this time
  Levels         \* numbers a detector reads

ASSUME RapidAssumption ==
  /\ MinimumDelta \in Nat \ {0}
  /\ Within \in Nat \ {0}
  /\ Levels \subseteq Nat

VARIABLES
  history,   \* the readings the rule remembers
  lastEmit,  \* instant of the last report
  levels,    \* every reading so far (history)
  bursts     \* which of them were reported (history)

rapidVars == <<history, lastEmit, levels, bursts>>

RapidTypeOK ==
  /\ history \subseteq [value : Levels, at : Nat]
  /\ lastEmit \in Instant
  /\ levels \in Seq([value : Levels, at : Nat])
  /\ bursts \subseteq DOMAIN levels

RapidInit ==
  /\ history = {}
  /\ lastEmit = None
  /\ levels = <<>>
  /\ bursts = {}

RapidClock == IF levels = <<>> THEN 0 ELSE levels[Len(levels)].at

(* Mutant: readings at the far edge of the window are forgotten. *)
RecentOpen(t) == {r \in history : r.at > Elapsed(t, Within) \/ r.at = t}

(* What is left of the window at an instant: time stamps never decrease,   *)
(* so dropping old readings from the front drops all of them.              *)
Recent(t) == {r \in history : r.at >= Elapsed(t, Within)}

(* The reading is MinimumDelta above the least of them. *)
Rises(v, t) == \E r \in Recent(t) : v >= r.value + MinimumDelta

EmittedRecently(t) == lastEmit # None /\ Elapsed(t, lastEmit) < Cooldown

ObserveLevel(v, t) ==
  /\ Len(levels) < MaxSamples
  /\ levels' = Append(levels, [value |-> v, at |-> t])
  /\ history' = Recent(t) \cup {[value |-> v, at |-> t]}
  /\ IF Rises(v, t) /\ ~EmittedRecently(t)
     THEN lastEmit' = t /\ bursts' = bursts \cup {Len(levels) + 1}
     ELSE UNCHANGED <<lastEmit, bursts>>

-----------------------------------------------------------------------------
(* A burst is reported for exactly the readings that are MinimumDelta or   *)
(* more above some reading of the last Within, unless a burst was reported *)
(* less than the cooldown before: recomputed from every reading ever made  *)
(* instead of the sliding window (RapidIncreaseRule::observe).             *)
BurstsAreRises ==
  \A k \in DOMAIN levels :
    k \in bursts <=>
      /\ \E i \in 1 .. k - 1 : /\ levels[k].at - levels[i].at <= Within
                               /\ levels[k].value >= levels[i].value + MinimumDelta
      /\ \A i \in bursts : i < k => levels[k].at - levels[i].at >= Cooldown
=============================================================================
