--------------------------- MODULE TransitionGate ---------------------------
(***************************************************************************)
(* The debouncing shared by the temporal rules of the engine crate         *)
(* (TemporalRule::observe_match and the tail of NumericRule::observe):     *)
(* N-of-M evidence, stable duration, cooldown, silent initial              *)
(* establishment and rate-limited updates.  The two Rust functions repeat  *)
(* the same sequence of tests; here it is one set of actions, taken with   *)
(* the sample the rule derived from an observation and the observation's   *)
(* monotonic time stamp.                                                   *)
(*                                                                         *)
(* An Option<bool> of the source is one of "unset", "active", "inactive"   *)
(* (None, Some(true), Some(false)).                                        *)
(***************************************************************************)
EXTENDS Naturals, Sequences, FiniteSets

CONSTANTS
  RequiredSamples,  \* N of N-of-M
  SampleWindow,     \* M of N-of-M
  StableFor,        \* how long the evidence must last before a change
  Cooldown,         \* least distance of two reported changes
  EmitInitial,      \* report the first establishment as a transition
  UpdateInterval,   \* least distance of "updated" reports; 0 is the source's None
  None,             \* an instant that has not happened yet
  MaxSamples,       \* bound: observations consumed in a behaviour
  MaxStep           \* bound: distance of two consecutive observations

ASSUME SamplingAssumption ==
  /\ SampleWindow \in Nat \ {0}
  /\ RequiredSamples \in 1 .. SampleWindow
ASSUME TimingAssumption ==
  /\ StableFor \in Nat
  /\ Cooldown \in Nat
  /\ UpdateInterval \in Nat
  /\ EmitInitial \in BOOLEAN
ASSUME NoneAssumption == None \notin Nat
ASSUME BoundsAssumption == MaxSamples \in Nat /\ MaxStep \in Nat

VARIABLES
  state,           \* established state of the rule
  evidence,        \* the last samples, newest at the end
  candidate,       \* state waiting for StableFor, and since when
  lastTransition,  \* instant of the last reported change
  lastUpdate,      \* instant of the last change or update
  events,          \* everything reported so far (history)
  journal          \* every sample consumed so far (history)

ruleVars == <<state, evidence, candidate, lastTransition, lastUpdate>>
gateVars == <<ruleVars, events, journal>>

Phase == {"active", "inactive"}
Kind == {"entered", "left", "updated"}
Instant == Nat \cup {None}
NoCandidate == [target |-> "unset", since |-> 0]

GateTypeOK ==
  /\ state \in Phase \cup {"unset"}
  /\ evidence \in Seq(Phase)
  /\ Len(evidence) <= SampleWindow
  /\ candidate \in [target : Phase \cup {"unset"}, since : Nat]
  /\ lastTransition \in Instant
  /\ lastUpdate \in Instant
  /\ events \in Seq([kind : Kind, at : Nat])
  /\ journal \in Seq([sample : Phase, at : Nat])

GateInit ==
  /\ state = "unset"
  /\ evidence = <<>>
  /\ candidate = NoCandidate
  /\ lastTransition = None
  /\ lastUpdate = None
  /\ events = <<>>
  /\ journal = <<>>

-----------------------------------------------------------------------------
(* Instant of the last observation; time stamps of frames never decrease   *)
(* within one capture or replay session, so the next one is not before it. *)
Clock == IF journal = <<>> THEN 0 ELSE journal[Len(journal)].at

(* Duration::saturating_sub *)
Elapsed(t, since) == IF t >= since THEN t - since ELSE 0

(* The evidence after one more sample. *)
Window(sample) ==
  IF Len(evidence) < SampleWindow
  THEN Append(evidence, sample)
  ELSE Append(Tail(evidence), sample)

Votes(window, phase) == Cardinality({i \in DOMAIN window : window[i] = phase})

Carries(window, phase) == Votes(window, phase) >= RequiredSamples

(* The state the evidence asks for: the other state wins over the present  *)
(* one, and "active" over "inactive" while nothing is established.         *)
Desired(window) ==
  IF Carries(window, "active") /\ state # "active" THEN "active"
  ELSE IF Carries(window, "inactive") /\ state # "inactive" THEN "inactive"
  ELSE state

(* Since when the evidence has asked for this state without interruption. *)
Since(wanted, t) == IF candidate.target = wanted THEN candidate.since ELSE t

CoolingDown(t) ==
  /\ state # "unset"
  /\ lastTransition # None
  /\ Elapsed(t, lastTransition) < Cooldown

Ripe(wanted, t) == Elapsed(t, Since(wanted, t)) >= StableFor /\ ~CoolingDown(t)

(* Mutant: updates of an inactive rule. *)
UpdateDueAnyway(t) ==
  /\ state # "unset"
  /\ UpdateInterval # 0
  /\ lastUpdate # None
  /\ Elapsed(t, lastUpdate) >= UpdateInterval

UpdateDue(t) ==
  /\ state = "active"
  /\ UpdateInterval # 0
  /\ lastUpdate # None
  /\ Elapsed(t, lastUpdate) >= UpdateInterval

Report(kind, t) == events' = Append(events, [kind |-> kind, at |-> t])

-----------------------------------------------------------------------------
(* Mutant: a pending candidate survives evidence against it. *)
HoldCandidate(window, t) ==
  /\ Desired(window) = state
  /\ ~UpdateDue(t)
  /\ UNCHANGED <<state, candidate, lastTransition, lastUpdate, events>>

(* The evidence agrees with the established state: a pending candidate is  *)
(* forgotten, and nothing is reported.                                     *)
Hold(window, t) ==
  /\ Desired(window) = state
  /\ ~UpdateDue(t)
  /\ candidate' = NoCandidate
  /\ UNCHANGED <<state, lastTransition, lastUpdate, events>>

(* The same, with a rate-limited report that the state is still active. *)
Refresh(window, t) ==
  /\ Desired(window) = state
  /\ UpdateDue(t)
  /\ candidate' = NoCandidate
  /\ lastUpdate' = t
  /\ Report("updated", t)
  /\ UNCHANGED <<state, lastTransition>>

(* The evidence asks for another state, but not for long enough yet, or a  *)
(* change was reported too recently.                                       *)
Defer(window, t) ==
  /\ Desired(window) # state
  /\ ~Ripe(Desired(window), t)
  /\ candidate' = [target |-> Desired(window), since |-> Since(Desired(window), t)]
  /\ UNCHANGED <<state, lastTransition, lastUpdate, events>>

(* First establishment, not reported unless it is configured. *)
Establish(window, t) ==
  /\ Desired(window) # state
  /\ Ripe(Desired(window), t)
  /\ state = "unset"
  /\ ~EmitInitial
  /\ state' = Desired(window)
  /\ candidate' = NoCandidate
  /\ lastUpdate' = t
  /\ UNCHANGED <<lastTransition, events>>

(* A reported change of state. *)
Flip(window, t) ==
  /\ Desired(window) # state
  /\ Ripe(Desired(window), t)
  /\ state # "unset" \/ EmitInitial
  /\ state' = Desired(window)
  /\ candidate' = NoCandidate
  /\ lastUpdate' = t
  /\ lastTransition' = t
  /\ Report(IF Desired(window) = "active" THEN "entered" ELSE "left", t)

(* observe_match: at most one transition for a sample. *)
Sampled(sample, t) ==
  /\ evidence' = Window(sample)
  /\ journal' = Append(journal, [sample |-> sample, at |-> t])
  /\ \/ Hold(Window(sample), t)
     \/ Refresh(Window(sample), t)
     \/ Defer(Window(sample), t)
     \/ Establish(Window(sample), t)
     \/ Flip(Window(sample), t)

-----------------------------------------------------------------------------
(* Entered and left alternate, and updates come only while active: what a  *)
(* consumer of the event stream reconstructs from it is never ambiguous.   *)
(* Guards TemporalRule::observe_match and NumericRule::observe.            *)
EventsAlternate ==
  \A i \in 1 .. Len(events) - 1 :
    /\ events[i + 1].kind = "entered" => events[i].kind = "left"
    /\ events[i + 1].kind \in {"left", "updated"} => events[i].kind # "left"

(* Two reported changes are at least the cooldown apart, whatever updates  *)
(* are reported between them (SPEC-EVENT-002, cooldown).                   *)
CooldownKept ==
  \A i, j \in 1 .. Len(events) :
    i < j /\ events[i].kind # "updated" /\ events[j].kind # "updated"
      => events[j].at >= events[i].at + Cooldown

(* An update comes at least UpdateInterval after any report before it: the *)
(* rate limit of SPEC-EVENT-003, which a transition restarts.              *)
UpdatesRateLimited ==
  \A i, j \in 1 .. Len(events) :
    i < j /\ events[j].kind = "updated"
      => events[j].at >= events[i].at + UpdateInterval

(* The samples of the journal the evidence window held after sample k. *)
EvidenceAt(k) ==
  {i \in 1 .. k : i + SampleWindow > k}
VotesAt(k, phase) == Cardinality({i \in EvidenceAt(k) : journal'[i].sample = phase})

(* A state is established only if, at every sample of a stretch that ends  *)
(* now and lasted StableFor, N of the last M samples spoke for it: recomputed *)
(* from the whole history instead of the incremental window and candidate. *)
ChangesAreSupported ==
  [][state' # state =>
       LET n == Len(journal') IN
         \E first \in 1 .. n :
           /\ journal'[n].at >= journal'[first].at + StableFor
           /\ \A k \in first .. n : VotesAt(k, state') >= RequiredSamples]_gateVars
=============================================================================
