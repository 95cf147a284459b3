---------------------------- MODULE SceneResolver ----------------------------
(***************************************************************************)
(* The scene resolver of the engine crate: every analyzed sample scores    *)
(* each enabled scene and overlay, the scores become bounded N-of-M        *)
(* evidence, the best eligible scene becomes the active one unless it is   *)
(* ambiguous, and the eligible overlays are exposed unless one of higher   *)
(* priority owns the same interaction target.                              *)
(*                                                                         *)
(* A score is what recognition_confidence returns: a level, or Unknown     *)
(* when the anchors of the layer could not be observed.                    *)
(***************************************************************************)
EXTENDS Integers, Sequences, FiniteSets

CONSTANTS
  Scenes,        \* enabled scenes
  Overlays,      \* enabled overlays
  Levels,        \* confidence levels
  Unknown,       \* no confidence: an anchor is unknown, missing or mistyped
  Nothing,       \* no scene
  Minimum,       \* layer -> least confidence that counts as a match
  Margin,        \* scene -> lead over the runner-up it needs
  Required,      \* layer -> N of N-of-M
  WindowSize,    \* layer -> M of N-of-M
  Priority,      \* layer -> configured priority
  NameRank,      \* layer -> place by name, then by profile: the sort is stable
  Hinted,        \* scene -> scenes its transition hints name
  Targets,       \* overlay -> names of its interaction targets
  Preferences    \* rankings of the scenes a caller may prefer, 0 first

Layers == Scenes \cup Overlays

ASSUME LayerAssumption ==
  /\ Scenes \cap Overlays = {}
  /\ IsFiniteSet(Layers)
  /\ Nothing \notin Layers
ASSUME LevelAssumption == Levels \subseteq Nat /\ Unknown \notin Levels
ASSUME ConfigurationAssumption ==
  /\ Minimum \in [Layers -> Nat]
  /\ Margin \in [Scenes -> Nat]
  /\ WindowSize \in [Layers -> Nat \ {0}]
  /\ Required \in [Layers -> Nat \ {0}]
  /\ \A l \in Layers : Required[l] <= WindowSize[l]
  /\ Priority \in [Layers -> Int]
  /\ NameRank \in [Layers -> Nat]
  /\ \A l, m \in Layers : NameRank[l] = NameRank[m] => l = m
  /\ Hinted \in [Scenes -> SUBSET Scenes]
  /\ DOMAIN Targets = Overlays
  /\ Preferences \subseteq [Scenes -> Nat]

VARIABLES
  evidence,     \* layer -> its last matches, newest at the end
  activeScene,  \* winner of the last unambiguous sample
  score,        \* layer -> score of the last sample
  resolution    \* what the last sample resolved to

resolverVars == <<evidence, activeScene, score, resolution>>

Resolution ==
  [scene : Scenes \cup {Nothing}, ambiguous : BOOLEAN, overlays : SUBSET Overlays]

ResolverTypeOK ==
  /\ evidence \in [Layers -> Seq(BOOLEAN)]
  /\ \A l \in Layers : Len(evidence[l]) <= WindowSize[l]
  /\ activeScene \in Scenes \cup {Nothing}
  /\ score \in [Layers -> Levels \cup {Unknown}]
  /\ resolution \in Resolution

ResolverInit ==
  /\ evidence = [l \in Layers |-> <<>>]
  /\ activeScene = Nothing
  /\ score = [l \in Layers |-> Unknown]
  /\ resolution = [scene |-> Nothing, ambiguous |-> FALSE, overlays |-> {}]

-----------------------------------------------------------------------------
Matched(l, scores) == scores[l] # Unknown /\ scores[l] >= Minimum[l]

(* Candidates report an unknown confidence as zero. *)
Confidence(l, scores) == IF scores[l] = Unknown THEN 0 ELSE scores[l]

PushBounded(history, match, capacity) ==
  IF Len(history) < capacity
  THEN Append(history, match)
  ELSE Append(Tail(history), match)

Sampled(scores) ==
  [l \in Layers |-> PushBounded(evidence[l], Matched(l, scores), WindowSize[l])]

Matches(history) == Cardinality({i \in DOMAIN history : history[i]})

EligibleIn(layers, histories) ==
  {l \in layers : Matches(histories[l]) >= Required[l]}

(* Mutant: the caller's preference comes before the confidence. *)
RanksByPreference(l, m, scores, preferred) ==
  \/ preferred[l] < preferred[m]
  \/ /\ preferred[l] = preferred[m]
     /\ \/ Confidence(l, scores) > Confidence(m, scores)
        \/ Confidence(l, scores) = Confidence(m, scores) /\ NameRank[l] < NameRank[m]

(* The order of candidates: confidence, the caller's preference, the       *)
(* transition hints of the active scene, priority, name.                   *)
RanksBefore(l, m, scores, preferred) ==
  LET hinted == IF activeScene = Nothing THEN {} ELSE Hinted[activeScene]
      keys == << <<Confidence(m, scores), Confidence(l, scores)>>,
                 <<preferred[l], preferred[m]>>,
                 <<IF l \in hinted THEN 0 ELSE 1, IF m \in hinted THEN 0 ELSE 1>>,
                 <<Priority[m], Priority[l]>>,
                 <<NameRank[l], NameRank[m]>> >>
  IN \E i \in DOMAIN keys :
       /\ keys[i][1] < keys[i][2]
       /\ \A j \in 1 .. i - 1 : keys[j][1] = keys[j][2]

FirstOf(scenes, scores, preferred) ==
  CHOOSE s \in scenes :
    \A o \in scenes \ {s} : RanksBefore(s, o, scores, preferred)

IsAmbiguous(eligible, scores, preferred) ==
  /\ Cardinality(eligible) > 1
  /\ LET best == FirstOf(eligible, scores, preferred)
         runnerUp == FirstOf(eligible \ {best}, scores, preferred)
     IN Confidence(best, scores) - Confidence(runnerUp, scores) < Margin[best]

(* The scene that was active stays so over an ambiguous sample. *)
ActiveAfter(ambiguous, winner) == IF ambiguous THEN activeScene ELSE winner

(* Mutant: only overlays with the same targets compete. *)
ExposedUnlessSame(eligible) ==
  {l \in eligible :
     \A o \in eligible : Targets[o] = Targets[l] => Priority[o] <= Priority[l]}

(* An overlay yields to an eligible one of higher priority that owns one   *)
(* of its interaction targets.                                             *)
Exposed(eligible) ==
  {l \in eligible :
     \A o \in eligible : Targets[o] \cap Targets[l] # {} => Priority[o] <= Priority[l]}

-----------------------------------------------------------------------------
(* One analyzed sample; preferred ranks the scenes the caller prefers      *)
(* (resolve_with_hints), and is constant in live analysis (resolve).       *)
Resolve(scores, preferred) ==
  LET sampled == Sampled(scores)
      eligible == EligibleIn(Scenes, sampled)
      ambiguous == IsAmbiguous(eligible, scores, preferred)
      winner == IF eligible = {} THEN Nothing ELSE FirstOf(eligible, scores, preferred)
      active == ActiveAfter(ambiguous, winner)
  IN /\ evidence' = sampled
     /\ score' = scores
     /\ activeScene' = active
     /\ resolution' = [scene |-> IF active \in eligible THEN active ELSE Nothing,
                       ambiguous |-> ambiguous,
                       overlays |-> Exposed(EligibleIn(Overlays, sampled))]

ResolverNext ==
  \E scores \in [Layers -> Levels \cup {Unknown}], preferred \in Preferences :
    Resolve(scores, preferred)

-----------------------------------------------------------------------------
EligibleScenes == EligibleIn(Scenes, evidence)

(* Some scene leads every other eligible one by its own margin. *)
Leads(s) ==
  /\ s \in EligibleScenes
  /\ \A o \in EligibleScenes \ {s} :
       /\ Confidence(s, score) > Confidence(o, score)
       /\ Confidence(s, score) - Confidence(o, score) >= Margin[s]

(* SPEC-SCENE-002: transition hints, caller preferences and the history of *)
(* the active scene never prohibit recovery: a scene that clearly leads is *)
(* the resolved one, whatever was active before.                           *)
ClearLeaderIsResolved ==
  \A s \in Scenes : Leads(s) => resolution.scene = s /\ ~resolution.ambiguous

(* "do not expose two owners for one click target", the comment of the     *)
(* overlay filter, as far as the filter goes: overlays exposed with a      *)
(* target in common have the same priority, whatever their windows hold.   *)
(* Validation admits equal priorities, and then both are exposed.          *)
OnlyTiesShareTargets ==
  \A l, m \in resolution.overlays :
    Targets[l] \cap Targets[m] # {} => Priority[l] = Priority[m]
=============================================================================
