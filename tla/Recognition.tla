----------------------------- MODULE Recognition -----------------------------
(***************************************************************************)
(* How a profile's layers read a picture: the recognition expression of a  *)
(* layer weighs what its anchors see into the score the resolver ranks     *)
(* (recognition_confidence of the engine), and the resolution decides      *)
(* which detectors run (the two stages of SPEC-SCENE-003).                 *)
(*                                                                         *)
(* What a condition sees of its anchor is "match", "faint" (a match of     *)
(* half the confidence), "miss", or "unknown": no valid observation, or    *)
(* one of another type.                                                    *)
(***************************************************************************)
EXTENDS SceneResolver, FiniteSetsExt

CONSTANTS
  Anchors,     \* elements of recognition expressions, and global elements
  Contextual,  \* every other element
  Place,       \* contextual element -> its place in the profile
  Weight,      \* layer -> anchor -> weight of its condition; 0: none
  Scale,       \* sum of the weights of every layer
  RequireAll,  \* layer -> an "all" expression; otherwise "any"
  Uses         \* layer -> its elements, required ones and those its targets need

Elements == Anchors \cup Contextual
Sight == {"match", "faint", "miss", "unknown"}

ASSUME ElementAssumption ==
  /\ Anchors \cap Contextual = {}
  /\ IsFiniteSet(Elements)
  /\ Place \in [Contextual -> Nat]
  /\ \A e, f \in Contextual : Place[e] = Place[f] => e = f
  /\ Uses \in [Layers -> SUBSET Elements]
ASSUME ExpressionAssumption ==
  /\ Weight \in [Layers -> [Anchors -> Nat]]
  /\ RequireAll \in [Layers -> BOOLEAN]
  /\ \A l \in Layers : MapThenSumSet(LAMBDA a : Weight[l][a], Anchors) \in {0, Scale}
  /\ Scale \in Nat

Conditions(l) == {a \in Anchors : Weight[l][a] > 0}

(* Confidence of a match, in halves. *)
Halves(sight) == CASE sight = "match" -> 2 [] sight = "faint" -> 1 [] OTHER -> 0

(* Unknown anchors make a conjunction unknown; a disjunction counts the    *)
(* anchors it knows.  A conjunction of nothing is certain.                 *)
Score(l, seen) ==
  IF \/ Conditions(l) = {} /\ ~RequireAll[l]
     \/ RequireAll[l] /\ \E a \in Conditions(l) : seen[a] = "unknown"
  THEN Unknown
  ELSE IF Conditions(l) = {} THEN 2 * Scale
  ELSE MapThenSumSet(LAMBDA a : Halves(seen[a]) * Weight[l][a], Conditions(l))

Scores(seen) == [l \in Layers |-> Score(l, seen)]

(* The layers a resolution names, and the elements they need. *)
ActiveLayers(resolved) ==
  (IF resolved.scene = Nothing THEN {} ELSE {resolved.scene}) \cup resolved.overlays

ActiveElements(resolved) == Anchors \cup UNION {Uses[l] : l \in ActiveLayers(resolved)}
=============================================================================
