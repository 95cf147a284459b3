---------------------------- MODULE ImageHandoff ----------------------------
(***************************************************************************)
(* The one-shot analysis of a picture by one profile, and its decision     *)
(* whether the JSON answer suffices or a picture must be looked at         *)
(* (analyze_frame_with_profile of the daemon).                             *)
(*                                                                         *)
(* The caller's context becomes a ranking of the scenes it prefers, a      *)
(* resolver without history takes the picture as its only sample, the      *)
(* detectors of the resolved layers run, and the targets of these layers   *)
(* that are seen to be visible are offered.                                *)
(***************************************************************************)
EXTENDS Recognition, SequencesExt

CONSTANTS
  Contents,     \* layer -> its elements
  RequiredOf,   \* layer -> the elements of it that the answer requires
  Spots,        \* interaction targets
  Owner,        \* target -> its layer
  VisibleBy,    \* target -> the element its visibility condition tests, or Nothing
  Vital,        \* targets that are required for JSON
  Blocking,     \* overlays that block the targets of the scene
  Transitions,  \* scene -> its transition hints in their order
  Tolerance     \* lead over an overlay that makes it no competitor

ASSUME TargetAssumption ==
  /\ RequiredOf \in [Layers -> SUBSET Elements]
  /\ \A l \in Layers : RequiredOf[l] \subseteq Contents[l]
  /\ Owner \in [Spots -> Layers]
  /\ VisibleBy \in [Spots -> Elements \cup {Nothing}]
  /\ Vital \subseteq Spots /\ Blocking \subseteq Overlays
  /\ \A s \in Scenes : ToSet(Transitions[s]) = Hinted[s]
  /\ \A l \in Layers :
       Uses[l] = Contents[l] \cup ({VisibleBy[t] : t \in {u \in Spots : Owner[u] = l}} \ {Nothing})

VARIABLES
  seen,      \* what the picture showed of every element
  fits,      \* its layout is compatible with that of the profile
  offered,   \* targets of the answer
  verdict    \* reason of the handoff decision, or "none"

analysisVars == <<resolverVars, seen, fits, offered, verdict>>

Reasons ==
  {"layout_incompatible", "scene_ambiguous", "scene_unknown", "overlay_uncertain",
   "required_elements_unresolved", "json_complete"}

AnalysisTypeOK ==
  /\ ResolverTypeOK
  /\ seen \in [Elements -> Sight]
  /\ fits \in BOOLEAN
  /\ offered \subseteq Spots
  /\ verdict \in Reasons \cup {"none"}

AnalysisInit ==
  /\ ResolverInit
  /\ seen = [e \in Elements |-> "unknown"]
  /\ fits = FALSE
  /\ offered = {}
  /\ verdict = "none"

-----------------------------------------------------------------------------
(* Scenes the profile does not have are ignored. *)
Expected(context) == SelectSeq(context.expected, LAMBDA s : s \in Scenes)

(* The previous scene and those its hints name, unless the previous result *)
(* is of another profile, stale or malformed.                              *)
Previous(context) ==
  IF context.usable /\ context.previous \in Scenes
  THEN <<context.previous>> \o Transitions[context.previous]
  ELSE <<>>

(* The place of the first mention; a scene not mentioned comes last.       *)
Ranking(context) ==
  LET list == Expected(context) \o Previous(context)
  IN [s \in Scenes |->
        IF s \in ToSet(list) THEN SelectInSeq(list, LAMBDA t : t = s) ELSE Len(list) + 1]

-----------------------------------------------------------------------------
ActiveSpots(resolved) ==
  {t \in Spots :
     \/ Owner[t] \in resolved.overlays
     \/ Owner[t] = resolved.scene /\ resolved.overlays \cap Blocking = {}}

(* The detectors of the resolved layers, and those their targets need.     *)
Evaluated(resolved) ==
  Anchors \cup UNION {Contents[l] : l \in ActiveLayers(resolved)}
    \cup ({VisibleBy[t] : t \in ActiveSpots(resolved)} \ {Nothing})

(* Mutant: a target is visible unless it is seen not to be. *)
ShownUnlessMissed(t, reads) == VisibleBy[t] = Nothing \/ reads[VisibleBy[t]] # "miss"

Shown(t, reads) == VisibleBy[t] = Nothing \/ reads[VisibleBy[t]] \in {"match", "faint"}

Unresolved(t, reads) == VisibleBy[t] # Nothing /\ reads[VisibleBy[t]] = "unknown"

MissingElements(resolved, reads) ==
  {e \in UNION {RequiredOf[l] : l \in ActiveLayers(resolved)} : reads[e] = "unknown"}

MissingTargets(resolved, reads) ==
  {t \in ActiveSpots(resolved) \cap Vital : Unresolved(t, reads)}

(* An overlay that missed its threshold closely, while no exposed one      *)
(* leads it clearly.                                                       *)
OverlayUncertain(resolved, scores, histories) ==
  /\ resolved.overlays # {}
  /\ LET strongest == Max({Confidence(o, scores) : o \in resolved.overlays}) IN
     \E o \in Overlays \ EligibleIn(Overlays, histories) :
       /\ 10 * Confidence(o, scores) >= 8 * Minimum[o]
       /\ strongest - Confidence(o, scores) < Tolerance

Decision(fitting, resolved, uncertain, missing) ==
  CASE ~fitting -> "layout_incompatible"
    [] fitting /\ resolved.ambiguous -> "scene_ambiguous"
    [] fitting /\ ~resolved.ambiguous /\ Scenes # {} /\ resolved.scene = Nothing ->
         "scene_unknown"
    [] OTHER -> IF uncertain THEN "overlay_uncertain"
                ELSE IF missing THEN "required_elements_unresolved"
                ELSE "json_complete"

(* A detector that does not run reads nothing. *)
Reads(resolved, sights) ==
  [e \in Elements |-> IF e \in Evaluated(resolved) THEN sights[e] ELSE "unknown"]

(* The whole analysis of a picture: the resolver is the request's own.     *)
AnalyzePicture(sights, fitting, context) ==
  /\ Resolve(Scores(sights), Ranking(context))
  /\ seen' = Reads(resolution', sights)
  /\ fits' = fitting
  /\ offered' = {t \in ActiveSpots(resolution') : Shown(t, seen')}
  /\ verdict' = Decision(fitting, resolution',
                         OverlayUncertain(resolution', score', evidence'),
                         \/ MissingElements(resolution', seen') # {}
                         \/ MissingTargets(resolution', seen') # {})

(* A new request has a new resolver and no answer yet. *)
Forget ==
  /\ evidence' = [l \in Layers |-> <<>>]
  /\ activeScene' = Nothing
  /\ score' = [l \in Layers |-> Unknown]
  /\ resolution' = [scene |-> Nothing, ambiguous |-> FALSE, overlays |-> {}]
  /\ seen' = [e \in Elements |-> "unknown"]
  /\ fits' = FALSE
  /\ offered' = {}
  /\ verdict' = "none"

-----------------------------------------------------------------------------
(* "The handoff is JSON-only when the scene is unambiguous,                *)
(* layout-compatible, and every explicitly required observation/visibility *)
(* condition is valid" (protocol-v1.md): nothing an active layer requires  *)
(* is unseen, no eligible scene is within the margin of the resolved one,  *)
(* and a required target that is not offered is hidden or blocked.         *)
SufficientIsComplete ==
  verdict = "json_complete" =>
    /\ fits
    /\ Scenes # {} => resolution.scene # Nothing
    /\ \A s \in EligibleIn(Scenes, evidence) \ {resolution.scene} :
         Confidence(resolution.scene, score) - Confidence(s, score)
           >= Margin[resolution.scene]
    /\ \A l \in ActiveLayers(resolution) : \A e \in RequiredOf[l] : seen[e] # "unknown"
    /\ \A t \in Vital \ offered :
         Owner[t] \in ActiveLayers(resolution) =>
           \/ VisibleBy[t] # Nothing /\ seen[VisibleBy[t]] = "miss"
           \/ Owner[t] \in Scenes /\ resolution.overlays \cap Blocking # {}

(* SPEC-SCENE-004 "Unknown or ambiguous visibility shall not expose a      *)
(* supposedly safe point": an offered target is of a resolved layer, its   *)
(* condition was seen to match, and no exposed overlay blocks it.          *)
OfferedAreSeen ==
  \A t \in offered :
    /\ Owner[t] \in ActiveLayers(resolution)
    /\ VisibleBy[t] # Nothing => seen[VisibleBy[t]] \in {"match", "faint"}
    /\ Owner[t] \in Scenes => resolution.overlays \cap Blocking = {}

(* "an incorrect or stale caller hint cannot hide a valid scene" (comment  *)
(* of SceneResolutionHints): whatever the context prefers, a scene that    *)
(* leads by its margin is resolved, and a resolved scene is of greatest    *)
(* confidence.                                                             *)
ContextIsSoft ==
  verdict # "none" =>
    LET eligible == EligibleIn(Scenes, evidence) IN
      IF resolution.scene = Nothing
      THEN \A s \in eligible : ~Leads(s)
      ELSE \A s \in eligible : Confidence(s, score) <= Confidence(resolution.scene, score)

(* A client that trusts the handoff neither acts on a partial reading nor  *)
(* clicks on what the picture does not show (handoff_decision,             *)
(* active_interaction_targets).                                            *)
HandoffIsSound == SufficientIsComplete /\ OfferedAreSeen
=============================================================================
