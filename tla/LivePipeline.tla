---------------------------- MODULE LivePipeline ----------------------------
(***************************************************************************)
(* The live pipeline of one capture (LivePipeline and process_live_frame   *)
(* of the daemon).  For every analyzed frame it runs the anchors, which    *)
(* stay resident, resolves the scene and overlays, releases the detectors  *)
(* of layers that left, runs those of the layers that are active in the    *)
(* order of the profile, constructing them when they are first needed, and *)
(* announces a changed context in the event log.                           *)
(*                                                                         *)
(* A detector whose construction fails keeps its error for the life of the *)
(* pipeline.  The frame in which it fails is given up: nothing of it is    *)
(* published and the list of running detectors is not brought up to date.  *)
(***************************************************************************)
EXTENDS Recognition

CONSTANTS
  Frames,    \* what a frame can show: functions from Anchors to Sight
  Fragile,   \* contextual elements whose construction may fail
  NoRanking  \* live analysis prefers no scene

ASSUME PipelineAssumption ==
  /\ Frames \subseteq [Anchors -> Sight]
  /\ Fragile \subseteq Contextual
  /\ NoRanking \in Preferences
  /\ \A seen \in Frames : Scores(seen) \in [Layers -> Levels \cup {Unknown}]

VARIABLES
  constructed,  \* contextual elements that hold a constructed detector
  broken,       \* contextual elements with a kept construction error
  running,      \* contextual elements of the last completed frame
  published,    \* context of the last published frame
  logged,       \* context of the last context record in the event log
  missed,       \* the last record could not be appended
  lost          \* frames given up (history)

pipelineVars == <<constructed, broken, running, published, logged, missed, lost>>
liveVars == <<resolverVars, pipelineVars>>

Context == [scene : Scenes \cup {Nothing}, overlays : SUBSET Overlays]
NoContext == [scene |-> Nothing, overlays |-> {}]
ContextOf(resolved) == [scene |-> resolved.scene, overlays |-> resolved.overlays]

PipelineTypeOK ==
  /\ ResolverTypeOK
  /\ constructed \subseteq Contextual
  /\ broken \subseteq Fragile
  /\ constructed \cap broken = {}
  /\ running \subseteq Contextual
  /\ {published, logged} \subseteq Context
  /\ missed \in BOOLEAN
  /\ lost \in Nat

LiveInit ==
  /\ ResolverInit
  /\ constructed = {}
  /\ broken = {}
  /\ running = {}
  /\ published = NoContext
  /\ logged = NoContext
  /\ missed = FALSE
  /\ lost = 0

-----------------------------------------------------------------------------
(* Mutant: detectors are released only when the scene changes. *)
ReleasedWithScene(active) ==
  IF resolution'.scene = resolution.scene THEN {} ELSE running \ active

(* Only detectors of the last completed frame are candidates for release. *)
Released(active) == running \ active

Wanted(active) == active \cap Contextual

(* Detectors to construct, and those of them before the first that fails. *)
Missing(active) == (Wanted(active) \ (constructed \ Released(active))) \ broken
Before(element, elements) == {e \in elements : Place[e] < Place[element]}

(* Mutant: a changed overlay of the same number is not noticed. *)
ChangedByCount(current) ==
  \/ current.scene # published.scene
  \/ Cardinality(current.overlays) # Cardinality(published.overlays)

Changed(current) ==
  \/ current.scene # published.scene
  \/ Cardinality(current.overlays) # Cardinality(published.overlays)
  \/ \E o \in current.overlays : o \notin published.overlays

(* The record of a changed context is appended once: a failed append is    *)
(* reported as an output error, and the context counts as published.       *)
Announce(current) ==
  /\ published' = current
  /\ IF Changed(current)
     THEN \E written \in BOOLEAN :
            /\ logged' = IF written THEN current ELSE logged
            /\ missed' = ~written
     ELSE UNCHANGED <<logged, missed>>

-----------------------------------------------------------------------------
FailFor(element) == broken' = broken \cup {element}

(* A frame whose detectors can all be constructed. *)
Complete(active) ==
  /\ constructed' = (constructed \ Released(active)) \cup Missing(active)
  /\ running' = Wanted(active)
  /\ Announce(ContextOf(resolution'))
  /\ UNCHANGED <<broken, lost>>

(* A frame in which this element is the first whose construction fails:    *)
(* the detectors before it were constructed, those after it were not.      *)
GiveUp(active, element) ==
  /\ constructed' =
       (constructed \ Released(active)) \cup Before(element, Missing(active))
  /\ FailFor(element)
  /\ lost' = lost + 1
  /\ UNCHANGED <<running, published, logged, missed>>

(* One analyzed frame, by what its layers read in it. *)
Analyze(scores) ==
  /\ Resolve(scores, NoRanking)
  /\ \E active \in {ActiveElements(resolution')} :
       \/ Complete(active)
       \/ \E element \in Missing(active) \cap Fragile : GiveUp(active, element)

Readings == {Scores(seen) : seen \in Frames}

LiveNext == \E scores \in Readings : Analyze(scores)

LiveSpec == LiveInit /\ [][LiveNext]_liveVars

-----------------------------------------------------------------------------
(* A detector that cannot be constructed costs one frame and no more: the  *)
(* pipeline recovers from any number of them.                              *)
FailuresAreFinal == lost <= Cardinality(Fragile)

(* README "constructed when their layer becomes active, and released when  *)
(* it becomes inactive", as long as no frame was given up.                 *)
ResidentsAreActive == lost = 0 => constructed \subseteq ActiveElements(resolution)

(* The context records of the event log tell the same context as the       *)
(* published state, unless the last record could not be appended.          *)
LogTellsContext == ~missed => logged = published

(* Whatever was analysed before, each frame resolves to its clear leader   *)
(* and only overlays of one priority share a target (resolve,              *)
(* active_targets).                                                        *)
PipelineInvariant == PipelineTypeOK /\ ClearLeaderIsResolved /\ OnlyTiesShareTargets

(* Detectors follow the active layers: one that failed is not tried again  *)
(* and one that is resident belongs to a layer the frame left active       *)
(* (LazyProcessor, ResidentPipeline::process).                             *)
DetectorsFollowLayers == FailuresAreFinal /\ ResidentsAreActive
=============================================================================
