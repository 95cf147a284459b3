---------------------------- MODULE BundleRouting ----------------------------
(***************************************************************************)
(* The one-shot analysis by a bundle (analyze_image_with_bundle of the     *)
(* daemon): the router profile analyzes the picture, its scene and         *)
(* overlays select a member of the manifest, and the member analyzes the   *)
(* picture, read anew, on its own.  The manifest pins the revision of      *)
(* every profile, and the store may change between the steps.              *)
(*                                                                         *)
(* The layers of ImageHandoff are those of the router.  What a member that *)
(* is not the router sees is its own affair: only its route is modelled.   *)
(***************************************************************************)
EXTENDS ImageHandoff

CONSTANTS
  Profiles,     \* stored profiles
  Router,       \* the one the manifest routes by
  Manifests,    \* member lists of the manifests (ProfileBundle::validate)
  RouterPin,    \* revision the manifests pin the router at
  MaxRevision,  \* bound on the revisions
  Contexts,     \* contexts callers send
  Pictures      \* what a picture can show of the router's elements

Members ==
  [profile : Profiles, pin : Nat, scenes : SUBSET Scenes, overlays : SUBSET Overlays,
   priority : Int, fallback : BOOLEAN]

(* What validation accepts: every profile once, and at most one fallback,  *)
(* which is the member that names no scene and no overlay.                 *)
WellFormed(list) ==
  /\ list # <<>> /\ Range(list) \subseteq Members
  /\ \A i, j \in DOMAIN list :
       list[i].profile = list[j].profile \/ (list[i].fallback /\ list[j].fallback) => i = j
  /\ \A m \in Range(list) : m.fallback <=> m.scenes \cup m.overlays = {}

ASSUME RoutingAssumption ==
  /\ Router \in Profiles
  /\ {RouterPin, MaxRevision} \subseteq Nat
  /\ Pictures \subseteq [Elements -> Sight]
  /\ \A sights \in Pictures : Scores(sights) \in [Layers -> Levels \cup {Unknown}]
  /\ \A context \in Contexts : Ranking(context) \in Preferences
ASSUME ManifestAssumption == \A list \in Manifests : WellFormed(list)

VARIABLES
  revision,  \* profile -> revision in the store
  foreign,   \* profiles of another game or of other reference dimensions
  stage,     \* of the request
  members,   \* its manifest
  route,     \* selected member, 0: none
  analyzed   \* revision of the profile whose analysis is the answer, or -1

routingVars == <<revision, foreign, stage, members, route, analyzed>>
vars == <<analysisVars, routingVars>>

Stages == {"idle", "routing", "routed", "member", "answered", "refused"}

(* Types; and the resolver of a request saw its picture and no other.      *)
TypeOK ==
  /\ AnalysisTypeOK
  /\ \A l \in Layers : Len(evidence[l]) <= 1
  /\ revision \in [Profiles -> 1 .. MaxRevision]
  /\ foreign \subseteq Profiles
  /\ stage \in Stages
  /\ members \in Manifests \cup {<<>>}
  /\ route \in {0} \cup DOMAIN members
  /\ analyzed \in -1 .. MaxRevision

Init ==
  /\ AnalysisInit
  /\ revision = [p \in Profiles |-> 1]
  /\ foreign \in SUBSET Profiles
  /\ stage = "idle"
  /\ members = <<>>
  /\ route = 0
  /\ analyzed = -1

-----------------------------------------------------------------------------
RouteMatches(member, scene, overlays) ==
  /\ member.scenes = {} \/ scene \in member.scenes
  /\ member.overlays = {} \/ member.overlays \cap overlays # {}

Specificity(member) ==
  Cardinality({k \in {"scenes", "overlays"} : member[k] # {}})

(* The index of a later member is never the smaller one. *)
Replaces(member, best) ==
  \/ member.priority > best.priority
  \/ member.priority = best.priority /\ Specificity(member) > Specificity(best)

(* The scan of the manifest; 0 when nothing was selected. *)
Selected(list, scene, overlays) ==
  LET better(best, i) ==
        IF list[i].fallback \/ ~RouteMatches(list[i], scene, overlays) THEN best
        ELSE IF best = 0 THEN i
        ELSE IF Replaces(list[i], list[best]) THEN i ELSE best
      found == FoldLeft(better, 0, [i \in DOMAIN list |-> i])
  IN IF found # 0 THEN found
     ELSE SelectInSeq(list, LAMBDA m : m.fallback)

-----------------------------------------------------------------------------
(* The manifest and the router are loaded: a changed router, or one of     *)
(* another game, is refused.                                               *)
Begin(list) ==
  /\ stage \in {"idle", "answered", "refused"}
  /\ Forget
  /\ members' = list
  /\ stage' = IF revision[Router] = RouterPin /\ Router \notin foreign
              THEN "routing" ELSE "refused"
  /\ route' = 0
  /\ analyzed' = -1
  /\ UNCHANGED <<revision, foreign>>

(* The router analyzes the picture, with the revision that was loaded.     *)
Route(sights, fitting, context) ==
  /\ stage = "routing"
  /\ AnalyzePicture(sights, fitting, context)
  /\ stage' = "routed"
  /\ analyzed' = RouterPin
  /\ UNCHANGED <<revision, foreign, members, route>>

(* Mutant: the pin of a member is not compared when it is the router. *)
LoadsRouterAsIs(member) ==
  \/ member.profile = Router
  \/ revision[member.profile] = member.pin /\ member.profile \notin foreign

(* The selected profile must be of the pinned revision, game and layout.   *)
(* When it is the router, the loaded copy is compared instead.             *)
Loads(member) ==
  IF member.profile = Router THEN member.pin = RouterPin
  ELSE revision[member.profile] = member.pin /\ member.profile \notin foreign

(* The router's own answer stands when it selects nothing or itself.       *)
Select ==
  /\ stage = "routed"
  /\ route' = Selected(members, resolution.scene, resolution.overlays)
  /\ stage' = IF route' = 0 THEN "answered"
              ELSE IF ~Loads(members[route']) THEN "refused"
              ELSE IF members[route'].profile = Router THEN "answered"
              ELSE "member"
  /\ analyzed' = IF stage' = "member" THEN revision[members[route'].profile] ELSE analyzed
  /\ UNCHANGED <<analysisVars, revision, foreign, members>>

(* The member's analysis ends. *)
Answer ==
  /\ stage = "member"
  /\ stage' = "answered"
  /\ UNCHANGED <<analysisVars, revision, foreign, members, route, analyzed>>

(* Time runs out, the picture cannot be read, or a detector fails.         *)
Refuse ==
  /\ stage \in {"routing", "routed", "member"}
  /\ stage' = "refused"
  /\ UNCHANGED <<analysisVars, revision, foreign, members, route, analyzed>>

(* Another client saves a profile. *)
SaveProfile(p) ==
  /\ revision[p] < MaxRevision
  /\ revision' = [revision EXCEPT ![p] = @ + 1]
  /\ UNCHANGED <<analysisVars, foreign, stage, members, route, analyzed>>

Next ==
  \/ \E list \in Manifests : Begin(list)
  \/ \E sights \in Pictures, fitting \in BOOLEAN, context \in Contexts :
       Route(sights, fitting, context)
  \/ Select
  \/ Answer
  \/ Refuse
  \/ \E p \in Profiles : SaveProfile(p)

Spec == Init /\ [][Next]_vars

-----------------------------------------------------------------------------
(* "the highest priority matching member wins, then the route with the     *)
(* most constrained scene/overlay dimensions, then manifest order.  A      *)
(* fallback member is used only when no constrained member matches"        *)
(* (protocol-v1.md).                                                       *)
RouteIsBest ==
  stage \in {"member", "answered"} =>
    LET matching == {i \in DOMAIN members :
          ~members[i].fallback /\ RouteMatches(members[i], resolution.scene, resolution.overlays)}
        key(i) == <<-members[i].priority, -Specificity(members[i]), i>>
        before(i, j) == \E k \in 1 .. 3 :
          /\ key(i)[k] < key(j)[k]
          /\ \A m \in 1 .. k - 1 : key(i)[m] = key(j)[m]
    IN IF matching # {}
       THEN route \in matching /\ \A i \in matching \ {route} : before(route, i)
       ELSE IF \E i \in DOMAIN members : members[i].fallback
       THEN route # 0 /\ members[route].fallback
       ELSE route = 0

(* The answer is that of the pinned revision, whatever was saved meanwhile *)
(* and also when the router is a member of its own bundle; a profile of    *)
(* another game or layout answers nothing.                                 *)
AnswersAreOfPins ==
  stage \in {"member", "answered"} =>
    IF route = 0 THEN analyzed = RouterPin
    ELSE /\ analyzed = members[route].pin
         /\ members[route].profile \notin foreign

(* The member that answers is the best match of the router's reading and   *)
(* is analysed at the revision its bundle pins (analyze_image_bundle).     *)
RoutingInvariant == TypeOK /\ RouteIsBest /\ AnswersAreOfPins
=============================================================================
