-------------------------- MODULE ProfileDocument ---------------------------
(***************************************************************************)
(* The profile document and the operations of the editor on its draft:     *)
(* detector elements, the observations derived from them, aliases, event   *)
(* rules, and the scenes and overlays (layers) with their recognition      *)
(* anchors, contextual elements, required elements and interaction         *)
(* targets; validation, the capacity report that the editor consults before*)
(* an action that adds something, and the copy of a whole profile.         *)
(*                                                                         *)
(* Every id comes from one counter; elements and derived observations are  *)
(* appended, so that an earlier one has a smaller id.  Names, formats,     *)
(* geometry, detector settings and predicates are left out; an input, a    *)
(* condition and a recognition anchor are the element they read.  The      *)
(* editor changes neither aliases, transition hints nor the visibility of  *)
(* targets, and global elements only when one is duplicated or removed:    *)
(* they come with the documents of the initial states.                     *)
(***************************************************************************)
EXTENDS Naturals, FiniteSets, FiniteSetsExt, Sequences, SequencesExt

CONSTANTS
  Authored,          \* documents a profile may start from, with ids below FirstFresh
  FirstFresh,
  MaxElements,       \* MAXIMUM_ELEMENTS
  MaxLayers,         \* MAXIMUM_SCENES and MAXIMUM_OVERLAYS
  MaxMembers,        \* MAXIMUM_LAYER_ELEMENTS
  MaxAnchors,        \* MAXIMUM_RECOGNITION_CONDITIONS
  MaxLayerTargets,   \* MAXIMUM_INTERACTION_TARGETS
  MaxTargets,        \* MAXIMUM_TOTAL_INTERACTION_TARGETS
  MaxConditions,     \* conditions of one composed rule
  MaxInputs,         \* inputs of one derived observation
  MaxEdits           \* bound: operations of the user

ASSUME DocumentAssumption ==
  \A limit \in {FirstFresh, MaxElements, MaxLayers, MaxMembers, MaxAnchors, MaxLayerTargets,
                MaxTargets, MaxConditions, MaxInputs, MaxEdits} : limit \in Nat

VARIABLES
  draft,      \* the document in the editor
  committed,  \* its last committed revision
  profile,    \* counts the profiles: the editor is on the newest copy
  fresh,      \* the next id
  edits       \* operations so far

vars == <<draft, committed, profile, fresh, edits>>

-----------------------------------------------------------------------------
(* Reading a document.                                                     *)
Ids(things) == {t.id : t \in things}
Observations(d) == d.elements \cup Ids(d.derived)
Scenes(d) == {l \in d.layers : l.scene}
Overlays(d) == d.layers \ Scenes(d)
Anchors(l) == Range(l.anchors)
TargetsOf(d) == UNION {l.targets : l \in d.layers}
(* What a rule reads. *)
Subjects(r) == {r.on} \cup Range(r.conditions)
(* The element lists offer their elements in order; the first is the oldest. *)
First(elements) == CHOOSE e \in elements : \A f \in elements : e <= f

(* A target is shown by its visibility, or always. *)
Always == {0}
Visibilities(l) == UNION {t.visibility \ Always : t \in l.targets}

-----------------------------------------------------------------------------
(* Validation, at every commit and load (Profile::validate).               *)
ValidDerived(d) ==
  \A v \in d.derived :
    /\ Len(v.inputs) \in 1 .. MaxInputs
    /\ Range(v.inputs) \subseteq d.elements \cup {w \in Ids(d.derived) : w < v.id}

ValidRules(d) ==
  \A r \in d.rules :
    /\ Subjects(r) \subseteq Observations(d)
    /\ r.composed => Len(r.conditions) \in 1 .. MaxConditions

ValidRecognition(d, l) ==
  /\ Len(l.anchors) <= MaxAnchors
  /\ Cardinality(Anchors(l)) = Len(l.anchors)
  /\ Anchors(l) \subseteq d.enabled

ValidContents(d, l) ==
  /\ Cardinality(l.members) <= MaxMembers
  /\ l.members \subseteq Observations(d)
  /\ l.required \subseteq l.members \cap d.enabled
  /\ Cardinality(l.targets) <= MaxLayerTargets
  /\ \A t \in l.targets : Cardinality(t.visibility) <= MaxAnchors
  /\ Visibilities(l) \subseteq d.enabled

ValidLayer(d, l) ==
  /\ ValidRecognition(d, l)
  /\ ValidContents(d, l)
  /\ l.hints \subseteq Ids(Scenes(d)) \ {l.id}

Valid(d) ==
  /\ Cardinality(d.elements) <= MaxElements
  /\ ValidDerived(d)
  /\ d.aliases \subseteq d.elements
  /\ ValidRules(d)
  /\ Cardinality(Scenes(d)) <= MaxLayers
  /\ Cardinality(Overlays(d)) <= MaxLayers
  /\ Cardinality(d.globals) <= MaxMembers
  /\ d.globals \subseteq Observations(d)
  /\ \A l \in d.layers : ValidLayer(d, l)
  /\ Cardinality(TargetsOf(d)) <= MaxTargets

-----------------------------------------------------------------------------
(* The capacity report: analyze_capacity and what the editor takes from it.*)

(* Each observation with all that its composition reads. *)
Closure(d, ids) ==
  LET grow[n \in 0 .. Cardinality(d.derived)] ==
        IF n = 0 THEN ids
        ELSE grow[n - 1] \cup UNION {Range(v.inputs) : v \in {w \in d.derived : w.id \in grow[n - 1]}}
  IN grow[Cardinality(d.derived)]

(* What is read whatever the scene: derived observations and rules are     *)
(* always enabled here.                                                    *)
AlwaysRead(d) == d.globals \cup Ids(d.derived) \cup UNION {Subjects(r) : r \in d.rules}
ReadBy(l) == l.members \cup l.required \cup Anchors(l) \cup Visibilities(l)
ReadWith(d, layers) == Closure(d, AlwaysRead(d) \cup UNION {ReadBy(l) : l \in layers})

Unreachable(d) == d.elements \ ReadWith(d, d.layers)
DisabledOnly(d) == d.elements \ (Unreachable(d) \cup ReadWith(d, {l \in d.layers : l.enabled}))
(* The detectors whose cost the report gives for a scene. *)
CostedIn(d, scene) == d.elements \cap ReadWith(d, {scene})

(* The counts of the report, those of the fullest layer where each has its *)
(* own.                                                                    *)
Largest(counts) == Max({0} \cup counts)
Usage(d) ==
  [elements |-> Cardinality(d.elements),
   scenes |-> Cardinality(Scenes(d)),
   overlays |-> Cardinality(Overlays(d)),
   targets |-> Cardinality(TargetsOf(d)),
   members |-> Largest({Cardinality(l.members) : l \in d.layers}),
   layerTargets |-> Largest({Cardinality(l.targets) : l \in d.layers}),
   anchors |-> Largest({Len(l.anchors) : l \in d.layers})]
Limits ==
  [elements |-> MaxElements, scenes |-> MaxLayers, overlays |-> MaxLayers,
   targets |-> MaxTargets, members |-> MaxMembers, layerTargets |-> MaxLayerTargets,
   anchors |-> MaxAnchors]

(* projected_capacity_error of the document that would result. *)
Fits(d) ==
  LET usage == Usage(d) IN \A resource \in DOMAIN Limits : usage[resource] <= Limits[resource]

-----------------------------------------------------------------------------
Init ==
  /\ draft \in Authored
  /\ committed = draft
  /\ profile = 1
  /\ fresh = FirstFresh
  /\ edits = 0

(* The user turns the draft into `d`, which has `taken` new ids. *)
Becomes(d, taken) ==
  /\ edits < MaxEdits
  /\ edits' = edits + 1
  /\ draft' = d
  /\ fresh' = fresh + taken
  /\ UNCHANGED <<committed, profile>>
(* Such an action with a projection: over a limit, nothing changes. *)
BecomesIfItFits(d, taken) == edits < MaxEdits /\ Fits(d) /\ Becomes(d, taken)

WithLayer(l, changed) == [draft EXCEPT !.layers = (@ \ {l}) \cup {changed}]

-----------------------------------------------------------------------------
(* Elements.                                                               *)
DrawRegion ==
  BecomesIfItFits([draft EXCEPT !.elements = @ \cup {fresh}, !.enabled = @ \cup {fresh}], 1)

(* duplicate_element, without copying rules: the copy joins every list of  *)
(* elements that contains the original, but not its recognition.           *)
Joined(list, e) == IF e \in list THEN list \cup {fresh} ELSE list
WithDuplicate(e) ==
  [draft EXCEPT
     !.elements = @ \cup {fresh},
     !.enabled = Joined(@, e),
     !.globals = Joined(@, e),
     !.layers = {[l EXCEPT !.members = Joined(@, e), !.required = Joined(@, e)] : l \in @}]
DuplicateRegion == \E e \in draft.elements : BecomesIfItFits(WithDuplicate(e), 1)

(* The element and what is composed of it, directly or not.  (Mutant:      *)
(* directly.)                                                              *)
DependsDirectly(d, e) == {e} \cup {v.id : v \in {w \in d.derived : e \in Range(w.inputs)}}
Dependents(d, e) ==
  LET grow[n \in 0 .. Cardinality(d.derived)] ==
        IF n = 0 THEN {e}
        ELSE grow[n - 1] \cup Ids({v \in d.derived : Range(v.inputs) \cap grow[n - 1] # {}})
  IN grow[Cardinality(d.derived)]

(* A layer that loses an anchor is disabled, a target that loses a         *)
(* visibility condition hidden.  (Mutant: the layer stays as it was.)      *)
WithoutInPlace(l, gone) ==
  [l EXCEPT
     !.members = @ \ gone,
     !.required = @ \ gone,
     !.anchors = SelectSeq(@, LAMBDA a : a \notin gone),
     !.targets = {IF t.visibility \cap gone = {} THEN t ELSE [t EXCEPT !.visibility = {}] : t \in @}]
Without(l, gone) ==
  [l EXCEPT
     !.enabled = @ /\ Anchors(l) \cap gone = {},
     !.members = @ \ gone,
     !.required = @ \ gone,
     !.anchors = SelectSeq(@, LAMBDA a : a \notin gone),
     !.targets = {IF t.visibility \cap gone = {} THEN t ELSE [t EXCEPT !.visibility = {}] : t \in @}]

(* remove_element *)
WithoutElement(d, e) ==
  LET gone == Dependents(d, e) IN
  [d EXCEPT
     !.elements = @ \ gone,
     !.enabled = @ \ gone,
     !.derived = {v \in @ : v.id \notin gone},
     !.aliases = @ \ gone,
     !.globals = @ \ gone,
     !.rules = {r \in @ : Subjects(r) \cap gone = {}},
     !.layers = {Without(l, gone) : l \in @}]
RemoveRegion == \E e \in draft.elements : Becomes(WithoutElement(draft, e), 0)

ToggleElement ==
  \E e \in draft.elements :
    Becomes([draft EXCEPT !.enabled = IF e \in @ THEN @ \ {e} ELSE @ \cup {e}], 0)

-----------------------------------------------------------------------------
(* Derived observations and rules.                                         *)

(* ensure_stage_derived: a loaded profile with the two zones of a stage and *)
(* nothing derived gets the stage.                                          *)
LoadStage ==
  /\ draft = committed
  /\ draft.derived = {}
  /\ \E group, counter \in draft.elements :
       /\ group # counter
       /\ Becomes([draft EXCEPT !.derived = {[id |-> fresh, inputs |-> <<group, counter>>]}], 1)

RetargetInput ==
  \E v \in draft.derived, e \in draft.elements : \E i \in DOMAIN v.inputs :
    Becomes([draft EXCEPT !.derived = (@ \ {v}) \cup {[v EXCEPT !.inputs[i] = e]}], 0)
(* Nothing looks at the number of inputs. *)
AddInput ==
  /\ draft.elements # {}
  /\ \E v \in draft.derived :
       Becomes([draft EXCEPT !.derived =
                 (@ \ {v}) \cup {[v EXCEPT !.inputs = Append(@, First(draft.elements))]}], 0)

(* The editor shows the first rule of an element, and adds one when there  *)
(* is none.                                                                *)
AddRule ==
  \E on \in Observations(draft) :
    /\ \A r \in draft.rules : r.on # on
    /\ Becomes([draft EXCEPT !.rules =
                 @ \cup {[id |-> fresh, on |-> on, composed |-> FALSE, conditions |-> <<>>]}], 1)

WithConditions(r, conditions) ==
  [draft EXCEPT !.rules =
     (@ \ {r}) \cup {[r EXCEPT !.composed = TRUE, !.conditions = conditions]}]
(* A composed predicate starts with the element of the rule. *)
ComposeRule ==
  \E r \in draft.rules :
    ~r.composed /\ r.on \in draft.elements /\ Becomes(WithConditions(r, <<r.on>>), 0)
SimplifyRule ==
  \E r \in draft.rules :
    r.composed /\ Becomes([draft EXCEPT !.rules =
                            (@ \ {r}) \cup {[r EXCEPT !.composed = FALSE, !.conditions = <<>>]}], 0)
AddCondition ==
  /\ draft.elements # {}
  /\ \E r \in draft.rules :
       /\ r.composed /\ Len(r.conditions) < MaxConditions
       /\ Becomes(WithConditions(r, Append(r.conditions, First(draft.elements))), 0)
RetargetCondition ==
  \E r \in draft.rules, e \in draft.elements : \E i \in DOMAIN r.conditions :
    Becomes(WithConditions(r, [r.conditions EXCEPT ![i] = e]), 0)
RemoveCondition ==
  \E r \in draft.rules : \E i \in DOMAIN r.conditions :
    Becomes(WithConditions(r, RemoveAt(r.conditions, i)), 0)

-----------------------------------------------------------------------------
(* Scenes and overlays.                                                    *)
NewAnchors == IF draft.elements = {} THEN <<>> ELSE <<First(draft.elements)>>
NewLayer(isScene) ==
  [id |-> fresh, scene |-> isScene, enabled |-> TRUE, all |-> TRUE, anchors |-> NewAnchors,
   members |-> IF isScene THEN draft.elements ELSE {}, required |-> {}, targets |-> {},
   hints |-> {}]
AddScene == BecomesIfItFits([draft EXCEPT !.layers = @ \cup {NewLayer(TRUE)}], 1)
AddOverlay == BecomesIfItFits([draft EXCEPT !.layers = @ \cup {NewLayer(FALSE)}], 1)

(* The copy of a layer gives its targets new ids. *)
Renumbered(targets, from) ==
  {[t EXCEPT !.id = from + Cardinality({u \in targets : u.id < t.id})] : t \in targets}
DuplicateLayer ==
  \E l \in draft.layers :
    BecomesIfItFits(
      [draft EXCEPT !.layers =
         @ \cup {[l EXCEPT !.id = fresh, !.targets = Renumbered(@, fresh + 1)]}],
      Cardinality(l.targets) + 1)

RemoveLayer == \E l \in draft.layers : Becomes([draft EXCEPT !.layers = @ \ {l}], 0)
ToggleLayer == \E l \in draft.layers : Becomes(WithLayer(l, [l EXCEPT !.enabled = ~@]), 0)
ToggleMode == \E l \in draft.layers : Becomes(WithLayer(l, [l EXCEPT !.all = ~@]), 0)

(* recognition_editor *)
AddAnchor ==
  /\ draft.elements # {}
  /\ \E l \in draft.layers :
       /\ Len(l.anchors) < MaxAnchors
       /\ Becomes(WithLayer(l, [l EXCEPT !.anchors = Append(@, First(draft.elements))]), 0)
RetargetAnchor ==
  \E l \in draft.layers, e \in draft.elements : \E i \in DOMAIN l.anchors :
    Becomes(WithLayer(l, [l EXCEPT !.anchors[i] = e]), 0)
RemoveAnchor ==
  \E l \in draft.layers : \E i \in DOMAIN l.anchors :
    Becomes(WithLayer(l, [l EXCEPT !.anchors = RemoveAt(@, i)]), 0)

(* element_membership_editor, for the contextual and the required elements: *)
(* what is no longer contextual is not required either.                     *)
MayJoin(list) == Cardinality(list) < MaxMembers
ToggleMember ==
  \E l \in draft.layers, e \in draft.elements :
    \/ e \in l.members
       /\ Becomes(WithLayer(l, [l EXCEPT !.members = @ \ {e}, !.required = @ \ {e}]), 0)
    \/ e \notin l.members /\ MayJoin(l.members)
       /\ Becomes(WithLayer(l, [l EXCEPT !.members = @ \cup {e}]), 0)
ToggleRequired ==
  \E l \in draft.layers : \E e \in draft.elements \cap l.members :
    \/ e \in l.required /\ Becomes(WithLayer(l, [l EXCEPT !.required = @ \ {e}]), 0)
    \/ e \notin l.required /\ MayJoin(l.required)
       /\ Becomes(WithLayer(l, [l EXCEPT !.required = @ \cup {e}]), 0)

(* A target of the selected zone is projected; one of the default zone only *)
(* looks at the limit of its layer.                                         *)
WithTarget(l) == WithLayer(l, [l EXCEPT !.targets = @ \cup {[id |-> fresh, visibility |-> Always]}])
AddDrawnTarget == \E l \in draft.layers : draft.elements # {} /\ BecomesIfItFits(WithTarget(l), 1)
AddTarget ==
  \E l \in draft.layers :
    Cardinality(l.targets) < MaxLayerTargets /\ Becomes(WithTarget(l), 1)
RemoveTarget ==
  \E l \in draft.layers : \E t \in l.targets :
    Becomes(WithLayer(l, [l EXCEPT !.targets = @ \ {t}]), 0)

-----------------------------------------------------------------------------
(* Saving, and copying the saved profile.                                  *)
Commit ==
  /\ draft # committed
  /\ Valid(draft)
  /\ committed' = draft
  /\ UNCHANGED <<draft, profile, fresh, edits>>
Revert ==
  /\ draft # committed
  /\ draft' = committed
  /\ UNCHANGED <<committed, profile, fresh, edits>>

(* duplicate_profile: elements, derived observations, rules, layers and     *)
(* targets get new ids, in order, and the references follow.  (Mutant: the  *)
(* targets keep theirs.)                                                    *)
TargetCopyAsIs(t, by) == [t EXCEPT !.visibility = {IF v \in Always THEN v ELSE v + by : v \in @}]
TargetCopy(t, by) ==
  [t EXCEPT !.id = @ + by, !.visibility = {IF v \in Always THEN v ELSE v + by : v \in @}]
Moved(ids, by) == {i + by : i \in ids}
MovedList(list, by) == [i \in DOMAIN list |-> list[i] + by]
LayerCopy(l, observed, by) ==
  [l EXCEPT
     !.id = @ + by,
     !.members = Moved(@ \cap observed, by),
     !.required = Moved(@ \cap observed, by),
     !.anchors = MovedList(@, by),
     !.targets = {TargetCopy(t, by) : t \in @},
     !.hints = Moved(@, by)]
Copy(d, by) ==
  [elements |-> Moved(d.elements, by),
   enabled |-> Moved(d.enabled, by),
   derived |-> {[id |-> v.id + by, inputs |-> MovedList(v.inputs, by)] : v \in d.derived},
   aliases |-> Moved(d.aliases, by),
   globals |-> Moved(d.globals \cap Observations(d), by),
   rules |-> {[r EXCEPT !.id = @ + by, !.on = @ + by, !.conditions = MovedList(@, by)] : r \in d.rules},
   layers |-> {LayerCopy(l, Observations(d), by) : l \in d.layers}]

(* The copy is selected in the editor. *)
DuplicateProfile ==
  /\ edits < MaxEdits
  /\ edits' = edits + 1
  /\ draft = committed
  /\ committed' = Copy(committed, fresh)
  /\ draft' = committed'
  /\ profile' = profile + 1
  /\ fresh' = 2 * fresh

Author ==
  \/ DrawRegion \/ DuplicateRegion \/ RemoveRegion \/ ToggleElement
  \/ LoadStage \/ RetargetInput \/ AddInput
  \/ AddRule \/ ComposeRule \/ SimplifyRule \/ AddCondition \/ RetargetCondition \/ RemoveCondition
  \/ AddScene \/ AddOverlay \/ DuplicateLayer \/ RemoveLayer \/ ToggleLayer \/ ToggleMode
  \/ AddAnchor \/ RetargetAnchor \/ RemoveAnchor \/ ToggleMember \/ ToggleRequired
  \/ AddDrawnTarget \/ AddTarget \/ RemoveTarget

Next == Author \/ Commit \/ Revert \/ DuplicateProfile

Spec == Init /\ [][Next]_vars

-----------------------------------------------------------------------------
(* Nothing in a draft refers to an element that is not there, whatever was *)
(* removed, duplicated or retargeted, and what is derived reads only what  *)
(* is before it.  (Transition hints are no elements: see the README.)      *)
ReferencesResolve ==
  /\ draft.enabled \subseteq draft.elements
  /\ draft.aliases \subseteq draft.elements
  /\ \A v \in draft.derived :
       Range(v.inputs) \subseteq draft.elements \cup {w \in Ids(draft.derived) : w < v.id}
  /\ draft.globals \subseteq Observations(draft)
  /\ \A r \in draft.rules : Subjects(r) \subseteq Observations(draft)
  /\ \A l \in draft.layers :
       /\ l.members \cup Anchors(l) \cup Visibilities(l) \subseteq Observations(draft)
       /\ l.required \subseteq l.members

(* How much of the evidence of a layer is in `seen`, as a fraction: the     *)
(* confidence of its recognition when every predicate has the same weight.  *)
(* No anchors at all are full evidence for "all" and none for "any".        *)
Evidence(l, seen) ==
  IF l.anchors = <<>> THEN <<IF l.all THEN 1 ELSE 0, 1>>
  ELSE <<Cardinality({i \in DOMAIN l.anchors : l.anchors[i] \in seen}), Len(l.anchors)>>
AtMost(p, q) == p[1] * q[2] <= q[1] * p[2]
Shown(l, seen) ==
  {t.id : t \in {u \in l.targets : u.visibility = Always \/ u.visibility \cap seen # {}}}

(* Removing an element leaves a valid draft valid and makes no layer or     *)
(* target easier to recognise: "removal shall not silently turn a predicate *)
(* into an unconditional match" (SPECS.md).                                 *)
RemovesElement == draft'.elements # draft.elements /\ draft'.elements \subseteq draft.elements
RemovalIsSafe ==
  [][RemovesElement /\ edits' # edits =>
       /\ Valid(draft) => Valid(draft')
       /\ \A l \in draft.layers, m \in draft'.layers : l.id = m.id =>
            \A seen \in SUBSET draft.elements :
              /\ m.enabled => l.enabled /\ AtMost(Evidence(m, seen), Evidence(l, seen))
              /\ Shown(m, seen) \subseteq Shown(l, seen)]_vars

(* What the capacity report calls unreachable can be removed without taking *)
(* anything else with it, but for aliases that name it.                     *)
UnreachableIsFree ==
  [][RemovesElement /\ edits' # edits =>
       \A e \in Unreachable(draft) : e \notin draft'.elements =>
         draft' = [draft EXCEPT !.elements = @ \ {e}, !.enabled = @ \ {e}, !.aliases = @ \ {e}]]_vars

(* The limits of Profile::validate that a document is over. *)
Sizes(d) ==
  Usage(d) @@
  [globals |-> Cardinality(d.globals),
   inputs |-> Largest({Len(v.inputs) : v \in d.derived}),
   conditions |-> Largest({Len(r.conditions) : r \in d.rules}),
   visibility |-> Largest({Cardinality(t.visibility) : t \in TargetsOf(d)})]
AllLimits ==
  Limits @@ [globals |-> MaxMembers, inputs |-> MaxInputs, conditions |-> MaxConditions,
             visibility |-> MaxAnchors]
OverLimit(d) == {resource \in DOMAIN AllLimits : Sizes(d)[resource] > AllLimits[resource]}

(* "An over-limit action leaves the draft unchanged" (README) is so of all  *)
(* limits but three, whatever order the user edits in: "Add interaction    *)
(* target" of the default zone looks at its layer and not at the total, a   *)
(* duplicated element joins the globals, which nothing counts, and "Add     *)
(* input" looks at nothing.  A draft over those is refused by the commit.   *)
DraftFits == OverLimit(draft) \subseteq {"targets", "globals", "inputs"}

(* What it says only disabled layers read can be removed without a change  *)
(* to an enabled one, and what it does not count for a scene without a     *)
(* change to that scene.                                                   *)
ReportTellsReaders ==
  [][RemovesElement /\ edits' # edits =>
       \A e \in draft.elements \ draft'.elements :
         /\ e \in DisabledOnly(draft) =>
              /\ draft'.globals = draft.globals
              /\ draft'.rules = draft.rules
              /\ draft'.derived = draft.derived
              /\ {l \in draft.layers : l.enabled} \subseteq draft'.layers
         /\ \A s \in Scenes(draft) : e \notin CostedIn(draft, s) => s \in draft'.layers]_vars

(* A copy of a committed profile is valid and shares no id with the        *)
(* original, nor does it refer to anything of it.                           *)
CopyIsOwn ==
  [][profile' # profile =>
       /\ Valid(committed) => Valid(committed')
       /\ \A id \in Observations(committed') \cup Ids(committed'.rules) \cup Ids(committed'.layers)
                      \cup Ids(TargetsOf(committed')) : id >= fresh
       /\ Cardinality(Observations(committed')) = Cardinality(Observations(committed))
       /\ Cardinality(TargetsOf(committed')) = Cardinality(TargetsOf(committed))]_vars

(* Whatever the user edits, the draft keeps resolving its own references   *)
(* and stays within the limits of Profile::validate that the editor looks  *)
(* at before it acts.                                                      *)
DocumentInvariant == ReferencesResolve /\ DraftFits

(* What an operation is not about it leaves alone: a removal takes only    *)
(* the references the capacity report tells of, and a copy shares nothing   *)
(* with its original.                                                      *)
EditsAreLocal == UnreachableIsFree /\ ReportTellsReaders /\ CopyIsOwn
=============================================================================
