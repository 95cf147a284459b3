------------------------------- MODULE Editor -------------------------------
(***************************************************************************)
(* The profile editor of the GUI (App): the profile list, the selected     *)
(* profile, its draft and whether the draft was edited since it was loaded *)
(* or saved, the flags that hold back requests while one of their kind is  *)
(* pending, and the preview switches; composed with its RPC worker and     *)
(* with what the daemon does for each request.                             *)
(*                                                                         *)
(* A document is its profile, its revision and the set of edits it         *)
(* contains; the n-th edit of a run is the number n.  The daemon keeps the *)
(* sequence of revisions of each profile and the draft it was sent.  Each  *)
(* frame of the GUI reads the responses there are, schedules polls and the *)
(* autosave, and handles what the user clicks; a step here is one response,*)
(* one scheduled request or one click.  Times are left out: a poll, a      *)
(* preview frame or an autosave may be due whenever its other conditions   *)
(* hold.                                                                   *)
(***************************************************************************)
EXTENDS RpcWorker, FiniteSets

CONSTANTS
  Profiles,   \* profile ids, numbers in the order of the list
  MaxPolls,   \* bound: scheduled polls and preview frames
  Buttons     \* kinds of the buttons that wait for their response

(* App::new queues three requests at once. *)
ASSUME EditorAssumption ==
  /\ QueueLimit >= 3
  /\ Profiles \subseteq Nat \ {0}
  /\ MaxPolls \in Nat
  /\ Buttons \subseteq {"DetectorTest", "CaptureSelect", "CatalogList"}

VARIABLES
  listed,      \* profiles: ids in the sidebar
  selected,    \* id of the selected entry, 0 for none
  draft,       \* the document being edited
  committed,   \* committed_profile
  dirty,       \* dirty_since.is_some()
  draftSaved,  \* draft_saved
  shown,       \* revisions in the history panel
  confirm,     \* rollback_confirm
  previewOn,   \* preview_enabled
  frozen,      \* the freeze switch
  pending,     \* kinds held back until a response: polls, preview_pending, ...
  live,        \* daemon: profiles that are not in the trash
  store,       \* daemon: profile -> contents of its revisions
  drafts,      \* daemon: profile -> edits in its draft file
  clicks,      \* clicks so far
  edits,       \* edits so far
  polls,       \* scheduled requests so far
  raced        \* edits made while a save, rollback or autosave was under way,
               \* a rollback from when it is asked for (history)

editorVars == <<listed, selected, draft, committed, dirty, draftSaved, shown, confirm>>
switchVars == <<previewOn, frozen>>
daemonVars == <<live, store, drafts>>
vars == <<workerVars, editorVars, switchVars, pending, daemonVars, clicks, edits, polls, raced>>

Content == SUBSET (1 .. MaxEvents)
Document == [id : Profiles, rev : Nat \ {0}, edits : Content]
NoDocument == [id |-> 0, rev |-> 0, edits |-> {}]
Message(kind, document) ==
  [kind |-> kind, id |-> document.id, rev |-> document.rev, edits |-> document.edits]
Plain(kind) == Message(kind, NoDocument)
About(kind, id) == Message(kind, [NoDocument EXCEPT !.id = id])
Reply(request, ok) ==
  [kind |-> request.kind, ok |-> ok, list |-> {}, document |-> NoDocument, revisions |-> <<>>]

Messages == [kind : Kind, id : Profiles \cup {0}, rev : Nat, edits : Content]
Replies ==
  [kind : Kind, ok : BOOLEAN, list : SUBSET Profiles, document : Document \cup {NoDocument},
   revisions : Seq(Content)]

Pollable == {"Profiles", "Status", "PreviewFrame", "DetectorTest", "CaptureSelect", "CatalogList"}

TypeOK ==
  /\ requests \in Seq(Messages) /\ Len(requests) <= QueueLimit
  /\ responses \in Seq(Replies) /\ Len(responses) <= QueueLimit
  /\ refused \subseteq Kind /\ dropped \subseteq Kind
  /\ {connected, wantPreview, wantFreeze, lease, dirty, draftSaved, confirm, previewOn, frozen}
       \subseteq BOOLEAN
  /\ failures \in 0 .. MaxFailures
  /\ listed \subseteq Profiles /\ live \subseteq Profiles
  /\ selected \in listed \cup {0}
  /\ draft \in Document \cup {NoDocument}
  /\ committed \in Document \cup {NoDocument}
  /\ draft = NoDocument => committed = NoDocument
  /\ shown \in Seq(Content)
  /\ pending \subseteq Pollable
  /\ store \in [Profiles -> Seq(Content) \ {<<>>}]
  /\ drafts \in [Profiles -> Content]
  /\ polls \in 0 .. MaxPolls
  /\ clicks \in 0 .. MaxEvents /\ edits \in 0 .. clicks /\ raced \subseteq 1 .. edits

(* App::new asks for the profiles, the status and, for a panel, the status *)
(* of the catalog; both profiles have one revision without edits.          *)
Init ==
  /\ WorkerInit
  /\ requests = <<Plain("Profiles"), Plain("Status"), Plain("Panel")>>
  /\ listed = {} /\ selected = 0
  /\ draft = NoDocument /\ committed = NoDocument
  /\ dirty = FALSE /\ draftSaved = FALSE
  /\ shown = <<>> /\ confirm = FALSE
  /\ previewOn = FALSE /\ frozen = FALSE
  /\ pending = {}
  /\ live = Profiles
  /\ store = [p \in Profiles |-> <<{}>>]
  /\ drafts = [p \in Profiles |-> {}]
  /\ clicks = 0 /\ edits = 0 /\ polls = 0 /\ raced = {}

-----------------------------------------------------------------------------
(* The daemon: what a request does, and what it answers.                   *)

Current(p) == [id |-> p, rev |-> Len(store[p]), edits |-> store[p][Len(store[p])]]

(* PROFILE_COMMIT and PROFILE_ROLLBACK are refused unless they expect the  *)
(* current revision; PROFILE_GET and the revisions need the profile.       *)
Accepts(request) ==
  CASE request.kind \in {"Commit", "Rollback"} ->
         request.id \in live /\ request.rev = Len(store[request.id])
    [] request.kind \in {"Profile", "History", "Trash", "DetectorTest", "TemplateCapture"} ->
         request.id \in live
    [] request.kind = "Restore" -> request.id \notin live
    [] OTHER -> TRUE

(* A commit also removes the draft file. *)
Execute(request) ==
  LET p == request.id IN
  CASE request.kind \in {"Commit", "Rollback"} ->
         /\ store' = [store EXCEPT ![p] = Append(@, request.edits)]
         /\ drafts' = [drafts EXCEPT ![p] = {}]
         /\ UNCHANGED live
    [] request.kind = "Draft" ->
         drafts' = [drafts EXCEPT ![p] = request.edits] /\ UNCHANGED <<live, store>>
    [] request.kind = "Trash" -> live' = live \ {p} /\ UNCHANGED <<store, drafts>>
    [] request.kind = "Restore" -> live' = live \cup {p} /\ UNCHANGED <<store, drafts>>
    [] OTHER -> UNCHANGED daemonVars

Answer(request) ==
  CASE request.kind = "Profiles" -> [Reply(request, TRUE) EXCEPT !.list = live]
    [] request.kind = "Profile" -> [Reply(request, TRUE) EXCEPT !.document = Current(request.id)]
    [] request.kind = "History" -> [Reply(request, TRUE) EXCEPT !.revisions = store[request.id]]
    [] OTHER -> Reply(request, TRUE)

Request == Head(requests)
TakeRequest == requests # <<>> /\ requests' = Tail(requests) /\ Remember(Request)
(* The worker waits while the queue of responses has no room. *)
Respond(replies) ==
  /\ responses' = responses \o replies
  /\ Len(responses') <= QueueLimit
Reloaded == IF Reloads(Request) THEN <<Answer(Plain("Profiles"))>> ELSE <<>>
WorkLeaves == UNCHANGED <<refused, editorVars, switchVars, pending, clicks, edits, polls, raced>>

(* The request is executed, or the daemon refuses it. *)
Serve ==
  /\ TakeRequest
  /\ connected' = TRUE
  /\ lease' = LeaseAfter(Request)
  /\ IF Accepts(Request)
     THEN Execute(Request) /\ Respond(Append(Reloaded, Answer(Request)))
     ELSE UNCHANGED daemonVars /\ Respond(Append(Reloaded, Reply(Request, FALSE)))
  /\ WorkLeaves /\ UNCHANGED <<failures, dropped>>

(* The daemon fails it: an invalid draft, no frame to test or to preview, *)
(* a portal selection that was cancelled, ...                              *)
ServeFails ==
  /\ TakeRequest
  /\ Fails(clicks)
  /\ Request.kind \notin {"PreviewStart", "PreviewStop"}
  /\ connected' = TRUE
  /\ lease' = Restored(Request)
  /\ Respond(Append(Reloaded, Reply(Request, FALSE)))
  /\ WorkLeaves /\ UNCHANGED <<daemonVars, dropped>>

(* No connection, or the preview cannot be restored on the new one. *)
ConnectFails ==
  /\ ~connected
  /\ TakeRequest
  /\ Fails(clicks)
  /\ Disconnect
  /\ Respond(<<Reply(Request, FALSE)>>)
  /\ WorkLeaves /\ UNCHANGED <<daemonVars, dropped>>

(* The reload after a reconnect fails: the response has the kind of the    *)
(* reload, and the request is dropped without one of its own.              *)
ReloadFails ==
  /\ TakeRequest
  /\ Reloads(Request)
  /\ Fails(clicks)
  /\ Disconnect
  /\ Respond(<<Reply(Plain("Profiles"), FALSE)>>)
  /\ dropped' = dropped \cup {Request.kind}
  /\ WorkLeaves /\ UNCHANGED daemonVars

(* The connection is lost during the call, before or after the daemon ran  *)
(* it.                                                                     *)
CallFails ==
  /\ TakeRequest
  /\ Fails(clicks)
  /\ Disconnect
  /\ \/ Accepts(Request) /\ Execute(Request)
     \/ UNCHANGED daemonVars
  /\ Respond(Append(Reloaded, Reply(Request, FALSE)))
  /\ WorkLeaves /\ UNCHANGED dropped

Work == Serve \/ ServeFails \/ ConnectFails \/ ReloadFails \/ CallFails

-----------------------------------------------------------------------------
(* The editor: reading a response (drain).                                 *)

Quiet == UNCHANGED <<requests, refused>>
NoSelection ==
  /\ draft' = NoDocument /\ committed' = NoDocument
  /\ UNCHANGED <<dirty, draftSaved, shown, confirm>>

(* select_profile *)
Select(p, before) ==
  /\ selected' = p
  /\ draft' = NoDocument /\ committed' = NoDocument
  /\ dirty' = FALSE /\ draftSaved' = FALSE
  /\ shown' = <<>> /\ confirm' = FALSE
  /\ SendAll(Append(before, About("Profile", p)))

(* apply_profiles: the selection follows its id.  When the id is gone and  *)
(* nothing is unsaved, the first profile is selected; when something is,   *)
(* nothing is.                                                             *)
SelectedIn(list) ==
  CASE selected \in list -> selected
    [] selected \notin list /\ ~dirty /\ list # {} -> CHOOSE p \in list : \A q \in list : p <= q
    [] OTHER -> 0
ApplyProfiles(list) ==
  LET next == SelectedIn(list) IN
  /\ listed' = list
  /\ CASE dirty -> selected' = next /\ Quiet
                   /\ UNCHANGED <<draft, committed, dirty, draftSaved, shown, confirm>>
       [] ~dirty /\ next = 0 -> selected' = 0 /\ Quiet /\ NoSelection
       [] ~dirty /\ next # 0 /\ draft.id = next ->
            /\ selected' = next
            /\ SendAll(<<About("Profile", next)>>)
            /\ UNCHANGED <<draft, committed, dirty, draftSaved, shown, confirm>>
       [] OTHER -> Select(next, <<>>)

(* apply_profile: a late response for another profile, or one that would   *)
(* replace an unsaved edit, is ignored.  A loaded profile is followed by   *)
(* the requests of its panels.                                             *)
(* (Mutant: any response for the selected profile is applied.)             *)
IgnoredOther(document) == selected # document.id
Ignored(document) == selected # document.id \/ dirty
Racing == confirm \/ \E k \in {"Commit", "Rollback", "Draft"} : Outstanding(k)
Unedited == UNCHANGED <<clicks, edits, raced>>
(* mark_dirty after a change that a response made to `document`. *)
EditBy(document) ==
  /\ clicks + failures < MaxEvents
  /\ clicks' = clicks + 1
  /\ edits' = edits + 1
  /\ draft' = [document EXCEPT !.edits = @ \cup {edits + 1}]
  /\ dirty' = TRUE /\ draftSaved' = FALSE
  /\ raced' = IF Racing THEN raced \cup {edits + 1} ELSE raced

(* A loaded profile that lacks the derived stage gets it, which is an edit. *)
ApplyProfile(document) ==
  /\ IF Ignored(document)
     THEN Quiet /\ Unedited /\ UNCHANGED <<draft, committed, dirty, draftSaved>>
     ELSE /\ committed' = document
          /\ \/ draft' = document /\ Unedited /\ UNCHANGED <<dirty, draftSaved>>
             \/ EditBy(document)
          /\ SendAll(<<About("History", document.id), About("Panel", document.id)>>)
  /\ UNCHANGED <<listed, selected, shown, confirm>>

(* A commit or rollback was accepted: nothing is unsaved any more. *)
ApplySaved(kind) ==
  /\ dirty' = FALSE
  /\ draftSaved' = (kind = "Rollback" /\ draftSaved)
  /\ confirm' = (kind = "Commit" /\ confirm)
  /\ SendAll(<<Plain("Profiles")>> \o
             (IF kind = "Rollback" /\ draft # NoDocument
              THEN <<About("History", draft.id)>> ELSE <<>>))
  /\ UNCHANGED <<listed, selected, draft, committed, shown>>

(* add_template_path: a captured template becomes an edit of the selected  *)
(* region, when there is one.                                              *)
ApplyTemplate ==
  /\ Quiet
  /\ \/ UNCHANGED <<editorVars, edits, raced, clicks>>
     \/ draft # NoDocument /\ EditBy(draft)
        /\ UNCHANGED <<listed, selected, committed, shown, confirm>>

ApplyOk(response) ==
  CASE response.kind = "Profiles" -> ApplyProfiles(response.list) /\ Unedited
    [] response.kind = "Profile" -> ApplyProfile(response.document)
    [] response.kind = "History" ->
         /\ shown' = response.revisions
         /\ Quiet /\ Unedited
         /\ UNCHANGED <<listed, selected, draft, committed, dirty, draftSaved, confirm>>
    [] response.kind \in {"Commit", "Rollback"} -> ApplySaved(response.kind) /\ Unedited
    [] response.kind = "Draft" ->
         /\ draftSaved' = TRUE
         /\ Quiet /\ Unedited
         /\ UNCHANGED <<listed, selected, draft, committed, dirty, shown, confirm>>
    [] response.kind \in {"Trash", "Restore"} ->
         SendAll(<<Plain("Profiles")>>) /\ Unedited /\ UNCHANGED editorVars
    [] response.kind = "TemplateCapture" -> ApplyTemplate
    [] OTHER -> Quiet /\ Unedited /\ UNCHANGED editorVars

(* A failed autosave makes the draft unsaved again. *)
ApplyErrorQuietly(kind) == UNCHANGED editorVars /\ Unedited (* mutant: it does not *)
ApplyError(kind) ==
  /\ IF kind = "Draft"
     THEN dirty' = TRUE /\ draftSaved' = FALSE
          /\ UNCHANGED <<listed, selected, draft, committed, shown, confirm>>
     ELSE UNCHANGED editorVars
  /\ Unedited

(* A response of the kind ends the wait for it; so does the end of the     *)
(* preview for its frames.                                                 *)
PendingAfter(response) ==
  pending \ ({response.kind} \cup
    (IF response.kind = "PreviewStop" /\ response.ok THEN {"PreviewFrame"} ELSE {}))

PreviewAfter(response) ==
  CASE response.ok /\ response.kind = "PreviewStart" -> TRUE
    [] response.ok /\ response.kind = "PreviewStop" -> FALSE
    [] OTHER -> previewOn

DrainLeaves ==
  UNCHANGED <<connected, wantPreview, wantFreeze, lease, dropped, failures, frozen, daemonVars,
              polls>>

(* Refusals are read before responses. *)
DrainRefusal ==
  /\ \E kind \in refused :
       /\ refused' = refused \ {kind}
       /\ ApplyError(kind)
       /\ pending' = pending \ {kind}
  /\ UNCHANGED <<requests, responses, previewOn>>
  /\ DrainLeaves

DrainResponse ==
  /\ refused = {}
  /\ responses # <<>>
  /\ LET response == Head(responses) IN
       /\ responses' = Tail(responses)
       /\ IF response.ok THEN ApplyOk(response) ELSE ApplyError(response.kind) /\ Quiet
       /\ pending' = PendingAfter(response)
       /\ previewOn' = PreviewAfter(response)
  /\ DrainLeaves

Drain == DrainRefusal \/ DrainResponse

-----------------------------------------------------------------------------
(* schedule *)
ScheduleLeaves ==
  UNCHANGED <<responses, connected, wantPreview, wantFreeze, lease, dropped, failures,
              switchVars, daemonVars, clicks, edits, raced>>

(* Worker::poll: at most one request of a polled kind is outstanding. *)
Poll(kind) ==
  /\ polls < MaxPolls
  /\ polls' = polls + 1
  /\ kind \notin pending
  /\ pending' = pending \cup {kind}
  /\ SendAll(<<Plain(kind)>>)
  /\ UNCHANGED editorVars
  /\ ScheduleLeaves

PollStatus == Poll("Status")
PollPreview == previewOn /\ ~frozen /\ Poll("PreviewFrame")

(* The autosave: once for every edit that is not saved. *)
AutoSave ==
  /\ dirty
  /\ ~draftSaved
  /\ IF draft # NoDocument THEN SendAll(<<Message("Draft", draft)>>) ELSE Quiet
  /\ draftSaved' = TRUE
  /\ UNCHANGED <<listed, selected, draft, committed, dirty, shown, confirm, pending, polls>>
  /\ ScheduleLeaves

Schedule == PollStatus \/ PollPreview \/ AutoSave

-----------------------------------------------------------------------------
(* What the user does.                                                     *)
Click ==
  /\ clicks + failures < MaxEvents
  /\ clicks' = clicks + 1
  /\ UNCHANGED <<responses, connected, wantPreview, wantFreeze, lease, dropped, failures,
                 daemonVars, polls>>
Edited == UNCHANGED <<edits, raced>>
OnlySends(message) ==
  /\ Click /\ Edited
  /\ SendAll(<<message>>)
  /\ UNCHANGED <<editorVars, switchVars, pending>>

ClickProfile ==
  \E p \in listed :
    /\ Click /\ Edited
    /\ Select(p, <<>>)
    /\ UNCHANGED <<listed, switchVars, pending>>

Edit ==
  /\ draft # NoDocument
  /\ Click
  /\ edits' = edits + 1
  /\ draft' = [draft EXCEPT !.edits = @ \cup {edits + 1}]
  /\ dirty' = TRUE /\ draftSaved' = FALSE
  /\ raced' = IF Racing THEN raced \cup {edits + 1} ELSE raced
  /\ Quiet
  /\ UNCHANGED <<listed, selected, committed, shown, confirm, switchVars, pending>>

Save == draft # NoDocument /\ OnlySends(Message("Commit", draft))

Revert ==
  /\ draft # NoDocument
  /\ committed # NoDocument
  /\ Click /\ Edited /\ Quiet
  /\ draft' = committed
  /\ dirty' = FALSE
  /\ UNCHANGED <<listed, selected, committed, draftSaved, shown, confirm, switchVars, pending>>

(* Rollback is offered for a revision other than the current one while     *)
(* nothing is unsaved; confirming it does not look again.                  *)
AskRollback ==
  /\ draft # NoDocument /\ ~dirty /\ ~confirm
  /\ Len(shown) > 1
  /\ Click /\ Edited /\ Quiet
  /\ confirm' = TRUE
  /\ UNCHANGED <<listed, selected, draft, committed, dirty, draftSaved, shown, switchVars, pending>>
(* Cancel, or the choice of another revision. *)
CancelRollback ==
  /\ draft # NoDocument /\ confirm
  /\ Click /\ Edited /\ Quiet
  /\ confirm' = FALSE
  /\ UNCHANGED <<listed, selected, draft, committed, dirty, draftSaved, shown, switchVars, pending>>
ConfirmRollback ==
  /\ draft # NoDocument /\ confirm
  /\ \E i \in DOMAIN shown : OnlySends([Message("Rollback", draft) EXCEPT !.edits = shown[i]])

Trash == draft # NoDocument /\ OnlySends(About("Trash", draft.id))
Restore == \E p \in Profiles \ listed : draft # NoDocument /\ OnlySends(About("Restore", p))
CaptureTemplate == draft # NoDocument /\ OnlySends(About("TemplateCapture", draft.id))

(* The other panels ask for things whose responses only replace what they  *)
(* show: a replay, the output routes and their recipes, the collector and  *)
(* its items.                                                              *)
AskPanel == OnlySends(About("Panel", draft.id))
EvaluateReplay == AskPanel
UseRoutes == draft # NoDocument /\ AskPanel
UseRecipes == draft # NoDocument /\ AskPanel
UseCollector == draft # NoDocument /\ AskPanel
ReviewItem == draft # NoDocument /\ AskPanel
UsePanel == EvaluateReplay \/ UseRoutes \/ UseRecipes \/ UseCollector \/ ReviewItem

(* The test button, the source button and those of the catalog wait for    *)
(* their responses.                                                        *)
Requested(kind, message) ==
  /\ kind \notin pending
  /\ Click /\ Edited
  /\ pending' = pending \cup {kind}
  /\ SendAll(<<message>>)
  /\ UNCHANGED <<editorVars, switchVars>>
RefreshList == Requested("Profiles", Plain("Profiles"))
TestDetector ==
  /\ draft # NoDocument /\ "DetectorTest" \in Buttons
  /\ Requested("DetectorTest", About("DetectorTest", draft.id))
SelectSource == "CaptureSelect" \in Buttons /\ Requested("CaptureSelect", Plain("CaptureSelect"))
BrowseCatalog == "CatalogList" \in Buttons /\ Requested("CatalogList", Plain("CatalogList"))

TogglePreview ==
  /\ Click /\ Edited
  /\ previewOn' = ~previewOn
  /\ SendAll(<<Plain(IF previewOn THEN "PreviewStop" ELSE "PreviewStart")>>)
  /\ UNCHANGED <<editorVars, frozen, pending>>
ToggleFreeze ==
  /\ Click /\ Edited
  /\ frozen' = ~frozen
  /\ SendAll(<<Plain(IF frozen THEN "Unfreeze" ELSE "Freeze")>>)
  /\ UNCHANGED <<editorVars, previewOn, pending>>

User ==
  \/ ClickProfile \/ Edit \/ Save \/ Revert \/ AskRollback \/ CancelRollback
  \/ ConfirmRollback
  \/ Trash \/ Restore \/ CaptureTemplate \/ UsePanel \/ RefreshList \/ TestDetector
  \/ SelectSource \/ BrowseCatalog \/ TogglePreview \/ ToggleFreeze

Next == Work \/ Drain \/ Schedule \/ User

Spec == Init /\ [][Next]_vars

-----------------------------------------------------------------------------
Published(p) == UNION {store[p][i] : i \in DOMAIN store[p]}

(* No response takes an edit out of the draft that no revision of the      *)
(* profile contains: "Late selection responses and refreshes cannot        *)
(* overwrite an unsaved draft" (docs/gui.md).  The code keeps it for the   *)
(* edits that were not made while a save or an autosave was under way, or  *)
(* a rollback from when it is asked for.                                   *)
TakenByResponse ==
  IF clicks' = clicks /\ draft # NoDocument
  THEN draft.edits \ (draft'.edits \cup Published(draft.id)) ELSE {}
SettledEditsSurvive == [][TakenByResponse \subseteq raced]_vars

(* A kind that is held back while it is pending has a request in the queue *)
(* or an answer on its way, unless the worker dropped such a request after *)
(* a reconnect: otherwise its polls, tests or selections never resume.     *)
PendingIsAnswered == \A kind \in pending : Outstanding(kind) \/ kind \in dropped

(* While the worker is connected the daemon holds a preview lease for it   *)
(* exactly when the user's last request was to start the preview, over     *)
(* every reconnect.                                                        *)
PreviewIsRestored == connected => (lease <=> wantPreview)

(* The draft is of the selected profile: what is saved, rolled back or     *)
(* trashed is what the list shows as selected.                             *)
DraftIsOfSelection == selected # 0 /\ draft # NoDocument => draft.id = selected

(* A draft that is shown as saved, with no autosave under way, is in the   *)
(* draft file or in a revision, except for edits that raced, and unless    *)
(* the worker dropped an autosave with a failed reload: the editor is not  *)
(* told of that one, and goes on showing the draft as saved.               *)
SavedDraftIsStored ==
  dirty /\ draftSaved /\ draft # NoDocument /\ ~Outstanding("Draft") /\ "Draft" \notin dropped
    => draft.edits \subseteq drafts[draft.id] \cup Published(draft.id) \cup raced

(* The editor never waits for what will not come, and never saves to       *)
(* another profile than the one it shows (App::drain and its senders).     *)
EditorInvariant == TypeOK /\ PendingIsAnswered /\ DraftIsOfSelection
=============================================================================
