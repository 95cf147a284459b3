# Verification of yash-app-events

yash-app-events watches a game through a PipeWire screen capture, runs small
detectors on the frames, debounces what they read into events, and publishes the
events to a log, a state file, subscribers and user-configured output routes. A
graphical editor writes the profiles that say what to detect, through a daemon that
keeps them. This directory holds TLA+ models of the program, TLC instances of them,
and TLAPS proofs about the event rules, the scene resolver, the live pipeline and
one-shot analysis, capture and its monitor, publication, output routes, requests,
evidence, the profile store with its catalog, and the editor. Paths below are relative
to the repository (`src/` in PROJECT.json is its root).

    tlc -workers 2 -config MCAutoCapture.cfg MCAutoCapture    # a run
    tlapm DaemonProofs.tla                                    # a proof

`PROJECT.json` lists the components, the runs, for each checked property a mutation of
the model that breaks it, the source lines of each definition, the hazards of the code
and the theorems.

## 1. The system

| part | state it keeps | operations | what must hold |
|---|---|---|---|
| Event rules (`crates/engine/src/lib.rs`: `TemporalRule`, `NumericRule`, `CompositeRule`; `RapidIncreaseRule` and `CoordinatedRule` in `crates/daemon/src/lib.rs`) | established state, evidence window, candidate, instants of the last transition and update; latest readings; a sliding window of numbers | `observe` | events alternate; cooldown and update rate kept; a change is supported by its evidence; hysteresis; compositions of current readings; exact bursts |
| Scene resolver (`SceneResolver`) | evidence per scene and overlay, active scene | `resolve`, `resolve_with_hints` | a clear leader wins; only overlays of equal priority own a click target together |
| Live pipeline (`LivePipeline`, `process_live_frame`) | resident detectors, failed detectors, last resolution, last published context | process a frame, release, construct, announce | detectors follow the active layers; the log tells the context |
| One-shot analysis (`analyze_image*`) | none but the store it reads | analyze by a profile or by a bundle | answers that claim to suffice are complete; a caller's context only prefers; pins hold |
| Capture sessions and live analysis (`select_capture`, `stop_capture`, `PortalCapture`, `start_live_analysis`) | capture slot, analysis slot, portal task, PipeWire thread, latest frame, scheduler | select, stop, close by the compositor, tick, throttle, process | nothing that runs is leaked; a stop returns; the rate is a ceiling |
| Auto-capture monitor (task in `run`) | last sighting and stability counter | sample every two seconds, select, stop | capture follows the process |
| Publication (`publish_*`, `crates/output/src/lib.rs`) | sequence counter, writer, buffer, `events.jsonl`, `state.json`, `latest_snapshot` | allocate, append, flush, rotate, notify, write state | identities unique; order kept; reported lines durable |
| Output routes (`crates/daemon/src/routes.rs`, `crates/output/src/routing.rs`) | bounded queue, route cache, payloads delivered last, `output-routes.json` | publish, deliver, list, set, enable, remove, install | no silent loss; order; cache agrees with the file |
| Profile store (`crates/profile/src/store.rs`, `collection.rs`) | documents, histories, drafts, trash, installed collections, lineage marks | commit, rollback, create, import, export, trash, restore, delete, draft | revisions rise and name one document; replaced revisions are retained; live profiles load |
| Catalog (`crates/catalog`) | the maintainers' index, the cached index | refresh, review, install | what is installed was reviewed, is offered and arrives whole |
| Profile document (`crates/profile/src/lib.rs`, editing controls in `crates/gui/src/lib.rs`) | a draft | some thirty edits, validation, capacity report, duplication | references resolve; removal is complete; limits; copies are their own |
| Editor and RPC worker (`crates/gui/src/lib.rs`) | list, selection, draft, dirty flag, pending kinds, preview switch; queues; a connection | clicks, polls, autosave, answers, reconnects | edits survive answers; nothing waits for ever; the preview comes back |
| Connections and suites (`serve_connection`, `serve_subscription`, `PreviewLease`, `run_image_work`, suite operations) | connection count, leases, receivers, one work slot, retained operations | connect, subscribe, lag, send a picture, start, poll, cancel | counts exact; results kept until a reply carries them; work settles |
| Evidence collection (`crates/daemon/src/collection.rs`, `schedule_collection`, `collection_*`) | the collector's runtime, writes in flight, item directories, `suite.json` | sample, check the quota, store, review, auto-review, promote | quota kept; no repeated samples; promoted items are cases; duplicates only of a representative |
| Vision, CLI, diagnostics | pure functions, presentation | | left to tests |

How they interact: the PipeWire thread of a session publishes frames into the
latest-frame slot; the analysis task polls the slot, runs detectors, scene resolver and
rules in a blocking worker, and publishes through one `OutputWriter` mutex, a broadcast
channel and the router's bounded queue; a replay does the same from another thread.
Client connections are tasks that run every operation concurrently on the shared
`State`, whose fields have separate mutexes; the monitor calls the same select and stop
functions. Profiles and local files are replaced atomically one by one, but operations
touch several files and hold no lock around load, change and save. The editor is a
client with a frame loop and one worker thread.

What is hard, and where: slots that are checked before an `await` and filled after it
(capture); two slots emptied in one order and filled in the other; numbers taken before
the lock that orders the writes (publication); a cache filled by one thread and
refreshed by others (routes); multi-file commits cut by failures and crashes (store);
answers that arrive after the question is moot (editor); windows, candidates and
instants that interact over long sample sequences (rules). PROJECT.json `hazards` lists
each at its line.

## 2. Modules

Each component is a module of its own; `MC*.tla` gives the constants that a cfg cannot
express, `*Proofs.tla` holds theorems. Operators marked "Mutant" in a comment are the
mutations PROJECT.json names; no specification uses them.

**TransitionGate** is the debouncing that `TemporalRule::observe_match` and the tail of
`NumericRule::observe` share. A sample is one call; the disjuncts `Hold`, `Refresh`,
`Defer`, `Establish`, `Flip` are the paths through the function. `Option<bool>` is
`"unset"/"active"/"inactive"`. An observation that is unknown, erroneous, mistyped or of
low confidence returns before anything is assigned and is a stuttering step. `journal`
and `events` are histories. **TemporalRule**, **NumericRule** and **CompositeRule** turn
an observation into a sample; **RapidIncreaseRule** has a window of its own.
**CoordinatedRule** is the rule a profile builds: one of the four kinds.

**SceneResolver**: one action per sample, with any vector of confidences and a ranking
of preferred scenes. **Recognition** computes the confidences of a picture from what
each anchor sees ("match", "faint", "miss", "unknown") by the weights and the mode of a
layer's expression. **LivePipeline** is a frame of the live analysis on top of it:
resolve, release, construct, run, announce, or give up at the first detector that
cannot be built. **ImageHandoff** is the analysis of one picture without history, with
the targets it offers and the reason of its handoff; **BundleRouting** composes the
analysis of the router with the choice of a member and the member's own analysis, while
the store changes.

**CaptureLifecycle**: clients run `select_capture` and `stop_capture` with a step per
await; sessions are portal tasks with their PipeWire threads; tasks are analysis tasks.
A frame is its session and its number; frames come one per period, so the number is
also the time stamp relative to the start of the session. A PipeWire thread that fails
leaves a live session without frames, which is a behaviour of the model (nothing forces
`PublishFrame`). **AutoCapture** composes it with the monitor, which is one of the
clients; monitor samples and clients interleave at every step.

**Publication**: publishers (live, replay) with a step per lock acquisition. A JSON line
is its daemon instance, sequence number and kind. Rotation counts lines instead of
bytes. Failures: opening the log, opening it after the rename, flushing; writing
`state.json`. A live analysis goes on after a context that could not be appended, a
replay ends. `Restart` is a kill: the buffer is lost, the files stay. The dirty flag is
abstracted: only frames that reach publication are modelled. `overlapped` records
whether two publishers were ever busy at once.

**OutputRouter**: publisher, worker and clients for one profile. A rendered template is
a payload value or `Missing`. The worker holds the cache lock while it fills it, so a
fill is one step; a client's read, save and cache update are three. A command that fails
may have shown its input (`CommandFails`), and one that does not read its input holds
the worker up (`CommandBlocks`): `run_command` writes the payload before it looks at its
deadline. `raced` and `alone` are histories of requests that overlap. **Delivery** is
the abstract promise: a published job stays open for a route until it is delivered,
reported lost, or not due; a route gets its jobs in order and once; nothing stays open
for ever, unless the worker is `stalled` for good. `Promise` in OutputRouter
instantiates it with a refinement mapping (the open jobs of a route are those in the
queue or in the worker's hands), and `KeepsPromise` is the refinement.

**EvidenceCollector** and **EvidenceReview** (which extends it): the shared runtime
admits one sample at a time; a write is a thread of its own with a step per file; a
review is a step per file, and an automatic review works through the inbox of a profile.
An item's status is kept twice, in its metadata and in the name of the directory above
it, so `entry` maps directories to statuses and an item may be in two places. A content
has a thumbnail, which is similar to others up to a threshold (not an equivalence), and
a signature. `orphaned` and `overlapped` are histories: the collector was turned to
another profile while it wrote; two reviews were under way at once. Byte quotas and
damaged pictures are left out.

**ProfileStore**: several profile ids; a directory is its document, retained history and
draft flag, under profiles, in the collection, or in the trash; one lineage file. Each
write of one file, each rename, and each file that a deletion of the trash removes
(`RemoveFile`, in any order), is a step; `Abort` is a failure or crash before any step.
`permanently_delete_trashed` has no method of the daemon; it is an operation of the
store's interface. Imports bring one profile or a collection of a router and its members.
**Catalog** puts the index, its cache and the review and installation of a package in
front of it.

**RpcWorker** has the two bounded queues, the refused kinds, the connection and the
preview lease; **Editor** the state of `App` that answers change, the daemon's side of
each request, and one action per control that sends something. A document is its
profile, its revision and the set of edits it contains, so that a lost edit is a
missing number. What `PREVIEW_FREEZE` restores after a reconnect is no part of the lease.
**ProfileDocument** is a draft as a record of sets and lists of ids and the
operations that change one: draw, duplicate and remove a region; rules, derived
observations and conditions; scenes, overlays, anchors, members and targets; commit,
revert, duplication of a whole profile; with `Valid` for `Profile::validate` and `Usage`
for the capacity report.

**Requests**: connections, leases, subscriptions, the slot of image work, and suite
operations with their watchdog. A notification is a count, an evaluation its phases. The
reply that carries a result is a step after the one that lets it go (`ConsumeResult`,
then `WriteReply` or `LoseReply`).

## 3. Runs

| run | instance | shows |
|---|---|---|
| MCRules | all kinds of rule; 2 of 3, stable 1, cooldown 3, updates every 2, silent start; sequences of seven samples (five where readings mix) with gaps 0 to 2 | debouncing; the incremental window agrees with a recomputation from the whole journal (`ChangesAreSupported`); hysteresis; exact bursts; compositions of current readings |
| MCLivePipeline | two scenes (one sticky, with hints), three overlays that share targets in pairs, two of them of equal priority, four anchors, three contextual detectors of which two may fail | the resolver over pictures; no shared target but on a tie; detectors of active layers only; the log names the context before and after each change, also after lost records |
| MCImageAnalysis | three scenes, two overlays, 96 pictures, four contexts, three manifests, three profiles with two revisions | a sufficient answer is complete, offered targets are seen, a context is soft, the route is the best match and the answer is of the pinned revisions |
| MCAutoCapture | monitor and one client, two sessions, three frames each, two changes of process or policy | nothing leaked; rate ceiling; stops return; while the process stays gone the capture is stopped again and again, and while it runs a live capture is tried again and again unless a session closed from outside holds the slot |
| MCPublication | live and replay, flush every line, rotation after one line, one restart, two records before it and one after | unique identities always; order and current state while publishers take turns; durable appends |
| MCOutputRouter | one event and one state route, queue of two, two payloads, two clients, three jobs and requests in any mixture | the router implements Delivery; caught up means current; cache agrees with the file and acknowledged changes stick, and again after the first request that runs alone |
| MCEvidence | two profiles with a quota of one, two analyses, two writes, two reviewers with two requests, three contents of which one is certain | quota, novelty, suite and representatives under failures, restarts and a shared collector |
| MCProfileStore | a router and a member, one client with five requests, two catalog releases, one retained revision | revisions rise; nothing retained or marked is forgotten; live profiles load; installs are reviewed and whole, under every failure and crash point, deletions cut off between two files among them |
| MCProfileStoreConflict | two clients | the disagreement of section 6 |
| MCEditor | two profiles, queues of three, three clicks or failures (at most two failures), one poll | edits survive answers, pending kinds are answered, previews are restored, what counts as saved is stored |
| MCProfileDocument | three initial drafts, three edits of any kind | references resolve and the limits the editor looks at hold after every edit; removals are complete; the capacity report is right; copies are their own |
| MCRequests | two clients, two connections, one slot, two suites, one retained, a channel of one | counts and slot exact; what is no longer kept was delivered or lost with its reply; requests answered |

Bounds. Rule windows are 3 and seven samples fill the window twice over and pass a whole
cooldown; every effect of a sample is gone after three more samples, one stable duration
and one cooldown. Two sessions are what a leak or a stale frame needs (the old and the
new one). A third publisher or client adds no new kind of interleaving: the properties
relate pairs. A route queue of two has an order and is exceeded by the three jobs; three
requests are two that overlap and one that runs alone after them. An editor starts with
the three requests of `App::new`, which fill its queue of three. Evidence needs two items
and two analyses: the orphaned write and the one it disturbs, the duplicate and its
representative; profiles and reviewers are interchangeable there and reduced by symmetry
(no liveness is checked), and a behaviour with both an orphaned write and overlapping
reviews is not followed further, because no property is left to say anything of it. Five
store requests suffice for create, commit, trash, import or restore, and commit again;
revisions are capped only by the number of requests. Three edits make an element, a
reference to it and its removal; the limits of a draft are set so low that three edits
reach them. Three user events are an edit, a save or a selection, and what the user does
before its answer. The pictures of the image analysis enumerate every reading that
tells its layers apart. `CHECK_DEADLOCK FALSE` is set where a bound, and not the system,
ends a behaviour.

Properties are conjunctions where their parts are of one concern, named for what they
say together; each part has its own comment. Histories that exempt a property
(`overlapped`, `orphaned`, `raced`, `dropped`, `torn`) stand for the disagreements of
section 6.

Fairness. CaptureLifecycle: the runtime runs workers, portal tasks and stop steps that
can run (weak fairness); `EndTask` is strongly fair because the stop branch of the
`select!` is polled at every wake-up, in random order with the timer. No fairness on
frames, users or the compositor. `AutoSpec` adds the monitor's timer and that a picker
is eventually answered or denied. OutputRouter: the delivery thread runs while it has
work and no command stalls it. Files end, and so does a command that has read its input
(it is killed at its deadline); nothing makes one read, so `CommandUnblocks` has no
fairness and what must happen is promised only to those that are not stalled for good.
Requests: a connection's task
and a suite's worker run while they can; a client need not send anything, nor leave.

## 4. Proofs

`DaemonProofs` holds the proofs about the rules of a profile and about the connections
of clients, two parts that share no state.

Rules. For every window, quorum, duration and initial policy a sample preserves

    GateInvariant == GateTypeOK /\ StateIsReported /\ InstantsCoverEvents
                     /\ EventsAlternate /\ CooldownKept /\ UpdatesRateLimited

The last three are not inductive alone. `EventsAlternate` needs `StateIsReported`: the
established state is what the last report says, so a flip to "active" follows a "left".
`CooldownKept` and `UpdatesRateLimited` need `InstantsCoverEvents`: every report lies at
or before `lastUpdate`, every change at or before `lastTransition`, and both lie in the
past, so the code's comparison with one instant covers all earlier reports. Each path
(`Hold`, `Defer`, `Establish` in `QuietStep`, `RefreshStep`, `FlipStep`) is a lemma;
`GateStep` combines them.

This is lifted to temporal and numeric rules (each call of `observe` is a sample or
returns early) and to the rule of a profile, whatever its kind:

- `RulesAreDebounced`: reports alternate, are a cooldown apart and rate-limited, in
  states that are of their type.
- `BurstsAreExact`: a rapid increase is reported exactly when the whole history has one.
  The invariant needs `RapidMemory`: the kept readings are those of the history that can
  still matter, and the instant of the last report is that of the last burst.
- `CompositionsAreCurrent`: what a composition judges are the last readings of its
  elements, from `LatestIsHeard`: the kept readings are the last ones heard.
- `ChangesHaveSupport`: a change has the votes of the last M samples, and had them at each
  sample since one at least `stable_for` before. The window is the end of the journal of
  all samples (`IsEndOf`), and a candidate has had the votes of every window since the
  sample at which it became one (`CandidateIsSupported`); any sample without them clears it.
- `HysteresisIsKept`: the votes against a state stay too few to carry while the numbers
  stay on its side (`SidesAreKept`), as a change had a quorum of the window and a sample
  for the new state adds no vote against it (`VotesAgainst`) - unless the window of the
  change had a quorum for both states, which a quorum of at most half of it admits (the
  code demands N <= M only). `torn` tells whether the last change was such a one; then
  old samples can win, and the property says no more.

Connections, for any clients, connection limit, channel, retention limit and suites.
`RequestsInvariant` and `OperationsAreKept` share `DaemonInvariant`: native work in
progress, the one permit of the slot and the client that waits for it agree
(`SlotHasOneOwner`), the line holds those that wait, once each (`LineIsOfWaiting`),
counts of finite sets are exact (`CountsAreFinite`), and a call that has looked an
operation up and dropped the lock names one that exists, which has ended if it is about
to be consumed (`LookupsAreSound`).

`PublicationProofs` is about any number of publishers, writes that fail at any step,
rotation and restarts.

- `RecordsAreIdentified` and `AppendsAreDurable` follow from `IdentityInvariant`. Unique
  records need to know where numbers live between their allocation and the file: every
  number in a file, a notification or a publisher's hands is at most the counter
  (`HistoryIsPast`), and no two publishers hold one, nor one that is already written
  (`NumbersAreOwn`); a restart brings an instance that no record carries.
- `OrderIsKept` and `StateMovesForward` add what holds until two publications overlap:
  one publisher works at most, with the last number, and `latest` is not behind the file
  except between the write of `state.json` and that of `latest` (`TurnsAreTaken`).

`OutputRouterProofs` is about any routes, capacity and clients.

- `RoutesKeepPromise`: `Init` and every step of the router are those of Delivery under
  the refinement, with liveness left to the run. `RouterOrder` supplies what the mapping
  needs: the queue and the worker's job hold published jobs in the order of publication,
  and what a route's sink shows is older than both.
- `CaughtUpRoutesAreCurrent` needs that the remembered payload of a route is the one its
  sink shows (`PreviousIsShown`, false after a request has cleared it, hence "unchanged")
  and that the last state is in the queue, at the worker, shown or reported
  (`LastIsHandled`).
- `LoneRequestsStick` is about clients that overlap as they please. A request remembers
  whether it has been alone since it began; one that has brings cache and file together,
  since the worker fills the cache with the file it has read in the same step, and as
  long as none overlaps, what a request is not about is left as it was (`raced`).

`EvidenceProofs` is about any profiles, contents, similarity threshold, quota and
clients. Its invariant has one part for the collector and one for the clients:

- `QuotaIsKept`: `RoomIsLeft` says that a write which passed the check still finds room
  when it stores its item. It needs that writes follow one another (`OneWriteAtATime`:
  the runtime knows of the write in flight, which is of the last item sampled), what is
  in a directory at each phase of a write (`EntriesFollowWrites`), and that reviews make
  nothing pending (`ReviewsAreOfItems`).
- `SamplesAreNovel`: the reference of the runtime is the content stored last, and an item
  being written differs already from the one before it (`ReferenceIsLast`).
- `ReviewsAreConsistent`: while clients take turns, an item is in one directory, which
  the client at work has marked before it moves it (`TurnsAreTaken`), so no step of a
  review that fails leaves a promotion unlisted. A batch is of one profile, and each
  content it knows is that of an accepted item other than those it has left
  (`BatchesAreOfOneProfile`): hence a duplicate is never rejected for its own sake.

`QuotaKept` and `StoredAreNovel` carry their condition with them (no write was orphaned),
and so do the two parts of `ReviewInvariant` (no two requests overlapped); section 6
says what happens without it.

`CaptureProofs` is about any number of clients and sessions, the monitor being one of the
clients, and any analysis period.

- `NothingIsLeaked`: an analysis task that no slot and no stopping client holds has been
  told to stop, and a portal session that no slot, no select and no stop holds is
  closing. With the types, these two parts of `CaptureInvariant` are inductive: each
  await hands what it holds to a slot or to a signal in the step that lets go of it.
- `RateIsACeiling` needs `TasksAreSpaced`, that what was analyzed last is what its task
  remembers as scheduled last, and that a session number is handed to one client, whose
  task starts once (`SessionsAreOwn`); otherwise a second start would forget the last
  analysis.

`AnalysisProofs` is about any layers, expressions, pictures, fragile detectors, callers'
contexts and manifests. Its theorems are about two specifications, `LiveSpec` of
LivePipeline and `Spec` of BundleRouting, which share the resolver.

- `PipelineIsSound` is the invariant of the run. The five keys by which candidates are
  ranked make a strict total order (`RanksAreAnOrder`; the sort is stable, so the place in
  the profile tells scenes of one name apart), so finitely many scenes have a first
  (`SomeSceneIsFirst`) and `FirstOf`, which is a CHOOSE, is that first. A leader has the
  first key for it against every other scene, and its margin against whichever is second
  (`LeaderWins`), so neither the hints nor the scene that was active matter. Of two
  overlays exposed with a common target neither overrules the other, so their priorities
  are equal: that is all the code promises of a shared target (section 6).
- `DetectorsFollow` needs `DetectorInvariant`: frames are lost once for each broken
  element, and until the first of them what is constructed is among what the last
  completed frame ran.
- `ContextIsLogged`: one set of overlays included in another of the same size is that
  set, so the comparison of `context_changed` misses nothing.
- `HandoffsAreSound` and `PreferencesAreSoft` need that a request which has yet to route
  has a resolver without an active scene (`RequestInvariant`): then its picture resolves
  to the winner or to nothing (`FreshResolution`), the winner is of greatest confidence,
  and of a picture that is not ambiguous it has its margin to every other eligible scene,
  since the second is the closest (`WinnerKeepsItsMargin`).
- `PinsAreKept` is the part of `RoutingInvariant` about revisions; it needs that the
  router of a request under way is of its own game and was analyzed at the pin.

`StoreProofs` is about any number of profiles, connections and requests, any retention
limit and bundle, each request cut off between any two files. Its theorems have one
hypothesis, `SerialSpec`: a connection takes a step only while no other has a request
under way. It is about the clients, not the daemon: operations hold no lock around load,
change and save, and without it `RevisionsRise` is false (MCProfileStoreConflict, section
6). With one connection it holds by itself (`OneConnectionIsSerial`), so the theorems
cover every behaviour of the run MCProfileStore. The invariant has a part for the files
as they lie (`FilesAreSound`) and one for the request under way, at each of its steps
(`ClientIsSound`): what it has read of the files is what they still hold.

- `RevisionsAlwaysRise` and `TheStoreForgetsNothing`: the mark of an id lies between its
  trashed document and its live one, and no revision ever published is above the greatest
  of the three (`MarkIsBetween`), wherever a request was cut off. A commit writes the
  history first, so a replaced revision is retained before the document is overwritten
  (`Committing`).
- `LiveProfilesAlwaysLoad`: an id has one live directory at most (`LivesOnce`), and a
  live directory without a document exists only between two steps of the request that makes
  it. A deletion that was cut off may leave revisions without a document in the trash,
  which nothing restores.
- `InstallationsAreSound`: the cached index is the newest ever cached while requests take
  turns, and what was downloaded is offered by it.

`EditorProofs` is about any profiles, limit of the queues, clicks, failures and polls.
The invariants of the run are not inductive, because an answer on its way decides what
the editor will believe. `EditorSound` adds what the messages mean:

- `DocumentsAreStored`: what an answer carries to be edited, and what `Revert` puts
  back, is in a revision of its profile.
- `DraftIsCovered`: an edit of the draft that is in no revision and did not race is in
  every commit and autosave of that profile on its way, and there is none at all while
  nothing is unsaved, or while a rollback is asked for, under way or answered. When an
  answer then clears the dirty flag, nothing settled is lost: `ResponsesTakeNothing` and
  `ShownDraftsAreStored` follow.
- `NothingWaitsForever` follows every request from the queue to its answer, its refusal
  or the failed reload that drops it (`WorkKeeps`, `SendingKeeps`, `ReadingKeeps`), and
  `PreviewFollowsTheUser` the lease (`ConnectionWorks`).

The editor is the only client of the daemon in these models.

Assumptions: `SamplingAssumption` (1 <= N <= M, as `new` of the rules validates),
`TimingAssumption` (durations are naturals), `NoneAssumption`, `BoundsAssumption`,
`ThresholdAssumption` for numeric rules, those of CompositeRule and RapidIncreaseRule
about their elements and thresholds, `MixedAssumption`, `OutputAssumption`,
`RouterAssumption`, `CacheAssumption` and `RequestsAssumption` (limits are naturals, the
marker of an empty cache is no cache), `CollectorAssumption`, `ContentAssumption` and
`ReviewAssumption` (thumbnails are brightnesses, the quota is positive, no content is
the marker of none), `LifecycleAssumption` and `MonitorAssumption` (the period is at
least one frame, the monitor is a client), `LayerAssumption`, `LevelAssumption`,
`ConfigurationAssumption`, `ElementAssumption`, `ExpressionAssumption`,
`TargetAssumption`, `PipelineAssumption` and `RoutingAssumption`: layers and elements
are finitely many, N-of-M is 1 <= N <= M as `Profile::validate` requires, every layer
and element has a place of its own in the profile, `Levels` holds the scores of every
picture and `Preferences` the ranking of every context (that a score, a sum, is a
natural would need induction). `ManifestAssumption`, `PackagesAssumption` and
`IncomingAssumption`: manifests, packages and archives are well formed, as the reader of
archives leaves them. `StoreAssumption`, `WorkerAssumption` and `EditorAssumption`:
limits are naturals, a queue of the worker holds the three requests of `App::new`,
profiles of the editor have positive numbers, zero being none. The bounds of the runs
(`MaxSamples`, `MaxStep`, `MaxCalls`, ...) are arbitrary naturals in the theorems.

Model-checked only. Liveness under fairness: `StopReturns`, `CaptureFollowsProcess`,
`WorkSettles` and the fairness of Delivery. `RouteIsBest` and the types of
`RoutingInvariant` are about what a fold over the manifest selects, which would need
induction; its part about pins is proved (`PinsAreKept`). ProfileDocument computes
closures over data by recursive functions; what they compute for every draft would need
induction too, so `DocumentInvariant`, `RemovalIsSafe` and `EditsAreLocal` are checked
on the instance.

## 5. Plan

1. (done) Rules, scene resolver, pipeline, one-shot analysis and bundles, capture and
   monitor, publication, routes with their abstract specification, evidence, store,
   catalog, editor and drafts, connections and suites; proofs about all rules.
2. (done) Proofs of every invariant of records and their order, routes with the safety of
   their refinement, counts and slot, evidence, capture, resolver, pipeline and one-shot
   analysis, and of the debouncing, bursts and compositions of rules.
3. (done) Proofs of the store and the catalog for requests that do not overlap, of the
   editor with its worker, and of the evidence and hysteresis of rules.
4. Left: what needs induction over data (end of section 4); settings and collection
   policies as further users of the local files; several editors at one daemon.

## 6. Disagreements with the documentation

Kept as a run, with the quoted line in PROJECT.json `findings`:

- `MCProfileStoreConflict`: two connections that commit from one revision both succeed
  (`store.rs:338`, `SPECS.md:214`).

Behaviour that the models show and no run is kept for:

Capture. The latest-frame slot keeps the last frame of a stopped session; the next
analysis takes it first, and its time stamp, relative to the old session, then throttles
the new session's frames until the new session is as old (`engine/src/lib.rs:45`; the
configurable rate of `SPECS.md:47`). A session closed by the compositor keeps the
capture slot, so the monitor never restores the capture (`daemon/src/lib.rs:307`;
`SPECS.md:360`). A select that overlaps a stop can leave an analysis without a capture.
A policy changed while the portal is open does not reach the analysis that is about to
start. When `receive_closed` fails, the portal task returns without telling the PipeWire
thread to stop (`capture-pw/src/lib.rs:239`).

Pipeline and analysis. A detector built in a frame that was given up is not in the list
that the next release looks at (`README.md:159`). Overlays of equal priority both own a
shared target, although the code is there to "not expose two owners for one click
target" (`engine/src/lib.rs:426`) and nothing demands distinct priorities; the instance
has such a tie, and `OnlyTiesShareTargets` says that only ties do it. Unknown
confidences count as misses in the resolver. In the one-shot analysis a layer with more
than one required sample is never eligible; the picture file is read once for the router
and once for the member, so an answer may mix two pictures; the member gets no context;
an unknown scene asks for a full frame, which `protocol-v1.md` says only a layout
mismatch does; without a matching member the router's own handoff is returned, which may
say that the JSON suffices; the fallback is taken even when the router was ambiguous.

Rules. With a quorum of at most half the window a numeric rule can report "left" below
its enter threshold, and so it can after a stable duration. A composition is evaluated
at each element of a frame. The event state of a rapid increase stays true in
`state.json`. The evidence of a rule is not reset when the scene changes.

Publication and routes. Overlapping publishers append out of sequence order and may
replace a newer `state.json`; a running daemon never rotates its log
(`output/src/lib.rs:155`); a context change whose append fails is not announced. Two
clients that change routes at once both succeed and lose a change, or leave an older
list in the cache until the next request that runs alone. A command that does not read
its input stops all routes, whatever its timeout: the payload is written to its standard
input before the deadline is looked at (`output/src/routing.rs:510`), and jobs are
dropped once the queue is full. After a command that failed but had shown its payload,
the worker still compares with the payload before it and may skip what the sink lacks.
`output.test` delivers outside the queue and can leave an old state in a sink that the
worker believes current.

Store and catalog. A draft saved for a trashed profile creates its directory again and
blocks its restoration (`store.rs:372`). Two clients that commit different profiles lose
a lineage mark (`store.rs:726`). Racing refreshes can put an older index back into the
cache; an install does not look at `compatible_with`; editing a member makes the
collection it came with invalid; `export_profile` lacks the limits of the import.

Evidence. A write turned over to another profile lets the quota of a dataset be exceeded
by one and its thumbnail be compared with the other profile's frames. A write that fails
half-way leaves a directory that counts against the quota and, with metadata in it,
stops every automatic review. Two promotions at once lose a case, and two reviews of one
item put it in two directories. Rejecting a promoted item leaves its case in the suite.

Editor. The answer to a request that was sent before an edit, and arrives after the
commit that followed it, clears the dirty flag and replaces the draft
(`gui/src/lib.rs:924`; "Late selection responses and refreshes cannot overwrite an
unsaved draft", `docs/gui.md:11`): `raced` holds the edits made in that window. A
rollback is offered only while nothing is unsaved (`gui/src/lib.rs:1689`; "Save or
revert the current draft before rollback.", `:1703`), but `Confirm rollback` (`:1693`)
does not look again, so an edit made between the two buttons is discarded: `raced`
counts edits from when a rollback is asked for. Panels show the previous profile until
their answers come; a template's path is added to the region selected when the answer
comes; when the reload after a reconnect fails, the request that needed the connection
is dropped and only the reload is reported (`dropped`, `gui/src/lib.rs:303`): a poll
stays pending, and a draft whose autosave it was goes on being shown as saved. An
"over-limit action leaves the draft unchanged" (`README.md:133`) but for three
resources, which `DraftFits` names and only the commit refuses: the total of targets, as
"Add interaction target" looks at the limit of its layer (`gui/src/lib.rs:5290`); global
elements, which a duplicate joins and the projection does not count; and inputs of a
derived observation ("Add input", `gui/src/lib.rs:3101`). Removing a scene leaves the
hints of others at it.

Connections and suites. An operation is shown as completed before its slot is free; a
panic of its worker leaves it running for ever; the result of a suite is removed before
its reply is written (`daemon/src/lib.rs:2471`), so a reply that fails loses it, and
nobody is told; a connection task that panics keeps its place in the connection count
(`daemon/src/lib.rs:337`; panics of connections are not in the model); a client that
left a subscription keeps its connection until the next notification; two polls may both
get the one result; a cancel of what has just ended is accepted. A suite's files are
hashed before they are evaluated and not again.

## 7. Not modelled

Vision detectors, template rendering, signatures and hashes, network and archive
formats, pixel conversion, command line, diagnostics, drawing and layout of the editor:
pure computations, input/output or presentation, whose results enter the models as
samples, payloads, requests or failures. `evaluate_replay` compares two lists. Settings
and collection policies are further files of the load-modify-save shape of the output
routes. Frame contents, JSON layout, logging and metrics are abstracted away everywhere.
