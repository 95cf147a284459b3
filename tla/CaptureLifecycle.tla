-------------------------- MODULE CaptureLifecycle --------------------------
(***************************************************************************)
(* Capture sessions of the daemon and the analysis tasks that read their   *)
(* frames: select_capture, stop_capture, start_live_analysis, the portal   *)
(* task of the PipeWire backend and the latest-frame slot between them.    *)
(*                                                                         *)
(* Clients are connections (and the auto-capture monitor, AutoCapture.tla) *)
(* that run select and stop concurrently; every await of the source is a   *)
(* step boundary.  A select that reaches the portal gets a session number, *)
(* and the analysis task it starts goes by the same number.                *)
(*                                                                         *)
(* A session's clock starts when its PipeWire thread does and its frames   *)
(* are numbered from zero; frames come one per period, so the number of a  *)
(* frame is also its time stamp.                                           *)
(***************************************************************************)
EXTENDS Naturals, FiniteSets

CONSTANTS
  Clients,      \* connections and the monitor
  MaxSessions,  \* bound: portal sessions opened in a behaviour
  MaxFrames,    \* bound: frames published by one session
  Interval      \* frame periods between two analyses

ASSUME LifecycleAssumption ==
  /\ MaxSessions \in Nat
  /\ MaxFrames \in Nat
  /\ Interval \in Nat \ {0}

VARIABLES
  capture,    \* session in the daemon's capture slot, or None
  analysis,   \* task in the daemon's analysis slot, or None
  session,    \* session -> state of its portal task
  frames,     \* session -> frames it has published
  slot,       \* content of the latest-frame slot
  task,       \* session -> the analysis task started for it
  client,     \* client -> where its select or stop is
  opened,     \* sessions opened so far
  processed   \* the frame analyzed last, by which task (history)

vars == <<capture, analysis, session, frames, slot, task, client, opened, processed>>

None == 0
Sessions == 1 .. MaxSessions
Frame == [session : Sessions, sequence : Nat]
NoFrame == [session |-> None, sequence |-> 0]
SlotFrame == Frame \cup {NoFrame}

SessionState == {"none", "live", "closing", "closed"}
TaskPhase == {"none", "polling", "processing", "ended"}
Place == {"idle", "building", "portal", "commit", "analyze", "awaitTask", "takeCapture", "awaitPortal"}

(* stop: the stop channel of the task has fired or its sender is gone.     *)
(* last and scheduled: the last frame looked at and the last one analyzed; *)
(* the code keeps the sequence number of the one, the time of the other.   *)
TaskRecord ==
  [phase : TaskPhase, stop : BOOLEAN, last : SlotFrame, scheduled : SlotFrame, frame : SlotFrame]
ClientRecord == [pc : Place, session : Sessions \cup {None}, pipeline : BOOLEAN]

NoTask ==
  [phase |-> "none", stop |-> FALSE, last |-> NoFrame, scheduled |-> NoFrame, frame |-> NoFrame]
Idle == [pc |-> "idle", session |-> None, pipeline |-> FALSE]

TypeOK ==
  /\ capture \in Sessions \cup {None}
  /\ analysis \in Sessions \cup {None}
  /\ session \in [Sessions -> SessionState]
  /\ frames \in [Sessions -> Nat]
  /\ slot \in SlotFrame
  /\ task \in [Sessions -> TaskRecord]
  /\ client \in [Clients -> ClientRecord]
  /\ opened \in 0 .. MaxSessions
  /\ processed \in [task : Sessions \cup {None}, frame : SlotFrame]
  /\ \A c \in Clients :
       client[c].pc \in {"commit", "analyze", "awaitTask", "awaitPortal"}
         => client[c].session # None

LifecycleInit ==
  /\ capture = None
  /\ analysis = None
  /\ session = [s \in Sessions |-> "none"]
  /\ slot = NoFrame
  /\ task = [s \in Sessions |-> NoTask]
  /\ client = [c \in Clients |-> Idle]
  /\ opened = 0
  /\ processed = [task |-> None, frame |-> NoFrame]

Init == LifecycleInit /\ frames = [s \in Sessions |-> 0]

Goto(c, place) == client' = [client EXCEPT ![c].pc = place]
Return(c) == client' = [client EXCEPT ![c] = Idle]

-----------------------------------------------------------------------------
(* select_capture: refused while the capture slot is occupied; the profile *)
(* decides whether a live pipeline is built.                               *)
BeginSelect(c) ==
  /\ client[c].pc = "idle"
  /\ capture = None
  /\ \E pipeline \in BOOLEAN :
       client' = [client EXCEPT ![c] =
         [pc |-> IF pipeline THEN "building" ELSE "portal", session |-> None, pipeline |-> pipeline]]
  /\ UNCHANGED <<capture, analysis, session, frames, slot, task, opened, processed>>

(* The image worker builds the pipeline, or reports why it cannot. *)
BuildPipeline(c) ==
  /\ client[c].pc = "building"
  /\ Goto(c, "portal") \/ Return(c)
  /\ UNCHANGED <<capture, analysis, session, frames, slot, task, opened, processed>>

(* PortalCapture::start returns a running session. *)
OpenPortal(c) ==
  /\ client[c].pc = "portal"
  /\ opened < MaxSessions
  /\ opened' = opened + 1
  /\ session' = [session EXCEPT ![opened + 1] = "live"]
  /\ client' = [client EXCEPT ![c].pc = "commit", ![c].session = opened + 1]
  /\ UNCHANGED <<capture, analysis, frames, slot, task, processed>>

(* The user cancels the picker, or the portal fails. *)
PortalDenied(c) ==
  /\ client[c].pc = "portal"
  /\ Return(c)
  /\ UNCHANGED <<capture, analysis, session, frames, slot, task, opened, processed>>

(* Dropping a PortalCapture asks its task to close the session. *)
DropSession(states, s) ==
  IF s # None /\ states[s] = "live" THEN [states EXCEPT ![s] = "closing"] ELSE states

(* Saving the restore token fails: the session just opened is dropped. *)
BindingFails(c) ==
  /\ client[c].pc = "commit"
  /\ session' = DropSession(session, client[c].session)
  /\ Return(c)
  /\ UNCHANGED <<capture, analysis, frames, slot, task, opened, processed>>

(* The session takes the capture slot; a session found there is dropped. *)
InstallCapture(c) ==
  /\ client[c].pc = "commit"
  /\ session' = DropSession(session, capture)
  /\ capture' = client[c].session
  /\ IF client[c].pipeline THEN Goto(c, "analyze") ELSE Return(c)
  /\ UNCHANGED <<analysis, frames, slot, task, opened, processed>>

(* Mutant: the task that is replaced keeps running. *)
StartAnother(c) ==
  /\ client[c].pc = "analyze"
  /\ task' = [task EXCEPT ![client[c].session] = [NoTask EXCEPT !.phase = "polling"]]
  /\ analysis' = client[c].session
  /\ Return(c)
  /\ UNCHANGED <<capture, session, frames, slot, opened, processed>>

(* start_live_analysis: the task takes the analysis slot; the stop sender  *)
(* of a task found there is dropped, which stops it.                       *)
StartAnalysis(c) ==
  LET k == client[c].session IN
  /\ client[c].pc = "analyze"
  /\ task' = [s \in Sessions |->
                IF s = k THEN [NoTask EXCEPT !.phase = "polling"]
                ELSE IF s = analysis THEN [task[s] EXCEPT !.stop = TRUE]
                ELSE task[s]]
  /\ analysis' = k
  /\ Return(c)
  /\ UNCHANGED <<capture, session, frames, slot, opened, processed>>

-----------------------------------------------------------------------------
(* Mutant: the task is awaited and was not told to stop. *)
BeginStopUntold(c) ==
  /\ client[c].pc = "idle"
  /\ IF analysis = None
     THEN Goto(c, "takeCapture")
     ELSE client' = [client EXCEPT ![c].pc = "awaitTask", ![c].session = analysis]
  /\ analysis' = None
  /\ UNCHANGED <<capture, session, frames, slot, task, opened, processed>>

(* stop_capture: the analysis is taken out of its slot and told to stop, *)
BeginStop(c) ==
  /\ client[c].pc = "idle"
  /\ IF analysis = None
     THEN /\ Goto(c, "takeCapture")
          /\ UNCHANGED task
     ELSE /\ client' = [client EXCEPT ![c].pc = "awaitTask", ![c].session = analysis]
          /\ task' = [task EXCEPT ![analysis].stop = TRUE]
  /\ analysis' = None
  /\ UNCHANGED <<capture, session, frames, slot, opened, processed>>

(* awaited, *)
TaskAwaited(c) ==
  /\ client[c].pc = "awaitTask"
  /\ task[client[c].session].phase = "ended"
  /\ client' = [client EXCEPT ![c].pc = "takeCapture", ![c].session = None]
  /\ UNCHANGED <<capture, analysis, session, frames, slot, task, opened, processed>>

(* then the capture is taken, if there is one, and closed, *)
TakeCapture(c) ==
  /\ client[c].pc = "takeCapture"
  /\ session' = DropSession(session, capture)
  /\ capture' = None
  /\ IF capture = None
     THEN Return(c)
     ELSE client' = [client EXCEPT ![c].pc = "awaitPortal", ![c].session = capture]
  /\ UNCHANGED <<analysis, frames, slot, task, opened, processed>>

(* and awaited in turn. *)
PortalAwaited(c) ==
  /\ client[c].pc = "awaitPortal"
  /\ session[client[c].session] = "closed"
  /\ Return(c)
  /\ UNCHANGED <<capture, analysis, session, frames, slot, task, opened, processed>>

-----------------------------------------------------------------------------
(* The PipeWire thread of a session publishes its next frame. *)
PublishFrame(s) ==
  /\ session[s] \in {"live", "closing"}
  /\ frames[s] < MaxFrames
  /\ slot' = [session |-> s, sequence |-> frames[s]]
  /\ frames' = [frames EXCEPT ![s] = @ + 1]
  /\ UNCHANGED <<capture, analysis, session, task, client, opened, processed>>

(* The portal task leaves its wait, joins the PipeWire thread and ends. *)
CloseSession(s) ==
  /\ session[s] = "closing"
  /\ session' = [session EXCEPT ![s] = "closed"]
  /\ UNCHANGED <<capture, analysis, frames, slot, task, client, opened, processed>>

(* The compositor or the user ends the session: the portal task ends, and  *)
(* nothing in the daemon is told.                                          *)
PortalCloses(s) ==
  /\ session[s] = "live"
  /\ session' = [session EXCEPT ![s] = "closed"]
  /\ UNCHANGED <<capture, analysis, frames, slot, task, client, opened, processed>>

-----------------------------------------------------------------------------
(* The sequence number the slot shows is not the last one looked at. *)
Unseen(k) ==
  /\ slot # NoFrame
  /\ task[k].last = NoFrame \/ task[k].last.sequence # slot.sequence

(* AnalysisScheduler::should_analyze, with its saturating subtraction. *)
ShouldAnalyze(k) ==
  \/ task[k].scheduled = NoFrame
  \/ slot.sequence >= task[k].scheduled.sequence + Interval

(* Mutant: the time of the analyzed frame is not kept. *)
AnalyzeUnscheduled(k) ==
  /\ task[k].phase = "polling"
  /\ Unseen(k)
  /\ ShouldAnalyze(k)
  /\ task' = [task EXCEPT ![k].phase = "processing", ![k].last = slot, ![k].frame = slot]
  /\ UNCHANGED <<capture, analysis, session, frames, slot, client, opened, processed>>

(* A tick of the poll timer that starts processing the frame in the slot; *)
Analyze(k) ==
  /\ task[k].phase = "polling"
  /\ Unseen(k)
  /\ ShouldAnalyze(k)
  /\ task' = [task EXCEPT ![k].phase = "processing", ![k].last = slot,
                          ![k].scheduled = slot, ![k].frame = slot]
  /\ UNCHANGED <<capture, analysis, session, frames, slot, client, opened, processed>>

(* one that comes too early for the frame rate of the profile. *)
Throttle(k) ==
  /\ task[k].phase = "polling"
  /\ Unseen(k)
  /\ ~ShouldAnalyze(k)
  /\ task' = [task EXCEPT ![k].last = slot]
  /\ UNCHANGED <<capture, analysis, session, frames, slot, client, opened, processed>>

(* The blocking worker has published what the frame shows. *)
FinishFrame(k) ==
  /\ task[k].phase = "processing"
  /\ task' = [task EXCEPT ![k].phase = "polling", ![k].frame = NoFrame]
  /\ processed' = [task |-> k, frame |-> task[k].frame]
  /\ UNCHANGED <<capture, analysis, session, frames, slot, client, opened>>

(* The worker panics: the task reports the error and ends. *)
WorkerFails(k) ==
  /\ task[k].phase = "processing"
  /\ task' = [task EXCEPT ![k].phase = "ended", ![k].frame = NoFrame]
  /\ UNCHANGED <<capture, analysis, session, frames, slot, client, opened, processed>>

(* The select! of the task takes its stop branch; while both branches are  *)
(* ready it may still take a tick first.                                   *)
EndTask(k) ==
  /\ task[k].phase = "polling"
  /\ task[k].stop
  /\ task' = [task EXCEPT ![k].phase = "ended"]
  /\ UNCHANGED <<capture, analysis, session, frames, slot, client, opened, processed>>

-----------------------------------------------------------------------------
SelectStep(c) ==
  BuildPipeline(c) \/ OpenPortal(c) \/ PortalDenied(c) \/ BindingFails(c)
    \/ InstallCapture(c) \/ StartAnalysis(c)
StopStep(c) == TaskAwaited(c) \/ TakeCapture(c) \/ PortalAwaited(c)
SessionStep(s) == PublishFrame(s) \/ CloseSession(s) \/ PortalCloses(s)
TaskStep(k) == Analyze(k) \/ Throttle(k) \/ FinishFrame(k) \/ WorkerFails(k) \/ EndTask(k)

Next ==
  \/ \E c \in Clients : BeginSelect(c) \/ BeginStop(c) \/ SelectStep(c) \/ StopStep(c)
  \/ \E s \in Sessions : SessionStep(s) \/ TaskStep(s)

Spec == Init /\ [][Next]_vars

(* The runtime keeps running tasks, workers and portal tasks that can run: *)
(* the stop branch of a select! is polled at every wake-up, so it is taken *)
(* even though ticks compete with it.                                      *)
Fairness ==
  /\ \A k \in Sessions : WF_vars(FinishFrame(k) \/ WorkerFails(k)) /\ SF_vars(EndTask(k))
  /\ \A s \in Sessions : WF_vars(CloseSession(s))
  /\ \A c \in Clients : WF_vars(StopStep(c)) /\ WF_vars(StartAnalysis(c))

FairSpec == Spec /\ Fairness

-----------------------------------------------------------------------------
Running(k) == task[k].phase \in {"polling", "processing"}

(* Whatever the interleaving of selects and stops, an analysis task the    *)
(* daemon can no longer reach has been told to stop: none is leaked when   *)
(* start_live_analysis overwrites the slot or stop_capture empties it.     *)
UnownedTasksAreStopping ==
  \A k \in Sessions : Running(k) /\ ~task[k].stop => analysis = k

(* A live portal session is in the capture slot or on its way to it; every *)
(* other one, of a failed select or replaced by another, is being closed.  *)
UnownedSessionsAreClosing ==
  \A s \in Sessions :
    session[s] = "live" =>
      capture = s \/ \E c \in Clients : client[c].pc = "commit" /\ client[c].session = s

(* A stop always returns: the analysis it awaits ends in spite of frames   *)
(* still arriving, and the portal task it awaits after that ends too.      *)
StopReturns ==
  \A c \in Clients :
    client[c].pc \in {"awaitTask", "takeCapture", "awaitPortal"} ~> client[c].pc = "idle"

(* SPEC-PROD-004: the analysis rate is a ceiling too: whatever frames are  *)
(* skipped, replaced or analyzed out of turn, a task analyzes no frame of  *)
(* a session twice and leaves an interval between any two.                 *)
AnalysesAreSpaced ==
  [][\A k \in Sessions :
       /\ task[k].phase = "processing" /\ task'[k].phase = "polling"
       /\ processed.task = k
       /\ processed.frame.session = task[k].frame.session
       => task[k].frame.sequence >= processed.frame.sequence + Interval]_vars

=============================================================================
