----------------------------- MODULE CaptureProofs -----------------------------
(***************************************************************************)
(* Capture sessions and their analyses, for any number of clients and      *)
(* sessions and any interval: what no slot owns is stopping, and a task    *)
(* analyzes no two frames of a session within an interval.                 *)
(***************************************************************************)
EXTENDS AutoCapture, TLAPS

(* A session number belongs to the client that opened the session until    *)
(* the analysis starts, which no other client can start again.             *)
Committing(c) == client[c].pc \in {"commit", "analyze"}
SessionsAreOwn ==
  /\ \A s \in Sessions : opened < s => task[s].phase = "none"
  /\ \A c \in Clients : Committing(c) =>
       client[c].session <= opened /\ task[client[c].session].phase = "none"
  /\ \A c, d \in Clients :
       Committing(c) /\ Committing(d) /\ client[c].session = client[d].session => c = d

(* What a task analyzed last is what it remembers to have analyzed, and    *)
(* what it is analyzing comes an interval later.                           *)
TaskIsSpaced(k) ==
  /\ task[k].phase = "processing" => task[k].frame \in Frame /\ task[k].scheduled = task[k].frame
  /\ processed.task = k =>
       /\ task[k].phase # "none" /\ processed.frame \in Frame
       /\ task[k].phase = "polling" => task[k].scheduled = processed.frame
       /\ task[k].phase = "processing" =>
            task[k].frame.sequence >= processed.frame.sequence + Interval
TasksAreSpaced == \A k \in Sessions : TaskIsSpaced(k)

LifecycleInvariant ==
  /\ TypeOK
  /\ UnownedTasksAreStopping
  /\ UnownedSessionsAreClosing
  /\ SessionsAreOwn
  /\ TasksAreSpaced

-----------------------------------------------------------------------------
(* What each step does to the one task or client that it is about.         *)
LEMMA RecordTypes ==
  ASSUME TypeOK
  PROVE  /\ \A k \in Sessions : /\ task[k] \in TaskRecord
                                /\ task[k].phase \in TaskPhase /\ task[k].stop \in BOOLEAN
                                /\ task[k].last \in SlotFrame /\ task[k].scheduled \in SlotFrame
                                /\ task[k].frame \in SlotFrame
         /\ \A c \in Clients : /\ client[c] \in ClientRecord
                               /\ client[c].pc \in Place
                               /\ client[c].session \in Sessions \cup {None}
                               /\ client[c].pipeline \in BOOLEAN
         /\ NoTask \in TaskRecord /\ Idle \in ClientRecord /\ None \notin Sessions
<1>1. NoTask \in TaskRecord /\ Idle \in ClientRecord /\ None \notin Sessions
  BY DEF NoTask, TaskRecord, TaskPhase, SlotFrame, Idle, ClientRecord, Place, None, Sessions
<1>2. \A k \in Sessions : task[k] \in TaskRecord
  BY DEF TypeOK
<1>3. \A c \in Clients : client[c] \in ClientRecord
  BY DEF TypeOK
<1>4. QED
  BY <1>1, <1>2, <1>3 DEF TaskRecord, ClientRecord

(* Only the task changes, and it stays as told.                            *)
TaskAlone(k) ==
  /\ UNCHANGED <<capture, analysis, session, frames, slot, client, opened>>
  /\ task' \in [Sessions -> TaskRecord]
  /\ task'[k].stop = task[k].stop
  /\ \A j \in Sessions \ {k} : task'[j] = task[j]

LEMMA TaskEffects ==
  ASSUME TypeOK, NEW k \in Sessions, TaskStep(k)
  PROVE  /\ TaskAlone(k) /\ task[k].phase \in {"polling", "processing"}
         /\ \/ /\ processed' = processed /\ task[k].phase = "polling" /\ ShouldAnalyze(k)
               /\ slot \in Frame
               /\ task'[k].phase = "processing"
               /\ task'[k].scheduled = slot /\ task'[k].frame = slot
            \/ /\ processed' = processed /\ task'[k].phase = task[k].phase
               /\ task'[k].scheduled = task[k].scheduled /\ task'[k].frame = task[k].frame
            \/ /\ task[k].phase = "processing" /\ task'[k].phase = "polling"
               /\ task'[k].scheduled = task[k].scheduled
               /\ processed' = [task |-> k, frame |-> task[k].frame]
            \/ processed' = processed /\ task'[k].phase = "ended"
<1>1. task \in [Sessions -> TaskRecord] /\ task[k] \in TaskRecord /\ slot \in SlotFrame
  BY DEF TypeOK
<1>2. \A q \in TaskRecord : task' = [task EXCEPT ![k] = q]
        => /\ task' \in [Sessions -> TaskRecord] /\ task'[k] = q
           /\ \A j \in Sessions \ {k} : task'[j] = task[j]
  BY <1>1
<1>3. \A phase \in TaskPhase, last \in SlotFrame, scheduled \in SlotFrame, frame \in SlotFrame :
        [task[k] EXCEPT !.phase = phase, !.last = last, !.scheduled = scheduled, !.frame = frame]
          \in TaskRecord
  BY <1>1 DEF TaskRecord
<1>4. NoFrame \in SlotFrame /\ {"polling", "processing", "ended"} \subseteq TaskPhase
  BY DEF SlotFrame, TaskPhase
<1>5. CASE Analyze(k)
  <2>1. slot \in Frame
    BY <1>1, <1>5 DEF Analyze, Unseen, SlotFrame
  <2>2. task' = [task EXCEPT ![k] = [task[k] EXCEPT !.phase = "processing", !.last = slot,
                                      !.scheduled = slot, !.frame = slot]]
    BY <1>1, <1>5 DEF Analyze
  <2>3. [task[k] EXCEPT !.phase = "processing", !.last = slot, !.scheduled = slot, !.frame = slot]
          \in TaskRecord
    BY <1>1, <1>3, <1>4
  <2>4. task'[k] = [task[k] EXCEPT !.phase = "processing", !.last = slot, !.scheduled = slot,
                                   !.frame = slot]
    BY <1>2, <2>2, <2>3
  <2>5. QED
    BY <1>1, <1>2, <1>5, <2>1, <2>2, <2>3, <2>4 DEF Analyze, TaskAlone, TaskRecord
<1>6. CASE Throttle(k)
  <2>1. task' = [task EXCEPT ![k] = [task[k] EXCEPT !.last = slot]]
    BY <1>1, <1>6 DEF Throttle
  <2>2. [task[k] EXCEPT !.last = slot] \in TaskRecord
    BY <1>1 DEF TaskRecord
  <2>3. task'[k] = [task[k] EXCEPT !.last = slot]
    BY <1>2, <2>1, <2>2
  <2>4. QED
    BY <1>1, <1>2, <1>6, <2>1, <2>2, <2>3 DEF Throttle, TaskAlone, TaskRecord
<1>7. CASE FinishFrame(k)
  <2>1. task' = [task EXCEPT ![k] = [task[k] EXCEPT !.phase = "polling", !.frame = NoFrame]]
    BY <1>1, <1>7 DEF FinishFrame
  <2>2. [task[k] EXCEPT !.phase = "polling", !.frame = NoFrame] \in TaskRecord
    BY <1>1, <1>4 DEF TaskRecord
  <2>3. task'[k] = [task[k] EXCEPT !.phase = "polling", !.frame = NoFrame]
    BY <1>2, <2>1, <2>2
  <2>4. QED
    BY <1>1, <1>2, <1>7, <2>1, <2>2, <2>3 DEF FinishFrame, TaskAlone, TaskRecord
<1>8. CASE WorkerFails(k)
  <2>1. task' = [task EXCEPT ![k] = [task[k] EXCEPT !.phase = "ended", !.frame = NoFrame]]
    BY <1>1, <1>8 DEF WorkerFails
  <2>2. [task[k] EXCEPT !.phase = "ended", !.frame = NoFrame] \in TaskRecord
    BY <1>1, <1>4 DEF TaskRecord
  <2>3. task'[k] = [task[k] EXCEPT !.phase = "ended", !.frame = NoFrame]
    BY <1>2, <2>1, <2>2
  <2>4. QED
    BY <1>1, <1>2, <1>8, <2>1, <2>2, <2>3 DEF WorkerFails, TaskAlone, TaskRecord
<1>9. CASE EndTask(k)
  <2>1. task' = [task EXCEPT ![k] = [task[k] EXCEPT !.phase = "ended"]]
    BY <1>1, <1>9 DEF EndTask
  <2>2. [task[k] EXCEPT !.phase = "ended"] \in TaskRecord
    BY <1>1, <1>4 DEF TaskRecord
  <2>3. task'[k] = [task[k] EXCEPT !.phase = "ended"]
    BY <1>2, <2>1, <2>2
  <2>4. QED
    BY <1>1, <1>2, <1>9, <2>1, <2>2, <2>3 DEF EndTask, TaskAlone, TaskRecord
<1>10. QED
  BY <1>5, <1>6, <1>7, <1>8, <1>9 DEF TaskStep

(* Only the client changes among clients.                                  *)
ClientAlone(c) ==
  /\ client' \in [Clients -> ClientRecord]
  /\ \A d \in Clients \ {c} : client'[d] = client[d]

Jump(c, place, s) == client' = [client EXCEPT ![c].pc = place, ![c].session = s]

LEMMA ClientEdits ==
  ASSUME TypeOK, NEW c \in Clients
  PROVE  /\ \A q \in ClientRecord :
              client' = [client EXCEPT ![c] = q] => ClientAlone(c) /\ client'[c] = q
         /\ \A place \in Place : Goto(c, place) =>
              /\ ClientAlone(c)
              /\ client'[c].pc = place /\ client'[c].session = client[c].session
         /\ \A place \in Place, s \in Sessions \cup {None} :
              Jump(c, place, s) =>
                /\ ClientAlone(c)
                /\ client'[c].pc = place /\ client'[c].session = s
         /\ Return(c) => ClientAlone(c) /\ client'[c].pc = "idle"
<1>1. client \in [Clients -> ClientRecord] /\ client[c] \in ClientRecord /\ Idle \in ClientRecord
  BY RecordTypes DEF TypeOK
<1>2. ASSUME NEW q \in ClientRecord, client' = [client EXCEPT ![c] = q]
      PROVE  ClientAlone(c) /\ client'[c] = q
  BY <1>1, <1>2 DEF ClientAlone
<1>3. ASSUME NEW place \in Place, Goto(c, place)
      PROVE  /\ ClientAlone(c)
             /\ client'[c].pc = place /\ client'[c].session = client[c].session
  <2>1. client' = [client EXCEPT ![c] = [client[c] EXCEPT !.pc = place]]
    BY <1>1, <1>3 DEF Goto
  <2>2. [client[c] EXCEPT !.pc = place] \in ClientRecord
    BY <1>1 DEF ClientRecord
  <2>3. ClientAlone(c) /\ client'[c] = [client[c] EXCEPT !.pc = place]
    BY <1>2, <2>1, <2>2
  <2>4. QED
    BY <1>1, <2>3 DEF ClientRecord
<1>4. ASSUME NEW place \in Place, NEW s \in Sessions \cup {None},
             Jump(c, place, s)
      PROVE  ClientAlone(c) /\ client'[c].pc = place /\ client'[c].session = s
  <2>1. client' = [client EXCEPT ![c] = [client[c] EXCEPT !.pc = place, !.session = s]]
    BY <1>1, <1>4 DEF Jump
  <2>2. [client[c] EXCEPT !.pc = place, !.session = s] \in ClientRecord
    BY <1>1 DEF ClientRecord
  <2>3. ClientAlone(c) /\ client'[c] = [client[c] EXCEPT !.pc = place, !.session = s]
    BY <1>2, <2>1, <2>2
  <2>4. QED
    BY <1>1, <2>3 DEF ClientRecord
<1>5. ASSUME Return(c)
      PROVE  ClientAlone(c) /\ client'[c].pc = "idle"
  <2>1. ClientAlone(c) /\ client'[c] = Idle
    BY <1>1, <1>2, <1>5 DEF Return
  <2>2. QED
    BY <2>1 DEF Idle
<1>6. QED
  BY <1>2, <1>3, <1>4, <1>5

(* A step of a client that touches no slot, session or task.               *)
Waits(c) ==
  /\ ClientAlone(c) /\ ~Committing(c)
  /\ client'[c].pc \in {"idle", "building", "portal", "takeCapture"}
  /\ UNCHANGED <<capture, analysis, session, frames, slot, task, opened, processed>>

LEMMA WaitingSteps ==
  ASSUME TypeOK, NEW c \in Clients,
         \/ BeginSelect(c) \/ BuildPipeline(c) \/ PortalDenied(c) \/ TaskAwaited(c)
         \/ PortalAwaited(c) \/ (BeginStop(c) /\ analysis = None) \/ (c = Monitor /\ MonitorSelects
              /\ client[c].pc = "idle")
  PROVE  Waits(c)
<1>1. {"idle", "building", "portal", "takeCapture"} \subseteq Place
  BY DEF Place
<1>2. CASE BeginSelect(c)
  <2>1. PICK pipeline \in BOOLEAN :
          client' = [client EXCEPT ![c] =
            [pc |-> IF pipeline THEN "building" ELSE "portal", session |-> None,
             pipeline |-> pipeline]]
    BY <1>2 DEF BeginSelect
  <2>2. PICK place \in {"building", "portal"} :
          client' = [client EXCEPT ![c] = [pc |-> place, session |-> None, pipeline |-> pipeline]]
    BY <2>1
  <2>3. [pc |-> place, session |-> None, pipeline |-> pipeline] \in ClientRecord
    BY <1>1 DEF ClientRecord
  <2>4. PICK q \in ClientRecord : client' = [client EXCEPT ![c] = q] /\ q.pc = place
    BY <2>2, <2>3
  <2>5. ClientAlone(c) /\ client'[c].pc = place
    BY <2>4, ClientEdits
  <2>6. QED
    BY <1>2, <2>5 DEF BeginSelect, Waits, Committing
<1>3. CASE c = Monitor /\ MonitorSelects /\ client[c].pc = "idle"
  <2>1. [pc |-> "building", session |-> None, pipeline |-> TRUE] \in ClientRecord
    BY <1>1 DEF ClientRecord
  <2>2. PICK q \in ClientRecord : client' = [client EXCEPT ![c] = q] /\ q.pc = "building"
    BY <1>3, <2>1 DEF MonitorSelects
  <2>3. ClientAlone(c) /\ client'[c].pc = "building"
    BY <2>2, ClientEdits
  <2>4. QED
    BY <1>3, <2>3 DEF MonitorSelects, Waits, Committing
<1>4. CASE BuildPipeline(c) \/ PortalDenied(c) \/ PortalAwaited(c)
  <2>1. ClientAlone(c) /\ client'[c].pc \in {"idle", "portal"}
    BY <1>1, <1>4, ClientEdits DEF BuildPipeline, PortalDenied, PortalAwaited
  <2>2. QED
    BY <1>4, <2>1 DEF BuildPipeline, PortalDenied, PortalAwaited, Waits, Committing
<1>5. CASE TaskAwaited(c)
  <2>1. Jump(c, "takeCapture", None)
    BY <1>5, Zenon DEF TaskAwaited, Jump
  <2>2. ClientAlone(c) /\ client'[c].pc = "takeCapture"
    BY <1>1, <2>1, ClientEdits
  <2>3. QED
    BY <1>5, <2>2 DEF TaskAwaited, Waits, Committing
<1>6. CASE BeginStop(c) /\ analysis = None
  <2>1. ClientAlone(c) /\ client'[c].pc = "takeCapture"
    BY <1>1, <1>6, ClientEdits DEF BeginStop
  <2>2. QED
    BY <1>6, <2>1 DEF BeginStop, Waits, Committing
<1>7. QED
  BY <1>2, <1>3, <1>4, <1>5, <1>6

(* Dropping a session closes it if it is live, and leaves the others.      *)
LEMMA Dropped ==
  ASSUME TypeOK, NEW s \in Sessions \cup {None}, session' = DropSession(session, s)
  PROVE  /\ session' \in [Sessions -> SessionState]
         /\ \A t \in Sessions : session'[t] = "live" => session[t] = "live" /\ t # s
<1>1. session \in [Sessions -> SessionState] /\ "closing" \in SessionState
  BY DEF TypeOK, SessionState
<1>2. CASE s # None /\ session[s] = "live"
  <2>1. session' = [session EXCEPT ![s] = "closing"]
    BY <1>2, Zenon DEF DropSession
  <2>2. QED
    BY <1>1, <1>2, <2>1
<1>3. CASE ~(s # None /\ session[s] = "live")
  <2>1. session' = session
    BY <1>3, Zenon DEF DropSession
  <2>2. QED
    BY <1>1, <1>3, <2>1, RecordTypes
<1>4. QED
  BY <1>2, <1>3

(* Steps of a client that touch a slot, a session or a task.               *)
LEMMA OpenEffects ==
  ASSUME TypeOK, NEW c \in Clients, OpenPortal(c)
  PROVE  \E s \in Sessions :
           /\ s = opened + 1 /\ opened' = s
           /\ session' \in [Sessions -> SessionState]
           /\ \A t \in Sessions \ {s} : session'[t] = session[t]
           /\ ClientAlone(c) /\ ~Committing(c)
           /\ client'[c].pc = "commit" /\ client'[c].session = s
           /\ UNCHANGED <<capture, analysis, frames, slot, task, processed>>
<1>1. PICK s \in Sessions : s = opened + 1
  <2>1. opened \in 0 .. MaxSessions /\ opened < MaxSessions
    BY DEF OpenPortal, TypeOK
  <2>2. QED
    BY <2>1, LifecycleAssumption DEF Sessions
<1>2. "commit" \in Place /\ "live" \in SessionState
  BY DEF Place, SessionState
<1>3. Jump(c, "commit", opened + 1)
  BY Zenon DEF OpenPortal, Jump
<1>4. ClientAlone(c) /\ client'[c].pc = "commit" /\ client'[c].session = s
  BY <1>1, <1>2, <1>3, ClientEdits
<1>5. /\ session' \in [Sessions -> SessionState]
      /\ \A t \in Sessions \ {s} : session'[t] = session[t]
  <2>1. session' = [session EXCEPT ![s] = "live"] /\ session \in [Sessions -> SessionState]
    BY <1>1 DEF OpenPortal, TypeOK
  <2>2. QED
    BY <1>2, <2>1
<1>6. QED
  BY <1>1, <1>4, <1>5 DEF OpenPortal, Committing

LEMMA BindingEffects ==
  ASSUME TypeOK, NEW c \in Clients, BindingFails(c)
  PROVE  /\ session' \in [Sessions -> SessionState]
         /\ \A t \in Sessions : session'[t] = "live" => session[t] = "live" /\ t # client[c].session
         /\ ClientAlone(c) /\ client[c].pc = "commit" /\ client'[c].pc = "idle"
         /\ UNCHANGED <<capture, analysis, frames, slot, task, opened, processed>>
BY Dropped, ClientEdits, RecordTypes DEF BindingFails

LEMMA InstallEffects ==
  ASSUME TypeOK, NEW c \in Clients, InstallCapture(c)
  PROVE  /\ session' \in [Sessions -> SessionState]
         /\ \A t \in Sessions : session'[t] = "live" => session[t] = "live" /\ t # capture
         /\ ClientAlone(c) /\ client[c].pc = "commit"
         /\ capture' = client[c].session
         /\ \/ client'[c].pc = "idle"
            \/ client'[c].pc = "analyze" /\ client'[c].session = client[c].session
         /\ UNCHANGED <<analysis, frames, slot, task, opened, processed>>
<1>1. "analyze" \in Place /\ capture \in Sessions \cup {None}
  BY DEF Place, TypeOK
<1>2. CASE client[c].pipeline
  BY <1>1, <1>2, Dropped, ClientEdits DEF InstallCapture
<1>3. CASE ~client[c].pipeline
  BY <1>1, <1>3, Dropped, ClientEdits DEF InstallCapture
<1>4. QED
  BY <1>2, <1>3

LEMMA StartEffects ==
  ASSUME TypeOK, NEW c \in Clients, StartAnalysis(c)
  PROVE  \E k \in Sessions :
           /\ k = client[c].session /\ analysis' = k
           /\ task' \in [Sessions -> TaskRecord]
           /\ task'[k].phase = "polling"
           /\ \A s \in Sessions \ {k} :
                /\ task'[s].stop = (task[s].stop \/ s = analysis)
                /\ task'[s].phase = task[s].phase /\ task'[s].frame = task[s].frame
                /\ task'[s].scheduled = task[s].scheduled
           /\ ClientAlone(c) /\ client[c].pc = "analyze" /\ client'[c].pc = "idle"
           /\ UNCHANGED <<capture, session, frames, slot, opened, processed>>
<1>1. PICK k \in Sessions : k = client[c].session
  BY RecordTypes DEF StartAnalysis, TypeOK
<1>2. task' = [s \in Sessions |->
                IF s = k THEN [NoTask EXCEPT !.phase = "polling"]
                ELSE IF s = analysis THEN [task[s] EXCEPT !.stop = TRUE]
                ELSE task[s]]
  BY <1>1 DEF StartAnalysis
<1>3. [NoTask EXCEPT !.phase = "polling"] \in TaskRecord
  BY RecordTypes DEF TaskRecord, TaskPhase
<1>4. \A s \in Sessions : [task[s] EXCEPT !.stop = TRUE] \in TaskRecord
  BY RecordTypes DEF TaskRecord
<1>5. task' \in [Sessions -> TaskRecord]
  BY <1>2, <1>3, <1>4, RecordTypes
<1>6. task'[k].phase = "polling"
  BY <1>2 DEF NoTask
<1>7. ASSUME NEW s \in Sessions \ {k}
      PROVE  /\ task'[s].stop = (task[s].stop \/ s = analysis)
             /\ task'[s].phase = task[s].phase /\ task'[s].frame = task[s].frame
             /\ task'[s].scheduled = task[s].scheduled
  <2>1. task[s] \in TaskRecord
    BY RecordTypes
  <2>2. CASE s = analysis
    <3>1. task'[s] = [task[s] EXCEPT !.stop = TRUE]
      BY <1>2, <2>2
    <3>2. QED
      BY <2>1, <2>2, <3>1 DEF TaskRecord
  <2>3. CASE s # analysis
    <3>1. task'[s] = task[s] /\ task[s].stop \in BOOLEAN
      BY <1>2, <2>3, RecordTypes
    <3>2. QED
      BY <2>3, <3>1
  <2>4. QED
    BY <2>2, <2>3
<1>8. ClientAlone(c) /\ client[c].pc = "analyze" /\ client'[c].pc = "idle"
  BY ClientEdits DEF StartAnalysis
<1>9. QED
  BY <1>1, <1>5, <1>6, <1>7, <1>8 DEF StartAnalysis

LEMMA StopEffects ==
  ASSUME TypeOK, NEW c \in Clients, BeginStop(c), analysis # None
  PROVE  /\ analysis \in Sessions /\ analysis' = None
         /\ task' \in [Sessions -> TaskRecord]
         /\ \A s \in Sessions :
              /\ task'[s].stop = (task[s].stop \/ s = analysis)
              /\ task'[s].phase = task[s].phase /\ task'[s].frame = task[s].frame
              /\ task'[s].scheduled = task[s].scheduled
         /\ ClientAlone(c) /\ client[c].pc = "idle"
         /\ client'[c].pc = "awaitTask" /\ client'[c].session # None
         /\ UNCHANGED <<capture, session, frames, slot, opened, processed>>
<1>1. analysis \in Sessions /\ task \in [Sessions -> TaskRecord] /\ "awaitTask" \in Place
  BY DEF TypeOK, Place
<1>2. Jump(c, "awaitTask", analysis) /\ task' = [task EXCEPT ![analysis].stop = TRUE]
  BY Zenon DEF BeginStop, Jump
<1>3. ClientAlone(c) /\ client'[c].pc = "awaitTask" /\ client'[c].session = analysis
  BY <1>1, <1>2, ClientEdits
<1>4. /\ task[analysis] \in TaskRecord /\ [task[analysis] EXCEPT !.stop = TRUE] \in TaskRecord
      /\ task' = [task EXCEPT ![analysis] = [task[analysis] EXCEPT !.stop = TRUE]]
  BY <1>1, <1>2 DEF TaskRecord
<1>5. /\ task' \in [Sessions -> TaskRecord]
      /\ task'[analysis] = [task[analysis] EXCEPT !.stop = TRUE]
      /\ \A s \in Sessions \ {analysis} : task'[s] = task[s]
  BY <1>1, <1>4
<1>6. /\ task'[analysis].stop /\ task'[analysis].phase = task[analysis].phase
      /\ task'[analysis].frame = task[analysis].frame
      /\ task'[analysis].scheduled = task[analysis].scheduled
  BY <1>4, <1>5 DEF TaskRecord
<1>7. ASSUME NEW s \in Sessions
      PROVE  /\ task'[s].stop = (task[s].stop \/ s = analysis)
             /\ task'[s].phase = task[s].phase /\ task'[s].frame = task[s].frame
             /\ task'[s].scheduled = task[s].scheduled
  <2>1. CASE s = analysis
    <3>1. task'[s].stop = TRUE
      BY <1>1, <1>5, <2>1 DEF TaskRecord
    <3>2. QED
      BY <1>6, <2>1, <3>1
  <2>2. CASE s # analysis
    <3>1. task'[s] = task[s] /\ task[s].stop \in BOOLEAN
      BY <1>5, <2>2, RecordTypes
    <3>2. QED
      BY <2>2, <3>1
  <2>3. QED
    BY <2>1, <2>2
<1>8. QED
  BY <1>1, <1>3, <1>5, <1>7, RecordTypes DEF BeginStop

LEMMA TakeEffects ==
  ASSUME TypeOK, NEW c \in Clients, TakeCapture(c)
  PROVE  /\ session' \in [Sessions -> SessionState]
         /\ \A t \in Sessions : session'[t] = "live" => session[t] = "live" /\ t # capture
         /\ capture' = None
         /\ ClientAlone(c) /\ client[c].pc = "takeCapture"
         /\ \/ client'[c].pc = "idle"
            \/ client'[c].pc = "awaitPortal" /\ client'[c].session # None
         /\ UNCHANGED <<analysis, frames, slot, task, opened, processed>>
<1>1. "awaitPortal" \in Place /\ capture \in Sessions \cup {None}
  BY DEF Place, TypeOK
<1>2. CASE capture = None
  BY <1>1, <1>2, Dropped, ClientEdits DEF TakeCapture
<1>3. CASE capture # None
  <2>1. Jump(c, "awaitPortal", capture)
    BY <1>3, Zenon DEF TakeCapture, Jump
  <2>2. QED
    BY <1>1, <1>3, <2>1, Dropped, ClientEdits DEF TakeCapture
<1>4. QED
  BY <1>2, <1>3

LEMMA SessionEffects ==
  ASSUME TypeOK, NEW s \in Sessions, SessionStep(s)
  PROVE  /\ session' \in [Sessions -> SessionState] /\ frames' \in [Sessions -> Nat]
         /\ slot' \in SlotFrame
         /\ \A t \in Sessions : session'[t] = "live" => session[t] = "live"
         /\ UNCHANGED <<capture, analysis, task, client, opened, processed>>
<1>1. /\ session \in [Sessions -> SessionState] /\ frames \in [Sessions -> Nat]
      /\ slot \in SlotFrame /\ "closed" \in SessionState
  BY DEF TypeOK, SessionState
<1>2. CASE PublishFrame(s)
  BY <1>1, <1>2 DEF PublishFrame, SlotFrame, Frame
<1>3. CASE CloseSession(s) \/ PortalCloses(s)
  BY <1>1, <1>3 DEF CloseSession, PortalCloses
<1>4. QED
  BY <1>2, <1>3 DEF SessionStep

-----------------------------------------------------------------------------
(* A step of the system, whoever takes it, by what it touches.             *)
LEMMA StepKinds ==
  ASSUME TypeOK, [AutoNext]_allVars
  PROVE  \/ \E c \in Clients :
              \/ Waits(c) \/ OpenPortal(c) \/ BindingFails(c) \/ InstallCapture(c)
              \/ StartAnalysis(c) \/ (BeginStop(c) /\ analysis # None) \/ TakeCapture(c)
         \/ \E s \in Sessions : SessionStep(s) \/ TaskStep(s)
         \/ UNCHANGED vars
<1>1. ASSUME NEW c \in Clients, BeginSelect(c) \/ BeginStop(c) \/ SelectStep(c) \/ StopStep(c)
      PROVE  \/ Waits(c) \/ OpenPortal(c) \/ BindingFails(c) \/ InstallCapture(c)
             \/ StartAnalysis(c) \/ (BeginStop(c) /\ analysis # None) \/ TakeCapture(c)
  BY <1>1, WaitingSteps DEF SelectStep, StopStep
<1>2. CASE ClientStep
  BY <1>1, <1>2 DEF ClientStep
<1>3. CASE Sample
  <2>1. MonitorSelects => Waits(Monitor)
    BY <1>3, WaitingSteps, MonitorAssumption DEF Sample
  <2>2. MonitorStops => Waits(Monitor) \/ (BeginStop(Monitor) /\ analysis # None)
    BY WaitingSteps, MonitorAssumption DEF MonitorStops
  <2>3. QED
    BY <1>3, <2>1, <2>2, MonitorAssumption DEF Sample
<1>4. CASE ProcessChanges \/ SetAutoCapture \/ SampleDisabled \/ UNCHANGED allVars
  BY <1>4 DEF ProcessChanges, SetAutoCapture, SampleDisabled, allVars
<1>5. QED
  BY <1>2, <1>3, <1>4 DEF AutoNext

LEMMA TypeStep ==
  ASSUME TypeOK, [AutoNext]_allVars
  PROVE  TypeOK'
<1>1. \A c \in Clients : ClientAlone(c) => client' \in [Clients -> ClientRecord]
  BY DEF ClientAlone
<1>2. \A c \in Clients :
        /\ ClientAlone(c)
        /\ client'[c].pc \in {"commit", "analyze", "awaitTask", "awaitPortal"}
             => client'[c].session # None
        => \A d \in Clients : client'[d].pc \in {"commit", "analyze", "awaitTask", "awaitPortal"}
                                => client'[d].session # None
  BY DEF ClientAlone, TypeOK
<1>3. ASSUME NEW c \in Clients, Waits(c)
      PROVE  TypeOK'
  BY <1>1, <1>2, <1>3 DEF Waits, TypeOK
<1>4. ASSUME NEW c \in Clients, OpenPortal(c)
      PROVE  TypeOK'
  <2>1. PICK s \in Sessions :
           /\ s = opened + 1 /\ opened' = s
           /\ session' \in [Sessions -> SessionState]
           /\ ClientAlone(c) /\ client'[c].session = s
           /\ UNCHANGED <<capture, analysis, frames, slot, task, processed>>
    BY <1>4, OpenEffects
  <2>2. opened' \in 0 .. MaxSessions /\ s # None
    BY <2>1, LifecycleAssumption, RecordTypes DEF Sessions
  <2>3. QED
    BY <1>1, <1>2, <2>1, <2>2 DEF TypeOK
<1>5. ASSUME NEW c \in Clients, BindingFails(c)
      PROVE  TypeOK'
  BY <1>1, <1>2, <1>5, BindingEffects DEF TypeOK
<1>6. ASSUME NEW c \in Clients, InstallCapture(c)
      PROVE  TypeOK'
  <2>1. client[c].session \in Sessions
    BY <1>6, InstallEffects, RecordTypes DEF TypeOK
  <2>2. client[c].session # None
    BY <2>1, RecordTypes
  <2>3. QED
    BY <1>1, <1>2, <1>6, <2>1, <2>2, InstallEffects DEF TypeOK
<1>7. ASSUME NEW c \in Clients, StartAnalysis(c)
      PROVE  TypeOK'
  BY <1>1, <1>2, <1>7, StartEffects DEF TypeOK
<1>8. ASSUME NEW c \in Clients, BeginStop(c), analysis # None
      PROVE  TypeOK'
  BY <1>1, <1>2, <1>8, StopEffects DEF TypeOK
<1>9. ASSUME NEW c \in Clients, TakeCapture(c)
      PROVE  TypeOK'
  BY <1>1, <1>2, <1>9, TakeEffects DEF TypeOK
<1>10. ASSUME NEW s \in Sessions, SessionStep(s)
       PROVE  TypeOK'
  BY <1>10, SessionEffects DEF TypeOK
<1>11. ASSUME NEW s \in Sessions, TaskStep(s)
       PROVE  TypeOK'
  <2>1. task' \in [Sessions -> TaskRecord]
        /\ UNCHANGED <<capture, analysis, session, frames, slot, client, opened>>
    BY <1>11, TaskEffects DEF TaskAlone
  <2>2. processed' \in [task : Sessions \cup {None}, frame : SlotFrame]
    BY <1>11, TaskEffects, RecordTypes DEF TypeOK
  <2>3. QED
    BY <2>1, <2>2 DEF TypeOK
<1>12. CASE UNCHANGED vars
  BY <1>12 DEF vars, TypeOK
<1>13. QED
  BY <1>3, <1>4, <1>5, <1>6, <1>7, <1>8, <1>9, <1>10, <1>11, <1>12, StepKinds

(* A task loses its slot to a stop, or to a task that replaces it, and is  *)
(* told to stop in that step.                                              *)
LEMMA TasksStep ==
  ASSUME TypeOK, UnownedTasksAreStopping, [AutoNext]_allVars
  PROVE  UnownedTasksAreStopping'
<1>1. ASSUME UNCHANGED <<task, analysis>>
      PROVE  UnownedTasksAreStopping'
  BY <1>1 DEF UnownedTasksAreStopping, Running
<1>2. ASSUME NEW c \in Clients, StartAnalysis(c)
      PROVE  UnownedTasksAreStopping'
  BY <1>2, StartEffects DEF UnownedTasksAreStopping, Running
<1>3. ASSUME NEW c \in Clients, BeginStop(c), analysis # None
      PROVE  UnownedTasksAreStopping'
  BY <1>3, StopEffects DEF UnownedTasksAreStopping, Running
<1>4. ASSUME NEW k \in Sessions, TaskStep(k)
      PROVE  UnownedTasksAreStopping'
  BY <1>4, TaskEffects DEF UnownedTasksAreStopping, Running, TaskAlone
<1>5. QED
  BY <1>1, <1>2, <1>3, <1>4, StepKinds, OpenEffects, BindingEffects, InstallEffects, TakeEffects,
     SessionEffects DEF Waits, vars

(* A session is live from the portal to the slot, and whoever replaces or  *)
(* drops it closes it.                                                     *)
LEMMA SessionsStep ==
  ASSUME TypeOK, UnownedSessionsAreClosing, [AutoNext]_allVars
  PROVE  UnownedSessionsAreClosing'
<1>1. ASSUME NEW s \in Sessions, session[s] = "live", capture # s
      PROVE  \E c \in Clients : client[c].pc = "commit" /\ client[c].session = s
  BY <1>1 DEF UnownedSessionsAreClosing
<1>2. ASSUME NEW c \in Clients, Waits(c)
      PROVE  UnownedSessionsAreClosing'
  BY <1>1, <1>2 DEF UnownedSessionsAreClosing, Waits, ClientAlone, Committing
<1>3. ASSUME NEW c \in Clients, OpenPortal(c)
      PROVE  UnownedSessionsAreClosing'
  <2>1. PICK s \in Sessions :
           /\ \A t \in Sessions \ {s} : session'[t] = session[t]
           /\ ClientAlone(c) /\ ~Committing(c)
           /\ client'[c].pc = "commit" /\ client'[c].session = s /\ capture' = capture
    BY <1>3, OpenEffects
  <2>2. QED
    BY <1>1, <2>1 DEF UnownedSessionsAreClosing, ClientAlone, Committing
<1>4. ASSUME NEW c \in Clients, BindingFails(c)
      PROVE  UnownedSessionsAreClosing'
  BY <1>1, <1>4, BindingEffects DEF UnownedSessionsAreClosing, ClientAlone
<1>5. ASSUME NEW c \in Clients, InstallCapture(c)
      PROVE  UnownedSessionsAreClosing'
  BY <1>1, <1>5, InstallEffects DEF UnownedSessionsAreClosing, ClientAlone
<1>6. ASSUME NEW c \in Clients, StartAnalysis(c)
      PROVE  UnownedSessionsAreClosing'
  BY <1>1, <1>6, StartEffects DEF UnownedSessionsAreClosing, ClientAlone
<1>7. ASSUME NEW c \in Clients, BeginStop(c), analysis # None
      PROVE  UnownedSessionsAreClosing'
  BY <1>1, <1>7, StopEffects DEF UnownedSessionsAreClosing, ClientAlone
<1>8. ASSUME NEW c \in Clients, TakeCapture(c)
      PROVE  UnownedSessionsAreClosing'
  BY <1>1, <1>8, TakeEffects DEF UnownedSessionsAreClosing, ClientAlone
<1>9. ASSUME NEW s \in Sessions, SessionStep(s) \/ TaskStep(s)
      PROVE  UnownedSessionsAreClosing'
  <2>1. /\ \A t \in Sessions : session'[t] = "live" => session[t] = "live"
        /\ UNCHANGED <<capture, client>>
    BY <1>9, SessionEffects, TaskEffects DEF TaskAlone
  <2>2. QED
    BY <1>1, <2>1 DEF UnownedSessionsAreClosing
<1>10. CASE UNCHANGED vars
  BY <1>1, <1>10 DEF UnownedSessionsAreClosing, vars
<1>11. QED
  BY <1>2, <1>3, <1>4, <1>5, <1>6, <1>7, <1>8, <1>9, <1>10, StepKinds

(* A session number is handed out once, so its task is started once.       *)
LEMMA OwnStep ==
  ASSUME TypeOK, SessionsAreOwn, [AutoNext]_allVars
  PROVE  SessionsAreOwn'
<1>1. opened \in Nat /\ \A s \in Sessions : s \in Nat
  BY LifecycleAssumption DEF TypeOK, Sessions
<1>2. ASSUME NEW c \in Clients, ClientAlone(c), opened' = opened,
             \A s \in Sessions : task'[s].phase = task[s].phase,
             Committing(c)' => Committing(c) /\ client'[c].session = client[c].session
      PROVE  SessionsAreOwn'
  <2>1. \A d \in Clients : Committing(d)' => /\ Committing(d)
                                             /\ client'[d].session = client[d].session
                                             /\ client[d].session \in Sessions
    <3>1. \A d \in Clients : Committing(d) => client[d].session \in Sessions
      BY RecordTypes DEF Committing, TypeOK
    <3>2. QED
      BY <1>2, <3>1 DEF ClientAlone, Committing
  <2>2. QED
    BY <1>2, <2>1 DEF SessionsAreOwn
<1>3. ASSUME NEW c \in Clients, Waits(c)
      PROVE  SessionsAreOwn'
  BY <1>2, <1>3 DEF Waits, Committing
<1>4. ASSUME NEW c \in Clients, OpenPortal(c)
      PROVE  SessionsAreOwn'
  <2>1. PICK s \in Sessions :
           /\ s = opened + 1 /\ opened' = s
           /\ ClientAlone(c) /\ ~Committing(c)
           /\ client'[c].pc = "commit" /\ client'[c].session = s
           /\ task' = task
    BY <1>4, OpenEffects
  <2>2. task[s].phase = "none" /\ \A t \in Sessions : opened' < t => opened < t
    BY <1>1, <2>1 DEF SessionsAreOwn
  <2>3. \A d \in Clients \ {c} : Committing(d)' =>
          /\ Committing(d) /\ client'[d].session = client[d].session
          /\ client[d].session <= opened /\ client[d].session \in Sessions
          /\ task[client[d].session].phase = "none"
    BY <2>1, RecordTypes DEF SessionsAreOwn, ClientAlone, Committing, TypeOK
  <2>4. \A d \in Clients \ {c} : Committing(d)' =>
          client'[d].session <= opened' /\ client'[d].session # s
    <3>1. \A n \in Sessions : n <= opened => n <= s /\ n # s
      BY <1>1, <2>1
    <3>2. QED
      BY <2>1, <2>3, <3>1
  <2>5. \A d \in Clients : Committing(d)' =>
          client'[d].session <= opened' /\ task'[client'[d].session].phase = "none"
    BY <1>1, <2>1, <2>2, <2>3, <2>4
  <2>6. \A d, e \in Clients :
          Committing(d)' /\ Committing(e)' /\ client'[d].session = client'[e].session => d = e
    BY <2>1, <2>3, <2>4 DEF SessionsAreOwn
  <2>7. QED
    BY <2>1, <2>2, <2>5, <2>6 DEF SessionsAreOwn
<1>5. ASSUME NEW c \in Clients, BindingFails(c)
      PROVE  SessionsAreOwn'
  BY <1>2, <1>5, BindingEffects DEF Committing
<1>6. ASSUME NEW c \in Clients, InstallCapture(c)
      PROVE  SessionsAreOwn'
  BY <1>2, <1>6, InstallEffects DEF Committing
<1>7. ASSUME NEW c \in Clients, StartAnalysis(c)
      PROVE  SessionsAreOwn'
  <2>1. PICK k \in Sessions :
           /\ k = client[c].session
           /\ \A s \in Sessions \ {k} : task'[s].phase = task[s].phase
           /\ ClientAlone(c) /\ client[c].pc = "analyze" /\ client'[c].pc = "idle"
           /\ opened' = opened
    BY <1>7, StartEffects
  <2>2. k <= opened
    BY <2>1 DEF SessionsAreOwn, Committing
  <2>3. \A d \in Clients : Committing(d)' =>
          /\ d # c /\ Committing(d) /\ client'[d].session = client[d].session
          /\ client[d].session \in Sessions \ {k}
    BY <2>1, RecordTypes DEF SessionsAreOwn, ClientAlone, Committing, TypeOK
  <2>4. \A s \in Sessions : opened' < s => task'[s].phase = "none"
    BY <1>1, <2>1, <2>2 DEF SessionsAreOwn
  <2>5. QED
    BY <2>1, <2>3, <2>4 DEF SessionsAreOwn
<1>8. ASSUME NEW c \in Clients, BeginStop(c), analysis # None
      PROVE  SessionsAreOwn'
  BY <1>2, <1>8, StopEffects DEF Committing
<1>9. ASSUME NEW c \in Clients, TakeCapture(c)
      PROVE  SessionsAreOwn'
  BY <1>2, <1>9, TakeEffects DEF Committing
<1>10. ASSUME NEW k \in Sessions, TaskStep(k)
       PROVE  SessionsAreOwn'
  <2>1. /\ \A j \in Sessions : task[j].phase = "none" => task'[j].phase = "none"
        /\ UNCHANGED <<client, opened>>
    BY <1>10, TaskEffects DEF TaskAlone
  <2>2. \A d \in Clients : Committing(d) => client[d].session \in Sessions
    BY RecordTypes DEF Committing, TypeOK
  <2>3. QED
    BY <2>1, <2>2 DEF SessionsAreOwn, Committing
<1>11. CASE UNCHANGED <<client, opened, task>>
  BY <1>11 DEF SessionsAreOwn, Committing
<1>12. QED
  BY <1>3, <1>4, <1>5, <1>6, <1>7, <1>8, <1>9, <1>10, <1>11, StepKinds, SessionEffects DEF vars

(* A task takes the frame in the slot when it lies an interval after the   *)
(* frame it took last, which is the last one it finished.                  *)
LEMMA SpacedStep ==
  ASSUME TypeOK, SessionsAreOwn, TasksAreSpaced, [AutoNext]_allVars
  PROVE  TasksAreSpaced'
<1>1. ASSUME NEW k \in Sessions, processed' = processed, task'[k].phase = task[k].phase,
             task'[k].frame = task[k].frame, task'[k].scheduled = task[k].scheduled
      PROVE  TaskIsSpaced(k)'
  BY <1>1 DEF TasksAreSpaced, TaskIsSpaced
<1>2. ASSUME NEW c \in Clients, StartAnalysis(c)
      PROVE  TasksAreSpaced'
  <2>1. PICK k \in Sessions :
           /\ k = client[c].session /\ task'[k].phase = "polling"
           /\ \A s \in Sessions \ {k} :
                /\ task'[s].phase = task[s].phase /\ task'[s].frame = task[s].frame
                /\ task'[s].scheduled = task[s].scheduled
           /\ client[c].pc = "analyze" /\ processed' = processed
    BY <1>2, StartEffects
  <2>2. processed.task # k
    BY <2>1 DEF SessionsAreOwn, Committing, TasksAreSpaced, TaskIsSpaced
  <2>3. TaskIsSpaced(k)'
    BY <2>1, <2>2 DEF TaskIsSpaced
  <2>4. QED
    BY <1>1, <2>1, <2>3 DEF TasksAreSpaced
<1>3. ASSUME NEW c \in Clients, BeginStop(c), analysis # None
      PROVE  TasksAreSpaced'
  BY <1>1, <1>3, StopEffects DEF TasksAreSpaced
<1>4. ASSUME NEW k \in Sessions, TaskStep(k)
      PROVE  TasksAreSpaced'
  <2>1. \A j \in Sessions \ {k} : task'[j] = task[j]
    BY <1>4, TaskEffects DEF TaskAlone
  <2>2. CASE /\ processed' = processed /\ task[k].phase = "polling" /\ ShouldAnalyze(k)
             /\ slot \in Frame
             /\ task'[k].phase = "processing" /\ task'[k].scheduled = slot /\ task'[k].frame = slot
    <3>1. TaskIsSpaced(k)'
      <4>1. ASSUME processed.task = k
            PROVE  slot.sequence >= processed.frame.sequence + Interval
        <5>1. task[k].scheduled = processed.frame /\ processed.frame \in Frame
          BY <2>2, <4>1 DEF TasksAreSpaced, TaskIsSpaced
        <5>2. task[k].scheduled # NoFrame
          BY <5>1, RecordTypes DEF Frame, NoFrame
        <5>3. QED
          BY <2>2, <5>1, <5>2 DEF ShouldAnalyze
      <4>2. processed.task = k => processed.frame \in Frame
        BY DEF TasksAreSpaced, TaskIsSpaced
      <4>3. QED
        BY <2>2, <4>1, <4>2 DEF TaskIsSpaced
    <3>2. QED
      BY <1>1, <2>1, <2>2, <3>1 DEF TasksAreSpaced
  <2>3. CASE /\ processed' = processed /\ task'[k].phase = task[k].phase
             /\ task'[k].scheduled = task[k].scheduled /\ task'[k].frame = task[k].frame
    BY <1>1, <2>1, <2>3 DEF TasksAreSpaced
  <2>4. CASE /\ task[k].phase = "processing" /\ task'[k].phase = "polling"
             /\ task'[k].scheduled = task[k].scheduled
             /\ processed' = [task |-> k, frame |-> task[k].frame]
    <3>1. task[k].frame \in Frame /\ task[k].scheduled = task[k].frame
      BY <2>4 DEF TasksAreSpaced, TaskIsSpaced
    <3>2. TaskIsSpaced(k)'
      BY <2>4, <3>1 DEF TaskIsSpaced
    <3>3. ASSUME NEW j \in Sessions \ {k}
          PROVE  TaskIsSpaced(j)'
      BY <2>1, <2>4 DEF TasksAreSpaced, TaskIsSpaced
    <3>4. QED
      BY <3>2, <3>3 DEF TasksAreSpaced
  <2>5. CASE processed' = processed /\ task'[k].phase = "ended"
    <3>1. TaskIsSpaced(k)'
      BY <2>5 DEF TasksAreSpaced, TaskIsSpaced
    <3>2. QED
      BY <1>1, <2>1, <2>5, <3>1 DEF TasksAreSpaced
  <2>6. QED
    BY <1>4, <2>2, <2>3, <2>4, <2>5, TaskEffects
<1>5. ASSUME UNCHANGED <<task, processed>>
      PROVE  TasksAreSpaced'
  BY <1>1, <1>5 DEF TasksAreSpaced
<1>6. QED
  BY <1>2, <1>3, <1>4, <1>5, StepKinds, OpenEffects, BindingEffects, InstallEffects, TakeEffects,
     SessionEffects DEF Waits, vars

(* What the monitor remembers is of its type.                              *)
MonitorTypeOK ==
  /\ enabled \in BOOLEAN
  /\ process \in Sighting
  /\ previous \in Sighting \cup {"unknown"}
  /\ stable \in 0 .. StableSamples
  /\ changes \in 0 .. MaxChanges

LEMMA MonitorStep ==
  ASSUME MonitorTypeOK, [AutoNext]_allVars
  PROVE  MonitorTypeOK'
<1>1. CASE Sample
  <2>1. Seen \in 0 .. StableSamples
    BY DEF MonitorTypeOK, Seen, StableSamples
  <2>2. QED
    BY <1>1, <2>1 DEF Sample, MonitorTypeOK
<1>2. CASE SampleDisabled
  BY <1>2 DEF SampleDisabled, MonitorTypeOK, StableSamples
<1>3. CASE ProcessChanges \/ SetAutoCapture
  <2>1. changes' \in 0 .. MaxChanges
    BY <1>3, MonitorAssumption DEF ProcessChanges, SetAutoCapture, MonitorTypeOK
  <2>2. /\ enabled' \in BOOLEAN /\ process' \in Sighting /\ UNCHANGED <<previous, stable>>
    BY <1>3 DEF ProcessChanges, SetAutoCapture, MonitorTypeOK
  <2>3. QED
    BY <2>1, <2>2 DEF MonitorTypeOK
<1>4. CASE UNCHANGED monitorVars
  BY <1>4 DEF monitorVars, MonitorTypeOK
<1>5. QED
  BY <1>1, <1>2, <1>3, <1>4 DEF AutoNext, allVars

AutoInvariant == LifecycleInvariant /\ MonitorTypeOK

LEMMA CaptureInit ==
  ASSUME AutoInit
  PROVE  AutoInvariant
<1>1. /\ \A s \in Sessions : session[s] = "none" /\ task[s] = NoTask
      /\ \A c \in Clients : client[c] = Idle
      /\ processed = [task |-> None, frame |-> NoFrame]
  BY DEF AutoInit, LifecycleInit
<1>2. TypeOK
  <2>1. frames \in [Sessions -> Nat]
    BY LifecycleAssumption DEF AutoInit, Published
  <2>2. NoFrame \in SlotFrame /\ "none" \in SessionState /\ 0 \in 0 .. MaxSessions
    BY LifecycleAssumption DEF SlotFrame, SessionState
  <2>3. NoTask \in TaskRecord /\ Idle \in ClientRecord
    BY DEF NoTask, TaskRecord, TaskPhase, SlotFrame, Idle, ClientRecord, Place
  <2>4. \A c \in Clients : client[c].pc = "idle"
    BY <1>1 DEF Idle
  <2>5. /\ session \in [Sessions -> SessionState] /\ task \in [Sessions -> TaskRecord]
        /\ client \in [Clients -> ClientRecord]
    BY <2>2, <2>3 DEF AutoInit, LifecycleInit
  <2>6. /\ capture = None /\ analysis = None /\ slot \in SlotFrame /\ opened \in 0 .. MaxSessions
        /\ processed \in [task : Sessions \cup {None}, frame : SlotFrame]
    BY <2>2 DEF AutoInit, LifecycleInit
  <2>7. QED
    BY <2>1, <2>4, <2>5, <2>6 DEF TypeOK
<1>3. UnownedTasksAreStopping /\ UnownedSessionsAreClosing
  BY <1>1 DEF UnownedTasksAreStopping, UnownedSessionsAreClosing, Running, NoTask
<1>4. SessionsAreOwn
  BY <1>1 DEF SessionsAreOwn, Committing, NoTask, Idle
<1>5. TasksAreSpaced
  BY <1>1 DEF TasksAreSpaced, TaskIsSpaced, NoTask, None, Sessions
<1>6. MonitorTypeOK
  <2>1. /\ 0 \in 0 .. MaxChanges /\ MaxChanges \in 0 .. MaxChanges
        /\ 0 \in 0 .. StableSamples
    BY MonitorAssumption DEF StableSamples
  <2>2. enabled \in BOOLEAN
    BY DEF AutoInit
  <2>3. changes \in 0 .. MaxChanges
    BY <2>1, Zenon DEF AutoInit
  <2>4. process \in Sighting /\ previous = "unknown" /\ stable = 0
    BY DEF AutoInit
  <2>5. QED
    BY <2>1, <2>2, <2>3, <2>4 DEF MonitorTypeOK
<1>7. QED
  BY <1>2, <1>3, <1>4, <1>5, <1>6 DEF AutoInvariant, LifecycleInvariant

LEMMA AutoIsInvariant == AutoSpec => []AutoInvariant
<1>1. AutoInit => AutoInvariant
  BY CaptureInit
<1>2. AutoInvariant /\ [AutoNext]_allVars => AutoInvariant'
  BY TypeStep, TasksStep, SessionsStep, OwnStep, SpacedStep, MonitorStep
    DEF AutoInvariant, LifecycleInvariant
<1>3. QED
  BY <1>1, <1>2, PTL DEF AutoSpec

(* Whatever selects, stops, failures and samples of the monitor do at the  *)
(* same time, a task that runs is in the analysis slot or was told to      *)
(* stop, and a live session is in the capture slot or with the client that *)
(* opened it: nothing runs that the daemon cannot reach.                   *)
THEOREM NothingIsLeaked == AutoSpec => []CaptureInvariant
<1>1. AutoInvariant => CaptureInvariant
  BY DEF AutoInvariant, LifecycleInvariant, CaptureInvariant, AutoTypeOK, MonitorTypeOK
<1>2. QED
  BY <1>1, AutoIsInvariant, PTL

(* An analysis never comes closer than an interval to the one before it,   *)
(* of whatever session the frames are that the slot holds and however many *)
(* of them are skipped.                                                    *)
THEOREM RateIsACeiling == AutoSpec => AnalysesAreSpaced
<1>1. AutoInvariant =>
        \A k \in Sessions : task[k].phase = "processing" /\ processed.task = k
          => task[k].frame.sequence >= processed.frame.sequence + Interval
  BY DEF AutoInvariant, LifecycleInvariant, TasksAreSpaced, TaskIsSpaced
<1>2. AutoInvariant =>
        [\A k \in Sessions :
           /\ task[k].phase = "processing" /\ task'[k].phase = "polling"
           /\ processed.task = k
           /\ processed.frame.session = task[k].frame.session
           => task[k].frame.sequence >= processed.frame.sequence + Interval]_vars
  BY <1>1
<1>3. QED
  BY <1>2, AutoIsInvariant, PTL DEF AnalysesAreSpaced
=============================================================================
