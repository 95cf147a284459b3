---------------------------- MODULE AutoCapture ----------------------------
(***************************************************************************)
(* The auto-capture monitor of the daemon (the task spawned by run): every *)
(* two seconds it looks for the game process of the active profile and,    *)
(* after two equal sightings, selects or stops the capture like any other  *)
(* client.  It runs one select or stop at a time and samples nothing in    *)
(* between.  Composed with CaptureLifecycle, whose clients it joins.       *)
(***************************************************************************)
EXTENDS CaptureLifecycle

CONSTANTS
  Monitor,    \* the client that stands for the monitor
  MaxChanges  \* bound: times the process or the setting changes

ASSUME MonitorAssumption == Monitor \in Clients /\ MaxChanges \in Nat

VARIABLES
  enabled,   \* auto_capture of the binding of the active profile
  process,   \* "running" or "gone": the game process
  previous,  \* what the last sample saw
  stable,    \* equal samples in a row, up to the two that matter
  changes    \* changes of process or enabled so far

monitorVars == <<enabled, process, previous, stable, changes>>
allVars == <<vars, monitorVars>>

Sighting == {"running", "gone"}
StableSamples == 2

AutoTypeOK ==
  /\ TypeOK
  /\ enabled \in BOOLEAN
  /\ process \in Sighting
  /\ previous \in Sighting \cup {"unknown"}
  /\ stable \in 0 .. StableSamples
  /\ changes \in 0 .. MaxChanges

(* Bound: frames only arrive in the behaviours whose policy stays off; in  *)
(* the others, the sessions have used up their frames from the start.  The *)
(* monitor never looks at a frame.                                         *)
Published(n) == frames = [s \in Sessions |-> n]

AutoInit ==
  /\ LifecycleInit
  /\ \/ enabled \in BOOLEAN /\ changes = 0 /\ Published(MaxFrames)
     \/ enabled = FALSE /\ changes = MaxChanges /\ Published(0)
  /\ process \in Sighting
  /\ previous = "unknown"
  /\ stable = 0

(* The game starts or exits. *)
ProcessChanges ==
  /\ changes < MaxChanges
  /\ changes' = changes + 1
  /\ process' \in Sighting \ {process}
  /\ UNCHANGED <<vars, enabled, previous, stable>>

(* capture.set_auto_capture (set_auto_capture). *)
SetAutoCapture ==
  /\ changes < MaxChanges
  /\ changes' = changes + 1
  /\ enabled' = ~enabled
  /\ UNCHANGED <<vars, process, previous, stable>>

(* A sample while the policy is off forgets what was seen. *)
SampleDisabled ==
  /\ client[Monitor].pc = "idle"
  /\ ~enabled
  /\ previous' = "unknown"
  /\ stable' = 0
  /\ UNCHANGED <<vars, enabled, process, changes>>

(* Mutant: a monitor that selects once per appearance. *)
SelectsOnce ==
  /\ capture = None
  /\ stable < StableSamples
  /\ client' = [client EXCEPT ![Monitor] =
       [pc |-> "building", session |-> None, pipeline |-> TRUE]]
  /\ UNCHANGED <<capture, analysis, session, frames, slot, task, opened, processed>>

(* stable_samples after this sample. *)
Seen ==
  IF previous # process THEN 1
  ELSE IF stable < StableSamples THEN stable + 1 ELSE StableSamples

(* select_capture and stop_capture, for the active profile. *)
MonitorSelects ==
  /\ capture = None
  /\ client' = [client EXCEPT ![Monitor] =
       [pc |-> "building", session |-> None, pipeline |-> TRUE]]
  /\ UNCHANGED <<capture, analysis, session, frames, slot, task, opened, processed>>

MonitorStops == capture # None /\ BeginStop(Monitor)

(* A sample, and what it makes the monitor do: select when the process is  *)
(* stably there and nothing is captured, stop when it is stably gone and   *)
(* something is.                                                           *)
Sample ==
  /\ client[Monitor].pc = "idle"
  /\ enabled
  /\ previous' = process
  /\ stable' = Seen
  /\ \/ Seen >= StableSamples /\ process = "running" /\ MonitorSelects
     \/ Seen >= StableSamples /\ process = "gone" /\ MonitorStops
     \/ /\ Seen < StableSamples \/ (process = "running" <=> capture # None)
        /\ UNCHANGED vars
  /\ UNCHANGED <<enabled, process, changes>>

ClientStep ==
  \/ \E c \in Clients \ {Monitor} : BeginSelect(c) \/ BeginStop(c)
  \/ \E c \in Clients : SelectStep(c) \/ StopStep(c)
  \/ \E s \in Sessions : SessionStep(s) \/ TaskStep(s)

AutoNext ==
  \/ ProcessChanges
  \/ SetAutoCapture
  \/ SampleDisabled
  \/ Sample
  \/ ClientStep /\ UNCHANGED monitorVars

(* The monitor's timer keeps firing, and a portal that is asked answers. *)
AutoSpec ==
  /\ AutoInit
  /\ [][AutoNext]_allVars
  /\ WF_allVars(Sample)
  /\ WF_allVars(SampleDisabled)
  /\ \A k \in Sessions :
       WF_allVars((FinishFrame(k) \/ WorkerFails(k)) /\ UNCHANGED monitorVars)
         /\ SF_allVars(EndTask(k) /\ UNCHANGED monitorVars)
  /\ \A s \in Sessions : WF_allVars(CloseSession(s) /\ UNCHANGED monitorVars)
  /\ \A c \in Clients :
       WF_allVars((StopStep(c) \/ SelectStep(c)) /\ UNCHANGED monitorVars)

-----------------------------------------------------------------------------
(* SPEC-UI-008: while the process stays gone, the capture is stopped again *)
(* and again, whoever else keeps starting it.                              *)
DisappearanceStopsCapture ==
  <>[](enabled /\ process = "gone") => []<>(capture = None)

(* A session the compositor closed keeps the slot: the daemon is not told. *)
HeldByClosed == capture # None /\ session[capture] = "closed"
Capturing == capture # None /\ session[capture] = "live"

(* SPEC-UI-008: while the process runs, the monitor again and again either *)
(* finds a live capture or is busy starting one, however often the picker  *)
(* is denied or the start fails - unless a session that was closed from    *)
(* outside holds the slot.                                                 *)
AppearanceSelectsCapture ==
  <>[](enabled /\ process = "running" /\ ~HeldByClosed)
    => []<>(Capturing \/ client[Monitor].pc # "idle")

(* What the capture slots no longer own is on its way out: no analysis and *)
(* no session is forgotten while it runs (stop_capture and its callers).   *)
CaptureInvariant == AutoTypeOK /\ UnownedTasksAreStopping /\ UnownedSessionsAreClosing

(* SPEC-UI-008: the monitor does not rest while the process and the        *)
(* capture disagree, neither after one stop nor after one failed start.    *)
CaptureFollowsProcess == DisappearanceStopsCapture /\ AppearanceSelectsCapture
=============================================================================
