---------------------------- MODULE Publication ----------------------------
(***************************************************************************)
(* How analyzed frames become output: publish_context_transition,          *)
(* publish_processed and publish_current_state of the daemon, with the     *)
(* OutputWriter they share.  A publisher is a thread that processes frames *)
(* (the live analysis, a replay, or a live analysis that is ending); each  *)
(* of them allocates sequence numbers from one atomic counter, and takes   *)
(* the output lock once for an append and once for a state write.          *)
(*                                                                         *)
(* Records stand for JSON lines; a line has the daemon instance and the    *)
(* sequence number that a consumer uses to order and deduplicate.          *)
(***************************************************************************)
EXTENDS Naturals, Sequences, FiniteSets

CONSTANTS
  Publishers,   \* threads that publish frames
  Live,         \* those that run a live analysis; the others replay a file
  FlushEvery,   \* flush_every_transitions; 0 leaves the buffer to itself
  RotateAfter,  \* rotate_after_bytes, counted in lines; 0 never rotates
  MaxSequence,  \* bound: records of the first instance; each restart has one less
  MaxRestarts   \* bound: restarts of the daemon

ASSUME OutputAssumption ==
  /\ Live \subseteq Publishers
  /\ FlushEvery \in Nat
  /\ RotateAfter \in Nat
  /\ MaxSequence \in Nat
  /\ MaxRestarts \in Nat

VARIABLES
  instance,   \* identity of the running daemon
  sequence,   \* State.sequence
  publisher,  \* thread -> where it is in publishing a frame
  writerOpen, \* the event writer has been created
  buffer,     \* lines in its BufWriter
  unflushed,  \* transitions_since_flush
  log,        \* events.jsonl
  rotated,    \* events.jsonl.1
  notified,   \* records sent to subscriptions (history)
  routed,     \* events handed to the output routes (history)
  overlapped, \* two publishers were busy at once since the start (history)
  stateFile,  \* state.json
  latest      \* latest_snapshot, what state.get answers

logVars == <<writerOpen, buffer, unflushed, log, rotated>>
vars ==
  <<instance, sequence, publisher, logVars, notified, routed, overlapped, stateFile, latest>>

Kind == {"context", "event"}
Record == [instance : Nat, sequence : Nat, kind : Kind]
Snapshot == [instance : Nat, sequence : Nat, by : Publishers \cup {"startup"}]
Place == {"idle", "begun", "frame", "allocated", "appended", "failed", "notified", "snapshot", "written"}
Resting == [pc |-> "idle", kind |-> "event", number |-> 0]

TypeOK ==
  /\ instance \in Nat
  /\ sequence \in Nat
  /\ publisher \in [Publishers -> [pc : Place, kind : Kind, number : Nat]]
  /\ writerOpen \in BOOLEAN
  /\ buffer \in Seq(Record)
  /\ unflushed \in 0 .. Len(buffer)
  /\ log \in Seq(Record)
  /\ rotated \in Seq(Record)
  /\ notified \in Seq(Record)
  /\ routed \in Seq(Record)
  /\ overlapped \in BOOLEAN
  /\ stateFile \in Snapshot
  /\ latest \in Snapshot

Startup(i) == [instance |-> i, sequence |-> 0, by |-> "startup"]

Init ==
  /\ instance = 0
  /\ sequence = 0
  /\ publisher = [p \in Publishers |-> Resting]
  /\ writerOpen = FALSE
  /\ unflushed = 0
  /\ buffer = <<>>
  /\ log = <<>>
  /\ rotated = <<>>
  /\ notified = <<>>
  /\ routed = <<>>
  /\ overlapped = FALSE
  /\ stateFile = Startup(0)
  /\ latest = Startup(0)

Goto(p, place) == publisher' = [publisher EXCEPT ![p].pc = place]
At(p, place) == publisher[p].pc = place
RecordOf(p) ==
  [instance |-> instance, sequence |-> publisher[p].number, kind |-> publisher[p].kind]
SnapshotOf(p) == [instance |-> instance, sequence |-> publisher[p].number, by |-> p]

-----------------------------------------------------------------------------
(* process_live_frame, or the loop of evaluate_profile_replay, reaches the *)
(* next frame.                                                             *)
Begin(p) ==
  /\ At(p, "idle")
  /\ Goto(p, "begun")
  /\ overlapped' = (overlapped \/ \E q \in Publishers \ {p} : ~At(q, "idle"))
  /\ UNCHANGED <<instance, sequence, logVars, notified, routed, stateFile, latest>>

(* Mutant: a number of the thread's own. *)
AllocateOwn(p, kind) ==
  /\ At(p, "begun")
  /\ publisher[p].number < MaxSequence
  /\ sequence' = publisher[p].number + 1
  /\ publisher' = [publisher EXCEPT ![p] =
                     [pc |-> "allocated", kind |-> kind, number |-> publisher[p].number + 1]]
  /\ UNCHANGED <<instance, logVars, notified, routed, stateFile, latest, overlapped>>

(* The scene of the frame is another than the last published one.          *)
ContextChanged(p) == At(p, "begun")
(* A rule fires on one of its observations; one on which none does is only *)
(* kept for the next snapshot.                                             *)
RuleFires(p) == At(p, "begun") \/ At(p, "frame")

(* fetch_add: a context change comes before the transitions of its frame.  *)
Allocate(p, kind) ==
  /\ \/ kind = "event" /\ RuleFires(p)
     \/ kind = "context" /\ ContextChanged(p)
  /\ sequence + instance < MaxSequence
  /\ sequence' = sequence + 1
  /\ publisher' = [publisher EXCEPT ![p] =
                     [pc |-> "allocated", kind |-> kind, number |-> sequence + 1]]
  /\ UNCHANGED <<instance, logVars, notified, routed, stateFile, latest, overlapped>>

(* ensure_event_writer: the size of the log is looked at only when the     *)
(* writer is created.                                                      *)
Rotates == ~writerOpen /\ RotateAfter > 0 /\ Len(log) >= RotateAfter
OpenLog == IF Rotates THEN <<>> ELSE log


(* Mutant: off by one in the flush policy. *)
FlushLate == FlushEvery > 0 /\ unflushed >= FlushEvery

FlushDue == FlushEvery > 0 /\ unflushed + 1 >= FlushEvery

(* Mutant: a flush writes the new line before the buffered ones.           *)
AppendAhead(p) ==
  /\ At(p, "allocated")
  /\ FlushDue
  /\ writerOpen' = TRUE
  /\ rotated' = IF Rotates THEN log ELSE rotated
  /\ log' = OpenLog \o <<RecordOf(p)>> \o buffer
  /\ buffer' = <<>>
  /\ unflushed' = 0
  /\ Goto(p, "appended")
  /\ UNCHANGED <<instance, sequence, notified, routed, stateFile, latest, overlapped>>

(* append_event succeeds, under the output lock. *)
AppendEvent(p) ==
  /\ At(p, "allocated")
  /\ writerOpen' = TRUE
  /\ rotated' = IF Rotates THEN log ELSE rotated
  /\ IF FlushDue
     THEN /\ log' = OpenLog \o Append(buffer, RecordOf(p))
          /\ buffer' = <<>>
          /\ unflushed' = 0
     ELSE /\ log' = OpenLog
          /\ buffer' = Append(buffer, RecordOf(p))
          /\ unflushed' = unflushed + 1
  /\ Goto(p, "appended")
  /\ UNCHANGED <<instance, sequence, notified, routed, stateFile, latest, overlapped>>

(* append_event fails before the line is buffered: the log cannot be       *)
(* opened, or cannot be opened again once it was rotated.                  *)
AppendFails(p) ==
  /\ At(p, "allocated")
  /\ ~writerOpen
  /\ \/ UNCHANGED <<log, rotated>>
     \/ Rotates /\ log' = <<>> /\ rotated' = log
  /\ Goto(p, "failed")
  /\ UNCHANGED <<instance, sequence, writerOpen, buffer, unflushed, notified, routed, stateFile, latest, overlapped>>

(* The line is buffered and the flush fails: the buffer keeps it. *)
FlushFails(p) ==
  /\ At(p, "allocated")
  /\ FlushDue
  /\ writerOpen' = TRUE
  /\ rotated' = IF Rotates THEN log ELSE rotated
  /\ log' = OpenLog
  /\ buffer' = Append(buffer, RecordOf(p))
  /\ unflushed' = unflushed + 1
  /\ Goto(p, "failed")
  /\ UNCHANGED <<instance, sequence, notified, routed, stateFile, latest, overlapped>>

(* publish_processed notifies whether or not the append worked, *)
Notify(p) ==
  /\ \/ At(p, "appended")
     \/ At(p, "failed") /\ publisher[p].kind = "event"
  /\ notified' = Append(notified, RecordOf(p))
  /\ Goto(p, IF publisher[p].kind = "event" THEN "notified" ELSE "frame")
  /\ UNCHANGED <<instance, sequence, logVars, routed, stateFile, latest, overlapped>>

(* publish_context_transition returns the error instead: the live analysis  *)
(* goes on with the frame, and a replay ends without publishing a state.   *)
ContextLost(p) ==
  /\ At(p, "failed")
  /\ publisher[p].kind = "context"
  /\ Goto(p, IF p \in Live THEN "frame" ELSE "idle")
  /\ UNCHANGED <<instance, sequence, logVars, notified, routed, stateFile, latest, overlapped>>

(* Events, and not context changes, go to the output routes. *)
RouteEvent(p) ==
  /\ At(p, "notified")
  /\ routed' = Append(routed, RecordOf(p))
  /\ Goto(p, "frame")
  /\ UNCHANGED <<instance, sequence, logVars, notified, stateFile, latest, overlapped>>

-----------------------------------------------------------------------------
(* publish_current_state: the snapshot loads the counter, *)
TakeSnapshot(p) ==
  /\ At(p, "begun") \/ At(p, "frame")
  /\ publisher' = [publisher EXCEPT ![p].pc = "snapshot", ![p].number = sequence]
  /\ UNCHANGED <<instance, sequence, logVars, notified, routed, stateFile, latest, overlapped>>

(* state.json is replaced, or the write fails and the old one stays, *)
WriteState(p) ==
  /\ At(p, "snapshot")
  /\ stateFile' \in {SnapshotOf(p), stateFile}
  /\ Goto(p, "written")
  /\ UNCHANGED <<instance, sequence, logVars, notified, routed, latest, overlapped>>

(* and the snapshot becomes what state.get answers. *)
SetLatest(p) ==
  /\ At(p, "written")
  /\ latest' = SnapshotOf(p)
  /\ Goto(p, "idle")
  /\ UNCHANGED <<instance, sequence, logVars, notified, routed, stateFile, overlapped>>

(* Mutant: a restarted daemon keeps its identity. *)
RestartAsBefore ==
  /\ MaxRestarts > 0
  /\ sequence > 0
  /\ sequence' = 0
  /\ publisher' = [p \in Publishers |-> Resting]
  /\ writerOpen' = FALSE
  /\ unflushed' = 0
  /\ buffer' = <<>>
  /\ latest' = Startup(instance)
  /\ UNCHANGED <<instance, log, rotated, notified, routed, stateFile, overlapped>>

(* The daemon is killed and started again: what was not flushed is gone,   *)
(* the files stay, and the sequence starts over under a new instance.      *)
Restart ==
  /\ instance < MaxRestarts
  /\ instance' = instance + 1
  /\ sequence' = 0
  /\ publisher' = [p \in Publishers |-> Resting]
  /\ writerOpen' = FALSE
  /\ unflushed' = 0
  /\ buffer' = <<>>
  /\ latest' = Startup(instance + 1)
  /\ UNCHANGED <<log, rotated, notified, routed, stateFile, overlapped>>

Publishing(p) ==
  \/ \E kind \in Kind : Allocate(p, kind)
  \/ AppendEvent(p) \/ AppendFails(p) \/ FlushFails(p)
  \/ Notify(p) \/ ContextLost(p) \/ RouteEvent(p)
  \/ TakeSnapshot(p) \/ WriteState(p) \/ SetLatest(p)
LiveStep(p) == p \in Live /\ (Begin(p) \/ Publishing(p))
ReplayStep(p) == p \notin Live /\ (Begin(p) \/ Publishing(p))

Next == Restart \/ \E p \in Publishers : LiveStep(p) \/ ReplayStep(p)

Spec == Init /\ [][Next]_vars

-----------------------------------------------------------------------------
Older(r, q) ==
  r.instance < q.instance \/ (r.instance = q.instance /\ r.sequence < q.sequence)
Ordered(records) ==
  \A i, j \in 1 .. Len(records) : i < j => Older(records[i], records[j])
Contents == rotated \o log \o buffer

(* SPEC-ARCH-004: (instance, sequence) identifies an event.  However many  *)
(* publishers run and whatever fails, no two lines of the log carry the    *)
(* same one, and no record is notified twice.                              *)
Identified(records) ==
  \A i, j \in 1 .. Len(records) :
    records[i].instance = records[j].instance /\ records[i].sequence = records[j].sequence
      => i = j
RecordsAreUnique == Identified(Contents) /\ Identified(notified)

(* SPEC-OUT-002: the log, the subscriptions and the event routes see the   *)
(* records in the order of their sequence numbers.                         *)
DeliveriesAreOrdered == Ordered(Contents) /\ Ordered(notified) /\ Ordered(routed)

(* As long as the publishers take turns, they do see them in that order,   *)
(* over failing writes, rotations and restarts of the daemon.              *)
TurnsKeepOrder == ~overlapped => DeliveriesAreOrdered

(* As long as they take turns, the state a reader of state.json sees never *)
(* goes back, failed writes and restarts included.                         *)
StateNeverRegresses ==
  [][~overlapped' => ~Older(stateFile', stateFile)]_vars

(* Under the default policy, a line whose append was reported successful   *)
(* has left the daemon before any subscriber hears of it, so a crash of    *)
(* the daemon loses only what was reported as not written.                 *)
AppendedIsDurable ==
  FlushEvery = 1
    => \A p \in Publishers :
         At(p, "appended") => \E i \in 1 .. Len(log) : log[i] = RecordOf(p)

(* With every publisher at rest after taking turns, state.get answers a    *)
(* state at least as recent as the one in state.json of this instance.     *)
StateGetIsCurrent ==
  ~overlapped /\ (\A p \in Publishers : At(p, "idle")) => ~Older(latest, stateFile)

(* The records of the log are well typed and numbered once, and state.get  *)
(* is not behind the file (publish, publish_state, OutputWriter).          *)
PublicationInvariant == TypeOK /\ RecordsAreUnique /\ StateGetIsCurrent
=============================================================================
