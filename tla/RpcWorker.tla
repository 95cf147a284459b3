----------------------------- MODULE RpcWorker ------------------------------
(***************************************************************************)
(* The thread of the editor that talks to the daemon (Worker of the GUI):  *)
(* a bounded queue of requests, a queue of responses, the kinds whose      *)
(* request was refused because the queue was full, and one connection that *)
(* is opened when a request needs it and dropped on a transport error.     *)
(*                                                                         *)
(* The daemon ends a preview with the connection that started it.  The     *)
(* worker therefore remembers what the user asked for and asks again after *)
(* a reconnect; it also reloads the profile list then.  One request is     *)
(* served at a time, and serving it is one step: the editor cannot tell    *)
(* when, between its queue and its response, the daemon ran it.            *)
(***************************************************************************)
EXTENDS Naturals, Sequences

CONSTANTS
  QueueLimit,   \* requests the queue holds (64 in the code)
  MaxFailures,  \* bound: connections, calls or requests that fail
  MaxEvents     \* bound: failures and clicks of the user

ASSUME WorkerAssumption ==
  /\ QueueLimit \in Nat \ {0}
  /\ MaxFailures \in Nat
  /\ MaxEvents \in Nat

VARIABLES
  requests,     \* what the worker has yet to serve
  responses,    \* what the editor has yet to read
  refused,      \* kinds whose refusal the editor has yet to read
  connected,    \* the worker holds a connection
  wantPreview,  \* preview_requested
  wantFreeze,   \* freeze_requested
  lease,        \* the daemon's preview lease of this connection
  dropped,      \* kinds of requests dropped with a failed reload (history)
  failures      \* failures so far

workerVars ==
  <<requests, responses, refused, connected, wantPreview, wantFreeze, lease, dropped, failures>>

Kind == {"Profiles", "Profile", "History", "Commit", "Draft", "Rollback", "Trash", "Restore",
         "Status", "PreviewStart", "PreviewStop", "PreviewFrame", "Freeze", "Unfreeze",
         "DetectorTest", "CaptureSelect", "CatalogList", "TemplateCapture", "Panel"}

WorkerInit ==
  /\ responses = <<>>
  /\ refused = {}
  /\ connected = FALSE
  /\ wantPreview = FALSE
  /\ wantFreeze = FALSE
  /\ lease = FALSE
  /\ dropped = {}
  /\ failures = 0

(* Requests of `kind` that will get a response, or have one to be read. *)
Outstanding(kind) ==
  \/ \E i \in DOMAIN requests : requests[i].kind = kind
  \/ \E i \in DOMAIN responses : responses[i].kind = kind
  \/ kind \in refused

(* Mutant: a refused request is not reported. *)
SendQuietly(messages) ==
  LET room == QueueLimit - Len(requests)
      taken == IF Len(messages) <= room THEN Len(messages) ELSE room
  IN /\ requests' = requests \o SubSeq(messages, 1, taken)
     /\ UNCHANGED refused

(* Worker::send, for requests sent in a row: those past the limit are     *)
(* refused, each with an error under its kind.                            *)
SendAll(messages) ==
  LET room == QueueLimit - Len(requests)
      taken == IF Len(messages) <= room THEN Len(messages) ELSE room
  IN /\ requests' = requests \o SubSeq(messages, 1, taken)
     /\ refused' = refused \cup {messages[i].kind : i \in taken + 1 .. Len(messages)}

(* What the user asked for last is remembered before anything is tried. *)
WantPreviewAfter(request) ==
  CASE request.kind = "PreviewStart" -> TRUE
    [] request.kind = "PreviewStop" -> FALSE
    [] OTHER -> wantPreview
WantFreezeAfter(request) ==
  CASE request.kind = "Freeze" -> TRUE
    [] request.kind \in {"Unfreeze", "PreviewStop"} -> FALSE
    [] OTHER -> wantFreeze
Remember(request) ==
  /\ wantPreview' = WantPreviewAfter(request)
  /\ wantFreeze' = WantFreezeAfter(request)

(* Clicks and failures share a bound. *)
Fails(clicked) ==
  /\ failures < MaxFailures
  /\ clicked + failures < MaxEvents
  /\ failures' = failures + 1

(* Mutant: nothing is restored after a reconnect. *)
RestoredNever(request) == connected /\ lease

(* The preview after a reconnect, before the request itself: PREVIEW_START *)
(* is only restored for the other requests. A preview that was frozen is   *)
(* frozen again in the same place; whether it is, is not part of the lease. *)
Restored(request) ==
  IF connected THEN lease ELSE wantPreview' /\ request.kind # "PreviewStart"

(* The profile list is reloaded with every connection, except for the     *)
(* request that is itself a reload.                                        *)
Reloads(request) == ~connected /\ request.kind # "Profiles"

LeaseAfter(request) ==
  CASE request.kind = "PreviewStart" -> TRUE
    [] request.kind = "PreviewStop" -> FALSE
    [] OTHER -> Restored(request)

Disconnect == connected' = FALSE /\ lease' = FALSE
=============================================================================
