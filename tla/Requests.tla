------------------------------ MODULE Requests ------------------------------
(***************************************************************************)
(* The daemon's connections and what they share: connection slots, preview *)
(* leases, the broadcast channel of notifications, the one slot of image   *)
(* work, and the asynchronous operations that evaluate regression suites.  *)
(*                                                                         *)
(* A connection serves one request at a time and does not look at its      *)
(* socket meanwhile, so a client that has gone is noticed at the next read *)
(* or, by a subscription, at the next write.  Image requests wait in line  *)
(* for the slot; suite.start takes it only when it is free.  An evaluation *)
(* is its five phases, each announced by update_suite_progress; the cases  *)
(* of a suite are one phase.  The watchdog may fire whenever an operation  *)
(* runs: how long it made no progress is not modelled.  A notification is  *)
(* a count: what it says is not modelled.  A reply is a step of its own    *)
(* only for a result, which the daemon lets go before it writes it.        *)
(***************************************************************************)
EXTENDS Naturals, FiniteSets, Sequences

CONSTANTS
  Clients,
  MaxConnections,  \* maximum_connections
  MaxRetained,     \* operations kept until a client asks for their result
  Capacity,        \* notifications the channel keeps
  MaxOperations    \* bound: suite operations started

ASSUME RequestsAssumption ==
  /\ MaxConnections \in Nat \ {0}
  /\ MaxRetained \in Nat \ {0}
  /\ Capacity \in Nat \ {0}
  /\ MaxOperations \in Nat

VARIABLES
  conn,        \* client -> its connection
  connected,   \* the connection counter
  leases,      \* the preview client counter
  free,        \* permits of the image slot
  line,        \* connections waiting for the slot
  jobs,        \* native work running: a client's or an operation's
  ops,         \* suite operations, in the order they were started
  cached       \* the inventory of the suite has been verified before

vars == <<conn, connected, leases, free, line, jobs, ops, cached>>
connections == <<conn, connected, leases>>
work == <<free, line, jobs>>

Phases == <<"manifest", "inventory", "profile_load", "cases", "serialization">>
Operations == 1 .. Len(ops)
Settled == {"completed", "cancelled", "failed"}

(* at: where the connection is; left: the client has closed its end;       *)
(* op: the operation a status or cancel call has looked up; behind: how    *)
(* far the receiver of a subscription is behind the channel, Capacity + 1  *)
(* standing for all that is more than the channel keeps.                   *)
Connection ==
  [at : {"out", "open", "ready", "waiting", "working", "reading", "replying", "cancelling",
         "subscribed"},
   left : BOOLEAN, lease : BOOLEAN, op : Nat, behind : 0 .. Capacity + 1]
Out == [at |-> "out", left |-> FALSE, lease |-> FALSE, op |-> 0, behind |-> 0]

(* watched: the watchdog still looks; result: whether a client has it, or  *)
(* the only reply that had it failed.                                      *)
SuiteOperation ==
  [status : {"running"} \cup Settled, phase : 0 .. Len(Phases),
   cancel : BOOLEAN, watched : BOOLEAN, retained : BOOLEAN, result : {"unread", "had", "lost"}]

TypeOK ==
  /\ conn \in [Clients -> Connection]
  /\ connected \in Nat /\ leases \in Nat
  /\ free \in 0 .. 1
  /\ line \in Seq(Clients)
  /\ jobs \subseteq [kind : {"image"}, of : Clients] \cup [kind : {"suite"}, of : Operations]
  /\ ops \in Seq(SuiteOperation) /\ Len(ops) <= MaxOperations
  /\ cached \in BOOLEAN

Init ==
  /\ conn = [c \in Clients |-> Out]
  /\ connected = 0 /\ leases = 0
  /\ free = 1 /\ line = <<>> /\ jobs = {}
  /\ ops = <<>>
  /\ cached = FALSE

At(c, at) == conn[c].at = at
Goto(c, at) == conn' = [conn EXCEPT ![c].at = at]
Running(o) == ops[o].status = "running"
Retained == {o \in Operations : ops[o].retained}

-----------------------------------------------------------------------------
(* Connections                                                             *)

(* A connection above the limit is dropped, else it is counted. *)
Connect(c) ==
  /\ At(c, "out")
  /\ connected < MaxConnections
  /\ connected' = connected + 1
  /\ Goto(c, "open")
  /\ UNCHANGED <<leases, work, ops, cached>>

(* system.handshake comes first; before it every call is refused. *)
Handshake(c) ==
  /\ At(c, "open") /\ ~conn[c].left
  /\ Goto(c, "ready")
  /\ UNCHANGED <<connected, leases, work, ops, cached>>

Ready(c) == At(c, "ready") /\ ~conn[c].left

StartPreview(c) ==
  /\ Ready(c) /\ ~conn[c].lease
  /\ conn' = [conn EXCEPT ![c].lease = TRUE]
  /\ leases' = leases + 1
  /\ UNCHANGED <<connected, work, ops, cached>>

StopPreview(c) ==
  /\ Ready(c) /\ conn[c].lease
  /\ conn' = [conn EXCEPT ![c].lease = FALSE]
  /\ leases' = leases - 1
  /\ UNCHANGED <<connected, work, ops, cached>>

(* The client closes its end at any time. *)
Leave(c) ==
  /\ ~At(c, "out") /\ ~conn[c].left
  /\ conn' = [conn EXCEPT ![c].left = TRUE]
  /\ UNCHANGED <<connected, leases, work, ops, cached>>

(* The connection task ends: its lease is dropped, its slot released. *)
Drop(c) ==
  /\ leases' = IF conn[c].lease THEN leases - 1 ELSE leases
  /\ connected' = connected - 1
  /\ conn' = [conn EXCEPT ![c] = Out]

Disconnect(c) ==
  /\ conn[c].at \in {"open", "ready"} /\ conn[c].left
  /\ Drop(c)
  /\ UNCHANGED <<work, ops, cached>>

(* status.subscribe takes the connection over. *)
Subscribe(c) ==
  /\ Ready(c)
  /\ conn' = [conn EXCEPT ![c].at = "subscribed"]
  /\ UNCHANGED <<connected, leases, work, ops, cached>>

(* recv: the oldest notification the channel still has, after a notice of  *)
(* how many it no longer has.                                              *)
Receive(c) ==
  /\ At(c, "subscribed") /\ conn[c].behind > 0 /\ ~conn[c].left
  /\ conn' = [conn EXCEPT ![c].behind = IF @ > Capacity THEN Capacity ELSE @ - 1]
  /\ UNCHANGED <<connected, leases, work, ops, cached>>

(* Only a write tells a subscription that its client has gone. *)
Unsubscribe(c) ==
  /\ At(c, "subscribed") /\ conn[c].behind > 0 /\ conn[c].left
  /\ Drop(c)
  /\ UNCHANGED <<work, ops, cached>>

-----------------------------------------------------------------------------
(* Image work                                                              *)

(* acquire: an image request takes the permit or waits in line, in order.  *)
AskImage(c) ==
  /\ Ready(c)
  /\ IF free = 1
     THEN /\ free' = 0
          /\ jobs' = jobs \cup {[kind |-> "image", of |-> c]}
          /\ Goto(c, "working")
          /\ UNCHANGED line
     ELSE /\ line' = Append(line, c)
          /\ Goto(c, "waiting")
          /\ UNCHANGED <<free, jobs>>
  /\ UNCHANGED <<connected, leases, ops, cached>>

(* Mutant: the permit is given to the first in line and freed as well. *)
ReleaseTwice(job) ==
  /\ line' = IF line = <<>> THEN line ELSE Tail(line)
  /\ free' = 1
  /\ jobs' = (jobs \ {job}) \cup {[kind |-> "image", of |-> c] : c \in
               IF line = <<>> THEN {} ELSE {Head(line)}}

(* The permit of work that ends passes to the first in line. *)
Release(job) ==
  /\ line' = IF line = <<>> THEN line ELSE Tail(line)
  /\ free' = IF line = <<>> THEN 1 ELSE 0
  /\ jobs' = (jobs \ {job}) \cup {[kind |-> "image", of |-> c] : c \in
               IF line = <<>> THEN {} ELSE {Head(line)}}
NextWorking(working) ==
  IF line = <<>> THEN working ELSE [working EXCEPT ![Head(line)].at = "working"]

(* The reply is written once the work is done. *)
FinishImage(c) ==
  /\ At(c, "working")
  /\ Release([kind |-> "image", of |-> c])
  /\ conn' = NextWorking([conn EXCEPT ![c].at = "ready"])
  /\ UNCHANGED <<connected, leases, ops, cached>>

-----------------------------------------------------------------------------
(* Suite operations                                                        *)

Started == [status |-> "running", phase |-> 0, cancel |-> FALSE,
            watched |-> TRUE, retained |-> TRUE, result |-> "unread"]

(* suite.start: refused while the slot is taken, an operation is running,  *)
(* or too many results have not been asked for.                            *)
StartSuite(c) ==
  /\ Ready(c)
  /\ Len(ops) < MaxOperations
  /\ free = 1
  /\ ~ \E o \in Retained : Running(o)
  /\ Cardinality(Retained) < MaxRetained
  /\ ops' = Append(ops, Started)
  /\ free' = 0
  /\ jobs' = jobs \cup {[kind |-> "suite", of |-> Len(ops) + 1]}
  /\ UNCHANGED <<connections, line, cached>>

(* The worker stores how the evaluation ended; a cancel flag is not read   *)
(* again, and the watchdog, when it wakes, ends.                           *)
Settle(o, status) ==
  ops' = [ops EXCEPT ![o].status = status, ![o].phase = 0, ![o].cancel = FALSE, ![o].watched = FALSE]

(* A notification for every subscription. *)
Notify ==
  conn' = [c \in Clients |-> IF At(c, "subscribed")
             THEN [conn[c] EXCEPT !.behind = IF @ > Capacity THEN @ ELSE @ + 1] ELSE conn[c]]

(* An inventory that was verified before is skipped while the manifest and *)
(* the metadata of its files are those of the cached entry.                *)
NextPhases(o) ==
  LET next == ops[o].phase + 1 IN
  IF cached /\ Phases[next] = "inventory" THEN {next, next + 1} ELSE {next}

(* update_suite_progress: a cancellation ends the evaluation, else the     *)
(* next phase is announced; a verified inventory is not verified again.    *)
Advance(o) ==
  /\ Running(o) /\ ops[o].phase < Len(Phases)
  /\ \/ /\ ops[o].cancel
        /\ Settle(o, "cancelled")
        /\ UNCHANGED <<conn, cached>>
     \/ /\ ~ops[o].cancel
        /\ \E phase \in NextPhases(o) : ops' = [ops EXCEPT ![o].phase = phase]
        /\ cached' = (cached \/ ops'[o].phase > 2)
        /\ Notify
  /\ UNCHANGED <<connected, leases, work>>

CompleteSuite(o) ==
  /\ Running(o) /\ ops[o].phase = Len(Phases)
  /\ Settle(o, "completed")
  /\ UNCHANGED <<connections, work, cached>>

(* A document, a picture, a hash or a reference is wrong, or no case is    *)
(* selected.                                                               *)
FailSuite(o) ==
  /\ Running(o) /\ ops[o].phase > 0
  /\ Settle(o, "failed")
  /\ UNCHANGED <<connections, work, cached>>

(* Mutant: the permit of an evaluation that does not complete is kept. *)
EndCompletedSuite(o) ==
  /\ ops[o].status = "completed" /\ [kind |-> "suite", of |-> o] \in jobs
  /\ Release([kind |-> "suite", of |-> o])
  /\ conn' = NextWorking(conn)
  /\ UNCHANGED <<connected, leases, ops, cached>>

(* The worker's permit is dropped last. *)
EndSuite(o) ==
  /\ ~Running(o) /\ [kind |-> "suite", of |-> o] \in jobs
  /\ Release([kind |-> "suite", of |-> o])
  /\ conn' = NextWorking(conn)
  /\ UNCHANGED <<connected, leases, ops, cached>>

(* The watchdog asks once for the cancellation of what makes no progress.  *)
Watchdog(o) ==
  /\ Running(o) /\ ops[o].watched
  /\ ops' = [ops EXCEPT ![o].watched = FALSE, ![o].cancel = TRUE]
  /\ Notify
  /\ UNCHANGED <<connected, leases, work, cached>>

(* Mutant: the status is not looked at before the operation is let go. *)
ReadAny(c, o) ==
  /\ Ready(c)
  /\ ops[o].retained
  /\ conn' = [conn EXCEPT ![c].at = "reading", ![c].op = o]
  /\ UNCHANGED <<connected, leases, work, ops, cached>>

(* suite.status with the result: a settled operation is looked up, *)
ReadResult(c, o) ==
  /\ Ready(c)
  /\ ops[o].retained /\ ~Running(o)
  /\ conn' = [conn EXCEPT ![c].at = "reading", ![c].op = o]
  /\ UNCHANGED <<connected, leases, work, ops, cached>>

(* and let go under a second lock: another status may have read it too.    *)
ConsumeResult(c) ==
  /\ At(c, "reading")
  /\ ops' = [ops EXCEPT ![conn[c].op].retained = FALSE]
  /\ Goto(c, "replying")
  /\ UNCHANGED <<connected, leases, work, cached>>

(* The result is written to the socket of a client that is there;          *)
WriteReply(c) ==
  /\ At(c, "replying") /\ ~conn[c].left
  /\ ops' = [ops EXCEPT ![conn[c].op].result = "had"]
  /\ conn' = [conn EXCEPT ![c].at = "ready", ![c].op = 0]
  /\ UNCHANGED <<connected, leases, work, cached>>

(* the write fails if it has left.                                         *)
LoseReply(c) ==
  /\ At(c, "replying") /\ conn[c].left
  /\ ops' = [ops EXCEPT ![conn[c].op].result = IF @ = "had" THEN @ ELSE "lost"]
  /\ Drop(c)
  /\ UNCHANGED <<work, cached>>

(* suite.cancel reads the status, *)
AskCancel(c, o) ==
  /\ Ready(c)
  /\ ops[o].retained /\ Running(o)
  /\ conn' = [conn EXCEPT ![c].at = "cancelling", ![c].op = o]
  /\ UNCHANGED <<connected, leases, work, ops, cached>>

(* and sets the flag, which nothing reads if the operation ended since. *)
SetCancel(c) ==
  /\ At(c, "cancelling")
  /\ ops' = [ops EXCEPT ![conn[c].op].cancel = Running(conn[c].op)]
  /\ conn' = [conn EXCEPT ![c].at = "ready", ![c].op = 0]
  /\ UNCHANGED <<connected, leases, work, cached>>

-----------------------------------------------------------------------------
(* What the daemon does by itself, given time. *)
ConnectionStep(c) ==
  \/ Disconnect(c) \/ Receive(c) \/ Unsubscribe(c) \/ FinishImage(c)
  \/ ConsumeResult(c) \/ WriteReply(c) \/ LoseReply(c) \/ SetCancel(c)
SuiteStep(o) == Advance(o) \/ CompleteSuite(o) \/ FailSuite(o) \/ EndSuite(o)

Request(c) ==
  \/ Connect(c) \/ Handshake(c) \/ Leave(c)
  \/ StartPreview(c) \/ StopPreview(c) \/ Subscribe(c) \/ AskImage(c) \/ StartSuite(c)
  \/ \E o \in Operations : ReadResult(c, o) \/ AskCancel(c, o)

Next ==
  \/ \E c \in Clients : Request(c) \/ ConnectionStep(c)
  \/ \E o \in Operations : SuiteStep(o) \/ Watchdog(o)

(* The runtime polls every task that can go on, and native work ends. *)
Fairness ==
  /\ \A c \in Clients : WF_vars(ConnectionStep(c))
  /\ \A o \in 1 .. MaxOperations : WF_vars(o \in Operations /\ SuiteStep(o))

Spec == Init /\ [][Next]_vars /\ Fairness

-----------------------------------------------------------------------------
(* "Native work retains its slot until it actually finishes, including     *)
(* after caller cancellation": there is one piece of it at most, whoever   *)
(* has left, and whoever waits, waits for it.                              *)
SlotIsHeld ==
  /\ Cardinality(jobs) + free = 1
  /\ free = 1 => line = <<>>
  /\ \A o \in Operations : Running(o) => [kind |-> "suite", of |-> o] \in jobs
  /\ \A c \in Clients :
       /\ At(c, "working") <=> [kind |-> "image", of |-> c] \in jobs
       /\ At(c, "waiting") <=> \E i \in DOMAIN line : line[i] = c

(* The counters that refuse connections and that enable previews are those *)
(* of the connections there are, however a connection ended.               *)
CountsAreExact ==
  /\ connected = Cardinality({c \in Clients : ~At(c, "out")})
  /\ connected <= MaxConnections
  /\ leases = Cardinality({c \in Clients : conn[c].lease})

(* "At most four unconsumed operations are retained", and "requesting a    *)
(* completed result consumes the retained operation": what runs can be     *)
(* found, and what cannot be found any more has ended, and its result is   *)
(* with a client, on its way to one, or lost with a connection that was    *)
(* closed before the reply, however the calls of several clients overlap.  *)
OperationsAreKept ==
  /\ Cardinality(Retained) <= MaxRetained
  /\ \A o \in Operations \ Retained :
       /\ ~Running(o)
       /\ \/ ops[o].result # "unread"
          \/ \E c \in Clients : At(c, "replying") /\ conn[c].op = o

(* A call that has begun is answered, after the work of every other, and a *)
(* client that left is forgotten, unless its connection was subscribed and *)
(* no notification is sent any more.                                       *)
Unserved(c) ==
  \/ conn[c].at \in {"waiting", "working", "reading", "replying", "cancelling"}
  \/ conn[c].left /\ ~At(c, "subscribed")
WorkSettles == \A c \in Clients : Unserved(c) ~> ~Unserved(c)

(* Nothing is counted or held for a connection or an operation that ended, *)
(* and nothing that runs is not counted (serve, ImageSlot, PreviewLease).  *)
RequestsInvariant == TypeOK /\ SlotIsHeld /\ CountsAreExact
=============================================================================
