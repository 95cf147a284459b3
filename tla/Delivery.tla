------------------------------ MODULE Delivery ------------------------------
(***************************************************************************)
(* What output routes promise, without the queue, the cache and the thread *)
(* that OutputRouter keeps the promise with (SPEC-OUT-002, SPEC-OUT-004):  *)
(* a job that was published is open for a route until it is delivered to   *)
(* it, reported lost, or found not to be due; each route gets its jobs in  *)
(* the order they were published, each at most once; and nothing stays     *)
(* open for ever, unless a delivery is stalled for ever.                   *)
(***************************************************************************)
EXTENDS Naturals, Sequences, FiniteSetsExt

CONSTANTS
  Routes,   \* route ids
  Trigger   \* route -> "event" or "state"

VARIABLES
  published,  \* jobs published so far
  open,       \* route -> numbers of the jobs that may still be delivered to it
  sink,       \* route -> jobs delivered to it
  reported,   \* lost jobs that were reported, each for a route
  settings,   \* route -> its setting in the configuration
  quiet,      \* nobody has asked for the configuration or changed it
  stalled     \* a delivery does not end

promised == <<published, open, sink, reported>>

(* An enabled route is due every event, while nobody reconfigures; a state *)
(* may be superseded, or not be worth delivering.                          *)
Due(r, job) ==
  quiet /\ settings[r] = "enabled" /\ Trigger[r] = "event" /\ job.kind = "event"

Init ==
  /\ published = <<>>
  /\ open = [r \in Routes |-> {}]
  /\ sink = [r \in Routes |-> <<>>]
  /\ reported = {}
  /\ quiet = TRUE

(* A job becomes open for the routes that may want it; the others either   *)
(* are not due it or hear of the loss.                                     *)
Publish ==
  LET n == Len(published) + 1 IN
  /\ Len(published') = n /\ SubSeq(published', 1, n - 1) = published
  /\ \E taken \in SUBSET Routes :
       /\ open' = [r \in Routes |-> IF r \in taken THEN open[r] \cup {n} ELSE open[r]]
       /\ \A r \in Routes \ taken : Due(r, published'[n]) => <<n, r>> \in reported'
  /\ reported \subseteq reported'
  /\ UNCHANGED sink

Closes(n, r) == n \in open[r] /\ open'[r] = open[r] \ {n}
Receives(n, r) == sink'[r] = Append(sink[r], published[n])

(* The oldest open job is settled for some routes. *)
Settle(n) ==
  /\ reported \subseteq reported'
  /\ \A r \in Routes :
       \/ open'[r] = open[r] /\ sink'[r] = sink[r]
       \/ /\ Closes(n, r)
          /\ n = Min(open[r])
          /\ \/ Receives(n, r) /\ published[n].kind = Trigger[r]
             \/ /\ sink'[r] = sink[r]
                /\ Due(r, published[n]) => <<n, r>> \in reported'
  /\ UNCHANGED published

Next == Publish \/ \E n \in DOMAIN published : Settle(n)

Liveness == <>[]~stalled => \A r \in Routes : []<>(open[r] = {})

Spec == Init /\ [][Next]_promised /\ Liveness
=============================================================================
