----------------------------- MODULE DaemonProofs -----------------------------
(***************************************************************************)
(* Proofs about two parts of the daemon that share no state: the           *)
(* connections of its clients (Requests) and the rules of a profile        *)
(* (CoordinatedRule, with the gate and the composites under it).           *)
(*                                                                         *)
(* Requests: what the daemon counts is what there is, for any number of    *)
(* clients, connections and operations, whatever leaves, fails or is       *)
(* cancelled.                                                              *)
(*                                                                         *)
(* Rules: what every rule of a profile promises, whatever its predicate:   *)
(* the debouncing of TransitionGate is reached by samples only, and a      *)
(* composition is judged by the last readings of its elements.  First what *)
(* one sample does to the state of a rule, for every choice of N, M, the   *)
(* three durations and the initial policy (GateInitial and GateStep), then *)
(* each kind of rule.                                                      *)
(***************************************************************************)
EXTENDS Requests, CoordinatedRule, FiniteSetTheorems, SequenceTheorems, TLAPS

-----------------------------------------------------------------------------
(* The connections of clients *)

Present == {c \in Clients : ~At(c, "out")}
Holders == {c \in Clients : conn[c].lease}

(* The image slot is free, or one piece of work has it. *)
SlotHasOneOwner ==
  /\ \/ free = 1 /\ jobs = {} /\ line = <<>>
     \/ free = 0 /\ \E job \in jobs : jobs = {job}
  /\ \A o \in Operations : Running(o) => [kind |-> "suite", of |-> o] \in jobs
  /\ \A c \in Clients : At(c, "working") <=> [kind |-> "image", of |-> c] \in jobs

(* Who waits stands in line once. *)
LineIsOfWaiting ==
  /\ \A c \in Clients : At(c, "waiting") <=> \E i \in 1 .. Len(line) : line[i] = c
  /\ \A i, j \in 1 .. Len(line) : line[i] = line[j] => i = j

CountsAreFinite ==
  /\ IsFiniteSet(Present) /\ connected = Cardinality(Present) /\ connected <= MaxConnections
  /\ IsFiniteSet(Holders) /\ leases = Cardinality(Holders)

(* What a call has looked up is there, and what it consumes has ended. *)
Looking == {"reading", "replying", "cancelling"}
LookupsAreSound ==
  \A c \in Clients :
    /\ conn[c].at \in Looking => conn[c].op \in Operations
    /\ conn[c].at \in {"reading", "replying"} => ~Running(conn[c].op)

DaemonInvariant ==
  /\ TypeOK
  /\ SlotHasOneOwner
  /\ LineIsOfWaiting
  /\ CountsAreFinite
  /\ LookupsAreSound
  /\ OperationsAreKept

-----------------------------------------------------------------------------
(* Operations are a sequence that grows at its end and is changed in place. *)
LEMMA OperationTypes ==
  ASSUME TypeOK
  PROVE  /\ Len(ops) \in Nat /\ Operations = 1 .. Len(ops)
         /\ ops \in [Operations -> SuiteOperation]
         /\ \A o \in Operations : ops[o] \in SuiteOperation
<1>1. ops \in Seq(SuiteOperation)
  BY DEF TypeOK
<1>2. QED
  BY <1>1, LenProperties, ElementOfSeq DEF Operations

LEMMA SequenceOfFunction ==
  ASSUME NEW S, NEW n \in Nat, NEW f \in [1 .. n -> S]
  PROVE  f \in Seq(S) /\ Len(f) = n
<1>1. f = [i \in 1 .. n |-> f[i]] /\ \A i \in 1 .. n : f[i] \in S
  OBVIOUS
<1>2. [i \in 1 .. n |-> f[i]] \in Seq(S) /\ Len([i \in 1 .. n |-> f[i]]) = n
  BY <1>1
<1>3. QED
  BY <1>1, <1>2

LEMMA OperationChanges ==
  ASSUME TypeOK, ops' \in [Operations -> SuiteOperation]
  PROVE  /\ ops' \in Seq(SuiteOperation) /\ Len(ops') = Len(ops) /\ Operations' = Operations
BY OperationTypes, SequenceOfFunction DEF Operations

(* Every step keeps the types.  A counter is decreased for somebody it     *)
(* counts.                                                                 *)
LEMMA CountersArePositive ==
  ASSUME CountsAreFinite, NEW c \in Clients
  PROVE  /\ connected \in Nat /\ leases \in Nat
         /\ ~At(c, "out") => connected - 1 \in Nat
         /\ conn[c].lease => leases - 1 \in Nat
<1>1. connected \in Nat /\ leases \in Nat
  BY FS_CardinalityType DEF CountsAreFinite
<1>2. ~At(c, "out") => connected # 0
  BY FS_EmptySet DEF CountsAreFinite, Present
<1>3. conn[c].lease => leases # 0
  BY FS_EmptySet DEF CountsAreFinite, Holders
<1>4. QED
  BY <1>1, <1>2, <1>3

ConnType == conn \in [Clients -> Connection]
Places == {"out", "open", "ready", "waiting", "working", "reading", "replying", "cancelling",
           "subscribed"}

LEMMA ConnectionEdits ==
  ASSUME NEW r \in Connection
  PROVE  /\ \A at \in Places : [r EXCEPT !.at = at] \in Connection
         /\ \A at \in Places, op \in Nat : [r EXCEPT !.at = at, !.op = op] \in Connection
         /\ \A b \in BOOLEAN : [r EXCEPT !.left = b] \in Connection
         /\ \A b \in BOOLEAN : [r EXCEPT !.lease = b] \in Connection
         /\ \A behind \in 0 .. Capacity + 1 : [r EXCEPT !.behind = behind] \in Connection
         /\ Out \in Connection
<1>1. \A at \in Places : [r EXCEPT !.at = at] \in Connection
  BY DEF Connection, Places
<1>2. \A at \in Places, op \in Nat : [r EXCEPT !.at = at, !.op = op] \in Connection
  BY DEF Connection, Places
<1>3. \A b \in BOOLEAN : [r EXCEPT !.left = b] \in Connection
  BY DEF Connection
<1>4. \A b \in BOOLEAN : [r EXCEPT !.lease = b] \in Connection
  BY DEF Connection
<1>5. \A behind \in 0 .. Capacity + 1 : [r EXCEPT !.behind = behind] \in Connection
  BY DEF Connection
<1>6. Out \in Connection
  BY RequestsAssumption DEF Connection, Out
<1>7. QED
  BY <1>1, <1>2, <1>3, <1>4, <1>5, <1>6

LEMMA ConnectionChange ==
  ASSUME NEW f \in [Clients -> Connection], NEW c \in Clients, NEW r \in Connection
  PROVE  [f EXCEPT ![c] = r] \in [Clients -> Connection]
OBVIOUS

(* A connection moves, or is changed in one respect. *)
LEMMA EditedConnections ==
  ASSUME NEW f \in [Clients -> Connection], NEW c \in Clients
  PROVE  /\ \A at \in Places : [f EXCEPT ![c].at = at] \in [Clients -> Connection]
         /\ \A at \in Places, op \in Nat :
              [f EXCEPT ![c].at = at, ![c].op = op] \in [Clients -> Connection]
         /\ \A b \in BOOLEAN : [f EXCEPT ![c].left = b] \in [Clients -> Connection]
         /\ \A b \in BOOLEAN : [f EXCEPT ![c].lease = b] \in [Clients -> Connection]
         /\ [f EXCEPT ![c] = Out] \in [Clients -> Connection]
<1>1. f[c] \in Connection
  OBVIOUS
<1>2. \A at \in Places : [f EXCEPT ![c].at = at] \in [Clients -> Connection]
  BY <1>1, ConnectionEdits, ConnectionChange
<1>3. \A at \in Places, op \in Nat :
        [f EXCEPT ![c].at = at, ![c].op = op] \in [Clients -> Connection]
  BY <1>1, ConnectionEdits, ConnectionChange
<1>4. \A b \in BOOLEAN : [f EXCEPT ![c].left = b] \in [Clients -> Connection]
  BY <1>1, ConnectionEdits, ConnectionChange
<1>5. \A b \in BOOLEAN : [f EXCEPT ![c].lease = b] \in [Clients -> Connection]
  BY <1>1, ConnectionEdits, ConnectionChange
<1>6. [f EXCEPT ![c] = Out] \in [Clients -> Connection]
  BY <1>1, ConnectionEdits, ConnectionChange
<1>7. QED
  BY <1>2, <1>3, <1>4, <1>5, <1>6

LEMMA ReceiveType ==
  ASSUME ConnType, NEW c \in Clients, Receive(c)
  PROVE  ConnType'
<1> DEFINE behind == IF conn[c].behind > Capacity THEN Capacity ELSE conn[c].behind - 1
<1>1. conn[c] \in Connection /\ behind \in 0 .. Capacity + 1
  BY RequestsAssumption DEF ConnType, Connection, Receive
<1>2. [conn[c] EXCEPT !.behind = behind] \in Connection
  BY <1>1, ConnectionEdits
<1>3. \E r \in Connection : conn' = [conn EXCEPT ![c] = r]
  BY <1>2 DEF Receive
<1>4. QED
  BY <1>3 DEF ConnType

LEMMA ConnTypes ==
  ASSUME TypeOK, CountsAreFinite, NEW c \in Clients,
         \/ Connect(c) \/ Handshake(c) \/ Leave(c) \/ StartPreview(c) \/ StopPreview(c)
         \/ Subscribe(c) \/ Disconnect(c) \/ Receive(c) \/ Unsubscribe(c)
  PROVE  TypeOK'
<1>1. UNCHANGED <<work, ops, cached>>
  BY DEF Connect, Handshake, Leave, StartPreview, StopPreview, Subscribe, Disconnect, Receive,
         Unsubscribe
<1>2. free' \in 0 .. 1 /\ line' \in Seq(Clients) /\ ops' \in Seq(SuiteOperation)
      /\ Len(ops') <= MaxOperations /\ cached' \in BOOLEAN
      /\ jobs' \subseteq [kind : {"image"}, of : Clients] \cup [kind : {"suite"}, of : Operations']
  BY <1>1 DEF TypeOK, work, Operations
<1>3. connected' \in Nat /\ leases' \in Nat
  <2>1. /\ connected \in Nat /\ leases \in Nat
        /\ ~At(c, "out") => connected - 1 \in Nat
        /\ conn[c].lease => leases - 1 \in Nat
    BY CountersArePositive
  <2>2. QED
    BY <2>1 DEF Connect, Handshake, Leave, StartPreview, StopPreview, Subscribe, Disconnect, Receive,
       Unsubscribe, Drop, At
<1>4. ConnType'
  <2>1. ConnType
    BY DEF TypeOK, ConnType
  <2>3. CASE Connect(c) \/ Handshake(c) \/ Subscribe(c)
    <3>1. \E at \in Places : conn' = [conn EXCEPT ![c].at = at]
      BY <2>3 DEF Places, Connect, Handshake, Subscribe, Goto
    <3>2. \A at \in Places : [conn EXCEPT ![c].at = at] \in [Clients -> Connection]
      BY <2>1, EditedConnections DEF ConnType
    <3>3. QED
      BY <3>1, <3>2 DEF ConnType
  <2>4. CASE Leave(c) \/ StartPreview(c) \/ StopPreview(c)
    <3>1. \E b \in BOOLEAN : \/ conn' = [conn EXCEPT ![c].left = b]
                            \/ conn' = [conn EXCEPT ![c].lease = b]
      BY <2>4 DEF Leave, StartPreview, StopPreview
    <3>2. /\ \A b \in BOOLEAN : [conn EXCEPT ![c].left = b] \in [Clients -> Connection]
          /\ \A b \in BOOLEAN : [conn EXCEPT ![c].lease = b] \in [Clients -> Connection]
      BY <2>1, EditedConnections DEF ConnType
    <3>3. QED
      BY <3>1, <3>2 DEF ConnType
  <2>6. CASE Disconnect(c) \/ Unsubscribe(c)
    <3>1. conn' = [conn EXCEPT ![c] = Out]
      BY <2>6 DEF Disconnect, Unsubscribe, Drop
    <3>2. Out \in Connection
      BY RequestsAssumption DEF Connection, Out
    <3>3. QED
      BY <2>1, <3>1, <3>2, ConnectionChange DEF ConnType
  <2>5. CASE Receive(c)
    BY <2>1, <2>5, ReceiveType
  <2>7. QED
    BY <2>3, <2>4, <2>5, <2>6
<1>5. QED
  BY <1>2, <1>3, <1>4 DEF TypeOK, ConnType

(* The slot passes from the work that ends to the first in line. *)
LEMMA FirstInLine ==
  ASSUME TypeOK, line # <<>>
  PROVE  Head(line) \in Clients /\ Tail(line) \in Seq(Clients)
<1>1. line \in Seq(Clients)
  BY DEF TypeOK
<1>2. QED
  BY <1>1, HeadTailProperties

LEMMA ReleaseTypes ==
  ASSUME TypeOK, NEW job, Release(job)
  PROVE  /\ free' \in 0 .. 1 /\ line' \in Seq(Clients)
         /\ jobs' \subseteq [kind : {"image"}, of : Clients] \cup [kind : {"suite"}, of : Operations]
<1>1. free' \in 0 .. 1
  BY DEF Release
<1>2. line' \in Seq(Clients)
  BY FirstInLine DEF Release, TypeOK
<1>3. \A c \in (IF line = <<>> THEN {} ELSE {Head(line)}) : c \in Clients
  BY FirstInLine
<1>4. {[kind |-> "image", of |-> c] : c \in (IF line = <<>> THEN {} ELSE {Head(line)})}
        \subseteq [kind : {"image"}, of : Clients]
  BY <1>3
<1>5. QED
  BY <1>1, <1>2, <1>4 DEF Release, TypeOK

LEMMA NextWorkingType ==
  ASSUME TypeOK, NEW f \in [Clients -> Connection]
  PROVE  NextWorking(f) \in [Clients -> Connection]
<1>1. CASE line = <<>>
  BY <1>1 DEF NextWorking
<1>2. CASE line # <<>>
  <2>1. Head(line) \in Clients
    BY <1>2, FirstInLine
  <2>2. \A at \in Places : [f EXCEPT ![Head(line)].at = at] \in [Clients -> Connection]
    BY <2>1, EditedConnections
  <2>3. [f EXCEPT ![Head(line)].at = "working"] \in [Clients -> Connection]
    BY <2>2 DEF Places
  <2>4. QED
    BY <1>2, <2>3 DEF NextWorking
<1>3. QED
  BY <1>1, <1>2

LEMMA WorkTypes ==
  ASSUME TypeOK,
         \/ \E c \in Clients : AskImage(c) \/ FinishImage(c)
         \/ \E o \in Operations : EndSuite(o)
  PROVE  TypeOK'
<1>1. UNCHANGED <<connected, leases, ops, cached>>
  BY DEF AskImage, FinishImage, EndSuite
<1>2. connected' \in Nat /\ leases' \in Nat /\ ops' \in Seq(SuiteOperation)
      /\ Len(ops') <= MaxOperations /\ cached' \in BOOLEAN /\ Operations' = Operations
  BY <1>1 DEF TypeOK, Operations
<1>3. CASE \E c \in Clients : AskImage(c)
  <2>1. PICK c \in Clients : AskImage(c)
    BY <1>3
  <2>2. \A at \in Places : [conn EXCEPT ![c].at = at] \in [Clients -> Connection]
    BY EditedConnections DEF TypeOK
  <2>3. ConnType'
    BY <2>1, <2>2 DEF AskImage, Goto, Places, ConnType
  <2>4. line' \in Seq(Clients) /\ free' \in 0 .. 1
    BY <2>1, AppendProperties DEF AskImage, TypeOK
  <2>5. jobs' \subseteq [kind : {"image"}, of : Clients] \cup [kind : {"suite"}, of : Operations']
    BY <2>1, <1>2 DEF AskImage, TypeOK
  <2>6. QED
    BY <1>2, <2>3, <2>4, <2>5 DEF TypeOK, ConnType
<1>4. CASE \E c \in Clients : FinishImage(c)
  <2>1. PICK c \in Clients : FinishImage(c)
    BY <1>4
  <2>2. \A at \in Places : [conn EXCEPT ![c].at = at] \in [Clients -> Connection]
    BY EditedConnections DEF TypeOK
  <2>3. [conn EXCEPT ![c].at = "ready"] \in [Clients -> Connection]
    BY <2>2 DEF Places
  <2>4. ConnType'
    BY <2>1, <2>3, NextWorkingType DEF FinishImage, ConnType
  <2>5. Release([kind |-> "image", of |-> c])
    BY <2>1 DEF FinishImage
  <2>6. QED
    BY <1>2, <2>4, <2>5, ReleaseTypes DEF TypeOK, ConnType
<1>5. CASE \E o \in Operations : EndSuite(o)
  <2>1. PICK o \in Operations : EndSuite(o)
    BY <1>5
  <2>2. ConnType'
    BY <2>1, NextWorkingType DEF EndSuite, ConnType, TypeOK
  <2>3. Release([kind |-> "suite", of |-> o])
    BY <2>1 DEF EndSuite
  <2>4. QED
    BY <1>2, <2>2, <2>3, ReleaseTypes DEF TypeOK, ConnType
<1>6. QED
  BY <1>3, <1>4, <1>5

(* An operation is changed in its place. *)
Results == {"unread", "had", "lost"}

LEMMA OperationEdits ==
  ASSUME NEW f \in [Operations -> SuiteOperation], NEW o \in Operations
  PROVE  /\ \A status \in Settled :
              [f EXCEPT ![o].status = status, ![o].phase = 0, ![o].cancel = FALSE, ![o].watched = FALSE]
                \in [Operations -> SuiteOperation]
         /\ \A phase \in 0 .. Len(Phases) :
              [f EXCEPT ![o].phase = phase] \in [Operations -> SuiteOperation]
         /\ [f EXCEPT ![o].watched = FALSE, ![o].cancel = TRUE] \in [Operations -> SuiteOperation]
         /\ [f EXCEPT ![o].retained = FALSE] \in [Operations -> SuiteOperation]
         /\ \A result \in Results : [f EXCEPT ![o].result = result] \in [Operations -> SuiteOperation]
         /\ \A b \in BOOLEAN : [f EXCEPT ![o].cancel = b] \in [Operations -> SuiteOperation]
<1>1. f[o] \in SuiteOperation /\ 0 \in 0 .. Len(Phases)
  BY DEF Phases
<1>2. \A r \in SuiteOperation : [f EXCEPT ![o] = r] \in [Operations -> SuiteOperation]
  OBVIOUS
<1>3. \A status \in Settled :
        [f[o] EXCEPT !.status = status, !.phase = 0, !.cancel = FALSE, !.watched = FALSE] \in SuiteOperation
  BY <1>1 DEF SuiteOperation, Settled
<1>4. \A phase \in 0 .. Len(Phases) : [f[o] EXCEPT !.phase = phase] \in SuiteOperation
  BY <1>1 DEF SuiteOperation
<1>5. [f[o] EXCEPT !.watched = FALSE, !.cancel = TRUE] \in SuiteOperation
  BY <1>1 DEF SuiteOperation
<1>6. /\ [f[o] EXCEPT !.retained = FALSE] \in SuiteOperation
      /\ \A result \in Results : [f[o] EXCEPT !.result = result] \in SuiteOperation
  BY <1>1 DEF SuiteOperation, Results
<1>7. \A b \in BOOLEAN : [f[o] EXCEPT !.cancel = b] \in SuiteOperation
  BY <1>1 DEF SuiteOperation
<1>8. \A status \in Settled :
        [f EXCEPT ![o].status = status, ![o].phase = 0, ![o].cancel = FALSE, ![o].watched = FALSE]
          \in [Operations -> SuiteOperation]
  BY <1>2, <1>3
<1>9. \A phase \in 0 .. Len(Phases) : [f EXCEPT ![o].phase = phase] \in [Operations -> SuiteOperation]
  BY <1>2, <1>4
<1>10. [f EXCEPT ![o].watched = FALSE, ![o].cancel = TRUE] \in [Operations -> SuiteOperation]
  BY <1>2, <1>5
<1>11. /\ [f EXCEPT ![o].retained = FALSE] \in [Operations -> SuiteOperation]
       /\ \A result \in Results : [f EXCEPT ![o].result = result] \in [Operations -> SuiteOperation]
  BY <1>2, <1>6
<1>12. \A b \in BOOLEAN : [f EXCEPT ![o].cancel = b] \in [Operations -> SuiteOperation]
  BY <1>2, <1>7
<1>13. QED
  BY <1>8, <1>9, <1>10, <1>11, <1>12

(* Only an inventory is skipped, and it is the second of five phases. *)
LEMMA PhasesGoOn ==
  ASSUME TypeOK, NEW o \in Operations, ops[o].phase < Len(Phases), NEW phase \in NextPhases(o)
  PROVE  phase \in 0 .. Len(Phases)
<1>1. Len(Phases) = 5 /\ ops[o].phase \in 0 .. 5
  BY OperationTypes DEF Phases, SuiteOperation
<1>2. \A n \in 1 .. 5 : Phases[n] = "inventory" => n = 2
  BY DEF Phases
<1>3. QED
  BY <1>1, <1>2 DEF NextPhases

LEMMA NotifyType ==
  ASSUME ConnType, Notify
  PROVE  ConnType'
<1>1. \A c \in Clients : \E behind \in 0 .. Capacity + 1 :
        conn'[c] = [conn[c] EXCEPT !.behind = behind] \/ conn'[c] = conn[c]
  <2>1. TAKE c \in Clients
  <2> DEFINE behind == IF conn[c].behind > Capacity THEN conn[c].behind ELSE conn[c].behind + 1
  <2>2. behind \in 0 .. Capacity + 1
    BY RequestsAssumption DEF ConnType, Connection
  <2>3. conn'[c] = [conn[c] EXCEPT !.behind = behind] \/ conn'[c] = conn[c]
    BY DEF Notify
  <2>4. QED
    BY <2>2, <2>3
<1>2. \A c \in Clients : conn'[c] \in Connection
  <2>1. TAKE c \in Clients
  <2>2. conn[c] \in Connection
    BY DEF ConnType
  <2>3. \A behind \in 0 .. Capacity + 1 : [conn[c] EXCEPT !.behind = behind] \in Connection
    BY <2>2, ConnectionEdits
  <2>4. QED
    BY <1>1, <2>2, <2>3
<1>3. QED
  BY <1>2 DEF ConnType, Notify

(* What Advance does to the operation and to the connections. *)
LEMMA AdvanceTypes ==
  ASSUME TypeOK, NEW o \in Operations, Advance(o)
  PROVE  TypeOK'
<1>1. UNCHANGED <<connected, leases, work>> /\ Running(o)
  BY DEF Advance
<1>2. ops \in [Operations -> SuiteOperation] /\ ConnType
  BY OperationTypes DEF TypeOK, ConnType
<1>3. ops' \in [Operations -> SuiteOperation] /\ ConnType' /\ cached' \in BOOLEAN
  <2>1. CASE Settle(o, "cancelled") /\ UNCHANGED <<conn, cached>>
    <3>1. ops' \in [Operations -> SuiteOperation]
      BY <1>2, <2>1, OperationEdits DEF Settle, Settled
    <3>2. QED
      BY <2>1, <3>1, <1>2 DEF ConnType, TypeOK
  <2>2. CASE /\ \E phase \in NextPhases(o) : ops' = [ops EXCEPT ![o].phase = phase]
             /\ cached' = (cached \/ ops'[o].phase > 2)
             /\ Notify
    <3>1. PICK phase \in NextPhases(o) : ops' = [ops EXCEPT ![o].phase = phase]
      BY <2>2
    <3>2. phase \in 0 .. Len(Phases)
      BY <3>1, PhasesGoOn DEF Advance
    <3>3. ops' \in [Operations -> SuiteOperation]
      BY <1>2, <3>1, <3>2, OperationEdits
    <3>4. cached' \in BOOLEAN
      BY <2>2 DEF TypeOK
    <3>5. QED
      BY <1>2, <2>2, <3>3, <3>4, NotifyType
  <2>3. QED
    BY <2>1, <2>2 DEF Advance
<1>4. QED
  BY <1>1, <1>3, OperationChanges DEF TypeOK, ConnType, work

LEMMA SettleTypes ==
  ASSUME TypeOK, NEW o \in Operations, NEW status \in Settled, Settle(o, status),
         UNCHANGED <<connections, work, cached>>
  PROVE  TypeOK'
<1>1. ops' \in [Operations -> SuiteOperation]
  BY OperationTypes, OperationEdits DEF Settle
<1>2. QED
  BY <1>1, OperationChanges DEF TypeOK, connections, work

LEMMA WatchdogTypes ==
  ASSUME TypeOK, NEW o \in Operations, Watchdog(o)
  PROVE  TypeOK'
<1>1. ops' \in [Operations -> SuiteOperation]
  BY OperationTypes, OperationEdits DEF Watchdog
<1>2. ConnType'
  BY NotifyType DEF Watchdog, TypeOK, ConnType
<1>3. QED
  BY <1>1, <1>2, OperationChanges DEF TypeOK, ConnType, Watchdog, work

(* A call looks an operation up, and does something with it later. *)
LEMMA LookupTypes ==
  ASSUME TypeOK, LookupsAreSound, NEW c \in Clients,
         \/ \E o \in Operations : ReadResult(c, o) \/ AskCancel(c, o)
         \/ ConsumeResult(c) \/ WriteReply(c) \/ SetCancel(c)
  PROVE  TypeOK'
<1>1. UNCHANGED <<connected, leases, work, cached>>
  BY DEF ReadResult, AskCancel, ConsumeResult, WriteReply, SetCancel
<1>2. ops \in [Operations -> SuiteOperation] /\ Operations \subseteq Nat /\ conn \in [Clients -> Connection]
  BY OperationTypes DEF TypeOK
<1>3. /\ \A at \in Places : [conn EXCEPT ![c].at = at] \in [Clients -> Connection]
      /\ \A at \in Places, op \in Nat :
           [conn EXCEPT ![c].at = at, ![c].op = op] \in [Clients -> Connection]
  BY <1>2, EditedConnections
<1>4. \/ \E at \in Places : conn' = [conn EXCEPT ![c].at = at]
      \/ \E at \in Places, op \in Nat : conn' = [conn EXCEPT ![c].at = at, ![c].op = op]
  BY <1>2 DEF ReadResult, AskCancel, ConsumeResult, WriteReply, SetCancel, Places, Goto
<1>5. ConnType'
  <2>1. CASE \E at \in Places : conn' = [conn EXCEPT ![c].at = at]
    BY <1>3, <2>1 DEF ConnType
  <2>2. CASE \E at \in Places, op \in Nat : conn' = [conn EXCEPT ![c].at = at, ![c].op = op]
    BY <1>3, <2>2 DEF ConnType
  <2>3. QED
    BY <1>4, <2>1, <2>2
<1>6. ops' \in [Operations -> SuiteOperation]
  <2>1. CASE \E o \in Operations : ReadResult(c, o) \/ AskCancel(c, o)
    BY <1>2, <2>1 DEF ReadResult, AskCancel
  <2>2. CASE ConsumeResult(c) \/ WriteReply(c)
    <3>1. conn[c].op \in Operations
      BY <2>2 DEF ConsumeResult, WriteReply, At, LookupsAreSound, Looking
    <3>2. /\ [ops EXCEPT ![conn[c].op].retained = FALSE] \in [Operations -> SuiteOperation]
          /\ [ops EXCEPT ![conn[c].op].result = "had"] \in [Operations -> SuiteOperation]
      <4>1. "had" \in Results
        BY DEF Results
      <4>2. \A result \in Results :
              [ops EXCEPT ![conn[c].op].result = result] \in [Operations -> SuiteOperation]
        BY <1>2, <3>1, OperationEdits
      <4>3. [ops EXCEPT ![conn[c].op].retained = FALSE] \in [Operations -> SuiteOperation]
        BY <1>2, <3>1, OperationEdits
      <4>4. QED
        BY <4>1, <4>2, <4>3
    <3>3. QED
      BY <2>2, <3>2 DEF ConsumeResult, WriteReply
  <2>3. CASE SetCancel(c)
    <3>1. conn[c].op \in Operations
      BY <2>3 DEF SetCancel, At, LookupsAreSound, Looking
    <3>2. Running(conn[c].op) \in BOOLEAN
      BY DEF Running
    <3>3. QED
      BY <1>2, <2>3, <3>1, <3>2, OperationEdits DEF SetCancel
  <2>4. QED
    BY <2>1, <2>2, <2>3
<1>7. QED
  BY <1>1, <1>5, <1>6, OperationChanges DEF TypeOK, ConnType, work

(* A reply that fails ends the connection. *)
LEMMA LostReply ==
  ASSUME TypeOK, LookupsAreSound, NEW c \in Clients, LoseReply(c)
  PROVE  /\ conn[c].op \in Operations
         /\ \E result \in Results \ {"unread"} : ops' = [ops EXCEPT ![conn[c].op].result = result]
<1>1. conn[c].op \in Operations
  BY DEF LoseReply, At, LookupsAreSound, Looking
<1>2. \E result \in Results \ {"unread"} : ops' = [ops EXCEPT ![conn[c].op].result = result]
  <2> DEFINE result == IF ops[conn[c].op].result = "had" THEN ops[conn[c].op].result ELSE "lost"
  <2>1. result \in Results \ {"unread"}
    BY DEF Results
  <2>2. ops' = [ops EXCEPT ![conn[c].op].result = result]
    BY DEF LoseReply
  <2>3. QED
    BY <2>1, <2>2
<1>3. QED
  BY <1>1, <1>2

LEMMA LoseTypes ==
  ASSUME TypeOK, CountsAreFinite, LookupsAreSound, NEW c \in Clients, LoseReply(c)
  PROVE  TypeOK'
<1>1. connected' \in Nat /\ leases' \in Nat
  BY CountersArePositive DEF LoseReply, Drop, At
<1>2. ConnType'
  <2>1. conn' = [conn EXCEPT ![c] = Out] /\ conn \in [Clients -> Connection]
    BY DEF LoseReply, Drop, TypeOK
  <2>2. QED
    BY <2>1, EditedConnections DEF ConnType
<1>3. ops' \in [Operations -> SuiteOperation]
  <2>1. conn[c].op \in Operations /\ ops \in [Operations -> SuiteOperation]
    BY LostReply, OperationTypes
  <2>2. \A result \in Results :
          [ops EXCEPT ![conn[c].op].result = result] \in [Operations -> SuiteOperation]
    BY <2>1, OperationEdits
  <2>3. \E result \in Results : ops' = [ops EXCEPT ![conn[c].op].result = result]
    BY LostReply
  <2>4. QED
    BY <2>2, <2>3
<1>4. QED
  BY <1>1, <1>2, <1>3, OperationChanges DEF TypeOK, ConnType, LoseReply, work

LEMMA StartTypes ==
  ASSUME TypeOK, NEW c \in Clients, StartSuite(c)
  PROVE  TypeOK' /\ Operations' = Operations \cup {Len(ops) + 1} /\ Len(ops') = Len(ops) + 1
<1>1. Started \in SuiteOperation
  BY DEF Started, SuiteOperation, Phases
<1>2. ops' \in Seq(SuiteOperation) /\ Len(ops') = Len(ops) + 1 /\ Len(ops) \in Nat
  BY <1>1, AppendProperties, LenProperties DEF StartSuite, TypeOK
<1>3. Operations' = Operations \cup {Len(ops) + 1}
  BY <1>2 DEF Operations
<1>4. Len(ops') <= MaxOperations
  BY <1>2, RequestsAssumption DEF StartSuite
<1>5. jobs' \subseteq [kind : {"image"}, of : Clients] \cup [kind : {"suite"}, of : Operations']
  BY <1>3 DEF StartSuite, TypeOK
<1>6. QED
  BY <1>2, <1>3, <1>4, <1>5 DEF TypeOK, StartSuite, connections

LEMMA TypeStep ==
  ASSUME DaemonInvariant, Next
  PROVE  TypeOK'
<1>1. TypeOK /\ CountsAreFinite /\ LookupsAreSound
  BY DEF DaemonInvariant
<1>2. CASE \E c \in Clients : Request(c) \/ ConnectionStep(c)
  <2>1. PICK c \in Clients : Request(c) \/ ConnectionStep(c)
    BY <1>2
  <2>2. CASE \/ Connect(c) \/ Handshake(c) \/ Leave(c) \/ StartPreview(c) \/ StopPreview(c)
             \/ Subscribe(c) \/ Disconnect(c) \/ Receive(c) \/ Unsubscribe(c)
    BY <1>1, <2>2, ConnTypes
  <2>3. CASE AskImage(c) \/ FinishImage(c)
    BY <1>1, <2>3, WorkTypes
  <2>4. CASE StartSuite(c)
    BY <1>1, <2>4, StartTypes
  <2>5. CASE \/ \E o \in Operations : ReadResult(c, o) \/ AskCancel(c, o)
             \/ ConsumeResult(c) \/ WriteReply(c) \/ SetCancel(c)
    BY <1>1, <2>5, LookupTypes
  <2>6. CASE LoseReply(c)
    BY <1>1, <2>6, LoseTypes
  <2>7. QED
    BY <2>1, <2>2, <2>3, <2>4, <2>5, <2>6 DEF Request, ConnectionStep
<1>3. CASE \E o \in Operations : SuiteStep(o) \/ Watchdog(o)
  <2>1. PICK o \in Operations : SuiteStep(o) \/ Watchdog(o)
    BY <1>3
  <2>2. CASE CompleteSuite(o) \/ FailSuite(o)
    <3>1. \E status \in Settled : Settle(o, status)
      BY <2>2 DEF CompleteSuite, FailSuite, Settled
    <3>2. UNCHANGED <<connections, work, cached>>
      BY <2>2 DEF CompleteSuite, FailSuite
    <3>3. QED
      BY <1>1, <3>1, <3>2, SettleTypes
  <2>3. CASE Advance(o)
    BY <1>1, <2>3, AdvanceTypes
  <2>4. CASE EndSuite(o)
    BY <1>1, <2>4, WorkTypes
  <2>5. CASE Watchdog(o)
    BY <1>1, <2>5, WatchdogTypes
  <2>6. QED
    BY <2>1, <2>2, <2>3, <2>4, <2>5 DEF SuiteStep
<1>4. QED
  BY <1>2, <1>3 DEF Next

-----------------------------------------------------------------------------
(* Nothing else than the calls below comes or goes, or takes or drops a    *)
(* preview lease.                                                          *)
KeepsCounts ==
  /\ UNCHANGED <<connected, leases>>
  /\ \A c \in Clients : (conn'[c].at = "out" <=> conn[c].at = "out") /\ conn'[c].lease = conn[c].lease

LEMMA KeptCounts ==
  ASSUME CountsAreFinite, KeepsCounts
  PROVE  CountsAreFinite'
<1>1. Present' = Present /\ Holders' = Holders
  BY DEF KeepsCounts, Present, Holders, At
<1>2. QED
  BY <1>1 DEF KeepsCounts, CountsAreFinite

(* The permit passes to a connection that waits. *)
LEMMA WaitingFirst ==
  ASSUME TypeOK, LineIsOfWaiting, line # <<>>
  PROVE  /\ Head(line) \in Clients /\ At(Head(line), "waiting")
         /\ Len(line) \in Nat /\ Len(line) > 0 /\ Head(line) = line[1]
<1>1. line \in Seq(Clients) /\ Len(line) \in Nat /\ Len(line) > 0 /\ Head(line) = line[1]
  BY LenProperties, EmptySeq DEF TypeOK
<1>2. 1 \in 1 .. Len(line) /\ Head(line) \in Clients
  BY <1>1, FirstInLine
<1>3. QED
  BY <1>1, <1>2 DEF LineIsOfWaiting

LEMMA PassingKeepsCounts ==
  ASSUME TypeOK, LineIsOfWaiting, NEW f \in [Clients -> Connection],
         \A c \in Clients : (f[c].at = "out" <=> conn[c].at = "out") /\ f[c].lease = conn[c].lease,
         conn' = NextWorking(f), UNCHANGED <<connected, leases>>
  PROVE  KeepsCounts
<1>1. CASE line = <<>>
  BY <1>1 DEF NextWorking, KeepsCounts
<1>2. CASE line # <<>>
  <2>1. Head(line) \in Clients /\ conn[Head(line)].at # "out"
    BY <1>2, WaitingFirst DEF At
  <2>2. \A c \in Clients : f[c] \in Connection
    OBVIOUS
  <2>3. \A c \in Clients : c # Head(line) => conn'[c] = f[c]
    BY <1>2, <2>1 DEF NextWorking
  <2>4. conn'[Head(line)] = [f[Head(line)] EXCEPT !.at = "working"]
    BY <1>2, <2>1 DEF NextWorking
  <2>5. conn'[Head(line)].at = "working" /\ conn'[Head(line)].lease = f[Head(line)].lease
    BY <2>1, <2>2, <2>4 DEF Connection
  <2>6. QED
    BY <2>1, <2>3, <2>5 DEF KeepsCounts
<1>3. QED
  BY <1>1, <1>2

LEMMA CountsOfConnections ==
  ASSUME TypeOK, TypeOK', CountsAreFinite, NEW c \in Clients,
         \/ Connect(c) \/ Disconnect(c) \/ Unsubscribe(c) \/ LoseReply(c)
         \/ StartPreview(c) \/ StopPreview(c)
  PROVE  CountsAreFinite'
<1>1. conn \in [Clients -> Connection] /\ conn' \in [Clients -> Connection] /\ conn[c].lease \in BOOLEAN
      /\ connected \in Nat /\ leases \in Nat /\ MaxConnections \in Nat /\ conn[c] \in Connection
  BY RequestsAssumption DEF TypeOK, Connection
<1>2. /\ IsFiniteSet(Present) /\ IsFiniteSet(Holders)
      /\ connected = Cardinality(Present) /\ leases = Cardinality(Holders)
      /\ connected <= MaxConnections
  BY DEF CountsAreFinite
<1>3. /\ IsFiniteSet(Present \cup {c})
      /\ c \notin Present => Cardinality(Present \cup {c}) = connected + 1
      /\ IsFiniteSet(Present \ {c})
      /\ c \in Present => Cardinality(Present \ {c}) = connected - 1
  BY <1>2, FS_AddElement, FS_RemoveElement
<1>4. /\ IsFiniteSet(Holders \cup {c})
      /\ c \notin Holders => Cardinality(Holders \cup {c}) = leases + 1
      /\ IsFiniteSet(Holders \ {c})
      /\ c \in Holders => Cardinality(Holders \ {c}) = leases - 1
      /\ c \notin Holders => Holders \ {c} = Holders
  BY <1>2, FS_AddElement, FS_RemoveElement
<1>5. CASE Connect(c)
  <2>1. /\ c \notin Present /\ connected < MaxConnections
        /\ connected' = connected + 1 /\ leases' = leases
        /\ conn' = [conn EXCEPT ![c].at = "open"]
    BY <1>5 DEF Connect, Present, At, Goto
  <2>2. Present' = Present \cup {c} /\ Holders' = Holders
    BY <1>1, <2>1 DEF Present, Holders, At, Connection
  <2>3. QED
    BY <1>1, <1>2, <1>3, <2>1, <2>2 DEF CountsAreFinite
<1>6. CASE Disconnect(c) \/ Unsubscribe(c) \/ LoseReply(c)
  <2>1. /\ c \in Present /\ conn' = [conn EXCEPT ![c] = Out] /\ connected' = connected - 1
        /\ leases' = IF conn[c].lease THEN leases - 1 ELSE leases
    BY <1>6 DEF Disconnect, Unsubscribe, LoseReply, Present, At, Drop
  <2>2. Present' = Present \ {c} /\ Holders' = Holders \ {c}
    BY <1>1, <2>1 DEF Present, Holders, At, Out
  <2>3. leases' = Cardinality(Holders')
    BY <1>2, <1>4, <2>1, <2>2 DEF Holders
  <2>4. connected' <= MaxConnections
    BY <1>1, <1>2, <2>1
  <2>5. QED
    BY <1>3, <1>4, <2>1, <2>2, <2>3, <2>4 DEF CountsAreFinite
<1>7. CASE StartPreview(c)
  <2>1. /\ c \notin Holders /\ leases' = leases + 1 /\ connected' = connected
        /\ conn' = [conn EXCEPT ![c].lease = TRUE]
    BY <1>7 DEF StartPreview, Holders
  <2>2. Present' = Present /\ Holders' = Holders \cup {c}
    BY <1>1, <2>1 DEF Present, Holders, At, Connection
  <2>3. QED
    BY <1>1, <1>2, <1>4, <2>1, <2>2 DEF CountsAreFinite
<1>8. CASE StopPreview(c)
  <2>1. /\ c \in Holders /\ leases' = leases - 1 /\ connected' = connected
        /\ conn' = [conn EXCEPT ![c].lease = FALSE]
    BY <1>8 DEF StopPreview, Holders
  <2>2. Present' = Present /\ Holders' = Holders \ {c}
    BY <1>1, <2>1 DEF Present, Holders, At, Connection
  <2>3. QED
    BY <1>1, <1>2, <1>4, <2>1, <2>2 DEF CountsAreFinite
<1>9. QED
  BY <1>5, <1>6, <1>7, <1>8

LEMMA NotifyKeeps ==
  ASSUME TypeOK, Notify
  PROVE  \A c \in Clients : /\ conn'[c].at = conn[c].at /\ conn'[c].lease = conn[c].lease
                            /\ conn'[c].op = conn[c].op
<1>1. TAKE c \in Clients
<1>2. conn[c] \in Connection
  BY DEF TypeOK
<1>3. conn'[c] = conn[c] \/ \E behind : conn'[c] = [conn[c] EXCEPT !.behind = behind]
  BY DEF Notify
<1>4. QED
  BY <1>2, <1>3 DEF Connection

LEMMA CountsStep ==
  ASSUME DaemonInvariant, TypeOK', Next
  PROVE  CountsAreFinite'
<1>1. TypeOK /\ CountsAreFinite /\ LineIsOfWaiting /\ conn \in [Clients -> Connection]
  BY DEF DaemonInvariant, TypeOK
<1>2. \A c \in Clients : conn[c] \in Connection
  BY <1>1
<1>3. CASE \E c \in Clients : Request(c) \/ ConnectionStep(c)
  <2>1. PICK c \in Clients : Request(c) \/ ConnectionStep(c)
    BY <1>3
  <2>2. CASE \/ Connect(c) \/ Disconnect(c) \/ Unsubscribe(c) \/ LoseReply(c)
             \/ StartPreview(c) \/ StopPreview(c)
    BY <1>1, <2>2, CountsOfConnections
  <2>3. CASE Handshake(c) \/ Leave(c) \/ Subscribe(c) \/ Receive(c) \/ AskImage(c) \/ StartSuite(c)
    <3>1. UNCHANGED <<connected, leases>>
      BY <2>3 DEF Handshake, Leave, Subscribe, Receive, AskImage, StartSuite, connections
    <3>2. \A d \in Clients :
            (conn'[d].at = "out" <=> conn[d].at = "out") /\ conn'[d].lease = conn[d].lease
      <4>1. CASE Handshake(c) \/ Subscribe(c) \/ AskImage(c)
        <5>1. conn[c].at # "out" /\ \E at \in Places : at # "out" /\ conn' = [conn EXCEPT ![c].at = at]
          BY <4>1 DEF Handshake, Subscribe, AskImage, Goto, At, Ready, Places
        <5>2. QED
          BY <1>1, <1>2, <5>1 DEF Connection
      <4>2. CASE Leave(c)
        BY <1>1, <1>2, <4>2 DEF Leave, Connection
      <4>3. CASE Receive(c)
        <5>1. \E behind : conn' = [conn EXCEPT ![c].behind = behind]
          BY <4>3 DEF Receive
        <5>2. QED
          BY <1>1, <1>2, <5>1 DEF Connection
      <4>4. CASE StartSuite(c)
        BY <1>1, <1>2, <4>4 DEF StartSuite, connections
      <4>5. QED
        BY <2>3, <4>1, <4>2, <4>3, <4>4
    <3>3. KeepsCounts
      BY <1>1, <3>1, <3>2 DEF KeepsCounts
    <3>4. QED
      BY <1>1, <3>3, KeptCounts
  <2>4. CASE FinishImage(c)
    <3>1. [conn EXCEPT ![c].at = "ready"] \in [Clients -> Connection]
      <4>1. \A at \in Places : [conn EXCEPT ![c].at = at] \in [Clients -> Connection]
        BY <1>1, EditedConnections
      <4>2. QED
        BY <4>1 DEF Places
    <3>2. \A d \in Clients :
            /\ [conn EXCEPT ![c].at = "ready"][d].at = "out" <=> conn[d].at = "out"
            /\ [conn EXCEPT ![c].at = "ready"][d].lease = conn[d].lease
      BY <1>1, <1>2, <2>4 DEF FinishImage, At, Connection
    <3>3. KeepsCounts
      BY <1>1, <2>4, <3>1, <3>2, PassingKeepsCounts DEF FinishImage
    <3>4. QED
      BY <1>1, <3>3, KeptCounts
  <2>5. CASE \/ \E o \in Operations : ReadResult(c, o) \/ AskCancel(c, o)
             \/ ConsumeResult(c) \/ WriteReply(c) \/ SetCancel(c)
    <3>1. UNCHANGED <<connected, leases>>
      BY <2>5 DEF ReadResult, AskCancel, ConsumeResult, WriteReply, SetCancel
    <3>2. conn[c].at # "out"
      BY <2>5 DEF ReadResult, AskCancel, ConsumeResult, WriteReply, SetCancel, At, Ready
    <3>3. \/ \E at : at # "out" /\ conn' = [conn EXCEPT ![c].at = at]
          \/ \E at, op : at # "out" /\ conn' = [conn EXCEPT ![c].at = at, ![c].op = op]
      BY <2>5 DEF ReadResult, AskCancel, ConsumeResult, WriteReply, SetCancel, Goto
    <3>4. KeepsCounts
      <4>1. CASE \E at : at # "out" /\ conn' = [conn EXCEPT ![c].at = at]
        BY <1>1, <1>2, <3>1, <3>2, <4>1 DEF KeepsCounts, Connection
      <4>2. CASE \E at, op : at # "out" /\ conn' = [conn EXCEPT ![c].at = at, ![c].op = op]
        BY <1>1, <1>2, <3>1, <3>2, <4>2 DEF KeepsCounts, Connection
      <4>3. QED
        BY <3>3, <4>1, <4>2
    <3>5. QED
      BY <1>1, <3>4, KeptCounts
  <2>6. QED
    BY <2>1, <2>2, <2>3, <2>4, <2>5 DEF Request, ConnectionStep
<1>4. CASE \E o \in Operations : SuiteStep(o) \/ Watchdog(o)
  <2>1. PICK o \in Operations : SuiteStep(o) \/ Watchdog(o)
    BY <1>4
  <2>2. UNCHANGED <<connected, leases>>
    BY <2>1 DEF SuiteStep, Advance, CompleteSuite, FailSuite, EndSuite, Watchdog, connections
  <2>3. CASE EndSuite(o)
    <3>1. KeepsCounts
      BY <1>1, <2>2, <2>3, PassingKeepsCounts DEF EndSuite
    <3>2. QED
      BY <1>1, <3>1, KeptCounts
  <2>4. CASE ~EndSuite(o)
    <3>1. UNCHANGED conn \/ Notify
      BY <2>1, <2>4 DEF SuiteStep, Advance, CompleteSuite, FailSuite, Watchdog, connections
    <3>2. KeepsCounts
      BY <1>1, <2>2, <3>1, NotifyKeeps DEF KeepsCounts
    <3>3. QED
      BY <1>1, <3>2, KeptCounts
  <2>5. QED
    BY <2>3, <2>4
<1>5. QED
  BY <1>3, <1>4 DEF Next

-----------------------------------------------------------------------------
(* Who has the slot and who waits for it.                                  *)
KeepsSlot ==
  /\ UNCHANGED work
  /\ \A o \in Operations' : o \in Operations /\ (Running(o)' => Running(o))
  /\ \A c \in Clients : /\ conn'[c].at = "working" <=> conn[c].at = "working"
                        /\ conn'[c].at = "waiting" <=> conn[c].at = "waiting"

LEMMA KeptSlot ==
  ASSUME SlotHasOneOwner, LineIsOfWaiting, KeepsSlot
  PROVE  SlotHasOneOwner' /\ LineIsOfWaiting'
<1>1. jobs' = jobs /\ free' = free /\ line' = line
  BY DEF KeepsSlot, work
<1>2. SlotHasOneOwner'
  <2>1. \/ free' = 1 /\ jobs' = {} /\ line' = <<>>
        \/ free' = 0 /\ \E job \in jobs' : jobs' = {job}
    BY <1>1 DEF SlotHasOneOwner
  <2>2. \A o \in Operations' : Running(o)' => [kind |-> "suite", of |-> o] \in jobs'
    BY <1>1 DEF SlotHasOneOwner, KeepsSlot
  <2>3. \A c \in Clients : At(c, "working")' <=> [kind |-> "image", of |-> c] \in jobs'
    BY <1>1 DEF SlotHasOneOwner, KeepsSlot, At
  <2>4. QED
    BY <2>1, <2>2, <2>3 DEF SlotHasOneOwner
<1>3. LineIsOfWaiting'
  BY <1>1 DEF LineIsOfWaiting, KeepsSlot, At
<1>4. QED
  BY <1>2, <1>3

LEMMA SlotOfAsking ==
  ASSUME TypeOK, SlotHasOneOwner, LineIsOfWaiting, NEW c \in Clients, AskImage(c)
  PROVE  SlotHasOneOwner' /\ LineIsOfWaiting'
<1>1. conn \in [Clients -> Connection] /\ line \in Seq(Clients) /\ Len(line) \in Nat
      /\ Operations' = Operations /\ ops' = ops /\ conn[c].at = "ready" /\ conn[c] \in Connection
  BY LenProperties DEF TypeOK, AskImage, Operations, Ready, At
<1>2. CASE free = 1
  <2>1. jobs = {} /\ line = <<>>
    BY <1>2 DEF SlotHasOneOwner
  <2>2. /\ free' = 0 /\ jobs' = {[kind |-> "image", of |-> c]} /\ line' = <<>>
        /\ conn' = [conn EXCEPT ![c].at = "working"]
    BY <1>2, <2>1 DEF AskImage, Goto
  <2>3. /\ \A d \in Clients : conn'[d].at = "working" <=> d = c
        /\ \A d \in Clients : conn'[d].at = "waiting" <=> conn[d].at = "waiting" /\ d # c
    BY <1>1, <2>1, <2>2 DEF SlotHasOneOwner, At, Connection
  <2>4. SlotHasOneOwner'
    <3>1. \A o \in Operations' : ~Running(o)'
      BY <1>1, <2>1 DEF SlotHasOneOwner, Running
    <3>2. \A d \in Clients : At(d, "working")' <=> [kind |-> "image", of |-> d] \in jobs'
      BY <2>2, <2>3 DEF At
    <3>3. \E job \in jobs' : jobs' = {job}
      BY <2>2
    <3>4. QED
      BY <2>2, <3>1, <3>2, <3>3 DEF SlotHasOneOwner
  <2>5. LineIsOfWaiting'
    BY <1>1, <2>1, <2>2, <2>3 DEF LineIsOfWaiting, At
  <2>6. QED
    BY <2>4, <2>5
<1>3. CASE free # 1
  <2>1. /\ UNCHANGED <<free, jobs>> /\ line' = Append(line, c)
        /\ conn' = [conn EXCEPT ![c].at = "waiting"]
    BY <1>3 DEF AskImage, Goto
  <2>2. /\ \A d \in Clients : conn'[d].at = "working" <=> conn[d].at = "working"
        /\ \A d \in Clients : conn'[d].at = "waiting" <=> conn[d].at = "waiting" \/ d = c
    BY <1>1, <2>1 DEF Connection
  <2>3. SlotHasOneOwner'
    <3>1. free = 0 /\ \E job \in jobs : jobs = {job}
      BY <1>3 DEF SlotHasOneOwner
    <3>2. \A o \in Operations' : Running(o)' => [kind |-> "suite", of |-> o] \in jobs'
      BY <1>1, <2>1 DEF SlotHasOneOwner, Running
    <3>3. \A d \in Clients : At(d, "working")' <=> [kind |-> "image", of |-> d] \in jobs'
      BY <2>1, <2>2 DEF At, SlotHasOneOwner
    <3>4. QED
      BY <2>1, <3>1, <3>2, <3>3 DEF SlotHasOneOwner
  <2>4. /\ Len(line') = Len(line) + 1 /\ line'[Len(line) + 1] = c
        /\ \A i \in 1 .. Len(line) : line'[i] = line[i]
    BY <1>1, <2>1, AppendProperties
  <2>5. \A i \in 1 .. Len(line) : line[i] # c
    BY <1>1 DEF LineIsOfWaiting, At
  <2>6. LineIsOfWaiting'
    <3>1. \A d \in Clients : At(d, "waiting")' <=> \E i \in 1 .. Len(line') : line'[i] = d
      BY <1>1, <2>2, <2>4 DEF LineIsOfWaiting, At
    <3>2. \A i, j \in 1 .. Len(line') : line'[i] = line'[j] => i = j
      BY <1>1, <2>4, <2>5 DEF LineIsOfWaiting
    <3>3. QED
      BY <3>1, <3>2 DEF LineIsOfWaiting
  <2>7. QED
    BY <2>3, <2>6
<1>4. QED
  BY <1>2, <1>3

(* Work ends, and the first in line has the slot, or nobody has it. *)
LEMMA SlotOfPassing ==
  ASSUME TypeOK, LineIsOfWaiting, NEW job, jobs = {job}, Release(job), UNCHANGED ops,
         \A o \in Operations : ~Running(o),
         NEW f \in [Clients -> Connection], conn' = NextWorking(f),
         \A c \in Clients : f[c].at # "working" /\ (f[c].at = "waiting" <=> conn[c].at = "waiting")
  PROVE  SlotHasOneOwner' /\ LineIsOfWaiting'
<1>1. \A o \in Operations' : ~Running(o)'
  BY DEF Operations, Running
<1>2. CASE line = <<>>
  <2>1. line' = <<>> /\ free' = 1 /\ jobs' = {} /\ conn' = f
    BY <1>2 DEF Release, NextWorking
  <2>2. SlotHasOneOwner'
    BY <1>1, <2>1 DEF SlotHasOneOwner, At
  <2>3. LineIsOfWaiting'
    BY <1>2, <2>1 DEF LineIsOfWaiting, At
  <2>4. QED
    BY <2>2, <2>3
<1>3. CASE line # <<>>
  <2> DEFINE h == Head(line)
  <2>1. h \in Clients /\ Len(line) \in Nat /\ Len(line) > 0 /\ h = line[1]
    BY <1>3, WaitingFirst
  <2>2. line' = Tail(line) /\ free' = 0 /\ jobs' = {[kind |-> "image", of |-> h]}
    BY <1>3 DEF Release
  <2>3. \A c \in Clients : f[c] \in Connection
    OBVIOUS
  <2>4. conn' = [f EXCEPT ![h].at = "working"]
    BY <1>3 DEF NextWorking
  <2>5. /\ \A c \in Clients : conn'[c].at = "working" <=> c = h
        /\ \A c \in Clients : conn'[c].at = "waiting" <=> conn[c].at = "waiting" /\ c # h
    BY <2>1, <2>3, <2>4 DEF Connection
  <2>6. /\ Len(line') = Len(line) - 1
        /\ \A i \in 1 .. Len(line) - 1 : line'[i] = line[i + 1]
    <3>1. line \in Seq(Clients)
      BY DEF TypeOK
    <3>2. QED
      BY <1>3, <2>1, <2>2, <3>1, HeadTailProperties
  <2>7. SlotHasOneOwner'
    <3>1. \A c \in Clients : At(c, "working")' <=> [kind |-> "image", of |-> c] \in jobs'
      BY <2>2, <2>5 DEF At
    <3>2. \E j \in jobs' : jobs' = {j}
      BY <2>2
    <3>3. QED
      BY <1>1, <2>2, <3>1, <3>2 DEF SlotHasOneOwner
  <2>8. LineIsOfWaiting'
    <3>1. \A i, j \in 1 .. Len(line') : line'[i] = line'[j] => i = j
      <4>1. TAKE i, j \in 1 .. Len(line')
      <4>2. i + 1 \in 1 .. Len(line) /\ j + 1 \in 1 .. Len(line)
            /\ line'[i] = line[i + 1] /\ line'[j] = line[j + 1]
        BY <2>1, <2>6
      <4>3. line[i + 1] = line[j + 1] => i + 1 = j + 1
        BY <4>2 DEF LineIsOfWaiting
      <4>4. QED
        BY <4>2, <4>3
    <3>2. ASSUME NEW c \in Clients, c # h, NEW i \in 1 .. Len(line), line[i] = c
          PROVE  \E j \in 1 .. Len(line') : line'[j] = c
      <4>1. i # 1
        BY <2>1, <3>2
      <4>2. i - 1 \in 1 .. Len(line') /\ line'[i - 1] = line[(i - 1) + 1] /\ (i - 1) + 1 = i
        BY <2>1, <2>6, <4>1
      <4>3. QED
        BY <3>2, <4>2
    <3>3. ASSUME NEW c \in Clients, NEW i \in 1 .. Len(line'), line'[i] = c
          PROVE  c # h /\ \E j \in 1 .. Len(line) : line[j] = c
      <4>1. i + 1 \in 1 .. Len(line) /\ line[i + 1] = c /\ i + 1 # 1 /\ 1 \in 1 .. Len(line)
        BY <2>1, <2>6, <3>3
      <4>2. QED
        BY <2>1, <4>1 DEF LineIsOfWaiting
    <3>4. \A c \in Clients : At(c, "waiting") <=> \E i \in 1 .. Len(line) : line[i] = c
      BY DEF LineIsOfWaiting
    <3>5. \A c \in Clients : At(c, "waiting")' <=> \E i \in 1 .. Len(line') : line'[i] = c
      BY <2>5, <3>2, <3>3, <3>4 DEF At
    <3>6. QED
      BY <3>1, <3>5 DEF LineIsOfWaiting
  <2>9. QED
    BY <2>7, <2>8
<1>4. QED
  BY <1>2, <1>3

LEMMA SlotOfStarting ==
  ASSUME TypeOK, SlotHasOneOwner, LineIsOfWaiting, NEW c \in Clients, StartSuite(c)
  PROVE  SlotHasOneOwner' /\ LineIsOfWaiting'
<1>1. jobs = {} /\ line = <<>> /\ ops' = Append(ops, Started) /\ ops \in Seq(SuiteOperation)
      /\ Started \in SuiteOperation
  BY DEF SlotHasOneOwner, StartSuite, TypeOK, Started, SuiteOperation, Phases
<1>2. free' = 0 /\ jobs' = {[kind |-> "suite", of |-> Len(ops) + 1]} /\ UNCHANGED <<conn, line>>
  BY <1>1 DEF StartSuite, connections
<1>3. Operations' = Operations \cup {Len(ops) + 1} /\ \A o \in Operations : ops'[o] = ops[o]
  BY <1>1, StartTypes, AppendProperties DEF Operations
<1>4. \A o \in Operations : ~Running(o)
  BY <1>1 DEF SlotHasOneOwner
<1>5. \A o \in Operations' : Running(o)' => [kind |-> "suite", of |-> o] \in jobs'
  BY <1>2, <1>3, <1>4 DEF Running
<1>6. \A d \in Clients : At(d, "working")' <=> [kind |-> "image", of |-> d] \in jobs'
  BY <1>1, <1>2 DEF At, SlotHasOneOwner
<1>7. \E job \in jobs' : jobs' = {job}
  BY <1>2
<1>8. SlotHasOneOwner'
  BY <1>2, <1>5, <1>6, <1>7 DEF SlotHasOneOwner
<1>9. QED
  BY <1>2, <1>8 DEF LineIsOfWaiting, At

LEMMA SlotOfConnections ==
  ASSUME TypeOK, NEW c \in Clients,
         \/ Connect(c) \/ Handshake(c) \/ Leave(c) \/ StartPreview(c) \/ StopPreview(c)
         \/ Subscribe(c) \/ Disconnect(c) \/ Receive(c) \/ Unsubscribe(c)
  PROVE  KeepsSlot
<1>1. conn \in [Clients -> Connection] /\ \A d \in Clients : conn[d] \in Connection
  BY DEF TypeOK
<1>2. UNCHANGED work /\ UNCHANGED ops
  BY DEF Connect, Handshake, Leave, StartPreview, StopPreview, Subscribe, Disconnect, Receive,
         Unsubscribe
<1>3. \A d \in Clients : /\ conn'[d].at = "working" <=> conn[d].at = "working"
                         /\ conn'[d].at = "waiting" <=> conn[d].at = "waiting"
  <2>1. CASE Connect(c) \/ Handshake(c) \/ Subscribe(c)
    <3>1. conn[c].at \notin {"working", "waiting"}
          /\ \E at : at \notin {"working", "waiting"} /\ conn' = [conn EXCEPT ![c].at = at]
      BY <2>1 DEF Connect, Handshake, Subscribe, Goto, At, Ready
    <3>2. QED
      BY <1>1, <3>1 DEF Connection
  <2>2. CASE Leave(c) \/ StartPreview(c) \/ StopPreview(c)
    BY <1>1, <2>2 DEF Leave, StartPreview, StopPreview, Connection
  <2>3. CASE Disconnect(c) \/ Unsubscribe(c)
    <3>1. conn[c].at \notin {"working", "waiting"} /\ conn' = [conn EXCEPT ![c] = Out]
      BY <2>3 DEF Disconnect, Unsubscribe, Drop, At
    <3>2. QED
      BY <1>1, <3>1 DEF Out
  <2>4. CASE Receive(c)
    <3>1. \E behind : conn' = [conn EXCEPT ![c].behind = behind]
      BY <2>4 DEF Receive
    <3>2. QED
      BY <1>1, <3>1 DEF Connection
  <2>5. QED
    BY <2>1, <2>2, <2>3, <2>4
<1>4. QED
  BY <1>2, <1>3 DEF KeepsSlot, Operations, Running

(* What happens to an operation, or to a call about it, starts nothing.    *)
KeepsRunning == Operations' = Operations /\ \A o \in Operations : Running(o)' => Running(o)

LEMMA RunningStops ==
  ASSUME TypeOK, NEW o \in Operations,
         \/ Advance(o)
         \/ \E status \in Settled : Settle(o, status)
         \/ Watchdog(o)
  PROVE  /\ KeepsRunning
         /\ \A p \in Operations : ops'[p].retained = ops[p].retained /\ ops'[p].result = ops[p].result
<1>1. ops \in [Operations -> SuiteOperation] /\ \A p \in Operations : ops[p] \in SuiteOperation
  BY OperationTypes
<1>2. \/ \E phase : ops' = [ops EXCEPT ![o].phase = phase]
      \/ \E status \in Settled :
           ops' = [ops EXCEPT ![o].status = status, ![o].phase = 0, ![o].cancel = FALSE, ![o].watched = FALSE]
      \/ ops' = [ops EXCEPT ![o].watched = FALSE, ![o].cancel = TRUE]
  BY DEF Advance, Settle, Watchdog, Settled
<1>3. Operations' = Operations
  <2>1. DOMAIN ops' = DOMAIN ops
    BY <1>2
  <2>2. DOMAIN ops = Operations
    BY <1>1
  <2>3. CASE Advance(o) \/ Watchdog(o)
    <3>1. TypeOK'
      BY <2>3, AdvanceTypes, WatchdogTypes
    <3>2. ops' \in Seq(SuiteOperation)
      BY <3>1 DEF TypeOK
    <3>3. DOMAIN ops' = 1 .. Len(ops')
      BY <3>2, LenProperties
    <3>4. QED
      BY <2>1, <2>2, <3>3 DEF Operations
  <2>4. CASE \E status \in Settled : Settle(o, status)
    <3>1. PICK status \in Settled : Settle(o, status)
      BY <2>4
    <3>2. ops' \in [Operations -> SuiteOperation]
      BY <1>1, <3>1, OperationEdits DEF Settle
    <3>3. QED
      BY <3>2, OperationChanges
  <2>5. QED
    BY <2>3, <2>4
<1>4. \A p \in Operations : /\ ops'[p].status = ops[p].status \/ ops'[p].status \in Settled
                            /\ ops'[p].retained = ops[p].retained /\ ops'[p].result = ops[p].result
  <2>1. CASE \E phase : ops' = [ops EXCEPT ![o].phase = phase]
    BY <1>1, <2>1 DEF SuiteOperation
  <2>2. CASE \E status \in Settled :
           ops' = [ops EXCEPT ![o].status = status, ![o].phase = 0, ![o].cancel = FALSE, ![o].watched = FALSE]
    BY <1>1, <2>2 DEF SuiteOperation
  <2>3. CASE ops' = [ops EXCEPT ![o].watched = FALSE, ![o].cancel = TRUE]
    BY <1>1, <2>3 DEF SuiteOperation
  <2>4. QED
    BY <1>2, <2>1, <2>2, <2>3
<1>5. QED
  BY <1>3, <1>4 DEF KeepsRunning, Running, Settled

LEMMA RunningStays ==
  ASSUME TypeOK, LookupsAreSound, NEW c \in Clients,
         ConsumeResult(c) \/ WriteReply(c) \/ LoseReply(c) \/ SetCancel(c)
  PROVE  KeepsRunning /\ conn[c].op \in Operations
<1>1. ops \in [Operations -> SuiteOperation] /\ \A p \in Operations : ops[p] \in SuiteOperation
  BY OperationTypes
<1>2. conn[c].op \in Operations
  BY DEF ConsumeResult, WriteReply, LoseReply, SetCancel, At, LookupsAreSound, Looking
<1>3. \/ ops' = [ops EXCEPT ![conn[c].op].retained = FALSE]
      \/ \E result \in Results : ops' = [ops EXCEPT ![conn[c].op].result = result]
      \/ \E b \in BOOLEAN : ops' = [ops EXCEPT ![conn[c].op].cancel = b]
  <2>1. Running(conn[c].op) \in BOOLEAN
    BY DEF Running
  <2>2. CASE LoseReply(c)
    BY <2>2, LostReply
  <2>3. CASE ConsumeResult(c) \/ WriteReply(c) \/ SetCancel(c)
    BY <2>1, <2>3 DEF ConsumeResult, WriteReply, SetCancel, Results
  <2>4. QED
    BY <2>2, <2>3
<1>4. ops' \in [Operations -> SuiteOperation] /\ \A p \in Operations : ops'[p].status = ops[p].status
  <2>1. CASE ops' = [ops EXCEPT ![conn[c].op].retained = FALSE]
    <3>1. [ops EXCEPT ![conn[c].op].retained = FALSE] \in [Operations -> SuiteOperation]
      BY <1>1, <1>2, OperationEdits
    <3>2. QED
      BY <1>1, <1>2, <2>1, <3>1 DEF SuiteOperation
  <2>2. CASE \E result \in Results : ops' = [ops EXCEPT ![conn[c].op].result = result]
    <3>1. \A result \in Results :
            [ops EXCEPT ![conn[c].op].result = result] \in [Operations -> SuiteOperation]
      BY <1>1, <1>2, OperationEdits
    <3>2. QED
      BY <1>1, <1>2, <2>2, <3>1 DEF SuiteOperation
  <2>3. CASE \E b \in BOOLEAN : ops' = [ops EXCEPT ![conn[c].op].cancel = b]
    <3>1. \A b \in BOOLEAN : [ops EXCEPT ![conn[c].op].cancel = b] \in [Operations -> SuiteOperation]
      BY <1>1, <1>2, OperationEdits
    <3>2. QED
      BY <1>1, <1>2, <2>3, <3>1 DEF SuiteOperation
  <2>4. QED
    BY <1>3, <2>1, <2>2, <2>3
<1>5. Operations' = Operations
  BY <1>4, OperationChanges
<1>6. QED
  BY <1>2, <1>4, <1>5 DEF KeepsRunning, Running

LEMMA SlotStep ==
  ASSUME DaemonInvariant, Next
  PROVE  SlotHasOneOwner' /\ LineIsOfWaiting'
<1>1. /\ TypeOK /\ SlotHasOneOwner /\ LineIsOfWaiting /\ LookupsAreSound
      /\ conn \in [Clients -> Connection] /\ \A d \in Clients : conn[d] \in Connection
  BY DEF DaemonInvariant, TypeOK
<1>2. CASE \E c \in Clients : Request(c) \/ ConnectionStep(c)
  <2>1. PICK c \in Clients : Request(c) \/ ConnectionStep(c)
    BY <1>2
  <2>2. CASE \/ Connect(c) \/ Handshake(c) \/ Leave(c) \/ StartPreview(c) \/ StopPreview(c)
             \/ Subscribe(c) \/ Disconnect(c) \/ Receive(c) \/ Unsubscribe(c)
    BY <1>1, <2>2, SlotOfConnections, KeptSlot
  <2>3. CASE AskImage(c)
    BY <1>1, <2>3, SlotOfAsking
  <2>4. CASE FinishImage(c)
    <3> DEFINE f == [conn EXCEPT ![c].at = "ready"]
    <3>1. f \in [Clients -> Connection]
      <4>1. \A at \in Places : [conn EXCEPT ![c].at = at] \in [Clients -> Connection]
        BY <1>1, EditedConnections
      <4>2. QED
        BY <4>1 DEF Places
    <3>2. [kind |-> "image", of |-> c] \in jobs
      BY <1>1, <2>4 DEF SlotHasOneOwner, FinishImage
    <3>3. jobs = {[kind |-> "image", of |-> c]}
      BY <1>1, <3>2 DEF SlotHasOneOwner
    <3>4. \A o \in Operations : ~Running(o)
      BY <1>1, <3>3 DEF SlotHasOneOwner
    <3>5. \A d \in Clients : conn[d].at = "working" => d = c
      BY <1>1, <3>3 DEF SlotHasOneOwner, At
    <3>6. \A d \in Clients : f[d].at # "working" /\ (f[d].at = "waiting" <=> conn[d].at = "waiting")
      BY <1>1, <2>4, <3>5 DEF FinishImage, At, Connection
    <3>7. Release([kind |-> "image", of |-> c]) /\ conn' = NextWorking(f) /\ UNCHANGED ops
      BY <2>4 DEF FinishImage
    <3> HIDE DEF f
    <3>8. QED
      BY <1>1, <3>1, <3>3, <3>4, <3>6, <3>7, SlotOfPassing
  <2>5. CASE StartSuite(c)
    BY <1>1, <2>5, SlotOfStarting
  <2>6. CASE \E o \in Operations : ReadResult(c, o) \/ AskCancel(c, o)
    <3>1. UNCHANGED work /\ UNCHANGED ops /\ conn[c].at = "ready"
      BY <2>6 DEF ReadResult, AskCancel, Ready, At
    <3>2. \E at, op : at \notin {"working", "waiting"} /\ conn' = [conn EXCEPT ![c].at = at, ![c].op = op]
      BY <2>6 DEF ReadResult, AskCancel
    <3>3. \A d \in Clients : /\ conn'[d].at = "working" <=> conn[d].at = "working"
                             /\ conn'[d].at = "waiting" <=> conn[d].at = "waiting"
      BY <1>1, <3>1, <3>2 DEF Connection
    <3>4. KeepsSlot
      BY <3>1, <3>3 DEF KeepsSlot, Operations, Running
    <3>5. QED
      BY <1>1, <3>4, KeptSlot
  <2>7. CASE ConsumeResult(c) \/ WriteReply(c) \/ LoseReply(c) \/ SetCancel(c)
    <3>1. /\ UNCHANGED work /\ conn[c].at \in Looking
          /\ \/ conn' = [conn EXCEPT ![c].at = "ready", ![c].op = 0]
             \/ conn' = [conn EXCEPT ![c].at = "replying"]
             \/ conn' = [conn EXCEPT ![c] = Out]
      BY <2>7 DEF ConsumeResult, WriteReply, LoseReply, SetCancel, Goto, Drop, At, Looking
    <3>2. KeepsRunning
      BY <1>1, <2>7, RunningStays
    <3>3. \A d \in Clients : /\ conn'[d].at = "working" <=> conn[d].at = "working"
                             /\ conn'[d].at = "waiting" <=> conn[d].at = "waiting"
      BY <1>1, <3>1 DEF Connection, Looking, Out
    <3>4. KeepsSlot
      BY <3>1, <3>2, <3>3 DEF KeepsSlot, KeepsRunning
    <3>5. QED
      BY <1>1, <3>4, KeptSlot
  <2>8. QED
    BY <2>1, <2>2, <2>3, <2>4, <2>5, <2>6, <2>7 DEF Request, ConnectionStep
<1>3. CASE \E o \in Operations : SuiteStep(o) \/ Watchdog(o)
  <2>1. PICK o \in Operations : SuiteStep(o) \/ Watchdog(o)
    BY <1>3
  <2>2. CASE EndSuite(o)
    <3>1. jobs = {[kind |-> "suite", of |-> o]}
      BY <1>1, <2>2 DEF SlotHasOneOwner, EndSuite
    <3>2. \A p \in Operations : ~Running(p)
      BY <1>1, <2>2, <3>1 DEF SlotHasOneOwner, EndSuite
    <3>3. \A d \in Clients : conn[d].at # "working"
      BY <1>1, <3>1 DEF SlotHasOneOwner, At
    <3>4. Release([kind |-> "suite", of |-> o]) /\ conn' = NextWorking(conn) /\ UNCHANGED ops
      BY <2>2 DEF EndSuite
    <3>5. QED
      BY <1>1, <3>1, <3>2, <3>3, <3>4, SlotOfPassing
  <2>3. CASE Advance(o) \/ CompleteSuite(o) \/ FailSuite(o) \/ Watchdog(o)
    <3>1. UNCHANGED work
      BY <2>3 DEF Advance, CompleteSuite, FailSuite, Watchdog
    <3>2. UNCHANGED conn \/ Notify
      BY <2>3 DEF Advance, CompleteSuite, FailSuite, Watchdog, connections
    <3>3. \A d \in Clients : conn'[d].at = conn[d].at
      BY <1>1, <3>2, NotifyKeeps
    <3>4. Advance(o) \/ Watchdog(o) \/ \E status \in Settled : Settle(o, status)
      BY <2>3 DEF CompleteSuite, FailSuite, Settled
    <3>5. KeepsRunning
      BY <1>1, <3>4, RunningStops
    <3>6. KeepsSlot
      BY <3>1, <3>3, <3>5 DEF KeepsSlot, KeepsRunning
    <3>7. QED
      BY <1>1, <3>6, KeptSlot
  <2>4. QED
    BY <2>1, <2>2, <2>3 DEF SuiteStep
<1>4. QED
  BY <1>2, <1>3 DEF Next

-----------------------------------------------------------------------------
(* What a step leaves of what was looked up. *)
KeepsLookups ==
  /\ Operations \subseteq Operations'
  /\ \A o \in Operations : Running(o)' => Running(o)
  /\ \A c \in Clients :
       conn'[c].at \in Looking => conn'[c].at = conn[c].at /\ conn'[c].op = conn[c].op

(* A reply that is due stays due. *)
Owing(c) == conn'[c].at = conn[c].at /\ conn'[c].op = conn[c].op
RepliesStay == \A c \in Clients : At(c, "replying") => Owing(c)

LEMMA KeptLookups ==
  ASSUME LookupsAreSound, KeepsLookups
  PROVE  LookupsAreSound'
BY DEF LookupsAreSound, KeepsLookups, Looking

LEMMA ConnectionsKeep ==
  ASSUME TypeOK, NEW c \in Clients,
         \/ Connect(c) \/ Handshake(c) \/ Leave(c) \/ StartPreview(c) \/ StopPreview(c)
         \/ Subscribe(c) \/ Disconnect(c) \/ Receive(c) \/ Unsubscribe(c)
  PROVE  KeepsLookups /\ RepliesStay
<1>1. conn \in [Clients -> Connection] /\ \A d \in Clients : conn[d] \in Connection
  BY DEF TypeOK
<1>2. UNCHANGED ops
  BY DEF Connect, Handshake, Leave, StartPreview, StopPreview, Subscribe, Disconnect, Receive,
         Unsubscribe
<1>3. /\ \A d \in Clients \ {c} : conn'[d] = conn[d]
      /\ conn'[c].at \in Looking => Owing(c)
      /\ conn[c].at = "replying" => Owing(c)
  <2>1. CASE Connect(c) \/ Handshake(c) \/ Subscribe(c)
    <3>1. /\ conn[c].at # "replying"
          /\ \E at : at \notin Looking /\ conn' = [conn EXCEPT ![c].at = at]
      BY <2>1 DEF Connect, Handshake, Subscribe, Goto, Ready, At, Looking
    <3>2. QED
      BY <1>1, <3>1 DEF Connection
  <2>2. CASE Leave(c) \/ StartPreview(c) \/ StopPreview(c)
    BY <1>1, <2>2 DEF Leave, StartPreview, StopPreview, Connection, Owing
  <2>3. CASE Disconnect(c) \/ Unsubscribe(c)
    <3>1. conn[c].at # "replying" /\ conn' = [conn EXCEPT ![c] = Out]
      BY <2>3 DEF Disconnect, Unsubscribe, Drop, At
    <3>2. QED
      BY <1>1, <3>1 DEF Out, Looking
  <2>4. CASE Receive(c)
    <3>1. \E behind : conn' = [conn EXCEPT ![c].behind = behind]
      BY <2>4 DEF Receive
    <3>2. QED
      BY <1>1, <3>1 DEF Connection, Owing
  <2>5. QED
    BY <2>1, <2>2, <2>3, <2>4
<1>4. QED
  BY <1>2, <1>3 DEF KeepsLookups, RepliesStay, Owing, Operations, Running, At

LEMMA PassingKeeps ==
  ASSUME TypeOK, LineIsOfWaiting, UNCHANGED ops, NEW f \in [Clients -> Connection],
         conn' = NextWorking(f),
         \A c \in Clients : f[c].at \in Looking \/ conn[c].at \in Looking => f[c] = conn[c]
  PROVE  KeepsLookups /\ RepliesStay
<1>1. \A c \in Clients : f[c] \in Connection /\ conn[c] \in Connection
  BY DEF TypeOK
<1>2. \A c \in Clients : \/ conn'[c] = f[c]
                         \/ conn'[c] = [f[c] EXCEPT !.at = "working"] /\ conn[c].at = "waiting"
  BY WaitingFirst DEF NextWorking, At
<1>3. \A c \in Clients :
        /\ conn'[c].at \in Looking => conn'[c] = conn[c]
        /\ conn[c].at = "replying" => conn'[c] = conn[c]
  BY <1>1, <1>2 DEF Connection, Looking
<1>4. QED
  BY <1>3 DEF KeepsLookups, RepliesStay, Owing, Operations, Running, At

LEMMA LookupsStep ==
  ASSUME DaemonInvariant, TypeOK', Next
  PROVE  /\ LookupsAreSound'
         /\ \A c \in Clients : At(c, "replying") => Owing(c) \/ WriteReply(c) \/ LoseReply(c)
<1>1. /\ TypeOK /\ LineIsOfWaiting /\ LookupsAreSound
      /\ conn \in [Clients -> Connection] /\ \A d \in Clients : conn[d] \in Connection
  BY DEF DaemonInvariant, TypeOK
<1>2. CASE \E c \in Clients : Request(c) \/ ConnectionStep(c)
  <2>1. PICK c \in Clients : Request(c) \/ ConnectionStep(c)
    BY <1>2
  <2>2. CASE \/ Connect(c) \/ Handshake(c) \/ Leave(c) \/ StartPreview(c) \/ StopPreview(c)
             \/ Subscribe(c) \/ Disconnect(c) \/ Receive(c) \/ Unsubscribe(c)
    <3>1. KeepsLookups /\ RepliesStay
      BY <1>1, <2>2, ConnectionsKeep
    <3>2. QED
      BY <1>1, <3>1, KeptLookups DEF RepliesStay
  <2>3. CASE AskImage(c)
    <3>1. /\ UNCHANGED ops /\ conn[c].at = "ready"
          /\ \E at : at \notin Looking /\ conn' = [conn EXCEPT ![c].at = at]
      BY <2>3 DEF AskImage, Goto, Ready, At, Looking
    <3>2. \A d \in Clients : conn'[d].at \in Looking \/ conn[d].at \in Looking => conn'[d] = conn[d]
      BY <1>1, <3>1 DEF Connection, Looking
    <3>3. KeepsLookups /\ RepliesStay
      BY <3>1, <3>2 DEF KeepsLookups, RepliesStay, Owing, Operations, Running, At, Looking
    <3>4. QED
      BY <1>1, <3>3, KeptLookups DEF RepliesStay
  <2>4. CASE FinishImage(c)
    <3> DEFINE f == [conn EXCEPT ![c].at = "ready"]
    <3>1. f \in [Clients -> Connection]
      <4>1. \A at \in Places : [conn EXCEPT ![c].at = at] \in [Clients -> Connection]
        BY <1>1, EditedConnections
      <4>2. QED
        BY <4>1 DEF Places
    <3>2. \A d \in Clients : f[d].at \in Looking \/ conn[d].at \in Looking => f[d] = conn[d]
      BY <1>1, <2>4 DEF Connection, FinishImage, At, Looking
    <3>3. conn' = NextWorking(f) /\ UNCHANGED ops
      BY <2>4 DEF FinishImage
    <3> HIDE DEF f
    <3>4. KeepsLookups /\ RepliesStay
      BY <1>1, <3>1, <3>2, <3>3, PassingKeeps
    <3>5. QED
      BY <1>1, <3>4, KeptLookups DEF RepliesStay
  <2>5. CASE StartSuite(c)
    <3>1. conn' = conn /\ ops' = Append(ops, Started) /\ ops \in Seq(SuiteOperation)
      BY <1>1, <2>5 DEF StartSuite, connections, TypeOK
    <3>2. Operations' = Operations \cup {Len(ops) + 1} /\ \A o \in Operations : ops'[o] = ops[o]
      <4>1. Started \in SuiteOperation
        BY DEF Started, SuiteOperation, Phases
      <4>2. QED
        BY <1>1, <2>5, <3>1, <4>1, StartTypes, AppendProperties DEF Operations
    <3>3. KeepsLookups /\ RepliesStay
      BY <3>1, <3>2 DEF KeepsLookups, RepliesStay, Owing, Running
    <3>4. QED
      BY <1>1, <3>3, KeptLookups DEF RepliesStay
  <2>6. CASE \E o \in Operations : ReadResult(c, o) \/ AskCancel(c, o)
    <3>1. PICK o \in Operations : ReadResult(c, o) \/ AskCancel(c, o)
      BY <2>6
    <3>2. UNCHANGED ops /\ conn[c].at = "ready"
      BY <3>1 DEF ReadResult, AskCancel, Ready, At
    <3>3. \E at \in {"reading", "cancelling"} :
            conn' = [conn EXCEPT ![c].at = at, ![c].op = o] /\ (at = "reading" => ~Running(o))
      BY <3>1 DEF ReadResult, AskCancel
    <3>4. /\ \A d \in Clients \ {c} : conn'[d] = conn[d]
          /\ conn'[c].op = o /\ conn'[c].at \in {"reading", "cancelling"}
          /\ conn'[c].at = "reading" => ~Running(o)
      BY <1>1, <3>3 DEF Connection
    <3>5. LookupsAreSound'
      BY <1>1, <3>2, <3>4 DEF LookupsAreSound, Looking, Operations, Running
    <3>6. RepliesStay
      BY <3>2, <3>4 DEF RepliesStay, Owing, At
    <3>7. QED
      BY <3>5, <3>6 DEF RepliesStay
  <2>7. CASE ConsumeResult(c)
    <3>1. conn' = [conn EXCEPT ![c].at = "replying"] /\ conn[c].at = "reading"
      BY <2>7 DEF ConsumeResult, Goto, At
    <3>2. /\ \A d \in Clients \ {c} : conn'[d] = conn[d]
          /\ conn'[c].at = "replying" /\ conn'[c].op = conn[c].op
      BY <1>1, <3>1 DEF Connection
    <3>3. KeepsRunning
      BY <1>1, <2>7, RunningStays
    <3>4. LookupsAreSound'
      BY <1>1, <3>1, <3>2, <3>3 DEF LookupsAreSound, Looking, KeepsRunning
    <3>5. RepliesStay
      BY <3>1, <3>2 DEF RepliesStay, Owing, At
    <3>6. QED
      BY <3>4, <3>5 DEF RepliesStay
  <2>8. CASE WriteReply(c) \/ LoseReply(c) \/ SetCancel(c)
    <3>1. /\ SetCancel(c) => conn[c].at # "replying"
          /\ \/ conn' = [conn EXCEPT ![c].at = "ready", ![c].op = 0]
             \/ conn' = [conn EXCEPT ![c] = Out]
      BY <2>8 DEF WriteReply, LoseReply, SetCancel, Drop, At
    <3>2. (\A d \in Clients \ {c} : conn'[d] = conn[d]) /\ conn'[c].at \notin Looking
      BY <1>1, <3>1 DEF Connection, Out, Looking
    <3>3. KeepsRunning
      BY <1>1, <2>8, RunningStays
    <3>4. KeepsLookups
      BY <3>2, <3>3 DEF KeepsLookups, KeepsRunning
    <3>5. LookupsAreSound'
      BY <1>1, <3>4, KeptLookups
    <3>6. \A d \in Clients : At(d, "replying") => Owing(d) \/ d = c
      BY <3>2 DEF Owing
    <3>7. QED
      BY <2>8, <3>1, <3>5, <3>6 DEF At
  <2>9. QED
    BY <2>1, <2>2, <2>3, <2>4, <2>5, <2>6, <2>7, <2>8 DEF Request, ConnectionStep
<1>3. CASE \E o \in Operations : SuiteStep(o) \/ Watchdog(o)
  <2>1. PICK o \in Operations : SuiteStep(o) \/ Watchdog(o)
    BY <1>3
  <2>2. CASE EndSuite(o)
    <3>1. KeepsLookups /\ RepliesStay
      BY <1>1, <2>2, PassingKeeps DEF EndSuite
    <3>2. QED
      BY <1>1, <3>1, KeptLookups DEF RepliesStay
  <2>3. CASE Advance(o) \/ CompleteSuite(o) \/ FailSuite(o) \/ Watchdog(o)
    <3>1. UNCHANGED conn \/ Notify
      BY <2>3 DEF Advance, CompleteSuite, FailSuite, Watchdog, connections
    <3>2. \A d \in Clients : conn'[d].at = conn[d].at /\ conn'[d].op = conn[d].op
      BY <1>1, <3>1, NotifyKeeps
    <3>3. Advance(o) \/ Watchdog(o) \/ \E status \in Settled : Settle(o, status)
      BY <2>3 DEF CompleteSuite, FailSuite, Settled
    <3>4. KeepsRunning
      BY <1>1, <3>3, RunningStops
    <3>5. KeepsLookups
      BY <3>2, <3>4 DEF KeepsLookups, KeepsRunning
    <3>6. QED
      BY <1>1, <3>2, <3>5, KeptLookups DEF Owing
  <2>4. QED
    BY <2>1, <2>2, <2>3 DEF SuiteStep
<1>4. QED
  BY <1>2, <1>3 DEF Next

-----------------------------------------------------------------------------
(* Operations are kept until their result is asked for, and a result that  *)
(* is let go has a reply to go with.                                       *)
LEMMA RetainedIsFinite ==
  ASSUME TypeOK
  PROVE  IsFiniteSet(Retained) /\ Cardinality(Retained) \in Nat
<1>1. IsFiniteSet(1 .. Len(ops))
  BY OperationTypes, FS_Interval
<1>2. Retained \subseteq 1 .. Len(ops)
  BY DEF Retained, Operations
<1>3. QED
  BY <1>1, <1>2, FS_Subset, FS_CardinalityType

(* The part of OperationsAreKept that is about one operation. *)
Answered(o) ==
  /\ ~Running(o)
  /\ ops[o].result # "unread" \/ \E c \in Clients : At(c, "replying") /\ conn[c].op = o

LEMMA AnsweredStays ==
  ASSUME TypeOK, RepliesStay, Operations' = Operations,
         \A p \in Operations : Running(p)' => Running(p),
         NEW o \in Operations, ops'[o].result = ops[o].result, Answered(o)
  PROVE  Answered(o)'
BY DEF Answered, RepliesStay, Owing, At

LEMMA RetainedStep ==
  ASSUME DaemonInvariant, TypeOK', Next
  PROVE  OperationsAreKept'
<1>1. /\ TypeOK /\ LookupsAreSound /\ Cardinality(Retained) <= MaxRetained
      /\ \A o \in Operations \ Retained : Answered(o)
      /\ IsFiniteSet(Retained) /\ Cardinality(Retained) \in Nat
      /\ ops \in [Operations -> SuiteOperation] /\ \A p \in Operations : ops[p] \in SuiteOperation
      /\ conn \in [Clients -> Connection] /\ \A d \in Clients : conn[d] \in Connection
  BY RetainedIsFinite, OperationTypes DEF DaemonInvariant, OperationsAreKept, Answered, TypeOK
<1>2. \A c \in Clients : At(c, "replying") => Owing(c) \/ WriteReply(c) \/ LoseReply(c)
  BY LookupsStep
<1>3. ASSUME Cardinality(Retained') <= MaxRetained, \A o \in Operations' \ Retained' : Answered(o)'
      PROVE  OperationsAreKept'
  BY <1>3 DEF OperationsAreKept, Answered
<1>4. ASSUME Operations' = Operations, \A p \in Operations : Running(p)' => Running(p),
             \A p \in Operations : ops'[p].retained = ops[p].retained /\ ops'[p].result = ops[p].result,
             RepliesStay
      PROVE  OperationsAreKept'
  <2>1. Retained' = Retained
    BY <1>4 DEF Retained
  <2>2. QED
    BY <1>1, <1>3, <1>4, <2>1, AnsweredStays
<1>5. ASSUME UNCHANGED ops, RepliesStay
      PROVE  OperationsAreKept'
  BY <1>1, <1>4, <1>5 DEF Operations, Running
<1>6. CASE \E c \in Clients : StartSuite(c)
  <2>1. PICK c \in Clients : StartSuite(c)
    BY <1>6
  <2> DEFINE n == Len(ops) + 1
  <2>2. ops' = Append(ops, Started) /\ Cardinality(Retained) < MaxRetained /\ conn' = conn
    BY <2>1 DEF StartSuite, connections
  <2>3. Started \in SuiteOperation /\ Started.retained = TRUE
    BY DEF Started, SuiteOperation, Phases
  <2>4. /\ Operations' = Operations \cup {n} /\ n \notin Operations
        /\ \A o \in Operations : ops'[o] = ops[o]
        /\ ops'[n] = Started
    <3>1. ops \in Seq(SuiteOperation) /\ Len(ops) \in Nat
      BY <1>1, OperationTypes DEF TypeOK
    <3>2. QED
      BY <1>1, <2>1, <2>2, <2>3, <3>1, StartTypes, AppendProperties DEF Operations
  <2>5. Retained' = Retained \cup {n} /\ n \notin Retained
    BY <2>3, <2>4 DEF Retained
  <2>6. Cardinality(Retained') = Cardinality(Retained) + 1
    BY <1>1, <2>5, FS_AddElement
  <2>7. Cardinality(Retained') <= MaxRetained
    BY <1>1, <2>2, <2>6, RequestsAssumption
  <2>8. \A o \in Operations' \ Retained' : Answered(o)'
    BY <1>1, <2>2, <2>4, <2>5 DEF Answered, Running, At
  <2>9. QED
    BY <1>3, <2>7, <2>8
<1>7. CASE \E c \in Clients : ConsumeResult(c)
  <2>1. PICK c \in Clients : ConsumeResult(c)
    BY <1>7
  <2>2. Operations' = Operations /\ \A p \in Operations : Running(p)' => Running(p)
    BY <1>1, <2>1, RunningStays DEF KeepsRunning
  <2>3. PICK o \in Operations : /\ ~Running(o) /\ o = conn[c].op
                                /\ ops' = [ops EXCEPT ![o].retained = FALSE]
    BY <1>1, <2>1 DEF ConsumeResult, At, LookupsAreSound, Looking
  <2>4. /\ \A p \in Operations \ {o} : ops'[p] = ops[p]
        /\ ops'[o].retained = FALSE /\ ops'[o].result = ops[o].result /\ ~Running(o)'
    BY <1>1, <2>2, <2>3 DEF SuiteOperation
  <2>5. Retained' = Retained \ {o}
    BY <2>2, <2>4 DEF Retained
  <2>6. Cardinality(Retained') <= MaxRetained
    <3>1. Cardinality(Retained') <= Cardinality(Retained) /\ Cardinality(Retained') \in Nat
      BY <1>1, <2>5, FS_Subset, FS_CardinalityType
    <3>2. QED
      BY <1>1, <3>1, RequestsAssumption
  <2>7. Answered(o)'
    <3>1. conn' = [conn EXCEPT ![c].at = "replying"]
      BY <2>1 DEF ConsumeResult, Goto
    <3>2. conn'[c].at = "replying" /\ conn'[c].op = o
      BY <1>1, <2>3, <3>1 DEF Connection
    <3>3. QED
      BY <2>4, <3>2 DEF Answered, At
  <2>8. RepliesStay
    <3>1. conn[c].at = "reading"
      BY <2>1 DEF ConsumeResult, At
    <3>2. \A d \in Clients \ {c} : conn'[d] = conn[d]
      BY <1>1, <2>1 DEF ConsumeResult, Goto
    <3>3. QED
      BY <3>1, <3>2 DEF RepliesStay, Owing, At
  <2>9. QED
    BY <1>1, <1>3, <2>2, <2>4, <2>5, <2>6, <2>7, <2>8, AnsweredStays
<1>8. CASE \E c \in Clients : WriteReply(c) \/ LoseReply(c)
  <2>1. PICK c \in Clients : WriteReply(c) \/ LoseReply(c)
    BY <1>8
  <2>2. Operations' = Operations /\ \A p \in Operations : Running(p)' => Running(p)
    BY <1>1, <2>1, RunningStays DEF KeepsRunning
  <2>3. PICK o \in Operations : /\ ~Running(o) /\ o = conn[c].op
                                /\ \E result \in Results \ {"unread"} :
                                     ops' = [ops EXCEPT ![o].result = result]
    <3>1. CASE WriteReply(c)
      BY <1>1, <3>1 DEF WriteReply, At, LookupsAreSound, Looking, Results
    <3>2. CASE LoseReply(c)
      BY <1>1, <3>2, LostReply DEF LoseReply, At, LookupsAreSound
    <3>3. QED
      BY <2>1, <3>1, <3>2
  <2>4. /\ \A p \in Operations \ {o} : ops'[p] = ops[p]
        /\ ops'[o].retained = ops[o].retained /\ ops'[o].result # "unread" /\ ~Running(o)'
    BY <1>1, <2>2, <2>3 DEF SuiteOperation
  <2>5. Retained' = Retained /\ Answered(o)'
    BY <2>2, <2>4 DEF Retained, Answered
  <2>6. \A d \in Clients \ {c} : conn'[d] = conn[d]
    BY <1>1, <2>1 DEF WriteReply, LoseReply, Drop
  <2>7. \A p \in Operations \ {o} : Answered(p) => Answered(p)'
    BY <2>2, <2>3, <2>4, <2>6 DEF Answered, At
  <2>8. QED
    BY <1>1, <1>3, <2>2, <2>5, <2>7
<1>9. CASE \E c \in Clients : SetCancel(c)
  <2>1. PICK c \in Clients : SetCancel(c)
    BY <1>9
  <2>2. Operations' = Operations /\ \A p \in Operations : Running(p)' => Running(p)
    BY <1>1, <2>1, RunningStays DEF KeepsRunning
  <2>3. \E b \in BOOLEAN : ops' = [ops EXCEPT ![conn[c].op].cancel = b]
    BY <2>1 DEF SetCancel, Running
  <2>4. \A p \in Operations : ops'[p].retained = ops[p].retained /\ ops'[p].result = ops[p].result
    BY <1>1, <2>3 DEF SuiteOperation
  <2>5. RepliesStay
    <3>1. conn[c].at = "cancelling" /\ \A d \in Clients \ {c} : conn'[d] = conn[d]
      BY <1>1, <2>1 DEF SetCancel, At
    <3>2. QED
      BY <3>1 DEF RepliesStay, Owing, At
  <2>6. QED
    BY <1>4, <2>2, <2>4, <2>5
<1>10. CASE \E o \in Operations : Advance(o) \/ CompleteSuite(o) \/ FailSuite(o) \/ Watchdog(o)
  <2>1. PICK o \in Operations : Advance(o) \/ CompleteSuite(o) \/ FailSuite(o) \/ Watchdog(o)
    BY <1>10
  <2>2. Advance(o) \/ Watchdog(o) \/ \E status \in Settled : Settle(o, status)
    BY <2>1 DEF CompleteSuite, FailSuite, Settled
  <2>3. UNCHANGED conn \/ Notify
    BY <2>1 DEF Advance, CompleteSuite, FailSuite, Watchdog, connections
  <2>4. RepliesStay
    BY <1>1, <2>3, NotifyKeeps DEF RepliesStay, Owing
  <2>5. QED
    BY <1>1, <1>4, <2>2, <2>4, RunningStops DEF KeepsRunning
<1>11. CASE UNCHANGED ops /\ ~ \E c \in Clients : WriteReply(c) \/ LoseReply(c)
  <2>1. RepliesStay
    BY <1>2, <1>11 DEF RepliesStay
  <2>2. QED
    BY <1>5, <1>11, <2>1
<1>12. QED
  <2>1. CASE \E c \in Clients : Request(c) \/ ConnectionStep(c)
    <3>1. PICK c \in Clients : Request(c) \/ ConnectionStep(c)
      BY <2>1
    <3>2. \/ StartSuite(c) \/ ConsumeResult(c) \/ SetCancel(c) \/ WriteReply(c) \/ LoseReply(c)
          \/ UNCHANGED ops
      BY <3>1 DEF Request, ConnectionStep, Connect, Handshake, Leave, StartPreview, StopPreview,
         Subscribe, AskImage, ReadResult, AskCancel, Disconnect, Receive, Unsubscribe, FinishImage
    <3>3. QED
      BY <1>6, <1>7, <1>8, <1>9, <1>11, <3>2
  <2>2. CASE \E o \in Operations : SuiteStep(o) \/ Watchdog(o)
    <3>1. PICK o \in Operations : SuiteStep(o) \/ Watchdog(o)
      BY <2>2
    <3>2. EndSuite(o) => UNCHANGED ops
      BY DEF EndSuite
    <3>3. QED
      BY <1>8, <1>10, <1>11, <3>1, <3>2 DEF SuiteStep
  <2>3. QED
    BY <2>1, <2>2 DEF Next

-----------------------------------------------------------------------------
LEMMA DaemonInit ==
  ASSUME Init
  PROVE  DaemonInvariant
<1>1. /\ conn \in [Clients -> Connection] /\ \A c \in Clients : conn[c] = Out
      /\ connected = 0 /\ leases = 0 /\ free = 1 /\ jobs = {} /\ cached = FALSE
      /\ line = <<>> /\ ops = <<>>
  BY RequestsAssumption DEF Init, Connection, Out
<1>2. Out.at = "out" /\ Out.lease = FALSE
  BY DEF Out
<1>3. /\ line \in Seq(Clients) /\ Len(line) = 0
      /\ ops \in Seq(SuiteOperation) /\ Len(ops) = 0 /\ Operations = {}
  BY <1>1 DEF Operations
<1>4. TypeOK
  <2>1. connected \in Nat /\ leases \in Nat /\ free \in 0 .. 1
    BY <1>1
  <2>4. cached \in BOOLEAN
    BY <1>1, Zenon
  <2>2. jobs \subseteq [kind : {"image"}, of : Clients] \cup [kind : {"suite"}, of : Operations]
    BY <1>1
  <2>3. Len(ops) <= MaxOperations
    BY <1>3, RequestsAssumption
  <2>5. QED
    BY <1>1, <1>3, <2>1, <2>2, <2>3, <2>4 DEF TypeOK
<1>5. Present = {} /\ Holders = {} /\ Retained = {}
  BY <1>1, <1>2, <1>3 DEF Present, Holders, Retained, At
<1>6. CountsAreFinite
  BY <1>1, <1>5, FS_EmptySet, RequestsAssumption DEF CountsAreFinite
<1>7. SlotHasOneOwner /\ LineIsOfWaiting /\ LookupsAreSound
  BY <1>1, <1>2, <1>3 DEF SlotHasOneOwner, LineIsOfWaiting, LookupsAreSound, Looking, At
<1>8. OperationsAreKept
  BY <1>3, <1>5, FS_EmptySet, RequestsAssumption DEF OperationsAreKept
<1>9. QED
  BY <1>4, <1>6, <1>7, <1>8 DEF DaemonInvariant

LEMMA DaemonStutters ==
  ASSUME DaemonInvariant, UNCHANGED vars
  PROVE  DaemonInvariant'
BY DEF vars, DaemonInvariant, TypeOK, SlotHasOneOwner, LineIsOfWaiting, CountsAreFinite, Present,
   Holders, LookupsAreSound, OperationsAreKept, Retained, Operations, Running, At

(* In every behaviour, whatever fairness it has. *)
LEMMA DaemonHolds ==
  Init /\ [][Next]_vars => []DaemonInvariant
<1>1. Init => DaemonInvariant
  BY DaemonInit
<1>2. DaemonInvariant /\ [Next]_vars => DaemonInvariant'
  <2>1. SUFFICES ASSUME DaemonInvariant, [Next]_vars PROVE DaemonInvariant'
    OBVIOUS
  <2>2. CASE Next
    <3>1. TypeOK'
      BY <2>1, <2>2, TypeStep
    <3>2. QED
      BY <2>1, <2>2, <3>1, CountsStep, SlotStep, LookupsStep, RetainedStep DEF DaemonInvariant
  <2>3. CASE UNCHANGED vars
    BY <2>1, <2>3, DaemonStutters
  <2>4. QED
    BY <2>1, <2>2, <2>3
<1>3. QED
  BY <1>1, <1>2, PTL

(* Native work keeps the image slot until it has finished, whoever left or *)
(* cancelled; who waits, waits for it; and the counters that refuse        *)
(* connections and enable previews are those of the connections there are  *)
(* (serve, ImageSlot::acquire, PreviewLease::drop).                        *)
THEOREM CountsAndSlotAreSound ==
  Spec => []RequestsInvariant
<1>1. DaemonInvariant => RequestsInvariant
  <2>1. SUFFICES ASSUME DaemonInvariant PROVE RequestsInvariant
    OBVIOUS
  <2>2. TypeOK /\ SlotHasOneOwner /\ LineIsOfWaiting /\ CountsAreFinite
    BY <2>1 DEF DaemonInvariant
  <2>3. Cardinality(jobs) + free = 1
    <3>1. CASE free = 1 /\ jobs = {}
      <4>1. Cardinality(jobs) = 0
        BY <3>1, FS_EmptySet
      <4>2. QED
        BY <3>1, <4>1
    <3>2. CASE free = 0 /\ \E job \in jobs : jobs = {job}
      <4>1. Cardinality(jobs) = 1
        BY <3>2, FS_Singleton
      <4>2. QED
        BY <3>2, <4>1
    <3>3. QED
      BY <2>2, <3>1, <3>2 DEF SlotHasOneOwner
  <2>4. free = 1 => line = <<>>
    BY <2>2 DEF SlotHasOneOwner
  <2>5. DOMAIN line = 1 .. Len(line)
    BY <2>2, LenProperties DEF TypeOK
  <2>6. SlotIsHeld
    BY <2>2, <2>3, <2>4, <2>5 DEF SlotIsHeld, SlotHasOneOwner, LineIsOfWaiting
  <2>7. CountsAreExact
    BY <2>2 DEF CountsAreExact, CountsAreFinite, Present, Holders
  <2>8. QED
    BY <2>2, <2>6, <2>7 DEF RequestsInvariant
<1>2. QED
  BY <1>1, DaemonHolds, PTL DEF Spec

(* An operation that runs can be found; one that cannot be found any more  *)
(* has ended, and its result is with a client, on its way to one, or lost  *)
(* with a connection closed before the reply; and no more of them are kept *)
(* than the daemon says (suite.start, suite.status).                       *)
THEOREM ResultsAreKept ==
  Spec => []OperationsAreKept
<1>1. DaemonInvariant => OperationsAreKept
  BY DEF DaemonInvariant
<1>2. QED
  BY <1>1, DaemonHolds, PTL DEF Spec

-----------------------------------------------------------------------------
(* The rules of a profile *)

(* The established state is what the last report says; nothing has been    *)
(* reported while none is established.                                     *)
StateIsReported ==
  /\ state = "unset" => events = <<>>
  /\ events # <<>> =>
       IF events[Len(events)].kind = "left" THEN state = "inactive" ELSE state = "active"

(* The two instants the rule keeps bound every report, and lie in the past. *)
InstantsCoverEvents ==
  /\ \A i \in 1 .. Len(events) :
       /\ lastUpdate \in Nat
       /\ events[i].at <= lastUpdate
       /\ events[i].kind # "updated" =>
            lastTransition \in Nat /\ events[i].at <= lastTransition
  /\ lastTransition \in Nat => lastTransition <= Clock
  /\ lastUpdate \in Nat => lastUpdate <= Clock

GateInvariant ==
  /\ GateTypeOK
  /\ StateIsReported
  /\ InstantsCoverEvents
  /\ EventsAlternate
  /\ CooldownKept
  /\ UpdatesRateLimited

(* The time since an instant of the past, for any bound on it. *)
LEMMA ElapsedFacts ==
  ASSUME NEW t \in Nat, NEW s \in Nat, NEW least \in Nat, s <= t
  PROVE  Elapsed(t, s) >= least <=> s + least <= t
BY DEF Elapsed

LEMMA ClockType ==
  ASSUME GateTypeOK
  PROVE  Clock \in Nat
<1>1. journal \in Seq([sample : Phase, at : Nat])
  BY DEF GateTypeOK
<1>2. CASE journal = <<>>
  BY <1>2 DEF Clock
<1>3. CASE journal # <<>>
  <2>1. Len(journal) \in 1 .. Len(journal)
    BY <1>1, <1>3
  <2>2. journal[Len(journal)] \in [sample : Phase, at : Nat]
    BY <1>1, <2>1, ElementOfSeq
  <2>3. QED
    BY <1>3, <2>2 DEF Clock
<1>4. QED
  BY <1>2, <1>3

(* The window stays a sequence of at most SampleWindow samples. *)
LEMMA WindowType ==
  ASSUME GateTypeOK, NEW sample \in Phase
  PROVE  /\ Window(sample) \in Seq(Phase)
         /\ Len(Window(sample)) <= SampleWindow
<1>1. evidence \in Seq(Phase) /\ Len(evidence) \in Nat /\ Len(evidence) <= SampleWindow
  BY DEF GateTypeOK
<1>2. SampleWindow \in Nat /\ SampleWindow >= 1
  BY SamplingAssumption
<1>3. CASE Len(evidence) < SampleWindow
  BY <1>1, <1>2, <1>3 DEF Window
<1>4. CASE ~(Len(evidence) < SampleWindow)
  <2>1. evidence # <<>>
    BY <1>1, <1>2, <1>4
  <2>2. Tail(evidence) \in Seq(Phase) /\ Len(Tail(evidence)) = Len(evidence) - 1
    BY <1>1, <2>1
  <2>3. QED
    BY <1>1, <1>2, <1>4, <2>2 DEF Window
<1>5. QED
  BY <1>3, <1>4

LEMMA DesiredType ==
  ASSUME GateTypeOK, NEW window
  PROVE  /\ Desired(window) \in Phase \cup {"unset"}
         /\ Desired(window) # state => Desired(window) \in Phase
BY DEF Desired, GateTypeOK, Phase

LEMMA SinceType ==
  ASSUME GateTypeOK, NEW wanted, NEW t \in Nat
  PROVE  Since(wanted, t) \in Nat
BY DEF Since, GateTypeOK

(* After a sample the clock is at its time stamp. *)
LEMMA ClockStep ==
  ASSUME GateTypeOK, NEW sample \in Phase, NEW t \in Nat, Sampled(sample, t)
  PROVE  /\ journal' \in Seq([sample : Phase, at : Nat])
         /\ Clock' = t
<1>1. journal \in Seq([sample : Phase, at : Nat])
  BY DEF GateTypeOK
<1>2. journal' = Append(journal, [sample |-> sample, at |-> t])
  BY DEF Sampled
<1>3. [sample |-> sample, at |-> t] \in [sample : Phase, at : Nat]
  OBVIOUS
<1>4. journal' \in Seq([sample : Phase, at : Nat]) /\ Len(journal') = Len(journal) + 1
      /\ journal'[Len(journal) + 1] = [sample |-> sample, at |-> t]
  BY <1>1, <1>2, <1>3
<1>5. journal' # <<>>
  BY <1>1, <1>4
<1>6. QED
  BY <1>4, <1>5 DEF Clock

LEMMA GateInitial ==
  GateInit => GateInvariant
<1> SUFFICES ASSUME GateInit
             PROVE  GateInvariant
  OBVIOUS
<1> USE DEF GateInit
<1>1. GateTypeOK
  BY SamplingAssumption DEF GateTypeOK, NoCandidate, Instant, Phase
<1>2. StateIsReported
  BY DEF StateIsReported
<1>3. InstantsCoverEvents
  BY NoneAssumption DEF InstantsCoverEvents
<1>4. EventsAlternate /\ CooldownKept /\ UpdatesRateLimited
  BY DEF EventsAlternate, CooldownKept, UpdatesRateLimited
<1>5. QED
  BY <1>1, <1>2, <1>3, <1>4 DEF GateInvariant

(* What Append does to the list of reports, once for all actions. *)
LEMMA ReportFacts ==
  ASSUME GateTypeOK, NEW what \in Kind, NEW t \in Nat, Report(what, t)
  PROVE  /\ events' \in Seq([kind : Kind, at : Nat])
         /\ Len(events') = Len(events) + 1
         /\ Len(events) \in Nat
         /\ \A i \in 1 .. Len(events) : events'[i] = events[i]
         /\ events'[Len(events) + 1] = [kind |-> what, at |-> t]
         /\ \A i \in 1 .. Len(events) : events[i].kind \in Kind /\ events[i].at \in Nat
<1>1. events \in Seq([kind : Kind, at : Nat])
  BY DEF GateTypeOK
<1>2. [kind |-> what, at |-> t] \in [kind : Kind, at : Nat]
  OBVIOUS
<1>3. events' = Append(events, [kind |-> what, at |-> t])
  BY DEF Report
<1>4. \A i \in 1 .. Len(events) : events[i] \in [kind : Kind, at : Nat]
  BY <1>1, ElementOfSeq
<1>5. \A i \in 1 .. Len(events) : events[i].kind \in Kind /\ events[i].at \in Nat
  BY <1>4
<1>6. /\ events' \in Seq([kind : Kind, at : Nat])
      /\ Len(events') = Len(events) + 1
      /\ Len(events) \in Nat
  BY <1>1, <1>2, <1>3
<1>7. events'[Len(events) + 1] = [kind |-> what, at |-> t]
  BY <1>1, <1>2, <1>3
<1>8. \A i \in 1 .. Len(events) : events'[i] = events[i]
  BY <1>1, <1>2, <1>3
<1>9. QED
  BY <1>5, <1>6, <1>7, <1>8

(* Each action keeps the types. *)
LEMMA GateTypeStep ==
  ASSUME GateTypeOK, NEW sample \in Phase, NEW t \in Nat, Sampled(sample, t)
  PROVE  GateTypeOK'
<1> DEFINE W == Window(sample)
<1>1. evidence' \in Seq(Phase) /\ Len(evidence') <= SampleWindow
  BY WindowType DEF Sampled
<1>2. journal' \in Seq([sample : Phase, at : Nat])
  BY ClockStep
<1>3. state' \in Phase \cup {"unset"}
  BY DesiredType DEF Sampled, Hold, Refresh, Defer, Establish, Flip, GateTypeOK
<1>4. candidate' \in [target : Phase \cup {"unset"}, since : Nat]
  <2>1. NoCandidate \in [target : Phase \cup {"unset"}, since : Nat]
    BY DEF NoCandidate
  <2>2. ASSUME Defer(W, t)
        PROVE  candidate' \in [target : Phase \cup {"unset"}, since : Nat]
    BY <2>2, DesiredType, SinceType DEF Defer
  <2>3. QED
    BY <2>1, <2>2 DEF Sampled, Hold, Refresh, Establish, Flip
<1>5. lastTransition' \in Instant /\ lastUpdate' \in Instant
  BY DEF Sampled, Hold, Refresh, Defer, Establish, Flip, GateTypeOK, Instant
<1>6. events' \in Seq([kind : Kind, at : Nat])
  <2>1. CASE Refresh(W, t)
    BY <2>1, ReportFacts DEF Refresh, Kind
  <2>2. CASE Flip(W, t)
    BY <2>2, ReportFacts DEF Flip, Kind
  <2>3. CASE events' = events
    BY <2>3 DEF GateTypeOK
  <2>4. QED
    BY <2>1, <2>2, <2>3 DEF Sampled, Hold, Defer, Establish
<1>7. QED
  BY <1>1, <1>2, <1>3, <1>4, <1>5, <1>6 DEF GateTypeOK

(* Steps that report nothing. *)
LEMMA QuietStep ==
  ASSUME GateInvariant, NEW sample \in Phase, NEW t \in Nat, t >= Clock,
         Sampled(sample, t),
         Hold(Window(sample), t) \/ Defer(Window(sample), t) \/ Establish(Window(sample), t)
  PROVE  StateIsReported' /\ InstantsCoverEvents' /\ EventsAlternate' /\ CooldownKept'
           /\ UpdatesRateLimited'
<1>1. events' = events
  BY DEF Hold, Defer, Establish
<1>2. EventsAlternate' /\ CooldownKept' /\ UpdatesRateLimited'
  BY <1>1 DEF GateInvariant, EventsAlternate, CooldownKept, UpdatesRateLimited
<1>3. StateIsReported'
  <2>1. CASE state' = state
    BY <1>1, <2>1 DEF GateInvariant, StateIsReported
  <2>2. CASE Establish(Window(sample), t)
    <3>1. events = <<>> /\ state' \in Phase
      BY <2>2, DesiredType DEF Establish, GateInvariant, StateIsReported
    <3>2. QED
      BY <1>1, <3>1 DEF StateIsReported, Phase
  <2>3. QED
    BY <2>1, <2>2 DEF Hold, Defer
<1>4. InstantsCoverEvents'
  <2>1. Clock' = t /\ Clock \in Nat
    <3>1. Clock' = t
      BY ClockStep DEF GateInvariant
    <3>2. Clock \in Nat
      BY ClockType DEF GateInvariant
    <3>3. QED
      BY <3>1, <3>2
  <2>2. CASE lastUpdate' = lastUpdate /\ lastTransition' = lastTransition
    BY <1>1, <2>1, <2>2 DEF GateInvariant, InstantsCoverEvents
  <2>3. CASE Establish(Window(sample), t)
    <3>1. events = <<>>
      BY <2>3 DEF Establish, GateInvariant, StateIsReported
    <3>2. lastUpdate' = t /\ lastTransition' = lastTransition
      BY <2>3 DEF Establish
    <3>3. QED
      BY <1>1, <2>1, <3>1, <3>2 DEF GateInvariant, InstantsCoverEvents
  <2>4. QED
    BY <2>2, <2>3 DEF Hold, Defer
<1>5. QED
  BY <1>2, <1>3, <1>4

(* A report that the state is still active. *)
LEMMA RefreshStep ==
  ASSUME GateInvariant, NEW sample \in Phase, NEW t \in Nat, t >= Clock,
         Sampled(sample, t), Refresh(Window(sample), t)
  PROVE  StateIsReported' /\ InstantsCoverEvents' /\ EventsAlternate' /\ CooldownKept'
           /\ UpdatesRateLimited'
<1> DEFINE n == Len(events)
<1>1. /\ Len(events') = n + 1 /\ n \in Nat
      /\ \A i \in 1 .. n : events'[i] = events[i]
      /\ events'[n + 1] = [kind |-> "updated", at |-> t]
      /\ \A i \in 1 .. n : events[i].kind \in Kind /\ events[i].at \in Nat
  BY ReportFacts DEF Refresh, Kind, GateInvariant
<1>2. state = "active" /\ state' = "active"
  BY DEF Refresh, UpdateDue
<1>3. /\ lastUpdate \in Nat /\ lastUpdate' = t /\ lastTransition' = lastTransition
      /\ Elapsed(t, lastUpdate) >= UpdateInterval
  BY DEF Refresh, UpdateDue, GateInvariant, GateTypeOK, Instant
<1>4. Clock' = t /\ Clock \in Nat /\ lastUpdate <= t
  <2>1. Clock' = t
    BY ClockStep DEF GateInvariant
  <2>2. Clock \in Nat
    BY ClockType DEF GateInvariant
  <2>3. QED
    BY <1>3, <2>1, <2>2 DEF GateInvariant, InstantsCoverEvents
<1>5. UpdateInterval \in Nat /\ Cooldown \in Nat
  BY TimingAssumption
<1>6. \A i \in 1 .. n : events[i].at <= lastUpdate
  BY DEF GateInvariant, InstantsCoverEvents
<1>7. StateIsReported'
  BY <1>1, <1>2 DEF StateIsReported
<1>8. InstantsCoverEvents'
  <2>1. \A i \in 1 .. n :
          /\ events[i].at <= t
          /\ events[i].kind # "updated" =>
               lastTransition \in Nat /\ events[i].at <= lastTransition
    BY <1>1, <1>3, <1>4, <1>6 DEF GateInvariant, InstantsCoverEvents
  <2>2. lastTransition \in Nat => lastTransition <= t
    BY <1>4 DEF GateInvariant, InstantsCoverEvents
  <2>3. ASSUME NEW i \in 1 .. n + 1
        PROVE  /\ events'[i].at <= t
               /\ events'[i].kind # "updated" =>
                    lastTransition \in Nat /\ events'[i].at <= lastTransition
    <3>1. CASE i = n + 1
      BY <1>1, <3>1
    <3>2. CASE i # n + 1
      <4>1. i \in 1 .. n
        BY <1>1, <3>2
      <4>2. events'[i] = events[i]
        BY <1>1, <4>1
      <4>3. QED
        BY <2>1, <4>1, <4>2
    <3>3. QED
      BY <3>1, <3>2
  <2>4. QED
    BY <1>1, <1>3, <1>4, <2>2, <2>3 DEF InstantsCoverEvents
<1>9. EventsAlternate'
  <2>1. n # 0 => events[n].kind # "left"
    BY <1>1, <1>2 DEF GateInvariant, StateIsReported
  <2>2. SUFFICES ASSUME NEW i \in 1 .. n
                 PROVE  /\ events'[i + 1].kind = "entered" => events'[i].kind = "left"
                        /\ events'[i + 1].kind \in {"left", "updated"} => events'[i].kind # "left"
    BY <1>1 DEF EventsAlternate
  <2>3. CASE i = n
    BY <1>1, <2>1, <2>3
  <2>4. CASE i # n
    <3>1. i \in 1 .. n - 1 /\ i + 1 \in 1 .. n
      BY <1>1, <2>4
    <3>2. QED
      BY <1>1, <3>1 DEF GateInvariant, EventsAlternate
  <2>5. QED
    BY <2>3, <2>4
<1>10. CooldownKept'
  <2>1. SUFFICES ASSUME NEW i \in 1 .. n + 1, NEW j \in 1 .. n + 1, i < j,
                        events'[i].kind # "updated", events'[j].kind # "updated"
                 PROVE  events'[j].at >= events'[i].at + Cooldown
    BY <1>1 DEF CooldownKept
  <2>2. j # n + 1
    BY <1>1, <2>1
  <2>3. i \in 1 .. n /\ j \in 1 .. n
    BY <1>1, <2>1, <2>2
  <2>4. QED
    BY <1>1, <2>1, <2>3 DEF GateInvariant, CooldownKept
<1>11. UpdatesRateLimited'
  <2>1. SUFFICES ASSUME NEW i \in 1 .. n + 1, NEW j \in 1 .. n + 1, i < j,
                        events'[j].kind = "updated"
                 PROVE  events'[j].at >= events'[i].at + UpdateInterval
    BY <1>1 DEF UpdatesRateLimited
  <2>2. i \in 1 .. n
    BY <1>1, <2>1
  <2>3. CASE j = n + 1
    <3>1. events[i].at <= lastUpdate /\ events[i].at \in Nat
      BY <1>1, <1>6, <2>2
    <3>2. lastUpdate + UpdateInterval <= t
      BY <1>3, <1>4, <1>5, ElapsedFacts
    <3>3. QED
      BY <1>1, <1>3, <1>5, <2>2, <2>3, <3>1, <3>2
  <2>4. CASE j # n + 1
    <3>1. j \in 1 .. n
      BY <1>1, <2>4
    <3>2. QED
      BY <1>1, <2>1, <2>2, <3>1 DEF GateInvariant, UpdatesRateLimited
  <2>5. QED
    BY <2>3, <2>4
<1>12. QED
  BY <1>7, <1>8, <1>9, <1>10, <1>11

(* A reported change of state. *)
LEMMA FlipStep ==
  ASSUME GateInvariant, NEW sample \in Phase, NEW t \in Nat, t >= Clock,
         Sampled(sample, t), Flip(Window(sample), t)
  PROVE  StateIsReported' /\ InstantsCoverEvents' /\ EventsAlternate' /\ CooldownKept'
           /\ UpdatesRateLimited'
<1> DEFINE n == Len(events)
           change == IF Desired(Window(sample)) = "active" THEN "entered" ELSE "left"
<1>1. /\ Len(events') = n + 1 /\ n \in Nat
      /\ \A i \in 1 .. n : events'[i] = events[i]
      /\ events'[n + 1] = [kind |-> change, at |-> t]
      /\ \A i \in 1 .. n : events[i].kind \in Kind /\ events[i].at \in Nat
  <2>1. change \in Kind /\ Report(change, t)
    BY DEF Flip, Kind
  <2>2. QED
    BY <2>1, ReportFacts DEF GateInvariant
<1>2. /\ state' = Desired(Window(sample)) /\ state' \in Phase /\ state' # state
      /\ lastUpdate' = t /\ lastTransition' = t
  BY DesiredType DEF Flip, GateInvariant
<1>3. Clock' = t /\ Clock \in Nat
  <2>1. Clock' = t
    BY ClockStep DEF GateInvariant
  <2>2. Clock \in Nat
    BY ClockType DEF GateInvariant
  <2>3. QED
    BY <2>1, <2>2
<1>4. UpdateInterval \in Nat /\ Cooldown \in Nat
  BY TimingAssumption
<1>5. \A i \in 1 .. n :
        /\ events[i].at <= t
        /\ events[i].kind # "updated" =>
             lastTransition \in Nat /\ events[i].at <= lastTransition /\ lastTransition <= t
  <2>1. \A i \in 1 .. n :
          /\ lastUpdate \in Nat /\ events[i].at <= lastUpdate /\ lastUpdate <= Clock
          /\ events[i].kind # "updated" =>
               lastTransition \in Nat /\ events[i].at <= lastTransition /\ lastTransition <= Clock
    BY DEF GateInvariant, InstantsCoverEvents
  <2>2. QED
    BY <1>1, <1>3, <2>1
<1>6. StateIsReported'
  BY <1>1, <1>2 DEF StateIsReported, Phase
<1>7. InstantsCoverEvents'
  BY <1>1, <1>2, <1>3, <1>5 DEF InstantsCoverEvents
<1>8. EventsAlternate'
  <2>1. n # 0 => /\ change = "entered" => events[n].kind = "left"
                 /\ change = "left" => events[n].kind # "left"
    BY <1>1, <1>2 DEF GateInvariant, StateIsReported, Phase
  <2>2. SUFFICES ASSUME NEW i \in 1 .. n
                 PROVE  /\ events'[i + 1].kind = "entered" => events'[i].kind = "left"
                        /\ events'[i + 1].kind \in {"left", "updated"} => events'[i].kind # "left"
    BY <1>1 DEF EventsAlternate
  <2>3. CASE i = n
    BY <1>1, <2>1, <2>3
  <2>4. CASE i # n
    <3>1. i \in 1 .. n - 1 /\ i + 1 \in 1 .. n
      BY <1>1, <2>4
    <3>2. QED
      BY <1>1, <3>1 DEF GateInvariant, EventsAlternate
  <2>5. QED
    BY <2>3, <2>4
<1>9. CooldownKept'
  <2>1. SUFFICES ASSUME NEW i \in 1 .. n + 1, NEW j \in 1 .. n + 1, i < j,
                        events'[i].kind # "updated", events'[j].kind # "updated"
                 PROVE  events'[j].at >= events'[i].at + Cooldown
    BY <1>1 DEF CooldownKept
  <2>2. i \in 1 .. n
    BY <1>1, <2>1
  <2>3. CASE j = n + 1
    <3>1. /\ events[i].at \in Nat /\ lastTransition \in Nat
          /\ events[i].at <= lastTransition /\ lastTransition <= t
      BY <1>1, <1>5, <2>1, <2>2
    <3>2. state # "unset"
      BY <1>1, <2>2 DEF GateInvariant, StateIsReported
    <3>3. ~(Elapsed(t, lastTransition) < Cooldown)
      BY <3>1, <3>2, NoneAssumption DEF Flip, Ripe, CoolingDown
    <3>4. lastTransition + Cooldown <= t
      BY <1>4, <3>1, <3>3 DEF Elapsed
    <3>5. QED
      BY <1>1, <1>4, <2>2, <2>3, <3>1, <3>4
  <2>4. CASE j # n + 1
    <3>1. j \in 1 .. n
      BY <1>1, <2>4
    <3>2. QED
      BY <1>1, <2>1, <2>2, <3>1 DEF GateInvariant, CooldownKept
  <2>5. QED
    BY <2>3, <2>4
<1>10. UpdatesRateLimited'
  <2>1. SUFFICES ASSUME NEW i \in 1 .. n + 1, NEW j \in 1 .. n + 1, i < j,
                        events'[j].kind = "updated"
                 PROVE  events'[j].at >= events'[i].at + UpdateInterval
    BY <1>1 DEF UpdatesRateLimited
  <2>2. j # n + 1
    BY <1>1, <2>1
  <2>3. i \in 1 .. n /\ j \in 1 .. n
    BY <1>1, <2>1, <2>2
  <2>4. QED
    BY <1>1, <2>1, <2>3 DEF GateInvariant, UpdatesRateLimited
<1>11. QED
  BY <1>6, <1>7, <1>8, <1>9, <1>10

(* One sample keeps the whole invariant. *)
LEMMA GateStep ==
  ASSUME GateInvariant, NEW sample \in Phase, NEW t \in Nat, t >= Clock, Sampled(sample, t)
  PROVE  GateInvariant'
<1>1. GateTypeOK'
  BY GateTypeStep DEF GateInvariant
<1>2. CASE Hold(Window(sample), t) \/ Defer(Window(sample), t) \/ Establish(Window(sample), t)
  BY <1>1, <1>2, QuietStep DEF GateInvariant
<1>3. CASE Refresh(Window(sample), t)
  BY <1>1, <1>3, RefreshStep DEF GateInvariant
<1>4. CASE Flip(Window(sample), t)
  BY <1>1, <1>4, FlipStep DEF GateInvariant
<1>5. QED
  BY <1>2, <1>3, <1>4 DEF Sampled

(* The rules leave the state alone when they return before sampling. *)
LEMMA GateStutter ==
  GateInvariant /\ UNCHANGED gateVars => GateInvariant'
BY DEF GateInvariant, GateTypeOK, StateIsReported, InstantsCoverEvents, EventsAlternate,
       CooldownKept, UpdatesRateLimited, Clock, gateVars, ruleVars

-----------------------------------------------------------------------------
(* Boolean and text rules, for every choice of N, M, the durations and the *)
(* initial policy, and for observations of any number.                     *)

(* Every observation is one sample of the gate. *)
LEMMA RuleStep ==
  GateInvariant /\ [TemporalNext]_gateVars => GateInvariant'
<1> SUFFICES ASSUME GateInvariant, [TemporalNext]_gateVars
             PROVE  GateInvariant'
  OBVIOUS
<1>1. CASE TemporalNext
  <2>1. Clock \in Nat
    BY ClockType DEF GateInvariant
  <2>2. PICK matched \in Phase, t \in Clock .. Clock + MaxStep : Observe(matched, t)
    BY <1>1 DEF TemporalNext
  <2>3. t \in Nat /\ t >= Clock
    BY <2>1, BoundsAssumption
  <2>4. Sampled(matched, t)
    BY <2>2 DEF Observe
  <2>5. QED
    BY <2>3, <2>4, GateStep
<1>2. CASE UNCHANGED gateVars
  BY <1>2, GateStutter
<1>3. QED
  BY <1>1, <1>2

(* The inductive invariant of a rule (TemporalRule::observe_match). *)
THEOREM RuleInvariant == TemporalSpec => []GateInvariant
<1>1. GateInit => GateInvariant
  BY GateInitial
<1>2. QED
  BY <1>1, RuleStep, PTL DEF TemporalSpec

(* The state of a rule is always of its type: the evidence never outgrows  *)
(* the window of M samples.                                                *)
THEOREM TypeCorrect == TemporalSpec => []GateTypeOK
<1>1. GateInvariant => GateTypeOK
  BY DEF GateInvariant
<1>2. QED
  BY <1>1, RuleInvariant, PTL

(* The reports of a rule alternate between entered and left, with updates  *)
(* only in between.                                                        *)
THEOREM Alternation == TemporalSpec => []EventsAlternate
<1>1. GateInvariant => EventsAlternate
  BY DEF GateInvariant
<1>2. QED
  BY <1>1, RuleInvariant, PTL

(* Reported changes are a cooldown apart. *)
THEOREM CooldownRespected == TemporalSpec => []CooldownKept
<1>1. GateInvariant => CooldownKept
  BY DEF GateInvariant
<1>2. QED
  BY <1>1, RuleInvariant, PTL

(* Updates respect their rate limit. *)
THEOREM RateLimitRespected == TemporalSpec => []UpdatesRateLimited
<1>1. GateInvariant => UpdatesRateLimited
  BY DEF GateInvariant
<1>2. QED
  BY <1>1, RuleInvariant, PTL

-----------------------------------------------------------------------------
(* Numeric rules: a number stands for one of the two samples, whatever the *)
(* thresholds.                                                             *)
LEMMA NumberIsSample ==
  ASSUME NEW v
  PROVE  SampleOf(v) \in Phase
BY DEF SampleOf, Phase

(* What is true of the rule after every observation. *)
NumericInvariant == GateInvariant /\ NumericTypeOK

(* Every number read is one sample of the gate. *)
LEMMA NumericStep ==
  NumericInvariant /\ [NumericNext]_numericVars => NumericInvariant'
<1> SUFFICES ASSUME NumericInvariant, [NumericNext]_numericVars
             PROVE  NumericInvariant'
  OBVIOUS
<1>1. CASE NumericNext
  <2>1. Clock \in Nat
    BY ClockType DEF NumericInvariant, GateInvariant
  <2>2. PICK v \in Values, t \in Clock .. Clock + MaxStep : ObserveNumber(v, t)
    BY <1>1 DEF NumericNext
  <2>3. t \in Nat /\ t >= Clock
    BY <2>1, BoundsAssumption
  <2>4. Sampled(SampleOf(v), t) /\ value' = v /\ seen' \in {seen \cup {v}, {}}
    BY <2>2 DEF ObserveNumber
  <2>5. GateInvariant'
    BY <2>3, <2>4, NumberIsSample, GateStep DEF NumericInvariant
  <2>6. torn' \in BOOLEAN
    BY <2>2 DEF ObserveNumber, NumericInvariant, NumericTypeOK
  <2>7. QED
    BY <2>4, <2>5, <2>6 DEF NumericInvariant, GateInvariant, NumericTypeOK
<1>2. CASE UNCHANGED numericVars
  <2>1. GateInvariant'
    BY <1>2, GateStutter DEF NumericInvariant, numericVars
  <2>2. QED
    BY <1>2, <2>1 DEF NumericInvariant, GateInvariant, NumericTypeOK, numericVars
<1>3. QED
  BY <1>1, <1>2

(* The inductive invariant of a numeric rule (NumericRule::observe). *)
THEOREM NumericRuleInvariant == NumericSpec => []NumericInvariant
<1>1. NumericInit => NumericInvariant
  BY GateInitial DEF NumericInit, NumericInvariant, GateInvariant, NumericTypeOK
<1>2. QED
  BY <1>1, NumericStep, PTL DEF NumericSpec

(* The state of a numeric rule is always of its type. *)
THEOREM NumericTypeCorrect == NumericSpec => []NumericTypeOK
<1>1. NumericInvariant => NumericTypeOK
  BY DEF NumericInvariant
<1>2. QED
  BY <1>1, NumericRuleInvariant, PTL

(* Entered and left alternate, for numbers that cross either threshold in  *)
(* any order.                                                              *)
THEOREM NumericAlternation == NumericSpec => []EventsAlternate
<1>1. NumericInvariant => EventsAlternate
  BY DEF NumericInvariant, GateInvariant
<1>2. QED
  BY <1>1, NumericRuleInvariant, PTL

(* Updates of a numeric rule respect their rate limit. *)
THEOREM NumericRateLimitRespected == NumericSpec => []UpdatesRateLimited
<1>1. NumericInvariant => UpdatesRateLimited
  BY DEF NumericInvariant, GateInvariant
<1>2. QED
  BY <1>1, NumericRuleInvariant, PTL

-----------------------------------------------------------------------------
(* Rules of every kind, under the coordinator.                             *)

(* What the composition remembers is what was last heard, without the      *)
(* observations that had no valid value.                                   *)
LatestIsHeard ==
  latest = [leaf \in Leaves |-> IF heard[leaf] \in Valid THEN heard[leaf] ELSE Unknown]

CoordinatedInvariant ==
  /\ GateInvariant
  /\ RuleTypeOK
  /\ LatestIsHeard

LEMMA CompositionIsSample ==
  ASSUME NEW requireAll \in BOOLEAN, NEW readings
  PROVE  Composed(requireAll, readings) \in Phase
BY DEF Composed, Phase

LEMMA CoordinatedInitial == CoordinatedInit => CoordinatedInvariant
<1> SUFFICES ASSUME CoordinatedInit
             PROVE  CoordinatedInvariant
  OBVIOUS
<1>1. GateInvariant
  BY GateInitial DEF CoordinatedInit, NumericInit
<1>2. NumericTypeOK
  BY <1>1 DEF CoordinatedInit, NumericInit, NumericTypeOK, GateInvariant
<1>3. CompositeTypeOK /\ LatestIsHeard
  BY DEF CoordinatedInit, CompositeInit, CompositeTypeOK, LatestIsHeard, Unknown, Valid
<1>4. RapidTypeOK
  BY DEF CoordinatedInit, RapidInit, RapidTypeOK, Instant
<1>5. QED
  BY <1>1, <1>2, <1>3, <1>4 DEF CoordinatedInvariant, RuleTypeOK, CoordinatedInit

(* An observation of one leaf. *)
LEMMA LeafStep ==
  ASSUME CompositeTypeOK, LatestIsHeard, NEW leaf \in Leaves, NEW reading \in Reading,
         latest' = LatestAfter(leaf, reading),
         heard' = [heard EXCEPT ![leaf] = reading]
  PROVE  CompositeTypeOK' /\ LatestIsHeard'
<1>1. heard' \in [Leaves -> Reading \cup {Unknown}]
  BY DEF CompositeTypeOK
<1>2. latest' \in [Leaves -> Valid \cup {Unknown}]
  BY DEF CompositeTypeOK, LatestAfter
<1>3. LatestIsHeard'
  <2>1. \A other \in Leaves :
          latest'[other] = IF heard'[other] \in Valid THEN heard'[other] ELSE Unknown
    BY DEF CompositeTypeOK, LatestIsHeard, LatestAfter
  <2>2. QED
    BY <1>2, <2>1 DEF LatestIsHeard
<1>4. QED
  BY <1>1, <1>2, <1>3 DEF CompositeTypeOK

(* One reading of a rapid increase rule. *)
LEMMA LevelType ==
  ASSUME RapidTypeOK, NEW v \in Levels, NEW t \in Nat, ObserveLevel(v, t)
  PROVE  /\ RapidTypeOK'
         /\ Len(levels) \in Nat
         /\ Len(levels') = Len(levels) + 1
         /\ levels'[Len(levels) + 1] = [value |-> v, at |-> t]
         /\ \A i \in 1 .. Len(levels) : /\ levels'[i] = levels[i]
                                        /\ levels[i] \in [value : Levels, at : Nat]
<1> DEFINE R == [value : Levels, at : Nat]
           r == [value |-> v, at |-> t]
<1>1. r \in R
  OBVIOUS
<1>2. history \subseteq R /\ levels \in Seq(R) /\ bursts \subseteq DOMAIN levels
  BY DEF RapidTypeOK
<1>3. levels' = Append(levels, r)
  BY DEF ObserveLevel
<1>4. /\ levels' \in Seq(R) /\ Len(levels') = Len(levels) + 1 /\ Len(levels) \in Nat
      /\ levels'[Len(levels) + 1] = r
      /\ \A i \in 1 .. Len(levels) : levels'[i] = levels[i]
  BY <1>1, <1>2, <1>3
<1>5. history' \subseteq R
  BY <1>1, <1>2 DEF ObserveLevel, Recent
<1>6. lastEmit' \in Instant
  BY DEF ObserveLevel, RapidTypeOK, Instant
<1>7. bursts' \subseteq DOMAIN levels'
  <2>1. DOMAIN levels = 1 .. Len(levels) /\ DOMAIN levels' = 1 .. Len(levels) + 1
        /\ Len(levels) \in Nat
    BY <1>2, <1>4
  <2>2. bursts' \subseteq bursts \cup {Len(levels) + 1}
    BY DEF ObserveLevel
  <2>3. QED
    BY <1>2, <2>1, <2>2
<1>8. \A i \in 1 .. Len(levels) : levels[i] \in R
  BY <1>2, ElementOfSeq
<1>9. QED
  BY <1>4, <1>5, <1>6, <1>7, <1>8 DEF RapidTypeOK

(* The rule remembers exactly the readings of the last Within, and when it *)
(* last reported.                                                          *)
RapidMemory ==
  /\ \A i \in DOMAIN levels : levels[i].at <= RapidClock
  /\ \A i \in DOMAIN levels : levels[i].at + Within >= RapidClock => levels[i] \in history
  /\ \A r \in history : \E i \in DOMAIN levels : levels[i] = r
  /\ lastEmit = None <=> bursts = {}
  /\ lastEmit # None => \E b \in bursts : levels[b].at = lastEmit
  /\ lastEmit # None => \A b \in bursts : levels[b].at <= lastEmit

LEMMA RapidClockType ==
  ASSUME RapidTypeOK
  PROVE  RapidClock \in Nat
<1>1. levels \in Seq([value : Levels, at : Nat])
  BY DEF RapidTypeOK
<1>2. CASE levels = <<>>
  BY <1>2 DEF RapidClock
<1>3. CASE levels # <<>>
  <2>1. Len(levels) \in 1 .. Len(levels)
    BY <1>1, <1>3
  <2>2. levels[Len(levels)] \in [value : Levels, at : Nat]
    BY <1>1, <2>1, ElementOfSeq
  <2>3. QED
    BY <1>3, <2>2 DEF RapidClock
<1>4. QED
  BY <1>2, <1>3

LEMMA LevelStep ==
  ASSUME RapidTypeOK, RapidMemory, BurstsAreRises,
         NEW v \in Levels, NEW t \in Nat, t >= RapidClock, ObserveLevel(v, t)
  PROVE  RapidMemory' /\ BurstsAreRises'
<1> DEFINE n == Len(levels)
           r == [value |-> v, at |-> t]
<1>1. /\ n \in Nat /\ Len(levels') = n + 1
      /\ levels'[n + 1] = r
      /\ \A i \in 1 .. n : levels'[i] = levels[i] /\ levels[i].at \in Nat /\ levels[i].value \in Nat
  BY LevelType, RapidAssumption
<1>2. DOMAIN levels = 1 .. n /\ DOMAIN levels' = 1 .. n + 1
  <2>1. RapidTypeOK'
    BY LevelType
  <2>2. levels \in Seq([value : Levels, at : Nat]) /\ levels' \in Seq([value : Levels, at : Nat])
    BY <2>1 DEF RapidTypeOK
  <2>3. QED
    BY <1>1, <2>2
<1>3. RapidClock' = t /\ RapidClock \in Nat
  <2>1. RapidClock' = t
    BY <1>1, <1>2 DEF RapidClock
  <2>2. QED
    BY <2>1, RapidClockType
<1>4. bursts \subseteq 1 .. n
  BY <1>2 DEF RapidTypeOK
<1>5. \A i \in 1 .. n : levels[i].at <= t
  BY <1>1, <1>2, <1>3 DEF RapidMemory
<1>6. Within \in Nat /\ MinimumDelta \in Nat /\ Cooldown \in Nat /\ Levels \subseteq Nat
  BY RapidAssumption, TimingAssumption
<1>7. \A i \in 1 .. n : levels[i].at >= Elapsed(t, Within) <=> levels[i].at + Within >= t
  BY <1>1, <1>6 DEF Elapsed
<1>8. Rises(v, t) <=> \E i \in 1 .. n : /\ t - levels[i].at <= Within
                                        /\ v >= levels[i].value + MinimumDelta
  <2>1. ASSUME NEW i \in 1 .. n, t - levels[i].at <= Within, v >= levels[i].value + MinimumDelta
        PROVE  Rises(v, t)
    <3>1. levels[i].at + Within >= t
      BY <1>1, <1>6, <2>1
    <3>2. levels[i] \in history
      BY <1>1, <1>2, <1>3, <1>6, <3>1 DEF RapidMemory
    <3>3. levels[i] \in Recent(t)
      BY <1>7, <3>1, <3>2 DEF Recent
    <3>4. QED
      BY <2>1, <3>3 DEF Rises
  <2>2. ASSUME Rises(v, t)
        PROVE  \E i \in 1 .. n : /\ t - levels[i].at <= Within
                                 /\ v >= levels[i].value + MinimumDelta
    <3>1. PICK old \in history : old.at >= Elapsed(t, Within) /\ v >= old.value + MinimumDelta
      BY <2>2 DEF Rises, Recent
    <3>2. PICK i \in 1 .. n : levels[i] = old
      BY <1>2, <3>1 DEF RapidMemory
    <3>3. levels[i].at + Within >= t
      BY <1>7, <3>1, <3>2
    <3>4. QED
      BY <1>1, <1>6, <3>1, <3>2, <3>3
  <2>3. QED
    BY <2>1, <2>2
<1>9. EmittedRecently(t) <=> \E b \in bursts : t - levels[b].at < Cooldown
  <2>1. CASE lastEmit = None
    BY <2>1 DEF RapidMemory, EmittedRecently
  <2>2. CASE lastEmit # None
    <3>1. PICK b \in bursts : levels[b].at = lastEmit
      BY <2>2 DEF RapidMemory
    <3>2. \A c \in bursts : levels[c].at <= lastEmit /\ levels[c].at \in Nat
      BY <1>1, <1>4, <2>2 DEF RapidMemory
    <3>3. lastEmit \in Nat /\ lastEmit <= t
      BY <1>1, <1>4, <1>5, <3>1
    <3>4. EmittedRecently(t) <=> t - lastEmit < Cooldown
      BY <2>2, <3>3 DEF EmittedRecently, Elapsed
    <3>5. \A c \in bursts : t - levels[c].at < Cooldown => t - lastEmit < Cooldown
      BY <1>6, <3>2, <3>3
    <3>6. QED
      BY <3>1, <3>4, <3>5
  <2>3. QED
    BY <2>1, <2>2
<1>10. n + 1 \in bursts' <=> Rises(v, t) /\ ~EmittedRecently(t)
  BY <1>1, <1>4 DEF ObserveLevel
<1>11. \A i \in 1 .. n : i \in bursts' <=> i \in bursts
  BY <1>1, <1>4 DEF ObserveLevel
<1>12. bursts' \subseteq 1 .. n + 1
  <2>1. bursts' \subseteq bursts \cup {n + 1}
    BY DEF ObserveLevel
  <2>2. QED
    BY <1>1, <1>4, <2>1
<1>13. BurstsAreRises'
  <2>1. SUFFICES ASSUME NEW k \in 1 .. n + 1
                 PROVE  k \in bursts' <=>
                          /\ \E i \in 1 .. k - 1 :
                               /\ levels'[k].at - levels'[i].at <= Within
                               /\ levels'[k].value >= levels'[i].value + MinimumDelta
                          /\ \A i \in bursts' : i < k => levels'[k].at - levels'[i].at >= Cooldown
    BY <1>2 DEF BurstsAreRises
  <2>2. CASE k = n + 1
    <3>1. (\E i \in 1 .. k - 1 : /\ levels'[k].at - levels'[i].at <= Within
                                 /\ levels'[k].value >= levels'[i].value + MinimumDelta)
            <=> Rises(v, t)
      BY <1>1, <1>8, <2>2
    <3>2. (\A i \in bursts' : i < k => levels'[k].at - levels'[i].at >= Cooldown)
            <=> (\A b \in bursts : t - levels[b].at >= Cooldown)
      BY <1>1, <1>4, <1>11, <1>12, <2>2
    <3>3. (\A b \in bursts : t - levels[b].at >= Cooldown) <=> ~EmittedRecently(t)
      BY <1>1, <1>4, <1>6, <1>9
    <3>4. QED
      BY <1>10, <2>2, <3>1, <3>2, <3>3
  <2>3. CASE k # n + 1
    <3>1. k \in 1 .. n /\ k \in DOMAIN levels
      BY <1>1, <1>2, <2>3
    <3>2. k \in bursts <=>
            /\ \E i \in 1 .. k - 1 : /\ levels[k].at - levels[i].at <= Within
                                     /\ levels[k].value >= levels[i].value + MinimumDelta
            /\ \A i \in bursts : i < k => levels[k].at - levels[i].at >= Cooldown
      BY <3>1 DEF BurstsAreRises
    <3>3. \A i \in 1 .. k - 1 : i \in 1 .. n
      BY <1>1, <3>1
    <3>4. \A i \in bursts' : i < k => i \in bursts
      BY <1>1, <1>11, <1>12, <3>1
    <3>5. \A i \in bursts : i \in bursts' /\ i \in 1 .. n
      BY <1>4, <1>11
    <3>6. (\E i \in 1 .. k - 1 : /\ levels'[k].at - levels'[i].at <= Within
                                 /\ levels'[k].value >= levels'[i].value + MinimumDelta)
            <=> (\E i \in 1 .. k - 1 : /\ levels[k].at - levels[i].at <= Within
                                      /\ levels[k].value >= levels[i].value + MinimumDelta)
      BY <1>1, <3>1, <3>3
    <3>7. (\A i \in bursts' : i < k => levels'[k].at - levels'[i].at >= Cooldown)
            <=> (\A i \in bursts : i < k => levels[k].at - levels[i].at >= Cooldown)
      BY <1>1, <3>1, <3>4, <3>5
    <3>8. k \in bursts' <=> k \in bursts
      BY <1>11, <3>1
    <3>9. QED
      BY <3>2, <3>6, <3>7, <3>8
  <2>4. QED
    BY <2>2, <2>3
<1>14. RapidMemory'
  <2>1. \A i \in 1 .. n + 1 : levels'[i].at <= t
    <3>1. ASSUME NEW i \in 1 .. n  PROVE levels'[i].at <= t
      BY <1>1, <1>5
    <3>2. levels'[n + 1].at <= t
      BY <1>1
    <3>3. \A i \in 1 .. n + 1 : i \in 1 .. n \/ i = n + 1
      BY <1>1
    <3>4. QED
      BY <3>1, <3>2, <3>3
  <2>2. \A i \in 1 .. n + 1 : levels'[i].at + Within >= t => levels'[i] \in history'
    <3>1. ASSUME NEW i \in 1 .. n, levels[i].at + Within >= t
          PROVE  levels[i] \in history'
      <4>1. levels[i] \in history
        BY <1>1, <1>2, <1>3, <1>6, <3>1 DEF RapidMemory
      <4>2. QED
        BY <1>7, <3>1, <4>1 DEF ObserveLevel, Recent
    <3>2. r \in history'
      BY DEF ObserveLevel
    <3>3. QED
      BY <1>1, <3>1, <3>2
  <2>3. \A old \in history' : \E i \in 1 .. n + 1 : levels'[i] = old
    <3>1. ASSUME NEW old \in history
          PROVE  \E i \in 1 .. n + 1 : levels'[i] = old
      <4>1. PICK i \in 1 .. n : levels[i] = old
        BY <1>2 DEF RapidMemory
      <4>2. i \in 1 .. n + 1 /\ levels'[i] = old
        BY <1>1, <4>1
      <4>3. QED
        BY <4>2
    <3>2. n + 1 \in 1 .. n + 1
      BY <1>1
    <3>3. QED
      BY <1>1, <3>1, <3>2 DEF ObserveLevel, Recent
  <2>4. /\ lastEmit' = None <=> bursts' = {}
        /\ lastEmit' # None => \E b \in bursts' : levels'[b].at = lastEmit'
        /\ lastEmit' # None => \A b \in bursts' : levels'[b].at <= lastEmit'
    <3>1. CASE Rises(v, t) /\ ~EmittedRecently(t)
      <4>1. lastEmit' = t /\ bursts' = bursts \cup {n + 1}
        BY <3>1 DEF ObserveLevel
      <4>2. t # None
        BY NoneAssumption
      <4>3. \A b \in bursts' : levels'[b].at <= t
        BY <1>12, <2>1
      <4>4. QED
        BY <1>1, <4>1, <4>2, <4>3
    <3>2. CASE ~(Rises(v, t) /\ ~EmittedRecently(t))
      <4>1. lastEmit' = lastEmit /\ bursts' = bursts
        BY <3>2 DEF ObserveLevel
      <4>2. \A b \in bursts : levels'[b] = levels[b]
        BY <1>1, <1>4
      <4>3. QED
        BY <4>1, <4>2 DEF RapidMemory
    <3>3. QED
      BY <3>1, <3>2
  <2>5. QED
    BY <1>2, <1>3, <2>1, <2>2, <2>3, <2>4 DEF RapidMemory
<1>15. QED
  BY <1>13, <1>14

(* The invariant of every rule. *)
RuleInvariantOfAll ==
  /\ CoordinatedInvariant
  /\ RapidMemory
  /\ BurstsAreRises

LEMMA AllInitial == CoordinatedInit => RuleInvariantOfAll
<1>1. RapidInit => RapidMemory /\ BurstsAreRises
  BY DEF RapidInit, RapidMemory, BurstsAreRises
<1>2. QED
  BY <1>1, CoordinatedInitial DEF CoordinatedInit, RuleInvariantOfAll

LEMMA AllStep == RuleInvariantOfAll /\ [CoordinatedNext]_coordinatedVars => RuleInvariantOfAll'
<1> SUFFICES ASSUME RuleInvariantOfAll, [CoordinatedNext]_coordinatedVars
             PROVE  RuleInvariantOfAll'
  OBVIOUS
<1>1. GateInvariant /\ RuleTypeOK /\ LatestIsHeard /\ RapidMemory /\ BurstsAreRises
  BY DEF RuleInvariantOfAll, CoordinatedInvariant
<1>2. Clock \in Nat
  BY <1>1, ClockType DEF GateInvariant
<1>3. (UNCHANGED rapidVars) => RapidTypeOK' /\ RapidMemory' /\ BurstsAreRises'
  BY <1>1 DEF RuleTypeOK, rapidVars, RapidTypeOK, RapidMemory, RapidClock, BurstsAreRises
<1>4. (UNCHANGED <<latest, heard>>) => CompositeTypeOK' /\ LatestIsHeard'
  BY <1>1 DEF RuleTypeOK, CompositeTypeOK, LatestIsHeard
<1>5. GateInvariant' /\ (UNCHANGED <<value, seen, torn>>) => NumericTypeOK'
  BY <1>1 DEF RuleTypeOK, NumericTypeOK, GateInvariant
<1>6. ASSUME CoordinatedNext
      PROVE  RuleInvariantOfAll'
  <2>1. PICK step \in 0 .. MaxStep : \/ Boolean(Clock + step)
                                     \/ Numeric(Clock + step)
                                     \/ Composite(Clock + step)
                                     \/ Rapid(step)
    BY <1>6 DEF CoordinatedNext
  <2>2. kind' \in Kinds
    BY <1>1, <1>6 DEF CoordinatedNext, RuleTypeOK
  <2>3. step \in Nat /\ Clock + step \in Nat /\ Clock + step >= Clock
    BY <1>2, BoundsAssumption
  <2>4. CASE Boolean(Clock + step)
    <3>1. PICK matched \in Phase : Sampled(matched, Clock + step)
      BY <2>4 DEF Boolean, Observe
    <3>2. GateInvariant'
      BY <1>1, <2>3, <3>1, GateStep
    <3>3. QED
      BY <1>3, <1>4, <1>5, <2>2, <2>4, <3>2
         DEF Boolean, RuleInvariantOfAll, CoordinatedInvariant, RuleTypeOK
  <2>5. CASE Numeric(Clock + step)
    <3>1. PICK v \in Values : ObserveNumber(v, Clock + step)
      BY <2>5 DEF Numeric
    <3>2. GateInvariant'
      BY <1>1, <2>3, <3>1, NumberIsSample, GateStep DEF ObserveNumber
    <3>3. NumericTypeOK'
      BY <1>1, <3>1, <3>2 DEF ObserveNumber, RuleTypeOK, NumericTypeOK, GateInvariant
    <3>4. QED
      BY <1>3, <1>4, <2>2, <2>5, <3>2, <3>3
         DEF Numeric, RuleInvariantOfAll, CoordinatedInvariant, RuleTypeOK
  <2>6. CASE Composite(Clock + step)
    <3>1. PICK leaf \in Leaves, reading \in Reading :
            ObserveLeaf(kind = "all", leaf, reading, Clock + step)
      BY <2>6 DEF Composite
    <3>2. CompositeTypeOK' /\ LatestIsHeard'
      BY <1>1, <3>1, LeafStep DEF ObserveLeaf, RuleTypeOK
    <3>3. GateInvariant'
      <4>1. CASE reading \in Valid /\ Decidable(latest')
        <5>1. Sampled(Composed(kind = "all", latest'), Clock + step)
          BY <3>1, <4>1 DEF ObserveLeaf
        <5>2. Composed(kind = "all", latest') \in Phase
          BY CompositionIsSample
        <5>3. QED
          BY <1>1, <2>3, <5>1, <5>2, GateStep
      <4>2. CASE ~(reading \in Valid /\ Decidable(latest'))
        <5>1. UNCHANGED gateVars
          BY <3>1, <4>2 DEF ObserveLeaf
        <5>2. QED
          BY <1>1, <5>1, GateStutter
      <4>3. QED
        BY <4>1, <4>2
    <3>4. QED
      BY <1>3, <1>5, <2>2, <2>6, <3>2, <3>3
         DEF Composite, RuleInvariantOfAll, CoordinatedInvariant, RuleTypeOK
  <2>7. CASE Rapid(step)
    <3>1. PICK v \in Levels : ObserveLevel(v, RapidClock + step)
      BY <2>7 DEF Rapid
    <3>2. RapidClock \in Nat
      BY <1>1, RapidClockType DEF RuleTypeOK
    <3>3. RapidClock + step \in Nat /\ RapidClock + step >= RapidClock
      BY <2>3, <3>2
    <3>4. RapidTypeOK' /\ RapidMemory' /\ BurstsAreRises'
      BY <1>1, <3>1, <3>3, LevelType, LevelStep DEF RuleTypeOK
    <3>5. GateInvariant'
      BY <1>1, <2>7, GateStutter DEF Rapid, compositeVars
    <3>6. QED
      BY <1>4, <1>5, <2>2, <2>7, <3>4, <3>5
         DEF Rapid, compositeVars, RuleInvariantOfAll, CoordinatedInvariant, RuleTypeOK
  <2>8. QED
    BY <2>1, <2>4, <2>5, <2>6, <2>7
<1>7. ASSUME UNCHANGED coordinatedVars
      PROVE  RuleInvariantOfAll'
  <2>1. UNCHANGED gateVars /\ UNCHANGED <<latest, heard>> /\ UNCHANGED <<value, seen, torn>>
        /\ UNCHANGED rapidVars /\ kind' = kind
    BY <1>7 DEF coordinatedVars, compositeVars
  <2>2. GateInvariant'
    BY <1>1, <2>1, GateStutter
  <2>3. QED
    BY <1>1, <1>3, <1>4, <1>5, <2>1, <2>2 DEF RuleInvariantOfAll, CoordinatedInvariant, RuleTypeOK
<1>8. QED
  BY <1>6, <1>7

(* The inductive invariant of CoordinatedRule::observe. *)
THEOREM AllRulesInvariant == CoordinatedSpec => []RuleInvariantOfAll
<1>1. QED
  BY AllInitial, AllStep, PTL DEF CoordinatedSpec

(* Reports alternate, changes are a cooldown apart and updates are rate    *)
(* limited for boolean, text, numeric and composed rules alike, in states  *)
(* that are always of their type (CoordinatedRule::observe).               *)
THEOREM RulesAreDebounced == CoordinatedSpec => []ReportsAreDebounced
<1>1. RuleInvariantOfAll => ReportsAreDebounced
  BY DEF RuleInvariantOfAll, CoordinatedInvariant, GateInvariant, ReportsAreDebounced
<1>2. QED
  BY <1>1, AllRulesInvariant, PTL

(* A rapid increase rule reports exactly the rises of its whole history    *)
(* (RapidIncreaseRule::observe).                                           *)
THEOREM BurstsAreExact == CoordinatedSpec => []BurstsAreRises
<1>1. RuleInvariantOfAll => BurstsAreRises
  BY DEF RuleInvariantOfAll
<1>2. QED
  BY <1>1, AllRulesInvariant, PTL

(* A composition is judged by the last readings of its elements only       *)
(* (CompositeRule::observe).                                               *)
THEOREM CompositionsAreCurrent == CoordinatedSpec => CompositionIsCurrent
<1>1. ASSUME RuleInvariantOfAll, [CoordinatedNext]_coordinatedVars, kind \in {"all", "any"}
      PROVE  JudgesTheLastReadings
  <2>1. SUFFICES ASSUME journal' # journal
                 PROVE  /\ Decidable(heard')
                        /\ journal'[Len(journal')].sample = Composed(kind = "all", heard')
    BY DEF JudgesTheLastReadings
  <2>2. CoordinatedNext
    BY <1>1, <2>1 DEF coordinatedVars, compositeVars, gateVars
  <2>3. PICK step \in 0 .. MaxStep : Composite(Clock + step)
    BY <1>1, <2>2 DEF CoordinatedNext, Boolean, Numeric, Rapid
  <2>4. PICK leaf \in Leaves, reading \in Reading :
          ObserveLeaf(kind = "all", leaf, reading, Clock + step)
    BY <2>3 DEF Composite
  <2>5. /\ Decidable(latest')
        /\ journal' = Append(journal, [sample |-> Composed(kind = "all", latest'),
                                       at |-> Clock + step])
    BY <2>1, <2>4 DEF ObserveLeaf, gateVars, Sampled
  <2>6. LatestIsHeard'
    BY <1>1, <2>4, LeafStep DEF ObserveLeaf, RuleInvariantOfAll, CoordinatedInvariant, RuleTypeOK
  <2>7. \A other \in Leaves :
          latest'[other] = IF heard'[other] \in Valid THEN heard'[other] ELSE Unknown
    BY <2>6 DEF LatestIsHeard
  <2>8. \A other \in Leaves : latest'[other] = heard'[other]
    BY <2>5, <2>7 DEF Decidable, Unknown
  <2>9. Decidable(heard')
    BY <2>5, <2>8 DEF Decidable
  <2>10. Composed(kind = "all", heard') = Composed(kind = "all", latest')
    BY <2>8 DEF Composed
  <2>11. journal \in Seq([sample : Phase, at : Nat])
    BY <1>1 DEF RuleInvariantOfAll, CoordinatedInvariant, GateInvariant, GateTypeOK
  <2>12. journal'[Len(journal')].sample = Composed(kind = "all", latest')
    <3>1. /\ Composed(kind = "all", latest') \in Phase
          /\ Clock + step \in Nat
      <4>1. Clock \in Nat
        BY <1>1, ClockType DEF RuleInvariantOfAll, CoordinatedInvariant, GateInvariant
      <4>2. Composed(kind = "all", latest') \in Phase
        BY CompositionIsSample
      <4>3. QED
        BY <4>1, <4>2, BoundsAssumption
    <3>2. Len(journal') = Len(journal) + 1
      BY <2>5, <2>11, <3>1
    <3>3. QED
      BY <2>5, <2>11, <3>1, <3>2
  <2>13. QED
    BY <2>9, <2>10, <2>12
<1>2. QED
  BY <1>1, AllRulesInvariant, PTL DEF CompositionIsCurrent, CoordinatedSpec

-----------------------------------------------------------------------------
(* What the window remembers, recomputed from every sample there was *)

Sample == [sample : Phase, at : Nat]

(* The votes of the M samples of `samples` that end with sample k. *)
Support(samples, k, phase) == Cardinality({i \in EvidenceAt(k) : samples[i].sample = phase})

(* The evidence is the last samples of the journal. *)
IsEndOf(window, samples) ==
  /\ Len(window) = IF Len(samples) < SampleWindow THEN Len(samples) ELSE SampleWindow
  /\ \A i \in 1 .. Len(window) : window[i] = samples[Len(samples) - Len(window) + i].sample

SupportedSince(first, samples, phase) ==
  \A k \in first .. Len(samples) : Support(samples, k, phase) >= RequiredSamples

(* A candidate has had the votes at every sample since it became one. *)
CandidateIsSupported ==
  candidate.target # "unset" =>
    /\ candidate.since <= Clock
    /\ \E first \in 1 .. Len(journal) :
         /\ journal[first].at = candidate.since
         /\ SupportedSince(first, journal, candidate.target)

SupportInvariant ==
  RuleInvariantOfAll /\ IsEndOf(evidence, journal) /\ CandidateIsSupported

LEMMA LongerSequence ==
  ASSUME NEW S, NEW s \in Seq(S), NEW x \in S
  PROVE  /\ Append(s, x) \in Seq(S) /\ Len(s) \in Nat /\ Len(Append(s, x)) = Len(s) + 1
         /\ Append(s, x)[Len(s) + 1] = x
         /\ \A i \in 1 .. Len(s) : Append(s, x)[i] = s[i]
OBVIOUS

LEMMA JournalGrows ==
  ASSUME GateTypeOK, NEW sample \in Phase, NEW t \in Nat, Sampled(sample, t)
  PROVE  /\ journal \in Seq(Sample) /\ journal' \in Seq(Sample)
         /\ Len(journal) \in Nat /\ Len(journal') = Len(journal) + 1
         /\ journal'[Len(journal) + 1] = [sample |-> sample, at |-> t]
         /\ \A i \in 1 .. Len(journal) : journal'[i] = journal[i]
         /\ journal'[Len(journal) + 1].sample = sample /\ journal'[Len(journal) + 1].at = t
<1>1. journal \in Seq(Sample) /\ [sample |-> sample, at |-> t] \in Sample
  BY DEF GateTypeOK, Sample
<1>2. journal' = Append(journal, [sample |-> sample, at |-> t])
  BY DEF Sampled
<1>3. PICK r \in Sample : r = [sample |-> sample, at |-> t]
  BY <1>1
<1>4. QED
  BY <1>1, <1>2, <1>3, LongerSequence

LEMMA EvidenceIsEnd ==
  ASSUME GateTypeOK, IsEndOf(evidence, journal),
         NEW sample \in Phase, NEW t \in Nat, Sampled(sample, t)
  PROVE  IsEndOf(evidence', journal')
<1> DEFINE n == Len(journal)
           m == Len(evidence)
<1>1. /\ n \in Nat /\ Len(journal') = n + 1 /\ journal'[n + 1].sample = sample
      /\ \A i \in 1 .. n : journal'[i] = journal[i]
  BY JournalGrows
<1>2. /\ evidence \in Seq(Phase) /\ m \in Nat /\ SampleWindow \in Nat \ {0}
      /\ evidence' = Window(sample)
  BY SamplingAssumption DEF GateTypeOK, Sampled
<1>3. /\ m = IF n < SampleWindow THEN n ELSE SampleWindow
      /\ \A i \in 1 .. m : evidence[i] = journal[n - m + i].sample
  BY DEF IsEndOf
<1>4. CASE m < SampleWindow
  <2>1. /\ Len(evidence') = m + 1 /\ evidence'[m + 1] = sample
        /\ \A i \in 1 .. m : evidence'[i] = evidence[i]
    BY <1>2, <1>4 DEF Window
  <2>2. m = n
    BY <1>1, <1>2, <1>3, <1>4
  <2>3. ASSUME NEW i \in 1 .. m + 1  PROVE evidence'[i] = journal'[n + 1 - (m + 1) + i].sample
    <3>1. CASE i = m + 1
      BY <1>1, <1>2, <2>1, <2>2, <3>1
    <3>2. CASE i \in 1 .. m
      <4>1. n - m + i = i /\ n + 1 - (m + 1) + i = i /\ i \in 1 .. n
        BY <1>1, <2>2, <3>2
      <4>2. evidence[i] = journal[n - m + i].sample
        BY <1>3, <3>2
      <4>3. QED
        BY <1>1, <2>1, <3>2, <4>1, <4>2
    <3>3. QED
      BY <1>2, <3>1, <3>2
  <2>4. /\ Len(evidence') = IF Len(journal') < SampleWindow THEN Len(journal') ELSE SampleWindow
        /\ Len(journal') - Len(evidence') = n + 1 - (m + 1)
    BY <1>1, <1>2, <1>4, <2>1, <2>2
  <2>5. QED
    BY <1>1, <2>1, <2>3, <2>4 DEF IsEndOf
<1>5. CASE m = SampleWindow
  <2>1. /\ Len(evidence') = m /\ evidence'[m] = sample
        /\ \A i \in 1 .. m - 1 : evidence'[i] = evidence[i + 1]
    <3>1. evidence # <<>> /\ evidence' = Append(Tail(evidence), sample)
      BY <1>2, <1>5 DEF Window
    <3>2. /\ Tail(evidence) \in Seq(Phase) /\ Len(Tail(evidence)) = m - 1
          /\ \A i \in 1 .. m - 1 : Tail(evidence)[i] = evidence[i + 1]
      BY <1>2, <3>1
    <3>3. QED
      BY <1>2, <1>5, <3>1, <3>2
  <2>2. n >= m
    BY <1>1, <1>2, <1>3, <1>5
  <2>3. ASSUME NEW i \in 1 .. m  PROVE evidence'[i] = journal'[n + 1 - m + i].sample
    <3>1. CASE i = m
      BY <1>1, <1>2, <2>1, <3>1
    <3>2. CASE i \in 1 .. m - 1
      <4>1. i + 1 \in 1 .. m /\ n - m + (i + 1) \in 1 .. n /\ n - m + (i + 1) = n + 1 - m + i
        BY <1>1, <1>2, <2>2, <3>2
      <4>2. evidence[i + 1] = journal[n - m + (i + 1)].sample
        BY <1>3, <4>1
      <4>3. QED
        BY <1>1, <2>1, <3>2, <4>1, <4>2
    <3>3. QED
      BY <1>2, <3>1, <3>2
  <2>4. /\ Len(evidence') = IF Len(journal') < SampleWindow THEN Len(journal') ELSE SampleWindow
        /\ Len(journal') - Len(evidence') = n + 1 - m
    BY <1>1, <1>2, <1>5, <2>1, <2>2
  <2>5. QED
    BY <1>1, <2>1, <2>3, <2>4 DEF IsEndOf
<1>6. QED
  BY <1>1, <1>2, <1>3, <1>4, <1>5

(* The votes in the window are those of the samples it is of. *)
LEMMA VotesAreSupport ==
  ASSUME NEW window \in Seq(Phase), NEW samples \in Seq(Sample), IsEndOf(window, samples),
         NEW phase
  PROVE  Votes(window, phase) = Support(samples, Len(samples), phase)
<1> DEFINE n == Len(samples)
           m == Len(window)
           A == {i \in 1 .. m : window[i] = phase}
           B == {i \in EvidenceAt(n) : samples[i].sample = phase}
           f == [i \in A |-> n - m + i]
<1>1. n \in Nat /\ m \in Nat /\ SampleWindow \in Nat \ {0} /\ DOMAIN window = 1 .. m
  BY SamplingAssumption
<1>2. /\ m = IF n < SampleWindow THEN n ELSE SampleWindow
      /\ \A i \in 1 .. m : window[i] = samples[n - m + i].sample
  BY DEF IsEndOf
<1>3. \A i \in 1 .. n : i \in EvidenceAt(n) <=> i > n - m
  BY <1>1, <1>2 DEF EvidenceAt
<1>4. f \in [A -> B]
  <2>1. ASSUME NEW i \in A  PROVE n - m + i \in B
    <3>1. n - m + i \in 1 .. n /\ n - m + i > n - m
      <4>1. i \in 1 .. m /\ m <= n
        BY <1>1, <1>2
      <4>2. QED
        BY <1>1, <4>1
    <3>2. QED
      BY <1>2, <1>3, <3>1
  <2>2. QED
    BY <2>1
<1>5. \A i, j \in A : f[i] = f[j] => i = j
  BY <1>1
<1>6. ASSUME NEW b \in B  PROVE \E i \in A : f[i] = b
  <2>1. b \in 1 .. n /\ b > n - m
    BY <1>3 DEF EvidenceAt
  <2>2. b - (n - m) \in 1 .. m /\ n - m + (b - (n - m)) = b
    BY <1>1, <2>1
  <2>3. b - (n - m) \in A
    BY <1>2, <2>2
  <2>4. QED
    BY <2>2, <2>3
<1>7. f \in Bijection(A, B)
  BY <1>4, <1>5, <1>6, Zenon DEF Bijection, Injection, Surjection, IsInjective
<1>8. ExistsBijection(A, B)
  BY <1>7 DEF ExistsBijection
<1>9. IsFiniteSet(A)
  <2>1. IsFiniteSet(1 .. m) /\ A \in SUBSET (1 .. m)
    BY <1>1, FS_Interval
  <2>2. QED
    BY <2>1, FS_Subset
<1>10. Cardinality(B) = Cardinality(A)
  BY <1>8, <1>9, FS_Bijection
<1>11. QED
  BY <1>1, <1>10 DEF Votes, Support

(* One more sample takes no vote from those before it. *)
LEMMA SupportStays ==
  ASSUME NEW samples \in Seq(Sample), NEW longer, NEW phase, NEW k \in 1 .. Len(samples),
         \A i \in 1 .. Len(samples) : longer[i] = samples[i]
  PROVE  Support(longer, k, phase) = Support(samples, k, phase)
<1>1. Len(samples) \in Nat
  OBVIOUS
<1>2. \A i \in EvidenceAt(k) : longer[i] = samples[i]
  BY <1>1 DEF EvidenceAt
<1>3. {i \in EvidenceAt(k) : longer[i].sample = phase}
        = {i \in EvidenceAt(k) : samples[i].sample = phase}
  BY <1>2
<1>4. QED
  BY <1>3 DEF Support

LEMMA SupportedLonger ==
  ASSUME GateTypeOK, IsEndOf(evidence, journal),
         NEW sample \in Phase, NEW t \in Nat, Sampled(sample, t),
         NEW phase, Carries(Window(sample), phase)
  PROVE  /\ Support(journal', Len(journal'), phase) >= RequiredSamples
         /\ \A first \in 1 .. Len(journal) :
              SupportedSince(first, journal, phase) => SupportedSince(first, journal', phase)
<1>1. /\ journal \in Seq(Sample) /\ journal' \in Seq(Sample)
      /\ Len(journal) \in Nat /\ Len(journal') = Len(journal) + 1
      /\ \A i \in 1 .. Len(journal) : journal'[i] = journal[i]
  BY JournalGrows
<1>2. Support(journal', Len(journal'), phase) >= RequiredSamples
  <2>1. PICK window \in Seq(Phase) : window = Window(sample)
    BY WindowType
  <2>2. PICK samples \in Seq(Sample) : samples = journal'
    BY <1>1
  <2>3. IsEndOf(window, samples)
    <3>1. IsEndOf(evidence', journal') /\ evidence' = window
      BY <2>1, EvidenceIsEnd DEF Sampled
    <3>2. QED
      BY <2>2, <3>1
  <2>4. Votes(window, phase) = Support(samples, Len(samples), phase)
    BY <2>3, VotesAreSupport
  <2>5. QED
    BY <2>1, <2>2, <2>4 DEF Carries
<1>3. ASSUME NEW first \in 1 .. Len(journal), SupportedSince(first, journal, phase)
      PROVE  SupportedSince(first, journal', phase)
  <2>1. ASSUME NEW k \in first .. Len(journal')
        PROVE  Support(journal', k, phase) >= RequiredSamples
    <3>1. CASE k = Len(journal')
      BY <1>2, <3>1
    <3>2. CASE k # Len(journal')
      <4>1. k \in first .. Len(journal) /\ k \in 1 .. Len(journal)
        BY <1>1, <3>2
      <4>2. Support(journal, k, phase) >= RequiredSamples
        BY <1>3, <4>1 DEF SupportedSince
      <4>3. PICK longer : longer = journal'
        OBVIOUS
      <4>4. Support(longer, k, phase) = Support(journal, k, phase)
        BY <1>1, <4>1, <4>3, SupportStays
      <4>5. QED
        BY <4>2, <4>3, <4>4
    <3>3. QED
      BY <3>1, <3>2
  <2>2. QED
    BY <2>1 DEF SupportedSince
<1>4. QED
  BY <1>2, <1>3

(* A change has been asked for, without interruption, for StableFor. *)
Changed ==
  LET n == Len(journal') IN
  \E first \in 1 .. n :
    /\ journal'[n].at >= journal'[first].at + StableFor
    /\ \A k \in first .. n : Support(journal', k, state') >= RequiredSamples

LEMMA DesiredIsCarried ==
  ASSUME NEW window, Desired(window) # state
  PROVE  Carries(window, Desired(window))
BY DEF Desired

(* The stretch since which the evidence has asked for a state. *)
LEMMA WantedIsSupported ==
  ASSUME GateTypeOK, IsEndOf(evidence, journal), CandidateIsSupported,
         NEW sample \in Phase, NEW t \in Nat, t >= Clock, Sampled(sample, t),
         NEW wanted \in Phase, Carries(Window(sample), wanted)
  PROVE  /\ Since(wanted, t) \in Nat /\ Since(wanted, t) <= t
         /\ \E first \in 1 .. Len(journal') :
              /\ journal'[first].at = Since(wanted, t)
              /\ SupportedSince(first, journal', wanted)
<1>1. /\ Len(journal) \in Nat /\ Len(journal') = Len(journal) + 1
      /\ journal'[Len(journal) + 1].at = t
      /\ \A i \in 1 .. Len(journal) : journal'[i] = journal[i]
  BY JournalGrows
<1>2. /\ Support(journal', Len(journal'), wanted) >= RequiredSamples
      /\ \A first \in 1 .. Len(journal) :
           SupportedSince(first, journal, wanted) => SupportedSince(first, journal', wanted)
  BY SupportedLonger
<1>3. Since(wanted, t) \in Nat
  BY SinceType
<1>4. CASE candidate.target = wanted
  <2>1. candidate.target # "unset" /\ Since(wanted, t) = candidate.since
    BY <1>4 DEF Phase, Since
  <2>2. candidate.since <= Clock
    BY <2>1 DEF CandidateIsSupported
  <2>3. PICK first \in 1 .. Len(journal) :
          journal[first].at = candidate.since /\ SupportedSince(first, journal, candidate.target)
    BY <2>1 DEF CandidateIsSupported
  <2>4. Clock \in Nat
    BY ClockType
  <2>5. first \in 1 .. Len(journal')
    BY <1>1
  <2>6. QED
    BY <1>1, <1>2, <1>3, <1>4, <2>1, <2>2, <2>3, <2>4, <2>5
<1>5. CASE candidate.target # wanted
  <2>1. Since(wanted, t) = t
    BY <1>5 DEF Since
  <2>2. Len(journal') \in 1 .. Len(journal') /\ journal'[Len(journal')].at = t
    BY <1>1
  <2>3. SupportedSince(Len(journal'), journal', wanted)
    <3>1. \A k \in Len(journal') .. Len(journal') : k = Len(journal')
      BY <1>1
    <3>2. QED
      BY <1>2, <3>1 DEF SupportedSince
  <2>4. QED
    BY <2>1, <2>2, <2>3
<1>6. QED
  BY <1>4, <1>5

LEMMA SampleIsSupported ==
  ASSUME GateTypeOK, IsEndOf(evidence, journal), CandidateIsSupported,
         NEW sample \in Phase, NEW t \in Nat, t >= Clock, Sampled(sample, t)
  PROVE  CandidateIsSupported' /\ (state' # state => Changed)
<1>1. Clock' = t
  BY ClockStep
<1>2. PICK window : window = Window(sample)
  OBVIOUS
<1>3. CASE \/ Hold(window, t) \/ Refresh(window, t) \/ Establish(window, t) \/ Flip(window, t)
  <2>1. candidate' = NoCandidate
    BY <1>3 DEF Hold, Refresh, Establish, Flip
  <2>2. CandidateIsSupported'
    BY <2>1 DEF CandidateIsSupported, NoCandidate
  <2>3. ASSUME state' # state  PROVE Changed
    <3>1. Desired(window) # state /\ Ripe(Desired(window), t) /\ state' = Desired(window)
      BY <1>3, <2>3 DEF Hold, Refresh, Establish, Flip
    <3>2. PICK wanted \in Phase : wanted = Desired(window) /\ Carries(window, wanted)
      BY <3>1, DesiredType, DesiredIsCarried
    <3>3. Since(wanted, t) \in Nat /\ Since(wanted, t) <= t
      BY <1>2, <3>2, WantedIsSupported
    <3>4. PICK first \in 1 .. Len(journal') :
            journal'[first].at = Since(wanted, t) /\ SupportedSince(first, journal', wanted)
      BY <1>2, <3>2, WantedIsSupported
    <3>5. t - Since(wanted, t) >= StableFor /\ StableFor \in Nat
      BY <3>1, <3>2, <3>3, TimingAssumption DEF Ripe, Elapsed
    <3>6. journal'[Len(journal')].at = t
      <4>1. Len(journal) \in Nat /\ Len(journal') = Len(journal) + 1
            /\ journal'[Len(journal) + 1].at = t
        BY JournalGrows
      <4>2. QED
        BY <4>1
    <3>7. journal'[Len(journal')].at >= journal'[first].at + StableFor
      BY <3>3, <3>4, <3>5, <3>6
    <3>8. QED
      BY <3>1, <3>2, <3>4, <3>7 DEF SupportedSince, Changed
  <2>4. QED
    BY <2>2, <2>3
<1>4. CASE Defer(window, t)
  <2>1. /\ Desired(window) # state /\ state' = state
        /\ candidate' = [target |-> Desired(window), since |-> Since(Desired(window), t)]
    BY <1>4 DEF Defer
  <2>2. PICK wanted \in Phase : wanted = Desired(window) /\ Carries(window, wanted)
    BY <2>1, DesiredType, DesiredIsCarried
  <2>3. /\ Since(wanted, t) <= t
        /\ \E first \in 1 .. Len(journal') :
             journal'[first].at = Since(wanted, t) /\ SupportedSince(first, journal', wanted)
    BY <1>2, <2>2, WantedIsSupported
  <2>4. candidate'.target = wanted /\ candidate'.since = Since(wanted, t)
    BY <2>1, <2>2
  <2>5. QED
    BY <1>1, <2>1, <2>3, <2>4 DEF CandidateIsSupported
<1>5. QED
  BY <1>2, <1>3, <1>4 DEF Sampled

(* What any observation is to the gate: a sample, or nothing. *)
LEMMA ObservationIsSample ==
  ASSUME RuleInvariantOfAll, CoordinatedNext
  PROVE  \/ UNCHANGED gateVars
         \/ \E sample \in Phase, t \in Nat : t >= Clock /\ Sampled(sample, t)
<1>1. Clock \in Nat
  BY ClockType DEF RuleInvariantOfAll, CoordinatedInvariant, GateInvariant
<1>2. PICK step \in 0 .. MaxStep : \/ Boolean(Clock + step)
                                   \/ Numeric(Clock + step)
                                   \/ Composite(Clock + step)
                                   \/ Rapid(step)
  BY DEF CoordinatedNext
<1>3. PICK t \in Nat : t = Clock + step /\ t >= Clock
  <2>1. Clock + step \in Nat /\ Clock + step >= Clock
    BY <1>1, BoundsAssumption
  <2>2. QED
    BY <2>1
<1>4. CASE Boolean(t)
  BY <1>3, <1>4 DEF Boolean, Observe
<1>5. CASE Numeric(t)
  <2>1. PICK v \in Values : Sampled(SampleOf(v), t)
    BY <1>5 DEF Numeric, ObserveNumber
  <2>2. QED
    BY <1>3, <2>1, NumberIsSample
<1>6. CASE Composite(t)
  <2>1. PICK leaf \in Leaves, reading \in Reading : ObserveLeaf(kind = "all", leaf, reading, t)
    BY <1>6 DEF Composite
  <2>2. UNCHANGED gateVars \/ Sampled(Composed(kind = "all", latest'), t)
    BY <2>1 DEF ObserveLeaf
  <2>3. Composed(kind = "all", latest') \in Phase
    BY CompositionIsSample
  <2>4. QED
    BY <1>3, <2>2, <2>3
<1>7. CASE Rapid(step)
  BY <1>7 DEF Rapid, compositeVars
<1>8. QED
  BY <1>2, <1>3, <1>4, <1>5, <1>6, <1>7

LEMMA SupportStep ==
  ASSUME SupportInvariant, [CoordinatedNext]_coordinatedVars
  PROVE  /\ SupportInvariant'
         /\ [state' # state => Changed]_gateVars
<1>1. RuleInvariantOfAll' /\ GateTypeOK
  BY AllStep DEF SupportInvariant, RuleInvariantOfAll, CoordinatedInvariant, GateInvariant
<1>2. CASE UNCHANGED gateVars
  <2>1. UNCHANGED <<evidence, journal, candidate, state>>
    BY <1>2 DEF gateVars, ruleVars
  <2>2. IsEndOf(evidence, journal)' /\ CandidateIsSupported'
    BY <2>1 DEF SupportInvariant, IsEndOf, CandidateIsSupported, SupportedSince, Support, Clock,
                EvidenceAt
  <2>3. QED
    BY <1>1, <1>2, <2>2 DEF SupportInvariant
<1>3. ASSUME NEW sample \in Phase, NEW t \in Nat, t >= Clock, Sampled(sample, t)
      PROVE  SupportInvariant' /\ [state' # state => Changed]_gateVars
  <2>1. IsEndOf(evidence, journal) /\ CandidateIsSupported
    BY DEF SupportInvariant
  <2>2. IsEndOf(evidence', journal')
    BY <1>1, <1>3, <2>1, EvidenceIsEnd
  <2>3. CandidateIsSupported' /\ (state' # state => Changed)
    BY <1>1, <1>3, <2>1, SampleIsSupported
  <2>4. QED
    BY <1>1, <2>2, <2>3 DEF SupportInvariant
<1>4. CASE UNCHANGED coordinatedVars
  BY <1>2, <1>4 DEF coordinatedVars, compositeVars
<1>5. QED
  BY <1>2, <1>3, <1>4, ObservationIsSample DEF SupportInvariant

(* A state is established only after N of the last M samples spoke for it  *)
(* at every sample of a stretch of StableFor: the incremental window and   *)
(* candidate forget nothing that counts (TemporalRule::observe_match,      *)
(* NumericRule::observe).                                                  *)
THEOREM ChangesHaveSupport == CoordinatedSpec => ChangesAreSupported
<1>1. CoordinatedInit => SupportInvariant
  <2>1. SUFFICES ASSUME CoordinatedInit  PROVE SupportInvariant
    OBVIOUS
  <2>2. evidence = <<>> /\ journal = <<>> /\ candidate.target = "unset"
    BY <2>1 DEF CoordinatedInit, NumericInit, GateInit, NoCandidate
  <2>3. IsEndOf(evidence, journal)
    BY <2>2, SamplingAssumption DEF IsEndOf
  <2>4. QED
    BY <2>1, <2>2, <2>3, AllInitial DEF SupportInvariant, CandidateIsSupported
<1>2. SupportInvariant /\ [CoordinatedNext]_coordinatedVars => SupportInvariant'
  BY SupportStep
<1>3. SupportInvariant /\ [CoordinatedNext]_coordinatedVars =>
        [state' # state =>
           LET n == Len(journal') IN
             \E first \in 1 .. n :
               /\ journal'[n].at >= journal'[first].at + StableFor
               /\ \A k \in first .. n : VotesAt(k, state') >= RequiredSamples]_gateVars
  BY SupportStep DEF Changed, Support, VotesAt
<1>4. QED
  BY <1>1, <1>2, <1>3, PTL DEF CoordinatedSpec, ChangesAreSupported

-----------------------------------------------------------------------------
(* The hysteresis of numeric rules *)

(* While the numbers since the last change stay on the side of the state,  *)
(* the votes against it are too few to carry, unless they were enough at   *)
(* that change.                                                            *)
SidesAreKept ==
  /\ state = "active" /\ (\A v \in seen : v <= LeaveAbove)
       => Votes(evidence, "inactive") < RequiredSamples \/ OldSamplesCarry
  /\ state = "inactive" /\ (\A v \in seen : v >= EnterBelow)
       => Votes(evidence, "active") < RequiredSamples \/ OldSamplesCarry
  /\ state = "unset" /\ (\A v \in seen : v >= EnterBelow) => Votes(evidence, "active") = 0
  /\ state = "unset" /\ (\A v \in seen : v < EnterBelow) => Votes(evidence, "inactive") = 0

HysteresisInvariant == RuleInvariantOfAll /\ (kind = "numeric" => SidesAreKept)

LEMMA VotesFacts ==
  ASSUME NEW window \in Seq(Phase)
  PROVE  /\ Votes(window, "active") \in Nat /\ Votes(window, "inactive") \in Nat
         /\ Votes(window, "active") + Votes(window, "inactive") = Len(window)
<1> DEFINE A == {i \in DOMAIN window : window[i] = "active"}
           B == {i \in DOMAIN window : window[i] = "inactive"}
<1>1. Len(window) \in Nat /\ DOMAIN window = 1 .. Len(window)
  OBVIOUS
<1>2. IsFiniteSet(1 .. Len(window)) /\ Cardinality(1 .. Len(window)) = Len(window)
  BY <1>1, FS_Interval
<1>3. A \in SUBSET (1 .. Len(window)) /\ B \in SUBSET (1 .. Len(window))
  BY <1>1
<1>4. IsFiniteSet(A) /\ IsFiniteSet(B)
  BY <1>2, <1>3, FS_Subset
<1>5. Cardinality(A) \in Nat /\ Cardinality(B) \in Nat
  BY <1>4, FS_CardinalityType
<1>6. A \cup B = 1 .. Len(window) /\ A \cap B = {}
  BY <1>1 DEF Phase
<1>7. Cardinality(A \cup B) = Cardinality(A) + Cardinality(B) - Cardinality(A \cap B)
  BY <1>4, FS_Union
<1>8. Cardinality(A \cap B) = 0
  BY <1>6, FS_EmptySet
<1>9. Votes(window, "active") = Cardinality(A) /\ Votes(window, "inactive") = Cardinality(B)
  BY DEF Votes
<1>10. Cardinality(A) + Cardinality(B) = Len(window)
  <2>1. Cardinality(A \cup B) = Len(window)
    BY <1>2, <1>6
  <2> HIDE DEF A, B
  <2>2. QED
    BY <2>1, <1>5, <1>7, <1>8
<1>11. QED
  BY <1>5, <1>9, <1>10

(* A sample for one state adds no vote for the other. *)
LEMMA VotesAgainst ==
  ASSUME GateTypeOK, NEW sample \in Phase, NEW phase \in Phase, sample # phase
  PROVE  Votes(Window(sample), phase) <= Votes(evidence, phase)
<1> DEFINE m == Len(evidence)
           A == {i \in DOMAIN Window(sample) : Window(sample)[i] = phase}
           B == {i \in DOMAIN evidence : evidence[i] = phase}
<1>1. evidence \in Seq(Phase) /\ m \in Nat /\ DOMAIN evidence = 1 .. m /\ SampleWindow \in Nat \ {0}
  BY SamplingAssumption DEF GateTypeOK
<1>2. IsFiniteSet(B)
  <2>1. IsFiniteSet(1 .. m) /\ B \in SUBSET (1 .. m)
    BY <1>1, FS_Interval
  <2>2. QED
    BY <2>1, FS_Subset
<1>3. CASE m < SampleWindow
  <2>1. Window(sample) = Append(evidence, sample)
    BY <1>3 DEF Window
  <2>2. /\ DOMAIN Append(evidence, sample) = 1 .. m + 1
        /\ Append(evidence, sample)[m + 1] = sample
        /\ \A i \in 1 .. m : Append(evidence, sample)[i] = evidence[i]
    BY <1>1
  <2>3. ASSUME NEW i \in A  PROVE i \in B
    <3>1. i \in 1 .. m + 1 /\ i # m + 1
      BY <2>1, <2>2
    <3>2. i \in 1 .. m
      BY <1>1, <3>1
    <3>3. QED
      BY <1>1, <2>1, <2>2, <3>2
  <2>4. A \in SUBSET B
    BY <2>3
  <2>5. Cardinality(A) <= Cardinality(B)
    BY <1>2, <2>4, FS_Subset
  <2>6. QED
    BY <2>5 DEF Votes
<1>4. CASE ~(m < SampleWindow)
  <2>1. Window(sample) = Append(Tail(evidence), sample) /\ evidence # <<>> /\ m >= 1
    BY <1>1, <1>4 DEF Window
  <2>2. /\ Tail(evidence) \in Seq(Phase) /\ Len(Tail(evidence)) = m - 1
        /\ \A i \in 1 .. m - 1 : Tail(evidence)[i] = evidence[i + 1]
    BY <1>1, <2>1
  <2>3. PICK rest \in Seq(Phase) : rest = Tail(evidence)
    BY <2>2
  <2>4. /\ DOMAIN Append(rest, sample) = 1 .. m /\ Append(rest, sample)[m] = sample
        /\ \A i \in 1 .. m - 1 : Append(rest, sample)[i] = evidence[i + 1]
    BY <1>1, <2>1, <2>2, <2>3
  <2> DEFINE f == [i \in A |-> i + 1]
  <2>5. ASSUME NEW i \in A  PROVE i + 1 \in B /\ i \in Nat
    <3>1. i \in 1 .. m /\ i # m
      BY <2>1, <2>3, <2>4
    <3>2. i \in 1 .. m - 1 /\ i + 1 \in 1 .. m
      BY <1>1, <3>1
    <3>3. QED
      BY <1>1, <2>1, <2>3, <2>4, <3>2
  <2>6. f \in [A -> B] /\ \A i, j \in A : f[i] = f[j] => i = j
    BY <2>5
  <2>7. f \in Injection(A, B)
    BY <2>6, Zenon DEF Injection, IsInjective
  <2>8. Cardinality(A) <= Cardinality(B)
    BY <1>2, <2>7, FS_Injection
  <2>9. QED
    BY <2>8 DEF Votes
<1>5. QED
  BY <1>3, <1>4

LEMMA ReportedLast ==
  ASSUME GateTypeOK, NEW what \in Kind, NEW t \in Nat, Report(what, t)
  PROVE  events'[Len(events')].kind = what
<1>1. /\ Len(events') = Len(events) + 1
      /\ events'[Len(events) + 1] = [kind |-> what, at |-> t]
  BY ReportFacts
<1>2. events'[Len(events')] = [kind |-> what, at |-> t]
  BY <1>1
<1>3. QED
  BY <1>2

LEMMA NumberKeepsSides ==
  ASSUME GateTypeOK, SidesAreKept, seen \subseteq Values,
         NEW v \in Values, NEW t \in Nat, Sampled(SampleOf(v), t),
         value' = v, seen' = IF state' = state THEN seen \cup {v} ELSE {},
         torn' = IF state' = state THEN torn ELSE \A phase \in Phase : Carries(evidence', phase)
  PROVE  SidesAreKept' /\ KeepsHysteresis
<1>1. PICK sample \in Phase : sample = SampleOf(v)
  BY NumberIsSample
<1>2. PICK window \in Seq(Phase) : window = Window(sample) /\ Len(window) <= SampleWindow
  BY WindowType
<1>3. /\ evidence' = window
      /\ \/ Hold(window, t) \/ Refresh(window, t) \/ Defer(window, t)
         \/ Establish(window, t) \/ Flip(window, t)
  BY <1>1, <1>2 DEF Sampled
<1>4. /\ Votes(window, "active") \in Nat /\ Votes(window, "inactive") \in Nat
      /\ Votes(window, "active") + Votes(window, "inactive") <= SampleWindow
      /\ Votes(evidence, "active") \in Nat /\ Votes(evidence, "inactive") \in Nat
      /\ SampleWindow \in Nat /\ RequiredSamples \in Nat \ {0}
  BY <1>2, VotesFacts, SamplingAssumption DEF GateTypeOK
<1>5. /\ sample = "active" => Votes(window, "inactive") <= Votes(evidence, "inactive")
      /\ sample = "inactive" => Votes(window, "active") <= Votes(evidence, "active")
  BY <1>2, VotesAgainst DEF Phase
<1>6. v \in Int /\ EnterBelow \in Int /\ LeaveAbove \in Int /\ EnterBelow <= LeaveAbove
      /\ \A x \in seen : x \in Int
  BY ThresholdAssumption
(* In the present state, the votes after the number. *)
<1>7. /\ state = "active" /\ (\A x \in seen \cup {v} : x <= LeaveAbove)
           => Votes(window, "inactive") < RequiredSamples \/ OldSamplesCarry
      /\ state = "inactive" /\ (\A x \in seen \cup {v} : x >= EnterBelow)
           => Votes(window, "active") < RequiredSamples \/ OldSamplesCarry
      /\ state = "unset" /\ (\A x \in seen \cup {v} : x >= EnterBelow)
           => Votes(window, "active") = 0
      /\ state = "unset" /\ (\A x \in seen \cup {v} : x < EnterBelow)
           => Votes(window, "inactive") = 0
  <2>1. sample = IF IF state = "active" THEN v <= LeaveAbove ELSE v < EnterBelow
                 THEN "active" ELSE "inactive"
    BY <1>1 DEF SampleOf
  <2>2. ASSUME state = "active", \A x \in seen \cup {v} : x <= LeaveAbove, ~OldSamplesCarry
        PROVE  Votes(window, "inactive") < RequiredSamples
    <3>1. sample = "active" /\ Votes(evidence, "inactive") < RequiredSamples
      BY <2>1, <2>2 DEF SidesAreKept
    <3>2. QED
      BY <1>4, <1>5, <3>1
  <2>3. ASSUME state = "inactive", \A x \in seen \cup {v} : x >= EnterBelow, ~OldSamplesCarry
        PROVE  Votes(window, "active") < RequiredSamples
    <3>1. Votes(evidence, "active") < RequiredSamples
      BY <2>3 DEF SidesAreKept
    <3>2. sample = "inactive"
      BY <1>6, <2>1, <2>3
    <3>3. QED
      BY <1>4, <1>5, <3>1, <3>2
  <2>4. ASSUME state = "unset", \A x \in seen \cup {v} : x >= EnterBelow
        PROVE  Votes(window, "active") = 0
    <3>1. Votes(evidence, "active") = 0
      BY <2>4 DEF SidesAreKept
    <3>2. sample = "inactive"
      BY <1>6, <2>1, <2>4
    <3>3. QED
      BY <1>4, <1>5, <3>1, <3>2
  <2>5. ASSUME state = "unset", \A x \in seen \cup {v} : x < EnterBelow
        PROVE  Votes(window, "inactive") = 0
    <3>1. Votes(evidence, "inactive") = 0 /\ sample = "active"
      BY <2>1, <2>5 DEF SidesAreKept
    <3>2. QED
      BY <1>4, <1>5, <3>1
  <2>6. QED
    BY <2>2, <2>3, <2>4, <2>5
<1>8. CASE state' = state
  <2>1. seen' = seen \cup {v} /\ evidence' = window
    BY <1>3, <1>8
  <2>2. SidesAreKept'
    BY <1>7, <1>8, <2>1 DEF SidesAreKept, OldSamplesCarry
  <2>3. events' # events => events'[Len(events')].kind = "updated"
    <3>1. CASE Hold(window, t) \/ Defer(window, t) \/ Establish(window, t)
      BY <3>1 DEF Hold, Defer, Establish
    <3>2. CASE Refresh(window, t)
      <4>1. Report("updated", t) /\ "updated" \in Kind
        BY <3>2 DEF Refresh, Kind
      <4>2. QED
        BY <4>1, ReportedLast
    <3>3. CASE Flip(window, t)
      BY <1>8, <3>3 DEF Flip
    <3>4. QED
      BY <1>3, <3>1, <3>2, <3>3
  <2>4. QED
    BY <2>2, <2>3 DEF KeepsHysteresis
<1>9. CASE state' # state
  <2>1. /\ Establish(window, t) \/ Flip(window, t)
        /\ state' = Desired(window) /\ Desired(window) # state
    BY <1>3, <1>9 DEF Hold, Refresh, Defer, Establish, Flip
  <2>2. state' \in Phase /\ Votes(window, state') >= RequiredSamples
    BY <2>1, DesiredType, DesiredIsCarried DEF Carries
  <2>3. evidence' = window
    BY <1>3
  <2>4. SidesAreKept'
    <3>1. CASE state' = "active"
      <4>1. Votes(window, "inactive") < RequiredSamples \/ OldSamplesCarry'
        BY <1>4, <1>9, <2>2, <2>3, <3>1 DEF OldSamplesCarry, Carries, Phase
      <4>2. QED
        BY <2>3, <3>1, <4>1 DEF SidesAreKept
    <3>2. CASE state' = "inactive"
      <4>1. Votes(window, "active") < RequiredSamples \/ OldSamplesCarry'
        BY <1>4, <1>9, <2>2, <2>3, <3>2 DEF OldSamplesCarry, Carries, Phase
      <4>2. QED
        BY <2>3, <3>2, <4>1 DEF SidesAreKept
    <3>3. QED
      BY <2>2, <3>1, <3>2 DEF Phase
  <2>5. ASSUME events' # events
        PROVE  events'[Len(events')].kind = IF state' = "active" THEN "entered" ELSE "left"
    <3>1. Flip(window, t)
      BY <2>1, <2>5 DEF Establish
    <3>2. PICK what \in Kind : what = IF state' = "active" THEN "entered" ELSE "left"
      BY DEF Kind
    <3>3. Report(what, t)
      BY <2>1, <3>1, <3>2 DEF Flip
    <3>4. QED
      BY <3>2, <3>3, ReportedLast
  <2>6. CASE state' = "inactive"
    <3>1. CASE state = "active"
      <4>1. (\E x \in seen \cup {v} : x > LeaveAbove) \/ OldSamplesCarry
        BY <1>4, <1>6, <1>7, <2>2, <2>6, <3>1
      <4>2. QED
        BY <2>4, <2>5, <2>6, <3>1, <4>1 DEF KeepsHysteresis
    <3>2. CASE state = "unset"
      <4>1. \E x \in seen \cup {v} : x >= EnterBelow
        BY <1>4, <1>6, <1>7, <2>2, <2>6, <3>2
      <4>2. QED
        BY <2>4, <2>5, <2>6, <3>2, <4>1 DEF KeepsHysteresis
    <3>3. QED
      BY <1>9, <2>6, <3>1, <3>2 DEF GateTypeOK, Phase
  <2>7. CASE state' = "active"
    <3>1. (\E x \in seen \cup {v} : x < EnterBelow) \/ OldSamplesCarry
      <4>1. CASE state = "inactive"
        BY <1>4, <1>6, <1>7, <2>2, <2>7, <4>1
      <4>2. CASE state = "unset"
        BY <1>4, <1>6, <1>7, <2>2, <2>7, <4>2
      <4>3. QED
        BY <1>9, <2>7, <4>1, <4>2 DEF GateTypeOK, Phase
    <3>2. QED
      BY <2>4, <2>5, <2>7, <3>1 DEF KeepsHysteresis
  <2>8. QED
    BY <2>2, <2>6, <2>7 DEF Phase
<1>10. QED
  BY <1>8, <1>9

LEMMA HysteresisStep ==
  ASSUME HysteresisInvariant, [CoordinatedNext]_coordinatedVars
  PROVE  /\ HysteresisInvariant'
         /\ [kind = "numeric" => KeepsHysteresis]_coordinatedVars
<1>1. RuleInvariantOfAll' /\ RuleInvariantOfAll /\ GateTypeOK /\ Clock \in Nat
  BY AllStep, ClockType
    DEF HysteresisInvariant, RuleInvariantOfAll, CoordinatedInvariant, GateInvariant
<1>2. kind' = kind
  BY DEF CoordinatedNext, coordinatedVars
<1>3. CASE kind # "numeric"
  BY <1>1, <1>2, <1>3 DEF HysteresisInvariant
<1>4. CASE kind = "numeric" /\ CoordinatedNext
  <2>1. PICK step \in 0 .. MaxStep : Numeric(Clock + step)
    BY <1>4 DEF CoordinatedNext, Boolean, Composite, Rapid
  <2>2. PICK t \in Nat : t = Clock + step
    BY <1>1, BoundsAssumption
  <2>3. PICK v \in Values : /\ Sampled(SampleOf(v), t) /\ value' = v
                            /\ seen' = IF state' = state THEN seen \cup {v} ELSE {}
                            /\ torn' = IF state' = state THEN torn
                                       ELSE \A phase \in Phase : Carries(evidence', phase)
    BY <2>1, <2>2 DEF Numeric, ObserveNumber
  <2>4. SidesAreKept /\ seen \subseteq Values
    BY <1>1, <1>4
      DEF HysteresisInvariant, RuleInvariantOfAll, CoordinatedInvariant, RuleTypeOK, NumericTypeOK
  <2>5. SidesAreKept' /\ KeepsHysteresis
    BY <1>1, <2>3, <2>4, NumberKeepsSides
  <2>6. QED
    BY <1>1, <2>5 DEF HysteresisInvariant
<1>5. CASE kind = "numeric" /\ UNCHANGED coordinatedVars
  <2>1. UNCHANGED <<state, evidence, seen, torn>>
    BY <1>5 DEF coordinatedVars, compositeVars, gateVars, ruleVars
  <2>2. SidesAreKept'
    BY <1>5, <2>1 DEF HysteresisInvariant, SidesAreKept, OldSamplesCarry, Votes
  <2>3. QED
    BY <1>1, <1>5, <2>2 DEF HysteresisInvariant
<1>6. QED
  BY <1>3, <1>4, <1>5

(* Whatever N of M is configured, a numeric rule leaves only after a value *)
(* above its upper threshold and enters only after one below the lower,    *)
(* both read since it last changed, unless N is no majority and the        *)
(* samples of that change carried both states (NumericRule::observe,       *)
(* SPEC-EVENT-002).                                                        *)
THEOREM HysteresisIsKept == CoordinatedSpec => NumbersKeepHysteresis
<1>1. CoordinatedInit => HysteresisInvariant
  <2>1. SUFFICES ASSUME CoordinatedInit  PROVE HysteresisInvariant
    OBVIOUS
  <2>2. evidence = <<>> /\ state = "unset"
    BY <2>1 DEF CoordinatedInit, NumericInit, GateInit
  <2>3. ASSUME NEW phase  PROVE Votes(evidence, phase) = 0
    <3>1. {i \in DOMAIN evidence : evidence[i] = phase} = {}
      BY <2>2
    <3>2. QED
      BY <3>1, FS_EmptySet DEF Votes
  <2>4. QED
    BY <2>1, <2>2, <2>3, AllInitial DEF HysteresisInvariant, SidesAreKept
<1>2. HysteresisInvariant /\ [CoordinatedNext]_coordinatedVars => HysteresisInvariant'
  BY HysteresisStep
<1>3. HysteresisInvariant /\ [CoordinatedNext]_coordinatedVars =>
        [kind = "numeric" => KeepsHysteresis]_coordinatedVars
  BY HysteresisStep
<1>4. QED
  BY <1>1, <1>2, <1>3, PTL DEF CoordinatedSpec, NumbersKeepHysteresis

=============================================================================
