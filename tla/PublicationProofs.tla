-------------------------- MODULE PublicationProofs ---------------------------
(***************************************************************************)
(* However many threads publish, whatever fails and however often the      *)
(* daemon restarts, its records are numbered once; and while the threads   *)
(* take turns, every reader sees them in order.                            *)
(***************************************************************************)
EXTENDS Publication, SequenceTheorems, TLAPS

Same(r, q) == r.instance = q.instance /\ r.sequence = q.sequence
Apart(records, r) == \A i \in 1 .. Len(records) : ~Same(records[i], r)
Busy(p, places) == publisher[p].pc \in places

(* What was written or sent has a number that was allocated. *)
Reached(r) == r.instance < instance \/ (r.instance = instance /\ r.sequence <= sequence)
Past(records) == \A i \in 1 .. Len(records) : Reached(records[i])
HistoryIsPast == Past(Contents) /\ Past(notified) /\ Past(routed) /\ Reached(stateFile)

Unwritten == {"allocated"}
Unsent == {"allocated", "appended", "failed"}
Unrouted == {"allocated", "appended", "failed", "notified"}

(* A publisher holds a number that nobody else holds, and that is in no    *)
(* place it has yet to put it.                                             *)
NumbersAreOwn ==
  \A p \in Publishers :
    /\ publisher[p].number <= sequence
    /\ \A q \in Publishers \ {p} :
         Busy(p, Unrouted) /\ Busy(q, Unrouted) => publisher[p].number # publisher[q].number
    /\ Busy(p, Unwritten) => Apart(Contents, RecordOf(p))
    /\ Busy(p, Unsent) => Apart(notified, RecordOf(p))
    /\ Busy(p, Unrouted) => Apart(routed, RecordOf(p))

(* The event writer exists when its buffer holds lines, and once an append *)
(* has succeeded.                                                          *)
WriterIsOpen ==
  ~writerOpen => buffer = <<>> /\ \A p \in Publishers : ~At(p, "appended")

IdentityInvariant ==
  TypeOK /\ HistoryIsPast /\ NumbersAreOwn /\ WriterIsOpen /\ RecordsAreUnique

(* While they take turns, one publisher is at work at most, with the last  *)
(* number there is, and what state.get answers is what it wrote last.      *)
Numbered == {"allocated", "appended", "failed", "notified", "snapshot", "written"}
TurnsAreTaken ==
  /\ \A p, q \in Publishers : ~At(p, "idle") /\ ~At(q, "idle") => p = q
  /\ \A p \in Publishers : Busy(p, Numbered) => publisher[p].number = sequence
  /\ (\A p \in Publishers : ~At(p, "written")) => ~Older(latest, stateFile)

OrderInvariant ==
  IdentityInvariant /\ (~overlapped => TurnsAreTaken /\ DeliveriesAreOrdered)

-----------------------------------------------------------------------------
(* Sequences of records: a stretch of one keeps what holds of all records  *)
(* of it, and one more record keeps what holds of it, too.                 *)
Stretch(s, t) ==
  /\ s \in Seq(Record)
  /\ \E k \in Nat :
       /\ Len(s) + k <= Len(t)
       /\ \A i \in 1 .. Len(s) : s[i] = t[i + k]

LEMMA StretchKeeps ==
  ASSUME NEW t \in Seq(Record), NEW s, Stretch(s, t)
  PROVE  /\ s \in Seq(Record)
         /\ Identified(t) => Identified(s)
         /\ Ordered(t) => Ordered(s)
         /\ Past(t) => Past(s)
         /\ \A r : Apart(t, r) => Apart(s, r)
<1>1. s \in Seq(Record) /\ Len(s) \in Nat /\ Len(t) \in Nat
  BY DEF Stretch
<1>2. PICK k \in Nat : Len(s) + k <= Len(t) /\ \A i \in 1 .. Len(s) : s[i] = t[i + k]
  BY DEF Stretch
<1>3. \A i \in 1 .. Len(s) : i + k \in 1 .. Len(t)
  BY <1>1, <1>2
<1>4. Identified(t) => Identified(s)
  <2>1. SUFFICES ASSUME Identified(t), NEW i \in 1 .. Len(s), NEW j \in 1 .. Len(s),
                        s[i].instance = s[j].instance, s[i].sequence = s[j].sequence
                 PROVE  i = j
    BY DEF Identified
  <2>2. i + k = j + k
    BY <1>2, <1>3, <2>1 DEF Identified
  <2>3. QED
    BY <2>2
<1>5. Ordered(t) => Ordered(s)
  <2>1. SUFFICES ASSUME Ordered(t), NEW i \in 1 .. Len(s), NEW j \in 1 .. Len(s), i < j
                 PROVE  Older(s[i], s[j])
    BY DEF Ordered
  <2>2. i + k < j + k
    BY <2>1
  <2>3. QED
    BY <1>2, <1>3, <2>1, <2>2 DEF Ordered
<1>6. Past(t) => Past(s)
  BY <1>2, <1>3 DEF Past
<1>7. ASSUME NEW r
      PROVE  Apart(t, r) => Apart(s, r)
  BY <1>2, <1>3 DEF Apart
<1>8. QED
  BY <1>1, <1>4, <1>5, <1>6, <1>7

LEMMA AppendedKeeps ==
  ASSUME NEW s \in Seq(Record), NEW r \in Record
  PROVE  /\ Append(s, r) \in Seq(Record)
         /\ Identified(s) /\ Apart(s, r) => Identified(Append(s, r))
         /\ Ordered(s) /\ (\A i \in 1 .. Len(s) : Older(s[i], r)) => Ordered(Append(s, r))
         /\ Past(s) /\ Reached(r) => Past(Append(s, r))
         /\ \A q : Apart(s, q) /\ ~Same(r, q) => Apart(Append(s, r), q)
<1> DEFINE n == Len(s)
           t == Append(s, r)
<1>1. /\ n \in Nat /\ t \in Seq(Record) /\ Len(t) = n + 1 /\ t[n + 1] = r
      /\ \A i \in 1 .. n : t[i] = s[i]
  OBVIOUS
<1>2. \A i \in 1 .. n + 1 : i \in 1 .. n \/ i = n + 1
  BY <1>1
<1> HIDE DEF n, t
<1>3. Identified(s) /\ Apart(s, r) => Identified(t)
  BY <1>1, <1>2 DEF Identified, Apart, Same, n
<1>4. Ordered(s) /\ (\A i \in 1 .. Len(s) : Older(s[i], r)) => Ordered(t)
  <2>1. \A i, j \in 1 .. n + 1 : i < j => i \in 1 .. n /\ (j \in 1 .. n \/ j = n + 1)
    BY <1>1
  <2>2. QED
    BY <1>1, <2>1 DEF Ordered, n
<1>5. Past(s) /\ Reached(r) => Past(t)
  BY <1>1, <1>2 DEF Past, n
<1>6. ASSUME NEW q
      PROVE  Apart(s, q) /\ ~Same(r, q) => Apart(t, q)
  BY <1>1, <1>2 DEF Apart, n
<1>7. QED
  BY <1>1, <1>3, <1>4, <1>5, <1>6 DEF t

LEMMA StretchSelf ==
  ASSUME NEW s \in Seq(Record)
  PROVE  Stretch(s, s)
<1>1. Len(s) \in Nat /\ 0 \in Nat
  OBVIOUS
<1>2. Len(s) + 0 <= Len(s) /\ \A i \in 1 .. Len(s) : s[i] = s[i + 0]
  BY <1>1
<1>3. QED
  BY <1>1, <1>2 DEF Stretch

(* The lines of the log are in two files and a buffer: adding a line to   *)
(* the last, flushed or not, adds it to the whole.                         *)
LEMMA AppendOfLines ==
  ASSUME NEW a \in Seq(Record), NEW b \in Seq(Record), NEW c \in Seq(Record), NEW r \in Record
  PROVE  /\ a \o b \o Append(c, r) = Append(a \o b \o c, r)
         /\ a \o (b \o Append(c, r)) \o <<>> = Append(a \o b \o c, r)
<1> DEFINE one == <<r>>
           cr == Append(c, r)
           abc == a \o b \o c
<1>1. one \in Seq(Record) /\ cr \in Seq(Record) /\ cr = c \o one
  BY AppendIsConcat
<1>2. a \o b \in Seq(Record) /\ abc \in Seq(Record) /\ b \o cr \in Seq(Record)
  BY <1>1, ConcatProperties
<1>3. a \o b \o cr = Append(abc, r)
  <2>1. a \o b \o (c \o one) = abc \o one
    BY <1>1, <1>2, ConcatAssociative
  <2>2. abc \o one = Append(abc, r)
    BY <1>2, AppendIsConcat
  <2>3. QED
    BY <1>1, <2>1, <2>2
<1>4. a \o (b \o cr) \o <<>> = a \o b \o cr
  <2>1. a \o (b \o cr) = a \o b \o cr /\ a \o (b \o cr) \in Seq(Record)
    BY <1>1, <1>2, ConcatAssociative, ConcatProperties
  <2>2. a \o (b \o cr) \o <<>> = a \o (b \o cr)
    BY <2>1, ConcatEmptySeq
  <2>3. QED
    BY <2>1, <2>2
<1>5. QED
  BY <1>3, <1>4

LEMMA StretchOfLines ==
  ASSUME NEW a \in Seq(Record), NEW b \in Seq(Record), NEW c \in Seq(Record)
  PROVE  Stretch(b \o c, a \o b \o c) /\ Stretch(a \o b, a \o b \o c)
<1> DEFINE abc == a \o b \o c
<1>1. a \o b \in Seq(Record) /\ b \o c \in Seq(Record) /\ abc \in Seq(Record)
  BY ConcatProperties
<1>2. /\ Len(a) \in Nat /\ Len(b) \in Nat /\ Len(c) \in Nat
      /\ Len(a \o b) = Len(a) + Len(b) /\ Len(b \o c) = Len(b) + Len(c)
      /\ Len(abc) = Len(a) + Len(b) + Len(c)
  BY <1>1, ConcatProperties
<1>3. Stretch(a \o b, abc)
  <2>1. \A i \in 1 .. Len(a \o b) : (a \o b)[i] = abc[i + 0]
    BY <1>1, <1>2, ConcatProperties
  <2>2. QED
    BY <1>1, <1>2, <2>1 DEF Stretch
<1>4. Stretch(b \o c, abc)
  <2>1. abc = a \o (b \o c)
    BY ConcatAssociative
  <2>2. \A i \in 1 .. Len(b \o c) : (a \o (b \o c))[i + Len(a)] = (b \o c)[i]
    <3>1. SUFFICES ASSUME NEW i \in 1 .. Len(b \o c)
                   PROVE  (a \o (b \o c))[i + Len(a)] = (b \o c)[i]
      OBVIOUS
    <3>2. i + Len(a) \in 1 .. Len(a) + Len(b \o c) /\ i + Len(a) > Len(a)
          /\ (i + Len(a)) - Len(a) = i
      BY <1>2
    <3>3. QED
      BY <1>1, <3>2, ConcatProperties
  <2>3. Len(b \o c) + Len(a) <= Len(abc)
    BY <1>2
  <2>4. QED
    BY <1>1, <1>2, <2>1, <2>2, <2>3 DEF Stretch
<1>5. QED
  BY <1>3, <1>4

-----------------------------------------------------------------------------
(* Every step keeps the types.                                             *)
LEMMA RecordTypes ==
  ASSUME TypeOK, NEW p \in Publishers
  PROVE  /\ RecordOf(p) \in Record
         /\ SnapshotOf(p) \in Snapshot
         /\ OpenLog \in Seq(Record)
         /\ Startup(instance) \in Snapshot
         /\ Contents \in Seq(Record)
<1>1. RecordOf(p) \in Record /\ SnapshotOf(p) \in Snapshot /\ Startup(instance) \in Snapshot
  BY DEF TypeOK, RecordOf, Record, SnapshotOf, Snapshot, Startup
<1>2. OpenLog \in Seq(Record)
  BY DEF TypeOK, OpenLog
<1>3. Contents \in Seq(Record)
  BY ConcatProperties DEF TypeOK, Contents
<1>4. QED
  BY <1>1, <1>2, <1>3

PublisherType == publisher \in [Publishers -> [pc : Place, kind : Kind, number : Nat]]

LEMMA GotoType ==
  ASSUME TypeOK, NEW p \in Publishers, NEW place \in Place, Goto(p, place)
  PROVE  PublisherType'
BY DEF TypeOK, Goto, PublisherType

LEMMA PublicationTypes == TypeOK /\ [Next]_vars => TypeOK'
<1> SUFFICES ASSUME TypeOK, [Next]_vars
             PROVE  TypeOK'
  OBVIOUS
<1>1. ASSUME NEW p \in Publishers, Begin(p)
      PROVE  TypeOK'
  BY <1>1 DEF TypeOK, Begin, Goto, Place, logVars
<1>2. ASSUME NEW p \in Publishers, NEW kind \in Kind, Allocate(p, kind)
      PROVE  TypeOK'
  BY <1>2 DEF TypeOK, Allocate, Place, logVars
<1>3. ASSUME NEW p \in Publishers, AppendEvent(p)
      PROVE  TypeOK'
  <2>1. RecordOf(p) \in Record /\ OpenLog \in Seq(Record) /\ Len(buffer) \in Nat
    BY RecordTypes DEF TypeOK
  <2>2. Append(buffer, RecordOf(p)) \in Seq(Record)
        /\ Len(Append(buffer, RecordOf(p))) = Len(buffer) + 1
    BY <2>1 DEF TypeOK
  <2>3. OpenLog \o Append(buffer, RecordOf(p)) \in Seq(Record)
    BY <2>1, <2>2, ConcatProperties
  <2>4. log' \in Seq(Record) /\ buffer' \in Seq(Record) /\ unflushed' \in 0 .. Len(buffer')
    <3>1. \/ log' = OpenLog \o Append(buffer, RecordOf(p)) /\ buffer' = <<>> /\ unflushed' = 0
          \/ log' = OpenLog /\ buffer' = Append(buffer, RecordOf(p)) /\ unflushed' = unflushed + 1
      BY <1>3 DEF AppendEvent
    <3>2. <<>> \in Seq(Record) /\ Len(<<>>) = 0 /\ unflushed \in 0 .. Len(buffer)
      BY DEF TypeOK
    <3>3. CASE /\ log' = OpenLog \o Append(buffer, RecordOf(p)) /\ buffer' = <<>>
               /\ unflushed' = 0
      <4>1. Len(buffer') = 0
        BY <3>2, <3>3
      <4>2. QED
        BY <2>3, <3>2, <3>3, <4>1
    <3>4. CASE /\ log' = OpenLog /\ buffer' = Append(buffer, RecordOf(p))
               /\ unflushed' = unflushed + 1
      BY <2>1, <2>2, <3>2, <3>4
    <3>5. QED
      BY <3>1, <3>3, <3>4
  <2>5. PublisherType'
    BY <1>3, GotoType DEF AppendEvent, Place
  <2>6. rotated' \in Seq(Record)
    BY <1>3 DEF TypeOK, AppendEvent
  <2>7. QED
    BY <1>3, <2>4, <2>5, <2>6 DEF TypeOK, AppendEvent, PublisherType
<1>4. ASSUME NEW p \in Publishers, AppendFails(p)
      PROVE  TypeOK'
  <2>1. PublisherType'
    BY <1>4, GotoType DEF AppendFails, Place
  <2>2. log' \in Seq(Record) /\ rotated' \in Seq(Record)
    <3>1. log \in Seq(Record) /\ rotated \in Seq(Record) /\ <<>> \in Seq(Record)
      BY DEF TypeOK
    <3>2. (log' = log /\ rotated' = rotated) \/ (log' = <<>> /\ rotated' = log)
      BY <1>4 DEF AppendFails
    <3>3. QED
      BY <3>1, <3>2
  <2>3. QED
    BY <1>4, <2>1, <2>2 DEF TypeOK, AppendFails, PublisherType
<1>5. ASSUME NEW p \in Publishers, FlushFails(p)
      PROVE  TypeOK'
  <2>1. RecordOf(p) \in Record /\ OpenLog \in Seq(Record) /\ Len(buffer) \in Nat
    BY RecordTypes DEF TypeOK
  <2>2. buffer' \in Seq(Record) /\ unflushed' \in 0 .. Len(buffer')
    BY <1>5, <2>1 DEF TypeOK, FlushFails
  <2>3. PublisherType'
    BY <1>5, GotoType DEF FlushFails, Place
  <2>4. rotated' \in Seq(Record) /\ log' \in Seq(Record)
    BY <1>5, <2>1 DEF TypeOK, FlushFails
  <2>5. QED
    BY <1>5, <2>2, <2>3, <2>4 DEF TypeOK, FlushFails, PublisherType
<1>6. ASSUME NEW p \in Publishers, Notify(p)
      PROVE  TypeOK'
  <2>1. notified' \in Seq(Record)
    BY <1>6, RecordTypes DEF TypeOK, Notify
  <2>2. PublisherType'
    BY <1>6, GotoType DEF Notify, Place
  <2>3. QED
    BY <1>6, <2>1, <2>2 DEF TypeOK, Notify, PublisherType, logVars
<1>7. ASSUME NEW p \in Publishers, ContextLost(p)
      PROVE  TypeOK'
  BY <1>7 DEF TypeOK, ContextLost, Goto, Place, logVars
<1>8. ASSUME NEW p \in Publishers, RouteEvent(p)
      PROVE  TypeOK'
  <2>1. routed' \in Seq(Record)
    BY <1>8, RecordTypes DEF TypeOK, RouteEvent
  <2>2. PublisherType'
    BY <1>8, GotoType DEF RouteEvent, Place
  <2>3. QED
    BY <1>8, <2>1, <2>2 DEF TypeOK, RouteEvent, PublisherType, logVars
<1>9. ASSUME NEW p \in Publishers, TakeSnapshot(p)
      PROVE  TypeOK'
  BY <1>9 DEF TypeOK, TakeSnapshot, Place, logVars
<1>10. ASSUME NEW p \in Publishers, WriteState(p)
       PROVE  TypeOK'
  BY <1>10, RecordTypes DEF TypeOK, WriteState, Goto, Place, logVars
<1>11. ASSUME NEW p \in Publishers, SetLatest(p)
       PROVE  TypeOK'
  BY <1>11, RecordTypes DEF TypeOK, SetLatest, Goto, Place, logVars
<1>12. CASE Restart
  <2>1. buffer' \in Seq(Record) /\ unflushed' \in 0 .. Len(buffer')
    BY <1>12 DEF Restart
  <2>2. latest' \in Snapshot /\ instance' \in Nat
    BY <1>12 DEF TypeOK, Restart, Startup, Snapshot
  <2>3. publisher' \in [Publishers -> [pc : Place, kind : Kind, number : Nat]]
    BY <1>12 DEF Restart, Resting, Place, Kind
  <2>4. QED
    BY <1>12, <2>1, <2>2, <2>3 DEF TypeOK, Restart
<1>13. CASE UNCHANGED vars
  BY <1>13 DEF TypeOK, vars, logVars
<1>14. QED
  BY <1>1, <1>2, <1>3, <1>4, <1>5, <1>6, <1>7, <1>8, <1>9, <1>10, <1>11, <1>12, <1>13
     DEF Next, LiveStep, ReplayStep, Publishing

-----------------------------------------------------------------------------
(* What the steps do to the lines of the log: an append adds one line to a *)
(* stretch of them, and a rotation or a crash keeps a stretch.             *)
LEMMA LinesAfterOpen ==
  ASSUME TypeOK, rotated' = IF Rotates THEN log ELSE rotated
  PROVE  /\ rotated' \in Seq(Record) /\ OpenLog \in Seq(Record) /\ buffer \in Seq(Record)
         /\ Stretch(rotated' \o OpenLog \o buffer, Contents)
<1>1. rotated \in Seq(Record) /\ log \in Seq(Record) /\ buffer \in Seq(Record)
  BY DEF TypeOK
<1>2. CASE Rotates
  <2>1. rotated' = log /\ OpenLog = <<>>
    BY <1>2 DEF OpenLog
  <2>2. rotated' \o OpenLog \o buffer = log \o buffer
    BY <1>1, <2>1, ConcatEmptySeq
  <2>3. Stretch(log \o buffer, rotated \o log \o buffer)
    BY <1>1, StretchOfLines
  <2>4. <<>> \in Seq(Record)
    OBVIOUS
  <2>5. QED
    BY <1>1, <2>1, <2>2, <2>3, <2>4 DEF Contents
<1>3. CASE ~Rotates
  <2>1. rotated' = rotated /\ OpenLog = log
    BY <1>3 DEF OpenLog
  <2>2. Contents \in Seq(Record)
    BY <1>1, ConcatProperties DEF Contents
  <2>3. QED
    BY <1>1, <2>1, <2>2, StretchSelf DEF Contents
<1>4. QED
  BY <1>2, <1>3

LEMMA LinesAfterAppend ==
  ASSUME TypeOK, NEW p \in Publishers, AppendEvent(p) \/ FlushFails(p)
  PROVE  \E old : Stretch(old, Contents) /\ Contents' = Append(old, RecordOf(p))
<1> DEFINE old == rotated' \o OpenLog \o buffer
           r == RecordOf(p)
<1>1. rotated' = IF Rotates THEN log ELSE rotated
  BY DEF AppendEvent, FlushFails
<1>2. /\ rotated' \in Seq(Record) /\ OpenLog \in Seq(Record) /\ buffer \in Seq(Record)
      /\ Stretch(old, Contents)
  BY <1>1, LinesAfterOpen
<1>3. r \in Record
  BY RecordTypes
<1>4. \/ log' = OpenLog \o Append(buffer, r) /\ buffer' = <<>>
      \/ log' = OpenLog /\ buffer' = Append(buffer, r)
  BY DEF AppendEvent, FlushFails
<1>5. Contents' = Append(old, r)
  <2> HIDE DEF r
  <2>0. /\ rotated' \o OpenLog \o Append(buffer, r) = Append(old, r)
        /\ rotated' \o (OpenLog \o Append(buffer, r)) \o <<>> = Append(old, r)
    BY <1>2, <1>3, AppendOfLines
  <2>1. CASE log' = OpenLog \o Append(buffer, r) /\ buffer' = <<>>
    BY <2>0, <2>1 DEF Contents
  <2>2. CASE log' = OpenLog /\ buffer' = Append(buffer, r)
    BY <2>0, <2>2 DEF Contents
  <2>3. QED
    BY <1>4, <2>1, <2>2
<1>6. QED
  BY <1>2, <1>5

LEMMA LinesAfterFailure ==
  ASSUME TypeOK, NEW p \in Publishers, AppendFails(p)
  PROVE  Stretch(Contents', Contents)
<1>1. CASE UNCHANGED <<log, rotated>>
  BY <1>1, RecordTypes, StretchSelf DEF AppendFails, Contents
<1>2. CASE Rotates /\ log' = <<>> /\ rotated' = log
  <2>1. Stretch(rotated' \o OpenLog \o buffer, Contents)
    BY <1>2, LinesAfterOpen
  <2>2. OpenLog = log' /\ buffer' = buffer
    BY <1>2 DEF OpenLog, AppendFails
  <2>3. QED
    BY <2>1, <2>2 DEF Contents
<1>3. QED
  BY <1>1, <1>2 DEF AppendFails

LEMMA LinesAfterRestart ==
  ASSUME TypeOK, Restart
  PROVE  Stretch(Contents', Contents)
<1>1. rotated \in Seq(Record) /\ log \in Seq(Record) /\ buffer \in Seq(Record)
  BY DEF TypeOK
<1>2. Contents' = rotated \o log
  <2>1. rotated \o log \in Seq(Record) /\ Contents' = rotated \o log \o <<>>
    BY <1>1, ConcatProperties DEF Restart, Contents
  <2>2. QED
    BY <2>1, ConcatEmptySeq
<1>3. Stretch(rotated \o log, rotated \o log \o buffer)
  BY <1>1, StretchOfLines
<1>4. QED
  BY <1>2, <1>3 DEF Contents

-----------------------------------------------------------------------------
(* A step of publisher p that allocates no number: it goes on with the one *)
(* it holds, or lets it go, and adds the record of that number at most to  *)
(* the places it still owed it to.                                         *)
Puts(p, places, before, after) ==
  \/ Stretch(after, before)
  \/ /\ Busy(p, places) /\ ~Busy(p, places)'
     /\ \E old : Stretch(old, before) /\ after = Append(old, RecordOf(p))

Continues(p) ==
  /\ instance' = instance /\ sequence' = sequence
  /\ \A q \in Publishers \ {p} : publisher'[q] = publisher[q]
  /\ publisher'[p].number <= sequence
  /\ Busy(p, Unrouted)' => Busy(p, Unrouted) /\ publisher'[p].number = publisher[p].number
  /\ Busy(p, Unwritten)' => Busy(p, Unwritten)
  /\ Busy(p, Unsent)' => Busy(p, Unsent)
  /\ Puts(p, Unwritten, Contents, Contents')
  /\ Puts(p, Unsent, notified, notified')
  /\ Puts(p, Unrouted, routed, routed')

LEMMA PutKeeps ==
  ASSUME TypeOK, NEW p \in Publishers, NEW places, NEW before \in Seq(Record), NEW after,
         Puts(p, places, before, after), publisher[p].number <= sequence,
         Past(before), Busy(p, places) => Apart(before, RecordOf(p))
  PROVE  /\ Past(after)
         /\ Identified(before) => Identified(after)
         /\ Ordered(before) /\ (Busy(p, places) => publisher[p].number = sequence)
              => Ordered(after)
         /\ \A r : Apart(before, r) /\ (Busy(p, places) => ~Same(RecordOf(p), r))
              => Apart(after, r)
         /\ Busy(p, places)' => \A r : Apart(before, r) => Apart(after, r)
<1>1. CASE Stretch(after, before)
  BY <1>1, StretchKeeps
<1>2. CASE /\ Busy(p, places) /\ ~Busy(p, places)'
           /\ \E old : Stretch(old, before) /\ after = Append(old, RecordOf(p))
  <2>1. PICK old : Stretch(old, before) /\ after = Append(old, RecordOf(p))
    BY <1>2
  <2>2. /\ old \in Seq(Record) /\ Past(old) /\ Apart(old, RecordOf(p))
        /\ Identified(before) => Identified(old)
        /\ Ordered(before) => Ordered(old)
        /\ \A r : Apart(before, r) => Apart(old, r)
    BY <1>2, <2>1, StretchKeeps
  <2>3. RecordOf(p) \in Record
    BY RecordTypes
  <2>4. Reached(RecordOf(p))
    BY DEF Reached, RecordOf
  <2>5. publisher[p].number = sequence => \A i \in 1 .. Len(old) : Older(old[i], RecordOf(p))
    <3>1. SUFFICES ASSUME publisher[p].number = sequence, NEW i \in 1 .. Len(old)
                   PROVE  Older(old[i], RecordOf(p))
      OBVIOUS
    <3>2. Reached(old[i]) /\ ~Same(old[i], RecordOf(p)) /\ old[i] \in Record
      BY <2>2, ElementOfSeq DEF Past, Apart
    <3>3. QED
      BY <3>1, <3>2 DEF TypeOK, Older, Reached, Same, RecordOf, Record
  <2>6. QED
    BY <1>2, <2>1, <2>2, <2>3, <2>4, <2>5, AppendedKeeps
<1>3. QED
  BY <1>1, <1>2 DEF Puts

LEMMA ContinuesKeeps ==
  ASSUME IdentityInvariant, NEW p \in Publishers, Continues(p), TypeOK'
  PROVE  /\ (Past(Contents) /\ Past(notified) /\ Past(routed))'
         /\ NumbersAreOwn'
         /\ RecordsAreUnique'
         /\ /\ DeliveriesAreOrdered
            /\ Busy(p, Unrouted) => publisher[p].number = sequence
            => DeliveriesAreOrdered'
<1>1. /\ Contents \in Seq(Record) /\ notified \in Seq(Record) /\ routed \in Seq(Record)
  BY RecordTypes DEF IdentityInvariant, TypeOK
<1>2. /\ publisher[p].number <= sequence
      /\ Busy(p, Unwritten) => Busy(p, Unsent)
      /\ Busy(p, Unsent) => Busy(p, Unrouted)
      /\ Busy(p, Unwritten) => Apart(Contents, RecordOf(p))
      /\ Busy(p, Unsent) => Apart(notified, RecordOf(p))
      /\ Busy(p, Unrouted) => Apart(routed, RecordOf(p))
  BY DEF IdentityInvariant, NumbersAreOwn, Busy, Unwritten, Unsent, Unrouted
<1>3. /\ Past(Contents')
      /\ Identified(Contents) => Identified(Contents')
      /\ Ordered(Contents) /\ (Busy(p, Unwritten) => publisher[p].number = sequence)
           => Ordered(Contents')
      /\ \A r : Apart(Contents, r) /\ (Busy(p, Unwritten) => ~Same(RecordOf(p), r))
           => Apart(Contents', r)
      /\ Busy(p, Unwritten)' => \A r : Apart(Contents, r) => Apart(Contents', r)
  BY <1>1, <1>2, PutKeeps DEF IdentityInvariant, Continues, HistoryIsPast
<1>4. /\ Past(notified')
      /\ Identified(notified) => Identified(notified')
      /\ Ordered(notified) /\ (Busy(p, Unsent) => publisher[p].number = sequence)
           => Ordered(notified')
      /\ \A r : Apart(notified, r) /\ (Busy(p, Unsent) => ~Same(RecordOf(p), r))
           => Apart(notified', r)
      /\ Busy(p, Unsent)' => \A r : Apart(notified, r) => Apart(notified', r)
  BY <1>1, <1>2, PutKeeps DEF IdentityInvariant, Continues, HistoryIsPast
<1>5. /\ Past(routed')
      /\ Ordered(routed) /\ (Busy(p, Unrouted) => publisher[p].number = sequence)
           => Ordered(routed')
      /\ \A r : Apart(routed, r) /\ (Busy(p, Unrouted) => ~Same(RecordOf(p), r))
           => Apart(routed', r)
      /\ Busy(p, Unrouted)' => \A r : Apart(routed, r) => Apart(routed', r)
  BY <1>1, <1>2, PutKeeps DEF IdentityInvariant, Continues, HistoryIsPast
<1>6. (Past(Contents) /\ Past(notified) /\ Past(routed))'
  BY <1>3, <1>4, <1>5 DEF Continues, Past, Reached
<1>7. RecordsAreUnique'
  BY <1>3, <1>4 DEF IdentityInvariant, RecordsAreUnique, Identified
<1>8. DeliveriesAreOrdered /\ (Busy(p, Unrouted) => publisher[p].number = sequence)
        => DeliveriesAreOrdered'
  BY <1>2, <1>3, <1>4, <1>5 DEF DeliveriesAreOrdered, Ordered
<1>9. \A q \in Publishers \ {p} :
        /\ publisher'[q] = publisher[q] /\ RecordOf(q)' = RecordOf(q)
        /\ Busy(q, Unrouted) /\ Busy(p, Unrouted) => ~Same(RecordOf(p), RecordOf(q))
  BY DEF IdentityInvariant, NumbersAreOwn, Continues, RecordOf, Same
<1>10. ASSUME NEW q \in Publishers
       PROVE  /\ publisher'[q].number <= sequence'
              /\ (Busy(q, Unwritten) => Apart(Contents, RecordOf(q)))'
              /\ (Busy(q, Unsent) => Apart(notified, RecordOf(q)))'
              /\ (Busy(q, Unrouted) => Apart(routed, RecordOf(q)))'
  <2>1. CASE q = p
    <3>1. Busy(p, Unrouted)' => /\ RecordOf(p)'.instance = RecordOf(p).instance
                                /\ RecordOf(p)'.sequence = RecordOf(p).sequence
      BY DEF Continues, RecordOf
    <3>2. Busy(p, Unwritten)' => Busy(p, Unrouted)' /\ Apart(Contents', RecordOf(p))
      BY <1>2, <1>3 DEF Continues, Busy, Unwritten, Unrouted
    <3>3. Busy(p, Unsent)' => Busy(p, Unrouted)' /\ Apart(notified', RecordOf(p))
      BY <1>2, <1>4 DEF Continues, Busy, Unsent, Unrouted
    <3>4. Busy(p, Unrouted)' => Apart(routed', RecordOf(p))
      BY <1>2, <1>5 DEF Continues
    <3>5. QED
      BY <2>1, <3>1, <3>2, <3>3, <3>4 DEF Continues, Apart, Same
  <2>2. CASE q # p
    <3>1. Busy(q, Unwritten) => Busy(q, Unrouted)
      BY DEF Busy, Unwritten, Unrouted
    <3>2. Busy(q, Unsent) => Busy(q, Unrouted)
      BY DEF Busy, Unsent, Unrouted
    <3>3. /\ publisher'[q] = publisher[q] /\ RecordOf(q)' = RecordOf(q)
          /\ publisher[q].number <= sequence
          /\ Busy(q, Unwritten) => Apart(Contents, RecordOf(q))
          /\ Busy(q, Unsent) => Apart(notified, RecordOf(q))
          /\ Busy(q, Unrouted) => Apart(routed, RecordOf(q))
          /\ Busy(q, Unrouted) /\ Busy(p, Unrouted) => ~Same(RecordOf(p), RecordOf(q))
      BY <1>9, <2>2 DEF IdentityInvariant, NumbersAreOwn
    <3>4. Busy(q, Unwritten) => Apart(Contents', RecordOf(q))
      BY <1>2, <1>3, <3>1, <3>3
    <3>5. Busy(q, Unsent) => Apart(notified', RecordOf(q))
      BY <1>2, <1>4, <3>2, <3>3
    <3>6. Busy(q, Unrouted) => Apart(routed', RecordOf(q))
      BY <1>5, <3>3
    <3>7. QED
      BY <3>3, <3>4, <3>5, <3>6 DEF Continues, Busy, Apart, Same
  <2>3. QED
    BY <2>1, <2>2
<1>11. ASSUME NEW q \in Publishers, NEW o \in Publishers \ {q}
       PROVE  (Busy(q, Unrouted) /\ Busy(o, Unrouted)
                 => publisher[q].number # publisher[o].number)'
  BY <1>9, <1>11 DEF IdentityInvariant, NumbersAreOwn, Continues, Busy
<1>12. NumbersAreOwn'
  BY <1>10, <1>11 DEF NumbersAreOwn
<1>13. QED
  BY <1>6, <1>7, <1>8, <1>12

(* Moves that put no record anywhere. *)
LEMMA QuietContinues ==
  ASSUME IdentityInvariant, NEW p \in Publishers,
         Begin(p) \/ ContextLost(p) \/ TakeSnapshot(p) \/ WriteState(p) \/ SetLatest(p)
  PROVE  Continues(p)
<1>1. /\ instance' = instance /\ sequence' = sequence
      /\ Contents' = Contents /\ notified' = notified /\ routed' = routed
  BY DEF Begin, ContextLost, TakeSnapshot, WriteState, SetLatest, logVars, Contents
<1>2. /\ Stretch(Contents', Contents) /\ Stretch(notified', notified)
      /\ Stretch(routed', routed)
  BY <1>1, RecordTypes, StretchSelf DEF IdentityInvariant, TypeOK
<1>3. publisher'[p].number <= sequence
  BY DEF IdentityInvariant, TypeOK, NumbersAreOwn, Begin, ContextLost, TakeSnapshot, WriteState,
         SetLatest, Goto
<1>4. publisher'[p].pc \notin Unrouted
  BY DEF IdentityInvariant, TypeOK, Begin, ContextLost, TakeSnapshot, WriteState,
         SetLatest, Goto, Unrouted
<1>5. \A q \in Publishers \ {p} : publisher'[q] = publisher[q]
  BY DEF IdentityInvariant, TypeOK, Begin, ContextLost, TakeSnapshot, WriteState, SetLatest, Goto
<1>6. ~Busy(p, Unrouted)' /\ ~Busy(p, Unsent)' /\ ~Busy(p, Unwritten)'
  BY <1>4 DEF Busy, Unrouted, Unsent, Unwritten
<1>7. QED
  BY <1>1, <1>2, <1>3, <1>5, <1>6 DEF Continues, Puts

(* append_event, which has the record written at most once. *)
LEMMA AppendContinues ==
  ASSUME IdentityInvariant, NEW p \in Publishers,
         AppendEvent(p) \/ AppendFails(p) \/ FlushFails(p)
  PROVE  Continues(p)
<1>1. /\ instance' = instance /\ sequence' = sequence
      /\ notified' = notified /\ routed' = routed
  BY DEF AppendEvent, AppendFails, FlushFails
<1>2. Stretch(notified', notified) /\ Stretch(routed', routed)
  BY <1>1, StretchSelf DEF IdentityInvariant, TypeOK
<1>3. /\ publisher[p].pc = "allocated"
      /\ publisher' = [publisher EXCEPT ![p].pc = "appended"]
         \/ publisher' = [publisher EXCEPT ![p].pc = "failed"]
  BY DEF AppendEvent, AppendFails, FlushFails, Goto, At
<1>4. /\ publisher'[p].number = publisher[p].number
      /\ publisher'[p].pc \in {"appended", "failed"}
      /\ \A q \in Publishers \ {p} : publisher'[q] = publisher[q]
  BY <1>3 DEF IdentityInvariant, TypeOK
<1>5. Busy(p, Unwritten) /\ Busy(p, Unsent) /\ Busy(p, Unrouted) /\ ~Busy(p, Unwritten)'
  BY <1>3, <1>4 DEF Busy, Unrouted, Unsent, Unwritten
<1>6. Puts(p, Unwritten, Contents, Contents')
  <2>1. CASE AppendFails(p)
    BY <2>1, LinesAfterFailure DEF IdentityInvariant, Puts
  <2>2. CASE AppendEvent(p) \/ FlushFails(p)
    BY <1>5, <2>2, LinesAfterAppend DEF IdentityInvariant, Puts
  <2>3. QED
    BY <2>1, <2>2
<1>7. publisher'[p].number <= sequence
  BY <1>4 DEF IdentityInvariant, NumbersAreOwn
<1>8. QED
  BY <1>1, <1>2, <1>4, <1>5, <1>6, <1>7 DEF Continues, Puts

LEMMA SendContinues ==
  ASSUME IdentityInvariant, NEW p \in Publishers, Notify(p) \/ RouteEvent(p)
  PROVE  Continues(p)
<1>1. instance' = instance /\ sequence' = sequence /\ Contents' = Contents
  BY DEF Notify, RouteEvent, logVars, Contents
<1>2. /\ Contents \in Seq(Record) /\ notified \in Seq(Record) /\ routed \in Seq(Record)
  BY RecordTypes DEF IdentityInvariant, TypeOK
<1>3. /\ Stretch(Contents', Contents) /\ Stretch(notified, notified) /\ Stretch(routed, routed)
  BY <1>1, <1>2, StretchSelf
<1>4. /\ publisher'[p].number = publisher[p].number
      /\ \A q \in Publishers \ {p} : publisher'[q] = publisher[q]
  BY DEF IdentityInvariant, TypeOK, Notify, RouteEvent, Goto
<1>5. publisher'[p].number <= sequence
  BY <1>4 DEF IdentityInvariant, NumbersAreOwn
<1>6. CASE Notify(p)
  <2>1. Busy(p, Unsent) /\ Busy(p, Unrouted) /\ ~Busy(p, Unsent)' /\ ~Busy(p, Unwritten)'
    BY <1>6 DEF IdentityInvariant, TypeOK, Notify, Goto, At, Busy, Unrouted, Unsent, Unwritten
  <2>2. notified' = Append(notified, RecordOf(p)) /\ routed' = routed
    BY <1>6 DEF Notify
  <2>3. QED
    BY <1>1, <1>3, <1>4, <1>5, <2>1, <2>2 DEF Continues, Puts
<1>7. CASE RouteEvent(p)
  <2>1. Busy(p, Unrouted) /\ ~Busy(p, Unrouted)' /\ ~Busy(p, Unsent)' /\ ~Busy(p, Unwritten)'
    BY <1>7 DEF IdentityInvariant, TypeOK, RouteEvent, Goto, At, Busy, Unrouted, Unsent, Unwritten
  <2>2. routed' = Append(routed, RecordOf(p)) /\ notified' = notified
    BY <1>7 DEF RouteEvent
  <2>3. QED
    BY <1>1, <1>3, <1>4, <1>5, <2>1, <2>2 DEF Continues, Puts
<1>8. QED
  BY <1>6, <1>7

LEMMA AllocateKeeps ==
  ASSUME IdentityInvariant, NEW p \in Publishers, NEW kind \in Kind, Allocate(p, kind)
  PROVE  HistoryIsPast' /\ NumbersAreOwn' /\ RecordsAreUnique'
<1>1. /\ instance' = instance /\ sequence' = sequence + 1 /\ sequence \in Nat
      /\ Contents' = Contents /\ notified' = notified /\ routed' = routed
      /\ stateFile' = stateFile
      /\ publisher'[p] = [pc |-> "allocated", kind |-> kind, number |-> sequence + 1]
      /\ \A q \in Publishers \ {p} : publisher'[q] = publisher[q] /\ publisher[q].number \in Nat
  BY DEF IdentityInvariant, TypeOK, Allocate, logVars, Contents
<1>2. /\ Contents \in Seq(Record) /\ notified \in Seq(Record) /\ routed \in Seq(Record)
      /\ stateFile \in Snapshot
  BY RecordTypes DEF IdentityInvariant, TypeOK
<1>3. \A r : Reached(r) /\ r.sequence \in Nat => Reached(r)'
  BY <1>1 DEF Reached
<1>4. \A records \in Seq(Record) :
        Past(records) => /\ \A i \in 1 .. Len(records) : Reached(records[i])'
                         /\ Apart(records, RecordOf(p)')
  <2>1. SUFFICES ASSUME NEW records \in Seq(Record), Past(records), NEW i \in 1 .. Len(records)
                 PROVE  Reached(records[i])' /\ ~Same(records[i], RecordOf(p)')
    BY DEF Apart
  <2>2. records[i] \in Record /\ Reached(records[i])
    BY <2>1, ElementOfSeq DEF Past
  <2>3. QED
    BY <1>1, <1>3, <2>2 DEF Record, Reached, Same, RecordOf
<1>5. HistoryIsPast'
  BY <1>1, <1>2, <1>3, <1>4 DEF IdentityInvariant, HistoryIsPast, Past, Snapshot
<1>6. RecordsAreUnique'
  BY <1>1 DEF IdentityInvariant, RecordsAreUnique, Identified
<1>7. Apart(Contents, RecordOf(p))' /\ Apart(notified, RecordOf(p))' /\ Apart(routed, RecordOf(p))'
  BY <1>1, <1>2, <1>4 DEF IdentityInvariant, HistoryIsPast, Apart
<1>8. ASSUME NEW q \in Publishers \ {p}
      PROVE  /\ publisher'[q] = publisher[q] /\ RecordOf(q)' = RecordOf(q)
             /\ publisher'[q].number <= sequence
             /\ Apart(Contents, RecordOf(q))' = Apart(Contents, RecordOf(q))
             /\ Apart(notified, RecordOf(q))' = Apart(notified, RecordOf(q))
             /\ Apart(routed, RecordOf(q))' = Apart(routed, RecordOf(q))
  BY <1>1, <1>8 DEF IdentityInvariant, NumbersAreOwn, RecordOf, Apart
<1>9. NumbersAreOwn'
  <2>1. SUFFICES ASSUME NEW q \in Publishers
                 PROVE  /\ publisher'[q].number <= sequence'
                        /\ \A o \in Publishers \ {q} :
                             Busy(q, Unrouted)' /\ Busy(o, Unrouted)'
                               => publisher'[q].number # publisher'[o].number
                        /\ Busy(q, Unwritten)' => Apart(Contents, RecordOf(q))'
                        /\ Busy(q, Unsent)' => Apart(notified, RecordOf(q))'
                        /\ Busy(q, Unrouted)' => Apart(routed, RecordOf(q))'
    BY DEF NumbersAreOwn
  <2>2. CASE q = p
    BY <1>1, <1>7, <1>8, <2>2
  <2>3. CASE q # p
    <3>1. publisher'[q].number <= sequence'
      BY <1>1, <1>8, <2>3
    <3>2. \A o \in Publishers \ {q} :
            Busy(q, Unrouted)' /\ Busy(o, Unrouted)'
              => publisher'[q].number # publisher'[o].number
      BY <1>1, <1>8, <2>3 DEF IdentityInvariant, NumbersAreOwn, Busy
    <3>3. QED
      BY <1>8, <2>3, <3>1, <3>2 DEF IdentityInvariant, NumbersAreOwn, Busy
  <2>4. QED
    BY <2>2, <2>3
<1>10. QED
  BY <1>5, <1>6, <1>9

LEMMA RestartKeeps ==
  ASSUME IdentityInvariant, Restart
  PROVE  HistoryIsPast' /\ NumbersAreOwn' /\ RecordsAreUnique'
<1>1. Stretch(Contents', Contents) /\ Contents \in Seq(Record)
  <2>1. Contents \in Seq(Record)
    BY ConcatProperties DEF IdentityInvariant, TypeOK, Contents
  <2>2. QED
    BY <2>1, LinesAfterRestart DEF IdentityInvariant
<1>2. /\ notified' = notified /\ routed' = routed /\ stateFile' = stateFile
      /\ instance' = instance + 1 /\ instance \in Nat /\ sequence' = 0
      /\ \A p \in Publishers : publisher'[p] = Resting
  BY DEF IdentityInvariant, TypeOK, Restart
<1>3. \A r : Reached(r) /\ r.instance \in Nat => Reached(r)'
  BY <1>2 DEF Reached
<1>4. \A records \in Seq(Record) :
        Past(records) => \A i \in 1 .. Len(records) : Reached(records[i])'
  <2>1. SUFFICES ASSUME NEW records \in Seq(Record), Past(records), NEW i \in 1 .. Len(records)
                 PROVE  Reached(records[i])'
    OBVIOUS
  <2>2. records[i] \in Record /\ Reached(records[i])
    BY <2>1, ElementOfSeq DEF Past
  <2>3. QED
    BY <1>3, <2>2 DEF Record
<1>5. /\ Contents' \in Seq(Record) /\ Past(Contents')
      /\ Identified(Contents')
  BY <1>1, StretchKeeps DEF IdentityInvariant, HistoryIsPast, RecordsAreUnique
<1>6. HistoryIsPast'
  BY <1>2, <1>3, <1>4, <1>5 DEF IdentityInvariant, HistoryIsPast, Past, TypeOK, Snapshot
<1>7. RecordsAreUnique'
  BY <1>2, <1>5 DEF IdentityInvariant, RecordsAreUnique, Identified
<1>8. NumbersAreOwn'
  BY <1>2 DEF NumbersAreOwn, Busy, Resting, Unwritten, Unsent, Unrouted
<1>9. QED
  BY <1>6, <1>7, <1>8

(* The inductive step of the identity of records. *)
LEMMA WriterStep ==
  ASSUME IdentityInvariant, [Next]_vars
  PROVE  WriterIsOpen'
<1> USE DEF IdentityInvariant, TypeOK, WriterIsOpen, At
<1>1. ASSUME NEW p \in Publishers, Begin(p) \/ ContextLost(p) \/ TakeSnapshot(p) \/ WriteState(p)
                                   \/ SetLatest(p) \/ Notify(p) \/ RouteEvent(p)
      PROVE  WriterIsOpen'
  <2>1. /\ writerOpen' = writerOpen /\ buffer' = buffer
        /\ publisher'[p].pc # "appended"
        /\ \A q \in Publishers \ {p} : publisher'[q] = publisher[q]
    BY <1>1 DEF Begin, ContextLost, TakeSnapshot, WriteState, SetLatest, Notify, RouteEvent,
                logVars, Goto
  <2>2. QED
    BY <2>1
<1>2. ASSUME NEW p \in Publishers, NEW kind \in Kind, Allocate(p, kind)
      PROVE  WriterIsOpen'
  BY <1>2 DEF Allocate, logVars
<1>3. ASSUME NEW p \in Publishers, AppendEvent(p) \/ FlushFails(p)
      PROVE  WriterIsOpen'
  BY <1>3 DEF AppendEvent, FlushFails
<1>4. ASSUME NEW p \in Publishers, AppendFails(p)
      PROVE  WriterIsOpen'
  BY <1>4 DEF AppendFails, Goto
<1>5. CASE Restart
  BY <1>5 DEF Restart, Resting
<1>6. CASE UNCHANGED vars
  BY <1>6 DEF vars, logVars
<1>7. QED
  BY <1>1, <1>2, <1>3, <1>4, <1>5, <1>6 DEF Next, LiveStep, ReplayStep, Publishing

LEMMA IdentityStep ==
  ASSUME IdentityInvariant, [Next]_vars
  PROVE  IdentityInvariant'
<1>1. TypeOK'
  BY PublicationTypes DEF IdentityInvariant
<1>2. WriterIsOpen'
  BY WriterStep
<1>3. ASSUME NEW p \in Publishers, Continues(p),
             stateFile' = stateFile \/ stateFile' = SnapshotOf(p)
      PROVE  HistoryIsPast' /\ NumbersAreOwn' /\ RecordsAreUnique'
  <2>1. (Past(Contents) /\ Past(notified) /\ Past(routed) /\ NumbersAreOwn /\ RecordsAreUnique)'
    BY <1>1, <1>3, ContinuesKeeps
  <2>2. Reached(stateFile)'
    BY <1>3 DEF IdentityInvariant, HistoryIsPast, NumbersAreOwn, Continues, Reached, SnapshotOf
  <2>3. QED
    BY <2>1, <2>2 DEF HistoryIsPast
<1>4. ASSUME NEW p \in Publishers, Publishing(p) \/ Begin(p)
      PROVE  HistoryIsPast' /\ NumbersAreOwn' /\ RecordsAreUnique'
  <2>1. CASE \E kind \in Kind : Allocate(p, kind)
    BY <2>1, AllocateKeeps
  <2>2. CASE Begin(p) \/ ContextLost(p) \/ TakeSnapshot(p) \/ WriteState(p) \/ SetLatest(p)
    <3>1. stateFile' = stateFile \/ stateFile' = SnapshotOf(p)
      BY <2>2 DEF Begin, ContextLost, TakeSnapshot, WriteState, SetLatest
    <3>2. QED
      BY <1>3, <2>2, <3>1, QuietContinues
  <2>3. CASE AppendEvent(p) \/ AppendFails(p) \/ FlushFails(p)
    <3>1. stateFile' = stateFile
      BY <2>3 DEF AppendEvent, AppendFails, FlushFails
    <3>2. QED
      BY <1>3, <2>3, <3>1, AppendContinues
  <2>4. CASE Notify(p) \/ RouteEvent(p)
    <3>1. stateFile' = stateFile
      BY <2>4 DEF Notify, RouteEvent
    <3>2. QED
      BY <1>3, <2>4, <3>1, SendContinues
  <2>5. QED
    BY <1>4, <2>1, <2>2, <2>3, <2>4 DEF Publishing
<1>5. CASE Restart
  BY <1>1, <1>2, <1>5, RestartKeeps DEF IdentityInvariant
<1>6. CASE UNCHANGED vars
  <2>1. /\ Contents' = Contents /\ notified' = notified /\ routed' = routed
        /\ stateFile' = stateFile /\ instance' = instance /\ sequence' = sequence
        /\ publisher' = publisher
    BY <1>6 DEF vars, logVars, Contents
  <2>2. HistoryIsPast'
    BY <2>1 DEF IdentityInvariant, HistoryIsPast, Past, Reached
  <2>3. RecordsAreUnique'
    BY <2>1 DEF IdentityInvariant, RecordsAreUnique, Identified
  <2>4. NumbersAreOwn'
    <3>1. \A p \in Publishers : RecordOf(p)' = RecordOf(p)
      BY <2>1 DEF RecordOf
    <3>2. QED
      BY <2>1, <3>1 DEF IdentityInvariant, NumbersAreOwn, Busy, Apart
  <2>5. QED
    BY <1>1, <1>2, <2>2, <2>3, <2>4 DEF IdentityInvariant
<1>7. QED
  BY <1>1, <1>2, <1>4, <1>5, <1>6 DEF IdentityInvariant, Next, LiveStep, ReplayStep

LEMMA IdentityInitial == Init => IdentityInvariant
<1> SUFFICES ASSUME Init
             PROVE  IdentityInvariant
  OBVIOUS
<1>1. TypeOK
  <2>1. publisher \in [Publishers -> [pc : Place, kind : Kind, number : Nat]]
    BY DEF Init, Resting, Place, Kind
  <2>2. stateFile \in Snapshot /\ latest \in Snapshot
    BY DEF Init, Startup, Snapshot
  <2>3. /\ buffer \in Seq(Record) /\ log \in Seq(Record) /\ rotated \in Seq(Record)
        /\ notified \in Seq(Record) /\ routed \in Seq(Record)
        /\ unflushed \in 0 .. Len(buffer)
    BY DEF Init
  <2>4. QED
    BY <2>1, <2>2, <2>3 DEF Init, TypeOK
<1>2. Contents = <<>> /\ notified = <<>> /\ routed = <<>>
  BY ConcatEmptySeq DEF Init, Contents
<1>3. \A p \in Publishers : publisher[p] = Resting
  BY DEF Init
<1>4. HistoryIsPast
  BY <1>2 DEF Init, HistoryIsPast, Past, Reached, Startup
<1>5. NumbersAreOwn
  BY <1>3 DEF Init, NumbersAreOwn, Busy, Resting, Unwritten, Unsent, Unrouted
<1>6. WriterIsOpen /\ RecordsAreUnique
  BY <1>2, <1>3 DEF Init, WriterIsOpen, At, Resting, RecordsAreUnique, Identified
<1>7. QED
  BY <1>1, <1>4, <1>5, <1>6 DEF IdentityInvariant

LEMMA IdentityHolds == Spec => []IdentityInvariant
<1>1. IdentityInvariant /\ [Next]_vars => IdentityInvariant'
  BY IdentityStep
<1>2. QED
  BY <1>1, IdentityInitial, PTL DEF Spec

-----------------------------------------------------------------------------
(* Publishers that take turns: a step of the one at work.                  *)
LEMMA TurnGoesOn ==
  ASSUME NEW p \in Publishers,
         \A q \in Publishers \ {p} : At(q, "idle") /\ publisher'[q] = publisher[q],
         Busy(p, Numbered)' => publisher'[p].number = sequence',
         ~At(p, "written")' => ~Older(latest', stateFile')
  PROVE  TurnsAreTaken'
<1>1. \A q \in Publishers \ {p} : At(q, "idle")' /\ ~Busy(q, Numbered)'
  BY DEF At, Busy, Numbered
<1>2. QED
  BY <1>1 DEF TurnsAreTaken, Older

LEMMA OrderStep ==
  ASSUME OrderInvariant, [Next]_vars
  PROVE  OrderInvariant'
<1>1. IdentityInvariant /\ IdentityInvariant' /\ TypeOK /\ TypeOK'
  BY IdentityStep DEF OrderInvariant, IdentityInvariant
<1>2. SUFFICES ASSUME ~overlapped'
               PROVE  TurnsAreTaken' /\ DeliveriesAreOrdered'
  BY <1>1 DEF OrderInvariant
<1>3. overlapped => overlapped'
  BY DEF TypeOK, Next, LiveStep, ReplayStep, Publishing, Begin, Allocate, AppendEvent, AppendFails,
         FlushFails, Notify, ContextLost, RouteEvent, TakeSnapshot, WriteState, SetLatest,
         Restart, vars
<1>4. TurnsAreTaken /\ DeliveriesAreOrdered
  BY <1>2, <1>3 DEF OrderInvariant
<1>5. ASSUME NEW p \in Publishers, Continues(p),
             \A q \in Publishers \ {p} : At(q, "idle"),
             Busy(p, Numbered)' => publisher'[p].number = sequence,
             ~At(p, "written")' => ~Older(latest', stateFile')
      PROVE  TurnsAreTaken' /\ DeliveriesAreOrdered'
  <2>1. TurnsAreTaken'
    BY <1>5, TurnGoesOn DEF Continues
  <2>2. Busy(p, Unrouted) => publisher[p].number = sequence
    BY <1>4 DEF TurnsAreTaken, Busy, Unrouted, Numbered
  <2>3. QED
    BY <1>1, <1>4, <1>5, <2>1, <2>2, ContinuesKeeps
<1>6. ASSUME NEW p \in Publishers, Begin(p)
      PROVE  TurnsAreTaken' /\ DeliveriesAreOrdered'
  <2>1. \A q \in Publishers : At(q, "idle")
    BY <1>2, <1>6 DEF Begin
  <2>2. ~Older(latest, stateFile)
    BY <1>4, <2>1 DEF TurnsAreTaken, At
  <2>3. ~Busy(p, Numbered)' /\ latest' = latest /\ stateFile' = stateFile
    BY <1>1, <1>6 DEF TypeOK, Begin, Goto, Busy, Numbered
  <2>4. Continues(p)
    BY <1>1, <1>6, QuietContinues
  <2>5. QED
    BY <1>5, <2>1, <2>2, <2>3, <2>4 DEF Older
<1>7. ASSUME NEW p \in Publishers, Publishing(p)
      PROVE  TurnsAreTaken' /\ DeliveriesAreOrdered'
  <2>1. ~At(p, "idle")
    BY <1>7 DEF Publishing, Allocate, AppendEvent, AppendFails, FlushFails, Notify, ContextLost,
       RouteEvent, TakeSnapshot, WriteState, SetLatest, At, ContextChanged, RuleFires
  <2>2. \A q \in Publishers \ {p} : At(q, "idle")
    BY <1>4, <2>1 DEF TurnsAreTaken
  <2>3. ~At(p, "written") => ~Older(latest, stateFile)
    BY <1>4, <2>2 DEF TurnsAreTaken, At
  <2>4. Busy(p, Numbered) => publisher[p].number = sequence
    BY <1>4 DEF TurnsAreTaken
  <2>5. ASSUME NEW kind \in Kind, Allocate(p, kind)
        PROVE  TurnsAreTaken' /\ DeliveriesAreOrdered'
    <3>1. /\ publisher'[p].number = sequence' /\ latest' = latest /\ stateFile' = stateFile
          /\ \A q \in Publishers \ {p} : publisher'[q] = publisher[q]
          /\ ~At(p, "written")
      BY <1>1, <2>5 DEF TypeOK, Allocate, At, ContextChanged, RuleFires
    <3>2. TurnsAreTaken'
      BY <2>2, <2>3, <3>1, TurnGoesOn DEF Older
    <3>3. DeliveriesAreOrdered'
      BY <1>4, <2>5 DEF DeliveriesAreOrdered, Ordered, Older, Allocate, Contents, logVars
    <3>4. QED
      BY <3>2, <3>3
  <2>6. CASE AppendEvent(p) \/ AppendFails(p) \/ FlushFails(p) \/ Notify(p) \/ RouteEvent(p)
             \/ ContextLost(p)
    <3>1. /\ publisher'[p].number = publisher[p].number /\ Busy(p, Numbered)
          /\ latest' = latest /\ stateFile' = stateFile /\ ~At(p, "written")
      <4>1. /\ publisher[p].pc \in {"allocated", "appended", "failed", "notified"}
            /\ latest' = latest /\ stateFile' = stateFile
        BY <2>6 DEF AppendEvent, AppendFails, FlushFails, Notify, RouteEvent, ContextLost, At
      <4>2. \E place \in Place : publisher' = [publisher EXCEPT ![p].pc = place]
        BY <2>6 DEF AppendEvent, AppendFails, FlushFails, Notify, RouteEvent, ContextLost, Goto, Place
      <4>3. publisher'[p].number = publisher[p].number
        BY <1>1, <4>2 DEF TypeOK
      <4>4. QED
        BY <4>1, <4>3 DEF At, Busy, Numbered
    <3>2. Continues(p)
      BY <1>1, <2>6, AppendContinues, SendContinues, QuietContinues
    <3>3. QED
      BY <1>5, <2>2, <2>3, <2>4, <3>1, <3>2 DEF Older
  <2>7. CASE TakeSnapshot(p)
    <3>1. /\ publisher'[p].number = sequence
          /\ latest' = latest /\ stateFile' = stateFile /\ ~At(p, "written")
      BY <1>1, <2>7 DEF TypeOK, TakeSnapshot, At
    <3>2. QED
      BY <1>1, <1>5, <2>2, <2>3, <2>7, <3>1, QuietContinues DEF Older
  <2>8. CASE WriteState(p)
    <3>1. /\ publisher'[p].number = publisher[p].number /\ Busy(p, Numbered)
          /\ At(p, "written")'
      BY <1>1, <2>8 DEF TypeOK, WriteState, Goto, At, Busy, Numbered
    <3>2. QED
      BY <1>1, <1>5, <2>2, <2>4, <2>8, <3>1, QuietContinues
  <2>9. CASE SetLatest(p)
    <3>1. /\ publisher[p].number = sequence /\ latest' = SnapshotOf(p) /\ stateFile' = stateFile
          /\ ~Busy(p, Numbered)'
      BY <1>1, <2>4, <2>9 DEF TypeOK, SetLatest, Goto, At, Busy, Numbered
    <3>2. ~Older(SnapshotOf(p), stateFile)
      <4>1. SnapshotOf(p).instance = instance /\ SnapshotOf(p).sequence = sequence
        BY <3>1 DEF SnapshotOf
      <4>2. /\ instance \in Nat /\ sequence \in Nat
            /\ stateFile.instance \in Nat /\ stateFile.sequence \in Nat
        BY <1>1 DEF TypeOK, Snapshot
      <4>3. Reached(stateFile)
        BY <1>1 DEF IdentityInvariant, HistoryIsPast
      <4>4. QED
        BY <4>1, <4>2, <4>3 DEF Reached, Older
    <3>3. QED
      BY <1>1, <1>5, <2>2, <2>9, <3>1, <3>2, QuietContinues DEF Older
  <2>10. QED
    BY <1>7, <2>5, <2>6, <2>7, <2>8, <2>9 DEF Publishing
<1>8. CASE Restart
  <2>1. DeliveriesAreOrdered'
    <3>1. Stretch(Contents', Contents) /\ Contents \in Seq(Record)
      BY <1>1, <1>8, LinesAfterRestart, ConcatProperties DEF TypeOK, Contents
    <3>2. Ordered(Contents') /\ notified' = notified /\ routed' = routed
      BY <1>4, <1>8, <3>1, StretchKeeps DEF DeliveriesAreOrdered, Restart
    <3>3. QED
      BY <1>4, <3>2 DEF DeliveriesAreOrdered, Ordered
  <2>2. \A p \in Publishers : publisher'[p] = Resting
    BY <1>8 DEF Restart
  <2>3. ~Older(latest, stateFile)'
    BY <1>1, <1>8 DEF IdentityInvariant, TypeOK, Snapshot, HistoryIsPast, Reached, Older, Restart,
       Startup
  <2>4. QED
    BY <2>1, <2>2, <2>3 DEF TurnsAreTaken, At, Busy, Numbered, Resting
<1>9. CASE UNCHANGED vars
  <2>1. /\ publisher' = publisher /\ sequence' = sequence /\ latest' = latest
        /\ stateFile' = stateFile /\ Contents' = Contents /\ notified' = notified
        /\ routed' = routed
    BY <1>9 DEF vars, logVars, Contents
  <2>2. QED
    BY <1>4, <2>1 DEF TurnsAreTaken, DeliveriesAreOrdered, Ordered, Older, At, Busy
<1>10. QED
  BY <1>6, <1>7, <1>8, <1>9 DEF Next, LiveStep, ReplayStep

LEMMA OrderHolds == Spec => []OrderInvariant
<1>1. Init => OrderInvariant
  <2>1. SUFFICES ASSUME Init
                 PROVE  TurnsAreTaken /\ DeliveriesAreOrdered
    BY IdentityInitial DEF OrderInvariant
  <2>2. Contents = <<>> /\ notified = <<>> /\ routed = <<>>
    BY <2>1, ConcatEmptySeq DEF Init, Contents
  <2>3. \A p \in Publishers : publisher[p] = Resting
    BY <2>1 DEF Init
  <2>4. QED
    BY <2>1, <2>2, <2>3 DEF Init, TurnsAreTaken, DeliveriesAreOrdered, Ordered, At, Busy, Numbered,
       Resting, Older, Startup
<1>2. OrderInvariant /\ [Next]_vars => OrderInvariant'
  BY OrderStep
<1>3. QED
  BY <1>1, <1>2, PTL DEF Spec

-----------------------------------------------------------------------------
(* No two records of the log, and no two notifications, carry the same     *)
(* identity, however many threads publish, whatever fails and however      *)
(* often the daemon restarts; and state.get is not behind state.json       *)
(* while publishers take turns (publish_processed, OutputWriter).          *)
THEOREM RecordsAreIdentified == Spec => []PublicationInvariant
<1>1. OrderInvariant => PublicationInvariant
  <2>1. SUFFICES ASSUME OrderInvariant, ~overlapped, \A p \in Publishers : At(p, "idle")
                 PROVE  ~Older(latest, stateFile)
    BY DEF OrderInvariant, IdentityInvariant, PublicationInvariant, StateGetIsCurrent
  <2>2. QED
    BY <2>1 DEF OrderInvariant, TurnsAreTaken, At
<1>2. QED
  BY <1>1, OrderHolds, PTL

(* As long as publishers take turns, the log, the subscriptions and the    *)
(* event routes see the records in the order of their numbers, over        *)
(* failed writes, rotations and restarts.                                  *)
THEOREM OrderIsKept == Spec => []TurnsKeepOrder
<1>1. OrderInvariant => TurnsKeepOrder
  BY DEF OrderInvariant, TurnsKeepOrder
<1>2. QED
  BY <1>1, OrderHolds, PTL

(* As long as publishers take turns, state.json never goes back.           *)
THEOREM StateMovesForward == Spec => StateNeverRegresses
<1>1. ASSUME OrderInvariant, OrderInvariant', [Next]_vars, ~overlapped'
      PROVE  ~Older(stateFile', stateFile)
  <2>1. TypeOK /\ TypeOK' /\ Reached(stateFile)
    BY <1>1 DEF OrderInvariant, IdentityInvariant, HistoryIsPast
  <2>2. /\ instance \in Nat /\ sequence \in Nat
        /\ stateFile.instance \in Nat /\ stateFile.sequence \in Nat
    BY <2>1 DEF TypeOK, Snapshot
  <2>3. CASE stateFile' = stateFile
    BY <2>2, <2>3 DEF Older
  <2>4. ASSUME NEW p \in Publishers, WriteState(p), stateFile' = SnapshotOf(p)
        PROVE  ~Older(stateFile', stateFile)
    <3>1. overlapped' = overlapped /\ Busy(p, Numbered)
      BY <2>4 DEF WriteState, At, Busy, Numbered
    <3>2. publisher[p].number = sequence
      BY <1>1, <3>1 DEF OrderInvariant, TurnsAreTaken
    <3>3. stateFile'.instance = instance /\ stateFile'.sequence = sequence
      BY <2>4, <3>2 DEF SnapshotOf
    <3>4. QED
      BY <2>1, <2>2, <3>3 DEF Reached, Older
  <2>5. stateFile' = stateFile \/ \E p \in Publishers : WriteState(p) /\ stateFile' = SnapshotOf(p)
    BY <1>1 DEF Next, LiveStep, ReplayStep, Publishing, Begin, Allocate, AppendEvent, AppendFails,
       FlushFails, Notify, ContextLost, RouteEvent, TakeSnapshot, WriteState, SetLatest, Restart,
       vars
  <2>6. QED
    BY <2>3, <2>4, <2>5
<1>2. OrderInvariant /\ OrderInvariant' /\ [Next]_vars
        => [~overlapped' => ~Older(stateFile', stateFile)]_vars
  BY <1>1
<1>3. QED
  BY <1>2, OrderHolds, PTL DEF Spec, StateNeverRegresses

(* Under the default policy a line whose append succeeded is in the file   *)
(* before any subscriber hears of it: a crash of the daemon loses only     *)
(* what was reported as not written (append_event, notify).                *)
THEOREM AppendsAreDurable == Spec => []AppendedIsDurable
<1> DEFINE Durable(p) == \E i \in 1 .. Len(log) : log[i] = RecordOf(p)
<1>1. Init => AppendedIsDurable
  BY DEF Init, AppendedIsDurable, At, Resting
<1>2. ASSUME IdentityInvariant, AppendedIsDurable, [Next]_vars, FlushEvery = 1,
             NEW q \in Publishers, At(q, "appended")'
      PROVE  Durable(q)'
  <2> USE DEF IdentityInvariant
  <2>1. ASSUME At(q, "appended"), publisher'[q] = publisher[q], instance' = instance,
               log' = log \/ \E tail \in Seq(Record) : log' = log \o tail
        PROVE  Durable(q)'
    <3>1. PICK i \in 1 .. Len(log) : log[i] = RecordOf(q)
      BY <1>2, <2>1 DEF AppendedIsDurable
    <3>2. RecordOf(q)' = RecordOf(q)
      BY <2>1 DEF RecordOf
    <3>3. log \in Seq(Record) /\ Len(log) \in Nat
      BY <1>2 DEF TypeOK
    <3>4. i \in 1 .. Len(log') /\ log'[i] = log[i]
      BY <2>1, <3>1, <3>3, ConcatProperties
    <3>5. QED
      BY <3>1, <3>2, <3>4
  <2>2. ASSUME NEW p \in Publishers, Begin(p) \/ ContextLost(p) \/ TakeSnapshot(p) \/ WriteState(p)
                 \/ SetLatest(p) \/ Notify(p) \/ RouteEvent(p) \/ \E kind \in Kind : Allocate(p, kind)
        PROVE  Durable(q)'
    <3>1. /\ log' = log /\ instance' = instance /\ publisher'[p].pc # "appended"
          /\ \A o \in Publishers \ {p} : publisher'[o] = publisher[o]
      BY <1>2, <2>2 DEF TypeOK, Begin, ContextLost, TakeSnapshot, WriteState, SetLatest, Notify,
         RouteEvent, Allocate, logVars, Goto
    <3>2. QED
      BY <1>2, <2>1, <3>1 DEF At
  <2>3. ASSUME NEW p \in Publishers, AppendEvent(p)
        PROVE  Durable(q)'
    <3>1. /\ RecordOf(p) \in Record /\ OpenLog \in Seq(Record) /\ FlushDue
          /\ Append(buffer, RecordOf(p)) \in Seq(Record)
      BY <1>2, RecordTypes DEF TypeOK, FlushDue
    <3>2. log' = OpenLog \o Append(buffer, RecordOf(p)) /\ instance' = instance
      BY <2>3, <3>1 DEF AppendEvent
    <3>3. CASE q = p
      <4>1. RecordOf(q)' = RecordOf(p)
        BY <1>2, <2>3, <3>3 DEF TypeOK, AppendEvent, Goto, RecordOf
      <4>2. /\ Len(OpenLog) \in Nat /\ Len(buffer) \in Nat
            /\ Len(Append(buffer, RecordOf(p))) = Len(buffer) + 1
            /\ Append(buffer, RecordOf(p))[Len(buffer) + 1] = RecordOf(p)
        BY <1>2, <3>1 DEF TypeOK
      <4>3. /\ Len(log') = Len(OpenLog) + (Len(buffer) + 1)
            /\ log'[Len(OpenLog) + (Len(buffer) + 1)] = RecordOf(p)
        <5>1. /\ Len(OpenLog) + (Len(buffer) + 1)
                   \in 1 .. Len(OpenLog) + Len(Append(buffer, RecordOf(p)))
              /\ ~(Len(OpenLog) + (Len(buffer) + 1) <= Len(OpenLog))
              /\ (Len(OpenLog) + (Len(buffer) + 1)) - Len(OpenLog) = Len(buffer) + 1
          BY <4>2
        <5>2. QED
          BY <3>1, <3>2, <4>2, <5>1, ConcatProperties
      <4>4. QED
        BY <4>1, <4>2, <4>3
    <3>4. CASE q # p
      <4>1. At(q, "appended") /\ publisher'[q] = publisher[q]
        BY <1>2, <2>3, <3>4 DEF TypeOK, AppendEvent, Goto, At
      <4>2. OpenLog = log
        BY <1>2, <4>1 DEF WriterIsOpen, OpenLog, Rotates
      <4>3. QED
        BY <2>1, <3>1, <3>2, <4>1, <4>2
    <3>5. QED
      BY <3>3, <3>4
  <2>4. ASSUME NEW p \in Publishers, AppendFails(p) \/ FlushFails(p)
        PROVE  Durable(q)'
    <3>1. q # p /\ At(q, "appended") /\ publisher'[q] = publisher[q] /\ instance' = instance
      BY <1>2, <2>4 DEF TypeOK, AppendFails, FlushFails, Goto, At
    <3>2. writerOpen
      BY <1>2, <3>1 DEF WriterIsOpen
    <3>3. log' = log
      BY <2>4, <3>2 DEF AppendFails, FlushFails, OpenLog, Rotates
    <3>4. QED
      BY <2>1, <3>1, <3>3
  <2>5. CASE Restart
    BY <1>2, <2>5 DEF Restart, Resting, At
  <2>6. CASE UNCHANGED vars
    BY <1>2, <2>1, <2>6 DEF vars, logVars, At
  <2>7. QED
    BY <1>2, <2>2, <2>3, <2>4, <2>5, <2>6 DEF Next, LiveStep, ReplayStep, Publishing
<1>3. IdentityInvariant /\ AppendedIsDurable /\ [Next]_vars => AppendedIsDurable'
  BY <1>2 DEF AppendedIsDurable
<1>4. QED
  BY <1>1, <1>3, IdentityHolds, PTL DEF Spec
=============================================================================
