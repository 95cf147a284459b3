---------------------------- MODULE EvidenceProofs ----------------------------
(***************************************************************************)
(* The collector and the reviews of its items, for any profiles, contents, *)
(* quota and number of clients: what a write that was checked may add, what *)
(* two items stored in turn differ in, and what a review leaves behind     *)
(* wherever it fails.                                                      *)
(***************************************************************************)
EXTENDS EvidenceReview, FiniteSetTheorems, TLAPS

(* Items are taken in order and have what was sampled.                     *)
ItemsAreSampled ==
  \A i \in Items :
    /\ write[i] # "none" => item[i].profile \in Profiles /\ item[i].content \in Contents
    /\ write[i] = "none" => \A j \in Items : i < j => write[j] = "none"

(* Only a write fills the temporary directory of its item, and only the    *)
(* last step of a write makes an item of it.                               *)
EntriesFollowWrites ==
  \A i \in Items :
    /\ entry[i]["tmp"] \in {Absent, "unread", "pending"}
    /\ write[i] = "none" \/ Stored(i) => entry[i]["tmp"] = Absent
    /\ Stored(i) => write[i] \in {"stored", "done"}
    /\ write[i] = "stored" => Stored(i)
    /\ write[i] \in {"describing", "naming"} => entry[i]["tmp"] # Absent
    /\ \A d \in Directory \ {"tmp", "inbox"} : entry[i][d] # "pending"

(* What a client has in hand is an item, which it takes from a directory   *)
(* other than the temporary one, and it makes nothing pending again.       *)
Handling == {"promoting", "listing", "marking", "moving"}
HandlesItem(r) ==
  /\ reviewer[r].item \in Items /\ Stored(reviewer[r].item)
  /\ reviewer[r].from # "tmp"
  /\ reviewer[r].status # "pending"
  /\ At(r, "moving") => entry[reviewer[r].item][reviewer[r].from] # "pending"
ReviewsAreOfItems ==
  \A r \in Reviewers : reviewer[r].pc \in Handling => HandlesItem(r)

(* A write that was not orphaned is alone, the runtime knows of it, and it *)
(* is of the last item sampled.                                            *)
OneWriteAtATime ==
  /\ \A i \in sampled : write[i] # "none"
  /\ ~orphaned =>
       \A i \in Items : InFlight(i) =>
         /\ runtime.writing
         /\ i \in sampled /\ \A j \in sampled : j <= i

UnreviewedOf(p) == {i \in Items : item[i].profile = p /\ Unreviewed(i)}

(* Who has checked the quota still finds room. *)
RoomIsLeft ==
  ~orphaned =>
    /\ \A p \in Profiles : Cardinality(UnreviewedOf(p)) <= MaxPending
    /\ \A i \in Items, p \in Profiles :
         write[i] = "storing" /\ item[i].profile = p => Cardinality(UnreviewedOf(p)) < MaxPending

(* The reference is the content stored last, and whatever was stored or is *)
(* being written differs from what was stored before it.                   *)
Settled(i) == Stored(i) /\ write[i] = "done"
ReferenceIsLast ==
  ~orphaned =>
    /\ \A i \in sampled :
         Settled(i) /\ (\A k \in sampled : i < k => ~Settled(k))
           => runtime.reference = item[i].content
    /\ \A i, j \in sampled :
         /\ i < j /\ Stored(i) /\ (Stored(j) \/ InFlight(j))
         /\ \A k \in sampled : i < k /\ k < j => ~Stored(k)
         => ~Resembles(item[i].content, item[j].content) \/ j \in eventful

CollectorInvariant ==
  /\ TypeOK
  /\ ItemsAreSampled
  /\ EntriesFollowWrites
  /\ ReviewsAreOfItems
  /\ OneWriteAtATime
  /\ RoomIsLeft
  /\ ReferenceIsLast

(* While clients take turns, an item is in one directory, which the client *)
(* at work has marked before it moves it;                                  *)
Accepted(i) == \E d \in Directory : entry[i][d] \in {"accepted", "promoted"}
OneDirectory ==
  \A i \in Items, d, e \in Directory :
    entry[i][d] # Absent /\ entry[i][e] # Absent => d = e
OneAtWork == \A r, s \in Reviewers : ~At(r, "idle") /\ ~At(s, "idle") => r = s
WorkIsSound(r) ==
  LET i == reviewer[r].item
      from == reviewer[r].from IN
  /\ reviewer[r].pc \in Handling => entry[i][from] # Absent
  /\ At(r, "promoting") \/ At(r, "listing") => reviewer[r].status = "promoted"
  /\ At(r, "listing") => reviewer[r].copy = suite[RootOf(r)]
  /\ (At(r, "marking") \/ At(r, "moving")) /\ reviewer[r].status = "promoted"
       => i \in suite[RootOf(r)]
  /\ At(r, "moving") => entry[i][from] = reviewer[r].status
TurnsAreTaken == OneAtWork /\ OneDirectory /\ \A r \in Reviewers : WorkIsSound(r)

(* a batch is of one profile, and knows contents that other items than     *)
(* those it is about stand for.                                            *)
Left(r) == reviewer[r].todo \cup {reviewer[r].item}
BatchKnows(r, p) ==
  /\ \A i \in Left(r) \ {NoOne} : i \in Items /\ write[i] # "none" /\ item[i].profile = p
  /\ \A c \in reviewer[r].known :
       \E j \in Items \ Left(r) : item[j].profile = p /\ item[j].content = c /\ Accepted(j)
BatchIsSound(r) ==
  /\ \E p \in Profiles : BatchKnows(r, p)
  /\ reviewer[r].item \notin reviewer[r].todo
  /\ At(r, "choosing") => reviewer[r].item = NoOne
  /\ At(r, "marking") /\ reviewer[r].status = "rejected"
       => \E c \in reviewer[r].known : Resembles(item[reviewer[r].item].content, c)
BatchesAreOfOneProfile ==
  \A r \in Reviewers : ~At(r, "idle") /\ reviewer[r].batch => BatchIsSound(r)

EvidenceInvariant ==
  /\ CollectorInvariant
  /\ ~overlapped => TurnsAreTaken /\ BatchesAreOfOneProfile /\ PromotedAreListed

-----------------------------------------------------------------------------
(* A step of the daemon is one of the collector, of a client that only     *)
(* reads datasets or writes a suite, or of one that changes an item.       *)
EntriesChange(r) == (MarkItem(r) \/ MoveItem(r)) /\ CollectorRests

LEMMA StepKinds ==
  ASSUME [Next]_vars
  PROVE  \/ Collect
         \/ Restart
         \/ \E r \in Reviewers : ReviewReads(r) /\ UNCHANGED collectorVars
         \/ \E r \in Reviewers : EntriesChange(r)
         \/ UNCHANGED vars
BY DEF Next, EntriesChange

(* What the types say of an item.                                          *)
LEMMA ItemTypes ==
  ASSUME TypeOK, NEW i \in Items
  PROVE  /\ entry[i] \in Entries /\ write[i] \in WritePhase /\ item[i] \in Sampled
         /\ \A d \in Directory : entry[i][d] \in Status \cup {Absent, "unread"}
         /\ DOMAIN entry[i] = Directory
         /\ item[i].profile \in Profiles \cup {NoProfile}
         /\ item[i].content \in Contents \cup {NoContent}
BY DEF TypeOK, CollectorTypeOK, Entries, Sampled

(* A write changes the phase of one item.                                  *)
LEMMA ProceedsAlone ==
  ASSUME TypeOK, NEW i \in Items, NEW phase \in WritePhase, Proceed(i, phase)
  PROVE  /\ write' \in [Items -> WritePhase]
         /\ write'[i] = phase
         /\ \A k \in Items \ {i} : write'[k] = write[k]
BY DEF TypeOK, CollectorTypeOK, Proceed

(* The pictures stay where they are, but for that of the item named.       *)
LEMMA PicturesStay ==
  ASSUME TypeOK, Collect, \A k \in Items : write[k] = "naming" => write'[k] # "stored"
  PROVE  frame' = frame
<1>1. frame \in [Items -> Directory \cup {Absent}]
  BY DEF TypeOK
<1>2. frame' = [k \in Items |-> frame[k]]
  BY DEF Collect
<1>3. QED
  BY <1>1, <1>2, Zenon

(* Marking an item, and moving it, leaves it where reviewed items are and  *)
(* makes none pending.                                                     *)
EntriesKept ==
  /\ entry' \in [Items -> Entries]
  /\ \A k \in Items :
       /\ entry'[k]["tmp"] = entry[k]["tmp"]
       /\ Stored(k)' <=> Stored(k)
       /\ Unreviewed(k)' => Unreviewed(k)
       /\ \A d \in Directory \ {"tmp", "inbox"} : entry'[k][d] # "pending"

LEMMA MarkEffects ==
  ASSUME TypeOK, EntriesFollowWrites,
         NEW i \in Items, NEW from \in Directory \ {"tmp"}, NEW status \in Status \ {"pending"},
         Stored(i), entry' = [entry EXCEPT ![i][from] = status]
  PROVE  /\ EntriesKept /\ entry'[i][from] = status
         /\ \A d \in Directory \ {from} : entry'[i][d] = entry[i][d]
         /\ \A k \in Items \ {i} : entry'[k] = entry[k]
<1>1. entry \in [Items -> Entries]
  BY DEF TypeOK, CollectorTypeOK
<1>2. /\ entry' \in [Items -> Entries]
      /\ \A k \in Items \ {i} : entry'[k] = entry[k]
      /\ entry'[i] = [entry[i] EXCEPT ![from] = status]
  BY <1>1 DEF Entries
<1>3. /\ entry'[i][from] = status
      /\ \A d \in Directory \ {from} : entry'[i][d] = entry[i][d]
  BY <1>1, <1>2, ItemTypes
<1>4. status # Absent
  BY DEF Status, Absent
<1>5. \A k \in Items : Stored(k)' <=> Stored(k)
  BY <1>2, <1>3, <1>4 DEF Stored
<1>6. \A k \in Items : Unreviewed(k)' => Unreviewed(k)
  BY <1>2, <1>3 DEF Unreviewed, Directory
<1>7. \A k \in Items : entry'[k]["tmp"] = entry[k]["tmp"]
  BY <1>2, <1>3 DEF Directory
<1>8. \A k \in Items, d \in Directory \ {"tmp", "inbox"} : entry'[k][d] # "pending"
  <2>1. \A k \in Items, d \in Directory \ {"tmp", "inbox"} : entry[k][d] # "pending"
    BY DEF EntriesFollowWrites
  <2>2. QED
    BY <1>2, <1>3, <2>1
<1>9. QED
  BY <1>2, <1>3, <1>5, <1>6, <1>7, <1>8 DEF EntriesKept

(* What a client has in hand.                                              *)
LEMMA InHand ==
  ASSUME TypeOK, ReviewsAreOfItems, NEW r \in Reviewers, reviewer[r].pc \in Handling
  PROVE  /\ reviewer[r].item \in Items /\ Stored(reviewer[r].item)
         /\ reviewer[r].from \in Directory \ {"tmp"}
         /\ reviewer[r].status \in Status \ {"pending"}
         /\ HomeOf(reviewer[r].status) \in Directory \ {"tmp"}
         /\ At(r, "moving") => entry[reviewer[r].item][reviewer[r].from] # "pending"
<1>1. reviewer[r] \in Request
  BY DEF TypeOK
<1>2. QED
  BY <1>1 DEF ReviewsAreOfItems, HandlesItem, Request, HomeOf, Status, Directory

Mark(r, i, from) ==
  /\ i = reviewer[r].item /\ from = reviewer[r].from /\ Stored(i)
  /\ reviewer[r].status \in Status \ {"pending"}
  /\ EntriesKept /\ entry'[i][from] = reviewer[r].status
  /\ \A d \in Directory \ {from} : entry'[i][d] = entry[i][d]
  /\ \A k \in Items \ {i} : entry'[k] = entry[k]
  /\ frame' = frame

(* Marking an item makes of it what the review decided.                    *)
LEMMA Marked ==
  ASSUME TypeOK, EntriesFollowWrites, ReviewsAreOfItems, NEW r \in Reviewers, MarkItem(r)
  PROVE  \E i \in Items, from \in Directory \ {"tmp"} : Mark(r, i, from)
<1>1. reviewer[r].pc \in Handling
  BY DEF MarkItem, At, Handling
<1>2. entry' = [entry EXCEPT ![reviewer[r].item][reviewer[r].from] = reviewer[r].status]
  BY Zenon DEF MarkItem
<1>3. /\ reviewer[r].item \in Items /\ Stored(reviewer[r].item)
      /\ reviewer[r].from \in Directory \ {"tmp"}
      /\ reviewer[r].status \in Status \ {"pending"}
  BY <1>1, InHand
<1>4. /\ EntriesKept /\ entry'[reviewer[r].item][reviewer[r].from] = reviewer[r].status
      /\ \A d \in Directory \ {reviewer[r].from} :
           entry'[reviewer[r].item][d] = entry[reviewer[r].item][d]
      /\ \A k \in Items \ {reviewer[r].item} : entry'[k] = entry[k]
  BY <1>2, <1>3, MarkEffects
<1>5. frame' = frame
  BY DEF MarkItem
<1>6. Mark(r, reviewer[r].item, reviewer[r].from)
  BY <1>3, <1>4, <1>5 DEF Mark
<1>7. QED
  BY <1>3, <1>6

Move(r, i, from, to) ==
  /\ i = reviewer[r].item /\ from = reviewer[r].from /\ to = HomeOf(reviewer[r].status)
  /\ entry[i][from] # Absent /\ entry[i][from] # "pending" /\ entry[i][to] = Absent
  /\ EntriesKept
  /\ from # to /\ entry'[i][from] = Absent /\ entry'[i][to] = entry[i][from]
  /\ \A d \in Directory \ {from, to} : entry'[i][d] = entry[i][d]
  /\ \A k \in Items \ {i} : entry'[k] = entry[k]
  /\ frame' = IF frame[i] = from THEN [frame EXCEPT ![i] = to] ELSE frame

(* Moving an item takes its status to a directory that was not there.      *)
LEMMA Moved ==
  ASSUME TypeOK, EntriesFollowWrites, ReviewsAreOfItems, NEW r \in Reviewers, MoveItem(r)
  PROVE  \E i \in Items, from \in Directory \ {"tmp"}, to \in Directory \ {"tmp"} :
           Move(r, i, from, to)
<1>1. At(r, "moving") /\ reviewer[r].pc \in Handling
  BY DEF MoveItem, At, Handling
<1>2. PICK i \in Items, from \in Directory \ {"tmp"}, to \in Directory \ {"tmp"} :
        /\ i = reviewer[r].item /\ from = reviewer[r].from
        /\ to = HomeOf(reviewer[r].status) /\ entry[i][from] # "pending"
  BY <1>1, InHand
<1>3. /\ entry[i][from] # Absent /\ entry[i][to] = Absent
      /\ entry' = [entry EXCEPT ![i][from] = Absent, ![i][to] = entry[i][from]]
      /\ frame' = IF frame[i] = from THEN [frame EXCEPT ![i] = to] ELSE frame
  BY <1>2, Zenon DEF MoveItem
<1>4. entry \in [Items -> Entries]
  BY DEF TypeOK, CollectorTypeOK
<1>5. /\ entry' \in [Items -> Entries]
      /\ \A k \in Items \ {i} : entry'[k] = entry[k]
      /\ entry'[i] = [entry[i] EXCEPT ![from] = Absent, ![to] = entry[i][from]]
  BY <1>3, <1>4 DEF Entries
<1>6. /\ from # to /\ entry'[i][from] = Absent /\ entry'[i][to] = entry[i][from]
      /\ \A d \in Directory \ {from, to} : entry'[i][d] = entry[i][d]
  BY <1>2, <1>3, <1>4, <1>5, ItemTypes
<1>7. Stored(i) /\ Stored(i)'
  BY <1>3, <1>6 DEF Stored
<1>8. \A k \in Items : Stored(k)' <=> Stored(k)
  BY <1>5, <1>7 DEF Stored
<1>9. \A k \in Items : entry'[k]["tmp"] = entry[k]["tmp"]
  BY <1>3, <1>5, <1>6 DEF Directory
<1>10. \A k \in Items : Unreviewed(k)' => Unreviewed(k)
  <2>1. Absent # "pending" /\ "inbox" \in Directory
    BY DEF Absent, Directory
  <2>2. entry'[i]["inbox"] = "pending" => entry[i]["inbox"] = "pending"
    BY <1>2, <1>6, <2>1
  <2>3. QED
    BY <1>5, <1>9, <2>2 DEF Unreviewed
<1>11. \A k \in Items, d \in Directory \ {"tmp", "inbox"} : entry'[k][d] # "pending"
  <2>1. \A k \in Items, d \in Directory \ {"tmp", "inbox"} : entry[k][d] # "pending"
    BY DEF EntriesFollowWrites
  <2>2. Absent # "pending" /\ entry[i][from] # "pending"
    BY <1>2 DEF Absent
  <2>3. \A d \in Directory \ {"tmp", "inbox"} : entry'[i][d] # "pending"
    BY <1>6, <2>1, <2>2
  <2>4. QED
    BY <1>5, <2>1, <2>3
<1>12. EntriesKept
  BY <1>5, <1>8, <1>9, <1>10, <1>11 DEF EntriesKept
<1>13. Move(r, i, from, to)
  BY <1>2, <1>3, <1>5, <1>6, <1>12 DEF Move
<1>14. QED
  BY <1>13

(* Either leaves the collector alone, and every item an item.              *)
LEMMA ReviewEffects ==
  ASSUME TypeOK, EntriesFollowWrites, ReviewsAreOfItems, NEW r \in Reviewers, EntriesChange(r)
  PROVE  /\ UNCHANGED <<live, runtime, write, item, starts, sampled, eventful, orphaned>>
         /\ EntriesKept
<1>1. CASE MarkItem(r)
  BY <1>1, InHand, MarkEffects DEF MarkItem, At, Handling, EntriesChange, CollectorRests
<1>2. CASE MoveItem(r)
  BY <1>2, Moved DEF Move, EntriesChange, CollectorRests
<1>3. QED
  BY <1>1, <1>2 DEF EntriesChange

-----------------------------------------------------------------------------
(* A write changes the temporary directory of its item, or names it.       *)
LEMMA EntryOfWrite ==
  ASSUME TypeOK, NEW i \in Items
  PROVE  /\ \A s \in {"unread", "pending"} : [entry EXCEPT ![i]["tmp"] = s] \in [Items -> Entries]
         /\ [entry EXCEPT ![i]["tmp"] = Absent, ![i]["inbox"] = "pending"] \in [Items -> Entries]
<1>1. entry \in [Items -> Entries]
  BY DEF TypeOK, CollectorTypeOK
<1>2. /\ {"tmp", "inbox"} \subseteq Directory
      /\ {"unread", "pending", Absent} \subseteq Status \cup {Absent, "unread"}
  BY DEF Directory, Status
<1>3. \A e \in Entries, d \in Directory, s \in Status \cup {Absent, "unread"} :
        [e EXCEPT ![d] = s] \in Entries
  BY DEF Entries
<1>4. \A e \in Entries : [entry EXCEPT ![i] = e] \in [Items -> Entries]
  BY <1>1
<1>5. \A s \in {"unread", "pending"} : [entry EXCEPT ![i]["tmp"] = s] \in [Items -> Entries]
  <2>1. TAKE s \in {"unread", "pending"}
  <2>2. [entry[i] EXCEPT !["tmp"] = s] \in Entries
    BY <1>1, <1>2, <1>3
  <2>3. QED
    BY <1>4, <2>2
<1>6. [entry EXCEPT ![i]["tmp"] = Absent, ![i]["inbox"] = "pending"] \in [Items -> Entries]
  <2>1. [entry[i] EXCEPT !["tmp"] = Absent, !["inbox"] = "pending"] \in Entries
    BY <1>1, <1>2, <1>3 DEF Entries
  <2>2. QED
    BY <1>1, <2>1
<1>7. QED
  BY <1>5, <1>6

(* Every step keeps the collector's types,                                 *)
LEMMA CollectorTypeStep ==
  ASSUME TypeOK, ItemsAreSampled, EntriesFollowWrites, ReviewsAreOfItems, [Next]_vars
  PROVE  CollectorTypeOK'
<1> USE DEF TypeOK, CollectorTypeOK
<1>1. \A phase \in {"storing", "failed", "describing", "naming", "stored", "done", "checking"} :
        phase \in WritePhase
  BY DEF WritePhase
<1>2. \A i \in Items : entry[i] \in Entries
  BY DEF Entries
<1>3. CASE Collect
  <2>1. CASE StopAnalysis
    BY <2>1 DEF StopAnalysis
  <2>2. ASSUME NEW p \in Profiles, StartAnalysis(p)
        PROVE  CollectorTypeOK'
    BY <2>2, CollectorAssumption DEF StartAnalysis, Configure, Fresh, Runtimes
  <2>3. ASSUME NEW content \in Contents, NEW transition \in BOOLEAN, Sample(content, transition)
        PROVE  CollectorTypeOK'
    <3>1. PICK i \in Items :
            /\ write' = [write EXCEPT ![i] = "checking"]
            /\ item' = [item EXCEPT ![i] = [profile |-> live, content |-> content]]
            /\ sampled' = sampled \cup {i}
            /\ eventful' = IF Seen(content) THEN eventful \cup {i} ELSE eventful
      BY <2>3 DEF Sample
    <3>2. runtime' \in Runtimes /\ runtime'.profile = runtime.profile
      BY <2>3 DEF Sample, Reserved, Runtimes
    <3>3. write' \in [Items -> WritePhase] /\ item' \in [Items -> Sampled]
      BY <1>1, <3>1 DEF Sampled
    <3>4. eventful' \subseteq sampled' /\ sampled' \subseteq Items
      <4>1. CASE Seen(content)
        BY <3>1, <4>1
      <4>2. CASE ~Seen(content)
        BY <3>1, <4>2
      <4>3. QED
        BY <4>1, <4>2
    <3>5. QED
      BY <2>3, <3>2, <3>3, <3>4 DEF Sample
  <2>4. ASSUME NEW i \in Items, WriteStep(i)
        PROVE  CollectorTypeOK'
    <3>1. CASE CheckQuota(i) \/ StoreFails(i)
      <4>1. \E phase \in WritePhase : Proceed(i, phase)
        <5>1. CASE CheckQuota(i)
          <6>1. CASE Cardinality(PendingOf(item[i].profile)) < MaxPending
            BY <1>1, <5>1, <6>1 DEF CheckQuota
          <6>2. CASE ~(Cardinality(PendingOf(item[i].profile)) < MaxPending)
            BY <1>1, <5>1, <6>2 DEF CheckQuota
          <6>3. QED
            BY <6>1, <6>2
        <5>2. CASE StoreFails(i)
          BY <1>1, <5>2 DEF StoreFails
        <5>3. QED
          BY <3>1, <5>1, <5>2
      <4>2. QED
        BY <3>1, <4>1, ProceedsAlone DEF CheckQuota, StoreFails
    <3>2. CASE StoreItem(i) \/ DescribeItem(i) \/ NameItem(i)
      <4>1. entry' \in [Items -> Entries]
        <5>1. \/ \E s \in {"unread", "pending"} : entry' = [entry EXCEPT ![i]["tmp"] = s]
              \/ entry' = [entry EXCEPT ![i]["tmp"] = Absent, ![i]["inbox"] = "pending"]
          BY <3>2 DEF StoreItem, DescribeItem, NameItem
        <5>2. /\ \A s \in {"unread", "pending"} : [entry EXCEPT ![i]["tmp"] = s] \in [Items -> Entries]
              /\ [entry EXCEPT ![i]["tmp"] = Absent, ![i]["inbox"] = "pending"] \in [Items -> Entries]
          BY EntryOfWrite
        <5>3. QED
          BY <5>1, <5>2, Zenon
      <4>2. write' \in [Items -> WritePhase]
        BY <3>2, <1>1 DEF StoreItem, DescribeItem, NameItem, Proceed
      <4>3. QED
        BY <3>2, <4>1, <4>2 DEF StoreItem, DescribeItem, NameItem
    <3>3. CASE FinishWrite(i)
      <4>1. runtime' \in Runtimes /\ runtime'.profile = runtime.profile
        <5>1. item[i].content \in Contents \cup {NoContent}
          BY ItemTypes
        <5>2. CASE write[i] = "stored"
          BY <3>3, <5>1, <5>2 DEF FinishWrite, Runtimes
        <5>3. CASE write[i] # "stored"
          BY <3>3, <5>1, <5>3 DEF FinishWrite, Runtimes
        <5>4. QED
          BY <5>2, <5>3
      <4>2. write' \in [Items -> WritePhase]
        BY <3>3, <1>1 DEF FinishWrite, Proceed
      <4>3. QED
        BY <3>3, <4>1, <4>2 DEF FinishWrite
    <3>4. QED
      BY <2>4, <3>1, <3>2, <3>3 DEF WriteStep
  <2>5. QED
    BY <1>3, <2>1, <2>2, <2>3, <2>4 DEF Collect, CollectorNext
<1>4. CASE Restart
  <2>1. runtime' \in Runtimes
    BY <1>4 DEF Restart, RestartCollector, Fresh, Runtimes
  <2>2. write' \in [Items -> WritePhase]
    BY <1>4 DEF Restart, RestartCollector, WritePhase
  <2>3. QED
    BY <1>4, <2>1, <2>2, CollectorAssumption DEF Restart, RestartCollector
<1>5. ASSUME UNCHANGED collectorVars
      PROVE  CollectorTypeOK'
  BY <1>5 DEF collectorVars
<1>6. ASSUME NEW r \in Reviewers, EntriesChange(r)
      PROVE  CollectorTypeOK'
  BY <1>6, ReviewEffects DEF EntriesKept
<1>7. QED
  BY <1>3, <1>4, <1>5, <1>6, StepKinds DEF vars

(* What a review may become.                                               *)
LEMMA RequestEdits ==
  ASSUME NEW q \in Request
  PROVE  /\ \A pc \in ReviewStep : [q EXCEPT !.pc = pc] \in Request
         /\ \A pc \in ReviewStep, i \in Items \cup {NoOne}, from \in Directory,
               status \in Status, todo \in SUBSET Items :
              [q EXCEPT !.pc = pc, !.item = i, !.from = from, !.status = status, !.todo = todo]
                \in Request
         /\ \A pc \in ReviewStep, copy \in SUBSET Items :
              [q EXCEPT !.pc = pc, !.copy = copy] \in Request
         /\ \A pc \in ReviewStep, i \in Items \cup {NoOne}, from \in Directory,
               status \in Status, known \in SUBSET Contents :
              [q EXCEPT !.pc = pc, !.item = i, !.from = from, !.status = status, !.known = known]
                \in Request
         /\ q.item \in Items \cup {NoOne} /\ q.todo \subseteq Items /\ q.copy \subseteq Items
         /\ q.known \subseteq Contents
BY DEF Request

(* A client that rests is a request too.                                   *)
LEMMA Rests == Resting \in Request
BY DEF Resting, Request, ReviewStep, Status, Directory

(* A batch decides for a status, and never that an item is pending.        *)
LEMMA DecisionIsStatus ==
  ASSUME NEW i, NEW q
  PROVE  Decision(i, q) \in Status \ {"pending"}
<1>1. {"rejected", "needs_correction", "promoted", "accepted"} \subseteq Status \ {"pending"}
  BY DEF Status
<1>2. Decision(i, q) \in {"rejected", "needs_correction", "promoted", "accepted"}
  BY Zenon DEF Decision
<1>3. QED
  BY <1>1, <1>2

(* A content that an item stands for is a content.                         *)
LEMMA ReviewedContents ==
  ASSUME TypeOK, ItemsAreSampled, EntriesFollowWrites, NEW i \in Items
  PROVE  /\ Stored(i) => item[i].content \in Contents /\ item[i].profile \in Profiles
         /\ Accepted(i) => Stored(i)
         /\ entry[i]["inbox"] # Absent \/ entry[i]["tmp"] # Absent => write[i] # "none"
<1>1. Stored(i) => write[i] # "none"
  BY DEF EntriesFollowWrites
<1>2. Accepted(i) => Stored(i)
  <2>1. SUFFICES ASSUME NEW d \in Directory, entry[i][d] \in {"accepted", "promoted"}
                 PROVE  Stored(i)
    BY DEF Accepted
  <2>2. entry[i]["tmp"] \in {Absent, "unread", "pending"}
    BY DEF EntriesFollowWrites
  <2>3. d # "tmp" /\ entry[i][d] # Absent
    BY <2>1, <2>2 DEF Absent
  <2>4. QED
    BY <2>3 DEF Stored
<1>3. entry[i]["inbox"] # Absent => Stored(i)
  BY DEF Stored, Directory
<1>4. entry[i]["tmp"] # Absent => write[i] # "none"
  BY DEF EntriesFollowWrites
<1>5. QED
  BY <1>1, <1>2, <1>3, <1>4 DEF ItemsAreSampled

(* A picture lies in a directory that there is: moves take it along, and   *)
(* writes make directories around it.                                      *)
PictureIsThere == \A i \in Items : frame[i] # Absent => entry[i][frame[i]] # Absent

LEMMA PictureStep ==
  ASSUME TypeOK, EntriesFollowWrites, ReviewsAreOfItems, [Next]_vars
  PROVE  frame' \in [Items -> Directory \cup {Absent}] /\ PictureIsThere'
<1>1. /\ entry \in [Items -> Entries] /\ frame \in [Items -> Directory \cup {Absent}]
      /\ PictureIsThere
  BY DEF TypeOK, CollectorTypeOK, PictureIsThere
<1>2. CASE Collect
  <2>1. ASSUME NEW i \in Items, NameItem(i)
        PROVE  frame' \in [Items -> Directory \cup {Absent}] /\ PictureIsThere'
    <3>1. /\ write[i] = "naming" /\ write'[i] = "stored"
          /\ \A k \in Items \ {i} : write'[k] = write[k]
      BY <2>1, ProceedsAlone DEF NameItem, WritePhase
    <3>2. \A k \in Items : frame'[k] = IF k = i THEN "inbox" ELSE frame[k]
      BY <1>2, <3>1 DEF Collect
    <3>3. /\ \A k \in Items \ {i} : entry'[k] = entry[k]
          /\ entry'[i]["inbox"] = "pending"
      BY <1>1, <2>1 DEF NameItem, Entries, Directory
    <3>4. frame' \in [Items -> Directory \cup {Absent}]
      BY <1>1, <1>2 DEF Collect, Directory
    <3>5. PictureIsThere'
      BY <1>1, <3>2, <3>3 DEF PictureIsThere, Absent
    <3>6. QED
      BY <3>4, <3>5
  <2>2. ASSUME \A k \in Items : write[k] = "naming" => write'[k] # "stored",
               \A k \in Items, d \in Directory : entry[k][d] # Absent => entry'[k][d] # Absent
        PROVE  frame' \in [Items -> Directory \cup {Absent}] /\ PictureIsThere'
    BY <1>1, <1>2, <2>2, PicturesStay DEF PictureIsThere
  <2>3. CASE StopAnalysis \/ \E p \in Profiles : StartAnalysis(p)
    BY <2>2, <2>3 DEF StopAnalysis, StartAnalysis
  <2>4. ASSUME NEW content \in Contents, NEW transition \in BOOLEAN, Sample(content, transition)
        PROVE  frame' \in [Items -> Directory \cup {Absent}] /\ PictureIsThere'
    <3>1. PICK i \in Items : write' = [write EXCEPT ![i] = "checking"]
      BY <2>4 DEF Sample
    <3>2. \A k \in Items : write[k] = "naming" => write'[k] # "stored"
      BY <3>1 DEF TypeOK, CollectorTypeOK
    <3>3. QED
      BY <2>2, <2>4, <3>2 DEF Sample
  <2>5. ASSUME NEW i \in Items, CheckQuota(i) \/ StoreFails(i) \/ FinishWrite(i)
        PROVE  frame' \in [Items -> Directory \cup {Absent}] /\ PictureIsThere'
    <3>1. entry' = entry
      BY <2>5 DEF CheckQuota, StoreFails, FinishWrite
    <3>2. \E phase \in WritePhase : phase # "stored" /\ Proceed(i, phase)
      <4>1. CASE CheckQuota(i)
        BY Zenon, <4>1 DEF CheckQuota, WritePhase
      <4>2. CASE StoreFails(i) \/ FinishWrite(i)
        BY <4>2 DEF StoreFails, FinishWrite, WritePhase
      <4>3. QED
        BY <2>5, <4>1, <4>2
    <3>3. \A k \in Items : write[k] = "naming" => write'[k] # "stored"
      BY <3>2, ProceedsAlone
    <3>4. QED
      BY <2>2, <3>1, <3>3
  <2>6. ASSUME NEW i \in Items, StoreItem(i) \/ DescribeItem(i)
        PROVE  frame' \in [Items -> Directory \cup {Absent}] /\ PictureIsThere'
    <3>1. \E phase \in WritePhase : phase # "stored" /\ Proceed(i, phase)
      BY <2>6 DEF StoreItem, DescribeItem, WritePhase
    <3>2. \A k \in Items : write[k] = "naming" => write'[k] # "stored"
      BY <3>1, ProceedsAlone
    <3>3. \A k \in Items, d \in Directory : entry[k][d] # Absent => entry'[k][d] # Absent
      <4>1. \E s \in {"unread", "pending"} : entry' = [entry EXCEPT ![i]["tmp"] = s]
        BY <2>6 DEF StoreItem, DescribeItem
      <4>2. QED
        BY <1>1, <4>1 DEF Entries, Absent
    <3>4. QED
      BY <2>2, <3>2, <3>3
  <2>7. QED
    BY <1>2, <2>1, <2>3, <2>4, <2>5, <2>6 DEF Collect, CollectorNext, WriteStep
<1>3. CASE Restart
  BY <1>1, <1>3 DEF Restart, RestartCollector, PictureIsThere
<1>4. ASSUME NEW r \in Reviewers, ReviewReads(r), UNCHANGED collectorVars
      PROVE  frame' = frame
  BY <1>4 DEF ReviewReads, BeginReview, BeginAutoReview, Begin, Choose, EndBatch, ReadSuite,
       WriteSuite, FailReview
<1>5. ASSUME NEW r \in Reviewers, EntriesChange(r), MarkItem(r)
      PROVE  frame' = frame /\ PictureIsThere'
  <2>1. PICK i \in Items, from \in Directory, status \in Status :
          entry' = [entry EXCEPT ![i][from] = status]
    BY <1>5, InHand DEF MarkItem, At, Handling
  <2>2. status # Absent
    BY DEF Status, Absent
  <2>3. frame' = frame
    BY <1>5 DEF MarkItem
  <2>4. QED
    BY <1>1, <2>1, <2>2, <2>3 DEF PictureIsThere, Entries
<1>6. ASSUME NEW r \in Reviewers, EntriesChange(r), MoveItem(r)
      PROVE  frame' \in [Items -> Directory \cup {Absent}] /\ PictureIsThere'
  <2>1. PICK i \in Items, from \in Directory \ {"tmp"}, to \in Directory \ {"tmp"} :
          Move(r, i, from, to)
    BY <1>6, Moved
  <2>4. CASE frame[i] = from
    BY <1>1, <2>1, <2>4 DEF PictureIsThere, Move
  <2>5. CASE frame[i] # from
    BY <1>1, <2>1, <2>5 DEF PictureIsThere, Move
  <2>6. QED
    BY <2>4, <2>5
<1>7. CASE UNCHANGED vars
  BY <1>1, <1>7 DEF vars, collectorVars, reviewVars, PictureIsThere
<1>8. QED
  <2>1. ASSUME NEW r \in Reviewers, EntriesChange(r)
        PROVE  frame' \in [Items -> Directory \cup {Absent}] /\ PictureIsThere'
    BY <1>1, <1>5, <1>6, <2>1 DEF EntriesChange
  <2>2. ASSUME NEW r \in Reviewers, ReviewReads(r), UNCHANGED collectorVars
        PROVE  frame' \in [Items -> Directory \cup {Absent}] /\ PictureIsThere'
    BY <1>1, <1>4, <2>2 DEF collectorVars, PictureIsThere
  <2>3. QED
    BY <1>2, <1>1, <1>3, <1>7, <2>1, <2>2, StepKinds

(* and the types of requests and suites.                                   *)
LEMMA RequestStep ==
  ASSUME TypeOK, ItemsAreSampled, EntriesFollowWrites, ReviewsAreOfItems, [Next]_vars
  PROVE  /\ reviewer' \in [Reviewers -> Request]
         /\ suite' \in [Profiles -> SUBSET Items]
         /\ reviews' \in 0 .. MaxReviews /\ overlapped' \in BOOLEAN
<1> USE Rests
<1>1. /\ reviewer \in [Reviewers -> Request] /\ suite \in [Profiles -> SUBSET Items]
      /\ reviews \in 0 .. MaxReviews /\ overlapped \in BOOLEAN
      /\ \A r \in Reviewers : reviewer[r] \in Request
  BY DEF TypeOK
<1>2. \A r \in Reviewers, q \in Request : Become(r, q) => reviewer' \in [Reviewers -> Request]
  BY <1>1 DEF Become
<1>3. {"idle", "choosing", "promoting", "listing", "marking", "moving"} \subseteq ReviewStep
  BY DEF ReviewStep
<1>4. ASSUME NEW r \in Reviewers, NEW q \in Request, Begin(r, q)
      PROVE  /\ reviewer' \in [Reviewers -> Request] /\ suite' = suite
             /\ reviews' \in 0 .. MaxReviews /\ overlapped' \in BOOLEAN
  BY <1>1, <1>2, <1>4, ReviewAssumption DEF Begin
<1>5. ASSUME NEW r \in Reviewers, ReviewReads(r)
      PROVE  /\ reviewer' \in [Reviewers -> Request] /\ suite' \in [Profiles -> SUBSET Items]
             /\ reviews' \in 0 .. MaxReviews /\ overlapped' \in BOOLEAN
  <2>1. ASSUME NEW i \in Items, NEW d \in Directory, NEW status \in Status,
               BeginReview(r, i, d, status)
        PROVE  /\ reviewer' \in [Reviewers -> Request] /\ suite' = suite
               /\ reviews' \in 0 .. MaxReviews /\ overlapped' \in BOOLEAN
    <3>1. \A pc \in ReviewStep :
            [Resting EXCEPT !.pc = pc, !.item = i, !.from = d, !.status = status] \in Request
      BY DEF Resting, Request
    <3>2. CASE status = "promoted"
      BY <1>3, <1>4, <2>1, <3>1, <3>2 DEF BeginReview
    <3>3. CASE status # "promoted"
      BY <1>3, <1>4, <2>1, <3>1, <3>3 DEF BeginReview
    <3>4. QED
      BY <3>2, <3>3
  <2>2. ASSUME NEW p \in Profiles, NEW promote \in BOOLEAN, BeginAutoReview(r, p, promote)
        PROVE  /\ reviewer' \in [Reviewers -> Request] /\ suite' = suite
               /\ reviews' \in 0 .. MaxReviews /\ overlapped' \in BOOLEAN
    <3>1. KnownOf(p) \subseteq Contents
      BY ReviewedContents DEF KnownOf, Accepted
    <3>2. PendingIn(p) \subseteq Items
      BY DEF PendingIn
    <3>3. [Resting EXCEPT !.pc = "choosing", !.batch = TRUE, !.promote = promote,
                          !.todo = PendingIn(p), !.known = KnownOf(p)] \in Request
      BY <1>3, <3>1, <3>2 DEF Resting, Request
    <3>4. QED
      BY <1>4, <2>2, <3>3 DEF BeginAutoReview
  <2>3. CASE Choose(r)
    <3>1. PICK i \in Items, d \in Directory, status \in Status, pc \in ReviewStep,
               todo \in SUBSET Items :
            Become(r, [reviewer[r] EXCEPT !.pc = pc, !.item = i, !.from = d,
                                          !.status = status, !.todo = todo])
      <4>1. PICK i \in reviewer[r].todo, d \in Directory :
              LET status == Decision(i, reviewer[r]) IN
              Become(r, [reviewer[r] EXCEPT
                !.pc = IF status = "promoted" THEN "promoting" ELSE "marking",
                !.item = i, !.from = d, !.status = status, !.todo = @ \ {i}])
        BY <2>3 DEF Choose
      <4>2. i \in Items /\ reviewer[r].todo \ {i} \in SUBSET Items
        BY <1>1, RequestEdits
      <4>3. Decision(i, reviewer[r]) \in Status
        BY DecisionIsStatus
      <4>4. (IF Decision(i, reviewer[r]) = "promoted" THEN "promoting" ELSE "marking") \in ReviewStep
        BY <1>3
      <4>5. QED
        BY <4>1, <4>2, <4>3, <4>4
    <3>2. QED
      BY <1>1, <1>2, <2>3, <3>1, RequestEdits DEF Choose
  <2>4. CASE EndBatch(r) \/ FailReview(r)
    BY <1>1, <1>2, <2>4 DEF EndBatch, FailReview
  <2>5. CASE ReadSuite(r)
    <3>1. suite[RootOf(r)] \in SUBSET Items
      <4>1. RootOf(r) \in Profiles
        BY <2>5, InHand, ReviewedContents DEF ReadSuite, At, Handling, RootOf
      <4>2. QED
        BY <1>1, <4>1
    <3>2. QED
      BY <1>1, <1>2, <1>3, <2>5, <3>1, RequestEdits DEF ReadSuite
  <2>6. CASE WriteSuite(r)
    <3>1. reviewer[r].copy \cup {reviewer[r].item} \in SUBSET Items
      BY <1>1, <2>6, InHand, RequestEdits DEF WriteSuite, At, Handling
    <3>2. suite' \in [Profiles -> SUBSET Items]
      BY <1>1, <2>6, <3>1 DEF WriteSuite
    <3>3. QED
      BY <1>1, <1>2, <1>3, <2>6, <3>2, RequestEdits DEF WriteSuite
  <2>7. QED
    BY <1>1, <1>5, <2>1, <2>2, <2>3, <2>4, <2>5, <2>6 DEF ReviewReads
<1>6. ASSUME NEW r \in Reviewers, EntriesChange(r)
      PROVE  reviewer' \in [Reviewers -> Request]
  <2>1. reviewer[r].pc \in Handling
    BY <1>6 DEF EntriesChange, MarkItem, MoveItem, At, Handling
  <2>2. Saved(r) => reviewer' \in [Reviewers -> Request]
    <3>1. CASE reviewer[r].batch
      <4>1. item[reviewer[r].item].content \in Contents
        BY <2>1, InHand, ReviewedContents
      <4>2. {"idle", "choosing"} \subseteq ReviewStep /\ "inbox" \in Directory /\ "pending" \in Status
        BY DEF ReviewStep, Directory, Status
      <4>3. \A known \in SUBSET Contents :
              [reviewer[r] EXCEPT !.pc = "choosing", !.item = NoOne, !.from = "inbox",
                 !.status = "pending", !.known = known] \in Request
        BY <1>1, <4>2, RequestEdits
      <4>4. (IF reviewer[r].status \in {"accepted", "promoted"}
             THEN reviewer[r].known \cup {item[reviewer[r].item].content}
             ELSE reviewer[r].known) \in SUBSET Contents
        BY <1>1, <4>1, RequestEdits
      <4>5. QED
        BY <1>2, <3>1, <4>3, <4>4 DEF Saved
    <3>2. CASE ~reviewer[r].batch
      BY <1>2, <3>2 DEF Saved
    <3>3. QED
      BY <3>1, <3>2
  <2>3. CASE MarkItem(r)
    <3>1. [reviewer[r] EXCEPT !.pc = "moving"] \in Request
      BY <1>1, <1>3, RequestEdits
    <3>2. Saved(r) \/ Become(r, [reviewer[r] EXCEPT !.pc = "moving"])
      BY <2>3 DEF MarkItem
    <3>3. QED
      BY <1>2, <2>2, <3>1, <3>2
  <2>4. QED
    BY <1>6, <2>2, <2>3 DEF EntriesChange, MoveItem
<1>7. QED
  <2>1. CASE Collect
    BY <1>1, <2>1 DEF Collect
  <2>2. CASE Restart
    BY <1>1, <2>2 DEF Restart
  <2>3. CASE UNCHANGED vars
    BY <1>1, <2>3 DEF vars, reviewVars
  <2>4. ASSUME NEW r \in Reviewers, EntriesChange(r)
        PROVE  UNCHANGED <<suite, reviews, overlapped>>
    BY <2>4 DEF EntriesChange, MarkItem, MoveItem
  <2>5. QED
    BY <1>1, <1>5, <1>6, <2>1, <2>2, <2>3, <2>4, StepKinds

-----------------------------------------------------------------------------
(* A write touches its item alone, and only the last thing it does to it   *)
(* makes it an item of the inbox.                                          *)
LEMMA WriteEffects ==
  ASSUME TypeOK, EntriesFollowWrites, NEW i \in Items, WriteStep(i)
  PROVE  /\ UNCHANGED <<live, item, sampled, eventful, orphaned>>
         /\ InFlight(i) /\ write'[i] # "none"
         /\ \A k \in Items \ {i} : write'[k] = write[k] /\ entry'[k] = entry[k]
         /\ entry'[i]["tmp"] \in {Absent, "unread", "pending"}
         /\ \A d \in Directory \ {"tmp", "inbox"} : entry'[i][d] = entry[i][d]
         /\ \/ entry'[i]["inbox"] = entry[i]["inbox"] /\ ~Stored(i) /\ write'[i] # "stored"
            \/ entry'[i] = entry[i] /\ write[i] \in {"stored", "failed"} /\ write'[i] = "done"
            \/ /\ ~Stored(i) /\ write[i] = "naming" /\ write'[i] = "stored"
               /\ entry'[i]["tmp"] = Absent /\ entry'[i]["inbox"] = "pending"
         /\ write[i] # "storing" => (Unreviewed(i)' => Unreviewed(i))
         /\ write'[i] \in {"describing", "naming"} => entry'[i]["tmp"] # Absent
         /\ write'[i] = "storing"
              => write[i] = "checking" /\ Cardinality(PendingOf(item[i].profile)) < MaxPending
         /\ ~FinishWrite(i) => InFlight(i)' /\ runtime' = runtime
<1>1. /\ entry \in [Items -> Entries] /\ write \in [Items -> WritePhase]
      /\ \A k \in Items : DOMAIN entry[k] = Directory
      /\ {"tmp", "inbox"} \subseteq Directory /\ Absent \notin {"unread", "pending"}
  BY ItemTypes DEF TypeOK, CollectorTypeOK, Directory, Absent
<1>2. /\ entry[i]["tmp"] \in {Absent, "unread", "pending"}
      /\ write[i] \notin {"stored", "done"} => ~Stored(i)
  BY DEF EntriesFollowWrites
<1>3. CASE CheckQuota(i)
  <2>1. CASE Cardinality(PendingOf(item[i].profile)) < MaxPending
    <3>1. write[i] = "checking" /\ Proceed(i, "storing")
      BY <1>3, <2>1 DEF CheckQuota
    <3>2. write'[i] = "storing" /\ \A k \in Items \ {i} : write'[k] = write[k]
      BY <1>1, <3>1 DEF Proceed
    <3>3. entry' = entry
      BY <1>3 DEF CheckQuota
    <3>4. Unreviewed(i)' => Unreviewed(i)
      BY <3>3 DEF Unreviewed
    <3>5. QED
      BY <1>2, <1>3, <2>1, <3>1, <3>2, <3>3, <3>4 DEF CheckQuota, InFlight
  <2>2. CASE ~(Cardinality(PendingOf(item[i].profile)) < MaxPending)
    <3>1. write[i] = "checking" /\ Proceed(i, "failed")
      BY <1>3, <2>2 DEF CheckQuota
    <3>2. write'[i] = "failed" /\ \A k \in Items \ {i} : write'[k] = write[k]
      BY <1>1, <3>1 DEF Proceed
    <3>3. entry' = entry
      BY <1>3 DEF CheckQuota
    <3>4. Unreviewed(i)' => Unreviewed(i)
      BY <3>3 DEF Unreviewed
    <3>5. QED
      BY <1>2, <1>3, <3>1, <3>2, <3>3, <3>4 DEF CheckQuota, InFlight
  <2>3. QED
    BY <2>1, <2>2
<1>4. CASE StoreFails(i)
  <2>1. write'[i] = "failed" /\ \A k \in Items \ {i} : write'[k] = write[k]
    BY <1>1, <1>4 DEF StoreFails, Proceed
  <2>2. entry' = entry
    BY <1>4 DEF StoreFails
  <2>3. Unreviewed(i)' => Unreviewed(i)
    BY <2>2 DEF Unreviewed
  <2>4. QED
    BY <1>2, <1>4, <2>1, <2>2, <2>3 DEF StoreFails, InFlight
<1>5. CASE FinishWrite(i)
  <2>1. write'[i] = "done" /\ \A k \in Items \ {i} : write'[k] = write[k]
    BY <1>1, <1>5 DEF FinishWrite, Proceed
  <2>2. entry' = entry
    BY <1>5 DEF FinishWrite
  <2>3. Unreviewed(i)' => Unreviewed(i)
    BY <2>2 DEF Unreviewed
  <2>4. QED
    BY <1>2, <1>5, <2>1, <2>2, <2>3 DEF FinishWrite, InFlight
<1>6. CASE StoreItem(i)
  <2>1. write[i] = "storing" /\ write'[i] = "describing" /\ \A k \in Items \ {i} : write'[k] = write[k]
    BY <1>1, <1>6 DEF StoreItem, Proceed
  <2>2. /\ entry'[i] = [entry[i] EXCEPT !["tmp"] = "unread"]
        /\ \A k \in Items \ {i} : entry'[k] = entry[k]
    BY <1>1, <1>6 DEF StoreItem
  <2>3. entry'[i]["tmp"] = "unread" /\ \A d \in Directory \ {"tmp"} : entry'[i][d] = entry[i][d]
    BY <1>1, <2>2
  <2>4. QED
    BY <1>1, <1>2, <1>6, <2>1, <2>2, <2>3 DEF StoreItem, InFlight
<1>7. CASE DescribeItem(i)
  <2>1. write[i] = "describing" /\ write'[i] = "naming" /\ \A k \in Items \ {i} : write'[k] = write[k]
    BY <1>1, <1>7 DEF DescribeItem, Proceed
  <2>2. /\ entry'[i] = [entry[i] EXCEPT !["tmp"] = "pending"]
        /\ \A k \in Items \ {i} : entry'[k] = entry[k]
    BY <1>1, <1>7 DEF DescribeItem
  <2>3. entry'[i]["tmp"] = "pending" /\ \A d \in Directory \ {"tmp"} : entry'[i][d] = entry[i][d]
    BY <1>1, <2>2
  <2>4. Unreviewed(i)
    BY <2>1 DEF EntriesFollowWrites, Unreviewed
  <2>5. QED
    BY <1>1, <1>2, <1>7, <2>1, <2>2, <2>3, <2>4 DEF DescribeItem, InFlight
<1>8. CASE NameItem(i)
  <2>1. write[i] = "naming" /\ write'[i] = "stored" /\ \A k \in Items \ {i} : write'[k] = write[k]
    BY <1>1, <1>8 DEF NameItem, Proceed
  <2>2. /\ entry'[i] = [entry[i] EXCEPT !["tmp"] = Absent, !["inbox"] = "pending"]
        /\ \A k \in Items \ {i} : entry'[k] = entry[k]
    BY <1>1, <1>8 DEF NameItem
  <2>3. /\ entry'[i]["tmp"] = Absent /\ entry'[i]["inbox"] = "pending"
        /\ \A d \in Directory \ {"tmp", "inbox"} : entry'[i][d] = entry[i][d]
    BY <1>1, <2>2
  <2>4. Unreviewed(i)
    BY <2>1 DEF EntriesFollowWrites, Unreviewed
  <2>5. QED
    BY <1>1, <1>2, <1>8, <2>1, <2>2, <2>3, <2>4 DEF NameItem, InFlight
<1>9. QED
  BY <1>3, <1>4, <1>5, <1>6, <1>7, <1>8 DEF WriteStep

(* A sample takes the first item there is.                                 *)
LEMMA SampleEffects ==
  ASSUME TypeOK, ItemsAreSampled, EntriesFollowWrites,
         NEW content \in Contents, NEW transition \in BOOLEAN, Sample(content, transition)
  PROVE  \E i \in Items :
           /\ live \in Profiles /\ runtime.profile = live
           /\ ~runtime.writing /\ runtime'.writing /\ runtime'.reference = runtime.reference
           /\ UNCHANGED <<live, entry, orphaned>>
           /\ write[i] = "none" /\ write'[i] = "checking"
           /\ \A k \in Items : write[k] # "none" <=> k < i
           /\ item'[i].profile = live /\ item'[i].content = content
           /\ \A k \in Items \ {i} : write'[k] = write[k] /\ item'[k] = item[k]
           /\ sampled' = sampled \cup {i}
           /\ IF Seen(content) THEN eventful' = eventful \cup {i} ELSE eventful' = eventful
           /\ ~Stored(i) /\ ~Unreviewed(i)
<1>1. PICK i \in Items :
        /\ write[i] = "none" /\ \A k \in Items : k < i => write[k] # "none"
        /\ write' = [write EXCEPT ![i] = "checking"]
        /\ item' = [item EXCEPT ![i] = [profile |-> live, content |-> content]]
        /\ sampled' = sampled \cup {i}
        /\ eventful' = IF Seen(content) THEN eventful \cup {i} ELSE eventful
  BY DEF Sample
<1>2. write \in [Items -> WritePhase] /\ item \in [Items -> Sampled] /\ runtime \in Runtimes
  BY DEF TypeOK, CollectorTypeOK
<1>3. \A k \in Items \ {i} : write'[k] = write[k] /\ item'[k] = item[k]
  BY <1>1, <1>2
<1>4. /\ write'[i] = "checking"
      /\ item'[i].profile = live /\ item'[i].content = content
  BY <1>1, <1>2
<1>5. /\ live \in Profiles /\ runtime.profile = live /\ ~runtime.writing
      /\ runtime'.writing /\ runtime'.reference = runtime.reference
  BY <1>2 DEF Sample, Due, Reserved, Runtimes, TypeOK, CollectorTypeOK
<1>6. \A k \in Items : write[k] # "none" <=> k < i
  <2>1. SUFFICES ASSUME NEW k \in Items, write[k] # "none"
                 PROVE  k < i
    BY <1>1
  <2>2. ~(i < k) /\ k # i
    BY <1>1, <2>1 DEF ItemsAreSampled
  <2>3. QED
    BY <2>2 DEF Items
<1>7. ~Stored(i)
  BY <1>1 DEF EntriesFollowWrites
<1>8. ~Unreviewed(i)
  BY <1>1, <1>7 DEF EntriesFollowWrites, Unreviewed, Stored, Directory, Absent
<1>9. IF Seen(content) THEN eventful' = eventful \cup {i} ELSE eventful' = eventful
  BY <1>1, Zenon
<1>10. UNCHANGED <<live, entry, orphaned>>
  BY DEF Sample
<1>11. QED
  BY <1>1, <1>3, <1>4, <1>5, <1>6, <1>7, <1>8, <1>9, <1>10

(* A restart and a change of what is analyzed.                             *)
LEMMA RestartEffects ==
  ASSUME TypeOK, Restart
  PROVE  /\ UNCHANGED <<item, entry, orphaned>> /\ sampled' = {} /\ eventful' = {}
         /\ \A i \in Items : write'[i] = IF write[i] = "none" THEN "none" ELSE "done"
         /\ \A r \in Reviewers : reviewer'[r] = Resting
BY DEF Restart, RestartCollector

(* Another profile starts afresh, and orphans the writes in flight.        *)
LEMMA StartEffects ==
  ASSUME TypeOK, NEW p \in Profiles, StartAnalysis(p)
  PROVE  /\ UNCHANGED <<item, entry, write>>
         /\ \/ /\ runtime.profile = p /\ runtime' = runtime /\ sampled' = sampled
               /\ eventful' = eventful /\ orphaned' = orphaned
            \/ /\ sampled' = {} /\ eventful' = {}
               /\ ~orphaned' => ~orphaned /\ \A i \in Items : ~InFlight(i)
<1>1. CASE runtime.profile = p
  BY <1>1 DEF StartAnalysis, Configure, TypeOK, CollectorTypeOK
<1>2. CASE runtime.profile # p
  BY <1>2 DEF StartAnalysis
<1>3. QED
  BY <1>1, <1>2

-----------------------------------------------------------------------------
(* Sampling takes the next item, and writes never undo that.               *)
LEMMA SampledStep ==
  ASSUME TypeOK, ItemsAreSampled, EntriesFollowWrites, ReviewsAreOfItems, [Next]_vars
  PROVE  ItemsAreSampled'
<1>1. ASSUME UNCHANGED <<write, item>>
      PROVE  ItemsAreSampled'
  BY <1>1 DEF ItemsAreSampled
<1>2. ASSUME NEW content \in Contents, NEW transition \in BOOLEAN, Sample(content, transition)
      PROVE  ItemsAreSampled'
  <2>1. PICK i \in Items :
          /\ live \in Profiles /\ write'[i] = "checking"
          /\ \A k \in Items : write[k] # "none" <=> k < i
          /\ item'[i].profile = live /\ item'[i].content = content
          /\ \A k \in Items \ {i} : write'[k] = write[k] /\ item'[k] = item[k]
    BY <1>2, SampleEffects
  <2>2. \A k, j \in Items : write'[k] = "none" /\ k < j => write'[j] = "none"
    <3>1. SUFFICES ASSUME NEW k \in Items, NEW j \in Items, write'[k] = "none", k < j
                   PROVE  write'[j] = "none"
      OBVIOUS
    <3>2. write[k] = "none" /\ write[j] = "none" /\ k # i
      BY <2>1, <3>1 DEF ItemsAreSampled
    <3>3. CASE j = i
      BY <2>1, <3>1, <3>2, <3>3
    <3>4. QED
      BY <2>1, <3>2, <3>3
  <2>3. QED
    BY <2>1, <2>2 DEF ItemsAreSampled
<1>3. ASSUME NEW i \in Items, WriteStep(i)
      PROVE  ItemsAreSampled'
  BY <1>3, WriteEffects DEF ItemsAreSampled, InFlight
<1>4. CASE Restart
  BY <1>4, RestartEffects DEF ItemsAreSampled
<1>5. ASSUME NEW r \in Reviewers, EntriesChange(r)
      PROVE  ItemsAreSampled'
  BY <1>1, <1>5, ReviewEffects
<1>6. CASE Collect
  <2>1. CASE StopAnalysis \/ \E p \in Profiles : StartAnalysis(p)
    BY <1>1, <2>1 DEF StopAnalysis, StartAnalysis
  <2>2. QED
    BY <1>2, <1>3, <1>6, <2>1 DEF Collect, CollectorNext
<1>7. CASE UNCHANGED collectorVars
  BY <1>1, <1>7 DEF collectorVars
<1>8. QED
  BY <1>4, <1>5, <1>6, <1>7, StepKinds DEF vars

(* What a directory holds follows from how far its write is.               *)
LEMMA EntriesStep ==
  ASSUME TypeOK, ItemsAreSampled, EntriesFollowWrites, ReviewsAreOfItems, [Next]_vars
  PROVE  EntriesFollowWrites'
<1>1. ASSUME UNCHANGED <<write, entry>>
      PROVE  EntriesFollowWrites'
  BY <1>1 DEF EntriesFollowWrites, Stored
<1>2. ASSUME NEW content \in Contents, NEW transition \in BOOLEAN, Sample(content, transition)
      PROVE  EntriesFollowWrites'
  <2>1. PICK i \in Items :
          /\ entry' = entry /\ ~Stored(i) /\ write[i] = "none" /\ write'[i] = "checking"
          /\ \A k \in Items \ {i} : write'[k] = write[k]
    BY <1>2, SampleEffects
  <2>2. QED
    BY <2>1 DEF EntriesFollowWrites, Stored
<1>3. ASSUME NEW i \in Items, WriteStep(i)
      PROVE  EntriesFollowWrites'
  <2>1. /\ InFlight(i) /\ write'[i] # "none"
        /\ \A k \in Items \ {i} : write'[k] = write[k] /\ entry'[k] = entry[k]
        /\ entry'[i]["tmp"] \in {Absent, "unread", "pending"}
        /\ \A d \in Directory \ {"tmp", "inbox"} : entry'[i][d] = entry[i][d]
    BY <1>3, WriteEffects
  <2>2. Stored(i)' => entry'[i]["tmp"] = Absent /\ write'[i] \in {"stored", "done"}
    <3>1. CASE entry'[i]["inbox"] = entry[i]["inbox"] /\ ~Stored(i)
      BY <2>1, <3>1 DEF Stored
    <3>2. CASE entry'[i] = entry[i] /\ write'[i] = "done"
      BY <3>2 DEF Stored, EntriesFollowWrites
    <3>3. CASE entry'[i]["tmp"] = Absent /\ write'[i] = "stored"
      BY <3>3
    <3>4. QED
      BY <1>3, <3>1, <3>2, <3>3, WriteEffects
  <2>3. write'[i] = "stored" => Stored(i)'
    <3>1. write'[i] = "stored" => entry'[i]["inbox"] = "pending"
      BY <1>3, WriteEffects
    <3>2. QED
      BY <3>1 DEF Stored, Directory, Absent
  <2>4. write'[i] \in {"describing", "naming"} => entry'[i]["tmp"] # Absent
    BY <1>3, WriteEffects DEF EntriesFollowWrites
  <2>5. QED
    BY <2>1, <2>2, <2>3, <2>4 DEF EntriesFollowWrites, Stored
<1>4. CASE Restart
  BY <1>4, RestartEffects DEF EntriesFollowWrites, Stored
<1>5. ASSUME NEW r \in Reviewers, EntriesChange(r)
      PROVE  EntriesFollowWrites'
  BY <1>5, ReviewEffects DEF EntriesFollowWrites, EntriesKept
<1>6. CASE Collect
  <2>1. CASE StopAnalysis \/ \E p \in Profiles : StartAnalysis(p)
    BY <1>1, <2>1 DEF StopAnalysis, StartAnalysis
  <2>2. QED
    BY <1>2, <1>3, <1>6, <2>1 DEF Collect, CollectorNext
<1>7. CASE UNCHANGED collectorVars
  BY <1>1, <1>7 DEF collectorVars
<1>8. QED
  BY <1>4, <1>5, <1>6, <1>7, StepKinds DEF vars

(* Items that were stored stay stored, whatever the step.                  *)
LEMMA StoredStays ==
  ASSUME TypeOK, ItemsAreSampled, EntriesFollowWrites, ReviewsAreOfItems, [Next]_vars,
         NEW k \in Items, Stored(k)
  PROVE  Stored(k)'
<1>1. CASE UNCHANGED entry
  BY <1>1 DEF Stored
<1>2. ASSUME NEW i \in Items, WriteStep(i)
      PROVE  Stored(k)'
  <2>1. CASE entry'[i] = entry[i]
    BY <1>2, <2>1, WriteEffects DEF Stored
  <2>2. CASE ~Stored(i)
    BY <1>2, <2>2, WriteEffects DEF Stored
  <2>3. QED
    BY <1>2, <2>1, <2>2, WriteEffects
<1>3. ASSUME NEW r \in Reviewers, EntriesChange(r)
      PROVE  Stored(k)'
  BY <1>3, ReviewEffects DEF EntriesKept
<1>4. CASE Collect
  BY <1>1, <1>2, <1>4
    DEF Collect, CollectorNext, StopAnalysis, StartAnalysis, Sample
<1>5. CASE Restart
  BY <1>1, <1>5, RestartEffects
<1>6. QED
  BY <1>1, <1>3, <1>4, <1>5, StepKinds DEF vars, collectorVars

(* A client at work was at work, on the same item of the same directory,   *)
(* or has just found it.                                                   *)
LEMMA HandlingStep ==
  ASSUME TypeOK, ItemsAreSampled, EntriesFollowWrites, ReviewsAreOfItems, NEW r \in Reviewers,
         ReviewReads(r), NEW s \in Reviewers, (reviewer[s].pc \in Handling)'
  PROVE  \/ /\ reviewer[s].pc \in Handling /\ reviewer'[s].item = reviewer[s].item
            /\ reviewer'[s].from = reviewer[s].from /\ reviewer'[s].status = reviewer[s].status
            /\ At(s, "moving")' => At(s, "moving")
         \/ /\ s = r /\ ~At(s, "moving")'
            /\ reviewer'[s].item \in Items /\ Found(reviewer'[s].item, reviewer'[s].from)
            /\ reviewer'[s].from \in Directory /\ reviewer'[s].status # "pending"
<1>1. /\ reviewer \in [Reviewers -> Request]
      /\ \A q \in Request : Become(r, q) => /\ reviewer'[r] = q
                                            /\ \A u \in Reviewers \ {r} : reviewer'[u] = reviewer[u]
  BY DEF TypeOK, Become
<1>2. Resting \in Request /\ Resting.pc \notin Handling
  BY Rests DEF Resting, Handling
<1>3. ASSUME NEW i \in Items, NEW d \in Directory, NEW status \in Status,
             BeginReview(r, i, d, status)
      PROVE  /\ \A u \in Reviewers \ {r} : reviewer'[u] = reviewer[u]
             /\ ~At(r, "moving")' /\ reviewer'[r].item = i /\ reviewer'[r].from = d
             /\ Found(i, d) /\ reviewer'[r].status = status /\ status # "pending"
  <2>1. reviewer' = [reviewer EXCEPT ![r] =
          [Resting EXCEPT !.pc = IF status = "promoted" THEN "promoting" ELSE "marking",
                          !.item = i, !.from = d, !.status = status]]
    BY <1>3 DEF BeginReview, Begin, Become
  <2>2. reviewer'[r] = [Resting EXCEPT !.pc = IF status = "promoted" THEN "promoting" ELSE "marking",
                          !.item = i, !.from = d, !.status = status]
    BY <1>1, <2>1
  <2>3. /\ reviewer'[r].pc \in {"promoting", "marking"} /\ reviewer'[r].item = i
        /\ reviewer'[r].from = d /\ reviewer'[r].status = status
    BY <2>2 DEF Resting
  <2>4. QED
    BY <1>1, <1>3, <2>1, <2>3 DEF BeginReview, At
<1>4. ASSUME Choose(r)
      PROVE  /\ \A u \in Reviewers \ {r} : reviewer'[u] = reviewer[u]
             /\ ~At(r, "moving")' /\ reviewer'[r].item \in Items /\ reviewer'[r].from \in Directory
             /\ Found(reviewer'[r].item, reviewer'[r].from) /\ reviewer'[r].status # "pending"
  <2>1. PICK i \in reviewer[r].todo, d \in Directory :
          /\ Found(i, d)
          /\ Become(r, [reviewer[r] EXCEPT
               !.pc = IF Decision(i, reviewer[r]) = "promoted" THEN "promoting" ELSE "marking",
               !.item = i, !.from = d, !.status = Decision(i, reviewer[r]), !.todo = @ \ {i}])
    BY <1>4 DEF Choose
  <2>2. /\ i \in Items /\ Decision(i, reviewer[r]) # "pending"
    BY <1>1, RequestEdits, DecisionIsStatus
  <2>3. reviewer'[r] = [reviewer[r] EXCEPT
               !.pc = IF Decision(i, reviewer[r]) = "promoted" THEN "promoting" ELSE "marking",
               !.item = i, !.from = d, !.status = Decision(i, reviewer[r]), !.todo = @ \ {i}]
    BY <1>1, <2>1 DEF Become
  <2>4. /\ reviewer'[r].pc \in {"promoting", "marking"} /\ reviewer'[r].item = i
        /\ reviewer'[r].from = d /\ reviewer'[r].status = Decision(i, reviewer[r])
    BY <1>1, <2>3 DEF Request
  <2>5. QED
    BY <1>1, <2>1, <2>2, <2>4 DEF At, Become
<1>5. ASSUME ReadSuite(r) \/ WriteSuite(r)
      PROVE  /\ \A u \in Reviewers \ {r} : reviewer'[u] = reviewer[u]
             /\ ~At(r, "moving")' /\ reviewer[r].pc \in Handling
             /\ reviewer'[r].item = reviewer[r].item
             /\ reviewer'[r].from = reviewer[r].from /\ reviewer'[r].status = reviewer[r].status
  <2>1. PICK pc \in {"listing", "marking"}, copy \in {suite[RootOf(r)], {}} :
          reviewer' = [reviewer EXCEPT ![r] = [reviewer[r] EXCEPT !.pc = pc, !.copy = copy]]
    BY <1>5 DEF ReadSuite, WriteSuite, Become
  <2>2. reviewer'[r] = [reviewer[r] EXCEPT !.pc = pc, !.copy = copy]
    BY <1>1, <2>1
  <2>3. /\ reviewer'[r].pc = pc /\ reviewer'[r].item = reviewer[r].item
        /\ reviewer'[r].from = reviewer[r].from /\ reviewer'[r].status = reviewer[r].status
    BY <1>1, <2>2 DEF Request
  <2>4. QED
    BY <1>1, <1>5, <2>1, <2>3 DEF ReadSuite, WriteSuite, At, Handling
<1>6. ASSUME EndBatch(r) \/ FailReview(r) \/ \E p \in Profiles, promote \in BOOLEAN :
               BeginAutoReview(r, p, promote)
      PROVE  /\ \A u \in Reviewers \ {r} : reviewer'[u] = reviewer[u]
             /\ reviewer'[r].pc \notin Handling
  <2>1. CASE EndBatch(r) \/ FailReview(r)
    BY <1>1, <1>2, <2>1 DEF EndBatch, FailReview
  <2>2. ASSUME NEW p \in Profiles, NEW promote \in BOOLEAN, BeginAutoReview(r, p, promote)
        PROVE  /\ \A u \in Reviewers \ {r} : reviewer'[u] = reviewer[u]
               /\ reviewer'[r].pc \notin Handling
    <3>1. reviewer' = [reviewer EXCEPT ![r] =
            [Resting EXCEPT !.pc = "choosing", !.batch = TRUE, !.promote = promote,
                            !.todo = PendingIn(p), !.known = KnownOf(p)]]
      BY <2>2 DEF BeginAutoReview, Begin, Become
    <3>2. reviewer'[r].pc = "choosing"
      BY <1>1, <3>1 DEF Resting
    <3>3. QED
      BY <1>1, <3>1, <3>2 DEF Handling
  <2>3. QED
    BY <1>6, <2>1, <2>2
<1>7. QED
  BY <1>3, <1>4, <1>5, <1>6 DEF ReviewReads, At

(* An item that is found is in a directory that has a name.                *)
LEMMA FoundIsStored ==
  ASSUME NEW i \in Items, NEW d, Found(i, d)
  PROVE  d \in Directory \ {"tmp"} /\ entry[i][d] # Absent /\ Stored(i)
<1>1. d \in {"inbox", "accepted", "rejected", "promoted"} /\ entry[i][d] # Absent
  BY DEF Found, Homes
<1>2. QED
  BY <1>1 DEF Stored, Directory

(* Having marked an item, a client moves it or is done with it.            *)
LEMMA ChangeBecomes ==
  ASSUME TypeOK, NEW r \in Reviewers, EntriesChange(r)
  PROVE  /\ \A s \in Reviewers \ {r} : reviewer'[s] = reviewer[s]
         /\ \/ /\ MarkItem(r) /\ At(r, "marking")
               /\ reviewer'[r] = [reviewer[r] EXCEPT !.pc = "moving"]
            \/ At(r, "marking") /\ Saved(r) /\ HomeOf(reviewer[r].status) = reviewer[r].from
               /\ MarkItem(r)
            \/ At(r, "moving") /\ Saved(r) /\ MoveItem(r)
         /\ Saved(r) => reviewer'[r].pc \in {"idle", "choosing"}
         /\ reviewer'[r].pc \in Handling =>
              /\ MarkItem(r) /\ At(r, "marking") /\ At(r, "moving")' /\ reviewer[r].pc \in Handling
              /\ reviewer'[r].item = reviewer[r].item /\ reviewer'[r].from = reviewer[r].from
              /\ reviewer'[r].status = reviewer[r].status
<1>1. /\ reviewer \in [Reviewers -> Request] /\ reviewer[r] \in Request
      /\ \A q : Become(r, q) => /\ reviewer'[r] = q
                               /\ \A u \in Reviewers \ {r} : reviewer'[u] = reviewer[u]
  BY DEF TypeOK, Become
<1>2. Saved(r) => /\ \A s \in Reviewers \ {r} : reviewer'[s] = reviewer[s]
                  /\ reviewer'[r].pc \in {"idle", "choosing"}
  <2>1. CASE reviewer[r].batch
    <3>1. SUFFICES ASSUME Saved(r)
                   PROVE  /\ \A s \in Reviewers \ {r} : reviewer'[s] = reviewer[s]
                          /\ reviewer'[r].pc \in {"idle", "choosing"}
      OBVIOUS
    <3>2. PICK known :
            reviewer' = [reviewer EXCEPT ![r] =
              [reviewer[r] EXCEPT !.pc = "choosing", !.item = NoOne, !.from = "inbox",
                                  !.status = "pending", !.known = known]]
      BY <2>1, <3>1 DEF Saved, Become
    <3>3. reviewer'[r] = [reviewer[r] EXCEPT !.pc = "choosing", !.item = NoOne, !.from = "inbox",
                                             !.status = "pending", !.known = known]
      BY <1>1, <3>2
    <3>4. QED
      BY <1>1, <3>2, <3>3 DEF Request
  <2>2. CASE ~reviewer[r].batch
    BY <1>1, <2>2 DEF Saved, Resting
  <2>3. QED
    BY <2>1, <2>2
<1>3. CASE MarkItem(r) /\ ~Saved(r)
  <2>1. Become(r, [reviewer[r] EXCEPT !.pc = "moving"]) /\ At(r, "marking")
    BY <1>3 DEF MarkItem
  <2>2. reviewer'[r] = [reviewer[r] EXCEPT !.pc = "moving"]
    BY <1>1, <2>1
  <2>3. QED
    BY <1>1, <1>3, <2>1, <2>2 DEF Request, At, Handling
<1>4. CASE MarkItem(r) /\ Saved(r)
  <2>1. reviewer'[r].pc \in {"idle", "choosing"}
    BY <1>2, <1>4
  <2>2. \/ HomeOf(reviewer[r].status) = reviewer[r].from
        \/ reviewer'[r] = [reviewer[r] EXCEPT !.pc = "moving"]
    BY <1>1, <1>4 DEF MarkItem
  <2>3. HomeOf(reviewer[r].status) = reviewer[r].from
    BY <1>1, <2>1, <2>2 DEF Request
  <2>4. QED
    BY <1>2, <1>4, <2>1, <2>3 DEF MarkItem, Handling
<1>5. CASE MoveItem(r)
  BY <1>2, <1>5 DEF MoveItem, Handling
<1>6. QED
  BY <1>3, <1>4, <1>5 DEF EntriesChange

(* What a client has in hand stays an item while it has it.                *)
LEMMA ReviewsStep ==
  ASSUME TypeOK, ItemsAreSampled, EntriesFollowWrites, ReviewsAreOfItems, [Next]_vars
  PROVE  ReviewsAreOfItems'
<1>1. SUFFICES ASSUME NEW s \in Reviewers, (reviewer[s].pc \in Handling)'
               PROVE  HandlesItem(s)'
  BY DEF ReviewsAreOfItems
<1>2. ASSUME NEW i \in Items, Stored(i), reviewer'[s].item = i,
             NEW d \in Directory \ {"tmp"}, reviewer'[s].from = d,
             reviewer'[s].status # "pending",
             At(s, "moving")' => entry'[i][d] # "pending"
      PROVE  HandlesItem(s)'
  <2>1. Stored(i)'
    BY <1>2, StoredStays
  <2>2. QED
    BY <1>2, <2>1 DEF HandlesItem
<1>3. ASSUME reviewer[s].pc \in Handling,
             reviewer'[s].item = reviewer[s].item, reviewer'[s].from = reviewer[s].from,
             reviewer'[s].status = reviewer[s].status,
             At(s, "moving")' => At(s, "moving"),
             \A k \in Items, d \in Directory \ {"tmp"} :
               Stored(k) /\ entry[k][d] # "pending" => entry'[k][d] # "pending"
      PROVE  HandlesItem(s)'
  <2>1. PICK i \in Items, d \in Directory \ {"tmp"} :
          /\ i = reviewer[s].item /\ Stored(i) /\ d = reviewer[s].from
          /\ reviewer[s].status # "pending"
          /\ At(s, "moving") => entry[i][d] # "pending"
    BY <1>3, InHand
  <2>2. QED
    BY <1>2, <1>3, <2>1
<1>4. ASSUME reviewer'[s] = reviewer[s],
             \A k \in Items, d \in Directory \ {"tmp"} :
               Stored(k) /\ entry[k][d] # "pending" => entry'[k][d] # "pending"
      PROVE  HandlesItem(s)'
  BY <1>1, <1>3, <1>4 DEF At
<1>5. CASE Collect
  <2>1. reviewer' = reviewer
    BY <1>5 DEF Collect
  <2>2. ASSUME NEW i \in Items, WriteStep(i), NEW k \in Items, NEW d \in Directory \ {"tmp"},
               Stored(k), entry[k][d] # "pending"
        PROVE  entry'[k][d] # "pending"
    BY <2>2, WriteEffects
  <2>3. \A k \in Items, d \in Directory \ {"tmp"} :
          Stored(k) /\ entry[k][d] # "pending" => entry'[k][d] # "pending"
    BY <1>5, <2>2 DEF Collect, CollectorNext, StopAnalysis, StartAnalysis, Sample
  <2>4. QED
    BY <1>4, <2>1, <2>3
<1>6. CASE Restart
  BY <1>1, <1>6, RestartEffects DEF Resting, Handling
<1>7. ASSUME NEW r \in Reviewers, ReviewReads(r), UNCHANGED collectorVars
      PROVE  HandlesItem(s)'
  <2>1. entry' = entry
    BY <1>7 DEF collectorVars
  <2>2. CASE /\ reviewer[s].pc \in Handling /\ reviewer'[s].item = reviewer[s].item
             /\ reviewer'[s].from = reviewer[s].from /\ reviewer'[s].status = reviewer[s].status
             /\ At(s, "moving")' => At(s, "moving")
    BY <1>3, <2>1, <2>2
  <2>3. CASE /\ ~At(s, "moving")'
             /\ reviewer'[s].item \in Items /\ Found(reviewer'[s].item, reviewer'[s].from)
             /\ reviewer'[s].from \in Directory /\ reviewer'[s].status # "pending"
    <3>1. PICK i \in Items, d \in Directory :
            i = reviewer'[s].item /\ d = reviewer'[s].from /\ Found(i, d)
      BY <2>3
    <3>2. d \in Directory \ {"tmp"} /\ Stored(i)
      BY <3>1, FoundIsStored
    <3>3. QED
      BY <1>2, <2>3, <3>1, <3>2
  <2>4. QED
    BY <1>1, <1>7, <2>2, <2>3, HandlingStep
<1>8. ASSUME NEW r \in Reviewers, EntriesChange(r)
      PROVE  HandlesItem(s)'
  <2>1. \A k \in Items, d \in Directory \ {"tmp"} :
          entry[k][d] # "pending" => entry'[k][d] # "pending"
    <3>1. CASE MarkItem(r)
      <4>1. PICK i \in Items, from \in Directory \ {"tmp"}, status \in Status \ {"pending"} :
              entry' = [entry EXCEPT ![i][from] = status]
        BY <3>1, InHand DEF MarkItem, At, Handling
      <4>2. QED
        BY <4>1 DEF TypeOK, CollectorTypeOK, Entries
    <3>2. CASE MoveItem(r)
      <4>1. PICK i \in Items, from \in Directory \ {"tmp"}, to \in Directory \ {"tmp"} :
              Move(r, i, from, to)
        BY <3>2, Moved
      <4>2. Absent # "pending"
        BY DEF Absent
      <4>3. \A d \in Directory \ {"tmp"} :
              entry[i][d] # "pending" => entry'[i][d] # "pending"
        BY <4>1, <4>2 DEF Move
      <4>4. QED
        BY <4>1, <4>3 DEF Move
    <3>3. QED
      BY <1>8, <3>1, <3>2 DEF EntriesChange
  <2>2. CASE s # r
    <3>1. reviewer'[s] = reviewer[s]
      BY <1>8, <2>2, ChangeBecomes
    <3>2. QED
      BY <1>4, <2>1, <3>1
  <2>3. CASE s = r
    <3>1. /\ MarkItem(r) /\ reviewer[r].pc \in Handling
          /\ reviewer'[r].item = reviewer[r].item /\ reviewer'[r].from = reviewer[r].from
          /\ reviewer'[r].status = reviewer[r].status
      BY <1>1, <1>8, <2>3, ChangeBecomes
    <3>2. PICK i \in Items, d \in Directory \ {"tmp"} : Mark(r, i, d)
      BY <3>1, Marked
    <3>3. Stored(i) /\ entry'[i][d] # "pending"
      BY <3>2 DEF Mark
    <3>4. QED
      BY <1>2, <2>3, <3>1, <3>2, <3>3 DEF Mark
  <2>4. QED
    BY <2>2, <2>3
<1>9. CASE UNCHANGED vars
  BY <1>4, <1>9 DEF vars, collectorVars, reviewVars
<1>10. QED
  BY <1>5, <1>6, <1>7, <1>8, <1>9, StepKinds

-----------------------------------------------------------------------------
(* A sample waits for the write of the sample before it.                   *)
LEMMA OneWriteStep ==
  ASSUME TypeOK, ItemsAreSampled, EntriesFollowWrites, ReviewsAreOfItems, OneWriteAtATime,
         [Next]_vars
  PROVE  OneWriteAtATime'
<1>1. ASSUME UNCHANGED <<write, runtime, sampled, orphaned>>
      PROVE  OneWriteAtATime'
  BY <1>1 DEF OneWriteAtATime, InFlight
<1>2. ASSUME NEW content \in Contents, NEW transition \in BOOLEAN, Sample(content, transition)
      PROVE  OneWriteAtATime'
  <2>1. PICK i \in Items :
          /\ ~runtime.writing /\ runtime'.writing /\ orphaned' = orphaned
          /\ write'[i] = "checking"
          /\ \A k \in Items : write[k] # "none" <=> k < i
          /\ \A k \in Items \ {i} : write'[k] = write[k]
          /\ sampled' = sampled \cup {i}
    BY <1>2, SampleEffects
  <2>2. sampled \subseteq Items /\ sampled' \subseteq Items
    BY <2>1 DEF TypeOK, CollectorTypeOK
  <2>3. \A j \in sampled : write[j] # "none" /\ j < i
    BY <2>1, <2>2 DEF OneWriteAtATime
  <2>4. \A j \in sampled' : write'[j] # "none" /\ j <= i
    BY <2>1, <2>2, <2>3 DEF Items
  <2>5. ~orphaned => \A k \in Items \ {i} : ~InFlight(k)'
    BY <2>1 DEF OneWriteAtATime, InFlight
  <2>6. QED
    BY <2>1, <2>4, <2>5 DEF OneWriteAtATime
<1>3. ASSUME NEW i \in Items, WriteStep(i)
      PROVE  OneWriteAtATime'
  <2>1. /\ UNCHANGED <<sampled, orphaned>> /\ InFlight(i) /\ write'[i] # "none"
        /\ \A k \in Items \ {i} : write'[k] = write[k]
    BY <1>3, WriteEffects
  <2>2. \A k \in sampled' : write'[k] # "none"
    BY <2>1 DEF OneWriteAtATime, TypeOK, CollectorTypeOK
  <2>3. ~orphaned => \A k \in Items \ {i} : ~InFlight(k)
    <3>1. SUFFICES ASSUME ~orphaned, NEW k \in Items \ {i}, InFlight(k)
                   PROVE  FALSE
      OBVIOUS
    <3>2. i \in sampled /\ k \in sampled /\ i <= k /\ k <= i
      BY <2>1, <3>1 DEF OneWriteAtATime
    <3>3. QED
      BY <3>1, <3>2 DEF Items
  <2>4. CASE FinishWrite(i)
    <3>1. ~InFlight(i)'
      BY <2>4, ProceedsAlone DEF FinishWrite, InFlight, WritePhase
    <3>2. QED
      BY <2>1, <2>2, <2>3, <3>1 DEF OneWriteAtATime, InFlight
  <2>5. CASE ~FinishWrite(i)
    <3>1. runtime' = runtime
      BY <1>3, <2>5, WriteEffects
    <3>2. QED
      BY <2>1, <2>2, <2>3, <3>1 DEF OneWriteAtATime, InFlight
  <2>6. QED
    BY <2>4, <2>5
<1>4. CASE Restart
  BY <1>4, RestartEffects DEF OneWriteAtATime, InFlight
<1>5. ASSUME NEW p \in Profiles, StartAnalysis(p)
      PROVE  OneWriteAtATime'
  <2>1. CASE UNCHANGED <<runtime, sampled, orphaned>>
    BY <1>1, <1>5, <2>1, StartEffects
  <2>2. CASE sampled' = {} /\ (~orphaned' => \A i \in Items : ~InFlight(i))
    BY <1>5, <2>2, StartEffects DEF OneWriteAtATime, InFlight
  <2>3. QED
    BY <1>5, <2>1, <2>2, StartEffects
<1>6. ASSUME NEW r \in Reviewers, EntriesChange(r)
      PROVE  OneWriteAtATime'
  BY <1>1, <1>6, ReviewEffects
<1>7. CASE Collect
  <2>1. CASE StopAnalysis
    BY <1>1, <2>1 DEF StopAnalysis
  <2>2. QED
    BY <1>2, <1>3, <1>5, <1>7, <2>1 DEF Collect, CollectorNext
<1>8. CASE UNCHANGED collectorVars
  BY <1>1, <1>8 DEF collectorVars
<1>9. QED
  BY <1>4, <1>6, <1>7, <1>8, StepKinds DEF vars

-----------------------------------------------------------------------------
(* Counting items.                                                         *)
LEMMA ItemCounts ==
  ASSUME NEW S \in SUBSET Items, NEW T \in SUBSET Items
  PROVE  /\ IsFiniteSet(S) /\ Cardinality(S) \in Nat
         /\ S \subseteq T => Cardinality(S) <= Cardinality(T)
         /\ \A i \in Items : S \subseteq T \cup {i} => Cardinality(S) <= Cardinality(T) + 1
<1>1. IsFiniteSet(Items)
  BY FS_Interval, CollectorAssumption DEF Items
<1>2. \A R \in SUBSET Items : IsFiniteSet(R) /\ Cardinality(R) \in Nat
  BY <1>1, FS_Subset, FS_CardinalityType
<1>3. \A R, U \in SUBSET Items : R \subseteq U => Cardinality(R) <= Cardinality(U)
  BY <1>2, FS_Subset
<1>4. \A i \in Items : Cardinality(T \cup {i}) <= Cardinality(T) + 1
  BY <1>2, FS_AddElement
<1>5. \A i \in Items : S \subseteq T \cup {i} => Cardinality(S) <= Cardinality(T) + 1
  <2>1. SUFFICES ASSUME NEW i \in Items, S \subseteq T \cup {i}
                 PROVE  Cardinality(S) <= Cardinality(T) + 1
    OBVIOUS
  <2>2. Cardinality(S) <= Cardinality(T \cup {i}) /\ Cardinality(T \cup {i}) \in Nat
    BY <1>2, <1>3, <2>1
  <2>3. QED
    BY <1>2, <1>4, <2>2
<1>6. QED
  BY <1>2, <1>3, <1>5

(* The write that found room stores one item, and no other write does.     *)
LEMMA RoomStep ==
  ASSUME TypeOK, ItemsAreSampled, EntriesFollowWrites, ReviewsAreOfItems, OneWriteAtATime,
         RoomIsLeft, [Next]_vars
  PROVE  RoomIsLeft'
<1>1. \A p : UnreviewedOf(p) \in SUBSET Items /\ UnreviewedOf(p)' \in SUBSET Items
  BY DEF UnreviewedOf
<1>2. MaxPending \in Nat
  BY CollectorAssumption
<1>3. ASSUME ~orphaned' => ~orphaned,
             \A p \in Profiles : UnreviewedOf(p)' \subseteq UnreviewedOf(p),
             \A i \in Items, p \in Profiles :
               write'[i] = "storing" /\ item'[i].profile = p =>
                 \/ write[i] = "storing" /\ item[i].profile = p
                 \/ Cardinality(UnreviewedOf(p)) < MaxPending
      PROVE  RoomIsLeft'
  <2>1. SUFFICES ASSUME ~orphaned'
                 PROVE  /\ \A p \in Profiles : Cardinality(UnreviewedOf(p)') <= MaxPending
                        /\ \A i \in Items, p \in Profiles :
                             write'[i] = "storing" /\ item'[i].profile = p
                               => Cardinality(UnreviewedOf(p)') < MaxPending
    BY DEF RoomIsLeft
  <2>2. \A p \in Profiles : /\ Cardinality(UnreviewedOf(p)') \in Nat
                            /\ Cardinality(UnreviewedOf(p)) \in Nat
                            /\ Cardinality(UnreviewedOf(p)') <= Cardinality(UnreviewedOf(p))
    BY <1>1, <1>3, ItemCounts
  <2>3. /\ \A p \in Profiles : Cardinality(UnreviewedOf(p)) <= MaxPending
        /\ \A i \in Items, p \in Profiles :
             write'[i] = "storing" /\ item'[i].profile = p
               => Cardinality(UnreviewedOf(p)) < MaxPending
    BY <1>3, <2>1 DEF RoomIsLeft
  <2>4. QED
    BY <1>2, <2>2, <2>3
<1>4. ASSUME UNCHANGED <<write, item, entry, orphaned>>
      PROVE  RoomIsLeft'
  BY <1>4 DEF RoomIsLeft, UnreviewedOf, Unreviewed
<1>5. ASSUME NEW content \in Contents, NEW transition \in BOOLEAN, Sample(content, transition)
      PROVE  RoomIsLeft'
  <2>1. PICK i \in Items :
          /\ UNCHANGED <<entry, orphaned>> /\ write'[i] = "checking"
          /\ \A k \in Items \ {i} : write'[k] = write[k] /\ item'[k] = item[k]
          /\ ~Unreviewed(i)
    BY <1>5, SampleEffects
  <2>2. \A p \in Profiles : UnreviewedOf(p)' \subseteq UnreviewedOf(p)
    BY <2>1 DEF UnreviewedOf, Unreviewed
  <2>3. QED
    BY <1>3, <2>1, <2>2
<1>6. ASSUME NEW i \in Items, WriteStep(i)
      PROVE  RoomIsLeft'
  <2>1. /\ UNCHANGED <<item, orphaned>> /\ InFlight(i)
        /\ \A k \in Items \ {i} : write'[k] = write[k] /\ entry'[k] = entry[k]
        /\ write[i] # "storing" => (Unreviewed(i)' => Unreviewed(i))
        /\ write'[i] = "storing"
             => write[i] = "checking" /\ Cardinality(PendingOf(item[i].profile)) < MaxPending
    BY <1>6, WriteEffects
  <2>2. CASE write[i] # "storing"
    <3>1. \A p \in Profiles : UnreviewedOf(p)' \subseteq UnreviewedOf(p)
      BY <2>1, <2>2 DEF UnreviewedOf, Unreviewed
    <3>2. ASSUME NEW p \in Profiles, write'[i] = "storing", item'[i].profile = p
          PROVE  Cardinality(UnreviewedOf(p)) < MaxPending
      <4>1. item[i].profile = p /\ Cardinality(PendingOf(p)) < MaxPending
        BY <2>1, <3>2
      <4>2. UnreviewedOf(p) \subseteq PendingOf(p) /\ PendingOf(p) \in SUBSET Items
        BY DEF UnreviewedOf, PendingOf, Unreviewed, CountsAsPending, Absent
      <4>3. /\ Cardinality(UnreviewedOf(p)) <= Cardinality(PendingOf(p))
            /\ Cardinality(UnreviewedOf(p)) \in Nat /\ Cardinality(PendingOf(p)) \in Nat
        BY <1>1, <4>2, ItemCounts
      <4>4. QED
        BY <1>2, <4>1, <4>3
    <3>3. \A k \in Items, p \in Profiles :
               write'[k] = "storing" /\ item'[k].profile = p =>
                 \/ write[k] = "storing" /\ item[k].profile = p
                 \/ Cardinality(UnreviewedOf(p)) < MaxPending
      BY <2>1, <3>2
    <3>4. QED
      BY <1>3, <2>1, <3>1, <3>3
  <2>3. CASE write[i] = "storing"
    <3>1. SUFFICES ASSUME ~orphaned
                   PROVE  RoomIsLeft'
      BY <2>1 DEF RoomIsLeft
    <3>2. \A k \in Items : write'[k] # "storing"
      <4>1. SUFFICES ASSUME NEW k \in Items, write'[k] = "storing"
                     PROVE  FALSE
        OBVIOUS
      <4>2. k # i /\ write[k] = "storing"
        BY <2>1, <2>3, <4>1
      <4>3. i \in sampled /\ k \in sampled /\ i <= k /\ k <= i
        BY <2>3, <3>1, <4>2 DEF OneWriteAtATime, InFlight
      <4>4. QED
        BY <4>2, <4>3 DEF Items
    <3>3. ASSUME NEW p \in Profiles
          PROVE  Cardinality(UnreviewedOf(p)') <= MaxPending
      <4>1. CASE item[i].profile = p
        <5>1. Cardinality(UnreviewedOf(p)) < MaxPending
          BY <2>3, <3>1, <4>1 DEF RoomIsLeft
        <5>2. UnreviewedOf(p)' \subseteq UnreviewedOf(p) \cup {i}
          BY <2>1 DEF UnreviewedOf, Unreviewed
        <5>3. /\ Cardinality(UnreviewedOf(p)') <= Cardinality(UnreviewedOf(p)) + 1
              /\ Cardinality(UnreviewedOf(p)') \in Nat /\ Cardinality(UnreviewedOf(p)) \in Nat
          BY <1>1, <5>2, ItemCounts
        <5>4. QED
          BY <1>2, <5>1, <5>3
      <4>2. CASE item[i].profile # p
        <5>1. UnreviewedOf(p)' \subseteq UnreviewedOf(p)
          BY <2>1, <4>2 DEF UnreviewedOf, Unreviewed
        <5>2. /\ Cardinality(UnreviewedOf(p)') <= Cardinality(UnreviewedOf(p))
              /\ Cardinality(UnreviewedOf(p)') \in Nat /\ Cardinality(UnreviewedOf(p)) \in Nat
          BY <1>1, <5>1, ItemCounts
        <5>3. Cardinality(UnreviewedOf(p)) <= MaxPending
          BY <3>1 DEF RoomIsLeft
        <5>4. QED
          BY <1>2, <5>2, <5>3
      <4>3. QED
        BY <4>1, <4>2
    <3>4. QED
      BY <3>2, <3>3 DEF RoomIsLeft
  <2>4. QED
    BY <2>2, <2>3
<1>7. CASE Restart
  <2>1. \A p \in Profiles : UnreviewedOf(p)' \subseteq UnreviewedOf(p)
    BY <1>7, RestartEffects DEF UnreviewedOf, Unreviewed
  <2>2. QED
    BY <1>3, <1>7, <2>1, RestartEffects
<1>8. ASSUME NEW p \in Profiles, StartAnalysis(p)
      PROVE  RoomIsLeft'
  <2>1. UNCHANGED <<write, item, entry>> /\ (~orphaned' => ~orphaned)
    BY <1>8, StartEffects
  <2>2. \A q \in Profiles : UnreviewedOf(q)' \subseteq UnreviewedOf(q)
    BY <2>1 DEF UnreviewedOf, Unreviewed
  <2>3. QED
    BY <1>3, <2>1, <2>2
<1>9. ASSUME NEW r \in Reviewers, EntriesChange(r)
      PROVE  RoomIsLeft'
  <2>1. \A p \in Profiles : UnreviewedOf(p)' \subseteq UnreviewedOf(p)
    BY <1>9, ReviewEffects DEF UnreviewedOf, EntriesKept
  <2>2. QED
    BY <1>3, <1>9, <2>1, ReviewEffects
<1>10. CASE Collect
  <2>1. CASE StopAnalysis
    BY <1>4, <2>1 DEF StopAnalysis
  <2>2. QED
    BY <1>5, <1>6, <1>8, <1>10, <2>1 DEF Collect, CollectorNext
<1>11. CASE UNCHANGED collectorVars
  BY <1>4, <1>11 DEF collectorVars
<1>12. QED
  BY <1>7, <1>9, <1>10, <1>11, StepKinds DEF vars

-----------------------------------------------------------------------------
(* Contents resemble each other, or neither the other.                     *)
LEMMA ResemblanceIsMutual ==
  ASSUME NEW c, NEW d, Resembles(c, d)
  PROVE  Resembles(d, c)
BY DEF Resembles, Similar

(* The runtime compares with the content stored last, whoever stores it.   *)
LEMMA ReferenceStep ==
  ASSUME TypeOK, ItemsAreSampled, EntriesFollowWrites, ReviewsAreOfItems, OneWriteAtATime,
         ReferenceIsLast, [Next]_vars
  PROVE  ReferenceIsLast'
<1>1. sampled \in SUBSET Items /\ \A i \in Items : i \in Int
  BY DEF TypeOK, CollectorTypeOK, Items
<1>2. ASSUME ~orphaned' => ~orphaned, UNCHANGED <<item, sampled, eventful>>,
             runtime'.reference = runtime.reference,
             \A i \in Items : /\ Stored(i)' <=> Stored(i)
                              /\ Settled(i)' <=> Settled(i)
                              /\ InFlight(i)' => InFlight(i)
      PROVE  ReferenceIsLast'
  <2>1. SUFFICES ASSUME ~orphaned', ~orphaned
                 PROVE  ReferenceIsLast'
    BY <1>2 DEF ReferenceIsLast
  <2>2. ASSUME NEW i \in sampled, Settled(i)', \A k \in sampled : i < k => ~Settled(k)'
        PROVE  runtime'.reference = item'[i].content
    BY <1>1, <1>2, <2>1, <2>2 DEF ReferenceIsLast
  <2>3. ASSUME NEW i \in sampled, NEW j \in sampled,
               i < j, Stored(i)', Stored(j)' \/ InFlight(j)',
               \A k \in sampled : i < k /\ k < j => ~Stored(k)'
        PROVE  ~Resembles(item'[i].content, item'[j].content) \/ j \in eventful'
    BY <1>1, <1>2, <2>1, <2>3 DEF ReferenceIsLast
  <2>4. QED
    BY <1>2, <2>2, <2>3 DEF ReferenceIsLast
<1>3. ASSUME sampled' = {}
      PROVE  ReferenceIsLast'
  BY <1>3 DEF ReferenceIsLast
<1>4. ASSUME NEW content \in Contents, NEW transition \in BOOLEAN, Sample(content, transition),
             ~orphaned
      PROVE  ReferenceIsLast'
  <2>1. PICK i \in Items :
          /\ ~runtime.writing /\ runtime'.reference = runtime.reference
          /\ UNCHANGED <<entry, orphaned>>
          /\ write[i] = "none" /\ write'[i] = "checking"
          /\ \A k \in Items : write[k] # "none" <=> k < i
          /\ item'[i].content = content
          /\ \A k \in Items \ {i} : write'[k] = write[k] /\ item'[k] = item[k]
          /\ sampled' = sampled \cup {i}
          /\ IF Seen(content) THEN eventful' = eventful \cup {i} ELSE eventful' = eventful
          /\ ~Stored(i)
    BY <1>4, SampleEffects
  <2>2. \A k \in sampled : k \in Items /\ k < i /\ write[k] = "done"
    BY <1>1, <1>4, <2>1 DEF OneWriteAtATime, InFlight
  <2>3. /\ \A k \in Items : Stored(k)' <=> Stored(k)
        /\ \A k \in Items : Settled(k)' <=> Settled(k)
    BY <2>1 DEF Stored, Settled
  <2>4. eventful \subseteq eventful' /\ (Seen(content) => i \in eventful')
    BY <2>1
  <2>5. ASSUME NEW k \in sampled', Settled(k)', \A l \in sampled' : k < l => ~Settled(l)'
        PROVE  runtime'.reference = item'[k].content
    <3>1. k \in sampled /\ k # i
      BY <2>1, <2>2, <2>3, <2>5 DEF Settled
    <3>2. QED
      BY <1>1, <1>4, <2>1, <2>2, <2>3, <2>5, <3>1 DEF ReferenceIsLast
  <2>6. ASSUME NEW k \in sampled', NEW j \in sampled', k < j, Stored(k)', Stored(j)' \/ InFlight(j)',
               \A l \in sampled' : k < l /\ l < j => ~Stored(l)'
        PROVE  ~Resembles(item'[k].content, item'[j].content) \/ j \in eventful'
    <3>1. k \in sampled /\ k # i /\ k \in Items /\ Stored(k)
      BY <2>1, <2>2, <2>3, <2>6
    <3>2. CASE j = i
      <4>1. Settled(k)
        BY <2>2, <3>1 DEF Settled
      <4>2. \A l \in sampled : k < l => ~Settled(l)
        BY <2>1, <2>2, <2>3, <2>6, <3>2 DEF Settled
      <4>3. runtime.reference = item[k].content
        BY <1>4, <3>1, <4>1, <4>2 DEF ReferenceIsLast
      <4>4. item[k].content \in Contents /\ item[k].content # NoContent
        BY <3>1, ReviewedContents, ContentAssumption
      <4>5. Seen(content) \/ ~Resembles(content, item[k].content)
        BY <4>3, <4>4 DEF Seen
      <4>6. Seen(content) \/ ~Resembles(item[k].content, content)
        BY <4>5, ResemblanceIsMutual
      <4>7. item'[k].content = item[k].content /\ item'[j].content = content
        BY <2>1, <3>1, <3>2
      <4>8. QED
        BY <2>4, <3>2, <4>6, <4>7
    <3>3. CASE j # i
      <4>1. j \in sampled /\ j \in Items /\ (Stored(j) \/ InFlight(j))
        BY <2>1, <2>2, <2>3, <2>6, <3>3 DEF InFlight
      <4>2. \A l \in sampled : k < l /\ l < j => ~Stored(l)
        BY <2>1, <2>2, <2>3, <2>6
      <4>3. ~Resembles(item[k].content, item[j].content) \/ j \in eventful
        BY <1>4, <2>6, <3>1, <4>1, <4>2 DEF ReferenceIsLast
      <4>4. item'[k] = item[k] /\ item'[j] = item[j]
        BY <2>1, <3>1, <3>3, <4>1
      <4>5. QED
        BY <2>4, <4>3, <4>4
    <3>4. QED
      BY <3>2, <3>3
  <2>7. QED
    BY <2>5, <2>6 DEF ReferenceIsLast
<1>5. ASSUME NEW i \in Items, WriteStep(i), ~orphaned
      PROVE  ReferenceIsLast'
  <2>1. /\ UNCHANGED <<item, sampled, eventful, orphaned>>
        /\ InFlight(i) /\ \A k \in Items \ {i} : write'[k] = write[k] /\ entry'[k] = entry[k]
        /\ \A d \in Directory \ {"tmp", "inbox"} : entry'[i][d] = entry[i][d]
        /\ ~FinishWrite(i) => InFlight(i)' /\ runtime' = runtime
    BY <1>5, WriteEffects
  <2>2. /\ i \in sampled /\ \A j \in sampled : j \in Items /\ j <= i
        /\ \A k \in Items \ {i} : /\ Stored(k)' <=> Stored(k)
                                  /\ Settled(k)' <=> Settled(k)
                                  /\ InFlight(k)' <=> InFlight(k)
        /\ ~Settled(i)
    BY <1>1, <1>5, <2>1 DEF OneWriteAtATime, Stored, Settled, InFlight
  <2>3. CASE entry'[i]["inbox"] = entry[i]["inbox"] /\ ~FinishWrite(i)
    <3>1. Stored(i)' <=> Stored(i)
      BY <2>1, <2>3 DEF Stored
    <3>2. ~Settled(i)'
      BY <2>1, <2>3 DEF Settled, InFlight
    <3>3. runtime'.reference = runtime.reference
      BY <2>1, <2>3
    <3>4. QED
      BY <1>2, <2>1, <2>2, <3>1, <3>2, <3>3
  <2>4. CASE FinishWrite(i)
    <3>1. entry' = entry /\ write'[i] = "done" /\ write[i] \in {"stored", "failed"}
          /\ (write[i] = "stored" => runtime'.reference = item[i].content)
          /\ (write[i] = "failed" => runtime'.reference = runtime.reference)
      BY <2>4, ProceedsAlone DEF FinishWrite, WritePhase, TypeOK, CollectorTypeOK, Runtimes
    <3>2. Stored(i)' <=> Stored(i)
      BY <3>1 DEF Stored
    <3>3. ~InFlight(i)'
      BY <3>1 DEF InFlight
    <3>4. CASE write[i] = "failed"
      <4>1. ~Stored(i) /\ ~Settled(i)'
        BY <3>2, <3>4 DEF EntriesFollowWrites, Settled
      <4>2. QED
        BY <1>2, <2>1, <2>2, <3>1, <3>2, <3>3, <3>4, <4>1
    <3>5. CASE write[i] = "stored"
      <4>1. Settled(i)'
        BY <3>1, <3>2, <3>5 DEF EntriesFollowWrites, Settled
      <4>2. ASSUME NEW k \in sampled, Settled(k)', \A l \in sampled : k < l => ~Settled(l)'
            PROVE  runtime'.reference = item'[k].content
        <5>1. k = i
          BY <1>1, <2>2, <4>1, <4>2
        <5>2. QED
          BY <2>1, <3>1, <3>5, <5>1
      <4>3. ASSUME NEW k \in sampled, NEW j \in sampled,
                   k < j, Stored(k)', Stored(j)' \/ InFlight(j)',
                   \A l \in sampled : k < l /\ l < j => ~Stored(l)'
            PROVE  ~Resembles(item'[k].content, item'[j].content) \/ j \in eventful'
        <5>1. \A l \in sampled : Stored(l)' <=> Stored(l)
          BY <2>2, <3>2
        <5>2. Stored(j) \/ InFlight(j)
          BY <2>1, <2>2, <4>3
        <5>3. QED
          BY <1>5, <2>1, <4>3, <5>1, <5>2 DEF ReferenceIsLast
      <4>4. QED
        BY <2>1, <4>2, <4>3 DEF ReferenceIsLast
    <3>6. QED
      BY <3>1, <3>4, <3>5
  <2>5. CASE ~Stored(i) /\ write'[i] = "stored" /\ ~FinishWrite(i)
    <3>1. ~Settled(i)' /\ runtime'.reference = runtime.reference
      BY <2>1, <2>5 DEF Settled
    <3>2. ASSUME NEW k \in sampled, Settled(k)', \A l \in sampled : k < l => ~Settled(l)'
          PROVE  runtime'.reference = item'[k].content
      BY <1>5, <2>1, <2>2, <3>1, <3>2 DEF ReferenceIsLast
    <3>3. ASSUME NEW k \in sampled, NEW j \in sampled,
                 k < j, Stored(k)', Stored(j)' \/ InFlight(j)',
                 \A l \in sampled : k < l /\ l < j => ~Stored(l)'
          PROVE  ~Resembles(item'[k].content, item'[j].content) \/ j \in eventful'
      <4>1. k # i /\ Stored(k)
        BY <1>1, <2>2, <3>3
      <4>2. \A l \in sampled : k < l /\ l < j => ~Stored(l)
        <5>1. \A l \in sampled : k < l /\ l < j => l # i
          BY <1>1, <2>2
        <5>2. QED
          BY <2>2, <3>3, <5>1
      <4>3. Stored(j) \/ InFlight(j)
        BY <2>1, <2>2, <3>3
      <4>4. QED
        BY <1>5, <2>1, <3>3, <4>1, <4>2, <4>3 DEF ReferenceIsLast
    <3>4. QED
      BY <2>1, <3>2, <3>3 DEF ReferenceIsLast
  <2>6. QED
    BY <1>5, <2>3, <2>4, <2>5, WriteEffects
<1>6. ASSUME NEW p \in Profiles, StartAnalysis(p)
      PROVE  ReferenceIsLast'
  <2>1. CASE UNCHANGED <<runtime, sampled, eventful, orphaned>>
    BY <1>2, <1>6, <2>1, StartEffects DEF Stored, Settled, InFlight
  <2>2. QED
    BY <1>3, <1>6, <2>1, StartEffects
<1>7. ASSUME NEW r \in Reviewers, EntriesChange(r)
      PROVE  ReferenceIsLast'
  BY <1>2, <1>7, ReviewEffects DEF EntriesKept, Settled, InFlight
<1>8. CASE Collect
  <2>1. CASE StopAnalysis
    BY <1>2, <2>1 DEF StopAnalysis, Stored, Settled, InFlight
  <2>2. ASSUME NEW content \in Contents, NEW transition \in BOOLEAN, Sample(content, transition),
               orphaned
        PROVE  ReferenceIsLast'
    BY <2>2 DEF Sample, ReferenceIsLast
  <2>3. ASSUME NEW i \in Items, WriteStep(i), orphaned
        PROVE  ReferenceIsLast'
    BY <2>3, WriteEffects DEF ReferenceIsLast
  <2>4. QED
    BY <1>4, <1>5, <1>6, <1>8, <2>1, <2>2, <2>3 DEF Collect, CollectorNext
<1>9. CASE Restart
  BY <1>3, <1>9, RestartEffects
<1>10. CASE UNCHANGED collectorVars
  BY <1>2, <1>10 DEF collectorVars, Stored, Settled, InFlight
<1>11. QED
  BY <1>7, <1>8, <1>9, <1>10, StepKinds DEF vars

-----------------------------------------------------------------------------
(* What clients do while they take turns.                                  *)
LEMMA Becomes ==
  ASSUME TypeOK, NEW r \in Reviewers, NEW q, Become(r, q)
  PROVE  reviewer'[r] = q /\ \A s \in Reviewers \ {r} : reviewer'[s] = reviewer[s]
BY DEF TypeOK, Become

(* The first step of a review comes when nobody is at work, and the others *)
(* come from the one who is.                                               *)
LEMMA TurnOf ==
  ASSUME TypeOK, OneAtWork, ~overlapped', NEW r \in Reviewers,
         ReviewReads(r) \/ EntriesChange(r)
  PROVE  /\ \A s \in Reviewers \ {r} : At(s, "idle") /\ reviewer'[s] = reviewer[s]
         /\ OneAtWork'
<1>1. \A s \in Reviewers \ {r} : reviewer'[s] = reviewer[s]
  BY Becomes, ChangeBecomes
    DEF ReviewReads, BeginReview, BeginAutoReview, Begin, Choose, EndBatch, ReadSuite,
        WriteSuite, FailReview
<1>2. \A s \in Reviewers \ {r} : At(s, "idle")
  <2>1. CASE \E q : Begin(r, q)
    BY <2>1 DEF Begin
  <2>2. CASE ~At(r, "idle")
    BY <2>2 DEF OneAtWork
  <2>3. QED
    <3>1. CASE ReviewReads(r)
      BY <2>1, <2>2, <3>1
        DEF ReviewReads, BeginReview, BeginAutoReview, Choose, EndBatch, ReadSuite, WriteSuite,
            FailReview, At
    <3>2. CASE EntriesChange(r)
      BY <2>2, <3>2 DEF EntriesChange, MarkItem, MoveItem, At
    <3>3. QED
      BY <3>1, <3>2
<1>3. QED
  BY <1>1, <1>2 DEF OneAtWork, At

(* What the steps of a review that change no item make of its request.     *)
LEMMA ReadEffects ==
  ASSUME TypeOK, ReviewsAreOfItems, NEW r \in Reviewers, ReviewReads(r)
  PROVE  \/ /\ \E i \in Items, d \in Directory, status \in Status \ {"pending"} :
                 /\ Found(i, d)
                 /\ reviewer'[r].item = i /\ reviewer'[r].from = d /\ reviewer'[r].status = status
                 /\ IF status = "promoted" THEN At(r, "promoting")' ELSE At(r, "marking")'
                 /\ \/ ~reviewer'[r].batch
                    \/ /\ At(r, "choosing") /\ i \in reviewer[r].todo
                       /\ reviewer'[r].todo = reviewer[r].todo \ {i}
                       /\ reviewer'[r].known = reviewer[r].known
                       /\ reviewer'[r].batch = reviewer[r].batch
                       /\ status = Decision(i, reviewer[r])
            /\ suite' = suite
         \/ /\ \E p \in Profiles :
                 /\ reviewer'[r].item = NoOne /\ reviewer'[r].batch
                 /\ reviewer'[r].todo = PendingIn(p) /\ reviewer'[r].known = KnownOf(p)
            /\ At(r, "choosing")' /\ suite' = suite
         \/ At(r, "idle")' /\ suite' = suite
         \/ /\ reviewer[r].pc \in Handling
            /\ reviewer'[r].item = reviewer[r].item /\ reviewer'[r].from = reviewer[r].from
            /\ reviewer'[r].status = reviewer[r].status /\ reviewer'[r].batch = reviewer[r].batch
            /\ reviewer'[r].todo = reviewer[r].todo /\ reviewer'[r].known = reviewer[r].known
            /\ \/ /\ At(r, "promoting") /\ At(r, "listing")' /\ suite' = suite
                  /\ reviewer'[r].copy = suite[RootOf(r)]
               \/ /\ At(r, "listing") /\ At(r, "marking")'
                  /\ suite' = [suite EXCEPT ![RootOf(r)] = reviewer[r].copy \cup {reviewer[r].item}]
<1>1. reviewer[r] \in Request /\ Resting \in Request
  BY Rests DEF TypeOK
<1>2. ASSUME NEW i \in Items, NEW d \in Directory, NEW status \in Status,
             BeginReview(r, i, d, status)
      PROVE  /\ reviewer'[r].item = i /\ reviewer'[r].from = d /\ reviewer'[r].status = status
             /\ IF status = "promoted" THEN At(r, "promoting")' ELSE At(r, "marking")'
             /\ ~reviewer'[r].batch /\ Found(i, d) /\ status # "pending" /\ suite' = suite
  <2>1. Become(r, [Resting EXCEPT !.pc = IF status = "promoted" THEN "promoting" ELSE "marking",
                                  !.item = i, !.from = d, !.status = status])
    BY <1>2 DEF BeginReview, Begin
  <2>2. reviewer'[r] = [Resting EXCEPT !.pc = IF status = "promoted" THEN "promoting" ELSE "marking",
                                       !.item = i, !.from = d, !.status = status]
    BY <2>1, Becomes
  <2>3. QED
    BY <1>2, <2>2 DEF Resting, BeginReview, Begin, At
<1>3. ASSUME NEW p \in Profiles, NEW promote \in BOOLEAN, BeginAutoReview(r, p, promote)
      PROVE  /\ reviewer'[r].item = NoOne /\ reviewer'[r].batch
             /\ reviewer'[r].todo = PendingIn(p) /\ reviewer'[r].known = KnownOf(p)
             /\ At(r, "choosing")' /\ suite' = suite
  <2>1. reviewer'[r] = [Resting EXCEPT !.pc = "choosing", !.batch = TRUE, !.promote = promote,
                              !.todo = PendingIn(p), !.known = KnownOf(p)]
    BY <1>3, Becomes DEF BeginAutoReview, Begin
  <2>2. QED
    BY <1>3, <2>1 DEF Resting, BeginAutoReview, Begin, At
<1>4. ASSUME Choose(r)
      PROVE  \E i \in Items, d \in Directory, status \in Status \ {"pending"} :
               /\ Found(i, d)
               /\ reviewer'[r].item = i /\ reviewer'[r].from = d /\ reviewer'[r].status = status
               /\ IF status = "promoted" THEN At(r, "promoting")' ELSE At(r, "marking")'
               /\ At(r, "choosing") /\ i \in reviewer[r].todo
               /\ reviewer'[r].todo = reviewer[r].todo \ {i}
               /\ reviewer'[r].known = reviewer[r].known
               /\ reviewer'[r].batch = reviewer[r].batch
               /\ status = Decision(i, reviewer[r])
               /\ suite' = suite
  <2>1. PICK i \in reviewer[r].todo, d \in Directory :
          /\ Found(i, d)
          /\ Become(r, [reviewer[r] EXCEPT
               !.pc = IF Decision(i, reviewer[r]) = "promoted" THEN "promoting" ELSE "marking",
               !.item = i, !.from = d, !.status = Decision(i, reviewer[r]), !.todo = @ \ {i}])
    BY <1>4 DEF Choose
  <2>2. i \in Items /\ Decision(i, reviewer[r]) \in Status \ {"pending"}
    BY <1>1, RequestEdits, DecisionIsStatus
  <2>3. reviewer'[r] = [reviewer[r] EXCEPT
               !.pc = IF Decision(i, reviewer[r]) = "promoted" THEN "promoting" ELSE "marking",
               !.item = i, !.from = d, !.status = Decision(i, reviewer[r]), !.todo = @ \ {i}]
    BY <2>1, Becomes
  <2>4. PICK status \in Status \ {"pending"} : status = Decision(i, reviewer[r])
    BY <2>2
  <2>5. /\ reviewer'[r].item = i /\ reviewer'[r].from = d /\ reviewer'[r].status = status
        /\ IF status = "promoted" THEN At(r, "promoting")' ELSE At(r, "marking")'
        /\ reviewer'[r].todo = reviewer[r].todo \ {i}
        /\ reviewer'[r].known = reviewer[r].known
        /\ reviewer'[r].batch = reviewer[r].batch
    BY <1>1, <2>3, <2>4 DEF Request, At
  <2>6. QED
    BY <1>4, <2>1, <2>2, <2>4, <2>5 DEF Choose
<1>5. ASSUME EndBatch(r) \/ FailReview(r)
      PROVE  At(r, "idle")' /\ suite' = suite
  BY <1>5, Becomes DEF EndBatch, FailReview, Resting, At
<1>6. ASSUME ReadSuite(r)
      PROVE  /\ reviewer[r].pc \in Handling
             /\ reviewer'[r].item = reviewer[r].item /\ reviewer'[r].from = reviewer[r].from
             /\ reviewer'[r].status = reviewer[r].status /\ reviewer'[r].batch = reviewer[r].batch
             /\ reviewer'[r].todo = reviewer[r].todo /\ reviewer'[r].known = reviewer[r].known
             /\ At(r, "promoting") /\ At(r, "listing")' /\ suite' = suite
             /\ reviewer'[r].copy = suite[RootOf(r)]
  <2>1. reviewer'[r] = [reviewer[r] EXCEPT !.pc = "listing", !.copy = suite[RootOf(r)]]
    BY <1>6, Becomes DEF ReadSuite
  <2>2. QED
    BY <1>1, <1>6, <2>1 DEF ReadSuite, At, Handling, Request
<1>7. ASSUME WriteSuite(r)
      PROVE  /\ reviewer[r].pc \in Handling
             /\ reviewer'[r].item = reviewer[r].item /\ reviewer'[r].from = reviewer[r].from
             /\ reviewer'[r].status = reviewer[r].status /\ reviewer'[r].batch = reviewer[r].batch
             /\ reviewer'[r].todo = reviewer[r].todo /\ reviewer'[r].known = reviewer[r].known
             /\ At(r, "listing") /\ At(r, "marking")'
             /\ suite' = [suite EXCEPT ![RootOf(r)] = reviewer[r].copy \cup {reviewer[r].item}]
  <2>1. reviewer'[r] = [reviewer[r] EXCEPT !.pc = "marking", !.copy = {}]
    BY <1>7, Becomes DEF WriteSuite
  <2>2. QED
    BY <1>1, <1>7, <2>1 DEF WriteSuite, At, Handling, Request
<1>8. QED
  BY <1>2, <1>3, <1>4, <1>5, <1>6, <1>7 DEF ReviewReads

(* What an entry of a stored item is, the collector leaves as it is.       *)
LEMMA CollectorLeavesItems ==
  ASSUME TypeOK, ItemsAreSampled, EntriesFollowWrites, Collect, NEW k \in Items
  PROVE  /\ reviewer' = reviewer /\ suite' = suite /\ overlapped' = overlapped
         /\ Stored(k) => entry'[k] = entry[k]
         /\ write[k] # "none" => item'[k] = item[k] /\ write'[k] # "none"
         /\ \A d \in Directory : entry'[k][d] \in {"accepted", "promoted"}
                                   => entry'[k][d] = entry[k][d]
<1>1. reviewer' = reviewer /\ suite' = suite /\ overlapped' = overlapped
  BY DEF Collect
<1>2. CASE StopAnalysis \/ \E p \in Profiles : StartAnalysis(p)
  BY <1>1, <1>2 DEF StopAnalysis, StartAnalysis
<1>3. ASSUME NEW content \in Contents, NEW transition \in BOOLEAN, Sample(content, transition)
      PROVE  /\ entry' = entry
             /\ write[k] # "none" => item'[k] = item[k] /\ write'[k] # "none"
  BY <1>3, SampleEffects
<1>4. ASSUME NEW i \in Items, WriteStep(i)
      PROVE  /\ Stored(k) => entry'[k] = entry[k]
             /\ write[k] # "none" => item'[k] = item[k] /\ write'[k] # "none"
             /\ \A d \in Directory : entry'[k][d] \in {"accepted", "promoted"}
                                   => entry'[k][d] = entry[k][d]
  <2>1. /\ item' = item /\ write'[i] # "none"
        /\ \A j \in Items \ {i} : write'[j] = write[j] /\ entry'[j] = entry[j]
        /\ entry'[i]["tmp"] \in {Absent, "unread", "pending"}
        /\ \A d \in Directory \ {"tmp", "inbox"} : entry'[i][d] = entry[i][d]
        /\ \/ entry'[i]["inbox"] = entry[i]["inbox"] /\ ~Stored(i)
           \/ entry'[i] = entry[i]
           \/ entry'[i]["inbox"] = "pending" /\ ~Stored(i)
    BY <1>4, WriteEffects
  <2>2. QED
    BY <2>1 DEF Absent
<1>5. QED
  BY <1>1, <1>2, <1>3, <1>4 DEF Collect, CollectorNext

(* Clients that take turns leave each item in one directory.               *)
LEMMA TurnsStep ==
  ASSUME TypeOK, ItemsAreSampled, EntriesFollowWrites, ReviewsAreOfItems, TurnsAreTaken,
         ~overlapped', [Next]_vars
  PROVE  TurnsAreTaken'
<1>1. OneAtWork'
  <2>1. CASE reviewer' = reviewer
    BY <2>1 DEF TurnsAreTaken, OneAtWork, At
  <2>2. CASE Restart
    BY <2>2, RestartEffects DEF OneAtWork, At, Resting
  <2>3. ASSUME NEW r \in Reviewers, ReviewReads(r) \/ EntriesChange(r)
        PROVE  OneAtWork'
    BY <2>3, TurnOf DEF TurnsAreTaken
  <2>4. QED
    BY <2>1, <2>2, <2>3, StepKinds DEF Collect, vars, reviewVars
<1>2. OneDirectory'
  <2>1. CASE UNCHANGED entry
    BY <2>1 DEF TurnsAreTaken, OneDirectory
  <2>2. ASSUME NEW i \in Items, WriteStep(i)
        PROVE  OneDirectory'
    <3>1. /\ \A k \in Items \ {i} : entry'[k] = entry[k]
          /\ \A d \in Directory \ {"tmp", "inbox"} : entry'[i][d] = entry[i][d]
          /\ \/ entry'[i]["inbox"] = entry[i]["inbox"] /\ ~Stored(i)
             \/ entry'[i] = entry[i]
             \/ entry'[i]["tmp"] = Absent /\ ~Stored(i)
      BY <2>2, WriteEffects
    <3>2. \A d, e \in Directory : entry'[i][d] # Absent /\ entry'[i][e] # Absent => d = e
      BY <3>1 DEF TurnsAreTaken, OneDirectory, Stored, Directory
    <3>3. QED
      BY <3>1, <3>2 DEF TurnsAreTaken, OneDirectory
  <2>3. ASSUME NEW r \in Reviewers, MarkItem(r)
        PROVE  OneDirectory'
    <3>1. PICK i \in Items, from \in Directory \ {"tmp"} : Mark(r, i, from)
      BY <2>3, Marked
    <3>2. entry[i][from] # Absent
      BY <2>3, <3>1 DEF TurnsAreTaken, WorkIsSound, Mark, MarkItem, At, Handling
    <3>3. \A d, e \in Directory : entry'[i][d] # Absent /\ entry'[i][e] # Absent => d = e
      BY <3>1, <3>2 DEF TurnsAreTaken, OneDirectory, Mark
    <3>4. QED
      BY <3>1, <3>3 DEF TurnsAreTaken, OneDirectory, Mark
  <2>4. ASSUME NEW r \in Reviewers, MoveItem(r)
        PROVE  OneDirectory'
    <3>1. PICK i \in Items, from \in Directory \ {"tmp"}, to \in Directory \ {"tmp"} :
            Move(r, i, from, to)
      BY <2>4, Moved
    <3>2. \A d \in Directory : entry'[i][d] # Absent => d = to
      BY <3>1 DEF TurnsAreTaken, OneDirectory, Move
    <3>3. QED
      BY <3>1, <3>2 DEF TurnsAreTaken, OneDirectory, Move
  <2>5. CASE Collect
    BY <2>1, <2>2, <2>5
      DEF Collect, CollectorNext, StopAnalysis, StartAnalysis, Sample
  <2>6. QED
    BY <2>1, <2>3, <2>4, <2>5, RestartEffects, StepKinds DEF EntriesChange, collectorVars, vars
<1>3. ASSUME NEW s \in Reviewers
      PROVE  WorkIsSound(s)'
  <2>1. ASSUME At(s, "idle")'
        PROVE  WorkIsSound(s)'
    BY <2>1 DEF WorkIsSound, At, Handling
  <2>2. WorkIsSound(s)
    BY DEF TurnsAreTaken
  <2>3. CASE Collect
    <3>1. reviewer' = reviewer /\ suite' = suite
      BY <2>3 DEF Collect
    <3>2. ASSUME reviewer[s].pc \in Handling
          PROVE  WorkIsSound(s)'
      <4>1. PICK i \in Items : i = reviewer[s].item /\ Stored(i)
        BY <3>2, InHand
      <4>2. write[i] # "none"
        BY <4>1 DEF EntriesFollowWrites
      <4>3. entry'[i] = entry[i] /\ item'[i] = item[i]
        BY <2>3, <4>1, <4>2, CollectorLeavesItems
      <4>4. QED
        BY <2>2, <3>1, <4>1, <4>3 DEF WorkIsSound, At, RootOf
    <3>3. CASE reviewer[s].pc \notin Handling
      BY <3>1, <3>3 DEF WorkIsSound, At, Handling
    <3>4. QED
      BY <3>2, <3>3
  <2>4. CASE Restart
    BY <2>1, <2>4, RestartEffects DEF At, Resting
  <2>5. ASSUME NEW r \in Reviewers, ReviewReads(r), UNCHANGED collectorVars
        PROVE  WorkIsSound(s)'
    <3>1. entry' = entry /\ item' = item
      BY <2>5 DEF collectorVars
    <3>2. CASE s # r
      BY <2>1, <2>5, <3>2, TurnOf DEF TurnsAreTaken, At
    <3>3. ASSUME s = r, NEW i \in Items, NEW d \in Directory, Found(i, d),
                 reviewer'[r].item = i, reviewer'[r].from = d,
                 IF reviewer'[r].status = "promoted" THEN At(r, "promoting")' ELSE At(r, "marking")'
          PROVE  WorkIsSound(s)'
      <4>1. entry'[i][d] # Absent
        BY <3>1, <3>3, FoundIsStored
      <4>2. QED
        BY <3>3, <4>1 DEF WorkIsSound, At
    <3>4. ASSUME s = r, At(r, "choosing")'
          PROVE  WorkIsSound(s)'
      BY <3>4 DEF WorkIsSound, At, Handling
    <3>5. ASSUME s = r, reviewer[r].pc \in Handling,
                 reviewer'[r].item = reviewer[r].item, reviewer'[r].from = reviewer[r].from,
                 reviewer'[r].status = reviewer[r].status,
                 At(r, "promoting"), At(r, "listing")', suite' = suite,
                 reviewer'[r].copy = suite[RootOf(r)]
          PROVE  WorkIsSound(s)'
      BY <2>2, <3>1, <3>5 DEF WorkIsSound, At, RootOf
    <3>6. ASSUME s = r, reviewer[r].pc \in Handling,
                 reviewer'[r].item = reviewer[r].item, reviewer'[r].from = reviewer[r].from,
                 At(r, "listing"), At(r, "marking")',
                 suite' = [suite EXCEPT ![RootOf(r)] = reviewer[r].copy \cup {reviewer[r].item}]
          PROVE  WorkIsSound(s)'
      <4>1. RootOf(r) \in Profiles
        BY <3>6, InHand, ReviewedContents DEF RootOf
      <4>2. RootOf(r)' = RootOf(r)
        BY <3>1, <3>6 DEF RootOf
      <4>3. reviewer[r].item \in suite'[RootOf(r)]
        BY <3>6, <4>1 DEF TypeOK
      <4>4. QED
        BY <2>2, <3>1, <3>6, <4>2, <4>3 DEF WorkIsSound, At
    <3>7. QED
      BY <2>1, <2>5, <3>2, <3>3, <3>4, <3>5, <3>6, ReadEffects
  <2>6. ASSUME NEW r \in Reviewers, EntriesChange(r)
        PROVE  WorkIsSound(s)'
    <3>1. item' = item /\ suite' = suite
      BY <2>6, ReviewEffects DEF EntriesChange, MarkItem, MoveItem
    <3>2. CASE s # r
      BY <2>1, <2>6, <3>2, TurnOf DEF TurnsAreTaken, At
    <3>3. CASE s = r /\ reviewer'[r].pc \notin Handling
      BY <3>3 DEF WorkIsSound, At, Handling
    <3>4. CASE s = r /\ reviewer'[r].pc \in Handling
      <4>1. /\ MarkItem(r) /\ At(r, "marking") /\ At(r, "moving")'
            /\ reviewer'[r].item = reviewer[r].item /\ reviewer'[r].from = reviewer[r].from
            /\ reviewer'[r].status = reviewer[r].status
        BY <2>6, <3>4, ChangeBecomes
      <4>2. PICK i \in Items, from \in Directory \ {"tmp"} : Mark(r, i, from)
        BY <4>1, Marked
      <4>3. entry'[i][from] = reviewer[r].status /\ reviewer[r].status # Absent
        BY <4>2 DEF Mark, Status, Absent
      <4>4. QED
        BY <2>2, <3>1, <3>4, <4>1, <4>2, <4>3 DEF WorkIsSound, At, RootOf, Mark
    <3>5. QED
      BY <3>2, <3>3, <3>4
  <2>7. CASE UNCHANGED vars
    BY <2>2, <2>7 DEF vars, collectorVars, reviewVars, WorkIsSound, At, RootOf
  <2>8. QED
    BY <2>3, <2>4, <2>5, <2>6, <2>7, StepKinds
<1>4. QED
  BY <1>1, <1>2, <1>3 DEF TurnsAreTaken

(* A promotion is listed before it is marked, and no suite is overwritten. *)
LEMMA PromotedStep ==
  ASSUME TypeOK, ItemsAreSampled, EntriesFollowWrites, ReviewsAreOfItems, TurnsAreTaken,
         ~overlapped, ~overlapped', PromotedAreListed, [Next]_vars
  PROVE  PromotedAreListed'
<1>1. SUFFICES ASSUME NEW i \in Items, NEW d \in Directory, entry'[i][d] = "promoted"
               PROVE  i \in suite'[item'[i].profile]
  BY DEF PromotedAreListed
<1>2. ASSUME NEW e \in Directory, entry[i][e] = "promoted"
      PROVE  i \in suite[item[i].profile] /\ write[i] # "none" /\ item[i].profile \in Profiles
  <2>1. Accepted(i)
    BY <1>2 DEF Accepted
  <2>2. QED
    BY <1>2, <2>1, ReviewedContents DEF PromotedAreListed, EntriesFollowWrites
<1>3. CASE Collect
  <2>1. entry[i][d] = "promoted"
    BY <1>1, <1>3, CollectorLeavesItems
  <2>2. QED
    BY <1>2, <1>3, <2>1, CollectorLeavesItems
<1>4. CASE Restart
  BY <1>1, <1>2, <1>4, RestartEffects DEF Restart
<1>5. ASSUME NEW r \in Reviewers, ReviewReads(r), UNCHANGED collectorVars
      PROVE  i \in suite'[item'[i].profile]
  <2>1. entry' = entry /\ item' = item
    BY <1>5 DEF collectorVars
  <2>2. i \in suite[item[i].profile] /\ item[i].profile \in Profiles
    BY <1>1, <1>2, <2>1
  <2>3. CASE suite' = suite
    BY <2>1, <2>2, <2>3
  <2>4. CASE /\ At(r, "listing")
             /\ suite' = [suite EXCEPT ![RootOf(r)] = reviewer[r].copy \cup {reviewer[r].item}]
    <3>1. reviewer[r].copy = suite[RootOf(r)]
      BY <2>4 DEF TurnsAreTaken, WorkIsSound
    <3>2. QED
      BY <2>1, <2>2, <2>4, <3>1 DEF TypeOK
  <2>5. QED
    BY <1>5, <2>3, <2>4, ReadEffects
<1>6. ASSUME NEW r \in Reviewers, EntriesChange(r)
      PROVE  i \in suite'[item'[i].profile]
  <2>1. item' = item /\ suite' = suite
    BY <1>6, ReviewEffects DEF EntriesChange, MarkItem, MoveItem
  <2>2. CASE MarkItem(r)
    <3>1. PICK k \in Items, from \in Directory \ {"tmp"} : Mark(r, k, from)
      BY <2>2, Marked
    <3>2. CASE i = k /\ d = from
      <4>1. reviewer[r].status = "promoted" /\ At(r, "marking") /\ k = reviewer[r].item
        BY <1>1, <2>2, <3>1, <3>2 DEF Mark, MarkItem
      <4>2. QED
        BY <2>1, <3>2, <4>1 DEF TurnsAreTaken, WorkIsSound, RootOf
    <3>3. CASE ~(i = k /\ d = from)
      <4>1. entry[i][d] = "promoted"
        BY <1>1, <3>1, <3>3 DEF Mark
      <4>2. QED
        BY <1>2, <2>1, <4>1
    <3>4. QED
      BY <3>2, <3>3
  <2>3. CASE MoveItem(r)
    <3>1. PICK k \in Items, from \in Directory \ {"tmp"}, to \in Directory \ {"tmp"} :
            Move(r, k, from, to)
      BY <2>3, Moved
    <3>2. \E e \in Directory : entry[i][e] = "promoted"
      <4>1. CASE i # k
        BY <1>1, <3>1, <4>1 DEF Move
      <4>2. CASE i = k
        BY <1>1, <3>1, <4>2 DEF Move, Absent
      <4>3. QED
        BY <4>1, <4>2
    <3>3. QED
      BY <1>2, <2>1, <3>2
  <2>4. QED
    BY <1>6, <2>2, <2>3 DEF EntriesChange
<1>7. CASE UNCHANGED vars
  BY <1>1, <1>2, <1>7 DEF vars, collectorVars, reviewVars
<1>8. QED
  BY <1>3, <1>4, <1>5, <1>6, <1>7, StepKinds

(* Saving a review ends it, or takes the batch to its next item.           *)
LEMMA SavedEffects ==
  ASSUME TypeOK, NEW r \in Reviewers, Saved(r)
  PROVE  \/ At(r, "idle")'
         \/ /\ At(r, "choosing")' /\ reviewer[r].batch
            /\ reviewer'[r].item = NoOne /\ reviewer'[r].todo = reviewer[r].todo
            /\ \A c \in reviewer'[r].known :
                 \/ c \in reviewer[r].known
                 \/ /\ reviewer[r].status \in {"accepted", "promoted"}
                    /\ c = item[reviewer[r].item].content
<1>1. reviewer[r] \in Request
  BY DEF TypeOK
<1>2. CASE reviewer[r].batch
  <2>1. \E known :
          /\ Become(r, [reviewer[r] EXCEPT !.pc = "choosing", !.item = NoOne, !.from = "inbox",
                                           !.status = "pending", !.known = known])
          /\ \A c \in known :
               \/ c \in reviewer[r].known
               \/ /\ reviewer[r].status \in {"accepted", "promoted"}
                  /\ c = item[reviewer[r].item].content
    <3>1. CASE reviewer[r].status \in {"accepted", "promoted"}
      <4>1. Become(r, [reviewer[r] EXCEPT !.pc = "choosing", !.item = NoOne, !.from = "inbox",
                         !.status = "pending",
                         !.known = reviewer[r].known \cup {item[reviewer[r].item].content}])
        BY <1>2, <3>1 DEF Saved
      <4>2. QED
        BY <3>1, <4>1
    <3>2. CASE reviewer[r].status \notin {"accepted", "promoted"}
      <4>1. Become(r, [reviewer[r] EXCEPT !.pc = "choosing", !.item = NoOne, !.from = "inbox",
                         !.status = "pending", !.known = reviewer[r].known])
        BY <1>2, <3>2 DEF Saved
      <4>2. QED
        BY <4>1
    <3>3. QED
      BY <3>1, <3>2
  <2>2. PICK known :
          /\ Become(r, [reviewer[r] EXCEPT !.pc = "choosing", !.item = NoOne, !.from = "inbox",
                                           !.status = "pending", !.known = known])
          /\ \A c \in known :
               \/ c \in reviewer[r].known
               \/ /\ reviewer[r].status \in {"accepted", "promoted"}
                  /\ c = item[reviewer[r].item].content
    BY <2>1
  <2>3. reviewer'[r] = [reviewer[r] EXCEPT !.pc = "choosing", !.item = NoOne, !.from = "inbox",
                                           !.status = "pending", !.known = known]
    BY <2>2, Becomes
  <2>4. /\ reviewer'[r].pc = "choosing" /\ reviewer'[r].item = NoOne
        /\ reviewer'[r].todo = reviewer[r].todo /\ reviewer'[r].known = known
    BY <1>1, <2>3 DEF Request
  <2>5. QED
    BY <1>2, <2>2, <2>4 DEF At
<1>3. CASE ~reviewer[r].batch
  <2>1. reviewer'[r] = Resting
    BY <1>3, Becomes DEF Saved
  <2>2. QED
    BY <2>1 DEF Resting, At
<1>4. QED
  BY <1>2, <1>3

(* A batch goes on knowing what stands for its contents, as long as that   *)
(* stays accepted.                                                         *)
LEMMA BatchStands ==
  ASSUME TypeOK, ItemsAreSampled, EntriesFollowWrites, NEW s \in Reviewers, NEW p \in Profiles,
         BatchKnows(s, p), reviewer'[s].known \subseteq reviewer[s].known,
         Left(s)' \subseteq Left(s) \cup {NoOne},
         \A k \in Items : write[k] # "none" => item'[k] = item[k] /\ write'[k] # "none",
         \A k \in Items : k \notin Left(s) /\ Accepted(k) => Accepted(k)'
  PROVE  BatchKnows(s, p)'
<1>1. NoOne \notin Items
  BY DEF NoOne, Items
<1>2. ASSUME NEW k \in Left(s)' \ {NoOne}
      PROVE  k \in Items /\ write'[k] # "none" /\ item'[k].profile = p
  BY <1>2 DEF BatchKnows
<1>3. ASSUME NEW c \in reviewer'[s].known
      PROVE  \E j \in Items \ Left(s)' :
               item'[j].profile = p /\ item'[j].content = c /\ Accepted(j)'
  <2>1. PICK j \in Items \ Left(s) : item[j].profile = p /\ item[j].content = c /\ Accepted(j)
    BY <1>3 DEF BatchKnows
  <2>2. write[j] # "none"
    BY <2>1, ReviewedContents DEF EntriesFollowWrites
  <2>3. j \notin Left(s)'
    BY <1>1, <2>1
  <2>4. QED
    BY <2>1, <2>2, <2>3
<1>4. QED
  BY <1>2, <1>3 DEF BatchKnows

(* A batch that starts knows no content of an item it will turn to.        *)
LEMMA BatchBegins ==
  ASSUME TypeOK, EntriesFollowWrites, OneDirectory, UNCHANGED <<write, item, entry>>,
         NEW r \in Reviewers, NEW p \in Profiles,
         reviewer'[r].item = NoOne, reviewer'[r].todo = PendingIn(p), reviewer'[r].known = KnownOf(p)
  PROVE  BatchKnows(r, p)'
<1>1. Left(r)' = PendingIn(p) \cup {NoOne} /\ NoOne \notin Items
  BY DEF Left, NoOne, Items
<1>2. ASSUME NEW i \in PendingIn(p)
      PROVE  i \in Items /\ write'[i] # "none" /\ item'[i].profile = p
  <2>1. i \in Items /\ item[i].profile = p
        /\ (entry[i]["inbox"] = "pending" \/ entry[i]["tmp"] = "pending")
    BY <1>2 DEF PendingIn
  <2>2. entry[i]["inbox"] # Absent \/ entry[i]["tmp"] # Absent
    BY <2>1 DEF Absent
  <2>3. write[i] # "none"
    BY <2>1, <2>2 DEF EntriesFollowWrites, Stored, Directory
  <2>4. QED
    BY <2>1, <2>3
<1>3. ASSUME NEW c \in KnownOf(p)
      PROVE  \E j \in Items \ Left(r)' :
               item'[j].profile = p /\ item'[j].content = c /\ Accepted(j)'
  <2>1. PICK j \in Items : item[j].profile = p /\ item[j].content = c /\ Accepted(j)
    BY <1>3 DEF KnownOf, Accepted
  <2>2. PICK d \in Directory : entry[j][d] \in {"accepted", "promoted"}
    BY <2>1 DEF Accepted
  <2>3. entry[j]["inbox"] # "pending" /\ entry[j]["tmp"] # "pending"
    BY <2>2 DEF OneDirectory, Directory, Absent
  <2>4. j \notin PendingIn(p)
    BY <2>3 DEF PendingIn
  <2>5. QED
    BY <1>1, <2>1, <2>4 DEF Accepted
<1>4. QED
  BY <1>1, <1>2, <1>3 DEF BatchKnows

(* What a client did with an item of a batch makes the item known only if  *)
(* it stands for its content.                                              *)
LEMMA BatchLearns ==
  ASSUME TypeOK, ItemsAreSampled, EntriesFollowWrites, NEW r \in Reviewers, NEW p \in Profiles,
         BatchKnows(r, p), reviewer[r].item \notin reviewer[r].todo, reviewer[r].item \in Items,
         Stored(reviewer[r].item), UNCHANGED <<write, item>>,
         reviewer'[r].item = NoOne, reviewer'[r].todo = reviewer[r].todo,
         \A k \in Items \ {reviewer[r].item} : entry'[k] = entry[k],
         \E d \in Directory : entry'[reviewer[r].item][d] = reviewer[r].status,
         \A c \in reviewer'[r].known :
           \/ c \in reviewer[r].known
           \/ /\ reviewer[r].status \in {"accepted", "promoted"}
              /\ c = item[reviewer[r].item].content
  PROVE  BatchKnows(r, p)'
<1>1. /\ NoOne \notin Items /\ write[reviewer[r].item] # "none"
      /\ Left(r)' = reviewer[r].todo \cup {NoOne}
      /\ Left(r) = reviewer[r].todo \cup {reviewer[r].item}
  BY DEF Left, NoOne, Items, EntriesFollowWrites
<1>2. ASSUME NEW i \in Left(r)' \ {NoOne}
      PROVE  i \in Items /\ write'[i] # "none" /\ item'[i].profile = p
  BY <1>1, <1>2 DEF BatchKnows
<1>3. ASSUME NEW c \in reviewer'[r].known
      PROVE  \E j \in Items \ Left(r)' :
               item'[j].profile = p /\ item'[j].content = c /\ Accepted(j)'
  <2>1. CASE c \in reviewer[r].known
    <3>1. PICK j \in Items \ Left(r) : item[j].profile = p /\ item[j].content = c /\ Accepted(j)
      BY <2>1 DEF BatchKnows
    <3>2. entry'[j] = entry[j]
      BY <1>1, <3>1
    <3>3. Accepted(j)'
      BY <3>1, <3>2 DEF Accepted
    <3>4. j \notin Left(r)'
      BY <1>1, <3>1
    <3>5. QED
      BY <3>1, <3>3, <3>4
  <2>2. CASE reviewer[r].status \in {"accepted", "promoted"} /\ c = item[reviewer[r].item].content
    <3>1. PICK j \in Items : j = reviewer[r].item
      OBVIOUS
    <3>2. Accepted(j)'
      BY <2>2, <3>1 DEF Accepted
    <3>3. j \notin Left(r)' /\ j \in Left(r) \ {NoOne}
      BY <1>1, <3>1
    <3>4. item'[j].profile = p /\ item'[j].content = c
      BY <2>2, <3>1, <3>3 DEF BatchKnows
    <3>5. QED
      BY <3>2, <3>3, <3>4
  <2>3. QED
    BY <1>3, <2>1, <2>2
<1>4. QED
  BY <1>2, <1>3 DEF BatchKnows

(* A batch knows what stands for the contents it rejects.                  *)
LEMMA BatchStep ==
  ASSUME TypeOK, ItemsAreSampled, EntriesFollowWrites, ReviewsAreOfItems, TurnsAreTaken,
         BatchesAreOfOneProfile, ~overlapped', [Next]_vars
  PROVE  BatchesAreOfOneProfile'
<1>1. SUFFICES ASSUME NEW s \in Reviewers, ~At(s, "idle")', reviewer'[s].batch
               PROVE  BatchIsSound(s)'
  BY DEF BatchesAreOfOneProfile
<1>2. NoOne \notin Items /\ reviewer[s] \in Request
  BY DEF NoOne, Items, TypeOK
<1>3. CASE Collect
  <2>1. reviewer' = reviewer
    BY <1>3 DEF Collect
  <2>2. BatchIsSound(s)
    BY <1>1, <2>1 DEF BatchesAreOfOneProfile, At
  <2>3. PICK p \in Profiles : BatchKnows(s, p)
    BY <2>2 DEF BatchIsSound
  <2>4. \A k \in Items : Accepted(k) => Accepted(k)'
    <3>1. ASSUME NEW k \in Items, Accepted(k)
          PROVE  Accepted(k)'
      <4>1. entry'[k] = entry[k]
        BY <1>3, <3>1, ReviewedContents, CollectorLeavesItems
      <4>2. QED
        BY <3>1, <4>1 DEF Accepted
    <3>2. QED
      BY <3>1
  <2>5. \A k \in Items : write[k] # "none" => item'[k] = item[k] /\ write'[k] # "none"
    BY <1>3, CollectorLeavesItems
  <2>6. Left(s)' \subseteq Left(s) \cup {NoOne} /\ reviewer'[s].known \subseteq reviewer[s].known
    BY <2>1 DEF Left
  <2>7. BatchKnows(s, p)'
    BY <2>3, <2>4, <2>5, <2>6, BatchStands
  <2>8. ASSUME At(s, "marking"), reviewer[s].status = "rejected"
        PROVE  \E c \in reviewer[s].known : Resembles(item'[reviewer[s].item].content, c)
    <3>1. reviewer[s].pc \in Handling
      BY <2>8 DEF At, Handling
    <3>2. PICK i \in Items : i = reviewer[s].item /\ Stored(i)
      BY <3>1, InHand
    <3>3. item'[i] = item[i]
      BY <2>5, <3>2 DEF EntriesFollowWrites
    <3>4. QED
      BY <2>2, <2>8, <3>2, <3>3 DEF BatchIsSound
  <2>9. QED
    BY <2>1, <2>2, <2>7, <2>8 DEF BatchIsSound, At
<1>4. CASE Restart
  BY <1>1, <1>4, RestartEffects DEF At, Resting
<1>5. ASSUME NEW r \in Reviewers, ReviewReads(r), UNCHANGED collectorVars
      PROVE  BatchIsSound(s)'
  <2>1. write' = write /\ item' = item /\ entry' = entry
    BY <1>5 DEF collectorVars
  <2>2. s = r
    BY <1>1, <1>5, TurnOf DEF TurnsAreTaken, At
  <2>3. ASSUME NEW i \in Items, NEW status \in Status \ {"pending"},
               reviewer'[r].item = i, reviewer'[r].status = status,
               IF status = "promoted" THEN At(r, "promoting")' ELSE At(r, "marking")',
               At(r, "choosing"), i \in reviewer[r].todo,
               reviewer'[r].todo = reviewer[r].todo \ {i},
               reviewer'[r].known = reviewer[r].known, reviewer'[r].batch = reviewer[r].batch,
               status = Decision(i, reviewer[r])
        PROVE  BatchIsSound(s)'
    <3>1. BatchIsSound(r)
      BY <1>1, <2>2, <2>3 DEF BatchesAreOfOneProfile, At
    <3>2. PICK p \in Profiles : BatchKnows(r, p)
      BY <3>1 DEF BatchIsSound
    <3>3. Left(r)' \subseteq Left(r) \cup {NoOne}
      BY <2>3 DEF Left
    <3>4. \A k \in Items : Accepted(k) => Accepted(k)'
      BY <2>1 DEF Accepted
    <3>5. BatchKnows(r, p)'
      BY <2>1, <2>3, <3>2, <3>3, <3>4, BatchStands
    <3>6. status = "rejected" => \E c \in reviewer[r].known : Resembles(item[i].content, c)
      <4>1. CASE \E c \in reviewer[r].known : Resembles(item[i].content, c)
        BY <4>1
      <4>2. CASE ~ \E c \in reviewer[r].known : Resembles(item[i].content, c)
        <5>1. Decision(i, reviewer[r]) \in {"needs_correction", "promoted", "accepted"}
          BY <4>2, Zenon DEF Decision
        <5>2. QED
          BY <2>3, <5>1
      <4>3. QED
        BY <4>1, <4>2
    <3>7. ~At(r, "choosing")'
      BY <2>3 DEF At
    <3>8. QED
      BY <2>1, <2>2, <2>3, <3>5, <3>6, <3>7 DEF BatchIsSound
  <2>4. ASSUME NEW p \in Profiles, reviewer'[r].item = NoOne, reviewer'[r].todo = PendingIn(p),
               reviewer'[r].known = KnownOf(p), At(r, "choosing")'
        PROVE  BatchIsSound(s)'
    <3>1. BatchKnows(r, p)'
      BY <2>1, <2>4, BatchBegins DEF TurnsAreTaken
    <3>2. NoOne \notin PendingIn(p)
      BY <1>2 DEF PendingIn
    <3>3. QED
      BY <2>2, <2>4, <3>1, <3>2 DEF BatchIsSound, At
  <2>5. ASSUME reviewer[r].pc \in Handling, reviewer'[r].item = reviewer[r].item,
               reviewer'[r].status = reviewer[r].status, reviewer'[r].batch = reviewer[r].batch,
               reviewer'[r].todo = reviewer[r].todo, reviewer'[r].known = reviewer[r].known,
               \/ At(r, "promoting") /\ At(r, "listing")'
               \/ At(r, "listing") /\ At(r, "marking")'
        PROVE  BatchIsSound(s)'
    <3>1. BatchIsSound(r)
      BY <1>1, <2>2, <2>5 DEF BatchesAreOfOneProfile, At
    <3>2. PICK p \in Profiles : BatchKnows(r, p)
      BY <3>1 DEF BatchIsSound
    <3>3. Left(r)' \subseteq Left(r) \cup {NoOne}
      BY <2>5 DEF Left
    <3>4. \A k \in Items : Accepted(k) => Accepted(k)'
      BY <2>1 DEF Accepted
    <3>5. BatchKnows(r, p)'
      BY <2>1, <2>5, <3>2, <3>3, <3>4, BatchStands
    <3>6. reviewer[r].status = "promoted"
      BY <2>5 DEF TurnsAreTaken, WorkIsSound
    <3>7. ~At(r, "choosing")' /\ reviewer'[r].status # "rejected"
      BY <2>5, <3>6 DEF At
    <3>8. QED
      BY <2>2, <2>5, <3>1, <3>5, <3>7 DEF BatchIsSound
  <2>6. ~At(r, "idle")'
    BY <1>1, <2>2
  <2>7. reviewer'[r].batch
    BY <1>1, <2>2
  <2>8. QED
    BY <1>5, <2>3, <2>4, <2>5, <2>6, <2>7, ReadEffects
<1>6. ASSUME NEW r \in Reviewers, EntriesChange(r)
      PROVE  BatchIsSound(s)'
  <2>1. write' = write /\ item' = item
    BY <1>6, ReviewEffects
  <2>2. s = r
    BY <1>1, <1>6, TurnOf DEF TurnsAreTaken, At
  <2>3. reviewer[r].pc \in Handling /\ ~At(r, "idle")
    BY <1>6 DEF EntriesChange, MarkItem, MoveItem, At, Handling
  <2>4. reviewer[r].item \in Items /\ Stored(reviewer[r].item)
    BY <2>3, InHand
  <2>5. CASE MarkItem(r) /\ reviewer'[r] = [reviewer[r] EXCEPT !.pc = "moving"]
    <3>1. /\ reviewer'[r].item = reviewer[r].item /\ reviewer'[r].pc = "moving"
          /\ reviewer'[r].todo = reviewer[r].todo /\ reviewer'[r].known = reviewer[r].known
          /\ reviewer'[r].batch = reviewer[r].batch
      BY <1>2, <2>2, <2>5 DEF Request
    <3>2. BatchIsSound(r)
      BY <1>1, <2>2, <2>3, <3>1 DEF BatchesAreOfOneProfile
    <3>3. PICK p \in Profiles : BatchKnows(r, p)
      BY <3>2 DEF BatchIsSound
    <3>4. PICK i \in Items, from \in Directory \ {"tmp"} : Mark(r, i, from)
      BY <2>5, Marked
    <3>5. \A k \in Items : k \notin Left(r) /\ Accepted(k) => Accepted(k)'
      BY <3>4 DEF Mark, Accepted, Left
    <3>6. Left(r)' \subseteq Left(r) \cup {NoOne}
      BY <3>1 DEF Left
    <3>7. BatchKnows(r, p)'
      BY <2>1, <3>1, <3>3, <3>5, <3>6, BatchStands
    <3>8. QED
      BY <2>2, <3>1, <3>2, <3>7 DEF BatchIsSound, At
  <2>6. CASE Saved(r)
    <3>1. /\ At(r, "choosing")' /\ reviewer[r].batch
          /\ reviewer'[r].item = NoOne /\ reviewer'[r].todo = reviewer[r].todo
          /\ \A c \in reviewer'[r].known :
               \/ c \in reviewer[r].known
               \/ /\ reviewer[r].status \in {"accepted", "promoted"}
                  /\ c = item[reviewer[r].item].content
      BY <1>1, <2>2, <2>6, SavedEffects
    <3>2. BatchIsSound(r)
      BY <2>3, <3>1 DEF BatchesAreOfOneProfile
    <3>3. PICK p \in Profiles : BatchKnows(r, p)
      BY <3>2 DEF BatchIsSound
    <3>4. /\ \A k \in Items \ {reviewer[r].item} : entry'[k] = entry[k]
          /\ \E d \in Directory : entry'[reviewer[r].item][d] = reviewer[r].status
      <4>1. CASE MarkItem(r)
        BY <4>1, Marked DEF Mark
      <4>2. CASE MoveItem(r)
        <5>1. PICK i \in Items, from \in Directory \ {"tmp"}, to \in Directory \ {"tmp"} :
                Move(r, i, from, to)
          BY <4>2, Moved
        <5>2. entry[i][from] = reviewer[r].status
          BY <4>2, <5>1 DEF TurnsAreTaken, WorkIsSound, Move, MoveItem
        <5>3. QED
          BY <5>1, <5>2 DEF Move
      <4>3. QED
        BY <1>6, <4>1, <4>2 DEF EntriesChange
    <3>5. reviewer[r].item \notin reviewer[r].todo
      BY <3>2 DEF BatchIsSound
    <3>6. BatchKnows(r, p)'
      BY <2>1, <2>4, <3>1, <3>3, <3>4, <3>5, BatchLearns
    <3>7. NoOne \notin reviewer[r].todo
      BY <1>2, <2>2, RequestEdits
    <3>8. QED
      BY <2>2, <3>1, <3>6, <3>7 DEF BatchIsSound, At
  <2>7. QED
    BY <1>6, <2>5, <2>6, ChangeBecomes
<1>7. CASE UNCHANGED vars
  <2>1. BatchIsSound(s)
    BY <1>1, <1>7 DEF BatchesAreOfOneProfile, At, vars, reviewVars
  <2>2. QED
    BY <1>7, <2>1 DEF vars, collectorVars, reviewVars, BatchIsSound, BatchKnows, Left, Accepted, At
<1>8. QED
  BY <1>3, <1>4, <1>5, <1>6, <1>7, StepKinds

-----------------------------------------------------------------------------
(* Together, the type invariant is kept.                                   *)
LEMMA TypeStep ==
  ASSUME TypeOK, ItemsAreSampled, EntriesFollowWrites, ReviewsAreOfItems, [Next]_vars
  PROVE  TypeOK'
<1>1. /\ CollectorTypeOK'
      /\ frame' \in [Items -> Directory \cup {Absent}] /\ PictureIsThere'
      /\ reviewer' \in [Reviewers -> Request]
      /\ suite' \in [Profiles -> SUBSET Items]
      /\ reviews' \in 0 .. MaxReviews /\ overlapped' \in BOOLEAN
  BY CollectorTypeStep, PictureStep, RequestStep
<1>2. QED
  BY <1>1 DEF TypeOK, PictureIsThere

(* Clients that overlapped did so for good.                                *)
LEMMA OverlapStays ==
  ASSUME [Next]_vars, ~overlapped'
  PROVE  ~overlapped
<1>1. ASSUME NEW r \in Reviewers, ReviewReads(r)
      PROVE  ~overlapped
  BY <1>1 DEF ReviewReads, BeginReview, BeginAutoReview, Begin, Choose, EndBatch, ReadSuite,
       WriteSuite, FailReview
<1>2. ASSUME NEW r \in Reviewers, EntriesChange(r)
      PROVE  ~overlapped
  BY <1>2 DEF EntriesChange, MarkItem, MoveItem
<1>3. QED
  BY <1>1, <1>2, StepKinds DEF Collect, Restart, vars, reviewVars

(* The invariant holds of empty datasets, and every step keeps it.         *)
LEMMA EvidenceInit ==
  ASSUME Init
  PROVE  EvidenceInvariant
<1>1. TypeOK
  <2>1. CollectorTypeOK
    <3>1. Nowhere \in Entries
      BY DEF Nowhere, Entries
    <3>2. NoItem \in Sampled /\ Fresh(NoProfile) \in Runtimes
      BY DEF NoItem, Sampled, Fresh, Runtimes
    <3>3. "none" \in WritePhase /\ 0 \in 0 .. MaxStarts
      BY CollectorAssumption DEF WritePhase
    <3>4. QED
      BY <3>1, <3>2, <3>3 DEF Init, CollectorInit, CollectorTypeOK
  <2>2. 0 \in 0 .. MaxReviews
    BY ReviewAssumption
  <2>3. \A i \in Items : frame[i] = Absent
    BY DEF Init
  <2>4. frame \in [Items -> Directory \cup {Absent}] /\ overlapped \in BOOLEAN
    BY DEF Init
  <2>5. suite \in [Profiles -> SUBSET Items] /\ reviewer \in [Reviewers -> Request]
    BY Rests DEF Init
  <2>6. reviews \in 0 .. MaxReviews
    BY <2>2 DEF Init
  <2>7. QED
    BY <2>1, <2>3, <2>4, <2>5, <2>6 DEF TypeOK
<1>2. /\ \A i \in Items : write[i] = "none" /\ entry[i] = Nowhere
      /\ \A r \in Reviewers : reviewer[r] = Resting
      /\ sampled = {} /\ item = [i \in Items |-> NoItem]
  BY DEF Init, CollectorInit
<1>3. \A i \in Items : ~Stored(i) /\ ~Unreviewed(i) /\ ~InFlight(i)
  BY <1>2 DEF Stored, Unreviewed, InFlight, Nowhere, Directory, Absent
<1>4. ItemsAreSampled
  BY <1>2 DEF ItemsAreSampled
<1>5. EntriesFollowWrites
  BY <1>2, <1>3 DEF EntriesFollowWrites, Nowhere, Directory, Absent
<1>6. ReviewsAreOfItems /\ \A r \in Reviewers : At(r, "idle")
  BY <1>2 DEF ReviewsAreOfItems, Resting, Handling, At
<1>7. OneWriteAtATime /\ ReferenceIsLast
  BY <1>2, <1>3 DEF OneWriteAtATime, ReferenceIsLast
<1>8. RoomIsLeft
  <2>1. \A p \in Profiles : UnreviewedOf(p) = {}
    BY <1>3 DEF UnreviewedOf
  <2>2. \A p \in Profiles : Cardinality(UnreviewedOf(p)) = 0
    BY <2>1, FS_EmptySet
  <2>3. QED
    BY <1>2, <2>2, CollectorAssumption DEF RoomIsLeft
<1>9. TurnsAreTaken /\ BatchesAreOfOneProfile
  <2>1. OneDirectory
    BY <1>2 DEF OneDirectory, Nowhere
  <2>2. \A r \in Reviewers : WorkIsSound(r)
    BY <1>6 DEF WorkIsSound, At, Handling
  <2>3. OneAtWork /\ BatchesAreOfOneProfile
    BY <1>6 DEF OneAtWork, BatchesAreOfOneProfile
  <2>4. QED
    BY <2>1, <2>2, <2>3 DEF TurnsAreTaken
<1>10. PromotedAreListed
  BY <1>2 DEF PromotedAreListed, Nowhere, Absent
<1>11. QED
  BY <1>1, <1>4, <1>5, <1>6, <1>7, <1>8, <1>9, <1>10 DEF EvidenceInvariant, CollectorInvariant

LEMMA EvidenceStep ==
  ASSUME EvidenceInvariant, [Next]_vars
  PROVE  EvidenceInvariant'
<1>1. CollectorInvariant'
  <2>1. TypeOK' /\ ItemsAreSampled'
    BY TypeStep, SampledStep DEF EvidenceInvariant, CollectorInvariant
  <2>2. EntriesFollowWrites' /\ ReviewsAreOfItems'
    BY EntriesStep, ReviewsStep DEF EvidenceInvariant, CollectorInvariant
  <2>3. OneWriteAtATime' /\ RoomIsLeft' /\ ReferenceIsLast'
    BY OneWriteStep, RoomStep, ReferenceStep DEF EvidenceInvariant, CollectorInvariant
  <2>4. QED
    BY <2>1, <2>2, <2>3 DEF CollectorInvariant
<1>2. ASSUME ~overlapped'
      PROVE  TurnsAreTaken' /\ BatchesAreOfOneProfile' /\ PromotedAreListed'
  <2>1. ~overlapped
    BY <1>2, OverlapStays
  <2>2. /\ TypeOK /\ ItemsAreSampled /\ EntriesFollowWrites /\ ReviewsAreOfItems
        /\ TurnsAreTaken /\ BatchesAreOfOneProfile /\ PromotedAreListed
    BY <2>1 DEF EvidenceInvariant, CollectorInvariant
  <2>3. QED
    BY <1>2, <2>1, <2>2, TurnsStep, BatchStep, PromotedStep
<1>3. QED
  BY <1>1, <1>2 DEF EvidenceInvariant

(* What the invariant means to a reader of the datasets.                   *)
LEMMA EvidenceMeans ==
  ASSUME EvidenceInvariant
  PROVE  QuotaKept /\ StoredAreNovel /\ ReviewInvariant
<1>1. /\ TypeOK /\ ItemsAreSampled /\ EntriesFollowWrites /\ ReviewsAreOfItems
      /\ RoomIsLeft /\ ReferenceIsLast
  BY DEF EvidenceInvariant, CollectorInvariant
<1>2. QuotaKept
  BY <1>1 DEF QuotaKept, RoomIsLeft, UnreviewedOf
<1>3. StoredAreNovel
  BY <1>1 DEF StoredAreNovel, ReferenceIsLast
<1>4. PromotedAreListed
  BY DEF EvidenceInvariant, PromotedAreListed
<1>5. DuplicatesAreRepresented
  <2>1. SUFFICES ASSUME ~overlapped, NEW r \in Reviewers, reviewer[r].batch, At(r, "marking"),
                        reviewer[r].status = "rejected"
                 PROVE  \E j \in Items \ {reviewer[r].item} :
                          /\ item[j].profile = item[reviewer[r].item].profile
                          /\ Resembles(item[j].content, item[reviewer[r].item].content)
                          /\ \E d \in Directory : entry[j][d] \in {"accepted", "promoted"}
    BY DEF DuplicatesAreRepresented
  <2>2. BatchIsSound(r)
    BY <2>1 DEF EvidenceInvariant, BatchesAreOfOneProfile, At
  <2>3. PICK p \in Profiles : BatchKnows(r, p)
    BY <2>2 DEF BatchIsSound
  <2>4. PICK i \in Items : i = reviewer[r].item
    BY <1>1, <2>1, InHand DEF At, Handling
  <2>5. item[i].profile = p
    BY <2>3, <2>4 DEF BatchKnows, Left, NoOne, Items
  <2>6. PICK c \in reviewer[r].known : Resembles(item[i].content, c)
    BY <2>1, <2>2, <2>4 DEF BatchIsSound
  <2>7. PICK j \in Items \ Left(r) : item[j].profile = p /\ item[j].content = c /\ Accepted(j)
    BY <2>3 DEF BatchKnows
  <2>8. Resembles(item[j].content, item[i].content)
    BY <2>6, <2>7, ResemblanceIsMutual
  <2>9. j # i
    BY <2>4, <2>7 DEF Left
  <2>10. QED
    BY <2>4, <2>5, <2>7, <2>8, <2>9 DEF Accepted
<1>6. QED
  BY <1>1, <1>2, <1>3, <1>4, <1>5 DEF ReviewInvariant

(* So it holds always.                                                     *)
LEMMA EvidenceIsInvariant == Spec => []EvidenceInvariant
<1>1. Init => EvidenceInvariant
  BY EvidenceInit
<1>2. EvidenceInvariant /\ [Next]_vars => EvidenceInvariant'
  BY EvidenceStep
<1>3. QED
  BY <1>1, <1>2, PTL DEF Spec

(* However clients review meanwhile, a dataset never has more items that   *)
(* were not reviewed than its quota, unless the collector was turned to    *)
(* another profile while it wrote: a write that found room still finds it  *)
(* when it stores its item.                                                *)
THEOREM QuotaIsKept == Spec => []QuotaKept
<1>1. EvidenceInvariant => QuotaKept
  BY EvidenceMeans
<1>2. QED
  BY <1>1, EvidenceIsInvariant, PTL

(* Of two items that a run of the collector stored one after the other,    *)
(* the second differs from the first or an event came with it, for any     *)
(* thumbnails, signatures and threshold, and wherever reviews have moved   *)
(* the items by then.                                                      *)
THEOREM SamplesAreNovel == Spec => []StoredAreNovel
<1>1. EvidenceInvariant => StoredAreNovel
  BY EvidenceMeans
<1>2. QED
  BY <1>1, EvidenceIsInvariant, PTL

(* However reviews fail and the daemon dies, while clients take turns, an  *)
(* item that says it is promoted is listed in its suite, and a batch that  *)
(* is about to reject an item knows of one that stands for it.             *)
THEOREM ReviewsAreConsistent == Spec => []ReviewInvariant
<1>1. EvidenceInvariant => ReviewInvariant
  BY EvidenceMeans
<1>2. QED
  BY <1>1, EvidenceIsInvariant, PTL
=============================================================================
