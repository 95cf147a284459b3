--------------------------- MODULE EvidenceReview ---------------------------
(***************************************************************************)
(* Clients that review collected evidence (collection.review and           *)
(* collection.auto_review of the daemon, save_reviewed_item and            *)
(* promote_item of collection.rs), composed with the collector that fills  *)
(* the inbox.                                                              *)
(*                                                                         *)
(* An item is a directory; its status is in a metadata file inside, and    *)
(* the name of its parent repeats it.  Reviewing rewrites the one and then *)
(* moves the other, and promoting first adds a case to the suite of the    *)
(* dataset.  Each write or move of one file or directory is a step, after  *)
(* which the review may fail, and no lock keeps two clients apart.         *)
(***************************************************************************)
EXTENDS EvidenceCollector

CONSTANTS
  Reviewers,   \* connections that review
  MaxReviews   \* bound: reviews begun

ASSUME ReviewAssumption == MaxReviews \in Nat

VARIABLES
  suite,      \* profile -> items that are cases of its suite.json
  frame,      \* item -> directory its picture is in
  reviewer,   \* reviewer -> where its request is
  reviews,    \* reviews begun so far
  overlapped  \* two requests were ever under way at once (history)

reviewVars == <<suite, frame, reviewer, reviews, overlapped>>
vars == <<collectorVars, reviewVars>>

NoOne == 0
ReviewStep == {"idle", "choosing", "promoting", "listing", "marking", "moving"}
Request ==
  [pc : ReviewStep, item : Items \cup {NoOne}, from : Directory, status : Status,
   copy : SUBSET Items, batch : BOOLEAN, promote : BOOLEAN, todo : SUBSET Items,
   known : SUBSET Contents]
Resting ==
  [pc |-> "idle", item |-> NoOne, from |-> "inbox", status |-> "pending", copy |-> {},
   batch |-> FALSE, promote |-> FALSE, todo |-> {}, known |-> {}]

TypeOK ==
  /\ CollectorTypeOK
  /\ suite \in [Profiles -> SUBSET Items]
  /\ frame \in [Items -> Directory \cup {Absent}]
  /\ reviewer \in [Reviewers -> Request]
  /\ reviews \in 0 .. MaxReviews
  /\ overlapped \in BOOLEAN
  /\ \A i \in Items : frame[i] # Absent => entry[i][frame[i]] # Absent

Init ==
  /\ CollectorInit
  /\ suite = [p \in Profiles |-> {}]
  /\ frame = [i \in Items |-> Absent]
  /\ reviewer = [r \in Reviewers |-> Resting]
  /\ reviews = 0
  /\ overlapped = FALSE

-----------------------------------------------------------------------------
HomeOf(status) == IF status \in {"pending", "needs_correction"} THEN "inbox" ELSE status

(* load_item: the first of the directories that has the item. *)
Homes == <<"inbox", "accepted", "rejected", "promoted">>
Found(i, d) ==
  \E n \in DOMAIN Homes :
    /\ Homes[n] = d
    /\ entry[i][d] # Absent
    /\ \A m \in 1 .. n - 1 : entry[i][Homes[m]] = Absent

(* The dataset of the item in hand. *)
RootOf(r) == item[reviewer[r].item].profile

At(r, pc) == reviewer[r].pc = pc
Become(r, request) == reviewer' = [reviewer EXCEPT ![r] = request]
Begin(r, request) ==
  /\ At(r, "idle")
  /\ reviews < MaxReviews
  /\ reviews' = reviews + 1
  /\ overlapped' = (overlapped \/ \E s \in Reviewers : ~At(s, "idle"))
  /\ Become(r, request)
  /\ UNCHANGED <<suite, frame>>

(* collection_review: accept and correct, reject, or promote an item. *)
BeginReview(r, i, d, status) ==
  /\ status \in {"accepted", "rejected", "promoted"}
  /\ Found(i, d)
  /\ Begin(r, [Resting EXCEPT !.pc = IF status = "promoted" THEN "promoting" ELSE "marking",
                              !.item = i, !.from = d, !.status = status])

(* The representatives of collection_auto_review. *)
KnownOf(p) ==
  {item[i].content : i \in {j \in Items : item[j].profile = p /\
     \E d \in Directory : entry[j][d] \in {"accepted", "promoted"}}}

(* list_items also finds the temporary directories of the inbox. *)
PendingIn(p) ==
  {i \in Items : item[i].profile = p /\ "pending" \in {entry[i]["inbox"], entry[i]["tmp"]}}

BeginAutoReview(r, p, promote) ==
  /\ PendingIn(p) # {}
  /\ Begin(r, [Resting EXCEPT !.pc = "choosing", !.batch = TRUE, !.promote = promote,
                              !.todo = PendingIn(p), !.known = KnownOf(p)])

(* The decision of collection_auto_review about an item with its picture:  *)
(* duplicates are rejected, uncertain evidence is kept for a person.       *)
Decision(i, request) ==
  IF \E known \in request.known : Resembles(item[i].content, known) THEN "rejected"
  ELSE IF item[i].content \notin Certain THEN "needs_correction"
  ELSE IF request.promote THEN "promoted" ELSE "accepted"

(* The batch turns to its oldest item; one that has no name yet, or lost   *)
(* its picture, ends it (FailReview).                                      *)
Choose(r) ==
  /\ At(r, "choosing")
  /\ \E i \in reviewer[r].todo, d \in Directory :
       LET status == Decision(i, reviewer[r]) IN
       /\ \A j \in reviewer[r].todo : i <= j
       /\ Found(i, d)
       /\ frame[i] = d
       /\ Become(r, [reviewer[r] EXCEPT
            !.pc = IF status = "promoted" THEN "promoting" ELSE "marking",
            !.item = i, !.from = d, !.status = status, !.todo = @ \ {i}])
  /\ UNCHANGED <<suite, frame, reviews, overlapped>>

EndBatch(r) ==
  /\ At(r, "choosing")
  /\ reviewer[r].todo = {}
  /\ Become(r, Resting)
  /\ UNCHANGED <<suite, frame, reviews, overlapped>>

(* promote_item reads suite.json and the picture, *)
ReadSuite(r) ==
  /\ At(r, "promoting")
  /\ frame[reviewer[r].item] = reviewer[r].from
  /\ Become(r, [reviewer[r] EXCEPT !.pc = "listing", !.copy = suite[RootOf(r)]])
  /\ UNCHANGED <<suite, frame, reviews, overlapped>>

(* Mutant: the copy is written back as it was read. *)
WriteSuiteAsRead(r) ==
  /\ At(r, "listing")
  /\ suite' = [suite EXCEPT ![RootOf(r)] = reviewer[r].copy]
  /\ Become(r, [reviewer[r] EXCEPT !.pc = "marking", !.copy = {}])
  /\ UNCHANGED <<frame, reviews, overlapped>>

(* and, with the files of the case written, replaces suite.json. *)
WriteSuite(r) ==
  /\ At(r, "listing")
  /\ suite' = [suite EXCEPT ![RootOf(r)] = reviewer[r].copy \cup {reviewer[r].item}]
  /\ Become(r, [reviewer[r] EXCEPT !.pc = "marking", !.copy = {}])
  /\ UNCHANGED <<frame, reviews, overlapped>>

(* An item that was saved as accepted or promoted represents its content   *)
(* in the rest of the batch; a single review returns.                      *)
Saved(r) ==
  IF reviewer[r].batch
  THEN Become(r, [reviewer[r] EXCEPT
         !.pc = "choosing", !.item = NoOne, !.from = "inbox", !.status = "pending",
         !.known = IF reviewer[r].status \in {"accepted", "promoted"}
                   THEN @ \cup {item[reviewer[r].item].content} ELSE @])
  ELSE Become(r, Resting)

(* save_reviewed_item writes the metadata, and with it the directory if    *)
(* that has been moved away meanwhile,                                     *)
MarkItem(r) ==
  LET i == reviewer[r].item IN
  /\ At(r, "marking")
  /\ entry' = [entry EXCEPT ![i][reviewer[r].from] = reviewer[r].status]
  /\ IF HomeOf(reviewer[r].status) = reviewer[r].from
     THEN Saved(r)
     ELSE Become(r, [reviewer[r] EXCEPT !.pc = "moving"])
  /\ UNCHANGED <<suite, frame, reviews, overlapped>>

(* and moves the directory to where the status belongs; two directories of *)
(* one item cannot be merged.                                              *)
MoveItem(r) ==
  LET i == reviewer[r].item
      from == reviewer[r].from
      to == HomeOf(reviewer[r].status) IN
  /\ At(r, "moving")
  /\ entry[i][from] # Absent
  /\ entry[i][to] = Absent
  /\ entry' = [entry EXCEPT ![i][from] = Absent, ![i][to] = entry[i][from]]
  /\ frame' = IF frame[i] = from THEN [frame EXCEPT ![i] = to] ELSE frame
  /\ Saved(r)
  /\ UNCHANGED <<suite, reviews, overlapped>>

(* A file cannot be read, written or moved, or promotion is refused; the   *)
(* rest of the batch is not looked at.                                     *)
FailReview(r) ==
  /\ ~At(r, "idle")
  /\ Become(r, Resting)
  /\ UNCHANGED <<suite, frame, reviews, overlapped>>

ReviewReads(r) ==
  \/ \E i \in Items, d \in Directory, status \in Status : BeginReview(r, i, d, status)
  \/ \E p \in Profiles, promote \in BOOLEAN : BeginAutoReview(r, p, promote)
  \/ Choose(r) \/ EndBatch(r) \/ ReadSuite(r) \/ WriteSuite(r) \/ FailReview(r)

Restart ==
  /\ RestartCollector
  /\ reviewer' = [r \in Reviewers |-> Resting]
  /\ UNCHANGED <<suite, frame, reviews, overlapped>>

(* The collector puts a picture in place when it names an item. *)
Collect ==
  /\ CollectorNext
  /\ frame' = [i \in Items |->
       IF write[i] = "naming" /\ write'[i] = "stored" THEN "inbox" ELSE frame[i]]
  /\ UNCHANGED <<suite, reviewer, reviews, overlapped>>

CollectorRests ==
  UNCHANGED <<live, runtime, write, item, starts, sampled, eventful, orphaned>>

Next ==
  \/ Collect
  \/ Restart
  \/ \E r \in Reviewers :
       \/ ReviewReads(r) /\ UNCHANGED collectorVars
       \/ (MarkItem(r) \/ MoveItem(r)) /\ CollectorRests

Spec == Init /\ [][Next]_vars

-----------------------------------------------------------------------------
(* "Only promoted items become checksummed regression cases", and every    *)
(* one does: wherever the promotion fails or the daemon dies, an item that *)
(* says it is promoted is listed in the suite, while clients take turns.   *)
PromotedAreListed ==
  ~overlapped =>
    \A i \in Items, d \in Directory :
      entry[i][d] = "promoted" => i \in suite[item[i].profile]

(* "auto_review may reject verified duplicates": when it is about to       *)
(* reject one, an item that resembles it is accepted or promoted, while    *)
(* clients take turns.                                                     *)
DuplicatesAreRepresented ==
  ~overlapped =>
    \A r \in Reviewers :
      LET i == reviewer[r].item IN
      (/\ reviewer[r].batch /\ At(r, "marking") /\ reviewer[r].status = "rejected")
      => \E j \in Items \ {i} :
           /\ item[j].profile = item[i].profile
           /\ Resembles(item[j].content, item[i].content)
           /\ \E d \in Directory : entry[j][d] \in {"accepted", "promoted"}

(* What a review decided is consistent with what is on disk: suite.json    *)
(* and the promoted items, and duplicates and the items they duplicate     *)
(* (review, promote and deduplicate of the daemon's collection).           *)
ReviewInvariant == TypeOK /\ PromotedAreListed /\ DuplicatesAreRepresented
=============================================================================
