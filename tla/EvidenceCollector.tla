------------------------- MODULE EvidenceCollector -------------------------
(***************************************************************************)
(* The passive evidence collector of the daemon: the Runtime of            *)
(* collection.rs, which admits one sample at a time, and the blocking      *)
(* writes that check the quota of a dataset and put an item in its inbox.  *)
(* EvidenceReview.tla adds the clients that review the items.              *)
(*                                                                         *)
(* A write runs on a thread of its own and outlives the analysis that      *)
(* scheduled it; it shares the runtime with whatever analysis is live when *)
(* it finishes.  What a frame shows and what its detectors read is one     *)
(* "content", of which the thumbnail and the evidence signature are what   *)
(* the collector compares.  A frame need not be sampled: a policy may be   *)
(* disabled, and the interval since the last sample may not have passed.   *)
(* Each profile has a dataset of its own, and quotas count items.          *)
(***************************************************************************)
EXTENDS Naturals, FiniteSets

CONSTANTS
  Profiles,    \* profiles with a collection policy
  NoProfile,   \* nothing is analyzed or configured
  Contents,    \* what frames show
  Thumbnail,   \* content -> how bright it is, for all the pixels of a thumbnail
  Signature,   \* content -> evidence_signature of its observations
  Threshold,   \* similarity_threshold
  Certain,     \* contents whose observations can be trusted
  MaxPending,  \* maximum_pending_items
  MaxItems,    \* bound: writes scheduled
  MaxStarts    \* bound: analyses started and restarts of the daemon

ASSUME CollectorAssumption ==
  /\ NoProfile \notin Profiles
  /\ Certain \subseteq Contents
  /\ Thumbnail \in [Contents -> Nat] /\ DOMAIN Signature = Contents
  /\ Threshold \in Nat
  /\ MaxPending \in Nat \ {0}
  /\ MaxItems \in Nat
  /\ MaxStarts \in Nat

VARIABLES
  live,      \* profile whose frames are analyzed
  runtime,   \* the collector shared by analyses and writes
  write,     \* item -> where its write is
  item,      \* item -> what was sampled
  entry,     \* item -> directory of its dataset -> status in its metadata
  starts,    \* analyses and daemons started so far
  sampled,   \* items sampled since the runtime was configured (history)
  eventful,  \* those of them sampled only for a transition (history)
  orphaned   \* a runtime was reset while its write was in flight (history)

collectorVars == <<live, runtime, write, item, entry, starts, sampled, eventful, orphaned>>

Items == 1 .. MaxItems
NoContent == 0
ASSUME ContentAssumption == NoContent \notin Contents

Status == {"pending", "needs_correction", "accepted", "rejected", "promoted"}
Directory == {"tmp", "inbox", "accepted", "rejected", "promoted"}
Absent == "absent"
WritePhase == {"none", "checking", "storing", "describing", "naming", "stored", "failed", "done"}

(* A directory without metadata has the status "unread". *)
Entries == [Directory -> Status \cup {Absent, "unread"}]
Sampled == [profile : Profiles \cup {NoProfile}, content : Contents \cup {NoContent}]
Runtimes == [profile : Profiles \cup {NoProfile}, reference : Contents \cup {NoContent},
             writing : BOOLEAN]

NoItem == [profile |-> NoProfile, content |-> NoContent]
Fresh(p) == [profile |-> p, reference |-> NoContent, writing |-> FALSE]
Nowhere == [d \in Directory |-> Absent]

CollectorTypeOK ==
  /\ live \in Profiles \cup {NoProfile}
  /\ runtime \in Runtimes
  /\ write \in [Items -> WritePhase]
  /\ item \in [Items -> Sampled]
  /\ entry \in [Items -> Entries]
  /\ starts \in 0 .. MaxStarts
  /\ eventful \subseteq sampled /\ sampled \subseteq Items
  /\ orphaned \in BOOLEAN
  /\ live # NoProfile => runtime.profile = live

CollectorInit ==
  /\ live = NoProfile
  /\ runtime = Fresh(NoProfile)
  /\ write = [i \in Items |-> "none"]
  /\ item = [i \in Items |-> NoItem]
  /\ entry = [i \in Items |-> Nowhere]
  /\ starts = 0
  /\ sampled = {}
  /\ eventful = {}
  /\ orphaned = FALSE

InFlight(i) == write[i] \notin {"none", "done"}

-----------------------------------------------------------------------------
(* Runtime::configure: another profile starts from a fresh runtime, which  *)
(* has no write in progress.                                               *)
Configure(p) == IF runtime.profile = p THEN runtime ELSE Fresh(p)

StartAnalysis(p) ==
  /\ live = NoProfile
  /\ starts < MaxStarts
  /\ starts' = starts + 1
  /\ live' = p
  /\ runtime' = Configure(p)
  /\ orphaned' = (orphaned \/ (runtime.profile # p /\ \E i \in Items : InFlight(i)))
  /\ sampled' = IF runtime.profile = p THEN sampled ELSE {}
  /\ eventful' = eventful \cap sampled'
  /\ UNCHANGED <<write, item, entry>>

(* stop_capture waits for the analysis task, but not for the writes. *)
StopAnalysis ==
  /\ live # NoProfile
  /\ live' = NoProfile
  /\ UNCHANGED <<runtime, write, item, entry, starts, sampled, eventful, orphaned>>

-----------------------------------------------------------------------------
(* Mutant: a write in flight does not hold back the next sample. *)
DueAnyway == live # NoProfile

(* Runtime::due. *)
Due == live # NoProfile /\ ~runtime.writing
(* Runtime::reserve_attempt, when the frame is due. *)
Reserved == [runtime EXCEPT !.writing = TRUE]

(* Two thumbnails are similar up to the threshold, and that is no          *)
(* equivalence; two signatures are the same or not.                        *)
Similar(c, d) ==
  Thumbnail[c] <= Thumbnail[d] + Threshold /\ Thumbnail[d] <= Thumbnail[c] + Threshold
Resembles(c, d) == Similar(c, d) /\ Signature[c] = Signature[d]

(* The frame is compared with what was stored last. *)
Seen(content) == runtime.reference # NoContent /\ Resembles(content, runtime.reference)
Novel(content, transition) == transition \/ ~Seen(content)

(* schedule_collection, for a frame of the live analysis: reserve the      *)
(* attempt and spawn the write of a frame that is novel.  The attempt of a *)
(* frame that is not is released before the frame ends.                    *)
Sample(content, transition) ==
  /\ Due
  /\ Novel(content, transition)
  /\ \E i \in Items :
       /\ write[i] = "none"
       /\ \A j \in Items : j < i => write[j] # "none"
       /\ write' = [write EXCEPT ![i] = "checking"]
       /\ item' = [item EXCEPT ![i] = [profile |-> live, content |-> content]]
       /\ sampled' = sampled \cup {i}
       /\ eventful' = IF Seen(content) THEN eventful \cup {i} ELSE eventful
  /\ runtime' = Reserved
  /\ UNCHANGED <<live, entry, starts, orphaned>>

(* storage_stats: every directory in the inbox is pending unless its       *)
(* metadata asks for a correction, the temporary directories included.     *)
CountsAsPending(i) ==
  \/ entry[i]["tmp"] # Absent
  \/ entry[i]["inbox"] \notin {Absent, "needs_correction"}
PendingOf(p) == {i \in Items : item[i].profile = p /\ CountsAsPending(i)}

Proceed(i, phase) == write' = [write EXCEPT ![i] = phase]

(* The write looks at the quota, *)
CheckQuota(i) ==
  /\ write[i] = "checking"
  /\ Proceed(i, IF Cardinality(PendingOf(item[i].profile)) < MaxPending
                THEN "storing" ELSE "failed")
  /\ UNCHANGED <<live, runtime, item, entry, starts, sampled, eventful, orphaned>>

(* persist_item: a temporary directory with the picture, *)
StoreItem(i) ==
  /\ write[i] = "storing"
  /\ entry' = [entry EXCEPT ![i]["tmp"] = "unread"]
  /\ Proceed(i, "describing")
  /\ UNCHANGED <<live, runtime, item, starts, sampled, eventful, orphaned>>

(* then the metadata, *)
DescribeItem(i) ==
  /\ write[i] = "describing"
  /\ entry' = [entry EXCEPT ![i]["tmp"] = "pending"]
  /\ Proceed(i, "naming")
  /\ UNCHANGED <<live, runtime, item, starts, sampled, eventful, orphaned>>

(* then its name. *)
NameItem(i) ==
  /\ write[i] = "naming"
  /\ entry' = [entry EXCEPT ![i]["tmp"] = Absent, ![i]["inbox"] = "pending"]
  /\ Proceed(i, "stored")
  /\ UNCHANGED <<live, runtime, item, starts, sampled, eventful, orphaned>>

(* A write that fails leaves the temporary directory where it is. *)
StoreFails(i) ==
  /\ write[i] \in {"checking", "storing", "describing", "naming"}
  /\ Proceed(i, "failed")
  /\ UNCHANGED <<live, runtime, item, entry, starts, sampled, eventful, orphaned>>

(* Mutant: the reference is left as it was. *)
FinishUnlearned(i) ==
  /\ write[i] \in {"stored", "failed"}
  /\ runtime' = [runtime EXCEPT !.writing = FALSE]
  /\ Proceed(i, "done")
  /\ UNCHANGED <<live, item, entry, starts, sampled, eventful, orphaned>>

(* The write reports to the runtime, whatever profile that is for by now. *)
FinishWrite(i) ==
  /\ write[i] \in {"stored", "failed"}
  /\ runtime' = [runtime EXCEPT
       !.writing = FALSE,
       !.reference = IF write[i] = "stored" THEN item[i].content ELSE @]
  /\ Proceed(i, "done")
  /\ UNCHANGED <<live, item, entry, starts, sampled, eventful, orphaned>>

(* The daemon is killed and started again: the datasets and policies stay. *)
RestartCollector ==
  /\ starts < MaxStarts
  /\ starts' = starts + 1
  /\ live' = NoProfile
  /\ runtime' = Fresh(NoProfile)
  /\ write' = [i \in Items |-> IF write[i] = "none" THEN "none" ELSE "done"]
  /\ sampled' = {}
  /\ eventful' = {}
  /\ UNCHANGED <<item, entry, orphaned>>

WriteStep(i) ==
  \/ CheckQuota(i) \/ StoreItem(i) \/ DescribeItem(i) \/ NameItem(i)
  \/ StoreFails(i) \/ FinishWrite(i)

CollectorNext ==
  \/ StopAnalysis
  \/ \E p \in Profiles : StartAnalysis(p)
  \/ \E content \in Contents, transition \in BOOLEAN :
       Sample(content, transition)
  \/ \E i \in Items : WriteStep(i)

-----------------------------------------------------------------------------
(* README "applies item/byte quotas": unless the collector was turned to   *)
(* another profile while it wrote, no dataset ever has more items that     *)
(* were not reviewed, finished or not, than its policy admits, although a  *)
(* write looks at the dataset well before it adds to it.                   *)
Unreviewed(i) == entry[i]["tmp"] # Absent \/ entry[i]["inbox"] = "pending"
QuotaKept ==
  ~orphaned =>
    \A p \in Profiles :
      Cardinality({i \in Items : item[i].profile = p /\ Unreviewed(i)}) <= MaxPending

(* replay.md "a frame is skipped only when ... its detector-evidence       *)
(* signature is unchanged": conversely, two items that one run of the      *)
(* collector stored one after the other differ, or an event came with the  *)
(* second.                                                                 *)
Stored(i) == \E d \in Directory \ {"tmp"} : entry[i][d] # Absent
StoredAreNovel ==
  ~orphaned =>
    \A i, j \in {k \in sampled : Stored(k)} :
      (i < j /\ \A k \in sampled : i < k /\ k < j => ~Stored(k))
        => ~Resembles(item[i].content, item[j].content) \/ j \in eventful
=============================================================================
