---------------------------- MODULE ProfileStore ----------------------------
(***************************************************************************)
(* The profile repository on disk (store.rs, collection.rs).  A profile id *)
(* has a directory under profiles/, under the one installed collection     *)
(* (bundles/<router>/profiles/) or in the trash, each with the committed   *)
(* document, the retained revisions and the draft; and a high-water mark   *)
(* in the revision lineage, one file for all ids.                          *)
(*                                                                         *)
(* Every file is replaced atomically, every directory is moved by one      *)
(* rename and deleted file by file, so each of these is one step; an       *)
(* operation is a sequence of them with no lock around it, run by any      *)
(* connection of the daemon.  Between two steps the operation may fail or  *)
(* the daemon may crash, which leaves the same files behind.               *)
(*                                                                         *)
(* A document is its revision, counted from 1; 0 stands for a document, a  *)
(* mark or a pin that is not there (revision 0 of the source is 1 here).   *)
(* A rollback is a commit whose content is that of a retained revision.    *)
(***************************************************************************)
EXTENDS Naturals, FiniteSets, Sequences, SequencesExt

CONSTANTS
  Ids,            \* profile ids
  Clients,        \* connections
  RevisionLimit,  \* retained revisions
  Incoming,       \* archives from elsewhere: non-empty sets of ids -> revisions
  MaxRequests     \* bound: requests begun

ASSUME StoreAssumption ==
  /\ IsFiniteSet(Ids)
  /\ RevisionLimit \in Nat \ {0}
  /\ MaxRequests \in Nat

VARIABLES
  dir,        \* id -> place -> directory
  pins,       \* the collection's bundle.json: id -> revision it pins
  lineage,    \* id -> high-water mark
  archives,   \* archives there are to import
  client,     \* client -> where its operation is
  requests,   \* requests begun so far
  published   \* id -> the revisions that became current, in order (history)

store == <<dir, pins, lineage>>
vars == <<store, archives, client, requests, published>>

Place == {"profiles", "collection", "trash"}
Directory == [document : Nat, history : SUBSET Nat, draft : BOOLEAN]
Absent == [document |-> 0, history |-> {}, draft |-> FALSE]

(* No revision is retained above the document; a deletion that is cut off  *)
(* may leave revisions without one.                                        *)
WellFormed(directory) ==
  directory.document # 0 =>
    \A revision \in directory.history : revision <= directory.document

Revisions == [Ids -> Nat]
NoRevisions == [id \in Ids |-> 0]
IsArchive(archive) ==
  DOMAIN archive \in (SUBSET Ids) \ {{}} /\ \A id \in DOMAIN archive : archive[id] \in Nat \ {0}

ASSUME IncomingAssumption == \A archive \in Incoming : IsArchive(archive)

Operation == {"none", "commit", "create", "profile", "bundle", "trash", "restore", "delete"}
Step == {"idle", "history", "document", "floor", "readMark", "writeMark",
         "prune", "draft", "move", "remove"}
ClientRecord ==
  [op : Operation, pc : Step, ids : Seq(Ids), place : Place,
   revision : Revisions, marks : Revisions]
Idle == [op |-> "none", pc |-> "idle", ids |-> <<>>, place |-> "profiles",
         revision |-> NoRevisions, marks |-> NoRevisions]

TypeOK ==
  /\ dir \in [Ids -> [Place -> Directory]]
  /\ pins \in Revisions
  /\ lineage \in Revisions
  /\ \A archive \in archives : IsArchive(archive)
  /\ client \in [Clients -> ClientRecord]
  /\ requests \in 0 .. MaxRequests
  /\ published \in [Ids -> Seq(Nat)]
  /\ \A id \in Ids, place \in Place : WellFormed(dir[id][place])

Init ==
  /\ dir = [id \in Ids |-> [place \in Place |-> Absent]]
  /\ pins = NoRevisions
  /\ lineage = NoRevisions
  /\ archives = Incoming
  /\ client = [c \in Clients |-> Idle]
  /\ requests = 0
  /\ published = [id \in Ids |-> <<>>]

Latest(a, b) == IF a >= b THEN a ELSE b

-----------------------------------------------------------------------------
(* Mutant: only profiles/ is looked at. *)
HomeInProfiles(id) == "profiles"

(* profile_directory: the one under profiles/ when there is one, else the  *)
(* installed one with a document.                                          *)
Home(id) ==
  IF dir[id]["profiles"] = Absent /\ dir[id]["collection"].document # 0
  THEN "collection"
  ELSE "profiles"
Current(id) == dir[id][Home(id)]
Exists(id) == Current(id) # Absent

(* ensure_tracked_revision: a document below the mark or below the trashed *)
(* one does not load.                                                      *)
Loads(id) ==
  /\ Current(id).document # 0
  /\ Current(id).document >= Latest(lineage[id], dir[id]["trash"].document)

(* Mutant: only the documents count, not the lineage. *)
DocumentFloor(id) == Latest(Current(id).document, dir[id]["trash"].document)

(* import_revision_floor: no document of the id is known to be above it.   *)
Floor(id) ==
  Latest(lineage[id],
         Latest(dir[id]["profiles"].document,
                Latest(dir[id]["collection"].document, dir[id]["trash"].document)))

CollectionInstalled == pins # NoRevisions
Pinned == {id \in Ids : pins[id] # 0}

(* bundle_profiles: every pinned document loads and has the pinned revision. *)
CollectionIsWhole ==
  \A id \in Pinned : Loads(id) /\ Current(id).document = pins[id]

-----------------------------------------------------------------------------
Request(c) ==
  /\ client[c].pc = "idle"
  /\ requests < MaxRequests
  /\ requests' = requests + 1

At(c, pc) == client[c].pc = pc
Id(c) == Head(client[c].ids)
Revision(c) == client[c].revision[Id(c)]
Goto(c, pc) == client' = [client EXCEPT ![c].pc = pc]
Return(c) == client' = [client EXCEPT ![c] = Idle]

BeginIn(c, op, pc, ids, revision, place) ==
  /\ Request(c)
  /\ client' = [client EXCEPT ![c] =
       [Idle EXCEPT !.op = op, !.pc = pc, !.ids = ids, !.revision = revision,
                    !.place = place]]
  /\ UNCHANGED <<store, archives, published>>

Begin(c, op, pc, ids, revision) == BeginIn(c, op, pc, ids, revision, Home(Head(ids)))

Only(id, revision) == [NoRevisions EXCEPT ![id] = revision]

(* commit and rollback, of the revision the client expects *)
BeginCommit(c, id) ==
  /\ Loads(id)
  /\ Begin(c, "commit", "history", <<id>>, Only(id, Current(id).document + 1))

(* create: refused when the id is live or in the trash, or the revision is *)
(* not above every known one.                                              *)
BeginCreate(c, id, revision) ==
  /\ ~Exists(id)
  /\ dir[id]["trash"] = Absent
  /\ revision > Floor(id)
  /\ Begin(c, "create", "document", <<id>>, Only(id, revision))

(* The documents of an archive, once it is extracted. *)
Staged(archive) == [id \in Ids |-> IF id \in DOMAIN archive THEN archive[id] ELSE 0]
ContainsLive(archive) == \E id \in DOMAIN archive : Exists(id)

(* import_archive: refused when the contained id is live. *)
BeginImportProfile(c, archive) ==
  /\ Cardinality(DOMAIN archive) = 1
  /\ ~ContainsLive(archive)
  /\ Begin(c, "profile", "floor", SetToSeq(DOMAIN archive), Staged(archive))

(* import_bundle: also refused when the collection is installed. *)
BeginImportBundle(c, archive) ==
  /\ Cardinality(DOMAIN archive) > 1
  /\ ~CollectionInstalled
  /\ ~ContainsLive(archive)
  /\ Begin(c, "bundle", "floor", SetToSeq(DOMAIN archive), Staged(archive))

BeginImport(c, archive) == BeginImportProfile(c, archive) \/ BeginImportBundle(c, archive)

BeginTrash(c, id) ==
  /\ Loads(id)
  /\ Begin(c, "trash", "readMark", <<id>>, Only(id, Current(id).document))

(* restore: refused when there is a directory of this id, or a known       *)
(* revision above the trashed one.                                         *)
BeginRestore(c, id) ==
  LET revision == dir[id]["trash"].document IN
  /\ ~Exists(id)
  /\ revision # 0
  /\ revision >= Floor(id)
  /\ Begin(c, "restore", "readMark", <<id>>, Only(id, revision))

(* save_draft makes the directory when there is none. *)
SaveDraft(c, id) ==
  /\ Request(c)
  /\ dir' = [dir EXCEPT ![id][Home(id)].draft = TRUE]
  /\ UNCHANGED <<pins, lineage, archives, client, published>>

(* permanently_delete_trashed *)
BeginDelete(c, id) ==
  /\ dir[id]["trash"] # Absent
  /\ BeginIn(c, "delete", "remove", <<id>>, NoRevisions, "trash")

(* export_profile leaves the draft and the retained revisions out; a       *)
(* collection is exported only whole.                                      *)
Export(c, ids) ==
  /\ Request(c)
  /\ archives' = archives \cup {[id \in ids |-> Current(id).document]}
  /\ UNCHANGED <<store, client, published>>

ExportProfile(c, id) == Current(id).document # 0 /\ Export(c, {id})
ExportBundle(c) == CollectionInstalled /\ CollectionIsWhole /\ Export(c, Pinned)

-----------------------------------------------------------------------------
(* The current document is saved under its revision number, *)
SaveHistory(c) ==
  /\ At(c, "history")
  /\ dir' = [dir EXCEPT ![Id(c)][client[c].place].history = @ \cup {Revision(c) - 1}]
  /\ Goto(c, "document")
  /\ UNCHANGED <<pins, lineage, archives, requests, published>>

(* the new one replaces it, *)
SaveDocument(c) ==
  /\ At(c, "document")
  /\ dir' = [dir EXCEPT ![Id(c)][client[c].place].document = Revision(c)]
  /\ published' = [published EXCEPT ![Id(c)] = Append(@, Revision(c))]
  /\ Goto(c, "readMark")
  /\ UNCHANGED <<pins, lineage, archives, requests>>

(* An imported document is rebased above every revision known of its id, *)
Rebase(c) ==
  /\ At(c, "floor")
  /\ client' = [client EXCEPT ![c].pc = "readMark",
                              ![c].revision[Id(c)] = Latest(@, Floor(Id(c)) + 1)]
  /\ UNCHANGED <<store, archives, requests, published>>

(* and its mark recorded; a collection goes on with its next document. *)
AfterMark(c) ==
  CASE client[c].op = "commit" -> Goto(c, "prune")
    [] client[c].op = "create" -> Return(c)
    [] client[c].op = "bundle" /\ Len(client[c].ids) > 1 ->
         client' = [client EXCEPT ![c].pc = "floor", ![c].ids = Tail(@)]
    [] OTHER -> Goto(c, "move")

(* record_revision reads the lineage, refuses to go back, *)
ReadMark(c) ==
  LET mark == lineage[Id(c)] IN
  /\ At(c, "readMark")
  /\ \/ Revision(c) < mark /\ Return(c)
     \/ Revision(c) = mark /\ AfterMark(c)
     \/ /\ Revision(c) > mark
        /\ client' = [client EXCEPT ![c].pc = "writeMark", ![c].marks = lineage]
  /\ UNCHANGED <<store, archives, requests, published>>

(* Mutant: the marks of the other profiles are forgotten. *)
WriteOnlyMark(c) ==
  /\ At(c, "writeMark")
  /\ lineage' = Only(Id(c), Revision(c))
  /\ AfterMark(c)
  /\ UNCHANGED <<dir, pins, archives, requests, published>>

(* and writes all the marks it read with the new one. *)
WriteMark(c) ==
  /\ At(c, "writeMark")
  /\ lineage' = [client[c].marks EXCEPT ![Id(c)] = Revision(c)]
  /\ AfterMark(c)
  /\ UNCHANGED <<dir, pins, archives, requests, published>>

(* The retained revisions are pruned to the newest, *)
Prune(c) ==
  /\ At(c, "prune")
  /\ dir' = [dir EXCEPT ![Id(c)][client[c].place].history =
       {r \in @ : Cardinality({s \in @ : s > r}) < RevisionLimit}]
  /\ Goto(c, "draft")
  /\ UNCHANGED <<pins, lineage, archives, requests, published>>

(* and the draft is removed. *)
RemoveDraft(c) ==
  /\ At(c, "draft")
  /\ dir' = [dir EXCEPT ![Id(c)][client[c].place].draft = FALSE]
  /\ Return(c)
  /\ UNCHANGED <<pins, lineage, archives, requests, published>>

(* remove_dir_all removes the files of the directory it has opened one by  *)
(* one, in the order the file system lists them, and at last the empty     *)
(* directory; an empty one counts as none.                                 *)
WithoutOne(directory) ==
  {[directory EXCEPT !.document = 0], [directory EXCEPT !.draft = FALSE]}
    \cup {[directory EXCEPT !.history = @ \ {revision}] : revision \in directory.history}

RemoveFile(c) ==
  /\ At(c, "remove")
  /\ \E rest \in WithoutOne(dir[Id(c)][client[c].place]) :
       dir' = [dir EXCEPT ![Id(c)][client[c].place] = rest]
  /\ UNCHANGED <<pins, lineage, archives, client, requests, published>>

RemoveDirectory(c) ==
  /\ At(c, "remove")
  /\ dir[Id(c)][client[c].place] = Absent
  /\ Return(c)
  /\ UNCHANGED <<store, archives, requests, published>>

(* A rename fails when the destination is a directory with files in it or  *)
(* the source is gone.  A deletion under way goes on in the directory that *)
(* is moved.                                                               *)
Move(c, id, from, to) ==
  LET moves == dir[id][from] # Absent /\ dir[id][to] = Absent
      Follows(d) == moves /\ At(d, "remove") /\ Id(d) = id /\ client[d].place = from
  IN
  /\ dir' = IF moves
            THEN [dir EXCEPT ![id][to] = dir[id][from], ![id][from] = Absent]
            ELSE dir
  /\ client' = [d \in Clients |->
       CASE d = c -> Idle
         [] d # c /\ Follows(d) -> [client[d] EXCEPT !.place = to]
         [] OTHER -> client[d]]

(* trash looks the directory up again. *)
MoveToTrash(c) ==
  /\ At(c, "move")
  /\ client[c].op = "trash"
  /\ Move(c, Id(c), Home(Id(c)), "trash")
  /\ UNCHANGED <<pins, lineage, archives, requests, published>>

MoveBack(c) ==
  /\ At(c, "move")
  /\ client[c].op = "restore"
  /\ Move(c, Id(c), "trash", client[c].place)
  /\ UNCHANGED <<pins, lineage, archives, requests, published>>

(* The staged documents, and of a collection the pins rebased with them,   *)
(* appear at once.                                                         *)
Appear(c, ids, place) ==
  /\ dir' = [id \in Ids |->
       IF id \in ids
       THEN [dir[id] EXCEPT ![place] = [Absent EXCEPT !.document = client[c].revision[id]]]
       ELSE dir[id]]
  /\ published' = [id \in Ids |->
       IF id \in ids THEN Append(published[id], client[c].revision[id]) ELSE published[id]]

InstallProfile(c) ==
  /\ At(c, "move")
  /\ client[c].op = "profile"
  /\ IF dir[Id(c)]["profiles"] = Absent
     THEN Appear(c, {Id(c)}, "profiles")
     ELSE UNCHANGED <<dir, published>>
  /\ Return(c)
  /\ UNCHANGED <<pins, lineage, archives, requests>>

InstallCollection(c) ==
  LET ids == {id \in Ids : client[c].revision[id] # 0} IN
  /\ At(c, "move")
  /\ client[c].op = "bundle"
  /\ IF CollectionInstalled
     THEN UNCHANGED <<dir, pins, published>>
     ELSE Appear(c, ids, "collection") /\ pins' = client[c].revision
  /\ Return(c)
  /\ UNCHANGED <<lineage, archives, requests>>

(* A step fails, or the daemon crashes. *)
Abort(c) ==
  /\ ~At(c, "idle")
  /\ Return(c)
  /\ UNCHANGED <<store, archives, requests, published>>

StoreRequest(c) ==
  \/ \E id \in Ids :
       \/ BeginCommit(c, id) \/ BeginCreate(c, id, 1)
       \/ BeginTrash(c, id) \/ BeginRestore(c, id)
       \/ SaveDraft(c, id) \/ BeginDelete(c, id) \/ ExportProfile(c, id)
  \/ ExportBundle(c)
  \/ \E archive \in archives : BeginImport(c, archive)

StoreStep(c) ==
  \/ SaveHistory(c) \/ SaveDocument(c) \/ Rebase(c) \/ ReadMark(c) \/ WriteMark(c)
  \/ Prune(c) \/ RemoveDraft(c) \/ RemoveFile(c) \/ RemoveDirectory(c)
  \/ MoveToTrash(c) \/ MoveBack(c) \/ InstallProfile(c) \/ InstallCollection(c)
  \/ Abort(c)

Next == \E c \in Clients : StoreRequest(c) \/ StoreStep(c)

Spec == Init /\ [][Next]_vars

-----------------------------------------------------------------------------
(* SPEC-PROFILE-006 and 007: each document of an id that becomes current   *)
(* has a revision above every one before it, so a revision names one       *)
(* document, whatever was trashed, deleted, imported or left half done.    *)
RevisionsRise ==
  \A id \in Ids : \A i, j \in DOMAIN published[id] :
    i < j => published[id][i] < published[id][j]

(* What is committed keeps loading: no failed import, restore or commit    *)
(* leaves a mark or a trashed document above the live one; and no id is    *)
(* live in two places.                                                     *)
LiveProfilesLoad ==
  \A id \in Ids :
    /\ Current(id).document # 0 => Loads(id)
    /\ dir[id]["profiles"].document = 0 \/ dir[id]["collection"].document = 0

(* "Revision high-water marks may advance after a write failure and never  *)
(* regress."                                                               *)
MarksRise == [][\A id \in Ids : lineage'[id] >= lineage[id]]_vars

(* A document that is replaced stays among the retained revisions until    *)
(* RevisionLimit newer ones exist: "Rollback shall never erase or          *)
(* overwrite the current revision".                                        *)
ReplacedIsRetained(old, new) ==
  /\ new.document \notin {0, old.document} /\ old.document # 0
       => old.document \in new.history
  /\ new # Absent =>
       \A r \in old.history \ new.history :
         Cardinality({s \in new.history : s > r}) >= RevisionLimit
HistoryIsKept ==
  [][\A id \in Ids : \A place \in {"profiles", "collection"} :
       ReplacedIsRetained(dir[id][place], dir'[id][place])]_vars

(* What the store once recorded stays on record. *)
NothingIsForgotten == MarksRise /\ HistoryIsKept

(* A collection that appears is whole: every document it pins is there,    *)
(* loads, and has the pinned revision, whatever marks the import met.      *)
CollectionsArriveWhole ==
  [][~CollectionInstalled /\ CollectionInstalled' => CollectionIsWhole']_vars
=============================================================================
