---------------------------- MODULE StoreProofs ----------------------------
(***************************************************************************)
(* Proofs about the profile store and the catalog in front of it, for      *)
(* requests that do not overlap, whichever connections make them: an       *)
(* operation has no lock, and the run MCProfileStoreConflict shows what    *)
(* two of them do to each other.                                           *)
(*                                                                         *)
(* An operation may stop between any two of its steps.  What the files say *)
(* is therefore kept apart from what an operation under way relies on:     *)
(* FilesAreSound holds whether or not there is one, and ClientIsSound says *)
(* what the files have in store for the next step of the one there is.     *)
(***************************************************************************)
EXTENDS Catalog, FiniteSetTheorems, WellFoundedInduction, SequenceTheorems, TLAPS

(* A connection with a request under way. *)
Busy(c) == client[c].pc # "idle" \/ ~Browsing(c, "idle")

(* CatalogSpec, with a step of a connection only while no other is busy. *)
SerialNext ==
  \/ \E offers \in SUBSET Packages : Publish(offers)
  \/ \E c \in Clients : (\A d \in Clients \ {c} : ~Busy(d)) /\ CatalogStep(c)
SerialSpec == CatalogInit /\ [][SerialNext]_catalogVars

-----------------------------------------------------------------------------
(* What the files say *)

Live == {"profiles", "collection"}
Vacant(id) == \A place \in Live : dir[id][place] = Absent

(* An id has at most one live directory, and one of the collection has a   *)
(* document.                                                               *)
LivesOnce(id) ==
  /\ dir[id]["collection"].document = 0 => dir[id]["collection"] = Absent
  /\ dir[id]["profiles"] # Absent => dir[id]["collection"] = Absent

(* The mark is between the trashed document and the live one, and no       *)
(* revision was ever current that is above all three.                      *)
MarkIsBetween(id) ==
  /\ dir[id]["trash"].document <= lineage[id]
  /\ \A place \in Live : dir[id][place].document # 0 => lineage[id] <= dir[id][place].document
  /\ \A i \in DOMAIN published[id] : published[id][i] <= Floor(id)

(* There is no directory of a collection that is not installed. *)
CollectionIsPinned ==
  ~CollectionInstalled => \A id \in Ids : dir[id]["collection"] = Absent

FilesAreSound ==
  /\ \A id \in Ids : LivesOnce(id) /\ MarkIsBetween(id)
  /\ CollectionIsPinned
  /\ RevisionsRise

-----------------------------------------------------------------------------
(* What an operation relies on *)

Committing(c) ==
  LET old == dir[Id(c)][client[c].place] IN
  /\ client[c].pc \in {"history", "document", "readMark", "writeMark", "prune", "draft"}
  /\ client[c].place \in Live
  /\ old.document # 0
  /\ client[c].pc \in {"history", "document"} => old.document + 1 = Revision(c)
  /\ client[c].pc = "document" => old.document \in old.history
  /\ client[c].pc \notin {"history", "document"} => old.document = Revision(c)

Creating(c) ==
  /\ client[c].pc \in {"document", "readMark", "writeMark"}
  /\ client[c].place = "profiles"
  /\ client[c].pc = "document" => Vacant(Id(c)) /\ Floor(Id(c)) < Revision(c)
  /\ client[c].pc # "document" => dir[Id(c)]["profiles"].document = Revision(c)

Trashing(c) ==
  /\ client[c].pc \in {"readMark", "writeMark", "move"}
  /\ Current(Id(c)).document = Revision(c)
  /\ client[c].pc = "move" => Revision(c) <= lineage[Id(c)]

Restoring(c) ==
  /\ client[c].pc \in {"readMark", "writeMark", "move"}
  /\ client[c].place = "profiles"
  /\ Vacant(Id(c))
  /\ dir[Id(c)]["trash"].document = Revision(c)
  /\ Revision(c) # 0
  /\ lineage[Id(c)] <= Revision(c)

(* A deletion relies on nothing else: whatever files are left are in the   *)
(* trash.                                                                  *)
Deleting(c) == client[c].pc = "remove" /\ client[c].place = "trash"

Arriving(c) == {id \in Ids : client[c].revision[id] # 0}
Waiting(c) == {client[c].ids[i] : i \in DOMAIN client[c].ids}
(* The document has its mark, and is above every one there was. *)
Marked(c, id) ==
  /\ lineage[id] = client[c].revision[id]
  /\ \A i \in DOMAIN published[id] : published[id][i] < client[c].revision[id]

Importing(c) ==
  /\ client[c].pc \in {"floor", "readMark", "writeMark", "move"}
  /\ \A i, j \in DOMAIN client[c].ids : client[c].ids[i] = client[c].ids[j] => i = j
  /\ Waiting(c) \subseteq Arriving(c)
  /\ \A id \in Arriving(c) : Vacant(id)
  /\ \A id \in Arriving(c) \ Waiting(c) : Marked(c, id)
  /\ client[c].pc \in {"readMark", "writeMark"} => Floor(Id(c)) < Revision(c)
  /\ client[c].pc = "move" => Len(client[c].ids) = 1 /\ Marked(c, Id(c))
  /\ client[c].op = "profile" => Arriving(c) = {Id(c)}
  /\ client[c].op = "bundle" => ~CollectionInstalled

ClientIsSound(c) ==
  client[c].pc # "idle" =>
    /\ client[c].ids # <<>>
    /\ client[c].op # "none"
    /\ client[c].op = "commit" => Committing(c)
    /\ client[c].op = "create" => Creating(c)
    /\ client[c].op = "trash" => Trashing(c)
    /\ client[c].op = "restore" => Restoring(c)
    /\ client[c].op = "delete" => Deleting(c)
    /\ client[c].op \in {"profile", "bundle"} => Importing(c)
    /\ client[c].pc = "writeMark" => client[c].marks = lineage /\ lineage[Id(c)] < Revision(c)

BrowserIsSound(c) ==
  /\ ~Browsing(c, "idle") => client[c].pc = "idle"
  /\ Browsing(c, "cache") => browser[c].fetched \in newest .. Len(releases)
  /\ Browsing(c, "download") => browser[c].package \in Offered(newest)

StoreInvariant ==
  /\ TypeOK
  /\ FilesAreSound
  /\ \A c \in Clients : ClientIsSound(c)

CatalogSound ==
  /\ CatalogTypeOK
  /\ cached = newest
  /\ StoreInvariant
  /\ \A c \in Clients : BrowserIsSound(c)

-----------------------------------------------------------------------------
(* Directories and marks *)

LEMMA AbsentIsEmpty ==
  /\ Absent \in Directory
  /\ Absent.document = 0 /\ Absent.history = {} /\ Absent.draft = FALSE
BY DEF Absent, Directory

LEMMA DirectoryType ==
  ASSUME TypeOK, NEW id \in Ids, NEW place \in Place
  PROVE  /\ dir[id][place] \in Directory
         /\ dir[id][place].document \in Nat
         /\ dir[id][place].history \in SUBSET Nat
         /\ dir[id][place].draft \in BOOLEAN
         /\ WellFormed(dir[id][place])
BY DEF TypeOK, Directory

LEMMA LatestFacts ==
  ASSUME NEW a \in Nat, NEW b \in Nat
  PROVE  /\ Latest(a, b) \in Nat
         /\ a <= Latest(a, b) /\ b <= Latest(a, b)
         /\ Latest(a, b) = a \/ Latest(a, b) = b
BY DEF Latest

(* The floor is the greatest of the mark and the three documents. *)
LEMMA FloorFacts ==
  ASSUME TypeOK, NEW id \in Ids
  PROVE  /\ Floor(id) \in Nat
         /\ lineage[id] <= Floor(id)
         /\ dir[id]["profiles"].document <= Floor(id)
         /\ dir[id]["collection"].document <= Floor(id)
         /\ dir[id]["trash"].document <= Floor(id)
         /\ Floor(id) \in {lineage[id], dir[id]["profiles"].document,
                           dir[id]["collection"].document, dir[id]["trash"].document}
<1> DEFINE p == dir[id]["profiles"].document
           q == dir[id]["collection"].document
           t == dir[id]["trash"].document
           m == lineage[id]
<1>1. p \in Nat /\ q \in Nat /\ t \in Nat /\ m \in Nat
  BY DirectoryType DEF Place, TypeOK, Revisions
<1>2. Floor(id) = Latest(m, Latest(p, Latest(q, t)))
  BY DEF Floor
<1> HIDE DEF p, q, t, m
<1>3. Floor(id) \in Nat /\ m <= Floor(id) /\ p <= Floor(id) /\ q <= Floor(id) /\ t <= Floor(id)
      /\ Floor(id) \in {m, p, q, t}
  BY <1>1, <1>2 DEF Latest
<1> QED  BY <1>3 DEF p, q, t, m

(* With the mark between them, only the live document is ever above it. *)
LEMMA FloorOfSound ==
  ASSUME TypeOK, NEW id \in Ids, MarkIsBetween(id)
  PROVE  /\ dir[id]["trash"].document <= lineage[id]
         /\ Vacant(id) => Floor(id) = lineage[id]
<1>1. dir[id]["trash"].document <= lineage[id]
  BY DEF MarkIsBetween
<1>2. lineage[id] \in Nat /\ dir[id]["trash"].document \in Nat
  BY DirectoryType DEF Place, TypeOK, Revisions
<1>3. ASSUME Vacant(id)  PROVE Floor(id) = lineage[id]
  <2>1. dir[id]["profiles"].document = 0 /\ dir[id]["collection"].document = 0
    BY <1>3, AbsentIsEmpty DEF Vacant, Live
  <2> QED  BY <1>1, <1>2, <2>1, FloorFacts
<1> QED  BY <1>1, <1>3

LEMMA HomeFacts ==
  ASSUME TypeOK, NEW id \in Ids, LivesOnce(id)
  PROVE  /\ Home(id) \in Live
         /\ Exists(id) <=> ~Vacant(id)
         /\ \A place \in Live : dir[id][place].document # 0 => Home(id) = place
         /\ Vacant(id) => Home(id) = "profiles"
         /\ Home(id) = "profiles" => dir[id]["collection"] = Absent
         /\ Current(id) = dir[id][Home(id)]
<1>1. dir[id]["profiles"] = Absent => dir[id]["profiles"].document = 0
  BY AbsentIsEmpty
<1>2. dir[id]["collection"] = Absent => dir[id]["collection"].document = 0
  BY AbsentIsEmpty
<1>3. CASE dir[id]["profiles"] = Absent /\ dir[id]["collection"].document # 0
  <2>1. Home(id) = "collection"
    BY <1>3 DEF Home
  <2>2. Current(id) = dir[id]["collection"]
    BY <2>1 DEF Current
  <2> QED  BY <1>1, <1>2, <1>3, <2>1, <2>2 DEF Live, Vacant, Exists
<1>4. CASE dir[id]["profiles"] # Absent \/ dir[id]["collection"].document = 0
  <2>1. Home(id) = "profiles"
    BY <1>4 DEF Home
  <2>2. Current(id) = dir[id]["profiles"]
    BY <2>1 DEF Current
  <2> QED  BY <1>1, <1>2, <1>4, <2>1, <2>2 DEF Live, Vacant, Exists, LivesOnce
<1> QED  BY <1>3, <1>4

LEMMA LoadedFacts ==
  ASSUME TypeOK, NEW id \in Ids, LivesOnce(id), MarkIsBetween(id)
  PROVE  Loads(id) <=> Current(id).document # 0
<1>1. Home(id) \in Live /\ Current(id) = dir[id][Home(id)]
  BY HomeFacts
<1>2. lineage[id] \in Nat /\ dir[id]["trash"].document \in Nat /\ Current(id).document \in Nat
  BY <1>1, DirectoryType DEF Place, TypeOK, Revisions, Live
<1>3. Current(id).document # 0 => lineage[id] <= Current(id).document
  BY <1>1 DEF MarkIsBetween
<1>4. dir[id]["trash"].document <= lineage[id]
  BY DEF MarkIsBetween
<1> QED  BY <1>2, <1>3, <1>4 DEF Loads, Latest

(* An operation under way has a first id, a revision for it and a place. *)
LEMMA ClientType ==
  ASSUME TypeOK, NEW c \in Clients
  PROVE  /\ client[c] \in ClientRecord
         /\ client[c].op \in Operation /\ client[c].pc \in Step /\ client[c].place \in Place
         /\ client[c].ids \in Seq(Ids)
         /\ client[c].revision \in [Ids -> Nat] /\ client[c].marks \in [Ids -> Nat]
         /\ client[c].ids # <<>> => Id(c) \in Ids /\ Revision(c) \in Nat
BY DEF TypeOK, ClientRecord, Revisions, Id, Revision

-----------------------------------------------------------------------------
(* What a step leaves of the facts about the files *)

MarksStep == \A id \in Ids : lineage'[id] >= lineage[id]
HistoryStep ==
  \A id \in Ids : \A place \in Live : ReplacedIsRetained(dir[id][place], dir'[id][place])
WholeStep == ~CollectionInstalled /\ CollectionInstalled' => CollectionIsWhole'

LEMMA RowKept ==
  ASSUME NEW id \in Ids,
         dir'[id] = dir[id], lineage'[id] = lineage[id], published'[id] = published[id]
  PROVE  /\ LivesOnce(id) => LivesOnce(id)'
         /\ MarkIsBetween(id) => MarkIsBetween(id)'
         /\ Floor(id)' = Floor(id)
         /\ Vacant(id)' <=> Vacant(id)
         /\ Current(id)' = Current(id)
<1>1. Floor(id)' = Floor(id)
  BY DEF Floor
<1>2. Vacant(id)' <=> Vacant(id)
  BY DEF Vacant
<1>3. Home(id)' = Home(id)
  BY DEF Home
<1>4. Current(id)' = Current(id)
  BY <1>3 DEF Current
<1>5. MarkIsBetween(id) => MarkIsBetween(id)'
  BY <1>1 DEF MarkIsBetween
<1>6. LivesOnce(id) => LivesOnce(id)'
  BY DEF LivesOnce
<1> QED  BY <1>1, <1>2, <1>4, <1>5, <1>6

(* A step that leaves the documents of an id alone, and changes only a     *)
(* directory with a document, keeps what the files say of the id.          *)
LEMMA DocumentsKept ==
  ASSUME NEW id \in Ids, lineage'[id] = lineage[id], published'[id] = published[id],
         \A place \in Place : dir'[id][place].document = dir[id][place].document,
         MarkIsBetween(id)
  PROVE  /\ Floor(id)' = Floor(id)
         /\ MarkIsBetween(id)'
         /\ (/\ LivesOnce(id)
             /\ \A place \in Live :
                  dir'[id][place] = dir[id][place] \/ dir[id][place].document # 0)
            => LivesOnce(id)'
<1>1. /\ dir'[id]["profiles"].document = dir[id]["profiles"].document
      /\ dir'[id]["collection"].document = dir[id]["collection"].document
      /\ dir'[id]["trash"].document = dir[id]["trash"].document
  BY DEF Place
<1>2. Floor(id)' = Floor(id)
  BY <1>1 DEF Floor
<1>3. MarkIsBetween(id)'
  BY <1>1, <1>2 DEF MarkIsBetween, Live
<1>4. ASSUME LivesOnce(id),
             \A place \in Live : dir'[id][place] = dir[id][place] \/ dir[id][place].document # 0
      PROVE  LivesOnce(id)'
  BY <1>1, <1>4, AbsentIsEmpty DEF LivesOnce, Live
<1> QED  BY <1>2, <1>3, <1>4

LEMMA FilesAfterRow ==
  ASSUME FilesAreSound, NEW id \in Ids, pins' = pins,
         \A x \in Ids \ {id} : /\ dir'[x] = dir[x] /\ lineage'[x] = lineage[x]
                               /\ published'[x] = published[x],
         LivesOnce(id)', MarkIsBetween(id)',
         ~CollectionInstalled => dir'[id]["collection"] = Absent,
         \A i, j \in DOMAIN published'[id] : i < j => published'[id][i] < published'[id][j]
  PROVE  FilesAreSound'
<1>1. ASSUME NEW x \in Ids  PROVE LivesOnce(x)' /\ MarkIsBetween(x)'
  <2>1. CASE x = id
    BY <2>1
  <2>2. CASE x # id
    BY <2>2, RowKept DEF FilesAreSound
  <2> QED  BY <2>1, <2>2
<1>2. CollectionIsPinned'
  <2>1. CollectionInstalled' <=> CollectionInstalled
    BY DEF CollectionInstalled
  <2>2. ASSUME ~CollectionInstalled, NEW x \in Ids  PROVE dir'[x]["collection"] = Absent
    BY <2>2 DEF FilesAreSound, CollectionIsPinned
  <2> QED  BY <2>1, <2>2 DEF CollectionIsPinned
<1>3. RevisionsRise'
  <2>1. ASSUME NEW x \in Ids, NEW i \in DOMAIN published'[x], NEW j \in DOMAIN published'[x], i < j
        PROVE  published'[x][i] < published'[x][j]
    BY <2>1 DEF FilesAreSound, RevisionsRise
  <2> QED  BY <2>1 DEF RevisionsRise
<1> QED  BY <1>1, <1>2, <1>3 DEF FilesAreSound

LEMMA RetainedIfSame ==
  ASSUME NEW directory
  PROVE  ReplacedIsRetained(directory, directory)
BY DEF ReplacedIsRetained

LEMMA StepsOfRow ==
  ASSUME NEW id \in Ids, pins' = pins,
         lineage \in Revisions, lineage' = lineage,
         \A x \in Ids \ {id} : dir'[x] = dir[x],
         \A place \in Live : ReplacedIsRetained(dir[id][place], dir'[id][place])
  PROVE  MarksStep /\ HistoryStep /\ WholeStep
<1>1. MarksStep
  BY DEF MarksStep, Revisions
<1>2. HistoryStep
  <2>1. ASSUME NEW x \in Ids, NEW place \in Live
        PROVE  ReplacedIsRetained(dir[x][place], dir'[x][place])
    BY RetainedIfSame
  <2> QED  BY <2>1 DEF HistoryStep
<1>3. WholeStep
  BY DEF WholeStep, CollectionInstalled
<1> QED  BY <1>1, <1>2, <1>3

(* A step that leaves the files alone. *)
LEMMA FilesKept ==
  ASSUME TypeOK, UNCHANGED <<store, published>>
  PROVE  /\ FilesAreSound => FilesAreSound'
         /\ MarksStep /\ HistoryStep /\ WholeStep
         /\ \A id \in Ids : /\ Floor(id)' = Floor(id) /\ Vacant(id)' = Vacant(id)
                            /\ Current(id)' = Current(id)
<1>1. dir' = dir /\ pins' = pins /\ lineage' = lineage /\ published' = published
  BY DEF store
<1>2. \A id \in Ids : /\ Floor(id)' = Floor(id) /\ (Vacant(id)' <=> Vacant(id))
                      /\ Current(id)' = Current(id)
                      /\ (LivesOnce(id) => LivesOnce(id)')
                      /\ (MarkIsBetween(id) => MarkIsBetween(id)')
  BY <1>1, RowKept
<1>3. FilesAreSound => FilesAreSound'
  BY <1>1, <1>2 DEF FilesAreSound, CollectionIsPinned, CollectionInstalled, RevisionsRise
<1>4. MarksStep
  BY <1>1 DEF MarksStep, TypeOK, Revisions
<1>5. HistoryStep
  BY <1>1, RetainedIfSame DEF HistoryStep
<1>6. WholeStep
  BY <1>1 DEF WholeStep, CollectionInstalled
<1> QED  BY <1>2, <1>3, <1>4, <1>5, <1>6 DEF Vacant

-----------------------------------------------------------------------------
(* Where the operation of a client goes next *)

LEMMA GotoFacts ==
  ASSUME TypeOK, NEW c \in Clients, NEW pc \in Step, Goto(c, pc)
  PROVE  /\ client' \in [Clients -> ClientRecord]
         /\ client'[c].pc = pc
         /\ client'[c].op = client[c].op /\ client'[c].ids = client[c].ids
         /\ client'[c].place = client[c].place /\ client'[c].revision = client[c].revision
         /\ client'[c].marks = client[c].marks
         /\ Id(c)' = Id(c) /\ Revision(c)' = Revision(c)
BY DEF TypeOK, ClientRecord, Goto, Id, Revision

LEMMA ReturnFacts ==
  ASSUME TypeOK, NEW c \in Clients, Return(c)
  PROVE  /\ client' \in [Clients -> ClientRecord]
         /\ client'[c].pc = "idle"
         /\ ClientIsSound(c)'
<1>1. Idle \in ClientRecord /\ Idle.pc = "idle"
  <2>1. NoRevisions \in Revisions
    BY DEF NoRevisions, Revisions
  <2>2. <<>> \in Seq(Ids)
    OBVIOUS
  <2> QED  BY <2>1, <2>2 DEF Idle, ClientRecord, Operation, Step, Place
<1>2. client' \in [Clients -> ClientRecord] /\ client'[c] = Idle
  BY <1>1 DEF Return, TypeOK
<1> QED  BY <1>1, <1>2 DEF ClientIsSound

(* The operations that have a step. *)
LEMMA OperationOfStep ==
  ASSUME TypeOK, NEW c \in Clients, ClientIsSound(c), client[c].pc # "idle"
  PROVE  /\ client[c].ids # <<>>
         /\ client[c].op \in {"commit", "create", "profile", "bundle", "trash", "restore", "delete"}
         /\ client[c].pc \in {"history", "prune", "draft"} => client[c].op = "commit"
         /\ client[c].pc = "document" => client[c].op \in {"commit", "create"}
         /\ client[c].pc = "floor" => client[c].op \in {"profile", "bundle"}
         /\ client[c].pc = "move" => client[c].op \in {"profile", "bundle", "trash", "restore"}
         /\ client[c].pc = "remove" <=> client[c].op = "delete"
<1>1. client[c].op \in {"commit", "create", "profile", "bundle", "trash", "restore", "delete"}
  BY ClientType DEF Operation, ClientIsSound
<1>2. CASE client[c].op = "commit"
  BY <1>1, <1>2 DEF ClientIsSound, Committing
<1>3. CASE client[c].op = "create"
  BY <1>1, <1>3 DEF ClientIsSound, Creating
<1>4. CASE client[c].op = "trash"
  BY <1>1, <1>4 DEF ClientIsSound, Trashing
<1>5. CASE client[c].op = "restore"
  BY <1>1, <1>5 DEF ClientIsSound, Restoring
<1>6. CASE client[c].op \in {"profile", "bundle"}
  BY <1>1, <1>6 DEF ClientIsSound, Importing
<1>7. CASE client[c].op = "delete"
  BY <1>1, <1>7 DEF ClientIsSound, Deleting
<1> QED  BY <1>1, <1>2, <1>3, <1>4, <1>5, <1>6, <1>7

-----------------------------------------------------------------------------
(* Edits of one directory *)

EditedOnly(id, place) ==
  /\ dir' \in [Ids -> [Place -> Directory]]
  /\ \A x \in Ids \ {id} : dir'[x] = dir[x]
  /\ \A p \in Place \ {place} : dir'[id][p] = dir[id][p]

LEMMA HistoryEdit ==
  ASSUME TypeOK, NEW id \in Ids, NEW place \in Place, NEW history \in SUBSET Nat,
         dir' = [dir EXCEPT ![id][place].history = history]
  PROVE  /\ EditedOnly(id, place)
         /\ dir'[id][place].history = history
         /\ dir'[id][place].document = dir[id][place].document
         /\ dir'[id][place].draft = dir[id][place].draft
<1>1. dir \in [Ids -> [Place -> Directory]] /\ dir[id] \in [Place -> Directory]
  BY DEF TypeOK
<1>2. dir[id][place] \in [document : Nat, history : SUBSET Nat, draft : BOOLEAN]
  BY <1>1 DEF Directory
<1> DEFINE new == [dir[id][place] EXCEPT !.history = history]
           row == [dir[id] EXCEPT ![place] = new]
<1>3. new \in [document : Nat, history : SUBSET Nat, draft : BOOLEAN]
  BY <1>2
<1>4. dir' = [dir EXCEPT ![id] = row]
  OBVIOUS
<1>5. /\ new.document = dir[id][place].document
      /\ new.history = history
      /\ new.draft = dir[id][place].draft
  BY <1>2
<1>6. new \in Directory
  BY <1>3 DEF Directory
<1> HIDE DEF new
<1>7. row \in [Place -> Directory] /\ row[place] = new /\ \A p \in Place \ {place} : row[p] = dir[id][p]
  BY <1>1, <1>6
<1> HIDE DEF row
<1>8. dir' \in [Ids -> [Place -> Directory]] /\ dir'[id] = row /\ \A x \in Ids \ {id} : dir'[x] = dir[x]
  BY <1>1, <1>4, <1>7
<1> QED  BY <1>5, <1>7, <1>8 DEF EditedOnly

LEMMA DocumentEdit ==
  ASSUME TypeOK, NEW id \in Ids, NEW place \in Place, NEW document \in Nat,
         dir' = [dir EXCEPT ![id][place].document = document]
  PROVE  /\ EditedOnly(id, place)
         /\ dir'[id][place].history = dir[id][place].history
         /\ dir'[id][place].document = document
         /\ dir'[id][place].draft = dir[id][place].draft
<1>1. dir \in [Ids -> [Place -> Directory]] /\ dir[id] \in [Place -> Directory]
  BY DEF TypeOK
<1>2. dir[id][place] \in [document : Nat, history : SUBSET Nat, draft : BOOLEAN]
  BY <1>1 DEF Directory
<1> DEFINE new == [dir[id][place] EXCEPT !.document = document]
           row == [dir[id] EXCEPT ![place] = new]
<1>3. new \in [document : Nat, history : SUBSET Nat, draft : BOOLEAN]
  BY <1>2
<1>4. dir' = [dir EXCEPT ![id] = row]
  OBVIOUS
<1>5. /\ new.document = document
      /\ new.history = dir[id][place].history
      /\ new.draft = dir[id][place].draft
  BY <1>2
<1>6. new \in Directory
  BY <1>3 DEF Directory
<1> HIDE DEF new
<1>7. row \in [Place -> Directory] /\ row[place] = new /\ \A p \in Place \ {place} : row[p] = dir[id][p]
  BY <1>1, <1>6
<1> HIDE DEF row
<1>8. dir' \in [Ids -> [Place -> Directory]] /\ dir'[id] = row /\ \A x \in Ids \ {id} : dir'[x] = dir[x]
  BY <1>1, <1>4, <1>7
<1> QED  BY <1>5, <1>7, <1>8 DEF EditedOnly

LEMMA DraftEdit ==
  ASSUME TypeOK, NEW id \in Ids, NEW place \in Place, NEW draft \in BOOLEAN,
         dir' = [dir EXCEPT ![id][place].draft = draft]
  PROVE  /\ EditedOnly(id, place)
         /\ dir'[id][place].history = dir[id][place].history
         /\ dir'[id][place].document = dir[id][place].document
         /\ dir'[id][place].draft = draft
<1>1. dir \in [Ids -> [Place -> Directory]] /\ dir[id] \in [Place -> Directory]
  BY DEF TypeOK
<1>2. dir[id][place] \in [document : Nat, history : SUBSET Nat, draft : BOOLEAN]
  BY <1>1 DEF Directory
<1> DEFINE new == [dir[id][place] EXCEPT !.draft = draft]
           row == [dir[id] EXCEPT ![place] = new]
<1>3. new \in [document : Nat, history : SUBSET Nat, draft : BOOLEAN]
  BY <1>2
<1>4. dir' = [dir EXCEPT ![id] = row]
  OBVIOUS
<1>5. /\ new.document = dir[id][place].document
      /\ new.history = dir[id][place].history
      /\ new.draft = draft
  BY <1>2
<1>6. new \in Directory
  BY <1>3 DEF Directory
<1> HIDE DEF new
<1>7. row \in [Place -> Directory] /\ row[place] = new /\ \A p \in Place \ {place} : row[p] = dir[id][p]
  BY <1>1, <1>6
<1> HIDE DEF row
<1>8. dir' \in [Ids -> [Place -> Directory]] /\ dir'[id] = row /\ \A x \in Ids \ {id} : dir'[x] = dir[x]
  BY <1>1, <1>4, <1>7
<1> QED  BY <1>5, <1>7, <1>8 DEF EditedOnly

(* The type invariant after a step that edits one directory. *)
LEMMA TypeAfterEdit ==
  ASSUME TypeOK, NEW id \in Ids, NEW place \in Place, EditedOnly(id, place),
         WellFormed(dir'[id][place]),
         UNCHANGED <<pins, lineage, archives>>,
         requests' \in 0 .. MaxRequests,
         client' \in [Clients -> ClientRecord],
         published' \in [Ids -> Seq(Nat)]
  PROVE  TypeOK'
<1>1. \A x \in Ids, p \in Place : WellFormed(dir'[x][p])
  <2> TAKE x \in Ids, p \in Place
  <2>1. CASE x = id /\ p = place
    BY <2>1
  <2>2. CASE ~(x = id /\ p = place)
    <3>1. dir'[x][p] = dir[x][p]
      BY <2>2 DEF EditedOnly
    <3> QED  BY <3>1 DEF TypeOK
  <2> QED  BY <2>1, <2>2
<1> QED  BY <1>1 DEF TypeOK, EditedOnly

(* The files after a step that edits one directory and no document.        *)
LEMMA FilesAfterEdit ==
  ASSUME TypeOK, FilesAreSound, NEW id \in Ids, NEW place \in Place, EditedOnly(id, place),
         dir'[id][place].document = dir[id][place].document,
         dir[id][place].document # 0,
         UNCHANGED <<pins, lineage, published>>
  PROVE  FilesAreSound' /\ Floor(id)' = Floor(id)
<1>1. \A p \in Place : dir'[id][p].document = dir[id][p].document
  BY DEF EditedOnly
<1>2. Floor(id)' = Floor(id) /\ MarkIsBetween(id)' /\ LivesOnce(id)'
  <2>1. \A p \in Live : dir'[id][p] = dir[id][p] \/ dir[id][p].document # 0
    BY DEF EditedOnly, Live, Place
  <2>2. LivesOnce(id) /\ MarkIsBetween(id)
    BY DEF FilesAreSound
  <2>3. lineage'[id] = lineage[id] /\ published'[id] = published[id]
    OBVIOUS
  <2> QED  BY <1>1, <2>1, <2>2, <2>3, DocumentsKept
<1>3. ~CollectionInstalled => dir'[id]["collection"] = Absent
  <2>1. SUFFICES ASSUME ~CollectionInstalled  PROVE dir'[id]["collection"] = Absent
    OBVIOUS
  <2>2. dir[id]["collection"] = Absent
    BY <2>1 DEF FilesAreSound, CollectionIsPinned
  <2>3. place # "collection"
    BY <2>2, AbsentIsEmpty
  <2> QED  BY <2>2, <2>3 DEF EditedOnly, Place
<1>4. \A x \in Ids \ {id} :
        dir'[x] = dir[x] /\ lineage'[x] = lineage[x] /\ published'[x] = published[x]
  BY DEF EditedOnly
<1>5. \A i, j \in DOMAIN published'[id] : i < j => published'[id][i] < published'[id][j]
  BY DEF FilesAreSound, RevisionsRise
<1> QED  BY <1>2, <1>3, <1>4, <1>5, FilesAfterRow

StepIsSound(c) ==
  /\ TypeOK' /\ FilesAreSound' /\ ClientIsSound(c)'
  /\ MarksStep /\ HistoryStep /\ WholeStep

LEMMA SaveHistoryIsSound ==
  ASSUME StoreInvariant, NEW c \in Clients, SaveHistory(c)
  PROVE  StepIsSound(c)
<1> DEFINE id == Id(c)
           place == client[c].place
           history == dir[id][place].history \cup {Revision(c) - 1}
<1>1. TypeOK /\ FilesAreSound /\ ClientIsSound(c) /\ client[c].pc = "history"
  BY DEF StoreInvariant, SaveHistory, At
<1>2. client[c].ids # <<>> /\ client[c].op = "commit" /\ Committing(c)
  BY <1>1, OperationOfStep DEF ClientIsSound
<1>3. /\ id \in Ids /\ Revision(c) \in Nat /\ place \in Place /\ place \in Live
      /\ dir[id][place].document \in Nat /\ dir[id][place].document # 0
      /\ dir[id][place].document + 1 = Revision(c)
      /\ dir[id][place].history \in SUBSET Nat
      /\ WellFormed(dir[id][place])
  BY <1>1, <1>2, ClientType, DirectoryType DEF Committing
<1>3a. history \in SUBSET Nat
  BY <1>3
<1>4. dir' = [dir EXCEPT ![id][place].history = history]
  BY DEF SaveHistory
<1> HIDE DEF history
<1>5. /\ EditedOnly(id, place) /\ dir'[id][place].history = history
      /\ dir'[id][place].document = dir[id][place].document
  BY <1>1, <1>3, <1>3a, <1>4, HistoryEdit
<1>6. UNCHANGED <<pins, lineage, archives, requests, published>> /\ Goto(c, "document")
  BY DEF SaveHistory
<1>7. /\ client' \in [Clients -> ClientRecord]
      /\ client'[c].pc = "document" /\ client'[c].op = "commit"
      /\ client'[c].ids = client[c].ids /\ client'[c].place = place
      /\ Id(c)' = id /\ Revision(c)' = Revision(c)
  BY <1>1, <1>2, <1>6, GotoFacts DEF Step
<1> HIDE DEF id, place
<1>8. WellFormed(dir'[id][place])
  BY <1>3, <1>5 DEF WellFormed, history
<1>9. TypeOK'
  BY <1>1, <1>3, <1>5, <1>6, <1>7, <1>8, TypeAfterEdit DEF TypeOK
<1>10. FilesAreSound'
  BY <1>1, <1>3, <1>5, <1>6, FilesAfterEdit
<1>11. ClientIsSound(c)'
  <2>1. Committing(c)'
    BY <1>3, <1>5, <1>7 DEF Committing, history
  <2> QED  BY <1>2, <1>7, <2>1 DEF ClientIsSound
<1>12. \A p \in Live : ReplacedIsRetained(dir[id][p], dir'[id][p])
  <2> TAKE p \in Live
  <2>1. CASE p = place
    BY <1>5, <2>1 DEF ReplacedIsRetained, history
  <2>2. CASE p # place
    BY <1>5, <2>2, RetainedIfSame DEF EditedOnly, Live, Place
  <2> QED  BY <2>1, <2>2
<1>13. MarksStep /\ HistoryStep /\ WholeStep
  <2>1. lineage \in Revisions /\ pins' = pins /\ lineage' = lineage
    BY <1>1, <1>6 DEF TypeOK
  <2>2. \A x \in Ids \ {id} : dir'[x] = dir[x]
    BY <1>5 DEF EditedOnly
  <2> QED  BY <1>3, <1>12, <2>1, <2>2, StepsOfRow
<1> QED  BY <1>9, <1>10, <1>11, <1>13 DEF StepIsSound

-----------------------------------------------------------------------------
(* What pruning keeps *)

(* A finite set of revisions has a greatest one. *)
LEMMA GreatestRevision ==
  ASSUME NEW S \in SUBSET Nat, IsFiniteSet(S), S # {}
  PROVE  \E m \in S : \A s \in S : s <= m
<1> DEFINE Above(m) == {s \in S : s > m}
           Sets == {Above(m) : m \in S}
<1>1. Sets \subseteq FiniteSubsetsOf(S)
  <2>1. \A m \in S : Above(m) \in SUBSET S
    OBVIOUS
  <2>2. \A U \in SUBSET S : U \in FiniteSubsetsOf(S)
    BY FS_Subset DEF FiniteSubsetsOf
  <2> QED  BY <2>1, <2>2
<1>2. Sets # {}
  OBVIOUS
<1>3. PICK least \in Sets : \A U \in Sets : ~(<<U, least>> \in StrictSubsetOrdering(S))
  <2> HIDE DEF Sets
  <2> QED  BY <1>1, <1>2, FS_StrictSubsetOrderingWellFounded, WFMin
<1>4. PICK m \in S : least = Above(m)
  OBVIOUS
<1>5. ASSUME NEW s \in S, s > m  PROVE FALSE
  <2>1. Above(s) \subseteq Above(m) /\ s \in Above(m) /\ s \notin Above(s)
    <3>1. s \in Nat /\ m \in Nat /\ S \subseteq Nat
      OBVIOUS
    <3>2. s > m /\ ~(s > s) /\ \A x \in S : x > s => x > m
      BY <1>5, <3>1
    <3>3. s \in Above(m)
      BY <1>5, <3>2
    <3>4. s \notin Above(s)
      BY <3>2
    <3>5. Above(s) \subseteq Above(m)
      BY <3>2
    <3> QED  BY <3>3, <3>4, <3>5
  <2>2. Above(s) \in SUBSET S /\ Above(m) \in SUBSET S /\ Above(s) \in Sets
    OBVIOUS
  <2> HIDE DEF Above, Sets
  <2>3. <<Above(s), least>> \in StrictSubsetOrdering(S)
    BY <1>4, <2>1, <2>2 DEF StrictSubsetOrdering
  <2> QED  BY <1>3, <2>2, <2>3
<1> QED  BY <1>5

(* Of the revisions that pruning removes, the greatest has RevisionLimit   *)
(* revisions above it, and all of those are kept.                          *)
LEMMA PruningKeepsTheNewest ==
  ASSUME NEW history \in SUBSET Nat, IsFiniteSet(history), NEW kept,
         kept = {r \in history : Cardinality({s \in history : s > r}) < RevisionLimit}
  PROVE  \A r \in history \ kept : Cardinality({s \in kept : s > r}) >= RevisionLimit
<1> DEFINE removed == history \ kept
           Newer(S, r) == {s \in S : s > r}
<1>1. SUFFICES ASSUME NEW r \in removed  PROVE Cardinality(Newer(kept, r)) >= RevisionLimit
  OBVIOUS
<1>2. removed \in SUBSET Nat /\ IsFiniteSet(removed) /\ removed # {}
  BY FS_Subset
<1>3. PICK m \in removed : \A s \in removed : s <= m
  <2> HIDE DEF removed
  <2> QED  BY <1>2, GreatestRevision
<1>4. ~(Cardinality(Newer(history, m)) < RevisionLimit)
  OBVIOUS
<1>5. IsFiniteSet(Newer(history, m)) /\ IsFiniteSet(Newer(kept, r))
  <2>1. Newer(history, m) \in SUBSET history /\ Newer(kept, r) \in SUBSET history
    OBVIOUS
  <2> HIDE DEF Newer
  <2> QED  BY <2>1, FS_Subset
<1>6. Newer(history, m) \in SUBSET Newer(kept, r)
  <2>1. ASSUME NEW s \in history, s > m  PROVE s \in kept /\ s > r
    <3>1. s \notin removed
      BY <1>3, <2>1
    <3>2. r <= m /\ r \in Nat /\ m \in Nat /\ s \in Nat
      BY <1>3
    <3> QED  BY <2>1, <3>1, <3>2
  <2> QED  BY <2>1
<1> HIDE DEF Newer
<1>7. /\ Cardinality(Newer(history, m)) <= Cardinality(Newer(kept, r))
      /\ Cardinality(Newer(history, m)) \in Nat /\ Cardinality(Newer(kept, r)) \in Nat
  BY <1>5, <1>6, FS_Subset, FS_CardinalityType
<1> QED  BY <1>4, <1>7, StoreAssumption

LEMMA PruneIsSound ==
  ASSUME StoreInvariant, NEW c \in Clients, Prune(c)
  PROVE  StepIsSound(c)
<1> DEFINE id == Id(c)
           place == client[c].place
           old == dir[id][place].history
           history == {r \in old : Cardinality({s \in old : s > r}) < RevisionLimit}
<1>1. TypeOK /\ FilesAreSound /\ ClientIsSound(c) /\ client[c].pc = "prune"
  BY DEF StoreInvariant, Prune, At
<1>2. client[c].ids # <<>> /\ client[c].op = "commit" /\ Committing(c)
  BY <1>1, OperationOfStep DEF ClientIsSound
<1>3. /\ id \in Ids /\ Revision(c) \in Nat /\ place \in Place /\ place \in Live
      /\ dir[id][place].document \in Nat /\ dir[id][place].document # 0
      /\ dir[id][place].document = Revision(c)
      /\ old \in SUBSET Nat
      /\ WellFormed(dir[id][place])
  BY <1>1, <1>2, ClientType, DirectoryType DEF Committing
<1>3a. history \in SUBSET Nat /\ history \subseteq old
  BY <1>3
<1>4. dir' = [dir EXCEPT ![id][place].history = history]
  BY DEF Prune
<1>4a. \A r \in old \ history : Cardinality({s \in history : s > r}) >= RevisionLimit
  <2>1. IsFiniteSet(old)
    BY <1>3, FS_BoundedSetOfNaturals DEF WellFormed
  <2>2. history = {r \in old : Cardinality({s \in old : s > r}) < RevisionLimit}
    OBVIOUS
  <2> HIDE DEF history, old
  <2> QED  BY <1>3, <2>1, <2>2, PruningKeepsTheNewest
<1> HIDE DEF history
<1>5. /\ EditedOnly(id, place) /\ dir'[id][place].history = history
      /\ dir'[id][place].document = dir[id][place].document
  BY <1>1, <1>3, <1>3a, <1>4, HistoryEdit
<1>6. UNCHANGED <<pins, lineage, archives, requests, published>> /\ Goto(c, "draft")
  BY DEF Prune
<1>7. /\ client' \in [Clients -> ClientRecord]
      /\ client'[c].pc = "draft" /\ client'[c].op = "commit"
      /\ client'[c].ids = client[c].ids /\ client'[c].place = place
      /\ Id(c)' = id /\ Revision(c)' = Revision(c)
  BY <1>1, <1>2, <1>6, GotoFacts DEF Step
<1> HIDE DEF id, place
<1>8. WellFormed(dir'[id][place])
  BY <1>3, <1>3a, <1>5 DEF WellFormed
<1>9. TypeOK'
  BY <1>1, <1>3, <1>5, <1>6, <1>7, <1>8, TypeAfterEdit DEF TypeOK
<1>10. FilesAreSound'
  BY <1>1, <1>3, <1>5, <1>6, FilesAfterEdit
<1>11. ClientIsSound(c)'
  <2>1. Committing(c)'
    BY <1>3, <1>5, <1>7 DEF Committing
  <2> QED  BY <1>2, <1>7, <2>1 DEF ClientIsSound
<1>12. \A p \in Live : ReplacedIsRetained(dir[id][p], dir'[id][p])
  <2> TAKE p \in Live
  <2>1. CASE p = place
    BY <1>4a, <1>5, <2>1 DEF ReplacedIsRetained
  <2>2. CASE p # place
    BY <1>5, <2>2, RetainedIfSame DEF EditedOnly, Live, Place
  <2> QED  BY <2>1, <2>2
<1>13. MarksStep /\ HistoryStep /\ WholeStep
  <2>1. lineage \in Revisions /\ pins' = pins /\ lineage' = lineage
    BY <1>1, <1>6 DEF TypeOK
  <2>2. \A x \in Ids \ {id} : dir'[x] = dir[x]
    BY <1>5 DEF EditedOnly
  <2> QED  BY <1>3, <1>12, <2>1, <2>2, StepsOfRow
<1> QED  BY <1>9, <1>10, <1>11, <1>13 DEF StepIsSound

-----------------------------------------------------------------------------
(* The steps of a commit and of a creation *)

LEMMA FloorAfter ==
  ASSUME TypeOK', NEW id \in Ids
  PROVE  /\ Floor(id)' \in Nat
         /\ lineage'[id] <= Floor(id)'
         /\ dir'[id]["profiles"].document <= Floor(id)'
         /\ dir'[id]["collection"].document <= Floor(id)'
         /\ dir'[id]["trash"].document <= Floor(id)'
<1> DEFINE p == dir'[id]["profiles"].document
           q == dir'[id]["collection"].document
           t == dir'[id]["trash"].document
           m == lineage'[id]
<1>1. p \in Nat /\ q \in Nat /\ t \in Nat /\ m \in Nat
  BY DEF TypeOK, Revisions, Directory, Place
<1>2. Floor(id)' = Latest(m, Latest(p, Latest(q, t)))
  BY DEF Floor
<1> HIDE DEF p, q, t, m
<1>3. Floor(id)' \in Nat /\ m <= Floor(id)' /\ p <= Floor(id)' /\ q <= Floor(id)' /\ t <= Floor(id)'
  BY <1>1, <1>2 DEF Latest
<1> QED  BY <1>3 DEF p, q, t, m

LEMMA AppendedRevision ==
  ASSUME NEW s \in Seq(Nat), NEW n \in Nat,
         \A i, j \in DOMAIN s : i < j => s[i] < s[j],
         \A i \in DOMAIN s : s[i] < n
  PROVE  /\ Append(s, n) \in Seq(Nat)
         /\ \A i, j \in DOMAIN Append(s, n) : i < j => Append(s, n)[i] < Append(s, n)[j]
         /\ \A i \in DOMAIN Append(s, n) : Append(s, n)[i] <= n
<1>1. /\ Append(s, n) \in Seq(Nat) /\ DOMAIN Append(s, n) = 1 .. Len(s) + 1
      /\ DOMAIN s = 1 .. Len(s) /\ Len(s) \in Nat
      /\ \A i \in 1 .. Len(s) : Append(s, n)[i] = s[i] /\ s[i] \in Nat
      /\ Append(s, n)[Len(s) + 1] = n
  OBVIOUS
<1>2. \A i \in DOMAIN Append(s, n) : i \in DOMAIN s \/ i = Len(s) + 1
  BY <1>1
<1>3. \A i \in DOMAIN Append(s, n) : Append(s, n)[i] <= n
  BY <1>1, <1>2
<1>4. ASSUME NEW i \in DOMAIN Append(s, n), NEW j \in DOMAIN Append(s, n), i < j
      PROVE  Append(s, n)[i] < Append(s, n)[j]
  <2>1. i \in DOMAIN s
    BY <1>1, <1>2, <1>4
  <2>2. CASE j \in DOMAIN s
    BY <1>1, <1>4, <2>1, <2>2
  <2>3. CASE j = Len(s) + 1
    BY <1>1, <2>1, <2>3
  <2> QED  BY <1>2, <2>2, <2>3
<1> QED  BY <1>1, <1>3, <1>4

(* A document that becomes current is above the floor, in the one live     *)
(* directory of its id, and the one it replaces is retained.               *)
LEMMA DocumentToSave ==
  ASSUME StoreInvariant, NEW c \in Clients, At(c, "document")
  PROVE  /\ client[c].ids # <<>> /\ client[c].op \in {"commit", "create"}
         /\ client[c].place \in Live
         /\ \A p \in Live \ {client[c].place} : dir[Id(c)][p] = Absent
         /\ dir[Id(c)][client[c].place].document = 0 => client[c].place = "profiles"
         /\ Floor(Id(c)) < Revision(c)
         /\ LET old == dir[Id(c)][client[c].place] IN
              IF old.document # 0 THEN old.document \in old.history ELSE old.history = {}
<1> DEFINE id == Id(c)
           place == client[c].place
           old == dir[id][place]
<1>1. TypeOK /\ FilesAreSound /\ ClientIsSound(c) /\ client[c].pc = "document"
  BY DEF StoreInvariant, At
<1>2. client[c].ids # <<>> /\ client[c].op \in {"commit", "create"}
  BY <1>1, OperationOfStep
<1>3. id \in Ids /\ Revision(c) \in Nat
  BY <1>1, <1>2, ClientType
<1>4. LivesOnce(id) /\ MarkIsBetween(id)
  BY <1>1, <1>3 DEF FilesAreSound
<1>5. CASE client[c].op = "commit"
  <2>1. /\ place \in Live /\ old.document # 0 /\ old.document + 1 = Revision(c)
        /\ old.document \in old.history
    BY <1>1, <1>5 DEF ClientIsSound, Committing
  <2>2. \A p \in Live \ {place} : dir[id][p] = Absent
    BY <1>4, <2>1, AbsentIsEmpty DEF LivesOnce, Live
  <2>3. old.document \in Nat /\ lineage[id] \in Nat /\ dir[id]["trash"].document \in Nat
    BY <1>1, <1>3, <2>1, DirectoryType DEF Place, Live, TypeOK, Revisions
  <2>4. lineage[id] <= old.document /\ dir[id]["trash"].document <= lineage[id]
    BY <1>4, <2>1 DEF MarkIsBetween
  <2>5. Floor(id) <= old.document
    <3>1. \A p \in Live : dir[id][p].document <= old.document
      <4> TAKE p \in Live
      <4>1. CASE p = place
        BY <2>3, <4>1
      <4>2. CASE p # place
        BY <2>2, <2>3, <4>2, AbsentIsEmpty
      <4> QED  BY <4>1, <4>2
    <3>2. /\ dir[id]["profiles"].document <= old.document
          /\ dir[id]["collection"].document <= old.document
          /\ dir[id]["trash"].document <= old.document
      BY <2>3, <2>4, <3>1 DEF Live
    <3> HIDE DEF old
    <3> QED  BY <1>1, <1>3, <2>4, <3>2, FloorFacts
  <2>6. Floor(id) < Revision(c)
    BY <1>1, <1>3, <2>1, <2>3, <2>5, FloorFacts
  <2> QED  BY <1>2, <2>1, <2>2, <2>6
<1>6. CASE client[c].op = "create"
  <2>1. place = "profiles" /\ Vacant(id) /\ Floor(id) < Revision(c)
    BY <1>1, <1>6 DEF ClientIsSound, Creating
  <2> QED  BY <1>2, <2>1, AbsentIsEmpty DEF Vacant, Live
<1> QED  BY <1>2, <1>5, <1>6

LEMMA SaveDocumentIsSound ==
  ASSUME StoreInvariant, NEW c \in Clients, SaveDocument(c)
  PROVE  StepIsSound(c)
<1>1. TypeOK /\ FilesAreSound /\ ClientIsSound(c) /\ client[c].pc = "document" /\ At(c, "document")
  BY DEF StoreInvariant, SaveDocument, At
<1>0. client[c].ids # <<>>
  BY <1>1, OperationOfStep
<1>a. PICK id \in Ids : id = Id(c)
  BY <1>0, <1>1, ClientType
<1>b. PICK place \in Place : place = client[c].place
  BY <1>1, ClientType
<1>c. PICK new \in Nat : new = Revision(c)
  BY <1>0, <1>1, ClientType
<1>2. /\ client[c].ids # <<>> /\ client[c].op \in {"commit", "create"}
      /\ place \in Live
      /\ \A p \in Live \ {place} : dir[id][p] = Absent
      /\ dir[id][place].document = 0 => place = "profiles"
      /\ Floor(id) < new
      /\ dir[id][place].document # 0 => dir[id][place].document \in dir[id][place].history
      /\ dir[id][place].document = 0 => dir[id][place].history = {}
  BY <1>1, <1>a, <1>b, <1>c, DocumentToSave
<1>3. /\ id \in Ids /\ new \in Nat /\ place \in Place
      /\ dir[id][place].document \in Nat /\ dir[id][place].history \in SUBSET Nat
      /\ WellFormed(dir[id][place])
      /\ lineage[id] \in Nat /\ dir[id]["trash"].document \in Nat
      /\ LivesOnce(id) /\ MarkIsBetween(id)
  BY <1>1, <1>2, ClientType, DirectoryType DEF FilesAreSound, TypeOK, Revisions, Place
<1>3a. /\ Floor(id) \in Nat /\ lineage[id] <= Floor(id)
       /\ dir[id]["profiles"].document <= Floor(id)
       /\ dir[id]["collection"].document <= Floor(id)
  BY <1>1, <1>3, FloorFacts
<1>4. /\ dir' = [dir EXCEPT ![id][place].document = new]
      /\ published' = [published EXCEPT ![id] = Append(published[id], new)]
  BY <1>a, <1>b, <1>c DEF SaveDocument
<1>5. /\ EditedOnly(id, place) /\ dir'[id][place].history = dir[id][place].history
      /\ dir'[id][place].document = new
  BY <1>1, <1>3, <1>4, DocumentEdit
<1>6. UNCHANGED <<pins, lineage, archives, requests>> /\ Goto(c, "readMark")
  BY DEF SaveDocument
<1>7. /\ client' \in [Clients -> ClientRecord]
      /\ client'[c].pc = "readMark" /\ client'[c].op = client[c].op
      /\ client'[c].ids = client[c].ids /\ client'[c].place = place
      /\ Id(c)' = id /\ Revision(c)' = new
  BY <1>1, <1>2, <1>6, <1>a, <1>b, <1>c, GotoFacts DEF Step
<1>8. /\ published' \in [Ids -> Seq(Nat)]
      /\ published'[id] = Append(published[id], new)
      /\ \A x \in Ids \ {id} : published'[x] = published[x]
      /\ published[id] \in Seq(Nat)
  BY <1>1, <1>3, <1>4 DEF TypeOK
<1>9. /\ \A i, j \in DOMAIN published'[id] : i < j => published'[id][i] < published'[id][j]
      /\ \A i \in DOMAIN published'[id] : published'[id][i] <= new
  <2>1. \A i, j \in DOMAIN published[id] : i < j => published[id][i] < published[id][j]
    BY <1>1, <1>3 DEF FilesAreSound, RevisionsRise
  <2>2. \A i \in DOMAIN published[id] : published[id][i] < new
    <3>1. \A i \in DOMAIN published[id] : published[id][i] <= Floor(id) /\ published[id][i] \in Nat
      BY <1>3, <1>8 DEF MarkIsBetween
    <3> QED  BY <1>2, <1>3, <1>3a, <3>1
  <2> QED  BY <1>3, <1>8, <2>1, <2>2, AppendedRevision
<1>10. WellFormed(dir'[id][place])
  <2>1. dir[id][place].document <= Floor(id)
    BY <1>2, <1>3a DEF Live
  <2> QED  BY <1>2, <1>3, <1>3a, <1>5, <2>1 DEF WellFormed
<1>11. TypeOK'
  BY <1>1, <1>3, <1>5, <1>6, <1>7, <1>8, <1>10, TypeAfterEdit DEF TypeOK
<1>12. LivesOnce(id)'
  BY <1>2, <1>3, <1>3a, <1>5, AbsentIsEmpty DEF LivesOnce, EditedOnly, Live, Place
<1>13. MarkIsBetween(id)'
  <2>1. lineage'[id] = lineage[id] /\ dir'[id]["trash"] = dir[id]["trash"]
    BY <1>2, <1>5, <1>6 DEF EditedOnly, Live, Place
  <2>2. \A p \in Live : dir'[id][p].document # 0 => lineage'[id] <= dir'[id][p].document
    <3> TAKE p \in Live
    <3>1. CASE p = place
      BY <1>2, <1>3, <1>3a, <1>5, <2>1, <3>1
    <3>2. CASE p # place
      BY <1>3, <1>5, <2>1, <3>2 DEF EditedOnly, MarkIsBetween, Live, Place
    <3> QED  BY <3>1, <3>2
  <2>3. new <= Floor(id)' /\ Floor(id)' \in Nat
    BY <1>2, <1>3, <1>5, <1>11, FloorAfter DEF Live
  <2>4. \A i \in DOMAIN published'[id] : published'[id][i] <= Floor(id)'
    <3>1. \A i \in DOMAIN published'[id] : published'[id][i] \in Nat
      BY <1>3, <1>8
    <3> QED  BY <1>3, <1>9, <2>3, <3>1
  <2>5. dir'[id]["trash"].document <= lineage'[id]
    BY <1>3, <2>1 DEF MarkIsBetween
  <2> QED  BY <2>2, <2>4, <2>5 DEF MarkIsBetween
<1>14. FilesAreSound'
  <2>1. \A x \in Ids \ {id} :
          dir'[x] = dir[x] /\ lineage'[x] = lineage[x] /\ published'[x] = published[x]
    BY <1>5, <1>6, <1>8 DEF EditedOnly
  <2>2. ~CollectionInstalled => dir'[id]["collection"] = Absent
    <3>1. SUFFICES ASSUME ~CollectionInstalled  PROVE dir'[id]["collection"] = Absent
      OBVIOUS
    <3>2. dir[id]["collection"] = Absent
      BY <1>1, <1>3, <3>1 DEF FilesAreSound, CollectionIsPinned
    <3>3. place # "collection"
      BY <1>2, <3>2, AbsentIsEmpty
    <3> QED  BY <1>5, <3>2, <3>3 DEF EditedOnly, Place
  <2> QED  BY <1>1, <1>3, <1>6, <1>9, <1>12, <1>13, <2>1, <2>2, FilesAfterRow
<1>15. ClientIsSound(c)'
  <2>1. new # 0
    BY <1>2, <1>3, <1>3a
  <2>2. client[c].op = "commit" => Committing(c)'
    BY <1>2, <1>5, <1>7, <2>1 DEF Committing
  <2>3. client[c].op = "create" => Creating(c)'
    <3>1. client[c].op = "create" => place = "profiles"
      BY <1>1, <1>b DEF ClientIsSound, Creating
    <3> QED  BY <1>5, <1>7, <3>1 DEF Creating
  <2> QED  BY <1>2, <1>7, <2>2, <2>3 DEF ClientIsSound
<1>16. \A p \in Live : ReplacedIsRetained(dir[id][p], dir'[id][p])
  <2> TAKE p \in Live
  <2>1. CASE p = place
    BY <1>2, <1>5, <2>1 DEF ReplacedIsRetained
  <2>2. CASE p # place
    BY <1>5, <2>2, RetainedIfSame DEF EditedOnly, Live, Place
  <2> QED  BY <2>1, <2>2
<1>17. MarksStep /\ HistoryStep /\ WholeStep
  <2>1. lineage \in Revisions /\ pins' = pins /\ lineage' = lineage
    BY <1>1, <1>6 DEF TypeOK
  <2>2. \A x \in Ids \ {id} : dir'[x] = dir[x]
    BY <1>5 DEF EditedOnly
  <2> QED  BY <1>3, <1>16, <2>1, <2>2, StepsOfRow
<1> QED  BY <1>11, <1>14, <1>15, <1>17 DEF StepIsSound

-----------------------------------------------------------------------------
(* Marks *)

LEMMA NextIdFacts ==
  ASSUME TypeOK, NEW c \in Clients, client[c].ids # <<>>,
         client' = [client EXCEPT ![c].pc = "floor", ![c].ids = Tail(@)]
  PROVE  /\ client' \in [Clients -> ClientRecord]
         /\ client'[c].pc = "floor" /\ client'[c].ids = Tail(client[c].ids)
         /\ client'[c].op = client[c].op /\ client'[c].revision = client[c].revision
         /\ client'[c].place = client[c].place /\ client'[c].marks = client[c].marks
<1> DEFINE ids == Tail(client[c].ids)
<1>1. ids \in Seq(Ids)
  BY ClientType
<1>2. client' = [client EXCEPT ![c].pc = "floor", ![c].ids = ids]
  OBVIOUS
<1> HIDE DEF ids
<1>3. client \in [Clients -> ClientRecord] /\ "floor" \in Step
  BY DEF TypeOK, Step
<1>4. /\ client'[c] = [client[c] EXCEPT !.pc = "floor", !.ids = ids]
      /\ \A d \in Clients \ {c} : client'[d] = client[d]
      /\ client' = [client EXCEPT ![c] = client'[c]]
  BY <1>2, <1>3
<1>5. client[c] \in [op : Operation, pc : Step, ids : Seq(Ids), place : Place,
                      revision : Revisions, marks : Revisions]
  BY <1>3 DEF ClientRecord
<1>6. /\ [client[c] EXCEPT !.pc = "floor", !.ids = ids] \in ClientRecord
      /\ client'[c].pc = "floor" /\ client'[c].ids = ids
      /\ client'[c].op = client[c].op /\ client'[c].revision = client[c].revision
      /\ client'[c].place = client[c].place /\ client'[c].marks = client[c].marks
  BY <1>1, <1>3, <1>4, <1>5 DEF ClientRecord
<1> QED  BY <1>3, <1>4, <1>6 DEF ids

(* The first of several distinct ids leaves the waiting ones. *)
LEMMA TailOfDistinct ==
  ASSUME NEW s \in Seq(Ids), Len(s) > 1,
         \A i, j \in DOMAIN s : s[i] = s[j] => i = j
  PROVE  /\ Tail(s) # <<>>
         /\ \A i, j \in DOMAIN Tail(s) : Tail(s)[i] = Tail(s)[j] => i = j
         /\ {Tail(s)[i] : i \in DOMAIN Tail(s)} = {s[i] : i \in DOMAIN s} \ {Head(s)}
<1>1. /\ DOMAIN s = 1 .. Len(s) /\ DOMAIN Tail(s) = 1 .. Len(s) - 1 /\ Len(s) \in Nat
      /\ Head(s) = s[1] /\ Tail(s) \in Seq(Ids) /\ Len(Tail(s)) = Len(s) - 1
      /\ \A i \in 1 .. Len(s) - 1 : Tail(s)[i] = s[i + 1]
  BY HeadTailProperties
<1>2. Tail(s) # <<>>
  BY <1>1
<1>3. ASSUME NEW i \in DOMAIN Tail(s), NEW j \in DOMAIN Tail(s), Tail(s)[i] = Tail(s)[j]
      PROVE  i = j
  <2>1. i + 1 \in DOMAIN s /\ j + 1 \in DOMAIN s /\ s[i + 1] = s[j + 1]
    BY <1>1, <1>3
  <2>2. i + 1 = j + 1
    BY <2>1
  <2> QED  BY <1>1, <2>2
<1>4. {Tail(s)[i] : i \in DOMAIN Tail(s)} = {s[i] : i \in DOMAIN s} \ {Head(s)}
  <2>1. ASSUME NEW i \in DOMAIN Tail(s)  PROVE Tail(s)[i] \in {s[k] : k \in DOMAIN s} \ {Head(s)}
    <3>1. i + 1 \in DOMAIN s /\ 1 \in DOMAIN s /\ i + 1 # 1 /\ Tail(s)[i] = s[i + 1]
      BY <1>1
    <3>2. s[i + 1] # s[1]
      BY <3>1
    <3> QED  BY <1>1, <3>1, <3>2
  <2>2. ASSUME NEW k \in DOMAIN s, s[k] # Head(s)
        PROVE  s[k] \in {Tail(s)[i] : i \in DOMAIN Tail(s)}
    <3>1. k - 1 \in DOMAIN Tail(s) /\ Tail(s)[k - 1] = s[k]
      BY <1>1, <2>2
    <3> QED  BY <3>1
  <2> QED  BY <2>1, <2>2
<1> QED  BY <1>2, <1>3, <1>4

LEMMA OneWaiting ==
  ASSUME TypeOK, NEW c \in Clients, client[c].ids # <<>>, Importing(c),
         client[c].op = "profile" \/ ~(Len(client[c].ids) > 1)
  PROVE  Len(client[c].ids) = 1
<1> DEFINE s == client[c].ids
<1>1. /\ s \in Seq(Ids) /\ DOMAIN s = 1 .. Len(s) /\ Len(s) \in Nat /\ Len(s) # 0
      /\ Head(s) = s[1]
  BY ClientType
<1>2. CASE client[c].op = "profile"
  <2>1. \A i \in DOMAIN s : s[i] = s[1]
    BY <1>1, <1>2 DEF Importing, Waiting, Id
  <2>2. \A i \in DOMAIN s : i = 1
    <3>1. \A i, j \in DOMAIN s : s[i] = s[j] => i = j
      BY DEF Importing
    <3> HIDE DEF s
    <3>2. 1 \in DOMAIN s
      BY <1>1
    <3> QED  BY <2>1, <3>1, <3>2
  <2>3. Len(s) \in DOMAIN s
    <3> HIDE DEF s
    <3> QED  BY <1>1
  <2> QED  BY <2>2, <2>3
<1>3. CASE ~(Len(client[c].ids) > 1)
  <2>1. ~(Len(s) > 1)
    BY <1>3
  <2> HIDE DEF s
  <2>2. Len(s) = 1
    BY <1>1, <2>1
  <2> QED  BY <2>2 DEF s
<1> QED  BY <1>2, <1>3

(* Once the mark of the first id is its revision, the operation goes on. *)
LEMMA AfterMarkIsSound ==
  ASSUME StoreInvariant, NEW c \in Clients, client[c].pc \in {"readMark", "writeMark"},
         AfterMark(c), UNCHANGED <<dir, pins, published>>,
         \A x \in Ids \ {Id(c)} : lineage'[x] = lineage[x],
         lineage'[Id(c)] = Revision(c)
  PROVE  client' \in [Clients -> ClientRecord] /\ ClientIsSound(c)'
<1>1. TypeOK /\ FilesAreSound /\ ClientIsSound(c)
  BY DEF StoreInvariant
<1>2. /\ client[c].ids # <<>>
      /\ client[c].op \in {"commit", "create", "profile", "bundle", "trash", "restore"}
  BY <1>1, OperationOfStep
<1>a. PICK id \in Ids : id = Id(c)
  BY <1>1, <1>2, ClientType
<1>c. PICK new \in Nat : new = Revision(c)
  BY <1>1, <1>2, ClientType
<1>3. \A x \in Ids : /\ (Vacant(x)' <=> Vacant(x))
                     /\ Current(x)' = Current(x)
  <2>1. \A x \in Ids : Vacant(x)' <=> Vacant(x)
    BY DEF Vacant
  <2>2. \A x \in Ids : Current(x)' = Current(x)
    BY DEF Current, Home
  <2> QED  BY <2>1, <2>2
<1>4. CASE client[c].op = "commit"
  <2>1. Goto(c, "prune")
    BY <1>4 DEF AfterMark
  <2>2. /\ client' \in [Clients -> ClientRecord] /\ client'[c].pc = "prune"
        /\ client'[c].op = "commit" /\ client'[c].ids = client[c].ids
        /\ client'[c].place = client[c].place /\ Id(c)' = id /\ Revision(c)' = new
    BY <1>1, <1>4, <1>a, <1>c, <2>1, GotoFacts DEF Step
  <2>3. /\ client[c].place \in Live
        /\ dir[id][client[c].place].document # 0 /\ dir[id][client[c].place].document = new
    BY <1>1, <1>4, <1>a, <1>c DEF ClientIsSound, Committing
  <2>4. Committing(c)'
    BY <2>2, <2>3 DEF Committing
  <2> QED  BY <1>2, <2>2, <2>4 DEF ClientIsSound
<1>5. CASE client[c].op = "create"
  <2>1. Return(c)
    BY <1>5 DEF AfterMark
  <2> QED  BY <1>1, <2>1, ReturnFacts
<1>6. CASE client[c].op = "bundle" /\ Len(client[c].ids) > 1
  <2>1. client' = [client EXCEPT ![c].pc = "floor", ![c].ids = Tail(@)]
    BY <1>6 DEF AfterMark
  <2>2. /\ client' \in [Clients -> ClientRecord]
        /\ client'[c].pc = "floor" /\ client'[c].ids = Tail(client[c].ids)
        /\ client'[c].op = "bundle" /\ client'[c].revision = client[c].revision
    BY <1>1, <1>2, <1>6, <2>1, NextIdFacts
  <2>3. Importing(c)
    BY <1>1, <1>6 DEF ClientIsSound
  <2>4. client[c].ids \in Seq(Ids) /\ \A i, j \in DOMAIN client[c].ids :
                                        client[c].ids[i] = client[c].ids[j] => i = j
    BY <1>1, <2>3, ClientType DEF Importing
  <2>5. /\ client'[c].ids # <<>>
        /\ \A i, j \in DOMAIN client'[c].ids : client'[c].ids[i] = client'[c].ids[j] => i = j
        /\ Waiting(c)' = Waiting(c) \ {id}
    <3>1. PICK s \in Seq(Ids) : s = client[c].ids
      BY <2>4
    <3>2. /\ Tail(s) # <<>>
          /\ \A i, j \in DOMAIN Tail(s) : Tail(s)[i] = Tail(s)[j] => i = j
          /\ {Tail(s)[i] : i \in DOMAIN Tail(s)} = {s[i] : i \in DOMAIN s} \ {Head(s)}
      BY <1>6, <2>4, <3>1, TailOfDistinct
    <3>3. client'[c].ids = Tail(s) /\ id = Head(s)
      BY <1>a, <2>2, <3>1 DEF Id
    <3>4. Waiting(c)' = {Tail(s)[i] : i \in DOMAIN Tail(s)} /\ Waiting(c) = {s[i] : i \in DOMAIN s}
      BY <3>1, <3>3, Zenon DEF Waiting
    <3>5. Waiting(c)' = Waiting(c) \ {id}
      BY <3>2, <3>3, <3>4
    <3> QED  BY <3>2, <3>3, <3>5
  <2>6. Arriving(c)' = Arriving(c)
    BY <2>2 DEF Arriving
  <2>7. \A x \in Arriving(c) \ Waiting(c)' : Marked(c, x)'
    <3> TAKE x \in Arriving(c) \ Waiting(c)'
    <3>1. CASE x = id
      <4>1. MarkIsBetween(id) /\ Floor(id) < new /\ Floor(id) \in Nat
        BY <1>1, <1>a, <1>c, <2>3, FloorFacts DEF Importing, FilesAreSound
      <4>2. \A i \in DOMAIN published[id] : published[id][i] <= Floor(id) /\ published[id][i] \in Nat
        BY <1>1, <4>1 DEF MarkIsBetween, TypeOK
      <4>3. client'[c].revision[id] = new /\ lineage'[id] = new
        BY <1>a, <1>c, <2>2 DEF Revision
      <4>4. \A i \in DOMAIN published[id] : published[id][i] < new
        BY <4>1, <4>2
      <4> QED  BY <3>1, <4>3, <4>4 DEF Marked
    <3>2. CASE x # id
      <4>1. x \in Ids /\ x \notin Waiting(c)
        BY <2>5, <3>2 DEF Arriving
      <4>2. Marked(c, x)
        BY <2>3, <4>1 DEF Importing
      <4>3. lineage'[x] = lineage[x]
        BY <1>a, <3>2, <4>1
      <4> QED  BY <2>2, <4>2, <4>3 DEF Marked
    <3> QED  BY <3>1, <3>2
  <2>8. Importing(c)'
    <3>1. Waiting(c)' \subseteq Arriving(c)' /\ \A x \in Arriving(c)' : Vacant(x)'
      BY <1>3, <2>3, <2>5, <2>6 DEF Importing, Arriving
    <3>2. ~CollectionInstalled'
      BY <1>6, <2>3 DEF Importing, CollectionInstalled
    <3> QED  BY <2>2, <2>5, <2>6, <2>7, <3>1, <3>2 DEF Importing
  <2> QED  BY <2>2, <2>5, <2>8 DEF ClientIsSound
<1>7. CASE /\ client[c].op \in {"profile", "bundle", "trash", "restore"}
           /\ ~(client[c].op = "bundle" /\ Len(client[c].ids) > 1)
  <2>1. Goto(c, "move")
    BY <1>7 DEF AfterMark
  <2>2. /\ client' \in [Clients -> ClientRecord] /\ client'[c].pc = "move"
        /\ client'[c].op = client[c].op /\ client'[c].ids = client[c].ids
        /\ client'[c].revision = client[c].revision
        /\ client'[c].place = client[c].place /\ Id(c)' = id /\ Revision(c)' = new
    BY <1>1, <1>a, <1>c, <2>1, GotoFacts DEF Step
  <2>3. lineage'[id] = new
    BY <1>a, <1>c
  <2>4. client[c].op = "trash" => Trashing(c)'
    <3>1. client[c].op = "trash" => Current(id).document = new
      BY <1>1, <1>a, <1>c DEF ClientIsSound, Trashing
    <3> QED  BY <1>3, <2>2, <2>3, <3>1 DEF Trashing
  <2>5. client[c].op = "restore" => Restoring(c)'
    <3>1. client[c].op = "restore" =>
            /\ client[c].place = "profiles" /\ Vacant(id) /\ dir[id]["trash"].document = new
            /\ new # 0
      BY <1>1, <1>a, <1>c DEF ClientIsSound, Restoring
    <3> QED  BY <1>3, <2>2, <2>3, <3>1 DEF Restoring
  <2>6. client[c].op \in {"profile", "bundle"} => Importing(c)'
    <3>1. SUFFICES ASSUME client[c].op \in {"profile", "bundle"}  PROVE Importing(c)'
      OBVIOUS
    <3>2. Importing(c)
      BY <1>1, <3>1 DEF ClientIsSound
    <3>3. Len(client[c].ids) = 1
      BY <1>1, <1>2, <1>7, <3>1, <3>2, OneWaiting
    <3>4. Arriving(c)' = Arriving(c) /\ Waiting(c)' = Waiting(c)
      BY <2>2 DEF Arriving, Waiting
    <3>5. Marked(c, id)'
      <4>1. MarkIsBetween(id) /\ Floor(id) < new /\ Floor(id) \in Nat
        BY <1>1, <1>a, <1>c, <3>2, FloorFacts DEF Importing, FilesAreSound
      <4>2. \A i \in DOMAIN published[id] : published[id][i] <= Floor(id) /\ published[id][i] \in Nat
        BY <1>1, <4>1 DEF MarkIsBetween, TypeOK
      <4>3. client'[c].revision[id] = new /\ lineage'[id] = new
        BY <1>a, <1>c, <2>2 DEF Revision
      <4>4. \A i \in DOMAIN published[id] : published[id][i] < new
        BY <4>1, <4>2
      <4> QED  BY <4>3, <4>4 DEF Marked
    <3>6. \A x \in Arriving(c) \ Waiting(c) : Marked(c, x)'
      <4> TAKE x \in Arriving(c) \ Waiting(c)
      <4>1. x \in Ids /\ x # id
        BY <1>2, <1>1, <1>a, ClientType DEF Arriving, Waiting, Id
      <4>2. Marked(c, x)
        BY <3>2 DEF Importing
      <4>3. lineage'[x] = lineage[x]
        BY <1>a, <4>1
      <4> QED  BY <2>2, <4>2, <4>3 DEF Marked
    <3>7. /\ Waiting(c)' \subseteq Arriving(c)' /\ \A x \in Arriving(c)' : Vacant(x)'
          /\ \A i, j \in DOMAIN client'[c].ids : client'[c].ids[i] = client'[c].ids[j] => i = j
      BY <1>3, <2>2, <3>2, <3>4 DEF Importing, Arriving
    <3>8. /\ client'[c].op = "bundle" => ~CollectionInstalled'
          /\ client'[c].op = "profile" => Arriving(c)' = {id}
      BY <1>a, <2>2, <3>2, <3>4 DEF Importing, CollectionInstalled
    <3>9. Marked(c, Id(c))'
      BY <2>2, <3>5, Zenon
    <3> QED  BY <2>2, <3>3, <3>4, <3>6, <3>7, <3>8, <3>9 DEF Importing
  <2> QED  BY <1>2, <1>7, <2>2, <2>4, <2>5, <2>6 DEF ClientIsSound
<1> QED  BY <1>2, <1>4, <1>5, <1>6, <1>7

(* A step that moves only the client is sound when the client is. *)
LEMMA ClientStepIsSound ==
  ASSUME StoreInvariant, NEW c \in Clients, UNCHANGED <<store, published>>,
         client' \in [Clients -> ClientRecord],
         requests' \in 0 .. MaxRequests,
         \A archive \in archives' : IsArchive(archive),
         ClientIsSound(c)'
  PROVE  StepIsSound(c)
<1>1. TypeOK /\ FilesAreSound
  BY DEF StoreInvariant
<1>2. dir' = dir /\ pins' = pins /\ lineage' = lineage /\ published' = published
  BY DEF store
<1>3. TypeOK'
  BY <1>1, <1>2 DEF TypeOK
<1> QED  BY <1>1, <1>3, FilesKept DEF StepIsSound

LEMMA AbortIsSound ==
  ASSUME StoreInvariant, NEW c \in Clients, Abort(c)
  PROVE  StepIsSound(c)
<1>1. TypeOK
  BY DEF StoreInvariant
<1>2. UNCHANGED <<store, archives, requests, published>> /\ Return(c)
  BY DEF Abort
<1>3. client' \in [Clients -> ClientRecord] /\ ClientIsSound(c)'
  BY <1>1, <1>2, ReturnFacts
<1>4. requests' \in 0 .. MaxRequests /\ \A archive \in archives' : IsArchive(archive)
  BY <1>1, <1>2 DEF TypeOK
<1> QED  BY <1>2, <1>3, <1>4, ClientStepIsSound

LEMMA RebaseFacts ==
  ASSUME TypeOK, NEW c \in Clients, NEW id \in Ids, NEW n \in Nat,
         client' = [client EXCEPT ![c].pc = "readMark", ![c].revision[id] = n]
  PROVE  /\ client' \in [Clients -> ClientRecord]
         /\ client'[c].pc = "readMark" /\ client'[c].ids = client[c].ids
         /\ client'[c].op = client[c].op
         /\ client'[c].revision[id] = n
         /\ \A x \in Ids \ {id} : client'[c].revision[x] = client[c].revision[x]
<1>1. client[c].revision \in [Ids -> Nat]
  BY ClientType
<1>3. PICK r \in [Ids -> Nat] : r = [client[c].revision EXCEPT ![id] = n]
  BY <1>1
<1>4. client' = [client EXCEPT ![c].pc = "readMark", ![c].revision = r]
  BY <1>3
<1>5. client \in [Clients -> ClientRecord] /\ "readMark" \in Step
  BY DEF TypeOK, Step
<1>6. /\ client'[c] = [client[c] EXCEPT !.pc = "readMark", !.revision = r]
      /\ client' = [client EXCEPT ![c] = client'[c]]
  BY <1>4, <1>5
<1>7. client[c] \in [op : Operation, pc : Step, ids : Seq(Ids), place : Place,
                      revision : Revisions, marks : Revisions]
  BY <1>5 DEF ClientRecord
<1>8. /\ [client[c] EXCEPT !.pc = "readMark", !.revision = r] \in ClientRecord
      /\ client'[c].pc = "readMark" /\ client'[c].ids = client[c].ids
      /\ client'[c].op = client[c].op /\ client'[c].revision = r
  BY <1>5, <1>6, <1>7 DEF ClientRecord, Revisions
<1>9. r[id] = n /\ \A x \in Ids \ {id} : r[x] = client[c].revision[x]
  BY <1>1, <1>3
<1> QED  BY <1>5, <1>6, <1>8, <1>9

LEMMA RebaseIsSound ==
  ASSUME StoreInvariant, NEW c \in Clients, Rebase(c)
  PROVE  StepIsSound(c)
<1>1. TypeOK /\ FilesAreSound /\ ClientIsSound(c) /\ client[c].pc = "floor"
  BY DEF StoreInvariant, Rebase, At
<1>2. client[c].ids # <<>> /\ client[c].op \in {"profile", "bundle"} /\ Importing(c)
  BY <1>1, OperationOfStep DEF ClientIsSound
<1>a. PICK id \in Ids : id = Id(c)
  BY <1>1, <1>2, ClientType
<1>3. Floor(id) \in Nat /\ client[c].revision[id] \in Nat
  BY <1>1, FloorFacts, ClientType
<1>b. PICK n \in Nat : n = Latest(client[c].revision[id], Floor(id) + 1)
  BY <1>3 DEF Latest
<1>4. Floor(id) < n
  BY <1>3, <1>b DEF Latest
<1>5. client' = [client EXCEPT ![c].pc = "readMark", ![c].revision[id] = n]
  BY <1>a, <1>b DEF Rebase
<1>6. /\ client' \in [Clients -> ClientRecord]
      /\ client'[c].pc = "readMark" /\ client'[c].ids = client[c].ids
      /\ client'[c].op = client[c].op
      /\ client'[c].revision[id] = n
      /\ \A x \in Ids \ {id} : client'[c].revision[x] = client[c].revision[x]
  BY <1>1, <1>5, RebaseFacts
<1>7. UNCHANGED <<store, archives, requests, published>>
  BY DEF Rebase
<1>8. \A x \in Ids : Floor(x)' = Floor(x) /\ (Vacant(x)' <=> Vacant(x))
  <2>1. dir' = dir /\ lineage' = lineage
    BY <1>7 DEF store
  <2> QED  BY <2>1 DEF Floor, Vacant
<1>9. id \in Waiting(c) /\ id \in Arriving(c) /\ Id(c)' = id /\ Waiting(c)' = Waiting(c)
  <2>1. Id(c)' = id /\ Waiting(c)' = Waiting(c)
    BY <1>6, <1>a DEF Id, Waiting
  <2>2. id \in Waiting(c)
    BY <1>1, <1>2, <1>a, ClientType DEF Waiting, Id
  <2> QED  BY <1>2, <2>1, <2>2 DEF Importing
<1>10. Arriving(c)' = Arriving(c)
  <2>1. \A x \in Ids : client'[c].revision[x] # 0 <=> client[c].revision[x] # 0
    <3> TAKE x \in Ids
    <3>1. CASE x = id
      BY <1>3, <1>4, <1>6, <1>9, <3>1 DEF Arriving
    <3>2. CASE x # id
      BY <1>6, <3>2
    <3> QED  BY <3>1, <3>2
  <2> QED  BY <2>1 DEF Arriving
<1>11. Importing(c)'
  <2>1. \A x \in Arriving(c) \ Waiting(c) : Marked(c, x)'
    <3> TAKE x \in Arriving(c) \ Waiting(c)
    <3>1. x \in Ids /\ x # id /\ Marked(c, x)
      BY <1>2, <1>9 DEF Importing, Arriving
    <3> QED  BY <1>6, <1>7, <3>1 DEF Marked, store
  <2>2. \A x \in Arriving(c) : Vacant(x)'
    BY <1>2, <1>8 DEF Importing, Arriving
  <2>3. Floor(Id(c))' < Revision(c)'
    <3>1. Revision(c)' = n
      BY <1>6, <1>9 DEF Revision
    <3>2. Floor(Id(c))' = Floor(id)
      BY <1>7, <1>9 DEF Floor, store
    <3> QED  BY <1>4, <3>1, <3>2
  <2>4. client'[c].op = "bundle" => ~CollectionInstalled'
    BY <1>2, <1>6, <1>7 DEF Importing, CollectionInstalled, store
  <2>5. client'[c].op = "profile" => Arriving(c)' = {Id(c)'}
    BY <1>2, <1>6, <1>9, <1>10, <1>a DEF Importing
  <2>6. \A i, j \in DOMAIN client'[c].ids : client'[c].ids[i] = client'[c].ids[j] => i = j
    BY <1>2, <1>6 DEF Importing
  <2>7. Waiting(c)' \subseteq Arriving(c)'
    BY <1>2, <1>9, <1>10 DEF Importing
  <2> QED  BY <1>6, <1>9, <1>10, <2>1, <2>2, <2>3, <2>4, <2>5, <2>6, <2>7 DEF Importing
<1>12. ClientIsSound(c)'
  BY <1>2, <1>6, <1>11 DEF ClientIsSound
<1>13. requests' \in 0 .. MaxRequests /\ \A archive \in archives' : IsArchive(archive)
  BY <1>1, <1>7 DEF TypeOK
<1> QED  BY <1>6, <1>7, <1>12, <1>13, ClientStepIsSound

LEMMA WriteMarkFacts ==
  ASSUME TypeOK, NEW c \in Clients,
         client' = [client EXCEPT ![c].pc = "writeMark", ![c].marks = lineage]
  PROVE  /\ client' \in [Clients -> ClientRecord]
         /\ client'[c].pc = "writeMark" /\ client'[c].ids = client[c].ids
         /\ client'[c].op = client[c].op /\ client'[c].place = client[c].place
         /\ client'[c].revision = client[c].revision
         /\ client'[c].marks = lineage
<1>1. client \in [Clients -> ClientRecord] /\ "writeMark" \in Step /\ lineage \in Revisions
  BY DEF TypeOK, Step
<1>2. /\ client'[c] = [client[c] EXCEPT !.pc = "writeMark", !.marks = lineage]
      /\ client' = [client EXCEPT ![c] = client'[c]]
  BY <1>1
<1>3. client[c] \in [op : Operation, pc : Step, ids : Seq(Ids), place : Place,
                      revision : Revisions, marks : Revisions]
  BY <1>1 DEF ClientRecord
<1>4. /\ [client[c] EXCEPT !.pc = "writeMark", !.marks = lineage] \in ClientRecord
      /\ client'[c].pc = "writeMark" /\ client'[c].ids = client[c].ids
      /\ client'[c].op = client[c].op /\ client'[c].place = client[c].place
      /\ client'[c].revision = client[c].revision
      /\ client'[c].marks = lineage
  BY <1>1, <1>2, <1>3 DEF ClientRecord
<1> QED  BY <1>1, <1>2, <1>4

LEMMA ReadMarkIsSound ==
  ASSUME StoreInvariant, NEW c \in Clients, ReadMark(c)
  PROVE  StepIsSound(c)
<1>1. TypeOK /\ FilesAreSound /\ ClientIsSound(c) /\ client[c].pc = "readMark"
  BY DEF StoreInvariant, ReadMark, At
<1>2. /\ client[c].ids # <<>>
      /\ client[c].op \in {"commit", "create", "profile", "bundle", "trash", "restore"}
  BY <1>1, OperationOfStep
<1>a. PICK id \in Ids : id = Id(c)
  BY <1>1, <1>2, ClientType
<1>c. PICK new \in Nat : new = Revision(c)
  BY <1>1, <1>2, ClientType
<1>3. UNCHANGED <<store, archives, requests, published>>
  BY DEF ReadMark
<1>4. dir' = dir /\ pins' = pins /\ lineage' = lineage /\ published' = published
  BY <1>3 DEF store
<1>5. client' \in [Clients -> ClientRecord] /\ ClientIsSound(c)'
  <2>1. CASE Revision(c) < lineage[Id(c)] /\ Return(c)
    BY <1>1, <2>1, ReturnFacts
  <2>2. CASE Revision(c) = lineage[Id(c)] /\ AfterMark(c)
    <3>1. /\ lineage'[Id(c)] = Revision(c)
          /\ \A x \in Ids \ {Id(c)} : lineage'[x] = lineage[x]
      BY <1>4, <2>2
    <3> QED  BY <1>1, <1>4, <2>2, <3>1, AfterMarkIsSound
  <2>3. CASE /\ Revision(c) > lineage[Id(c)]
             /\ client' = [client EXCEPT ![c].pc = "writeMark", ![c].marks = lineage]
    <3>1. /\ client' \in [Clients -> ClientRecord]
          /\ client'[c].pc = "writeMark" /\ client'[c].ids = client[c].ids
          /\ client'[c].op = client[c].op /\ client'[c].place = client[c].place
          /\ client'[c].revision = client[c].revision
          /\ client'[c].marks = lineage
      BY <1>1, <2>3, WriteMarkFacts
    <3>2. Id(c)' = id /\ Revision(c)' = new
      BY <1>a, <1>c, <3>1 DEF Id, Revision
    <3>3. Floor(id)' = Floor(id) /\ Current(id)' = Current(id)
      BY <1>4, RowKept
    <3>3a. \A x \in Ids : Vacant(x)' <=> Vacant(x)
      BY <1>4 DEF Vacant
    <3>4. client[c].op = "commit" => Committing(c)'
      <4>1. client[c].op = "commit" =>
              /\ client[c].place \in Live
              /\ dir[id][client[c].place].document # 0
              /\ dir[id][client[c].place].document = new
        BY <1>1, <1>a, <1>c DEF ClientIsSound, Committing
      <4> QED  BY <1>4, <3>1, <3>2, <4>1 DEF Committing
    <3>5. client[c].op = "create" => Creating(c)'
      <4>1. client[c].op = "create" =>
              client[c].place = "profiles" /\ dir[id]["profiles"].document = new
        BY <1>1, <1>a, <1>c DEF ClientIsSound, Creating
      <4> QED  BY <1>4, <3>1, <3>2, <4>1 DEF Creating
    <3>6. client[c].op = "trash" => Trashing(c)'
      <4>1. client[c].op = "trash" => Current(id).document = new
        BY <1>1, <1>a, <1>c DEF ClientIsSound, Trashing
      <4> QED  BY <3>1, <3>2, <3>3, <4>1 DEF Trashing
    <3>7. client[c].op = "restore" => Restoring(c)'
      <4>1. client[c].op = "restore" =>
              /\ client[c].place = "profiles" /\ Vacant(id)
              /\ dir[id]["trash"].document = new /\ new # 0 /\ lineage[id] <= new
        BY <1>1, <1>a, <1>c DEF ClientIsSound, Restoring
      <4> QED  BY <1>4, <3>1, <3>2, <3>3a, <4>1 DEF Restoring
    <3>8. client[c].op \in {"profile", "bundle"} => Importing(c)'
      <4>1. SUFFICES ASSUME client[c].op \in {"profile", "bundle"}  PROVE Importing(c)'
        OBVIOUS
      <4>2. Importing(c)
        BY <1>1, <4>1 DEF ClientIsSound
      <4>3. Arriving(c)' = Arriving(c) /\ Waiting(c)' = Waiting(c)
        BY <3>1 DEF Arriving, Waiting
      <4>4. \A x \in Arriving(c) \ Waiting(c) : Marked(c, x)'
        BY <1>4, <3>1, <4>2 DEF Importing, Marked
      <4>5. \A x \in Arriving(c) : Vacant(x)'
        BY <3>3a, <4>2 DEF Importing, Arriving
      <4>6. Floor(Id(c))' < Revision(c)'
        <5>1. Floor(Id(c))' = Floor(Id(c)')
          BY <1>4 DEF Floor
        <5>2. Floor(id) < new
          BY <1>1, <1>a, <1>c, <4>2 DEF Importing
        <5> QED  BY <1>4, <3>2, <5>2 DEF Floor
      <4>7. client'[c].op = "bundle" => ~CollectionInstalled'
        BY <1>4, <3>1, <4>2 DEF Importing, CollectionInstalled
      <4>8. client'[c].op = "profile" => Arriving(c)' = {Id(c)'}
        BY <1>a, <3>1, <3>2, <4>2, <4>3 DEF Importing
      <4>9. \A i, j \in DOMAIN client'[c].ids : client'[c].ids[i] = client'[c].ids[j] => i = j
        BY <3>1, <4>2 DEF Importing
      <4>10. Waiting(c)' \subseteq Arriving(c)'
        BY <4>2, <4>3 DEF Importing
      <4> QED  BY <3>1, <4>3, <4>4, <4>5, <4>6, <4>7, <4>8, <4>9, <4>10 DEF Importing
    <3>9. client'[c].marks = lineage' /\ lineage'[Id(c)'] < Revision(c)'
      <4>1. lineage[id] < new /\ lineage[id] \in Nat
        BY <1>1, <1>a, <1>c, <2>3 DEF TypeOK, Revisions
      <4> QED  BY <1>4, <3>1, <3>2, <4>1
    <3> QED  BY <1>2, <3>1, <3>4, <3>5, <3>6, <3>7, <3>8, <3>9 DEF ClientIsSound
  <2> QED  BY <2>1, <2>2, <2>3 DEF ReadMark
<1>6. requests' \in 0 .. MaxRequests /\ \A archive \in archives' : IsArchive(archive)
  BY <1>1, <1>3 DEF TypeOK
<1> QED  BY <1>3, <1>5, <1>6, ClientStepIsSound

(* The mark that is written is not above a live document of its id. *)
LEMMA MarkToWrite ==
  ASSUME StoreInvariant, NEW c \in Clients, client[c].pc = "writeMark"
  PROVE  \A p \in Live : dir[Id(c)][p].document # 0 => Revision(c) <= dir[Id(c)][p].document
<1>1. TypeOK /\ FilesAreSound /\ ClientIsSound(c)
  BY DEF StoreInvariant
<1>2. /\ client[c].ids # <<>>
      /\ client[c].op \in {"commit", "create", "profile", "bundle", "trash", "restore"}
  BY <1>1, OperationOfStep
<1>a. PICK id \in Ids : id = Id(c)
  BY <1>1, <1>2, ClientType
<1>c. PICK new \in Nat : new = Revision(c)
  BY <1>1, <1>2, ClientType
<1>3. /\ LivesOnce(id) /\ Home(id) \in Live /\ Current(id) = dir[id][Home(id)]
      /\ \A p \in Live : dir[id][p].document # 0 => Home(id) = p
      /\ lineage[id] < new /\ lineage[id] \in Nat
  <2>1. LivesOnce(id)
    BY <1>1 DEF FilesAreSound
  <2>2. lineage[id] < new
    BY <1>1, <1>a, <1>c DEF ClientIsSound
  <2> QED  BY <1>1, <2>1, <2>2, HomeFacts DEF TypeOK, Revisions
<1>4. SUFFICES ASSUME NEW p \in Live, dir[id][p].document # 0  PROVE new <= dir[id][p].document
  BY <1>a, <1>c
<1>5. Home(id) = p /\ ~Vacant(id)
  BY <1>3, <1>4, AbsentIsEmpty DEF Vacant
<1>6. CASE client[c].op = "commit"
  <2>1. /\ client[c].place \in Live /\ dir[id][client[c].place].document # 0
        /\ dir[id][client[c].place].document = new
    BY <1>1, <1>6, <1>a, <1>c DEF ClientIsSound, Committing
  <2> QED  BY <1>3, <1>5, <2>1
<1>7. CASE client[c].op = "create"
  <2>1. dir[id]["profiles"].document = new /\ new # 0
    BY <1>1, <1>3, <1>7, <1>a, <1>c DEF ClientIsSound, Creating
  <2> QED  BY <1>3, <1>5, <2>1 DEF Live
<1>8. CASE client[c].op = "trash"
  <2>1. Current(id).document = new
    BY <1>1, <1>8, <1>a, <1>c DEF ClientIsSound, Trashing
  <2> QED  BY <1>3, <1>5, <2>1
<1>9. CASE client[c].op = "restore"
  BY <1>1, <1>5, <1>9, <1>a DEF ClientIsSound, Restoring
<1>10. CASE client[c].op \in {"profile", "bundle"}
  <2>1. id \in Waiting(c)
    BY <1>1, <1>2, <1>a, ClientType DEF Waiting, Id
  <2>2. Vacant(id)
    BY <1>1, <1>10, <2>1 DEF ClientIsSound, Importing
  <2> QED  BY <1>5, <2>2
<1> QED  BY <1>2, <1>6, <1>7, <1>8, <1>9, <1>10

LEMMA WriteMarkIsSound ==
  ASSUME StoreInvariant, NEW c \in Clients, WriteMark(c)
  PROVE  StepIsSound(c)
<1>1. TypeOK /\ FilesAreSound /\ ClientIsSound(c) /\ client[c].pc = "writeMark"
  BY DEF StoreInvariant, WriteMark, At
<1>2. client[c].ids # <<>>
  BY <1>1, OperationOfStep
<1>a. PICK id \in Ids : id = Id(c)
  BY <1>1, <1>2, ClientType
<1>c. PICK new \in Nat : new = Revision(c)
  BY <1>1, <1>2, ClientType
<1>3. UNCHANGED <<dir, pins, archives, requests, published>> /\ AfterMark(c)
  BY DEF WriteMark
<1>4. client[c].marks = lineage /\ lineage[id] < new /\ lineage \in [Ids -> Nat]
  BY <1>1, <1>a, <1>c DEF ClientIsSound, TypeOK, Revisions
<1>5. lineage' = [lineage EXCEPT ![id] = new]
  BY <1>4, <1>a, <1>c DEF WriteMark
<1>6. /\ lineage' \in [Ids -> Nat] /\ lineage'[id] = new
      /\ \A x \in Ids \ {id} : lineage'[x] = lineage[x]
  BY <1>4, <1>5
<1>7. client' \in [Clients -> ClientRecord] /\ ClientIsSound(c)'
  BY <1>1, <1>3, <1>6, <1>a, <1>c, AfterMarkIsSound
<1>8. TypeOK'
  BY <1>1, <1>3, <1>6, <1>7 DEF TypeOK, Revisions
<1>9. FilesAreSound'
  <2>1. LivesOnce(id) /\ MarkIsBetween(id)
    BY <1>1 DEF FilesAreSound
  <2>2. LivesOnce(id)'
    BY <1>3, <2>1 DEF LivesOnce
  <2>3. MarkIsBetween(id)'
    <3>1. dir[id]["trash"].document \in Nat /\ lineage[id] \in Nat
      BY <1>1, <1>4, DirectoryType DEF Place
    <3>2. dir'[id]["trash"].document <= lineage'[id]
      BY <1>3, <1>4, <1>6, <2>1, <3>1 DEF MarkIsBetween
    <3>3. \A p \in Live : dir'[id][p].document # 0 => lineage'[id] <= dir'[id][p].document
      BY <1>1, <1>3, <1>6, <1>a, <1>c, MarkToWrite
    <3>4. Floor(id) <= Floor(id)' /\ Floor(id) \in Nat /\ Floor(id)' \in Nat
      BY <1>1, <1>3, <1>4, <1>6, <1>8, <3>1, FloorFacts, FloorAfter
    <3>5. \A i \in DOMAIN published'[id] : published'[id][i] <= Floor(id)'
      <4>1. \A i \in DOMAIN published[id] : published[id][i] <= Floor(id) /\ published[id][i] \in Nat
        BY <1>1, <2>1 DEF MarkIsBetween, TypeOK
      <4> QED  BY <1>3, <3>4, <4>1
    <3> QED  BY <3>2, <3>3, <3>5 DEF MarkIsBetween
  <2>4. \A x \in Ids \ {id} :
          dir'[x] = dir[x] /\ lineage'[x] = lineage[x] /\ published'[x] = published[x]
    BY <1>3, <1>6
  <2>5. ~CollectionInstalled => dir'[id]["collection"] = Absent
    BY <1>1, <1>3 DEF FilesAreSound, CollectionIsPinned
  <2>6. \A i, j \in DOMAIN published'[id] : i < j => published'[id][i] < published'[id][j]
    BY <1>1, <1>3 DEF FilesAreSound, RevisionsRise
  <2> QED  BY <1>1, <1>3, <2>2, <2>3, <2>4, <2>5, <2>6, FilesAfterRow
<1>10. MarksStep
  <2>1. ASSUME NEW x \in Ids  PROVE lineage'[x] >= lineage[x]
    <3>1. CASE x = id
      BY <1>4, <1>6, <3>1
    <3>2. CASE x # id
      BY <1>4, <1>6, <3>2
    <3> QED  BY <3>1, <3>2
  <2> QED  BY <2>1 DEF MarksStep
<1>11. HistoryStep /\ WholeStep
  BY <1>3, RetainedIfSame DEF HistoryStep, WholeStep, CollectionInstalled
<1> QED  BY <1>7, <1>8, <1>9, <1>10, <1>11 DEF StepIsSound

-----------------------------------------------------------------------------
(* Drafts, the trash and what arrives *)

LEMMA RetainedOfAbsent ==
  ASSUME NEW new
  PROVE  ReplacedIsRetained(Absent, new)
BY AbsentIsEmpty DEF ReplacedIsRetained

LEMMA RetainedInAbsent ==
  ASSUME NEW old
  PROVE  ReplacedIsRetained(old, Absent)
BY AbsentIsEmpty DEF ReplacedIsRetained

LEMMA TypeAfterRow ==
  ASSUME TypeOK, NEW id \in Ids,
         dir' \in [Ids -> [Place -> Directory]],
         \A x \in Ids \ {id} : dir'[x] = dir[x],
         \A p \in Place : WellFormed(dir'[id][p]),
         UNCHANGED <<pins, lineage, archives>>,
         requests' \in 0 .. MaxRequests,
         client' \in [Clients -> ClientRecord],
         published' \in [Ids -> Seq(Nat)]
  PROVE  TypeOK'
<1>1. \A x \in Ids, p \in Place : WellFormed(dir'[x][p])
  <2> TAKE x \in Ids, p \in Place
  <2>1. CASE x = id
    BY <2>1
  <2>2. CASE x # id
    BY <2>2 DEF TypeOK
  <2> QED  BY <2>1, <2>2
<1> QED  BY <1>1 DEF TypeOK

LEMMA RemoveDraftIsSound ==
  ASSUME StoreInvariant, NEW c \in Clients, RemoveDraft(c)
  PROVE  StepIsSound(c)
<1>1. TypeOK /\ FilesAreSound /\ ClientIsSound(c) /\ client[c].pc = "draft"
  BY DEF StoreInvariant, RemoveDraft, At
<1>2. client[c].ids # <<>> /\ client[c].op = "commit" /\ Committing(c)
  BY <1>1, OperationOfStep DEF ClientIsSound
<1>a. PICK id \in Ids : id = Id(c)
  BY <1>1, <1>2, ClientType
<1>b. PICK place \in Place : place = client[c].place
  BY <1>1, ClientType
<1>3. /\ place \in Live /\ dir[id][place].document # 0
      /\ WellFormed(dir[id][place])
  BY <1>1, <1>2, <1>a, <1>b, DirectoryType DEF Committing
<1>4. dir' = [dir EXCEPT ![id][place].draft = FALSE]
  BY <1>a, <1>b DEF RemoveDraft
<1>5. /\ EditedOnly(id, place) /\ dir'[id][place].history = dir[id][place].history
      /\ dir'[id][place].document = dir[id][place].document
  BY <1>1, <1>4, DraftEdit
<1>6. UNCHANGED <<pins, lineage, archives, requests, published>> /\ Return(c)
  BY DEF RemoveDraft
<1>7. client' \in [Clients -> ClientRecord] /\ ClientIsSound(c)'
  BY <1>1, <1>6, ReturnFacts
<1>8. WellFormed(dir'[id][place])
  BY <1>3, <1>5 DEF WellFormed
<1>9. TypeOK'
  BY <1>1, <1>5, <1>6, <1>7, <1>8, TypeAfterEdit DEF TypeOK
<1>10. FilesAreSound'
  BY <1>1, <1>3, <1>5, <1>6, FilesAfterEdit
<1>11. \A p \in Live : ReplacedIsRetained(dir[id][p], dir'[id][p])
  <2> TAKE p \in Live
  <2>1. CASE p = place
    BY <1>5, <2>1 DEF ReplacedIsRetained
  <2>2. CASE p # place
    BY <1>5, <2>2, RetainedIfSame DEF EditedOnly, Live, Place
  <2> QED  BY <2>1, <2>2
<1>12. MarksStep /\ HistoryStep /\ WholeStep
  <2>1. lineage \in Revisions /\ pins' = pins /\ lineage' = lineage
    BY <1>1, <1>6 DEF TypeOK
  <2>2. \A x \in Ids \ {id} : dir'[x] = dir[x]
    BY <1>5 DEF EditedOnly
  <2> QED  BY <1>11, <2>1, <2>2, StepsOfRow
<1> QED  BY <1>7, <1>9, <1>10, <1>12 DEF StepIsSound

(* A request that edits files leaves the client idle. *)
LEMMA IdleStays ==
  ASSUME NEW c \in Clients, client[c].pc = "idle", client' = client
  PROVE  ClientIsSound(c)'
BY DEF ClientIsSound

LEMMA RequestFacts ==
  ASSUME TypeOK, NEW c \in Clients, Request(c)
  PROVE  client[c].pc = "idle" /\ requests' \in 0 .. MaxRequests
BY StoreAssumption DEF Request, TypeOK

LEMMA SaveDraftIsSound ==
  ASSUME StoreInvariant, NEW c \in Clients, NEW id \in Ids, SaveDraft(c, id)
  PROVE  StepIsSound(c)
<1>1. TypeOK /\ FilesAreSound
  BY DEF StoreInvariant
<1>2. /\ UNCHANGED <<pins, lineage, archives, client, published>>
      /\ client[c].pc = "idle" /\ requests' \in 0 .. MaxRequests
  BY <1>1, RequestFacts DEF SaveDraft
<1>3. LivesOnce(id) /\ MarkIsBetween(id)
  BY <1>1 DEF FilesAreSound
<1>b. PICK place \in Place : place = Home(id) /\ place \in Live
  BY <1>1, <1>3, HomeFacts DEF Live, Place
<1>4. dir' = [dir EXCEPT ![id][place].draft = TRUE]
  BY <1>b DEF SaveDraft
<1>5. /\ EditedOnly(id, place) /\ dir'[id][place].history = dir[id][place].history
      /\ dir'[id][place].document = dir[id][place].document
  BY <1>1, <1>4, DraftEdit
<1>6. WellFormed(dir'[id][place])
  <2>1. WellFormed(dir[id][place])
    BY <1>1, DirectoryType
  <2> QED  BY <1>5, <2>1 DEF WellFormed
<1>7. client' \in [Clients -> ClientRecord] /\ published' \in [Ids -> Seq(Nat)]
  BY <1>1, <1>2 DEF TypeOK
<1>8. TypeOK'
  BY <1>1, <1>2, <1>5, <1>6, <1>7, TypeAfterEdit
<1>9. \A p \in Place : dir'[id][p].document = dir[id][p].document
  BY <1>5 DEF EditedOnly
<1>10. MarkIsBetween(id)'
  BY <1>2, <1>3, <1>9, DocumentsKept
<1>11. place = "collection" => dir[id]["collection"] # Absent
  <2>1. place = "collection" => dir[id]["collection"].document # 0
    BY <1>b DEF Home
  <2> QED  BY <2>1, AbsentIsEmpty
<1>12. /\ LivesOnce(id)'
       /\ ~CollectionInstalled => dir'[id]["collection"] = Absent
  <2>1. CASE place = "profiles"
    <3>1. dir[id]["collection"] = Absent
      BY <1>1, <1>3, <1>b, <2>1, HomeFacts
    <3>2. dir'[id]["collection"] = Absent
      BY <1>5, <2>1, <3>1 DEF EditedOnly, Place
    <3> QED  BY <3>2 DEF LivesOnce
  <2>2. CASE place = "collection"
    <3>1. dir[id]["profiles"] = Absent /\ dir[id]["collection"].document # 0
      BY <1>b, <2>2 DEF Home
    <3>2. dir'[id]["profiles"] = Absent /\ dir'[id]["collection"].document # 0
      BY <1>5, <2>2, <3>1 DEF EditedOnly, Place
    <3>3. CollectionInstalled
      BY <1>1, <1>11, <2>2 DEF FilesAreSound, CollectionIsPinned
    <3> QED  BY <3>2, <3>3 DEF LivesOnce
  <2> QED  BY <1>b, <2>1, <2>2 DEF Live
<1>13. FilesAreSound'
  <2>1. \A x \in Ids \ {id} :
          dir'[x] = dir[x] /\ lineage'[x] = lineage[x] /\ published'[x] = published[x]
    BY <1>2, <1>5 DEF EditedOnly
  <2>2. \A i, j \in DOMAIN published'[id] : i < j => published'[id][i] < published'[id][j]
    BY <1>1, <1>2 DEF FilesAreSound, RevisionsRise
  <2> QED  BY <1>1, <1>2, <1>10, <1>12, <2>1, <2>2, FilesAfterRow
<1>14. \A p \in Live : ReplacedIsRetained(dir[id][p], dir'[id][p])
  <2> TAKE p \in Live
  <2>1. CASE p = place
    BY <1>5, <2>1 DEF ReplacedIsRetained
  <2>2. CASE p # place
    BY <1>5, <2>2, RetainedIfSame DEF EditedOnly, Live, Place
  <2> QED  BY <2>1, <2>2
<1>15. MarksStep /\ HistoryStep /\ WholeStep
  <2>1. lineage \in Revisions /\ pins' = pins /\ lineage' = lineage
    BY <1>1, <1>2 DEF TypeOK
  <2>2. \A x \in Ids \ {id} : dir'[x] = dir[x]
    BY <1>5 DEF EditedOnly
  <2> QED  BY <1>14, <2>1, <2>2, StepsOfRow
<1>16. ClientIsSound(c)'
  BY <1>2, IdleStays
<1> QED  BY <1>8, <1>13, <1>15, <1>16 DEF StepIsSound

(* The trash and one other directory of an id. *)
LEMMA TrashStepIsSound ==
  ASSUME StoreInvariant, NEW c \in Clients, NEW id \in Ids,
         dir' \in [Ids -> [Place -> Directory]],
         \A x \in Ids \ {id} : dir'[x] = dir[x],
         \A p \in Place : WellFormed(dir'[id][p]),
         \A p \in Live : ReplacedIsRetained(dir[id][p], dir'[id][p]),
         UNCHANGED <<pins, lineage, archives, published>>,
         requests' \in 0 .. MaxRequests,
         client' \in [Clients -> ClientRecord], ClientIsSound(c)',
         LivesOnce(id)',
         dir'[id]["collection"] \in {Absent, dir[id]["collection"]},
         dir'[id]["trash"].document <= lineage[id],
         \A p \in Live : dir'[id][p].document # 0 => lineage[id] <= dir'[id][p].document,
         \E n \in {lineage[id], dir'[id]["profiles"].document, dir'[id]["collection"].document} :
           Floor(id) <= n
  PROVE  StepIsSound(c)
<1>1. TypeOK /\ FilesAreSound
  BY DEF StoreInvariant
<1>2. TypeOK'
  BY <1>1, TypeAfterRow DEF TypeOK
<1>3. MarkIsBetween(id)'
  <2>1. Floor(id) <= Floor(id)' /\ Floor(id) \in Nat /\ Floor(id)' \in Nat
    <3>1. /\ lineage'[id] <= Floor(id)' /\ dir'[id]["profiles"].document <= Floor(id)'
          /\ dir'[id]["collection"].document <= Floor(id)' /\ Floor(id)' \in Nat
          /\ Floor(id) \in Nat /\ lineage' = lineage
      BY <1>1, <1>2, FloorFacts, FloorAfter
    <3>2. /\ lineage[id] \in Nat /\ dir'[id]["profiles"].document \in Nat
          /\ dir'[id]["collection"].document \in Nat
      BY <1>1 DEF TypeOK, Revisions, Directory, Place
    <3> QED  BY <3>1, <3>2
  <2>2. \A i \in DOMAIN published[id] : published[id][i] <= Floor(id) /\ published[id][i] \in Nat
    BY <1>1 DEF FilesAreSound, MarkIsBetween, TypeOK
  <2>3. \A i \in DOMAIN published'[id] : published'[id][i] <= Floor(id)'
    BY <2>1, <2>2
  <2> QED  BY <2>3 DEF MarkIsBetween
<1>4. FilesAreSound'
  <2>1. \A x \in Ids \ {id} :
          dir'[x] = dir[x] /\ lineage'[x] = lineage[x] /\ published'[x] = published[x]
    OBVIOUS
  <2>2. \A i, j \in DOMAIN published'[id] : i < j => published'[id][i] < published'[id][j]
    BY <1>1 DEF FilesAreSound, RevisionsRise
  <2>3. ~CollectionInstalled => dir'[id]["collection"] = Absent
    BY <1>1 DEF FilesAreSound, CollectionIsPinned
  <2> QED  BY <1>1, <1>3, <2>1, <2>2, <2>3, FilesAfterRow
<1>5. MarksStep /\ HistoryStep /\ WholeStep
  BY <1>1, StepsOfRow DEF TypeOK
<1> QED  BY <1>2, <1>4, <1>5 DEF StepIsSound

(* One file less in a directory: a document that is gone, a revision, or   *)
(* the draft.                                                              *)
LEMMA OneFileLess ==
  ASSUME NEW directory \in Directory, WellFormed(directory),
         NEW rest \in WithoutOne(directory)
  PROVE  /\ rest \in Directory /\ WellFormed(rest)
         /\ rest.document \in {0, directory.document}
<1>1. CASE rest = [directory EXCEPT !.document = 0]
  BY <1>1 DEF Directory, WellFormed
<1>2. CASE rest = [directory EXCEPT !.draft = FALSE]
  BY <1>2 DEF Directory, WellFormed
<1>3. CASE \E revision \in directory.history :
             rest = [directory EXCEPT !.history = @ \ {revision}]
  BY <1>3 DEF Directory, WellFormed
<1> QED  BY <1>1, <1>2, <1>3 DEF WithoutOne

LEMMA RemoveFileIsSound ==
  ASSUME StoreInvariant, NEW c \in Clients, RemoveFile(c)
  PROVE  StepIsSound(c)
<1>1. TypeOK /\ FilesAreSound /\ ClientIsSound(c) /\ client[c].pc = "remove"
  BY DEF StoreInvariant, RemoveFile, At
<1>2. client[c].ids # <<>> /\ client[c].op = "delete" /\ client[c].place = "trash"
  BY <1>1, OperationOfStep DEF ClientIsSound, Deleting
<1>a. PICK id \in Ids : id = Id(c)
  BY <1>1, <1>2, ClientType
<1>b. UNCHANGED <<pins, lineage, archives, client, requests, published>>
  BY DEF RemoveFile
<1>3. /\ dir \in [Ids -> [Place -> Directory]] /\ dir[id] \in [Place -> Directory]
      /\ "trash" \in Place /\ LivesOnce(id) /\ MarkIsBetween(id)
  BY <1>1 DEF TypeOK, Place, FilesAreSound
<1>c. PICK rest \in WithoutOne(dir[id]["trash"]) : dir' = [dir EXCEPT ![id]["trash"] = rest]
  BY <1>2, <1>a DEF RemoveFile
<1>d. /\ rest \in Directory /\ WellFormed(rest)
      /\ rest.document \in {0, dir[id]["trash"].document}
  BY <1>1, <1>3, OneFileLess, DirectoryType
<1>4. PICK row \in [Place -> Directory] : row = [dir[id] EXCEPT !["trash"] = rest]
  BY <1>3, <1>d
<1>5. dir' = [dir EXCEPT ![id] = row]
  BY <1>3, <1>c, <1>4
<1>6. /\ dir' \in [Ids -> [Place -> Directory]] /\ dir'[id] = row
      /\ \A x \in Ids \ {id} : dir'[x] = dir[x]
  BY <1>3, <1>5
<1>7. row["trash"] = rest /\ \A p \in Place \ {"trash"} : row[p] = dir[id][p]
  BY <1>3, <1>4
<1>8. \A p \in Live : dir'[id][p] = dir[id][p]
  BY <1>6, <1>7 DEF Live, Place
<1>9. \A p \in Place : WellFormed(dir'[id][p])
  <2> TAKE p \in Place
  <2>1. CASE p = "trash"
    BY <1>6, <1>7, <1>d, <2>1
  <2>2. CASE p # "trash"
    BY <1>1, <1>6, <1>7, <2>2, DirectoryType
  <2> QED  BY <2>1, <2>2
<1>10. \A p \in Live : ReplacedIsRetained(dir[id][p], dir'[id][p])
  BY <1>8, RetainedIfSame
<1>11. LivesOnce(id)'
  BY <1>3, <1>8 DEF LivesOnce, Live
<1>12. client' \in [Clients -> ClientRecord] /\ ClientIsSound(c)' /\ requests' \in 0 .. MaxRequests
  <2>1. client' = client /\ client' \in [Clients -> ClientRecord] /\ requests' \in 0 .. MaxRequests
    BY <1>1, <1>b DEF TypeOK
  <2> QED  BY <1>1, <1>2, <2>1 DEF ClientIsSound, Deleting
<1>13. dir'[id]["trash"].document <= lineage[id]
  <2>1. lineage[id] \in Nat /\ dir[id]["trash"].document <= lineage[id]
    BY <1>1, <1>3 DEF MarkIsBetween, TypeOK, Revisions
  <2> QED  BY <1>6, <1>7, <1>d, <2>1
<1>14. \A p \in Live : dir'[id][p].document # 0 => lineage[id] <= dir'[id][p].document
  BY <1>3, <1>8 DEF MarkIsBetween
<1>15. \E n \in {lineage[id], dir'[id]["profiles"].document, dir'[id]["collection"].document} :
         Floor(id) <= n
  <2>1. /\ dir'[id]["profiles"].document = dir[id]["profiles"].document
        /\ dir'[id]["collection"].document = dir[id]["collection"].document
    BY <1>8 DEF Live
  <2>2. /\ Floor(id) \in Nat /\ lineage[id] \in Nat /\ dir[id]["trash"].document \in Nat
        /\ dir[id]["trash"].document <= lineage[id]
    BY <1>1, <1>3, FloorFacts, DirectoryType DEF MarkIsBetween, TypeOK, Revisions, Place
  <2>3. Floor(id) \in {lineage[id], dir[id]["profiles"].document,
                       dir[id]["collection"].document, dir[id]["trash"].document}
    BY <1>1, FloorFacts
  <2> QED  BY <2>1, <2>2, <2>3
<1>16. dir'[id]["collection"] \in {Absent, dir[id]["collection"]}
  BY <1>8 DEF Live
<1> QED  BY <1>b, <1>6, <1>9, <1>10, <1>11, <1>12, <1>13, <1>14, <1>15, <1>16, TrashStepIsSound

(* A rename moves the whole directory or nothing. *)
LEMMA MoveFacts ==
  ASSUME TypeOK, NEW c \in Clients, NEW id \in Ids, NEW from \in Place, NEW to \in Place,
         from # to, Move(c, id, from, to), dir[id][from] # Absent, dir[id][to] = Absent
  PROVE  /\ dir' \in [Ids -> [Place -> Directory]]
         /\ \A x \in Ids \ {id} : dir'[x] = dir[x]
         /\ dir'[id][to] = dir[id][from] /\ dir'[id][from] = Absent
         /\ \A p \in Place \ {from, to} : dir'[id][p] = dir[id][p]
         /\ \A p \in Place : WellFormed(dir'[id][p])
<1>1. dir \in [Ids -> [Place -> Directory]] /\ dir[id] \in [Place -> Directory]
  BY DEF TypeOK
<1>2. dir' = [dir EXCEPT ![id][to] = dir[id][from], ![id][from] = Absent]
  BY DEF Move
<1>3. PICK row \in [Place -> Directory] :
        row = [dir[id] EXCEPT ![to] = dir[id][from], ![from] = Absent]
  BY <1>1, AbsentIsEmpty
<1>4. dir' = [dir EXCEPT ![id] = row]
  BY <1>1, <1>2, <1>3
<1>5. /\ dir' \in [Ids -> [Place -> Directory]] /\ dir'[id] = row
      /\ \A x \in Ids \ {id} : dir'[x] = dir[x]
  BY <1>1, <1>4
<1>6. /\ row[to] = dir[id][from] /\ row[from] = Absent
      /\ \A p \in Place \ {from, to} : row[p] = dir[id][p]
  BY <1>1, <1>3
<1>7. \A p \in Place : WellFormed(row[p])
  <2> TAKE p \in Place
  <2>1. CASE p = from
    BY <1>6, <2>1, AbsentIsEmpty DEF WellFormed
  <2>2. CASE p = to
    BY <1>6, <2>2, DirectoryType
  <2>3. CASE p \notin {from, to}
    BY <1>6, <2>3, DirectoryType
  <2> QED  BY <2>1, <2>2, <2>3
<1> QED  BY <1>5, <1>6, <1>7

(* Whoever moves a directory has returned. *)
LEMMA MoverFacts ==
  ASSUME TypeOK, NEW c \in Clients, NEW id \in Ids, NEW from \in Place, NEW to \in Place,
         Move(c, id, from, to)
  PROVE  /\ client' \in [Clients -> ClientRecord] /\ ClientIsSound(c)'
         /\ \A d \in Clients \ {c} : client[d].pc = "idle" => client'[d] = client[d]
<1>1. Idle \in ClientRecord /\ Idle.pc = "idle"
  <2>1. NoRevisions \in Revisions /\ <<>> \in Seq(Ids)
    BY DEF NoRevisions, Revisions
  <2> QED  BY <2>1 DEF Idle, ClientRecord, Operation, Step, Place
<1>2. client'[c] = Idle
  BY DEF Move
<1>3. \A d \in Clients \ {c} :
        client'[d] = client[d] \/ (At(d, "remove") /\ client'[d] = [client[d] EXCEPT !.place = to])
  BY DEF Move
<1>4. client' = [d \in Clients |-> client'[d]]
  BY DEF Move
<1>5. \A d \in Clients : client'[d] \in ClientRecord
  <2> TAKE d \in Clients
  <2>1. client[d] \in ClientRecord
    BY DEF TypeOK
  <2>2. [client[d] EXCEPT !.place = to] \in ClientRecord
    BY <2>1 DEF ClientRecord
  <2> QED  BY <1>1, <1>2, <1>3, <2>1, <2>2
<1>6. client' \in [Clients -> ClientRecord]
  BY <1>4, <1>5
<1>7. ClientIsSound(c)'
  BY <1>1, <1>2 DEF ClientIsSound
<1>8. \A d \in Clients \ {c} : client[d].pc = "idle" => client'[d] = client[d]
  BY <1>3 DEF At
<1> QED  BY <1>6, <1>7, <1>8

(* A rename that fails, like a step without effect on the files. *)
LEMMA NothingMoves ==
  ASSUME StoreInvariant, NEW c \in Clients, UNCHANGED <<dir, pins, lineage, archives, requests, published>>,
         client' \in [Clients -> ClientRecord], ClientIsSound(c)'
  PROVE  StepIsSound(c)
<1>1. TypeOK
  BY DEF StoreInvariant
<1>2. requests' \in 0 .. MaxRequests /\ \A archive \in archives' : IsArchive(archive)
  BY <1>1 DEF TypeOK
<1> QED  BY <1>2, ClientStepIsSound DEF store

(* A deletion that has emptied its directory returns. *)
LEMMA RemoveDirectoryIsSound ==
  ASSUME StoreInvariant, NEW c \in Clients, RemoveDirectory(c)
  PROVE  StepIsSound(c)
<1>1. TypeOK
  BY DEF StoreInvariant
<1>2. UNCHANGED <<dir, pins, lineage, archives, requests, published>> /\ Return(c)
  BY DEF RemoveDirectory, store
<1> QED  BY <1>1, <1>2, ReturnFacts, NothingMoves

LEMMA MoveToTrashIsSound ==
  ASSUME StoreInvariant, NEW c \in Clients, MoveToTrash(c)
  PROVE  StepIsSound(c)
<1>1. TypeOK /\ FilesAreSound /\ ClientIsSound(c) /\ client[c].pc = "move" /\ client[c].op = "trash"
  BY DEF StoreInvariant, MoveToTrash, At
<1>2. client[c].ids # <<>> /\ Trashing(c)
  BY <1>1, OperationOfStep DEF ClientIsSound
<1>a. PICK id \in Ids : id = Id(c)
  BY <1>1, <1>2, ClientType
<1>3. UNCHANGED <<pins, lineage, archives, requests, published>>
  BY DEF MoveToTrash
<1>4. LivesOnce(id) /\ MarkIsBetween(id)
  BY <1>1 DEF FilesAreSound
<1>b. PICK home \in Place : home = Home(id) /\ home \in Live
  BY <1>1, <1>4, HomeFacts DEF Live, Place
<1>5. Move(c, id, home, "trash")
  BY <1>a, <1>b DEF MoveToTrash
<1>8. client' \in [Clients -> ClientRecord] /\ ClientIsSound(c)'
  BY <1>1, <1>5, <1>b, MoverFacts DEF Place
<1>6. CASE ~(dir[id][home] # Absent /\ dir[id]["trash"] = Absent)
  <2>1. dir' = dir
    BY <1>5, <1>6 DEF Move
  <2> QED  BY <1>3, <1>8, <2>1, NothingMoves
<1>7. CASE dir[id][home] # Absent /\ dir[id]["trash"] = Absent
  <2>1. /\ dir' \in [Ids -> [Place -> Directory]]
        /\ \A x \in Ids \ {id} : dir'[x] = dir[x]
        /\ dir'[id]["trash"] = dir[id][home] /\ dir'[id][home] = Absent
        /\ \A p \in Place \ {home, "trash"} : dir'[id][p] = dir[id][p]
        /\ \A p \in Place : WellFormed(dir'[id][p])
    BY <1>1, <1>5, <1>7, <1>b, MoveFacts DEF Live, Place
  <2>2. \A p \in Live : dir[id][p] = Absent \/ p = home
    <3>1. CASE home = "profiles"
      BY <1>1, <1>4, <1>b, <3>1, HomeFacts DEF Live
    <3>2. CASE home = "collection"
      BY <1>b, <3>2 DEF Home, Live
    <3> QED  BY <1>b, <3>1, <3>2 DEF Live
  <2>3. \A p \in Live : dir'[id][p] = Absent
    BY <2>1, <2>2 DEF Live, Place
  <2>4. \A p \in Live : ReplacedIsRetained(dir[id][p], dir'[id][p])
    BY <2>3, RetainedInAbsent
  <2>6. LivesOnce(id)'
    BY <2>3 DEF LivesOnce, Live
  <2>7. dir[id][home].document <= lineage[id]
    BY <1>1, <1>2, <1>4, <1>a, <1>b, HomeFacts DEF Trashing
  <2>8. \A p \in Live : dir'[id][p].document # 0 => lineage[id] <= dir'[id][p].document
    BY <2>3, AbsentIsEmpty
  <2>9. Floor(id) <= lineage[id]
    <3>1. /\ Floor(id) \in Nat /\ lineage[id] \in Nat /\ dir[id]["trash"].document \in Nat
          /\ dir[id]["trash"].document <= lineage[id]
      BY <1>1, <1>4, FloorFacts, DirectoryType DEF MarkIsBetween, TypeOK, Revisions, Place
    <3>2. \A p \in Live : dir[id][p].document <= lineage[id]
      BY <2>2, <2>7, <3>1, AbsentIsEmpty
    <3> QED  BY <1>1, <3>1, <3>2, FloorFacts DEF Live
  <2>10. requests' \in 0 .. MaxRequests
    BY <1>1, <1>3 DEF TypeOK
  <2>11. dir'[id]["collection"] \in {Absent, dir[id]["collection"]}
    BY <2>3 DEF Live
  <2>12. dir'[id]["trash"].document <= lineage[id]
    BY <2>1, <2>7
  <2>13. \E n \in {lineage[id], dir'[id]["profiles"].document, dir'[id]["collection"].document} :
           Floor(id) <= n
    BY <2>9
  <2> QED  BY <1>3, <2>1, <1>8, <2>4, <2>6, <2>8, <2>10, <2>11, <2>12, <2>13, TrashStepIsSound
<1> QED  BY <1>6, <1>7

LEMMA MoveBackIsSound ==
  ASSUME StoreInvariant, NEW c \in Clients, MoveBack(c)
  PROVE  StepIsSound(c)
<1>1. TypeOK /\ FilesAreSound /\ ClientIsSound(c) /\ client[c].pc = "move" /\ client[c].op = "restore"
  BY DEF StoreInvariant, MoveBack, At
<1>2. client[c].ids # <<>> /\ Restoring(c)
  BY <1>1, OperationOfStep DEF ClientIsSound
<1>a. PICK id \in Ids : id = Id(c)
  BY <1>1, <1>2, ClientType
<1>3. UNCHANGED <<pins, lineage, archives, requests, published>>
  BY DEF MoveBack
<1>4. /\ Vacant(id) /\ dir[id]["trash"].document # 0
      /\ lineage[id] <= dir[id]["trash"].document
  BY <1>2, <1>a DEF Restoring
<1>5. LivesOnce(id) /\ MarkIsBetween(id) /\ Floor(id) = lineage[id]
  BY <1>1, <1>4, FloorOfSound DEF FilesAreSound
<1>6. Move(c, id, "trash", "profiles")
  BY <1>2, <1>a DEF MoveBack, Restoring
<1>7. /\ dir' \in [Ids -> [Place -> Directory]]
      /\ \A x \in Ids \ {id} : dir'[x] = dir[x]
      /\ dir'[id]["profiles"] = dir[id]["trash"] /\ dir'[id]["trash"] = Absent
      /\ dir'[id]["collection"] = dir[id]["collection"]
      /\ \A p \in Place : WellFormed(dir'[id][p])
  <2>1. dir[id]["trash"] # Absent /\ dir[id]["profiles"] = Absent
    BY <1>4, AbsentIsEmpty DEF Vacant, Live
  <2> QED  BY <1>1, <1>6, <2>1, MoveFacts DEF Place
<1>8. dir'[id]["collection"] = Absent
  BY <1>4, <1>7 DEF Vacant, Live
<1>9. \A p \in Live : ReplacedIsRetained(dir[id][p], dir'[id][p])
  BY <1>4, RetainedOfAbsent DEF Vacant
<1>10. client' \in [Clients -> ClientRecord] /\ ClientIsSound(c)'
  BY <1>1, <1>6, MoverFacts DEF Place
<1>11. LivesOnce(id)'
  BY <1>8 DEF LivesOnce
<1>12. dir'[id]["trash"].document <= lineage[id] /\ lineage[id] \in Nat
  BY <1>1, <1>7, AbsentIsEmpty DEF TypeOK, Revisions
<1>13. \A p \in Live : dir'[id][p].document # 0 => lineage[id] <= dir'[id][p].document
  BY <1>4, <1>7, <1>8, AbsentIsEmpty DEF Live
<1>14. \E n \in {lineage[id], dir'[id]["profiles"].document, dir'[id]["collection"].document} :
         Floor(id) <= n
  BY <1>5, <1>12
<1>15. requests' \in 0 .. MaxRequests
  BY <1>1, <1>3 DEF TypeOK
<1>16. dir'[id]["collection"] \in {Absent, dir[id]["collection"]}
  BY <1>8
<1> QED  BY <1>3, <1>7, <1>9, <1>10, <1>11, <1>12, <1>13, <1>14, <1>15, <1>16, TrashStepIsSound

(* An id that was vacant and has the mark of its new document.             *)
AppearsAt(id, place, n) ==
  /\ dir'[id] = [dir[id] EXCEPT ![place] = [Absent EXCEPT !.document = n]]
  /\ published'[id] = Append(published[id], n)

LEMMA AppearedFiles ==
  ASSUME TypeOK, NEW id \in Ids, NEW place \in Live, NEW n \in Nat, AppearsAt(id, place, n)
  PROVE  /\ dir'[id] \in [Place -> Directory]
         /\ dir'[id][place].document = n
         /\ \A p \in Place \ {place} : dir'[id][p] = dir[id][p]
         /\ \A p \in Place : WellFormed(dir'[id][p])
         /\ published'[id] \in Seq(Nat)
<1> DEFINE new == [Absent EXCEPT !.document = n]
<1>1. Absent \in [document : Nat, history : SUBSET Nat, draft : BOOLEAN] /\ place \in Place
  BY AbsentIsEmpty DEF Directory, Live, Place
<1>2. new \in Directory /\ new.document = n /\ new.history = {}
  BY <1>1, AbsentIsEmpty DEF Directory
<1>3. dir'[id] = [dir[id] EXCEPT ![place] = new] /\ dir[id] \in [Place -> Directory]
  BY DEF AppearsAt, TypeOK
<1> HIDE DEF new
<1>4. /\ dir'[id] \in [Place -> Directory] /\ dir'[id][place] = new
      /\ \A p \in Place \ {place} : dir'[id][p] = dir[id][p]
  BY <1>1, <1>2, <1>3
<1>5. \A p \in Place : WellFormed(dir'[id][p])
  <2> TAKE p \in Place
  <2>1. CASE p = place
    BY <1>2, <1>4, <2>1 DEF WellFormed
  <2>2. CASE p # place
    BY <1>4, <2>2, DirectoryType
  <2> QED  BY <2>1, <2>2
<1>6. published'[id] \in Seq(Nat)
  BY DEF AppearsAt, TypeOK
<1> QED  BY <1>2, <1>4, <1>5, <1>6

LEMMA AppearedRow ==
  ASSUME TypeOK, TypeOK', NEW id \in Ids, NEW place \in Live, NEW n \in Nat, n # 0,
         AppearsAt(id, place, n), lineage' = lineage, lineage[id] = n,
         Vacant(id), MarkIsBetween(id), 
         \A i \in DOMAIN published[id] : published[id][i] < n,
         \A i, j \in DOMAIN published[id] : i < j => published[id][i] < published[id][j]
  PROVE  /\ LivesOnce(id)' /\ MarkIsBetween(id)'
         /\ \A i, j \in DOMAIN published'[id] : i < j => published'[id][i] < published'[id][j]
<1>1. /\ dir'[id][place].document = n
      /\ \A p \in Place \ {place} : dir'[id][p] = dir[id][p]
      /\ published'[id] \in Seq(Nat)
  BY AppearedFiles
<1>2. \A p \in Live \ {place} : dir'[id][p] = Absent
  BY <1>1 DEF Vacant, Live, Place
<1>3. LivesOnce(id)'
  BY <1>1, <1>2, AbsentIsEmpty DEF LivesOnce, Live
<1>4. published[id] \in Seq(Nat) /\ published'[id] = Append(published[id], n)
  BY DEF TypeOK, AppearsAt
<1>5. /\ \A i, j \in DOMAIN published'[id] : i < j => published'[id][i] < published'[id][j]
      /\ \A i \in DOMAIN published'[id] : published'[id][i] <= n
  BY <1>4, AppendedRevision
<1>6. MarkIsBetween(id)'
  <2>1. dir'[id]["trash"] = dir[id]["trash"]
    BY <1>1 DEF Live, Place
  <2>2. dir'[id]["trash"].document <= lineage'[id]
    BY <2>1 DEF MarkIsBetween
  <2>3. \A p \in Live : dir'[id][p].document # 0 => lineage'[id] <= dir'[id][p].document
    BY <1>1, <1>2, AbsentIsEmpty
  <2>4. n <= Floor(id)' /\ Floor(id)' \in Nat
    BY FloorAfter
  <2>5. \A i \in DOMAIN published'[id] : published'[id][i] <= Floor(id)'
    <3>1. \A i \in DOMAIN published'[id] : published'[id][i] \in Nat
      BY <1>1
    <3> QED  BY <1>5, <2>4, <3>1
  <2> QED  BY <2>2, <2>3, <2>5 DEF MarkIsBetween
<1> QED  BY <1>3, <1>5, <1>6

LEMMA InstallProfileIsSound ==
  ASSUME StoreInvariant, NEW c \in Clients, InstallProfile(c)
  PROVE  StepIsSound(c)
<1>1. TypeOK /\ FilesAreSound /\ ClientIsSound(c) /\ client[c].pc = "move" /\ client[c].op = "profile"
  BY DEF StoreInvariant, InstallProfile, At
<1>2. client[c].ids # <<>> /\ Importing(c)
  BY <1>1, OperationOfStep DEF ClientIsSound
<1>a. PICK id \in Ids : id = Id(c)
  BY <1>1, <1>2, ClientType
<1>c. PICK n \in Nat : n = client[c].revision[id]
  BY <1>1, ClientType
<1>3. UNCHANGED <<pins, lineage, archives, requests>> /\ Return(c)
  BY DEF InstallProfile
<1>4. client' \in [Clients -> ClientRecord] /\ ClientIsSound(c)'
  BY <1>1, <1>3, ReturnFacts
<1>5. /\ Vacant(id) /\ n # 0 /\ lineage[id] = n
      /\ \A i \in DOMAIN published[id] : published[id][i] < n
  <2>1. id \in Arriving(c)
    BY <1>1, <1>2, <1>a DEF Importing
  <2> QED  BY <1>1, <1>2, <1>a, <1>c, <2>1 DEF Importing, Marked, Arriving
<1>6. Appear(c, {id}, "profiles")
  BY <1>5, <1>a DEF InstallProfile, Vacant, Live
<1>7. /\ AppearsAt(id, "profiles", n)
      /\ \A x \in Ids \ {id} : dir'[x] = dir[x] /\ published'[x] = published[x]
      /\ DOMAIN dir' = Ids /\ DOMAIN published' = Ids
      /\ dir' = [x \in Ids |-> dir'[x]] /\ published' = [x \in Ids |-> published'[x]]
  BY <1>6, <1>c DEF Appear, AppearsAt
<1>8. /\ dir'[id] \in [Place -> Directory]
      /\ \A p \in Place \ {"profiles"} : dir'[id][p] = dir[id][p]
      /\ \A p \in Place : WellFormed(dir'[id][p])
      /\ published'[id] \in Seq(Nat)
  BY <1>1, <1>7, AppearedFiles DEF Live
<1>9. dir' \in [Ids -> [Place -> Directory]]
  <2>1. \A x \in Ids : dir'[x] \in [Place -> Directory]
    BY <1>1, <1>7, <1>8 DEF TypeOK
  <2> QED  BY <1>7, <2>1
<1>10. published' \in [Ids -> Seq(Nat)]
  <2>1. \A x \in Ids : published'[x] \in Seq(Nat)
    BY <1>1, <1>7, <1>8 DEF TypeOK
  <2> QED  BY <1>7, <2>1
<1>11. TypeOK'
  BY <1>1, <1>3, <1>4, <1>7, <1>8, <1>9, <1>10, TypeAfterRow DEF TypeOK
<1>12. /\ LivesOnce(id)' /\ MarkIsBetween(id)'
       /\ \A i, j \in DOMAIN published'[id] : i < j => published'[id][i] < published'[id][j]
  <2>1. \A i, j \in DOMAIN published[id] : i < j => published[id][i] < published[id][j]
    BY <1>1 DEF FilesAreSound, RevisionsRise
  <2>2. MarkIsBetween(id) /\ "profiles" \in Live
    BY <1>1 DEF FilesAreSound, Live
  <2> QED  BY <1>1, <1>3, <1>5, <1>7, <1>11, <2>1, <2>2, AppearedRow
<1>13. dir'[id]["collection"] = Absent
  BY <1>5, <1>8 DEF Vacant, Live, Place
<1>14. FilesAreSound'
  <2>1. \A x \in Ids \ {id} :
          dir'[x] = dir[x] /\ lineage'[x] = lineage[x] /\ published'[x] = published[x]
    BY <1>3, <1>7
  <2> QED  BY <1>1, <1>3, <1>12, <1>13, <2>1, FilesAfterRow
<1>15. MarksStep /\ HistoryStep /\ WholeStep
  <2>1. \A p \in Live : ReplacedIsRetained(dir[id][p], dir'[id][p])
    BY <1>5, RetainedOfAbsent DEF Vacant
  <2>2. lineage \in Revisions /\ pins' = pins /\ lineage' = lineage
    BY <1>1, <1>3 DEF TypeOK
  <2> QED  BY <1>7, <2>1, <2>2, StepsOfRow
<1> QED  BY <1>4, <1>11, <1>14, <1>15 DEF StepIsSound

LEMMA InstallCollectionIsSound ==
  ASSUME StoreInvariant, NEW c \in Clients, InstallCollection(c)
  PROVE  StepIsSound(c)
<1>1. TypeOK /\ FilesAreSound /\ ClientIsSound(c) /\ client[c].pc = "move" /\ client[c].op = "bundle"
  BY DEF StoreInvariant, InstallCollection, At
<1>2. client[c].ids # <<>> /\ Importing(c)
  BY <1>1, OperationOfStep DEF ClientIsSound
<1>a. PICK ids \in SUBSET Ids : ids = Arriving(c)
  BY DEF Arriving
<1>b. PICK revision \in [Ids -> Nat] : revision = client[c].revision
  BY <1>1, ClientType
<1>3. UNCHANGED <<lineage, archives, requests>> /\ Return(c)
  BY DEF InstallCollection
<1>4. client' \in [Clients -> ClientRecord] /\ ClientIsSound(c)'
  BY <1>1, <1>3, ReturnFacts
<1>5. ids # {} /\ \A x \in Ids : x \in ids <=> revision[x] # 0
  <2>1. \A x \in Ids : x \in ids <=> revision[x] # 0
    BY <1>a, <1>b DEF Arriving
  <2>2. Id(c) \in Waiting(c) /\ Waiting(c) \subseteq ids
    BY <1>1, <1>2, <1>a, ClientType DEF Importing, Waiting, Id
  <2> QED  BY <2>1, <2>2
<1>6. \A x \in ids : /\ Vacant(x) /\ lineage[x] = revision[x]
                     /\ \A i \in DOMAIN published[x] : published[x][i] < revision[x]
  <2>1. Len(client[c].ids) = 1 /\ Marked(c, Id(c))
    BY <1>1, <1>2 DEF Importing
  <2>2. Waiting(c) \subseteq {Id(c)}
    <3>1. client[c].ids \in Seq(Ids) /\ DOMAIN client[c].ids = {1} /\ Id(c) = client[c].ids[1]
      BY <1>1, <2>1, ClientType DEF Id
    <3> QED  BY <3>1 DEF Waiting
  <2>3. \A x \in ids : Marked(c, x)
    BY <1>2, <1>a, <2>1, <2>2 DEF Importing
  <2> QED  BY <1>2, <1>a, <1>b, <2>3 DEF Importing, Marked
<1>7. ~CollectionInstalled /\ Appear(c, ids, "collection") /\ pins' = revision
  BY <1>1, <1>2, <1>a, <1>b DEF InstallCollection, Importing, Arriving
<1>8. /\ \A x \in ids : AppearsAt(x, "collection", revision[x])
      /\ \A x \in Ids \ ids : dir'[x] = dir[x] /\ published'[x] = published[x]
      /\ dir' = [x \in Ids |-> dir'[x]] /\ published' = [x \in Ids |-> published'[x]]
  BY <1>7, <1>b DEF Appear, AppearsAt
<1>9. \A x \in ids :
        /\ dir'[x] \in [Place -> Directory]
        /\ dir'[x]["collection"].document = revision[x]
        /\ \A p \in Place \ {"collection"} : dir'[x][p] = dir[x][p]
        /\ \A p \in Place : WellFormed(dir'[x][p])
        /\ published'[x] \in Seq(Nat)
  BY <1>1, <1>8, AppearedFiles DEF Live
<1>10. TypeOK'
  <2>1. \A x \in Ids : /\ dir'[x] \in [Place -> Directory]
                       /\ \A p \in Place : WellFormed(dir'[x][p])
                       /\ published'[x] \in Seq(Nat)
    <3> TAKE x \in Ids
    <3>1. CASE x \in ids
      BY <1>9, <3>1
    <3>2. CASE x \notin ids
      BY <1>1, <1>8, <3>2 DEF TypeOK
    <3> QED  BY <3>1, <3>2
  <2>2. dir' \in [Ids -> [Place -> Directory]] /\ published' \in [Ids -> Seq(Nat)]
    BY <1>8, <2>1
  <2> QED  BY <1>1, <1>3, <1>4, <1>7, <2>1, <2>2 DEF TypeOK, Revisions
<1>11. \A x \in ids :
         /\ LivesOnce(x)' /\ MarkIsBetween(x)'
         /\ \A i, j \in DOMAIN published'[x] : i < j => published'[x][i] < published'[x][j]
  <2> TAKE x \in ids
  <2>1. \A i, j \in DOMAIN published[x] : i < j => published[x][i] < published[x][j]
    BY <1>1 DEF FilesAreSound, RevisionsRise
  <2>2. /\ MarkIsBetween(x) /\ "collection" \in Live /\ revision[x] \in Nat /\ revision[x] # 0
        /\ AppearsAt(x, "collection", revision[x]) /\ x \in Ids
    BY <1>1, <1>5, <1>8 DEF FilesAreSound, Live
  <2>3. /\ lineage' = lineage /\ Vacant(x) /\ lineage[x] = revision[x]
        /\ \A i \in DOMAIN published[x] : published[x][i] < revision[x]
    BY <1>3, <1>6
  <2> QED  BY <1>1, <1>10, <2>1, <2>2, <2>3, AppearedRow
<1>12. CollectionInstalled'
  <2>1. PICK x \in ids : revision[x] # 0
    BY <1>5
  <2> QED  BY <1>7, <2>1 DEF CollectionInstalled, NoRevisions
<1>13. FilesAreSound'
  <2>1. \A x \in Ids : LivesOnce(x)' /\ MarkIsBetween(x)'
    <3> TAKE x \in Ids
    <3>1. CASE x \in ids
      BY <1>11, <3>1
    <3>2. CASE x \notin ids
      BY <1>1, <1>3, <1>8, <3>2, RowKept DEF FilesAreSound
    <3> QED  BY <3>1, <3>2
  <2>2. RevisionsRise'
    <3>1. ASSUME NEW x \in Ids, NEW i \in DOMAIN published'[x], NEW j \in DOMAIN published'[x], i < j
          PROVE  published'[x][i] < published'[x][j]
      <4>1. CASE x \in ids
        BY <1>11, <3>1, <4>1
      <4>2. CASE x \notin ids
        BY <1>1, <1>8, <3>1, <4>2 DEF FilesAreSound, RevisionsRise
      <4> QED  BY <4>1, <4>2
    <3> QED  BY <3>1 DEF RevisionsRise
  <2> QED  BY <1>12, <2>1, <2>2 DEF FilesAreSound, CollectionIsPinned
<1>14. MarksStep
  BY <1>1, <1>3 DEF MarksStep, TypeOK, Revisions
<1>15. HistoryStep
  <2>1. ASSUME NEW x \in Ids, NEW p \in Live
        PROVE  ReplacedIsRetained(dir[x][p], dir'[x][p])
    <3>1. CASE x \in ids
      BY <1>6, <3>1, RetainedOfAbsent DEF Vacant
    <3>2. CASE x \notin ids
      BY <1>8, <3>2, RetainedIfSame
    <3> QED  BY <3>1, <3>2
  <2> QED  BY <2>1 DEF HistoryStep
<1>16. WholeStep
  <2>1. ASSUME NEW x \in Ids, pins'[x] # 0
        PROVE  Loads(x)' /\ Current(x)'.document = pins'[x]
    <3>1. x \in ids
      BY <1>5, <1>7, <2>1
    <3>2. /\ dir'[x]["profiles"] = Absent
          /\ dir'[x]["collection"].document = revision[x] /\ revision[x] # 0
      BY <1>5, <1>6, <1>9, <3>1 DEF Vacant, Live, Place
    <3>3. Current(x)' = dir'[x]["collection"]
      BY <3>2 DEF Current, Home
    <3>4. lineage'[x] = revision[x] /\ revision[x] \in Nat
      BY <1>3, <1>6, <3>1
    <3>5. dir'[x]["trash"].document <= lineage'[x] /\ dir'[x]["trash"].document \in Nat
      BY <1>10, <1>11, <3>1 DEF MarkIsBetween, TypeOK, Directory, Place
    <3>6. Loads(x)'
      BY <3>2, <3>3, <3>4, <3>5 DEF Loads, Latest
    <3> QED  BY <1>7, <3>2, <3>3, <3>6
  <2>2. CollectionIsWhole'
    BY <2>1 DEF CollectionIsWhole, Pinned
  <2> QED  BY <2>2 DEF WholeStep
<1> QED  BY <1>4, <1>10, <1>13, <1>14, <1>15, <1>16 DEF StepIsSound

-----------------------------------------------------------------------------
(* Requests *)

LEMMA BeginInFacts ==
  ASSUME StoreInvariant, NEW c \in Clients, NEW op \in Operation, NEW pc \in Step,
         NEW ids \in Seq(Ids), ids # <<>>, NEW revision \in Revisions,
         NEW place \in Place, BeginIn(c, op, pc, ids, revision, place)
  PROVE  /\ client[c].pc = "idle" /\ requests' \in 0 .. MaxRequests
         /\ UNCHANGED <<dir, pins, lineage, archives, published>>
         /\ client' \in [Clients -> ClientRecord]
         /\ client'[c].op = op /\ client'[c].pc = pc /\ client'[c].ids = ids
         /\ client'[c].revision = revision
         /\ client'[c].place = place
         /\ Head(ids) \in Ids /\ Id(c)' = Head(ids) /\ Revision(c)' = revision[Head(ids)]
         /\ \A x \in Ids : /\ Floor(x)' = Floor(x) /\ (Vacant(x)' <=> Vacant(x))
                           /\ Current(x)' = Current(x)
         /\ (CollectionInstalled' <=> CollectionInstalled)
<1>1. TypeOK
  BY DEF StoreInvariant
<1>2. client[c].pc = "idle" /\ requests' \in 0 .. MaxRequests
  BY <1>1, RequestFacts DEF BeginIn
<1>3. UNCHANGED <<dir, pins, lineage, archives, published>>
  BY DEF BeginIn, store
<1>4. Head(ids) \in Ids
  OBVIOUS
<1>6. Idle \in ClientRecord
  <2>1. NoRevisions \in Revisions /\ <<>> \in Seq(Ids)
    BY DEF NoRevisions, Revisions
  <2> QED  BY <2>1 DEF Idle, ClientRecord, Operation, Step, Place
<1>b. PICK r : r = [Idle EXCEPT !.op = op, !.pc = pc, !.ids = ids, !.revision = revision,
                                !.place = place]
  OBVIOUS
<1>7. client' = [client EXCEPT ![c] = r]
  BY <1>b DEF BeginIn
<1>8. /\ r \in ClientRecord
      /\ r.op = op /\ r.pc = pc /\ r.ids = ids /\ r.revision = revision
      /\ r.place = place
  BY <1>6, <1>b DEF ClientRecord
<1>9. client' \in [Clients -> ClientRecord] /\ client'[c] = r
  BY <1>1, <1>7, <1>8 DEF TypeOK
<1>10. Id(c)' = Head(ids) /\ Revision(c)' = revision[Head(ids)]
  BY <1>8, <1>9 DEF Id, Revision
<1>11. \A x \in Ids : /\ Floor(x)' = Floor(x) /\ (Vacant(x)' <=> Vacant(x))
                      /\ Current(x)' = Current(x)
  BY <1>3, RowKept
<1> QED  BY <1>2, <1>3, <1>4, <1>8, <1>9, <1>10, <1>11 DEF CollectionInstalled

LEMMA BeginFacts ==
  ASSUME StoreInvariant, NEW c \in Clients, NEW op \in Operation, NEW pc \in Step,
         NEW ids \in Seq(Ids), ids # <<>>, NEW revision \in Revisions,
         Begin(c, op, pc, ids, revision)
  PROVE  /\ client[c].pc = "idle" /\ requests' \in 0 .. MaxRequests
         /\ UNCHANGED <<dir, pins, lineage, archives, published>>
         /\ client' \in [Clients -> ClientRecord]
         /\ client'[c].op = op /\ client'[c].pc = pc /\ client'[c].ids = ids
         /\ client'[c].revision = revision
         /\ client'[c].place = Home(Head(ids))
         /\ Head(ids) \in Ids /\ Id(c)' = Head(ids) /\ Revision(c)' = revision[Head(ids)]
         /\ \A x \in Ids : /\ Floor(x)' = Floor(x) /\ (Vacant(x)' <=> Vacant(x))
                           /\ Current(x)' = Current(x)
         /\ (CollectionInstalled' <=> CollectionInstalled)
<1>1. PICK place \in Place : place = Home(Head(ids))
  BY DEF Home, Place
<1>2. BeginIn(c, op, pc, ids, revision, place)
  BY <1>1 DEF Begin
<1> QED  BY <1>1, <1>2, BeginInFacts

LEMMA BegunIsSound ==
  ASSUME StoreInvariant, NEW c \in Clients,
         UNCHANGED <<dir, pins, lineage, archives, published>>,
         client' \in [Clients -> ClientRecord], requests' \in 0 .. MaxRequests,
         ClientIsSound(c)'
  PROVE  StepIsSound(c)
<1>1. \A archive \in archives' : IsArchive(archive)
  BY DEF StoreInvariant, TypeOK
<1> QED  BY <1>1, ClientStepIsSound DEF store

LEMMA OnlyFacts ==
  ASSUME NEW id \in Ids, NEW n \in Nat
  PROVE  /\ Only(id, n) \in Revisions /\ Only(id, n)[id] = n
         /\ <<id>> \in Seq(Ids) /\ <<id>> # <<>> /\ Head(<<id>>) = id
BY DEF Only, NoRevisions, Revisions

(* A request for one profile *)
LEMMA BeginOneFacts ==
  ASSUME StoreInvariant, NEW c \in Clients, NEW op \in Operation, NEW pc \in Step,
         NEW id \in Ids, NEW n \in Nat, Begin(c, op, pc, <<id>>, Only(id, n))
  PROVE  /\ client[c].pc = "idle" /\ requests' \in 0 .. MaxRequests
         /\ UNCHANGED <<dir, pins, lineage, archives, published>>
         /\ client' \in [Clients -> ClientRecord]
         /\ client'[c].op = op /\ client'[c].pc = pc /\ client'[c].ids # <<>>
         /\ client'[c].place = Home(id) /\ Id(c)' = id /\ Revision(c)' = n
         /\ Floor(id)' = Floor(id) /\ (Vacant(id)' <=> Vacant(id))
         /\ Current(id)' = Current(id)
<1>a. PICK ids \in Seq(Ids) : ids = <<id>>
  OBVIOUS
<1>b. PICK revision \in Revisions : revision = Only(id, n)
  BY OnlyFacts
<1>1. ids # <<>> /\ Head(ids) = id /\ revision[id] = n
  BY <1>a, <1>b, OnlyFacts
<1>2. Begin(c, op, pc, ids, revision)
  BY <1>a, <1>b
<1>3. /\ client[c].pc = "idle" /\ requests' \in 0 .. MaxRequests
      /\ UNCHANGED <<dir, pins, lineage, archives, published>>
      /\ client' \in [Clients -> ClientRecord]
      /\ client'[c].op = op /\ client'[c].pc = pc /\ client'[c].ids = ids
      /\ client'[c].place = Home(Head(ids))
      /\ Id(c)' = Head(ids) /\ Revision(c)' = revision[Head(ids)]
      /\ \A x \in Ids : /\ Floor(x)' = Floor(x) /\ (Vacant(x)' <=> Vacant(x))
                        /\ Current(x)' = Current(x)
  BY <1>1, <1>2, BeginFacts
<1> QED  BY <1>1, <1>3

LEMMA BeginCommitIsSound ==
  ASSUME StoreInvariant, NEW c \in Clients, NEW id \in Ids, BeginCommit(c, id)
  PROVE  StepIsSound(c)
<1>1. TypeOK /\ LivesOnce(id) /\ MarkIsBetween(id)
  BY DEF StoreInvariant, FilesAreSound
<1>2. Current(id).document # 0
  BY <1>1, LoadedFacts DEF BeginCommit
<1>3. Home(id) \in Live /\ Current(id) = dir[id][Home(id)] /\ Current(id).document \in Nat
  BY <1>1, HomeFacts, DirectoryType DEF Live, Place
<1>a. PICK n \in Nat : n = Current(id).document + 1
  BY <1>3
<1>4. Begin(c, "commit", "history", <<id>>, Only(id, n))
  BY <1>a DEF BeginCommit
<1>5. /\ client[c].pc = "idle" /\ requests' \in 0 .. MaxRequests
      /\ UNCHANGED <<dir, pins, lineage, archives, published>>
      /\ client' \in [Clients -> ClientRecord]
      /\ client'[c].op = "commit" /\ client'[c].pc = "history" /\ client'[c].ids # <<>>
      /\ client'[c].place = Home(id) /\ Id(c)' = id /\ Revision(c)' = n
  BY <1>4, BeginOneFacts DEF Operation, Step
<1>6. Committing(c)'
  BY <1>2, <1>3, <1>5, <1>a DEF Committing
<1>7. ClientIsSound(c)'
  BY <1>5, <1>6 DEF ClientIsSound
<1> QED  BY <1>5, <1>7, BegunIsSound

LEMMA BeginCreateIsSound ==
  ASSUME StoreInvariant, NEW c \in Clients, NEW id \in Ids, BeginCreate(c, id, 1)
  PROVE  StepIsSound(c)
<1>1. TypeOK /\ LivesOnce(id)
  BY DEF StoreInvariant, FilesAreSound
<1>2. Vacant(id) /\ Home(id) = "profiles" /\ Floor(id) < 1
  BY <1>1, HomeFacts, FloorFacts DEF BeginCreate
<1>3. Begin(c, "create", "document", <<id>>, Only(id, 1))
  BY DEF BeginCreate
<1>4. /\ client[c].pc = "idle" /\ requests' \in 0 .. MaxRequests
      /\ UNCHANGED <<dir, pins, lineage, archives, published>>
      /\ client' \in [Clients -> ClientRecord]
      /\ client'[c].op = "create" /\ client'[c].pc = "document" /\ client'[c].ids # <<>>
      /\ client'[c].place = Home(id) /\ Id(c)' = id /\ Revision(c)' = 1
      /\ Floor(id)' = Floor(id) /\ (Vacant(id)' <=> Vacant(id))
  BY <1>3, BeginOneFacts DEF Operation, Step
<1>5. Creating(c)'
  <2>1. Vacant(Id(c))' /\ Floor(Id(c))' < Revision(c)'
    BY <1>2, <1>4 DEF Vacant, Floor
  <2> QED  BY <1>2, <1>4, <2>1 DEF Creating
<1>6. ClientIsSound(c)'
  BY <1>4, <1>5 DEF ClientIsSound
<1> QED  BY <1>4, <1>6, BegunIsSound

LEMMA BeginTrashIsSound ==
  ASSUME StoreInvariant, NEW c \in Clients, NEW id \in Ids, BeginTrash(c, id)
  PROVE  StepIsSound(c)
<1>1. TypeOK /\ LivesOnce(id)
  BY DEF StoreInvariant, FilesAreSound
<1>2. Current(id).document \in Nat
  BY <1>1, HomeFacts, DirectoryType DEF Live, Place
<1>a. PICK n \in Nat : n = Current(id).document
  BY <1>2
<1>3. Begin(c, "trash", "readMark", <<id>>, Only(id, n))
  BY <1>a DEF BeginTrash
<1>4. /\ client[c].pc = "idle" /\ requests' \in 0 .. MaxRequests
      /\ UNCHANGED <<dir, pins, lineage, archives, published>>
      /\ client' \in [Clients -> ClientRecord]
      /\ client'[c].op = "trash" /\ client'[c].pc = "readMark" /\ client'[c].ids # <<>>
      /\ Id(c)' = id /\ Revision(c)' = n /\ Current(id)' = Current(id)
  BY <1>3, BeginOneFacts DEF Operation, Step
<1>5. Trashing(c)'
  <2>1. Current(Id(c))' = Current(id)
    BY <1>4 DEF Current, Home
  <2> QED  BY <1>4, <1>a, <2>1 DEF Trashing
<1>6. ClientIsSound(c)'
  BY <1>4, <1>5 DEF ClientIsSound
<1> QED  BY <1>4, <1>6, BegunIsSound

LEMMA BeginRestoreIsSound ==
  ASSUME StoreInvariant, NEW c \in Clients, NEW id \in Ids, BeginRestore(c, id)
  PROVE  StepIsSound(c)
<1>1. TypeOK /\ LivesOnce(id)
  BY DEF StoreInvariant, FilesAreSound
<1>a. PICK n \in Nat : n = dir[id]["trash"].document
  BY <1>1, DirectoryType DEF Place
<1>2. Vacant(id) /\ Home(id) = "profiles" /\ n # 0 /\ lineage[id] <= n
  <2>1. Vacant(id) /\ Home(id) = "profiles"
    BY <1>1, HomeFacts DEF BeginRestore
  <2>2. n # 0 /\ n >= Floor(id)
    BY <1>a DEF BeginRestore
  <2>3. lineage[id] <= Floor(id) /\ Floor(id) \in Nat /\ lineage[id] \in Nat
    BY <1>1, FloorFacts DEF TypeOK, Revisions
  <2> QED  BY <2>1, <2>2, <2>3
<1>3. Begin(c, "restore", "readMark", <<id>>, Only(id, n))
  BY <1>a DEF BeginRestore
<1>4. /\ client[c].pc = "idle" /\ requests' \in 0 .. MaxRequests
      /\ UNCHANGED <<dir, pins, lineage, archives, published>>
      /\ client' \in [Clients -> ClientRecord]
      /\ client'[c].op = "restore" /\ client'[c].pc = "readMark" /\ client'[c].ids # <<>>
      /\ client'[c].place = Home(id) /\ Id(c)' = id /\ Revision(c)' = n
      /\ (Vacant(id)' <=> Vacant(id))
  BY <1>3, BeginOneFacts DEF Operation, Step
<1>5. Restoring(c)'
  <2>1. Vacant(Id(c))'
    BY <1>2, <1>4 DEF Vacant
  <2> QED  BY <1>2, <1>4, <1>a, <2>1 DEF Restoring
<1>6. ClientIsSound(c)'
  BY <1>4, <1>5 DEF ClientIsSound
<1> QED  BY <1>4, <1>6, BegunIsSound

LEMMA BeginDeleteIsSound ==
  ASSUME StoreInvariant, NEW c \in Clients, NEW id \in Ids, BeginDelete(c, id)
  PROVE  StepIsSound(c)
<1>a. PICK ids : ids = <<id>>
  OBVIOUS
<1>b. PICK none \in Revisions : none = NoRevisions
  BY DEF NoRevisions, Revisions
<1>c. ids \in Seq(Ids) /\ ids # <<>>
  BY <1>a
<1>1. BeginIn(c, "delete", "remove", ids, none, "trash")
  BY <1>a, <1>b DEF BeginDelete
<1>d. "delete" \in Operation /\ "remove" \in Step /\ "trash" \in Place
  BY DEF Operation, Step, Place
<1>2. /\ client[c].pc = "idle" /\ requests' \in 0 .. MaxRequests
      /\ UNCHANGED <<dir, pins, lineage, archives, published>>
      /\ client' \in [Clients -> ClientRecord]
      /\ client'[c].op = "delete" /\ client'[c].pc = "remove" /\ client'[c].ids = ids
      /\ client'[c].place = "trash"
  BY <1>c, <1>d, <1>1, BeginInFacts
<1>3. ClientIsSound(c)'
  BY <1>2, <1>c DEF ClientIsSound, Deleting
<1> QED  BY <1>2, <1>3, BegunIsSound

(* The list of a finite set: each element once. *)
LEMMA ListOfSet ==
  ASSUME NEW S \in SUBSET Ids, S # {}
  PROVE  /\ SetToSeq(S) \in Seq(Ids) /\ SetToSeq(S) # <<>>
         /\ \A i, j \in DOMAIN SetToSeq(S) : SetToSeq(S)[i] = SetToSeq(S)[j] => i = j
         /\ {SetToSeq(S)[i] : i \in DOMAIN SetToSeq(S)} \subseteq S
         /\ S \subseteq {SetToSeq(S)[i] : i \in DOMAIN SetToSeq(S)}
<1> DEFINE n == Cardinality(S)
<1>1. IsFiniteSet(S)
  BY StoreAssumption, FS_Subset
<1>2. n \in Nat /\ ExistsBijection(1 .. n, S)
  BY <1>1, FS_CardinalityType
<1>3. PICK f \in Bijection(1 .. n, S) : TRUE
  BY <1>2 DEF ExistsBijection
<1>4. f \in [1 .. n -> S] /\ \A i, j \in DOMAIN f : f[i] = f[j] => i = j
  BY <1>3 DEF Bijection, Injection, IsInjective
<1>5. IsInjective(f)
  BY <1>4 DEF IsInjective
<1>6. SetToSeq(S) \in [1 .. n -> S] /\ IsInjective(SetToSeq(S))
  BY <1>4, <1>5, Zenon DEF SetToSeq, n
<1>a. PICK s : s = SetToSeq(S)
  OBVIOUS
<1> HIDE DEF n
<1>7. s \in [1 .. n -> S] /\ \A i, j \in DOMAIN s : s[i] = s[j] => i = j
  BY <1>6, <1>a DEF IsInjective
<1>8. s \in Seq(Ids) /\ DOMAIN s = 1 .. n
  BY <1>2, <1>7
<1>9. S \subseteq {s[i] : i \in DOMAIN s}
  <2>1. s \in Injection(1 .. n, S)
    BY <1>7 DEF Injection, IsInjective
  <2>2. Cardinality(1 .. n) = Cardinality(S)
    BY <1>2, FS_Interval DEF n
  <2>3. s \in Surjection(1 .. n, S)
    BY <1>1, <2>1, <2>2, FS_Injection
  <2> QED  BY <1>8, <2>3 DEF Surjection
<1>10. s # <<>>
  BY <1>9
<1>11. {s[i] : i \in DOMAIN s} \subseteq S
  BY <1>7, <1>8
<1> QED  BY <1>7, <1>8, <1>9, <1>10, <1>11, <1>a

(* The archive lists its ids once each, none of them live; their documents *)
(* are staged under the revisions it gives.                                *)
LEMMA BeginImportIsSound ==
  ASSUME StoreInvariant, NEW c \in Clients, NEW archive, IsArchive(archive),
         BeginImport(c, archive)
  PROVE  StepIsSound(c)
<1>1. TypeOK /\ \A id \in Ids : LivesOnce(id)
  BY DEF StoreInvariant, FilesAreSound
<1>a. PICK ids \in SUBSET Ids : ids = DOMAIN archive
  BY DEF IsArchive
<1>2. ids # {} /\ \A id \in ids : archive[id] \in Nat \ {0}
  BY <1>a DEF IsArchive
<1>b. PICK list : list = SetToSeq(ids)
  OBVIOUS
<1>3. /\ list \in Seq(Ids) /\ list # <<>>
      /\ \A i, j \in DOMAIN list : list[i] = list[j] => i = j
      /\ {list[i] : i \in DOMAIN list} = ids
  BY <1>2, <1>b, ListOfSet
<1>c. PICK revision : revision = Staged(archive)
  OBVIOUS
<1>4. revision \in Revisions /\ \A id \in Ids : revision[id] # 0 <=> id \in ids
  BY <1>2, <1>a, <1>c DEF Staged, Revisions
<1>d. PICK op \in {"profile", "bundle"} :
        /\ Begin(c, op, "floor", list, revision) /\ ~ContainsLive(archive)
        /\ op = "profile" => Cardinality(ids) = 1
        /\ op = "bundle" => ~CollectionInstalled
  BY <1>a, <1>b, <1>c DEF BeginImport, BeginImportProfile, BeginImportBundle
<1>5. /\ UNCHANGED <<dir, pins, lineage, archives, published>>
      /\ requests' \in 0 .. MaxRequests /\ client' \in [Clients -> ClientRecord]
      /\ client'[c].op = op /\ client'[c].pc = "floor" /\ client'[c].ids = list
      /\ client'[c].revision = revision /\ Id(c)' = Head(list)
      /\ \A x \in Ids : Vacant(x)' <=> Vacant(x)
      /\ (CollectionInstalled' <=> CollectionInstalled)
  <2>1. op \in Operation /\ "floor" \in Step
    BY DEF Operation, Step
  <2> QED  BY <1>3, <1>4, <1>d, <2>1, BeginFacts
<1>6. Arriving(c)' = ids /\ Waiting(c)' = ids
  BY <1>3, <1>4, <1>5 DEF Arriving, Waiting
<1>7. \A id \in ids : Vacant(id)'
  BY <1>1, <1>5, <1>a, <1>d, HomeFacts DEF ContainsLive
<1>8. op = "profile" => ids = {Head(list)}
  <2>1. SUFFICES ASSUME Cardinality(ids) = 1  PROVE ids = {Head(list)}
    BY <1>d
  <2>2. IsFiniteSet(ids)
    BY StoreAssumption, FS_Subset
  <2>3. PICK x : ids = {x}
    BY <2>1, <2>2, FS_Singleton
  <2>4. Head(list) \in ids
    BY <1>3
  <2> QED  BY <2>3, <2>4
<1>9. Importing(c)'
  BY <1>3, <1>5, <1>6, <1>7, <1>8, <1>d DEF Importing
<1>10. ClientIsSound(c)'
  BY <1>3, <1>5, <1>9 DEF ClientIsSound
<1> QED  BY <1>5, <1>10, BegunIsSound

LEMMA ExportIsSound ==
  ASSUME StoreInvariant, NEW c \in Clients, NEW ids \in SUBSET Ids, ids # {}, Export(c, ids),
         \A id \in ids : Current(id).document \in Nat \ {0}
  PROVE  StepIsSound(c)
<1>1. TypeOK
  BY DEF StoreInvariant
<1>a. PICK archive : archive = [id \in ids |-> Current(id).document]
  OBVIOUS
<1>2. IsArchive(archive)
  BY <1>a DEF IsArchive
<1>3. Request(c) /\ archives' = archives \cup {archive} /\ UNCHANGED <<store, client, published>>
  BY <1>a DEF Export
<1>4. ClientIsSound(c)' /\ requests' \in 0 .. MaxRequests
  BY <1>1, <1>3, RequestFacts, IdleStays
<1>5. client' \in [Clients -> ClientRecord] /\ \A a \in archives' : IsArchive(a)
  BY <1>1, <1>2, <1>3 DEF TypeOK
<1> QED  BY <1>3, <1>4, <1>5, ClientStepIsSound

LEMMA ExportProfileIsSound ==
  ASSUME StoreInvariant, NEW c \in Clients, NEW id \in Ids, ExportProfile(c, id)
  PROVE  StepIsSound(c)
<1>1. TypeOK /\ LivesOnce(id)
  BY DEF StoreInvariant, FilesAreSound
<1>2. Current(id).document \in Nat
  BY <1>1, HomeFacts, DirectoryType DEF Live, Place
<1>a. PICK ids \in SUBSET Ids : ids = {id}
  OBVIOUS
<1>3. Export(c, ids) /\ Current(id).document # 0
  BY <1>a DEF ExportProfile
<1>4. ids # {} /\ \A x \in ids : Current(x).document \in Nat \ {0}
  BY <1>2, <1>3, <1>a
<1> QED  BY <1>3, <1>4, ExportIsSound

LEMMA ExportBundleIsSound ==
  ASSUME StoreInvariant, NEW c \in Clients, ExportBundle(c)
  PROVE  StepIsSound(c)
<1>1. pins \in [Ids -> Nat]
  BY DEF StoreInvariant, TypeOK, Revisions
<1>a. PICK ids \in SUBSET Ids : ids = Pinned
  BY DEF Pinned
<1>2. ids # {}
  <2>1. pins # [id \in Ids |-> 0]
    BY DEF ExportBundle, CollectionInstalled, NoRevisions
  <2>2. PICK id \in Ids : pins[id] # 0
    BY <1>1, <2>1
  <2> QED  BY <1>a, <2>2 DEF Pinned
<1>3. Export(c, ids) /\ \A id \in ids : Current(id).document \in Nat \ {0}
  BY <1>1, <1>a DEF ExportBundle, CollectionIsWhole, Pinned
<1> QED  BY <1>2, <1>3, ExportIsSound

-----------------------------------------------------------------------------
(* Every request and every step *)

LEMMA StoreActionIsSound ==
  ASSUME StoreInvariant, NEW c \in Clients, StoreRequest(c) \/ StoreStep(c)
  PROVE  StepIsSound(c)
<1>1. CASE StoreStep(c)
  BY <1>1, SaveHistoryIsSound, SaveDocumentIsSound, RebaseIsSound, ReadMarkIsSound,
     WriteMarkIsSound, PruneIsSound, RemoveDraftIsSound, MoveToTrashIsSound, MoveBackIsSound,
     InstallProfileIsSound, InstallCollectionIsSound, RemoveFileIsSound,
     RemoveDirectoryIsSound, AbortIsSound DEF StoreStep
<1>2. CASE StoreRequest(c)
  <2>1. CASE ExportBundle(c)
    BY <2>1, ExportBundleIsSound
  <2>2. CASE \E archive \in archives : BeginImport(c, archive)
    <3>1. PICK archive \in archives : BeginImport(c, archive)
      BY <2>2
    <3>2. IsArchive(archive)
      BY DEF StoreInvariant, TypeOK
    <3> QED  BY <3>1, <3>2, BeginImportIsSound
  <2>3. ASSUME NEW id \in Ids,
               \/ BeginCommit(c, id) \/ BeginCreate(c, id, 1)
               \/ BeginTrash(c, id) \/ BeginRestore(c, id)
               \/ SaveDraft(c, id) \/ BeginDelete(c, id) \/ ExportProfile(c, id)
        PROVE  StepIsSound(c)
    BY <2>3, BeginCommitIsSound, BeginCreateIsSound, BeginTrashIsSound, BeginRestoreIsSound,
       SaveDraftIsSound, BeginDeleteIsSound, ExportProfileIsSound
  <2> QED  BY <1>2, <2>1, <2>2, <2>3 DEF StoreRequest
<1> QED  BY <1>1, <1>2

(* Only its own client moves, and a deletion whose directory it moves. *)
LEMMA OthersRest ==
  ASSUME TypeOK, NEW c \in Clients, StoreRequest(c) \/ StoreStep(c),
         NEW d \in Clients \ {c}, client[d].pc = "idle"
  PROVE  client'[d] = client[d]
<1>1. DOMAIN client = Clients
  BY DEF TypeOK
<1>2. CASE StoreRequest(c)
  BY <1>1, <1>2 DEF StoreRequest, BeginCommit, BeginCreate, BeginTrash, BeginRestore, BeginDelete,
     Begin, BeginIn, SaveDraft, ExportProfile, ExportBundle, Export, BeginImport,
     BeginImportProfile, BeginImportBundle
<1>3. AfterMark(c) => client'[d] = client[d]
  BY <1>1 DEF AfterMark, Goto, Return
<1>4. Return(c) \/ (\E pc \in Step : Goto(c, pc)) => client'[d] = client[d]
  BY <1>1 DEF Goto, Return
<1>5. CASE StoreStep(c)
  <2>1. CASE SaveHistory(c) \/ SaveDocument(c) \/ Prune(c)
    BY <1>1, <2>1 DEF SaveHistory, SaveDocument, Prune, Goto
  <2>2. CASE RemoveDraft(c) \/ RemoveFile(c) \/ RemoveDirectory(c) \/ InstallProfile(c)
             \/ InstallCollection(c) \/ Abort(c)
    BY <1>4, <2>2 DEF RemoveDraft, RemoveFile, RemoveDirectory, InstallProfile,
       InstallCollection, Abort
  <2>6. CASE MoveToTrash(c) \/ MoveBack(c)
    BY <2>6 DEF MoveToTrash, MoveBack, Move, At
  <2>3. CASE Rebase(c)
    BY <1>1, <2>3 DEF Rebase
  <2>4. CASE ReadMark(c)
    <3>1. Return(c) \/ AfterMark(c)
            \/ client' = [client EXCEPT ![c].pc = "writeMark", ![c].marks = lineage]
      BY <2>4 DEF ReadMark
    <3> QED  BY <1>1, <1>3, <1>4, <3>1
  <2>5. CASE WriteMark(c)
    BY <1>3, <2>5 DEF WriteMark
  <2> QED  BY <1>5, <2>1, <2>2, <2>3, <2>4, <2>5, <2>6 DEF StoreStep
<1> QED  BY <1>2, <1>5

LEMMA StoreInvariantKept ==
  ASSUME StoreInvariant, NEW c \in Clients, StoreRequest(c) \/ StoreStep(c),
         \A d \in Clients \ {c} : client[d].pc = "idle"
  PROVE  StoreInvariant' /\ MarksStep /\ HistoryStep /\ WholeStep
<1>1. /\ TypeOK' /\ FilesAreSound' /\ ClientIsSound(c)'
      /\ MarksStep /\ HistoryStep /\ WholeStep
  BY StoreActionIsSound DEF StepIsSound
<1>2. ASSUME NEW d \in Clients  PROVE ClientIsSound(d)'
  <2>1. CASE d = c
    BY <1>1, <2>1
  <2>2. CASE d # c
    <3>1. client'[d].pc = "idle"
      BY <2>2, OthersRest DEF StoreInvariant
    <3> QED  BY <3>1 DEF ClientIsSound
  <2> QED  BY <2>1, <2>2
<1> QED  BY <1>1, <1>2 DEF StoreInvariant

LEMMA StoreIdle ==
  ASSUME StoreInvariant, UNCHANGED vars
  PROVE  StoreInvariant' /\ MarksStep /\ HistoryStep /\ WholeStep
<1>1. /\ TypeOK /\ UNCHANGED <<store, published>>
      /\ dir' = dir /\ pins' = pins /\ lineage' = lineage /\ archives' = archives
      /\ client' = client /\ requests' = requests /\ published' = published
  BY DEF vars, store, StoreInvariant
<1>2. TypeOK'
  BY <1>1 DEF TypeOK
<1>3. FilesAreSound' /\ MarksStep /\ HistoryStep /\ WholeStep
  BY <1>1, FilesKept DEF StoreInvariant
<1>4. ASSUME NEW c \in Clients  PROVE ClientIsSound(c)'
  <2>1. ClientIsSound(c)
    BY DEF StoreInvariant
  <2>2. Id(c)' = Id(c) /\ Revision(c)' = Revision(c)
    BY <1>1 DEF Id, Revision
  <2>3. \A id \in Ids : /\ Floor(id)' = Floor(id) /\ (Vacant(id)' <=> Vacant(id))
                        /\ Current(id)' = Current(id)
    BY <1>1, RowKept
  <2>4. CASE client[c].pc = "idle"
    BY <1>1, <2>4 DEF ClientIsSound
  <2>5. CASE client[c].pc # "idle"
    <3>1. Id(c) \in Ids
      BY <1>1, <2>1, <2>5, ClientType DEF ClientIsSound
    <3>2. /\ Committing(c) => Committing(c)'
          /\ Creating(c) => Creating(c)'
          /\ Trashing(c) => Trashing(c)'
          /\ Restoring(c) => Restoring(c)'
          /\ Deleting(c) => Deleting(c)'
      BY <1>1, <2>2, <2>3, <3>1
         DEF Committing, Creating, Trashing, Restoring, Deleting, Vacant, Current, Home, Floor
    <3>3. Importing(c) => Importing(c)'
      <4>1. Arriving(c)' = Arriving(c) /\ Waiting(c)' = Waiting(c)
        BY <1>1 DEF Arriving, Waiting
      <4>2. \A id \in Ids : Marked(c, id)' <=> Marked(c, id)
        BY <1>1 DEF Marked
      <4>3. Floor(Id(c))' = Floor(Id(c))
        BY <1>1, <2>2 DEF Floor
      <4>4. Arriving(c) \subseteq Ids /\ (CollectionInstalled' <=> CollectionInstalled)
        BY <1>1 DEF Arriving, CollectionInstalled
      <4>5. Marked(c, Id(c))' <=> Marked(c, Id(c))
        BY <1>1, <2>2 DEF Marked
      <4>6. \A id \in Ids : Vacant(id) => Vacant(id)'
        BY <1>1 DEF Vacant
      <4> QED  BY <1>1, <2>2, <4>1, <4>2, <4>3, <4>4, <4>5, <4>6 DEF Importing
    <3>4. client'[c].pc = "writeMark" =>
            client'[c].marks = lineage' /\ (lineage[Id(c)] < Revision(c))'
      BY <1>1, <2>1, <2>2, <2>5 DEF ClientIsSound
    <3> QED  BY <1>1, <2>1, <2>5, <3>2, <3>3, <3>4 DEF ClientIsSound
  <2> QED  BY <2>4, <2>5
<1> QED  BY <1>2, <1>3, <1>4 DEF StoreInvariant

-----------------------------------------------------------------------------
(* The catalog *)

LEMMA CatalogTypes ==
  ASSUME CatalogTypeOK, NEW c \in Clients
  PROVE  /\ newest \in Nat /\ cached \in 0 .. newest /\ newest <= Len(releases)
         /\ releases \in Seq(SUBSET Packages) /\ Len(releases) \in Nat
         /\ browser[c] \in BrowserRecord /\ DOMAIN browser = Clients
BY DEF CatalogTypeOK

(* A step of the catalog that leaves the store alone is sound when what    *)
(* each client's browser relies on is.                                     *)
CatalogStepIsSound ==
  /\ CatalogSound'
  /\ MarksStep /\ HistoryStep /\ WholeStep
  /\ \A c \in Clients :
       Browsing(c, "download") /\ client'[c].pc # "idle" =>
         /\ browser[c].package \in Offered(newest)
         /\ client'[c].ids = SetToSeq(DOMAIN browser[c].package)

LEMMA BrowserStepIsSound ==
  ASSUME CatalogSound, UNCHANGED vars,
         releases' \in Seq(SUBSET Packages), cached' = newest', newest' \in 0 .. Len(releases'),
         browser' \in [Clients -> BrowserRecord],
         \A c \in Clients : BrowserIsSound(c)'
  PROVE  CatalogStepIsSound
<1>1. StoreInvariant' /\ MarksStep /\ HistoryStep /\ WholeStep
  BY StoreIdle DEF CatalogSound
<1>2. CatalogTypeOK'
  BY <1>1 DEF CatalogTypeOK, StoreInvariant
<1>3. \A c \in Clients : Browsing(c, "download") => client'[c].pc = "idle"
  BY DEF CatalogSound, BrowserIsSound, Browsing, vars
<1> QED  BY <1>1, <1>2, <1>3 DEF CatalogStepIsSound, CatalogSound

LEMMA OfferedBefore ==
  ASSUME CatalogTypeOK, NEW offers \in SUBSET Packages, releases' = Append(releases, offers),
         newest' = newest
  PROVE  /\ releases' \in Seq(SUBSET Packages) /\ Len(releases') = Len(releases) + 1
         /\ Offered(newest)' = Offered(newest)
<1>1. newest \in 0 .. Len(releases) /\ releases \in Seq(SUBSET Packages)
  BY DEF CatalogTypeOK
<1>2. releases' \in Seq(SUBSET Packages) /\ Len(releases') = Len(releases) + 1
  BY <1>1
<1>3. newest # 0 => releases'[newest] = releases[newest]
  BY <1>1
<1> QED  BY <1>2, <1>3 DEF Offered

LEMMA PublishIsSound ==
  ASSUME CatalogSound, NEW offers \in SUBSET Packages, Publish(offers)
  PROVE  CatalogStepIsSound
<1>1. /\ UNCHANGED vars /\ cached' = cached /\ newest' = newest /\ browser' = browser
      /\ releases' = Append(releases, offers) /\ CatalogTypeOK
  BY DEF Publish, CatalogSound
<1>2. client' = client
  BY <1>1 DEF vars
<1>3. /\ releases' \in Seq(SUBSET Packages) /\ Len(releases') = Len(releases) + 1
      /\ Offered(newest)' = Offered(newest)
  BY <1>1, OfferedBefore
<1>4. ASSUME NEW c \in Clients  PROVE BrowserIsSound(c)' /\ newest' \in 0 .. Len(releases')
  <2>1. BrowserIsSound(c) /\ newest \in Nat /\ newest <= Len(releases) /\ Len(releases) \in Nat
    BY <1>1, CatalogTypes DEF CatalogSound
  <2>2. newest' \in 0 .. Len(releases')
    BY <1>1, <1>3, <2>1
  <2>3. browser'[c].fetched \in newest .. Len(releases) =>
          browser'[c].fetched \in newest' .. Len(releases')
    BY <1>1, <1>3, <2>1
  <2> QED  BY <1>1, <1>2, <1>3, <2>1, <2>2, <2>3 DEF BrowserIsSound, Browsing
<1>5. browser' \in [Clients -> BrowserRecord] /\ newest' \in 0 .. Len(releases')
  <2>1. newest \in 0 .. Len(releases) /\ Len(releases) \in Nat
    BY <1>1 DEF CatalogTypeOK
  <2> QED  BY <1>1, <1>3, <2>1 DEF CatalogTypeOK
<1>6. cached' = newest'
  BY <1>1 DEF CatalogSound
<1> QED  BY <1>1, <1>3, <1>4, <1>5, <1>6, BrowserStepIsSound

(* The other browsers are idle, and stay so. *)
LEMMA OtherBrowsersRest ==
  ASSUME NEW c \in Clients, BrowserIsSound(c)',
         \A d \in Clients \ {c} : ~Busy(d) /\ browser'[d] = browser[d]
  PROVE  \A d \in Clients : BrowserIsSound(d)'
<1>1. ASSUME NEW d \in Clients \ {c}  PROVE BrowserIsSound(d)'
  <2>1. browser'[d].pc = "idle"
    BY DEF Busy, Browsing
  <2> QED  BY <2>1 DEF BrowserIsSound, Browsing
<1> QED  BY <1>1

(* A step of the browser of one client, which leaves the store and the     *)
(* releases alone.                                                         *)
LEMMA OwnBrowserStep ==
  ASSUME CatalogSound, NEW c \in Clients, \A d \in Clients \ {c} : ~Busy(d),
         UNCHANGED vars, releases' = releases, cached' = newest', newest' \in 0 .. Len(releases),
         NEW record \in BrowserRecord, browser' = [browser EXCEPT ![c] = record],
         record.pc # "idle" => client[c].pc = "idle",
         record.pc = "cache" => record.fetched \in newest' .. Len(releases),
         record.pc = "download" => record.package \in Offered(newest')
  PROVE  CatalogStepIsSound
<1>1. browser \in [Clients -> BrowserRecord] /\ releases \in Seq(SUBSET Packages)
  BY DEF CatalogSound, CatalogTypeOK
<1>2. /\ browser' \in [Clients -> BrowserRecord] /\ browser'[c] = record
      /\ \A d \in Clients \ {c} : browser'[d] = browser[d]
  BY <1>1
<1>3. client' = client /\ Offered(newest)' = Offered(newest')
  BY DEF vars, Offered
<1>4. BrowserIsSound(c)'
  BY <1>2, <1>3 DEF BrowserIsSound, Browsing
<1>5. \A d \in Clients : BrowserIsSound(d)'
  BY <1>2, <1>4, OtherBrowsersRest
<1> QED  BY <1>1, <1>2, <1>5, BrowserStepIsSound

LEMMA BrowserStepsAreSound ==
  ASSUME CatalogSound, NEW c \in Clients, \A d \in Clients \ {c} : ~Busy(d),
         \/ FetchIndex(c) \/ CacheIndex(c)
         \/ \E package \in Packages : Review(c, package)
         \/ RequestInstall(c) \/ GiveUp(c)
  PROVE  CatalogStepIsSound
<1>1. /\ newest \in 0 .. Len(releases) /\ Len(releases) \in Nat /\ cached = newest
      /\ browser[c] \in BrowserRecord /\ BrowserIsSound(c)
  BY CatalogTypes DEF CatalogSound
<1>a. PICK b \in [pc : {"idle", "cache", "download"}, fetched : Nat, revision : Nat,
                  package : Packages \cup {NoRevisions}] : b = browser[c]
  BY <1>1 DEF BrowserRecord
<1>2. CASE FetchIndex(c)
  <2>a. PICK r : r = [b EXCEPT !.pc = "cache", !.fetched = Len(releases)]
    OBVIOUS
  <2>1. r \in BrowserRecord /\ r.pc = "cache" /\ r.fetched = Len(releases)
    BY <1>1, <2>a DEF BrowserRecord
  <2>2. browser' = [browser EXCEPT ![c] = r]
    BY <1>2, <1>a, <2>a DEF FetchIndex
  <2>3. /\ UNCHANGED vars /\ releases' = releases /\ cached' = newest' /\ newest' = newest
        /\ client[c].pc = "idle"
    BY <1>1, <1>2 DEF FetchIndex
  <2>4. r.fetched \in newest' .. Len(releases)
    BY <1>1, <2>1, <2>3
  <2> QED  BY <1>1, <2>1, <2>2, <2>3, <2>4, OwnBrowserStep
<1>3. CASE CacheIndex(c)
  <2>a. PICK r : r = [b EXCEPT !.pc = "idle"]
    OBVIOUS
  <2>1. r \in BrowserRecord /\ r.pc = "idle"
    BY <2>a DEF BrowserRecord
  <2>2. browser' = [browser EXCEPT ![c] = r]
    BY <1>3, <1>a, <2>a DEF CacheIndex
  <2>3. browser[c].fetched \in newest .. Len(releases)
    BY <1>1, <1>3 DEF CacheIndex, BrowserIsSound
  <2>4. UNCHANGED vars /\ releases' = releases /\ cached' = newest' /\ newest' \in 0 .. Len(releases)
    BY <1>1, <1>3, <2>3 DEF CacheIndex, Latest
  <2> QED  BY <2>1, <2>2, <2>4, OwnBrowserStep
<1>4. CASE \E package \in Packages : Review(c, package)
  <2>1. PICK package \in Packages : Review(c, package)
    BY <1>4
  <2>a. PICK r : r = [b EXCEPT !.revision = cached, !.package = package]
    OBVIOUS
  <2>2. r \in BrowserRecord /\ r.pc = "idle"
    <3>1. cached \in Nat /\ b.pc = "idle"
      BY <1>1, <1>a, <2>1 DEF Review, Browsing
    <3> QED  BY <2>a, <3>1 DEF BrowserRecord
  <2>3. browser' = [browser EXCEPT ![c] = r]
    BY <1>a, <2>1, <2>a DEF Review
  <2>4. UNCHANGED vars /\ releases' = releases /\ cached' = newest' /\ newest' = newest
    BY <1>1, <2>1 DEF Review
  <2> QED  BY <1>1, <2>2, <2>3, <2>4, OwnBrowserStep
<1>5. CASE RequestInstall(c)
  <2>a. PICK r : r = [b EXCEPT !.pc = "download"]
    OBVIOUS
  <2>1. r \in BrowserRecord /\ r.pc = "download" /\ r.package = browser[c].package
    BY <1>a, <2>a DEF BrowserRecord
  <2>2. browser' = [browser EXCEPT ![c] = r]
    BY <1>5, <1>a, <2>a DEF RequestInstall
  <2>3. /\ UNCHANGED vars /\ releases' = releases /\ cached' = newest' /\ newest' = newest
        /\ client[c].pc = "idle"
    BY <1>1, <1>5 DEF RequestInstall
  <2>4. r.package \in Offered(newest')
    BY <1>1, <1>5, <2>1, <2>3 DEF RequestInstall
  <2> QED  BY <1>1, <2>1, <2>2, <2>3, <2>4, OwnBrowserStep
<1>6. CASE GiveUp(c)
  <2>a. PICK r : r = [b EXCEPT !.pc = "idle"]
    OBVIOUS
  <2>1. r \in BrowserRecord /\ r.pc = "idle"
    BY <2>a DEF BrowserRecord
  <2>2. browser' = [browser EXCEPT ![c] = r]
    BY <1>6, <1>a, <2>a DEF GiveUp
  <2>3. UNCHANGED vars /\ releases' = releases /\ cached' = newest' /\ newest' = newest
    BY <1>1, <1>6 DEF GiveUp
  <2> QED  BY <1>1, <2>1, <2>2, <2>3, OwnBrowserStep
<1> QED  BY <1>2, <1>3, <1>4, <1>5, <1>6

LEMMA StoreStepIsSound ==
  ASSUME CatalogSound, NEW c \in Clients, \A d \in Clients \ {c} : ~Busy(d),
         Browsing(c, "idle"), StoreRequest(c) \/ StoreStep(c),
         UNCHANGED <<releases, cached, newest, browser>>
  PROVE  CatalogStepIsSound
<1>1. /\ StoreInvariant' /\ MarksStep /\ HistoryStep /\ WholeStep
  BY StoreInvariantKept DEF CatalogSound, Busy
<1>2. CatalogTypeOK'
  BY <1>1 DEF CatalogTypeOK, CatalogSound, StoreInvariant
<1>3. \A d \in Clients : Browsing(d, "idle") /\ browser'[d].pc = "idle"
  BY DEF Busy, Browsing
<1>4. cached' = newest'
  BY DEF CatalogSound
<1>5. \A d \in Clients : BrowserIsSound(d)'
  BY <1>3 DEF BrowserIsSound, Browsing
<1> QED  BY <1>1, <1>2, <1>3, <1>4, <1>5 DEF CatalogStepIsSound, CatalogSound, Browsing

LEMMA InstallIsSound ==
  ASSUME CatalogSound, NEW c \in Clients, \A d \in Clients \ {c} : ~Busy(d), Install(c)
  PROVE  CatalogStepIsSound
<1>1. /\ CatalogTypeOK /\ StoreInvariant /\ BrowserIsSound(c) /\ Browsing(c, "download")
      /\ BeginImport(c, browser[c].package) /\ UNCHANGED <<releases, cached, newest>>
      /\ cached = newest
  BY DEF CatalogSound, Install
<1>a. PICK package : package = browser[c].package
  OBVIOUS
<1>2. package \in Offered(newest)
  BY <1>1, <1>a DEF BrowserIsSound
<1>3. IsArchive(package)
  <2>1. newest \in 0 .. Len(releases) /\ releases \in Seq(SUBSET Packages) /\ newest # 0
    BY <1>1, <1>2 DEF CatalogTypeOK, Offered
  <2>2. releases[newest] \in SUBSET Packages
    BY <2>1
  <2> QED  BY <1>2, <2>1, <2>2, PackagesAssumption DEF Offered
<1>4. StepIsSound(c)
  BY <1>1, <1>3, <1>a, BeginImportIsSound
<1>5. /\ \A d \in Clients \ {c} : client'[d] = client[d]
      /\ client'[c].ids = SetToSeq(DOMAIN package)
  <2>1. DOMAIN client = Clients /\ client[c] \in ClientRecord
    BY <1>1 DEF CatalogTypeOK, TypeOK
  <2>a. PICK op \in {"profile", "bundle"} :
          Begin(c, op, "floor", SetToSeq(DOMAIN package), Staged(package))
    BY <1>1, <1>a DEF BeginImport, BeginImportProfile, BeginImportBundle
  <2>b. PICK ids : ids = SetToSeq(DOMAIN package)
    OBVIOUS
  <2>c. PICK revision, place :
          client' = [client EXCEPT ![c] =
            [Idle EXCEPT !.op = op, !.pc = "floor", !.ids = ids, !.revision = revision,
                         !.place = place]]
    BY <2>a, <2>b DEF Begin, BeginIn
  <2> QED  BY <2>1, <2>b, <2>c DEF Idle
<1>6. \A d \in Clients \ {c} : client[d].pc = "idle" /\ Browsing(d, "idle")
  BY DEF Busy
<1>7. StoreInvariant' /\ MarksStep /\ HistoryStep /\ WholeStep
  <2>1. \A d \in Clients \ {c} : ClientIsSound(d)'
    BY <1>5, <1>6 DEF ClientIsSound
  <2> QED  BY <1>4, <2>1 DEF StepIsSound, StoreInvariant
<1>8. browser' \in [Clients -> BrowserRecord] /\ \A d \in Clients : browser'[d].pc = "idle"
  <2>a. PICK b \in [pc : {"idle", "cache", "download"}, fetched : Nat, revision : Nat,
                    package : Packages \cup {NoRevisions}] : b = browser[c]
    BY <1>1, CatalogTypes DEF BrowserRecord
  <2>b. PICK r : r = [b EXCEPT !.pc = "idle"]
    OBVIOUS
  <2>1. r \in BrowserRecord /\ r.pc = "idle"
    BY <2>b DEF BrowserRecord
  <2>2. browser' = [browser EXCEPT ![c] = r] /\ browser \in [Clients -> BrowserRecord]
    BY <1>1, <2>a, <2>b DEF Install, CatalogTypeOK
  <2> QED  BY <1>6, <2>1, <2>2 DEF Browsing
<1>9. CatalogTypeOK'
  BY <1>1, <1>7, <1>8 DEF CatalogTypeOK, StoreInvariant
<1>10. \A d \in Clients : BrowserIsSound(d)'
  BY <1>1, <1>8 DEF BrowserIsSound, Browsing
<1>11. \A d \in Clients : Browsing(d, "download") /\ client'[d].pc # "idle" => d = c
  BY <1>6 DEF Browsing
<1> QED  BY <1>1, <1>2, <1>5, <1>7, <1>9, <1>10, <1>11, <1>a DEF CatalogStepIsSound, CatalogSound

LEMMA SerialStepIsSound ==
  ASSUME CatalogSound, [SerialNext]_catalogVars
  PROVE  CatalogStepIsSound
<1>1. CASE UNCHANGED catalogVars
  <2>1. /\ UNCHANGED vars /\ releases' = releases /\ cached' = cached /\ newest' = newest
        /\ browser' = browser /\ client' = client
    BY <1>1 DEF catalogVars, vars
  <2>2. CatalogTypeOK /\ cached = newest /\ \A c \in Clients : BrowserIsSound(c)
    BY DEF CatalogSound
  <2>3. \A c \in Clients : BrowserIsSound(c)'
    BY <2>1, <2>2 DEF BrowserIsSound, Browsing, Offered
  <2>4. StoreInvariant' /\ MarksStep /\ HistoryStep /\ WholeStep
    BY <2>1, StoreIdle DEF CatalogSound
  <2>5. CatalogTypeOK'
    BY <2>1, <2>2, <2>4 DEF CatalogTypeOK, StoreInvariant
  <2>6. \A c \in Clients : Browsing(c, "download") => client'[c].pc = "idle"
    BY <2>1, <2>2 DEF BrowserIsSound, Browsing
  <2> QED  BY <2>1, <2>2, <2>3, <2>4, <2>5, <2>6 DEF CatalogStepIsSound, CatalogSound
<1>2. CASE \E offers \in SUBSET Packages : Publish(offers)
  BY <1>2, PublishIsSound
<1>3. CASE \E c \in Clients : (\A d \in Clients \ {c} : ~Busy(d)) /\ CatalogStep(c)
  <2>1. PICK c \in Clients : (\A d \in Clients \ {c} : ~Busy(d)) /\ CatalogStep(c)
    BY <1>3
  <2> QED  BY <2>1, BrowserStepsAreSound, StoreStepIsSound, InstallIsSound DEF CatalogStep
<1> QED  BY <1>1, <1>2, <1>3 DEF SerialNext

LEMMA CatalogStartsSound ==
  CatalogInit => CatalogSound
<1> SUFFICES ASSUME CatalogInit  PROVE CatalogSound
  OBVIOUS
<1>1. /\ dir = [id \in Ids |-> [place \in Place |-> Absent]]
      /\ pins = NoRevisions /\ lineage = NoRevisions /\ archives = Incoming
      /\ client = [c \in Clients |-> Idle] /\ requests = 0
      /\ published = [id \in Ids |-> <<>>]
      /\ releases = <<>> /\ cached = 0 /\ newest = 0
      /\ browser = [c \in Clients |->
           [pc |-> "idle", fetched |-> 0, revision |-> 0, package |-> NoRevisions]]
  BY DEF CatalogInit, Init
<1>2. NoRevisions \in Revisions /\ \A id \in Ids : lineage[id] = 0
  BY <1>1 DEF NoRevisions, Revisions
<1>3. \A id \in Ids : /\ published[id] = <<>> /\ published[id] \in Seq(Nat)
                      /\ \A place \in Place : dir[id][place] = Absent
  BY <1>1
<1>4. TypeOK
  <2>1. Idle \in ClientRecord
    <3>1. <<>> \in Seq(Ids)
      OBVIOUS
    <3> QED  BY <1>2, <3>1 DEF Idle, ClientRecord, Operation, Step, Place
  <2>2. client \in [Clients -> ClientRecord]
    BY <1>1, <2>1
  <2>3. dir \in [Ids -> [Place -> Directory]]
    BY <1>1, AbsentIsEmpty
  <2>4. \A id \in Ids, place \in Place : WellFormed(dir[id][place])
    BY <1>3, AbsentIsEmpty DEF WellFormed
  <2>5. published \in [Ids -> Seq(Nat)]
    BY <1>1, <1>3
  <2>6. requests \in 0 .. MaxRequests
    BY <1>1, StoreAssumption
  <2>7. \A archive \in archives : IsArchive(archive)
    BY <1>1, IncomingAssumption
  <2> QED  BY <1>1, <1>2, <2>2, <2>3, <2>4, <2>5, <2>6, <2>7 DEF TypeOK
<1>5. FilesAreSound
  <2>1. ASSUME NEW id \in Ids  PROVE LivesOnce(id) /\ MarkIsBetween(id)
    <3>1. LivesOnce(id)
      BY <1>3, AbsentIsEmpty DEF LivesOnce, Place
    <3>2. MarkIsBetween(id)
      BY <1>2, <1>3, AbsentIsEmpty DEF MarkIsBetween, Live, Place
    <3> QED  BY <3>1, <3>2
  <2>2. CollectionIsPinned
    BY <1>3 DEF CollectionIsPinned, Place
  <2>3. RevisionsRise
    BY <1>3 DEF RevisionsRise
  <2> QED  BY <2>1, <2>2, <2>3 DEF FilesAreSound
<1>6. \A c \in Clients : ClientIsSound(c) /\ BrowserIsSound(c)
  BY <1>1 DEF Idle, ClientIsSound, BrowserIsSound, Browsing
<1>7. CatalogTypeOK
  <2>1. releases \in Seq(SUBSET Packages) /\ Len(releases) = 0
    BY <1>1
  <2>2. browser \in [Clients -> BrowserRecord]
    BY <1>1 DEF BrowserRecord
  <2> QED  BY <1>1, <1>4, <2>1, <2>2 DEF CatalogTypeOK
<1> QED  BY <1>1, <1>4, <1>5, <1>6, <1>7 DEF CatalogSound, StoreInvariant

LEMMA SoundCatalogLoads ==
  ASSUME CatalogSound
  PROVE  CatalogInvariant /\ RevisionsRise
<1>1. CatalogTypeOK /\ TypeOK /\ RevisionsRise /\ \A id \in Ids : LivesOnce(id) /\ MarkIsBetween(id)
  BY DEF CatalogSound, StoreInvariant, FilesAreSound
<1>2. ASSUME NEW id \in Ids
      PROVE  /\ Current(id).document # 0 => Loads(id)
             /\ dir[id]["profiles"].document = 0 \/ dir[id]["collection"].document = 0
  <2>1. Current(id).document # 0 => Loads(id)
    BY <1>1, LoadedFacts
  <2>2. dir[id]["profiles"].document = 0 \/ dir[id]["collection"].document = 0
    BY <1>1, AbsentIsEmpty DEF LivesOnce
  <2> QED  BY <2>1, <2>2
<1> QED  BY <1>1, <1>2 DEF CatalogInvariant, LiveProfilesLoad

-----------------------------------------------------------------------------
(* Theorems *)

(* What the files say and what the request under way relies on hold in     *)
(* every state (store.rs, collection.rs, the catalog's install): whatever  *)
(* step of an operation fails or is the last before a crash.               *)
THEOREM SerialCatalogIsSound ==
  SerialSpec => []CatalogSound
<1>1. CatalogSound /\ [SerialNext]_catalogVars => CatalogSound'
  BY SerialStepIsSound DEF CatalogStepIsSound
<1> QED  BY <1>1, CatalogStartsSound, PTL DEF SerialSpec

(* Every live profile passes the checks of its own load after any request, *)
(* completed, refused, failed or cut short (ensure_tracked_revision), and  *)
(* no id is live in two places.                                            *)
THEOREM LiveProfilesAlwaysLoad ==
  SerialSpec => []CatalogInvariant
<1>1. CatalogSound => CatalogInvariant
  BY SoundCatalogLoads
<1> QED  BY <1>1, SerialCatalogIsSound, PTL

(* The documents of an id that become current have rising revisions, with  *)
(* trash, deletion, restore, rebased imports and what is left half done in *)
(* between (import_revision_floor, record_revision).                       *)
THEOREM RevisionsAlwaysRise ==
  SerialSpec => []RevisionsRise
<1>1. CatalogSound => RevisionsRise
  BY SoundCatalogLoads
<1> QED  BY <1>1, SerialCatalogIsSound, PTL

(* No step lowers a high-water mark or drops a replaced document from the  *)
(* retained revisions before RevisionLimit newer ones exist (record_       *)
(* revision, prune_history).                                               *)
THEOREM TheStoreForgetsNothing ==
  SerialSpec => NothingIsForgotten
<1>1. CatalogSound /\ [SerialNext]_catalogVars =>
        [\A id \in Ids : lineage'[id] >= lineage[id]]_vars
  BY SerialStepIsSound DEF CatalogStepIsSound, MarksStep
<1>2. CatalogSound /\ [SerialNext]_catalogVars =>
        [\A id \in Ids : \A place \in {"profiles", "collection"} :
           ReplacedIsRetained(dir[id][place], dir'[id][place])]_vars
  BY SerialStepIsSound DEF CatalogStepIsSound, HistoryStep, Live
<1>3. SerialSpec => MarksRise
  BY <1>1, SerialCatalogIsSound, PTL DEF SerialSpec, MarksRise
<1>4. SerialSpec => HistoryIsKept
  BY <1>2, SerialCatalogIsSound, PTL DEF SerialSpec, HistoryIsKept
<1> QED  BY <1>3, <1>4 DEF NothingIsForgotten

(* What a catalog installation hands to the importer was reviewed and is   *)
(* offered by the newest index ever cached (install_catalog_profile), and  *)
(* a collection that appears is whole (import_bundle).                     *)
THEOREM InstallationsAreSound ==
  SerialSpec => InstallsAreSound
<1>1. CatalogSound /\ [SerialNext]_catalogVars =>
        [\A c \in Clients :
           Browsing(c, "download") /\ client'[c].pc # "idle" =>
             /\ browser[c].package \in Offered(newest)
             /\ client'[c].ids = SetToSeq(DOMAIN browser[c].package)]_catalogVars
  BY SerialStepIsSound DEF CatalogStepIsSound
<1>2. CatalogSound /\ [SerialNext]_catalogVars =>
        [~CollectionInstalled /\ CollectionInstalled' => CollectionIsWhole']_vars
  BY SerialStepIsSound DEF CatalogStepIsSound, WholeStep
<1>3. SerialSpec => WithdrawnStaysOut
  BY <1>1, SerialCatalogIsSound, PTL DEF SerialSpec, WithdrawnStaysOut
<1>4. SerialSpec => CollectionsArriveWhole
  BY <1>2, SerialCatalogIsSound, PTL DEF SerialSpec, CollectionsArriveWhole
<1> QED  BY <1>3, <1>4 DEF InstallsAreSound

(* With one connection, requests never overlap: these theorems are then    *)
(* about every behaviour of CatalogSpec, the specification the runs check. *)
THEOREM OneConnectionIsSerial ==
  ASSUME \A c, d \in Clients : c = d
  PROVE  CatalogSpec => SerialSpec
<1>1. [CatalogNext]_catalogVars => [SerialNext]_catalogVars
  BY DEF CatalogNext, SerialNext
<1> QED  BY <1>1, PTL DEF CatalogSpec, SerialSpec
=============================================================================
