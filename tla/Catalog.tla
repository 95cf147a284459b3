------------------------------ MODULE Catalog ------------------------------
(***************************************************************************)
(* The public profile catalog in front of the profile store: maintainers   *)
(* publish append-only index revisions, a refresh fetches the newest one   *)
(* and then writes the one cache file, and an installation of a reviewed   *)
(* package downloads it and hands it to the importer of ProfileStore.      *)
(*                                                                         *)
(* A package is immutable and named by what it contains, so it is the      *)
(* archive itself.  An index is the set of packages it offers: one that is *)
(* withdrawn, or that does not fit this application, is not offered.  A    *)
(* download whose origin, size or digest is wrong is one that fails.       *)
(***************************************************************************)
EXTENDS ProfileStore

CONSTANTS
  Packages,     \* archives the maintainers may offer
  MaxReleases   \* bound: index revisions published

ASSUME PackagesAssumption == \A package \in Packages : IsArchive(package)

VARIABLES
  releases,   \* the index revisions published, in order
  cached,     \* revision of the cached index, 0 for none
  newest,     \* newest index revision that has been cached (history)
  browser     \* client -> what it reviewed, and its catalog request

catalogVars == <<vars, releases, cached, newest, browser>>

BrowserRecord ==
  [pc : {"idle", "cache", "download"}, fetched : Nat, revision : Nat,
   package : Packages \cup {NoRevisions}]

CatalogTypeOK ==
  /\ TypeOK
  /\ releases \in Seq(SUBSET Packages)
  /\ cached \in 0 .. newest
  /\ newest \in 0 .. Len(releases)
  /\ browser \in [Clients -> BrowserRecord]

CatalogInit ==
  /\ Init
  /\ releases = <<>>
  /\ cached = 0
  /\ newest = 0
  /\ browser = [c \in Clients |->
       [pc |-> "idle", fetched |-> 0, revision |-> 0, package |-> NoRevisions]]

Offered(revision) == IF revision = 0 THEN {} ELSE releases[revision]
Browsing(c, pc) == browser[c].pc = pc

(* A new index is uploaded after its packages; no earlier one changes, and *)
(* it differs from the last.                                               *)
Publish(offers) ==
  /\ Len(releases) < MaxReleases
  /\ offers # Offered(Len(releases))
  /\ releases' = Append(releases, offers)
  /\ UNCHANGED <<vars, cached, newest, browser>>

(* refresh: the newest index of the release is fetched and validated, *)
FetchIndex(c) ==
  /\ Browsing(c, "idle")
  /\ client[c].pc = "idle"
  /\ Len(releases) > 0
  /\ browser' = [browser EXCEPT ![c].pc = "cache", ![c].fetched = Len(releases)]
  /\ UNCHANGED <<vars, releases, cached, newest>>

(* and written over the cached one, whatever that is. *)
CacheIndex(c) ==
  /\ Browsing(c, "cache")
  /\ cached' = browser[c].fetched
  /\ newest' = Latest(newest, browser[c].fetched)
  /\ browser' = [browser EXCEPT ![c].pc = "idle"]
  /\ UNCHANGED <<vars, releases>>

(* The listing is of the cached index; the user reviews one package of it. *)
Review(c, package) ==
  /\ Browsing(c, "idle")
  /\ package \in Offered(cached)
  /\ browser' = [browser EXCEPT ![c].revision = cached, ![c].package = package]
  /\ UNCHANGED <<vars, releases, cached, newest>>

(* Mutant: what was reviewed is installed, whatever is cached now. *)
RequestReviewed(c) ==
  /\ Browsing(c, "idle")
  /\ client[c].pc = "idle"
  /\ browser[c].revision # 0
  /\ ~ContainsLive(browser[c].package)
  /\ browser' = [browser EXCEPT ![c].pc = "download"]
  /\ UNCHANGED <<vars, releases, cached, newest>>

(* install_catalog_profile: refused when the cached index is not the       *)
(* reviewed one, does not offer the package, or a contained id is live;    *)
RequestInstall(c) ==
  /\ Browsing(c, "idle")
  /\ client[c].pc = "idle"
  /\ browser[c].revision = cached
  /\ browser[c].package \in Offered(cached)
  /\ ~ContainsLive(browser[c].package)
  /\ browser' = [browser EXCEPT ![c].pc = "download"]
  /\ UNCHANGED <<vars, releases, cached, newest>>

(* then downloaded, verified in a store of its own, and imported. *)
Install(c) ==
  /\ Browsing(c, "download")
  /\ BeginImport(c, browser[c].package)
  /\ browser' = [browser EXCEPT ![c].pc = "idle"]
  /\ UNCHANGED <<releases, cached, newest>>

(* A request, a check or a write fails, or the daemon crashes. *)
GiveUp(c) ==
  /\ ~Browsing(c, "idle")
  /\ browser' = [browser EXCEPT ![c].pc = "idle"]
  /\ UNCHANGED <<vars, releases, cached, newest>>

CatalogStep(c) ==
  \/ /\ Browsing(c, "idle")
     /\ StoreRequest(c) \/ StoreStep(c)
     /\ UNCHANGED <<releases, cached, newest, browser>>
  \/ FetchIndex(c) \/ CacheIndex(c)
  \/ \E package \in Packages : Review(c, package)
  \/ RequestInstall(c) \/ Install(c) \/ GiveUp(c)

CatalogNext ==
  \/ \E offers \in SUBSET Packages : Publish(offers)
  \/ \E c \in Clients : CatalogStep(c)

CatalogSpec == CatalogInit /\ [][CatalogNext]_catalogVars

-----------------------------------------------------------------------------
(* "Installation shall require the reviewed catalog revision and package   *)
(* hash, shall reject withdrawn or duplicate versions": what an            *)
(* installation hands to the importer is what the user reviewed, offered   *)
(* by the newest index that was ever cached.                               *)
WithdrawnStaysOut ==
  [][\A c \in Clients :
       Browsing(c, "download") /\ client'[c].pc # "idle" =>
         /\ browser[c].package \in Offered(newest)
         /\ client'[c].ids = SetToSeq(DOMAIN browser[c].package)]_catalogVars

(* Browsing and installing from the catalog keeps the store loadable: every *)
(* live profile passes the checks of its own load after any interleaving   *)
(* of installs with the other requests (install of the catalog crate).     *)
CatalogInvariant == CatalogTypeOK /\ LiveProfilesLoad

(* What is installed was reviewed in the newest catalog and arrives whole: *)
(* a release withdrawn since is refused, and a collection is complete.     *)
InstallsAreSound == WithdrawnStaysOut /\ CollectionsArriveWhole
=============================================================================
