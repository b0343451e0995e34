---------------------------- MODULE CatalogVersions ----------------------------
(* The blueprint versions one API instance serves from memory, and how it     *)
(* hears of versions registered by other instances                            *)
(* (catalog/catalog-service.ts, ADR 0029 and 0030, migration 0009).  A        *)
(* registered version is immutable and is never removed.                      *)
EXTENDS Naturals, FiniteSets

CONSTANTS
  Versions,
  Supported,        \* those this release can verify and serve
  Shipped,          \* those this instance registered when it opened
  Listings          \* requests for the list of versions

VARIABLES
  registered,       \* the table catalog_blueprint_versions
  rows,             \* the versions in memory
  loading,          \* the load under way, and the rows its query has found
  dirty, stale,
  listings,         \* [Listings -> where it is, what it has to show, what it showed]
  unheard,          \* registered, and the notification not handled yet
  versionLink

catalogVars == <<registered, rows, loading, dirty, stale, listings, unheard, versionLink>>

Channel == INSTANCE ChangeListener WITH link <- versionLink

NoLoad == [at |-> "none", found |-> {}]
Asked == [at |-> "asked", found |-> {}]

Listing == [at : {"new", "waits", "reloads", "shown", "failed"},
            must : SUBSET Versions, shown : SUBSET Versions]

CatalogTypeOK ==
  /\ registered \subseteq Versions
  /\ rows \subseteq registered \intersect Supported
  /\ loading \in [at : {"none", "asked", "read"}, found : SUBSET registered]
  /\ dirty \in BOOLEAN /\ stale \in BOOLEAN
  /\ listings \in [Listings -> Listing]
  /\ unheard \subseteq registered
  /\ versionLink \in Channel!LinkType

(* open(): the shipped versions are registered and every row is loaded.       *)
CatalogInit ==
  /\ registered \in {vs \in SUBSET Versions : Shipped \subseteq vs}
  /\ rows = registered \intersect Supported
  /\ loading = NoLoad /\ dirty = FALSE /\ stale = FALSE
  /\ listings = [m \in Listings |-> [at |-> "new", must |-> {}, shown |-> {}]]
  /\ unheard = {}
  /\ Channel!ListenerInit

Idle == loading.at = "none"

(* Another instance opens with a version this one has not seen. *)
Register(v) ==
  /\ v \notin registered
  /\ registered' = registered \union {v}
  /\ unheard' = unheard \union {v}
  /\ Channel!Announced
  /\ UNCHANGED <<rows, loading, dirty, stale, listings>>

(* reload(): one load serves every caller, and reads again for a late one.    *)
(* A new load has already put dirty back when it first waits.                 *)
Reload ==
  /\ dirty' = ~Idle
  /\ loading' = IF Idle THEN Asked ELSE loading

(* The query of a load sees what has been registered so far. *)
LoadReads ==
  /\ loading.at = "asked"
  /\ loading' = [at |-> "read", found |-> registered]
  /\ UNCHANGED <<registered, rows, dirty, stale, listings, unheard, versionLink>>

Arrived == loading.at = "read"

(* A listing that is answered shows what is in memory. *)
Shown(l, vs) == [l EXCEPT !.at = "shown", !.shown = vs]

(* A load adds what it can verify. *)
Add == rows' = rows \union (loading.found \intersect Supported)

LoadAgain ==
  /\ Arrived /\ dirty
  /\ Add
  /\ dirty' = FALSE /\ loading' = Asked
  /\ UNCHANGED <<registered, stale, listings, unheard, versionLink>>

(* The load is over: listings that reloaded are answered.  Those that waited  *)
(* for it look at the feed now, and all join one new load if they need to.    *)
LoadDone ==
  /\ Arrived /\ ~dirty
  /\ Add
  /\ stale' = FALSE
  /\ listings' = [m \in Listings |->
       CASE listings[m].at = "reloads" -> Shown(listings[m], rows')
         [] listings[m].at = "waits" /\ Channel!Live -> Shown(listings[m], rows')
         [] listings[m].at = "waits" /\ ~Channel!Live -> [listings[m] EXCEPT !.at = "reloads"]
         [] OTHER -> listings[m]]
  /\ LET again == \E m \in Listings : listings'[m].at = "reloads"
     IN  loading' = IF again THEN Asked ELSE NoLoad
  /\ dirty' = (Cardinality({m \in Listings : listings'[m].at = "reloads"}) > 1)
  /\ UNCHANGED <<registered, unheard, versionLink>>

(* The load fails: listings that asked for it fail with it; those that only   *)
(* waited reload again.  Nothing else repeats a failed load.                  *)
LoadFails ==
  /\ ~Idle
  /\ stale' = TRUE
  /\ listings' = [m \in Listings |->
       CASE listings[m].at = "reloads" -> [listings[m] EXCEPT !.at = "failed"]
         [] listings[m].at = "waits" -> [listings[m] EXCEPT !.at = "reloads"]
         [] OTHER -> listings[m]]
  /\ LET waiting == {m \in Listings : listings[m].at = "waits"}
     IN  /\ loading' = IF waiting # {} THEN Asked ELSE NoLoad
         /\ dirty' = IF waiting # {} THEN Cardinality(waiting) > 1 ELSE dirty
  /\ UNCHANGED <<registered, rows, unheard, versionLink>>

(* Every version it may not miss: all of them while nothing is heard, and     *)
(* those heard of otherwise; nothing is promised while the feed is silenced.  *)
ReloadDue ==
  IF ~Channel!Live THEN registered
  ELSE IF versionLink.wire = "quiet" THEN {} ELSE registered \ unheard

(* summaries(): waits for a load under way, reloads if it has to, or answers. *)
AskListing(m) ==
  /\ listings[m].at = "new"
  /\ LET asked == [listings[m] EXCEPT !.must = ReloadDue \intersect Supported]
         ready == Channel!Live /\ ~stale
     IN  /\ listings' = [listings EXCEPT ![m] =
                           IF ~Idle THEN [asked EXCEPT !.at = "waits"]
                           ELSE IF ready THEN Shown(asked, rows)
                           ELSE [asked EXCEPT !.at = "reloads"]]
         /\ IF Idle /\ ~ready THEN Reload ELSE UNCHANGED <<loading, dirty>>
  /\ UNCHANGED <<registered, rows, stale, unheard, versionLink>>

(* bundle(): a version not in memory is read from the database. *)
Fetch(v) ==
  /\ v \in (registered \intersect Supported) \ rows
  /\ rows' = rows \union {v}
  /\ UNCHANGED <<registered, loading, dirty, stale, listings, unheard, versionLink>>

(* The feed: onChange starts a load in the background; a loss changes nothing *)
(* else.  A notification says only that something changed: handling one, or   *)
(* starting to listen, leads to a load that finds all that was registered.    *)
ChannelStep ==
  \/ /\ Channel!Start \/ Channel!Attach \/ Channel!Refused \/ Channel!LostEarly
        \/ Channel!Silenced \/ Channel!Lost \/ Channel!Closed
     /\ UNCHANGED <<registered, rows, loading, dirty, stale, listings, unheard>>
  \/ /\ Channel!Ready \/ Channel!Notified
     /\ Reload
     /\ unheard' = {}
     /\ UNCHANGED <<registered, rows, stale, listings>>

CatalogNext ==
  \/ \E v \in Versions : Register(v) \/ Fetch(v)
  \/ \E m \in Listings : AskListing(m)
  \/ LoadReads \/ LoadAgain \/ LoadDone \/ LoadFails
  \/ ChannelStep

CatalogSpec == CatalogInit /\ [][CatalogNext]_catalogVars

(* A listing shows every version this release can serve whose registration    *)
(* had been notified when it was asked for, and every registered one if no    *)
(* notifications were being received: neither a load that was already under   *)
(* way nor one that failed hides a version (reload, summaries).               *)
ListingComplete ==
  \A m \in Listings : listings[m].at = "shown" => listings[m].must \subseteq listings[m].shown

(* What is served is registered and can be served, and listings miss nothing. *)
CatalogSound == CatalogTypeOK /\ ListingComplete
=============================================================================
