-------------------------------- MODULE Catalog --------------------------------
(***************************************************************************)
(* What one identification writes to the catalog: the transaction of       *)
(* identify_disc in phono-junk-lib/src/identify.rs over the tables of      *)
(* phono-junk-db/src/crud.rs, with the user's overrides, and the cover-art *)
(* cache of extract.rs, which writes an asset row from a copy that the GUI *)
(* loaded earlier.                                                         *)
(*                                                                         *)
(* The transaction is one action: nothing else sees it half done. A disc   *)
(* row is its TOC (find_disc_by_ids is global and the index on its ids     *)
(* unique). Of the projected fields, two per table are told apart.         *)
(***************************************************************************)
EXTENDS Naturals, Sequences, FiniteSets

CONSTANTS
  Tocs,         \* physical discs
  Candidates,   \* the releases that providers may come up with
  Corrections,  \* <<table, field, value>> that the user may override
  None,
  MaxAlbums,    \* bound: albums ever inserted
  MaxReleases,  \* bound: releases ever inserted
  MaxOverrides  \* bound: overrides ever inserted

ASSUME CatalogBounds == {MaxAlbums, MaxReleases, MaxOverrides} \subseteq Nat

\* A candidate: its candidate_key, the ids of its release and release group
\* (None unless MusicBrainz gave them), its title and label, and the URL of its
\* cover art.
ASSUME CandidateFields ==
  \A c \in Candidates : DOMAIN c = {"key", "mbid", "group", "title", "label", "cover"}

VARIABLES
  db,       \* the tables
  copies,   \* asset rows that the GUI holds, or has queued to be cached
  outcome   \* how the last identification ended, and of which disc

vars == <<db, copies, outcome>>

AlbumIds == 1..MaxAlbums
ReleaseIds == 1..MaxReleases
Urls == {c.cover : c \in Candidates} \ {None}
NoOutcome == [toc |-> None, result |-> "none"]

\* Tables are functions from the ids of their rows (AUTOINCREMENT never uses
\* one twice); assets are keyed by their URL, which their stable key is made of.
Init ==
  /\ db = [albums |-> <<>>, releases |-> <<>>, assets |-> <<>>,
           discs |-> [t \in Tocs |-> 0], overrides |-> <<>>, disputes |-> {},
           lastAlbum |-> 0, lastRelease |-> 0, lastAsset |-> 0, lastOverride |-> 0]
  /\ copies = {}
  /\ outcome = NoOutcome

-----------------------------------------------------------------------------
(* Reading the tables.                                                     *)

With(f, x, y) == [i \in DOMAIN f \cup {x} |-> IF i = x THEN y ELSE f[i]]
Without(f, S) == [i \in DOMAIN f \ S |-> f[i]]
Least(S) == CHOOSE i \in S : \A j \in S : i <= j
FirstOrZero(S) == IF S = {} THEN 0 ELSE Least(S)
Or(new, old) == IF new = None THEN old ELSE new

\* Stable keys: of the MusicBrainz id a row was inserted with, of the
\* candidate, or a fresh UUID (the row's own id).
MbidKey(table, mbid) == <<table, "musicbrainz", mbid>>
CandidateKey(key) == <<"release", "candidate", key>>
LocalKey(table, id) == <<table, "local", id>>

Taken(table, key) == \E i \in DOMAIN table : table[i].key = key
DiscsOf(d, r) == {t \in Tocs : d.discs[t] = r}
ReleasesOf(d, a) == {r \in DOMAIN d.releases : d.releases[r].album = a}

FindAlbumByMbid(d, mbid) ==
  FirstOrZero({a \in DOMAIN d.albums : mbid # None /\ d.albums[a].mbid = mbid})

\* Mutant: releases are found by their stable key alone, as upsert_release
\* would without its first loop.
FindReleaseByKey(d, a, c) ==
  FirstOrZero({r \in DOMAIN d.releases : d.releases[r].key = CandidateKey(c.key)})

\* upsert_release looks for the release's mbid within the album, then for the
\* stable key anywhere.
FindRelease(d, a, c) ==
  LET byMbid == {r \in ReleasesOf(d, a) : c.mbid # None /\ d.releases[r].mbid = c.mbid}
      byKey  == {r \in DOMAIN d.releases : d.releases[r].key = CandidateKey(c.key)}
  IN  FirstOrZero(IF byMbid # {} THEN byMbid ELSE byKey)

-----------------------------------------------------------------------------
(* Steps of the transaction, from tables to tables. An insert whose stable *)
(* key is taken violates its UNIQUE index.                                 *)

AlbumKey(d, c) ==
  IF c.group = None THEN LocalKey("album", d.lastAlbum + 1) ELSE MbidKey("album", c.group)
ReleaseKey(d, c) ==
  IF c.mbid = None THEN CandidateKey(c.key) ELSE MbidKey("release", c.mbid)

AlbumCollides(d, c) == FindAlbumByMbid(d, c.group) = 0 /\ Taken(d.albums, AlbumKey(d, c))
ReleaseCollides(d, a, c) == FindRelease(d, a, c) = 0 /\ Taken(d.releases, ReleaseKey(d, c))

UpsertAlbum(d, c) ==
  LET a == FindAlbumByMbid(d, c.group)
  IN  IF a # 0
        THEN [d EXCEPT !.albums[a].title = Or(c.title, d.albums[a].title)]
        ELSE [d EXCEPT !.lastAlbum = @ + 1,
                       !.albums = With(@, d.lastAlbum + 1,
                         [key |-> AlbumKey(d, c), mbid |-> c.group, title |-> c.title])]

\* The id that upsert_album returns, before or after the fact.
AlbumOf(d, c) ==
  LET a == FindAlbumByMbid(d, c.group) IN IF a # 0 THEN a ELSE d.lastAlbum + 1

\* A release found by its mbid is in the album already.
UpsertRelease(d, a, c) ==
  LET r == FindRelease(d, a, c)
  IN  IF r # 0
        THEN [d EXCEPT !.releases[r].album = a,
                       !.releases[r].label = Or(c.label, d.releases[r].label)]
        ELSE [d EXCEPT !.lastRelease = @ + 1,
                       !.releases = With(@, d.lastRelease + 1,
                         [key |-> ReleaseKey(d, c), album |-> a, mbid |-> c.mbid,
                          label |-> c.label])]

ReleaseOf(d, a, c) ==
  LET r == FindRelease(d, a, c) IN IF r # 0 THEN r ELSE d.lastRelease + 1

\* DELETE with what the schema cascades to: the release's assets and discs,
\* the album's releases with theirs.
DeleteReleases(d, R) ==
  [d EXCEPT !.releases = Without(@, R),
            !.discs = [t \in Tocs |-> IF d.discs[t] \in R THEN 0 ELSE d.discs[t]],
            !.assets = Without(@, {u \in DOMAIN d.assets : d.assets[u].release \in R})]
DeleteAlbum(d, a) ==
  LET e == DeleteReleases(d, ReleasesOf(d, a))
  IN  [e EXCEPT !.albums = Without(@, {a})]

\* Mutant: only the disagreements are swept.
SweepDisputes(d, key) == [d EXCEPT !.disputes = @ \ {key}]

\* Disagreements and overrides are linked loosely and swept by hand.
SweepAuthority(d, key) ==
  [d EXCEPT !.disputes = @ \ {key},
            !.overrides = Without(@, {i \in DOMAIN d.overrides : d.overrides[i].key = key})]

\* Mutant: the other discs are not looked at.
OrphanedAnyway(d, r) == TRUE

Orphaned(d, r) == DiscsOf(d, r) = {}
Emptied(d, a) == ReleasesOf(d, a) = {}

DeleteReleaseIfOrphan(d, r) ==
  IF ~Orphaned(d, r) THEN d
  ELSE LET a == d.releases[r].album
           e == DeleteReleases(SweepAuthority(d, d.releases[r].key), {r})
       IN  IF Emptied(e, a)
             THEN DeleteAlbum(SweepAuthority(e, e.albums[a].key), a)
             ELSE e

\* A known disc is re-parented and the release it leaves swept.
UpsertDisc(d, r, t) ==
  LET old == d.discs[t]
      e == [d EXCEPT !.discs[t] = r]
  IN  IF old \in {0, r} THEN e ELSE DeleteReleaseIfOrphan(e, old)

\* persist_disagreements and persist_candidate_ambiguity.
PersistDisagreements(d, a, r, disputed) ==
  [d EXCEPT !.disputes = @ \cup (IF "album" \in disputed THEN {d.albums[a].key} ELSE {})
                           \cup (IF "release" \in disputed THEN {d.releases[r].key} ELSE {})]

\* Overrides of one key and field are applied in the order of their ids.
Overriding(d, key, field, value) ==
  LET S == {i \in DOMAIN d.overrides : d.overrides[i].key = key /\ d.overrides[i].field = field}
  IN  IF S = {} THEN value
      ELSE d.overrides[CHOOSE i \in S : \A j \in S : j <= i].value

\* A row with the user's corrections.
CorrectedAlbum(d, album) ==
  [album EXCEPT !.title = Overriding(d, album.key, "title", album.title),
                !.mbid = Overriding(d, album.key, "mbid", album.mbid)]
CorrectedRelease(d, release) ==
  [release EXCEPT !.label = Overriding(d, release.key, "label", release.label),
                  !.mbid = Overriding(d, release.key, "mbid", release.mbid)]

\* Mutant: only those of the release are applied.
ApplyReleaseOverrides(d, a, r) ==
  [d EXCEPT !.releases[r] = CorrectedRelease(d, @)]

ApplyAllOverrides(d, a, r) ==
  [d EXCEPT !.albums[a] = CorrectedAlbum(d, @), !.releases[r] = CorrectedRelease(d, @)]

\* upsert_asset_evidence: a row of the same stable key moves to the release.
InsertAsset(d, r, url) ==
  IF url = None THEN d
  ELSE IF url \in DOMAIN d.assets THEN [d EXCEPT !.assets[url].release = r]
  ELSE [d EXCEPT !.lastAsset = @ + 1,
                 !.assets = With(@, url, [id |-> d.lastAsset + 1, release |-> r, cached |-> FALSE])]

Transaction(d, t, c, disputed) ==
  LET a  == AlbumOf(d, c)
      d1 == UpsertAlbum(d, c)
      r  == ReleaseOf(d1, a, c)
      d2 == UpsertRelease(d1, a, c)
      d3 == UpsertDisc(d2, r, t)
      d4 == PersistDisagreements(d3, a, r, disputed)
      d5 == ApplyAllOverrides(d4, a, r)
  IN  InsertAsset(d5, r, c.cover)

Collides(d, c) ==
  AlbumCollides(d, c) \/ ReleaseCollides(UpsertAlbum(d, c), AlbumOf(d, c), c)

-----------------------------------------------------------------------------
\* identify_disc of a disc that is not catalogued, or forced: the candidate
\* wins, others dispute the album's or the release's fields, and the
\* transaction commits, violates an index or fails otherwise.
IdentifyDisc(t, c, disputed) ==
  /\ db.lastAlbum < MaxAlbums /\ db.lastRelease < MaxReleases
  /\ \/ /\ ~Collides(db, c)
        /\ db' = Transaction(db, t, c, disputed)
        /\ outcome' = [toc |-> t, result |-> "resolved"]
     \/ /\ Collides(db, c)
        /\ outcome' = [toc |-> t, result |-> "collision"]
        /\ UNCHANGED db
     \/ /\ outcome' = [toc |-> t, result |-> "failed"]
        /\ UNCHANGED db
  /\ UNCHANGED copies

\* insert_override on an album or a release.
InsertOverride(table, id, field, value) ==
  /\ db.lastOverride < MaxOverrides
  /\ db' = [db EXCEPT !.lastOverride = @ + 1,
                      !.overrides = With(@, db.lastOverride + 1,
              [key |-> IF table = "album" THEN db.albums[id].key ELSE db.releases[id].key,
               field |-> field, value |-> value])]
  /\ outcome' = NoOutcome
  /\ UNCHANGED copies

Correct ==
  \E o \in Corrections :
    \E id \in IF o[1] = "album" THEN DOMAIN db.albums ELSE DOMAIN db.releases :
      InsertOverride(o[1], id, o[2], o[3])

\* ensure_cache: the detail panel loads an asset row, and cover_block queues
\* a clone of it for the worker.
LoadAsset(u) ==
  /\ copies' = copies \cup {db.assets[u]}
  /\ UNCHANGED <<db, outcome>>

\* cache_asset_bytes on the clone: a clone that has its file is a hit; else
\* the file is downloaded and the row, if there still is one, written from
\* the clone, unless the clone's release is gone.
CacheAsset(copy) ==
  /\ copies' = copies \ {copy}
  /\ LET S == {u \in DOMAIN db.assets : db.assets[u].id = copy.id}
     IN  \/ /\ ~copy.cached /\ copy.release \in DOMAIN db.releases
            /\ db' = [db EXCEPT !.assets = [u \in DOMAIN @ |->
                        IF u \in S THEN [copy EXCEPT !.cached = TRUE] ELSE @[u]]]
         \/ UNCHANGED db
  /\ UNCHANGED outcome

Next ==
  \/ \E t \in Tocs, c \in Candidates, disputed \in SUBSET {"album", "release"} :
       IdentifyDisc(t, c, disputed)
  \/ Correct
  \/ \E u \in DOMAIN db.assets : LoadAsset(u)
  \/ \E copy \in copies : CacheAsset(copy)

Spec == Init /\ [][Next]_vars

-----------------------------------------------------------------------------
Values(field) == {c[field] : c \in Candidates} \cup {o[3] : o \in Corrections} \cup {None}

CatalogTypeOK ==
  /\ DOMAIN db.albums \subseteq 1..db.lastAlbum /\ db.lastAlbum \in Nat
  /\ DOMAIN db.releases \subseteq 1..db.lastRelease /\ db.lastRelease \in Nat
  /\ DOMAIN db.assets \subseteq Urls /\ db.lastAsset \in Nat
  /\ \A a \in DOMAIN db.albums :
       db.albums[a].mbid \in Values("group") /\ db.albums[a].title \in Values("title")
  /\ \A r \in DOMAIN db.releases :
       /\ db.releases[r].album \in DOMAIN db.albums
       /\ db.releases[r].mbid \in Values("mbid") /\ db.releases[r].label \in Values("label")
  /\ db.discs \in [Tocs -> {0} \cup DOMAIN db.releases]
  /\ \A u \in DOMAIN db.assets :
       db.assets[u].release \in DOMAIN db.releases /\ db.assets[u].id \in 1..db.lastAsset

\* "Look up globally; if we find the disc under a different release, re-parent
\* it and sweep the now-empty old release": no identification leaves a release
\* without a disc.
ReleasesHaveDiscs == \A r \in DOMAIN db.releases : DiscsOf(db, r) # {}

\* "Cascade-clean its album if that leaves the album empty": nor an album,
\* which the list would show as one without discs.
AlbumsHaveReleases == \A a \in DOMAIN db.albums : ReleasesOf(db, a) # {}

\* "Disagreements and overrides are loose-linked (no FK), so sweep them
\* explicitly": each is about a row that exists.
LinksResolve ==
  \A key \in db.disputes \cup {db.overrides[i].key : i \in DOMAIN db.overrides} :
    Taken(db.albums, key) \/ Taken(db.releases, key)

\* References hold in both directions: what points at a row finds it, with a foreign
\* key or without, and no release is left that no disc points at.
ReferencesHold == CatalogTypeOK /\ ReleasesHaveDiscs /\ LinksResolve

\* "User overrides are authoritative": whatever the providers said and
\* whichever disc of the album they said it of, the album and the release of a
\* disc just identified carry the user's last correction of every field.
AuthorityWins ==
  outcome.result = "resolved" =>
    LET r == db.releases[db.discs[outcome.toc]]
        a == db.albums[r.album]
    IN  /\ a.title = Overriding(db, a.key, "title", a.title)
        /\ a.mbid = Overriding(db, a.key, "mbid", a.mbid)
        /\ r.label = Overriding(db, r.key, "label", r.label)
        /\ r.mbid = Overriding(db, r.key, "mbid", r.mbid)

\* "User authority survives re-identification": an album title that the user
\* corrected stays the title of the album of a disc that is identified as the
\* same release again.
AlbumOfDisc(t) == db.albums[db.releases[db.discs[t]].album]
Corrected(a) == Overriding(db, a.key, "title", None) # None
AuthoritySurvives ==
  [][\A t \in Tocs :
       /\ outcome' = [toc |-> t, result |-> "resolved"]
       /\ db.discs[t] # 0 /\ db'.discs[t] = db.discs[t]
       /\ Corrected(AlbumOfDisc(t))
       => AlbumOfDisc(t)'.title = Overriding(db, AlbumOfDisc(t).key, "title", None)]_vars

\* No override of the user's is ever deleted by an identification.
OverridesStay == [][DOMAIN db.overrides \subseteq DOMAIN db'.overrides]_vars

\* An identification of one disc never takes another disc (nor its own) out of
\* the catalog: the deletes it does cascade, and a rip file whose disc is gone
\* is unidentified again.
DiscsStay == [][\A t \in Tocs : db.discs[t] # 0 => db'.discs[t] # 0]_vars

\* "Re-identify must not collide on UNIQUE" (tests/identify.rs).
NeverCollides == outcome.result # "collision"

\* Identifying again neither leaves an album behind nor fails on one.
ReidentifiesCleanly == AlbumsHaveReleases /\ NeverCollides

\* "Asset IDs and cached artwork survive re-identification" (ARCHITECTURE.md).
CachedArtStays ==
  [][\A u \in DOMAIN db.assets : db.assets[u].cached =>
       /\ u \in DOMAIN db'.assets
       /\ db'.assets[u].cached /\ db'.assets[u].id = db.assets[u].id]_vars

\* Caching an asset "updates the assets row so the absolute path is persisted"
\* (extract.rs), and does not move the artwork to another release.
CachingKeepsRelease ==
  [][copies' # copies =>
       \A u \in DOMAIN db.assets : db'.assets[u].release = db.assets[u].release]_vars
=============================================================================
