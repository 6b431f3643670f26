---------------------------- MODULE Catalog_proofs ----------------------------
(***************************************************************************)
(* Proofs about Catalog, for any discs, candidates, corrections and        *)
(* bounds: an identification leaves no reference open and no release       *)
(* without a disc, the user's corrections win over what the providers say, *)
(* and no disc is taken out of the catalog. If MusicBrainz is the one      *)
(* source and its releases stay in their groups, re-identifying is clean.  *)
(***************************************************************************)
EXTENDS Catalog, TLAPS, WellFoundedInduction

-----------------------------------------------------------------------------
(* Numbers and tables.                                                     *)

LEMMA Smallest ==
  ASSUME NEW T, T \subseteq Nat, T # {}
  PROVE  \E x \in T : \A y \in T : x <= y
<1>1. PICK x \in T : \A y \in T : <<y, x>> \notin OpToRel(<, Nat)
  BY NatLessThanWellFounded, WFMin
<1>2. \A y \in T : <<y, x>> \in Nat \X Nat
  OBVIOUS
<1>3. \A y \in T : ~(y < x)
  BY <1>1, <1>2 DEF OpToRel
<1>4. QED
  BY <1>3

LEMMA Largest ==
  ASSUME NEW b \in Nat, NEW T, T \subseteq 1..b, T # {}
  PROVE  \E x \in T : \A y \in T : y <= x
<1> DEFINE U == {n \in Nat : b - n \in T}
<1>1. U # {}
  <2>1. PICK x \in T : TRUE
    OBVIOUS
  <2>2. b - x \in U
    BY <2>1
  <2>3. QED
    BY <2>2
<1>2. PICK n \in U : \A m \in U : n <= m
  BY <1>1, Smallest
<1>3. ASSUME NEW y \in T PROVE y <= b - n
  <2>1. b - y \in U
    OBVIOUS
  <2>2. QED
    BY <1>2, <2>1
<1>4. QED
  BY <1>2, <1>3

LEMMA FirstFound ==
  ASSUME NEW S, S \subseteq Nat \ {0}
  PROVE  IF S = {} THEN FirstOrZero(S) = 0 ELSE FirstOrZero(S) \in S /\ FirstOrZero(S) # 0
<1>1. CASE S = {}
  BY <1>1 DEF FirstOrZero
<1>2. CASE S # {}
  <2>1. \E i \in S : \A j \in S : i <= j
    BY <1>2, Smallest
  <2>2. QED
    BY <1>2, <2>1 DEF FirstOrZero, Least
<1>3. QED
  BY <1>1, <1>2

\* A table with some ids of Ids and rows of Row.
Tables(Ids, Row) == UNION {[T -> Row] : T \in SUBSET Ids}

LEMMA TableRows ==
  ASSUME NEW Ids, NEW Row, NEW f \in Tables(Ids, Row)
  PROVE  f \in [DOMAIN f -> Row] /\ DOMAIN f \subseteq Ids
BY DEF Tables

LEMMA TableWith ==
  ASSUME NEW Ids, NEW Row, NEW f \in Tables(Ids, Row), NEW x \in Ids, NEW y \in Row
  PROVE  With(f, x, y) \in Tables(Ids, Row)
<1>1. With(f, x, y) \in [DOMAIN f \cup {x} -> Row]
  BY TableRows DEF With
<1>2. DOMAIN f \cup {x} \in SUBSET Ids
  BY TableRows
<1>3. QED
  BY <1>1, <1>2 DEF Tables

LEMMA TableWithout ==
  ASSUME NEW Ids, NEW Row, NEW f \in Tables(Ids, Row), NEW S
  PROVE  Without(f, S) \in Tables(Ids, Row)
<1>1. Without(f, S) \in [DOMAIN f \ S -> Row]
  BY TableRows DEF Without
<1>2. DOMAIN f \ S \in SUBSET Ids
  BY TableRows
<1>3. QED
  BY <1>1, <1>2 DEF Tables

LEMMA TableExcept ==
  ASSUME NEW Ids, NEW Row, NEW f \in Tables(Ids, Row), NEW x \in DOMAIN f, NEW y \in Row
  PROVE  /\ [f EXCEPT ![x] = y] \in Tables(Ids, Row)
         /\ DOMAIN [f EXCEPT ![x] = y] = DOMAIN f
         /\ [f EXCEPT ![x] = y][x] = y
         /\ \A i \in DOMAIN f : i # x => [f EXCEPT ![x] = y][i] = f[i]
<1>1. f \in [DOMAIN f -> Row] /\ DOMAIN f \in SUBSET Ids
  BY TableRows
<1>2. [f EXCEPT ![x] = y] \in [DOMAIN f -> Row]
  BY <1>1
<1>3. QED
  BY <1>1, <1>2 DEF Tables

-----------------------------------------------------------------------------
(* The types of the tables.                                                *)

AlbumKeys == {MbidKey("album", m) : m \in Values("group")} \cup {LocalKey("album", i) : i \in Nat}
ReleaseKeys ==
  {MbidKey("release", m) : m \in Values("mbid")} \cup {CandidateKey(c.key) : c \in Candidates}

AlbumRow == [key : AlbumKeys, mbid : Values("group"), title : Values("title")]
ReleaseRow ==
  [key : ReleaseKeys, album : Nat, mbid : Values("mbid"), label : Values("label")]
AssetRow == [id : Nat, release : Nat, cached : BOOLEAN]
OverrideRow ==
  [key : AlbumKeys \cup ReleaseKeys, field : {o[2] : o \in Corrections},
   value : {o[3] : o \in Corrections}]

Db == [albums : Tables(Nat, AlbumRow), releases : Tables(Nat, ReleaseRow),
       assets : Tables(Urls, AssetRow), discs : [Tocs -> Nat],
       overrides : Tables(Nat, OverrideRow), disputes : SUBSET (AlbumKeys \cup ReleaseKeys),
       lastAlbum : Nat, lastRelease : Nat, lastAsset : Nat, lastOverride : Nat]

\* No id is ahead of its counter, and every foreign key finds its row.
Counted(d) ==
  /\ DOMAIN d.albums \subseteq 1..d.lastAlbum
  /\ DOMAIN d.releases \subseteq 1..d.lastRelease
  /\ DOMAIN d.overrides \subseteq 1..d.lastOverride
  /\ \A u \in DOMAIN d.assets : d.assets[u].id \in 1..d.lastAsset
ForeignKeys(d) ==
  /\ \A r \in DOMAIN d.releases : d.releases[r].album \in DOMAIN d.albums
  /\ \A t \in Tocs : d.discs[t] \in {0} \cup DOMAIN d.releases
  /\ \A u \in DOMAIN d.assets : d.assets[u].release \in DOMAIN d.releases

Links(d) == d.disputes \cup {d.overrides[i].key : i \in DOMAIN d.overrides}
Linked(d) == \A key \in Links(d) : Taken(d.albums, key) \/ Taken(d.releases, key)

Sound(d) == d \in Db /\ Counted(d) /\ ForeignKeys(d) /\ Linked(d)

\* What a step from d to e leaves of the keys that others link to.
KeysKept(d, e) ==
  /\ \A a \in DOMAIN d.albums : a \in DOMAIN e.albums /\ e.albums[a].key = d.albums[a].key
  /\ \A r \in DOMAIN d.releases :
       r \in DOMAIN e.releases /\ e.releases[r].key = d.releases[r].key

LEMMA LinksKept ==
  ASSUME NEW d, NEW e, Linked(d), KeysKept(d, e),
         e.disputes = d.disputes, e.overrides = d.overrides
  PROVE  Linked(e)
<1>1. Links(e) = Links(d)
  BY DEF Links
<1>2. ASSUME NEW key PROVE /\ Taken(d.albums, key) => Taken(e.albums, key)
                           /\ Taken(d.releases, key) => Taken(e.releases, key)
  BY DEF Taken, KeysKept
<1>3. QED
  BY <1>1, <1>2, Zenon DEF Linked

LEMMA DbFields ==
  ASSUME NEW d \in Db
  PROVE  /\ d.albums \in Tables(Nat, AlbumRow) /\ d.releases \in Tables(Nat, ReleaseRow)
         /\ d.assets \in Tables(Urls, AssetRow) /\ d.discs \in [Tocs -> Nat]
         /\ d.overrides \in Tables(Nat, OverrideRow)
         /\ d.disputes \subseteq AlbumKeys \cup ReleaseKeys
         /\ d.lastAlbum \in Nat /\ d.lastRelease \in Nat
         /\ d.lastAsset \in Nat /\ d.lastOverride \in Nat
BY DEF Db

LEMMA ValuesOf ==
  ASSUME NEW c \in Candidates
  PROVE  /\ c.group \in Values("group") /\ c.title \in Values("title")
         /\ c.mbid \in Values("mbid") /\ c.label \in Values("label")
BY DEF Values

LEMMA AlbumFound ==
  ASSUME NEW d, Sound(d), NEW c \in Candidates
  PROVE  LET a == FindAlbumByMbid(d, c.group)
         IN  a = 0 \/ (a \in DOMAIN d.albums /\ a # 0)
<1> DEFINE S == {a \in DOMAIN d.albums : c.group # None /\ d.albums[a].mbid = c.group}
<1>1. S \subseteq Nat \ {0}
  <2>1. DOMAIN d.albums \subseteq 1..d.lastAlbum /\ d.lastAlbum \in Nat
    BY DbFields DEF Sound, Counted
  <2>2. QED
    BY <2>1
<1>2. QED
  BY <1>1, FirstFound DEF FindAlbumByMbid

LEMMA ReleaseFound ==
  ASSUME NEW d, Sound(d), NEW a, NEW c \in Candidates
  PROVE  LET r == FindRelease(d, a, c)
         IN  r = 0 \/ (r \in DOMAIN d.releases /\ r # 0)
<1> DEFINE byMbid == {r \in ReleasesOf(d, a) : c.mbid # None /\ d.releases[r].mbid = c.mbid}
           byKey == {r \in DOMAIN d.releases : d.releases[r].key = CandidateKey(c.key)}
<1>1. byMbid \subseteq DOMAIN d.releases /\ byKey \subseteq DOMAIN d.releases
  BY DEF ReleasesOf
<1>2. DOMAIN d.releases \subseteq Nat \ {0}
  <2>1. DOMAIN d.releases \subseteq 1..d.lastRelease /\ d.lastRelease \in Nat
    BY DbFields DEF Sound, Counted
  <2>2. QED
    BY <2>1
<1>3. FindRelease(d, a, c) = FirstOrZero(IF byMbid # {} THEN byMbid ELSE byKey)
  BY DEF FindRelease
<1> HIDE DEF byMbid, byKey
<1>4. (IF byMbid # {} THEN byMbid ELSE byKey) \subseteq Nat \ {0}
  BY <1>1, <1>2
<1>5. QED
  BY <1>1, <1>3, <1>4, FirstFound

-----------------------------------------------------------------------------
(* The steps of the transaction.                                           *)

LEMMA AlbumStep ==
  ASSUME NEW d, Sound(d), NEW c \in Candidates
  PROVE  LET e == UpsertAlbum(d, c) IN
         /\ Sound(e) /\ AlbumOf(d, c) \in DOMAIN e.albums
         /\ KeysKept(d, e) /\ e.releases = d.releases /\ e.discs = d.discs
         /\ e.overrides = d.overrides /\ e.lastAsset = d.lastAsset
         /\ DOMAIN e.albums = DOMAIN d.albums \cup {AlbumOf(d, c)}
         /\ \A x \in DOMAIN d.albums : e.albums[x].mbid = d.albums[x].mbid
         /\ FindAlbumByMbid(d, c.group) = 0 =>
              /\ AlbumOf(d, c) \notin DOMAIN d.albums
              /\ e.albums[AlbumOf(d, c)].key = AlbumKey(d, c)
              /\ e.albums[AlbumOf(d, c)].mbid = c.group
<1> DEFINE a == FindAlbumByMbid(d, c.group)
           e == UpsertAlbum(d, c)
<1>1. d \in Db /\ Counted(d) /\ ForeignKeys(d) /\ Linked(d)
  BY DEF Sound
<1>2. CASE a # 0
  <2> DEFINE album == [d.albums[a] EXCEPT !.title = Or(c.title, d.albums[a].title)]
             T == [d.albums EXCEPT ![a] = album]
  <2>1. a \in DOMAIN d.albums
    BY <1>2, AlbumFound
  <2>2. d.albums[a] \in AlbumRow
    BY <1>1, <2>1, DbFields, TableRows
  <2>3. album \in AlbumRow /\ album.key = d.albums[a].key /\ album.mbid = d.albums[a].mbid
    BY <2>2, ValuesOf DEF AlbumRow, Or
  <2>4. e = [d EXCEPT !.albums = T]
    BY <1>2, <1>1 DEF UpsertAlbum, Db
  <2> HIDE DEF album
  <2>5. /\ T \in Tables(Nat, AlbumRow) /\ DOMAIN T = DOMAIN d.albums
        /\ \A i \in DOMAIN T : T[i].key = d.albums[i].key /\ T[i].mbid = d.albums[i].mbid
    BY <1>1, <2>1, <2>3, DbFields, TableExcept
  <2> HIDE DEF T, a, e
  <2>6. /\ e \in Db /\ e.albums = T
        /\ e.releases = d.releases /\ e.discs = d.discs /\ e.assets = d.assets
        /\ e.overrides = d.overrides /\ e.disputes = d.disputes
        /\ e.lastAlbum = d.lastAlbum /\ e.lastRelease = d.lastRelease
        /\ e.lastAsset = d.lastAsset /\ e.lastOverride = d.lastOverride
    BY <1>1, <2>4, <2>5 DEF Db
  <2>7. KeysKept(d, e)
    BY <2>5, <2>6 DEF KeysKept
  <2>8. Linked(e)
    BY <1>1, <2>6, <2>7, LinksKept
  <2>9. Counted(e) /\ ForeignKeys(e)
    BY <1>1, <2>5, <2>6 DEF Counted, ForeignKeys
  <2>10. AlbumOf(d, c) = a
    BY <1>2 DEF AlbumOf, a
  <2>11. QED
    BY <1>2, <2>1, <2>5, <2>6, <2>7, <2>8, <2>9, <2>10 DEF Sound, e, a
<1>3. CASE a = 0
  <2> DEFINE n == d.lastAlbum + 1
             album == [key |-> AlbumKey(d, c), mbid |-> c.group, title |-> c.title]
             T == With(d.albums, n, album)
  <2>1. n \in Nat /\ n \notin DOMAIN d.albums /\ DOMAIN d.albums \subseteq 1..d.lastAlbum
        /\ 1..d.lastAlbum \cup {n} \subseteq 1..n
    BY <1>1, DbFields DEF Counted
  <2>2. AlbumKey(d, c) \in AlbumKeys
    BY <2>1, ValuesOf DEF AlbumKey, AlbumKeys
  <2>3. album \in AlbumRow /\ album.key = AlbumKey(d, c) /\ album.mbid = c.group
    BY <2>2, ValuesOf DEF AlbumRow
  <2>4. e = [d EXCEPT !.lastAlbum = n, !.albums = T]
    BY <1>3, <1>1 DEF UpsertAlbum, Db
  <2> HIDE DEF album, n
  <2>5. /\ T \in Tables(Nat, AlbumRow) /\ DOMAIN T = DOMAIN d.albums \cup {n}
        /\ (\A i \in DOMAIN d.albums : T[i] = d.albums[i]) /\ T[n] = album
    <3>1. d.albums \in Tables(Nat, AlbumRow)
      BY <1>1, DbFields
    <3>2. T \in Tables(Nat, AlbumRow)
      BY <2>1, <2>3, <3>1, TableWith
    <3>3. DOMAIN T = DOMAIN d.albums \cup {n} /\ T[n] = album
          /\ \A i \in DOMAIN d.albums : i # n => T[i] = d.albums[i]
      BY DEF With
    <3>4. QED
      BY <2>1, <3>2, <3>3
  <2> HIDE DEF T, a, e
  <2>6. /\ e \in Db /\ e.albums = T
        /\ e.releases = d.releases /\ e.discs = d.discs /\ e.assets = d.assets
        /\ e.overrides = d.overrides /\ e.disputes = d.disputes
        /\ e.lastAlbum = n /\ e.lastRelease = d.lastRelease
        /\ e.lastAsset = d.lastAsset /\ e.lastOverride = d.lastOverride
    BY <1>1, <2>1, <2>4, <2>5 DEF Db
  <2>7. KeysKept(d, e)
    BY <2>5, <2>6 DEF KeysKept
  <2>8. Linked(e)
    BY <1>1, <2>6, <2>7, LinksKept
  <2>9. Counted(e)
    BY <1>1, <2>1, <2>5, <2>6 DEF Counted
  <2>10. ForeignKeys(e)
    BY <1>1, <2>5, <2>6 DEF ForeignKeys
  <2>11. AlbumOf(d, c) = n
    BY <1>3 DEF AlbumOf, a, n
  <2>12. QED
    BY <2>1, <2>3, <2>5, <2>6, <2>7, <2>8, <2>9, <2>10, <2>11 DEF Sound, e
<1>4. QED
  BY <1>2, <1>3

LEMMA ReleaseStep ==
  ASSUME NEW d, Sound(d), NEW c \in Candidates, NEW a \in DOMAIN d.albums
  PROVE  LET e == UpsertRelease(d, a, c)
             r == ReleaseOf(d, a, c)
         IN  /\ Sound(e) /\ KeysKept(d, e) /\ r # 0
             /\ DOMAIN e.releases = DOMAIN d.releases \cup {r} /\ e.releases[r].album = a
             /\ e.albums = d.albums /\ e.discs = d.discs /\ e.overrides = d.overrides
             /\ e.lastAsset = d.lastAsset
             /\ \A x \in DOMAIN d.releases :
                  /\ e.releases[x].mbid = d.releases[x].mbid
                  /\ x # r => e.releases[x].album = d.releases[x].album
             /\ IF FindRelease(d, a, c) = 0
                 THEN /\ r \notin DOMAIN d.releases /\ e.releases[r].key = ReleaseKey(d, c)
                      /\ e.releases[r].mbid = c.mbid
                 ELSE r = FindRelease(d, a, c)
<1> DEFINE f == FindRelease(d, a, c)
           r == ReleaseOf(d, a, c)
           e == UpsertRelease(d, a, c)
<1>1. d \in Db /\ Counted(d) /\ ForeignKeys(d) /\ Linked(d)
  BY DEF Sound
<1>2. a \in Nat
  BY <1>1, DbFields, TableRows
<1>3. d.releases \in Tables(Nat, ReleaseRow)
  BY <1>1, DbFields
<1>4. CASE f # 0
  <2> DEFINE row == [d.releases[f] EXCEPT !.album = a, !.label = Or(c.label, d.releases[f].label)]
             T == [d.releases EXCEPT ![f] = row]
  <2>1. f \in DOMAIN d.releases
    BY <1>4, ReleaseFound
  <2>2. d.releases[f] \in ReleaseRow
    BY <1>3, <2>1, TableRows
  <2>3. row \in ReleaseRow /\ row.key = d.releases[f].key /\ row.album = a
        /\ row.mbid = d.releases[f].mbid
    BY <1>2, <2>2, ValuesOf DEF ReleaseRow, Or
  <2>4. e = [d EXCEPT !.releases = T]
    BY <1>1, <1>3, <1>4, <2>1, <2>2, TableRows DEF UpsertRelease, Db, ReleaseRow
  <2> HIDE DEF row, f
  <2>5. T \in Tables(Nat, ReleaseRow) /\ DOMAIN T = DOMAIN d.releases /\ T[f] = row
        /\ (\A i \in DOMAIN T : i # f => T[i] = d.releases[i])
    BY <1>3, <2>1, <2>3, TableExcept
  <2> HIDE DEF T, e, r
  <2>6. /\ e \in Db /\ e.releases = T
        /\ e.albums = d.albums /\ e.discs = d.discs /\ e.assets = d.assets
        /\ e.overrides = d.overrides /\ e.disputes = d.disputes
        /\ e.lastAlbum = d.lastAlbum /\ e.lastRelease = d.lastRelease
        /\ e.lastAsset = d.lastAsset /\ e.lastOverride = d.lastOverride
    BY <1>1, <2>4, <2>5 DEF Db
  <2>7. KeysKept(d, e)
    BY <2>3, <2>5, <2>6 DEF KeysKept
  <2>8. Linked(e)
    BY <1>1, <2>6, <2>7, LinksKept
  <2>9. Counted(e) /\ ForeignKeys(e)
    BY <1>1, <2>3, <2>5, <2>6 DEF Counted, ForeignKeys
  <2>10. r = f
    BY <1>4 DEF ReleaseOf, f, r
  <2>11. \A x \in DOMAIN d.releases :
           /\ e.releases[x].mbid = d.releases[x].mbid
           /\ x # r => e.releases[x].album = d.releases[x].album
    BY <2>3, <2>5, <2>6, <2>10
  <2>12. /\ Sound(e) /\ r # 0 /\ r = f
         /\ DOMAIN e.releases = DOMAIN d.releases \cup {r} /\ e.releases[r].album = a
    BY <1>4, <2>1, <2>3, <2>5, <2>6, <2>8, <2>9, <2>10 DEF Sound
  <2>13. QED
    BY <1>4, <2>6, <2>7, <2>11, <2>12 DEF e, r, f
<1>5. CASE f = 0
  <2> DEFINE n == d.lastRelease + 1
             row == [key |-> ReleaseKey(d, c), album |-> a, mbid |-> c.mbid, label |-> c.label]
             T == With(d.releases, n, row)
  <2>1. n \in Nat /\ n # 0 /\ n \notin DOMAIN d.releases
        /\ 1..d.lastRelease \cup {n} \subseteq 1..n
    BY <1>1, DbFields DEF Counted
  <2>2. ReleaseKey(d, c) \in ReleaseKeys
    BY ValuesOf DEF ReleaseKey, ReleaseKeys
  <2>3. row \in ReleaseRow /\ row.album = a /\ row.key = ReleaseKey(d, c)
        /\ row.mbid = c.mbid
    BY <1>2, <2>2, ValuesOf DEF ReleaseRow
  <2>4. e = [d EXCEPT !.lastRelease = n, !.releases = T]
    BY <1>5, <1>1 DEF UpsertRelease, Db
  <2> HIDE DEF row, n
  <2>5. T \in Tables(Nat, ReleaseRow)
    BY <1>3, <2>1, <2>3, TableWith
  <2>6. DOMAIN T = DOMAIN d.releases \cup {n} /\ T[n] = row
        /\ (\A i \in DOMAIN d.releases : i # n => T[i] = d.releases[i])
    BY DEF With
  <2> HIDE DEF T, f, e, r
  <2>7. /\ e \in Db /\ e.releases = T
        /\ e.albums = d.albums /\ e.discs = d.discs /\ e.assets = d.assets
        /\ e.overrides = d.overrides /\ e.disputes = d.disputes
        /\ e.lastAlbum = d.lastAlbum /\ e.lastRelease = n
        /\ e.lastAsset = d.lastAsset /\ e.lastOverride = d.lastOverride
    BY <1>1, <2>1, <2>4, <2>5 DEF Db
  <2>8. \A i \in DOMAIN d.releases : T[i] = d.releases[i]
    BY <2>1, <2>6
  <2>9. KeysKept(d, e)
    BY <2>6, <2>7, <2>8 DEF KeysKept
  <2>10. Linked(e)
    BY <1>1, <2>7, <2>9, LinksKept
  <2>11. Counted(e)
    BY <1>1, <2>1, <2>6, <2>7 DEF Counted
  <2>12. ForeignKeys(e)
    BY <1>1, <2>3, <2>6, <2>7, <2>8 DEF ForeignKeys
  <2>13. r = n
    BY <1>5 DEF ReleaseOf, f, n, r
  <2>14. QED
    BY <1>5, <2>1, <2>3, <2>6, <2>7, <2>8, <2>9, <2>10, <2>11, <2>12, <2>13 DEF Sound, e, r, f
<1>6. QED
  BY <1>4, <1>5

LEMMA SweepStep ==
  ASSUME NEW d, d \in Db, Counted(d), ForeignKeys(d), NEW key
  PROVE  LET e == SweepAuthority(d, key) IN
         /\ e \in Db /\ Counted(e) /\ ForeignKeys(e) /\ Links(e) = Links(d) \ {key}
         /\ e.albums = d.albums /\ e.releases = d.releases /\ e.discs = d.discs
         /\ e.lastAsset = d.lastAsset
<1> DEFINE e == SweepAuthority(d, key)
           T == Without(d.overrides, {i \in DOMAIN d.overrides : d.overrides[i].key = key})
<1>1. T \in Tables(Nat, OverrideRow)
  BY DbFields, TableWithout
<1>2. DOMAIN T = {i \in DOMAIN d.overrides : d.overrides[i].key # key}
      /\ (\A i \in DOMAIN T : T[i] = d.overrides[i])
  BY DEF Without
<1>3. e = [d EXCEPT !.disputes = d.disputes \ {key}, !.overrides = T]
  BY DEF SweepAuthority, Db
<1> HIDE DEF T, e
<1>4. /\ e \in Db /\ e.overrides = T /\ e.disputes = d.disputes \ {key}
      /\ e.albums = d.albums /\ e.discs = d.discs /\ e.assets = d.assets
      /\ e.releases = d.releases
      /\ e.lastAlbum = d.lastAlbum /\ e.lastRelease = d.lastRelease
      /\ e.lastAsset = d.lastAsset /\ e.lastOverride = d.lastOverride
  BY <1>1, <1>3 DEF Db
<1>5. Counted(e) /\ ForeignKeys(e)
  BY <1>2, <1>4 DEF Counted, ForeignKeys
<1>6. Links(e) = Links(d) \ {key}
  BY <1>2, <1>4 DEF Links
<1>7. QED
  BY <1>4, <1>5, <1>6 DEF e

LEMMA DeleteStep ==
  ASSUME NEW d, d \in Db, Counted(d), ForeignKeys(d), NEW R, \A r \in R : DiscsOf(d, r) = {}
  PROVE  LET e == DeleteReleases(d, R) IN
         /\ e \in Db /\ Counted(e) /\ ForeignKeys(e) /\ Links(e) = Links(d)
         /\ e.albums = d.albums /\ e.discs = d.discs /\ e.lastAsset = d.lastAsset
         /\ DOMAIN e.releases = DOMAIN d.releases \ R
         /\ \A r \in DOMAIN e.releases : e.releases[r] = d.releases[r]
         /\ \A u \in DOMAIN e.assets : d.assets[u].release \notin R
<1> DEFINE e == DeleteReleases(d, R)
           T == Without(d.releases, R)
           S == {u \in DOMAIN d.assets : d.assets[u].release \in R}
           U == Without(d.assets, S)
<1>1. T \in Tables(Nat, ReleaseRow) /\ U \in Tables(Urls, AssetRow)
  BY DbFields, TableWithout
<1>2. DOMAIN T = DOMAIN d.releases \ R /\ (\A r \in DOMAIN T : T[r] = d.releases[r])
  BY DEF Without
<1>3. /\ DOMAIN U \subseteq DOMAIN d.assets
      /\ \A u \in DOMAIN U : U[u] = d.assets[u] /\ d.assets[u].release \notin R
  BY DEF Without
<1>4. \A t \in Tocs : d.discs[t] \notin R
  BY DEF DiscsOf
<1>5. [t \in Tocs |-> IF d.discs[t] \in R THEN 0 ELSE d.discs[t]] = d.discs
  BY <1>4, DbFields
<1>6. e = [d EXCEPT !.releases = T, !.discs = d.discs, !.assets = U]
  BY <1>5 DEF DeleteReleases, Db
<1> HIDE DEF T, S, U, e
<1>7. /\ e \in Db /\ e.releases = T /\ e.assets = U
      /\ e.albums = d.albums /\ e.discs = d.discs
      /\ e.overrides = d.overrides /\ e.disputes = d.disputes
      /\ e.lastAlbum = d.lastAlbum /\ e.lastRelease = d.lastRelease
      /\ e.lastAsset = d.lastAsset /\ e.lastOverride = d.lastOverride
  BY <1>1, <1>6, DbFields DEF Db
<1>8. Counted(e)
  BY <1>2, <1>3, <1>7 DEF Counted
<1>9. ForeignKeys(e)
  BY <1>2, <1>3, <1>4, <1>7 DEF ForeignKeys
<1>10. Links(e) = Links(d)
  BY <1>7 DEF Links
<1>11. QED
  BY <1>2, <1>3, <1>7, <1>8, <1>9, <1>10 DEF e

\* A release that no disc points at, and what is linked to it.
LEMMA OrphanDeleted ==
  ASSUME NEW d, Sound(d), NEW r \in DOMAIN d.releases, DiscsOf(d, r) = {}
  PROVE  LET e == DeleteReleases(SweepAuthority(d, d.releases[r].key), {r}) IN
         /\ Sound(e) /\ e.albums = d.albums /\ e.discs = d.discs /\ e.lastAsset = d.lastAsset
         /\ DOMAIN e.releases = DOMAIN d.releases \ {r}
         /\ \A x \in DOMAIN e.releases : e.releases[x] = d.releases[x]
<1> DEFINE key == d.releases[r].key
           s == SweepAuthority(d, key)
           e == DeleteReleases(s, {r})
<1>1. /\ s \in Db /\ Counted(s) /\ ForeignKeys(s) /\ Links(s) = Links(d) \ {key}
      /\ s.albums = d.albums /\ s.releases = d.releases /\ s.discs = d.discs
      /\ s.lastAsset = d.lastAsset
  BY SweepStep DEF Sound
<1> HIDE DEF s
<1>2. \A x \in {r} : DiscsOf(s, x) = {}
  BY <1>1 DEF DiscsOf
<1>3. /\ e \in Db /\ Counted(e) /\ ForeignKeys(e) /\ Links(e) = Links(s)
      /\ e.albums = s.albums /\ e.discs = s.discs /\ e.lastAsset = s.lastAsset
      /\ DOMAIN e.releases = DOMAIN s.releases \ {r}
      /\ \A x \in DOMAIN e.releases : e.releases[x] = s.releases[x]
  BY <1>1, <1>2, DeleteStep
<1> HIDE DEF e
<1>4. ASSUME NEW k \in Links(e) PROVE Taken(e.albums, k) \/ Taken(e.releases, k)
  <2>1. k \in Links(d) /\ k # key
    BY <1>1, <1>3
  <2>2. CASE Taken(d.albums, k)
    BY <1>1, <1>3, <2>2
  <2>3. CASE Taken(d.releases, k)
    <3>1. PICK x \in DOMAIN d.releases : d.releases[x].key = k
      BY <2>3 DEF Taken
    <3>2. x \in DOMAIN e.releases /\ e.releases[x].key = k
      BY <1>1, <1>3, <2>1, <3>1
    <3>3. QED
      BY <3>2 DEF Taken
  <2>4. QED
    BY <2>1, <2>2, <2>3 DEF Sound, Linked
<1>5. Sound(e)
  BY <1>3, <1>4 DEF Sound, Linked
<1>6. QED
  BY <1>1, <1>3, <1>5 DEF e, s

\* An album without releases, and what is linked to it.
LEMMA EmptyDeleted ==
  ASSUME NEW d, Sound(d), NEW a \in DOMAIN d.albums, ReleasesOf(d, a) = {}
  PROVE  LET e == DeleteAlbum(SweepAuthority(d, d.albums[a].key), a) IN
         /\ Sound(e) /\ e.discs = d.discs /\ DOMAIN e.releases = DOMAIN d.releases
         /\ e.lastAsset = d.lastAsset /\ DOMAIN e.albums = DOMAIN d.albums \ {a}
         /\ \A x \in DOMAIN e.albums : e.albums[x] = d.albums[x]
         /\ \A x \in DOMAIN e.releases : e.releases[x] = d.releases[x]
<1> DEFINE key == d.albums[a].key
           s == SweepAuthority(d, key)
           f == DeleteReleases(s, ReleasesOf(s, a))
           e == DeleteAlbum(s, a)
           T == Without(f.albums, {a})
<1>1. /\ s \in Db /\ Counted(s) /\ ForeignKeys(s) /\ Links(s) = Links(d) \ {key}
      /\ s.albums = d.albums /\ s.releases = d.releases /\ s.discs = d.discs
      /\ s.lastAsset = d.lastAsset
  BY SweepStep DEF Sound
<1> HIDE DEF s
<1>2. ReleasesOf(s, a) = {}
  BY <1>1 DEF ReleasesOf
<1>3. /\ f \in Db /\ Counted(f) /\ ForeignKeys(f) /\ Links(f) = Links(s)
      /\ f.albums = s.albums /\ f.discs = s.discs /\ f.lastAsset = s.lastAsset
      /\ DOMAIN f.releases = DOMAIN s.releases
      /\ \A x \in DOMAIN f.releases : f.releases[x] = s.releases[x]
  <2> DEFINE R == ReleasesOf(s, a)
  <2>1. R = {}
    BY <1>2
  <2>2. \A r \in R : DiscsOf(s, r) = {}
    BY <1>2
  <2> HIDE DEF R
  <2>3. LET g == DeleteReleases(s, R) IN
        /\ g \in Db /\ Counted(g) /\ ForeignKeys(g) /\ Links(g) = Links(s)
        /\ g.albums = s.albums /\ g.discs = s.discs /\ g.lastAsset = s.lastAsset
        /\ DOMAIN g.releases = DOMAIN s.releases \ R
        /\ \A x \in DOMAIN g.releases : g.releases[x] = s.releases[x]
    BY <1>1, <2>2, DeleteStep
  <2>4. QED
    BY <2>1, <2>3 DEF R
<1>4. e = [f EXCEPT !.albums = T]
  BY <1>3 DEF DeleteAlbum, Db
<1> HIDE DEF f, e
<1>5. T \in Tables(Nat, AlbumRow)
  BY <1>3, DbFields, TableWithout
<1>6. DOMAIN T = DOMAIN f.albums \ {a} /\ (\A i \in DOMAIN T : T[i] = f.albums[i])
  BY DEF Without
<1> HIDE DEF T
<1>7. /\ e \in Db /\ e.albums = T
      /\ e.releases = f.releases /\ e.discs = f.discs /\ e.assets = f.assets
      /\ e.overrides = f.overrides /\ e.disputes = f.disputes
      /\ e.lastAlbum = f.lastAlbum /\ e.lastRelease = f.lastRelease
      /\ e.lastAsset = f.lastAsset /\ e.lastOverride = f.lastOverride
  BY <1>3, <1>4, <1>5 DEF Db
<1>8. Counted(e)
  BY <1>3, <1>6, <1>7 DEF Counted
<1>9. \A x \in DOMAIN d.releases : d.releases[x].album # a
  BY DEF ReleasesOf
<1>10. ForeignKeys(e)
  BY <1>1, <1>3, <1>6, <1>7, <1>9 DEF ForeignKeys
<1>11. Links(e) = Links(d) \ {key}
  BY <1>1, <1>3, <1>7 DEF Links
<1>12. ASSUME NEW k \in Links(e) PROVE Taken(e.albums, k) \/ Taken(e.releases, k)
  <2>1. k \in Links(d) /\ k # key
    BY <1>11
  <2>2. CASE Taken(d.albums, k)
    <3>1. PICK x \in DOMAIN d.albums : d.albums[x].key = k
      BY <2>2 DEF Taken
    <3>2. x \in DOMAIN e.albums /\ e.albums[x].key = k
      BY <1>1, <1>3, <1>6, <1>7, <2>1, <3>1
    <3>3. QED
      BY <3>2 DEF Taken
  <2>3. CASE Taken(d.releases, k)
    <3>1. PICK x \in DOMAIN d.releases : d.releases[x].key = k
      BY <2>3 DEF Taken
    <3>2. x \in DOMAIN e.releases /\ e.releases[x].key = k
      BY <1>1, <1>3, <1>7, <3>1
    <3>3. QED
      BY <3>2 DEF Taken
  <2>4. QED
    BY <2>1, <2>2, <2>3 DEF Sound, Linked
<1>13. Sound(e)
  BY <1>7, <1>8, <1>10, <1>12 DEF Sound, Linked
<1>14. QED
  BY <1>1, <1>3, <1>6, <1>7, <1>13 DEF e, s

\* Every release but those of R has a disc, every album a release.
HaveDiscs(d, R) == \A r \in DOMAIN d.releases \ R : DiscsOf(d, r) # {}
HaveReleases(d) == \A a \in DOMAIN d.albums : ReleasesOf(d, a) # {}

\* The rows of e are rows of d, and if no album of d is empty, none of e is.
Within(d, e) ==
  /\ DOMAIN e.albums \subseteq DOMAIN d.albums
  /\ DOMAIN e.releases \subseteq DOMAIN d.releases
  /\ \A a \in DOMAIN e.albums : e.albums[a] = d.albums[a]
  /\ \A r \in DOMAIN e.releases : e.releases[r] = d.releases[r]
  /\ HaveReleases(d) => HaveReleases(e)

LEMMA OrphanStep ==
  ASSUME NEW d, Sound(d), NEW old \in DOMAIN d.releases, HaveDiscs(d, {old}),
         NEW r \in DOMAIN d.releases, DiscsOf(d, r) # {}
  PROVE  LET e == DeleteReleaseIfOrphan(d, old) IN
         /\ Sound(e) /\ HaveDiscs(e, {}) /\ e.discs = d.discs /\ e.lastAsset = d.lastAsset
         /\ r \in DOMAIN e.releases /\ e.releases[r] = d.releases[r] /\ Within(d, e)
<1>1. CASE ~Orphaned(d, old)
  BY <1>1 DEF DeleteReleaseIfOrphan, Orphaned, HaveDiscs, Within
<1>2. CASE Orphaned(d, old)
  <2> DEFINE a == d.releases[old].album
             e == DeleteReleases(SweepAuthority(d, d.releases[old].key), {old})
             f == DeleteAlbum(SweepAuthority(e, e.albums[a].key), a)
  <2>1. /\ Sound(e) /\ e.albums = d.albums /\ e.discs = d.discs /\ e.lastAsset = d.lastAsset
        /\ DOMAIN e.releases = DOMAIN d.releases \ {old}
        /\ \A x \in DOMAIN e.releases : e.releases[x] = d.releases[x]
    BY <1>2, OrphanDeleted DEF Orphaned
  <2>2. DeleteReleaseIfOrphan(d, old) = IF Emptied(e, a) THEN f ELSE e
    BY <1>2 DEF DeleteReleaseIfOrphan
  <2>3. a \in DOMAIN e.albums
    BY <2>1 DEF Sound, ForeignKeys
  <2> HIDE DEF e, a
  <2>4. Emptied(e, a) =>
          /\ Sound(f) /\ f.discs = e.discs /\ DOMAIN f.releases = DOMAIN e.releases
          /\ f.lastAsset = e.lastAsset /\ DOMAIN f.albums = DOMAIN e.albums \ {a}
          /\ \A x \in DOMAIN f.albums : f.albums[x] = e.albums[x]
          /\ \A x \in DOMAIN f.releases : f.releases[x] = e.releases[x]
    BY <2>1, <2>3, EmptyDeleted DEF Emptied
  <2> HIDE DEF f
  <2> DEFINE g == DeleteReleaseIfOrphan(d, old)
  <2>5. /\ Sound(g) /\ g.discs = d.discs /\ g.lastAsset = d.lastAsset
        /\ DOMAIN g.releases = DOMAIN d.releases \ {old}
        /\ \A x \in DOMAIN g.releases : g.releases[x] = d.releases[x]
    BY <2>1, <2>2, <2>4
  <2>6. /\ DOMAIN g.albums \subseteq DOMAIN d.albums
        /\ \A x \in DOMAIN g.albums : g.albums[x] = d.albums[x]
        /\ a \in DOMAIN g.albums => ~Emptied(e, a)
    BY <2>1, <2>2, <2>4
  <2>7. ReleasesOf(g, a) = ReleasesOf(e, a)
    BY <2>1, <2>5 DEF ReleasesOf
  <2> HIDE DEF g
  <2>8. ASSUME HaveReleases(d), NEW x \in DOMAIN g.albums PROVE ReleasesOf(g, x) # {}
    <3>1. CASE x = a
      BY <2>6, <2>7, <3>1 DEF Emptied
    <3>2. CASE x # a
      <4>1. PICK y \in DOMAIN d.releases : d.releases[y].album = x
        BY <2>6, <2>8 DEF HaveReleases, ReleasesOf
      <4>2. y \in DOMAIN g.releases /\ g.releases[y].album = x
        BY <2>5, <3>2, <4>1 DEF a
      <4>3. QED
        BY <4>2 DEF ReleasesOf
    <3>3. QED
      BY <3>1, <3>2
  <2>9. Within(d, g)
    BY <2>5, <2>6, <2>8 DEF Within, HaveReleases
  <2>10. r # old
    BY <1>2 DEF Orphaned
  <2>11. HaveDiscs(g, {})
    BY <2>5 DEF HaveDiscs, DiscsOf
  <2>12. QED
    BY <2>5, <2>10, <2>11, <2>9 DEF g
<1>3. QED
  BY <1>1, <1>2

LEMMA DiscStep ==
  ASSUME NEW d, Sound(d), NEW r \in DOMAIN d.releases, r # 0, HaveDiscs(d, {r}), NEW t \in Tocs
  PROVE  LET e == UpsertDisc(d, r, t) IN
         /\ Sound(e) /\ HaveDiscs(e, {}) /\ e.discs[t] = r /\ e.lastAsset = d.lastAsset
         /\ \A x \in Tocs : d.discs[x] # 0 => e.discs[x] # 0
         /\ r \in DOMAIN e.releases /\ e.releases[r] = d.releases[r] /\ Within(d, e)
         /\ d.discs[t] = r => e.overrides = d.overrides
<1> DEFINE old == d.discs[t]
           e == [d EXCEPT !.discs[t] = r]
<1>1. r \in Nat
  BY DbFields, TableRows DEF Sound
<1>2. [d.discs EXCEPT ![t] = r] \in [Tocs -> Nat]
  BY <1>1, DbFields DEF Sound
<1>3. /\ e \in Db /\ e.discs = [d.discs EXCEPT ![t] = r]
      /\ e.albums = d.albums /\ e.releases = d.releases /\ e.assets = d.assets
      /\ e.overrides = d.overrides /\ e.disputes = d.disputes
      /\ e.lastAlbum = d.lastAlbum /\ e.lastRelease = d.lastRelease
      /\ e.lastAsset = d.lastAsset /\ e.lastOverride = d.lastOverride
  BY <1>2 DEF Sound, Db
<1> HIDE DEF e
<1>4. e.discs[t] = r /\ (\A x \in Tocs : x # t => e.discs[x] = d.discs[x])
  BY <1>3, DbFields DEF Sound
<1>5. Counted(e) /\ ForeignKeys(e)
  BY <1>3, <1>4 DEF Sound, Counted, ForeignKeys
<1>6. KeysKept(d, e)
  BY <1>3 DEF KeysKept
<1>7. Linked(e)
  BY <1>3, <1>6, LinksKept DEF Sound
<1>8. Sound(e)
  BY <1>3, <1>5, <1>7 DEF Sound
<1>9. DiscsOf(e, r) # {}
  BY <1>4 DEF DiscsOf
<1>10. HaveDiscs(e, {old})
  BY <1>3, <1>4, <1>9 DEF HaveDiscs, DiscsOf
<1>11. UpsertDisc(d, r, t) = IF old \in {0, r} THEN e ELSE DeleteReleaseIfOrphan(e, old)
  BY DEF UpsertDisc, e
<1>12. old \in {0} \cup DOMAIN d.releases
  BY DEF Sound, ForeignKeys
<1>13. CASE old \in {0, r}
  <2>1. 0 \notin DOMAIN d.releases
    BY DbFields DEF Sound, Counted
  <2>2. HaveDiscs(e, {})
    BY <1>3, <1>9, <1>10, <1>13, <2>1 DEF HaveDiscs
  <2>3. Within(d, e)
    BY <1>3 DEF Within, HaveReleases, ReleasesOf
  <2>4. QED
    BY <1>3, <1>4, <1>8, <1>11, <1>13, <2>2, <2>3
<1>14. CASE old \notin {0, r}
  <2>1. old \in DOMAIN e.releases
    BY <1>3, <1>12, <1>14
  <2> HIDE DEF old
  <2> DEFINE f == DeleteReleaseIfOrphan(e, old)
  <2>2. /\ Sound(f) /\ HaveDiscs(f, {}) /\ f.discs = e.discs /\ f.lastAsset = e.lastAsset
        /\ r \in DOMAIN f.releases /\ f.releases[r] = e.releases[r] /\ Within(e, f)
    BY <1>3, <1>8, <1>9, <1>10, <2>1, OrphanStep
  <2> HIDE DEF f
  <2>3. UpsertDisc(d, r, t) = f
    BY <1>11, <1>14 DEF f
  <2>4. \A x \in Tocs : d.discs[x] # 0 => f.discs[x] # 0
    BY <1>4, <2>2
  <2>5. Within(d, f)
    BY <1>3, <2>2 DEF Within, HaveReleases, ReleasesOf
  <2>6. d.discs[t] # r
    BY <1>14 DEF old
  <2>7. QED
    BY <1>3, <1>4, <2>2, <2>3, <2>4, <2>5, <2>6
<1>15. QED
  BY <1>13, <1>14

LEMMA DisputeStep ==
  ASSUME NEW d, Sound(d), NEW a \in DOMAIN d.albums, NEW r \in DOMAIN d.releases, NEW disputed
  PROVE  LET e == PersistDisagreements(d, a, r, disputed) IN
         /\ Sound(e) /\ e.albums = d.albums /\ e.releases = d.releases /\ e.discs = d.discs
         /\ e.overrides = d.overrides /\ e.lastAsset = d.lastAsset
<1> DEFINE e == PersistDisagreements(d, a, r, disputed)
           K == (IF "album" \in disputed THEN {d.albums[a].key} ELSE {})
                  \cup (IF "release" \in disputed THEN {d.releases[r].key} ELSE {})
<1>1. d.albums[a].key \in AlbumKeys /\ d.releases[r].key \in ReleaseKeys
  <2>1. d.albums[a] \in AlbumRow /\ d.releases[r] \in ReleaseRow
    BY DbFields, TableRows DEF Sound
  <2>2. QED
    BY <2>1 DEF AlbumRow, ReleaseRow
<1>2. \A k \in K : k = d.albums[a].key \/ k = d.releases[r].key
  OBVIOUS
<1>3. e = [d EXCEPT !.disputes = d.disputes \cup K]
  BY DEF PersistDisagreements, Sound, Db
<1> HIDE DEF K, e
<1>4. /\ e \in Db /\ e.disputes = d.disputes \cup K
      /\ e.releases = d.releases /\ e.albums = d.albums /\ e.discs = d.discs
      /\ e.assets = d.assets /\ e.overrides = d.overrides
      /\ e.lastAlbum = d.lastAlbum /\ e.lastRelease = d.lastRelease
      /\ e.lastAsset = d.lastAsset /\ e.lastOverride = d.lastOverride
  <2>1. d.disputes \cup K \subseteq AlbumKeys \cup ReleaseKeys
    BY <1>1, <1>2, DbFields DEF Sound
  <2>2. QED
    BY <1>3, <2>1 DEF Sound, Db
<1>5. Counted(e) /\ ForeignKeys(e)
  BY <1>4 DEF Sound, Counted, ForeignKeys
<1>6. Links(e) = Links(d) \cup K
  BY <1>4 DEF Links
<1>7. \A k \in K : Taken(e.albums, k) \/ Taken(e.releases, k)
  BY <1>2, <1>4 DEF Taken
<1>8. Linked(e)
  BY <1>4, <1>6, <1>7 DEF Sound, Linked
<1>9. QED
  BY <1>4, <1>5, <1>8 DEF Sound, e

\* What overriding a field comes to.
LEMMA OverridingStays ==
  ASSUME NEW d, NEW e, e.overrides = d.overrides, NEW key, NEW field, NEW value
  PROVE  /\ Overriding(e, key, field, value) = Overriding(d, key, field, value)
         /\ Overriding(d, key, field, Overriding(d, key, field, value))
              = Overriding(d, key, field, value)
BY DEF Overriding

LEMMA OverridingTyped ==
  ASSUME NEW d, Sound(d), NEW key, NEW field, NEW f, NEW value \in Values(f)
  PROVE  Overriding(d, key, field, value) \in Values(f)
<1> DEFINE S == {i \in DOMAIN d.overrides :
                   d.overrides[i].key = key /\ d.overrides[i].field = field}
<1>1. CASE S = {}
  BY <1>1 DEF Overriding
<1>2. CASE S # {}
  <2>1. S \subseteq 1..d.lastOverride /\ d.lastOverride \in Nat
    BY DbFields DEF Sound, Counted
  <2>2. \E i \in S : \A j \in S : j <= i
    BY <1>2, <2>1, Largest
  <2> DEFINE i == CHOOSE i \in S : \A j \in S : j <= i
  <2>3. i \in S
    BY <2>2
  <2>4. Overriding(d, key, field, value) = d.overrides[i].value
    BY <1>2 DEF Overriding
  <2>5. i \in DOMAIN d.overrides
    BY <2>3
  <2> HIDE DEF S, i
  <2>6. d.overrides[i] \in OverrideRow
    BY <2>5, DbFields, TableRows DEF Sound
  <2>7. d.overrides[i].value \in {o[3] : o \in Corrections}
    BY <2>6 DEF OverrideRow
  <2>8. QED
    BY <2>4, <2>7 DEF Values
<1>3. QED
  BY <1>1, <1>2

LEMMA OverrideStep ==
  ASSUME NEW d, Sound(d), NEW a \in DOMAIN d.albums, NEW r \in DOMAIN d.releases
  PROVE  LET e == ApplyAllOverrides(d, a, r) IN
         /\ Sound(e) /\ e.discs = d.discs /\ e.overrides = d.overrides
         /\ DOMAIN e.albums = DOMAIN d.albums /\ DOMAIN e.releases = DOMAIN d.releases
         /\ e.albums[a] = CorrectedAlbum(d, d.albums[a])
         /\ \A x \in DOMAIN d.albums : x # a => e.albums[x] = d.albums[x]
         /\ e.releases[r] = CorrectedRelease(d, d.releases[r])
         /\ \A x \in DOMAIN d.releases : x # r => e.releases[x] = d.releases[x]
         /\ \A x \in DOMAIN d.releases : e.releases[x].album = d.releases[x].album
         /\ e.lastAsset = d.lastAsset
<1> DEFINE e == ApplyAllOverrides(d, a, r)
           album == CorrectedAlbum(d, d.albums[a])
           release == CorrectedRelease(d, d.releases[r])
           T == [d.albums EXCEPT ![a] = album]
           U == [d.releases EXCEPT ![r] = release]
<1>1. d.albums[a] \in AlbumRow /\ d.releases[r] \in ReleaseRow
  BY DbFields, TableRows DEF Sound
<1>2. album \in AlbumRow /\ album.key = d.albums[a].key
  <2>1. /\ d.albums[a].title \in Values("title") /\ d.albums[a].mbid \in Values("group")
    BY <1>1 DEF AlbumRow
  <2>2. /\ Overriding(d, d.albums[a].key, "title", d.albums[a].title) \in Values("title")
        /\ Overriding(d, d.albums[a].key, "mbid", d.albums[a].mbid) \in Values("group")
    BY <2>1, OverridingTyped
  <2>3. QED
    BY <1>1, <2>2 DEF AlbumRow, CorrectedAlbum
<1>3. release \in ReleaseRow /\ release.key = d.releases[r].key /\ release.album = d.releases[r].album
  <2>1. /\ d.releases[r].label \in Values("label") /\ d.releases[r].mbid \in Values("mbid")
    BY <1>1 DEF ReleaseRow
  <2>2. /\ Overriding(d, d.releases[r].key, "label", d.releases[r].label) \in Values("label")
        /\ Overriding(d, d.releases[r].key, "mbid", d.releases[r].mbid) \in Values("mbid")
    BY <2>1, OverridingTyped
  <2>3. QED
    BY <1>1, <2>2 DEF ReleaseRow, CorrectedRelease
<1>4. e = [d EXCEPT !.albums = T, !.releases = U]
  BY DEF ApplyAllOverrides, Sound, Db
<1> HIDE DEF album, release
<1>5. T \in Tables(Nat, AlbumRow) /\ DOMAIN T = DOMAIN d.albums /\ T[a] = album
      /\ (\A i \in DOMAIN T : i # a => T[i] = d.albums[i])
  BY <1>2, DbFields, TableExcept DEF Sound
<1>6. U \in Tables(Nat, ReleaseRow) /\ DOMAIN U = DOMAIN d.releases /\ U[r] = release
      /\ (\A i \in DOMAIN U : i # r => U[i] = d.releases[i])
  BY <1>3, DbFields, TableExcept DEF Sound
<1> HIDE DEF T, U, e
<1>7. /\ e \in Db /\ e.albums = T /\ e.releases = U
      /\ e.discs = d.discs /\ e.assets = d.assets
      /\ e.overrides = d.overrides /\ e.disputes = d.disputes
      /\ e.lastAlbum = d.lastAlbum /\ e.lastRelease = d.lastRelease
      /\ e.lastAsset = d.lastAsset /\ e.lastOverride = d.lastOverride
  BY <1>4, <1>5, <1>6 DEF Sound, Db
<1>8. KeysKept(d, e)
  BY <1>2, <1>3, <1>5, <1>6, <1>7 DEF KeysKept
<1>9. \A x \in DOMAIN d.releases : e.releases[x].album = d.releases[x].album
  BY <1>3, <1>6, <1>7
<1>10. Linked(e)
  BY <1>7, <1>8, LinksKept DEF Sound
<1>11. Counted(e) /\ ForeignKeys(e)
  BY <1>5, <1>6, <1>7, <1>9 DEF Sound, Counted, ForeignKeys
<1>12. QED
  BY <1>5, <1>6, <1>7, <1>9, <1>10, <1>11 DEF Sound, e, album, release

LEMMA AssetStep ==
  ASSUME NEW d, Sound(d), NEW r \in DOMAIN d.releases, NEW c \in Candidates
  PROVE  LET e == InsertAsset(d, r, c.cover) IN
         /\ Sound(e) /\ e.lastAsset \in Nat /\ d.lastAsset <= e.lastAsset
         /\ e.albums = d.albums /\ e.releases = d.releases /\ e.discs = d.discs
         /\ e.overrides = d.overrides
<1> DEFINE url == c.cover
           e == InsertAsset(d, r, url)
<1>1. d.assets \in Tables(Urls, AssetRow) /\ d.lastAsset \in Nat /\ r \in Nat
  BY DbFields, TableRows DEF Sound
<1>2. CASE url = None
  BY <1>1, <1>2 DEF InsertAsset
<1>3. ASSUME NEW T \in Tables(Urls, AssetRow), NEW n \in Nat, d.lastAsset <= n,
             e = [d EXCEPT !.lastAsset = n, !.assets = T],
             \A u \in DOMAIN T : T[u].release \in DOMAIN d.releases /\ T[u].id \in 1..n
      PROVE  /\ Sound(e) /\ e.lastAsset = n
             /\ e.albums = d.albums /\ e.releases = d.releases /\ e.discs = d.discs
             /\ e.overrides = d.overrides
  <2> HIDE DEF e
  <2>1. /\ e \in Db /\ e.assets = T /\ e.lastAsset = n
        /\ e.albums = d.albums /\ e.releases = d.releases /\ e.discs = d.discs
        /\ e.overrides = d.overrides /\ e.disputes = d.disputes
        /\ e.lastAlbum = d.lastAlbum /\ e.lastRelease = d.lastRelease
        /\ e.lastOverride = d.lastOverride
    BY <1>3 DEF Sound, Db
  <2>2. KeysKept(d, e)
    BY <2>1 DEF KeysKept
  <2>3. Linked(e)
    BY <2>1, <2>2, LinksKept DEF Sound
  <2>4. Counted(e) /\ ForeignKeys(e)
    BY <1>3, <2>1 DEF Sound, Counted, ForeignKeys
  <2>5. QED
    BY <2>1, <2>3, <2>4 DEF Sound
<1>4. CASE url # None /\ url \in DOMAIN d.assets
  <2> DEFINE row == [d.assets[url] EXCEPT !.release = r]
             T == [d.assets EXCEPT ![url] = row]
  <2>1. d.assets[url] \in AssetRow
    BY <1>1, <1>4, TableRows
  <2>2. row \in AssetRow /\ row.release = r /\ row.id = d.assets[url].id
    BY <1>1, <2>1 DEF AssetRow
  <2>3. e = [d EXCEPT !.lastAsset = d.lastAsset, !.assets = T]
    BY <1>1, <1>4, <2>1, TableRows DEF InsertAsset, Sound, Db
  <2> HIDE DEF row, url
  <2>4. T \in Tables(Urls, AssetRow) /\ DOMAIN T = DOMAIN d.assets /\ T[url] = row
        /\ (\A u \in DOMAIN T : u # url => T[u] = d.assets[u])
    BY <1>1, <1>4, <2>2, TableExcept
  <2> HIDE DEF T, e
  <2>5. \A u \in DOMAIN T : T[u].release \in DOMAIN d.releases /\ T[u].id \in 1..d.lastAsset
    BY <2>2, <2>4 DEF Sound, ForeignKeys, Counted
  <2>6. d.lastAsset <= d.lastAsset
    BY <1>1
  <2>7. /\ Sound(e) /\ e.lastAsset = d.lastAsset
        /\ e.albums = d.albums /\ e.releases = d.releases /\ e.discs = d.discs
        /\ e.overrides = d.overrides
    BY <1>1, <1>3, <2>3, <2>4, <2>5, <2>6
  <2>8. QED
    BY <1>1, <2>6, <2>7 DEF e, url
<1>5. CASE url # None /\ url \notin DOMAIN d.assets
  <2> DEFINE n == d.lastAsset + 1
             row == [id |-> n, release |-> r, cached |-> FALSE]
             T == With(d.assets, url, row)
  <2>1. url \in Urls
    BY <1>5 DEF Urls
  <2>2. n \in Nat /\ d.lastAsset <= n /\ n \in 1..n /\ 1..d.lastAsset \subseteq 1..n
    BY <1>1
  <2>3. row \in AssetRow /\ row.release = r /\ row.id = n
    BY <1>1, <2>2 DEF AssetRow
  <2>4. e = [d EXCEPT !.lastAsset = n, !.assets = T]
    BY <1>5 DEF InsertAsset, Sound, Db
  <2> HIDE DEF row, n, url
  <2>5. T \in Tables(Urls, AssetRow)
    BY <1>1, <2>1, <2>3, TableWith
  <2>6. DOMAIN T = DOMAIN d.assets \cup {url} /\ T[url] = row
        /\ (\A u \in DOMAIN d.assets : u # url => T[u] = d.assets[u])
    BY DEF With
  <2> HIDE DEF T, e
  <2>7. \A u \in DOMAIN T : T[u].release \in DOMAIN d.releases /\ T[u].id \in 1..n
    BY <2>2, <2>3, <2>6 DEF Sound, ForeignKeys, Counted
  <2>8. QED
    BY <1>1, <1>3, <2>2, <2>4, <2>5, <2>7 DEF e, url
<1>6. QED
  BY <1>2, <1>4, <1>5

-----------------------------------------------------------------------------
(* The transaction as a whole.                                             *)

\* The album and the release of disc t carry what the user said of them.
Wins(d, t) ==
  LET r == d.releases[d.discs[t]]
      a == d.albums[r.album]
  IN  /\ a.title = Overriding(d, a.key, "title", a.title)
      /\ a.mbid = Overriding(d, a.key, "mbid", a.mbid)
      /\ r.label = Overriding(d, r.key, "label", r.label)
      /\ r.mbid = Overriding(d, r.key, "mbid", r.mbid)

LEMMA WinsDependsOn ==
  ASSUME NEW d, NEW e, NEW t, Wins(d, t), e.albums = d.albums, e.releases = d.releases,
         e.discs = d.discs, e.overrides = d.overrides
  PROVE  Wins(e, t)
<1>1. \A key, field, value : Overriding(e, key, field, value) = Overriding(d, key, field, value)
  BY OverridingStays
<1> DEFINE r == d.releases[d.discs[t]]
           a == d.albums[r.album]
<1>2. /\ a.title = Overriding(d, a.key, "title", a.title)
      /\ a.mbid = Overriding(d, a.key, "mbid", a.mbid)
      /\ r.label = Overriding(d, r.key, "label", r.label)
      /\ r.mbid = Overriding(d, r.key, "mbid", r.mbid)
  BY DEF Wins
<1>3. e.releases[e.discs[t]] = r /\ e.albums[r.album] = a
  OBVIOUS
<1> HIDE DEF r, a
<1>4. QED
  BY <1>1, <1>2, <1>3 DEF Wins

LEMMA TransactionStep ==
  ASSUME NEW d, Sound(d), HaveDiscs(d, {}), NEW t \in Tocs, NEW c \in Candidates, NEW disputed
  PROVE  LET e == Transaction(d, t, c, disputed) IN
         /\ Sound(e) /\ HaveDiscs(e, {}) /\ Wins(e, t)
         /\ e.discs[t] # 0 /\ (\A x \in Tocs : d.discs[x] # 0 => e.discs[x] # 0)
         /\ e.lastAsset \in Nat /\ d.lastAsset <= e.lastAsset
<1> DEFINE a  == AlbumOf(d, c)
           d1 == UpsertAlbum(d, c)
           r  == ReleaseOf(d1, a, c)
           d2 == UpsertRelease(d1, a, c)
           d3 == UpsertDisc(d2, r, t)
           d4 == PersistDisagreements(d3, a, r, disputed)
           d5 == ApplyAllOverrides(d4, a, r)
           d6 == InsertAsset(d5, r, c.cover)
<1>1. Transaction(d, t, c, disputed) = d6
  BY DEF Transaction
<1>2. /\ Sound(d1) /\ a \in DOMAIN d1.albums
      /\ d1.releases = d.releases /\ d1.discs = d.discs /\ d1.lastAsset = d.lastAsset
  BY AlbumStep
<1> HIDE DEF a, d1
<1>3. /\ Sound(d2) /\ r # 0
      /\ DOMAIN d2.releases = DOMAIN d1.releases \cup {r} /\ d2.releases[r].album = a
      /\ d2.discs = d1.discs /\ d2.lastAsset = d1.lastAsset
  BY <1>2, ReleaseStep
<1> HIDE DEF r, d2
<1>4. HaveDiscs(d2, {r})
  BY <1>2, <1>3 DEF HaveDiscs, DiscsOf
<1>5. r \in DOMAIN d2.releases
  BY <1>3
<1>6. /\ Sound(d3) /\ HaveDiscs(d3, {}) /\ d3.discs[t] = r /\ d3.lastAsset = d2.lastAsset
      /\ (\A x \in Tocs : d2.discs[x] # 0 => d3.discs[x] # 0)
      /\ r \in DOMAIN d3.releases /\ d3.releases[r] = d2.releases[r]
  BY <1>3, <1>4, <1>5, DiscStep
<1> HIDE DEF d3
<1>7. a \in DOMAIN d3.albums
  BY <1>3, <1>6 DEF Sound, ForeignKeys
<1>8. /\ Sound(d4) /\ d4.albums = d3.albums /\ d4.releases = d3.releases /\ d4.discs = d3.discs
      /\ d4.lastAsset = d3.lastAsset
  BY <1>6, <1>7, DisputeStep
<1> HIDE DEF d4
<1>9. a \in DOMAIN d4.albums /\ r \in DOMAIN d4.releases
  BY <1>6, <1>7, <1>8
<1>10. /\ Sound(d5) /\ d5.discs = d4.discs /\ d5.overrides = d4.overrides
       /\ DOMAIN d5.releases = DOMAIN d4.releases
       /\ d5.albums[a] = CorrectedAlbum(d4, d4.albums[a])
       /\ d5.releases[r] = CorrectedRelease(d4, d4.releases[r])
       /\ (\A x \in DOMAIN d4.releases : d5.releases[x].album = d4.releases[x].album)
       /\ d5.lastAsset = d4.lastAsset
  BY <1>8, <1>9, OverrideStep
<1> HIDE DEF d5
<1>11. r \in DOMAIN d5.releases
  BY <1>9, <1>10
<1>12. /\ Sound(d6) /\ d6.lastAsset \in Nat /\ d5.lastAsset <= d6.lastAsset
       /\ d6.albums = d5.albums /\ d6.releases = d5.releases /\ d6.discs = d5.discs
       /\ d6.overrides = d5.overrides
  BY <1>10, <1>11, AssetStep
<1> HIDE DEF d6
<1>13. Wins(d5, t)
  <2>1. d5.discs[t] = r
    BY <1>6, <1>8, <1>10
  <2>2. d5.releases[r].album = a
    BY <1>3, <1>6, <1>8, <1>9, <1>10
  <2> DEFINE A == d4.albums[a]
             R == d4.releases[r]
  <2>3. A \in AlbumRow /\ R \in ReleaseRow
    BY <1>8, <1>9, DbFields, TableRows DEF Sound
  <2>4. /\ d5.albums[a] = CorrectedAlbum(d4, A)
        /\ d5.releases[r] = CorrectedRelease(d4, R)
    BY <1>10
  <2> HIDE DEF A, R
  <2>5. /\ d5.albums[a].key = A.key
        /\ d5.albums[a].title = Overriding(d4, A.key, "title", A.title)
        /\ d5.albums[a].mbid = Overriding(d4, A.key, "mbid", A.mbid)
    BY <2>3, <2>4 DEF CorrectedAlbum, AlbumRow
  <2>6. /\ d5.releases[r].key = R.key
        /\ d5.releases[r].label = Overriding(d4, R.key, "label", R.label)
        /\ d5.releases[r].mbid = Overriding(d4, R.key, "mbid", R.mbid)
    BY <2>3, <2>4 DEF CorrectedRelease, ReleaseRow
  <2>7. \A key, field, value :
          Overriding(d5, key, field, Overriding(d4, key, field, value))
            = Overriding(d4, key, field, value)
    BY <1>10, OverridingStays
  <2>8. QED
    BY <2>1, <2>2, <2>5, <2>6, <2>7 DEF Wins
<1>14. Wins(d6, t)
  BY <1>12, <1>13, WinsDependsOn
<1>15. HaveDiscs(d6, {})
  BY <1>6, <1>8, <1>10, <1>12 DEF HaveDiscs, DiscsOf
<1>16. d6.discs[t] # 0 /\ (\A x \in Tocs : d.discs[x] # 0 => d6.discs[x] # 0)
  BY <1>2, <1>3, <1>6, <1>8, <1>10, <1>12
<1>17. d.lastAsset <= d6.lastAsset
  BY <1>2, <1>3, <1>6, <1>8, <1>10, <1>12
<1>18. QED
  BY <1>1, <1>12, <1>14, <1>15, <1>16, <1>17

-----------------------------------------------------------------------------
(* The inductive invariant, an action at a time.                           *)

CopiesKnown == copies \subseteq AssetRow /\ \A copy \in copies : copy.id \in 1..db.lastAsset
CatalogInv ==
  /\ Sound(db) /\ HaveDiscs(db, {}) /\ CopiesKnown
  /\ outcome.result = "resolved" => Wins(db, outcome.toc)

LEMMA InitSound == Init => CatalogInv
<1> SUFFICES ASSUME Init PROVE CatalogInv
  OBVIOUS
<1>1. \A Ids, Row : <<>> \in Tables(Ids, Row)
  <2>1. \A Row : <<>> \in [{} -> Row]
    OBVIOUS
  <2>2. \A Ids : {} \in SUBSET Ids
    OBVIOUS
  <2>3. QED
    BY <2>1, <2>2 DEF Tables
<1>2. db \in Db
  BY <1>1 DEF Init, Db
<1>3. Counted(db) /\ ForeignKeys(db)
  BY DEF Init, Counted, ForeignKeys
<1>4. Linked(db)
  BY DEF Init, Linked, Links
<1>5. HaveDiscs(db, {}) /\ CopiesKnown
  BY DEF Init, HaveDiscs, CopiesKnown
<1>6. outcome.result # "resolved"
  BY DEF Init, NoOutcome
<1>7. QED
  BY <1>2, <1>3, <1>4, <1>5, <1>6 DEF CatalogInv, Sound

LEMMA IdentifySound ==
  ASSUME CatalogInv, NEW t \in Tocs, NEW c \in Candidates, NEW disputed,
         IdentifyDisc(t, c, disputed)
  PROVE  CatalogInv' /\ (\A x \in Tocs : db.discs[x] # 0 => db'.discs[x] # 0)
<1>1. CASE db' = Transaction(db, t, c, disputed) /\ outcome' = [toc |-> t, result |-> "resolved"]
  <2>1. /\ Sound(db') /\ HaveDiscs(db', {}) /\ Wins(db', t)
        /\ (\A x \in Tocs : db.discs[x] # 0 => db'.discs[x] # 0)
        /\ db'.lastAsset \in Nat /\ db.lastAsset <= db'.lastAsset
    BY <1>1, TransactionStep DEF CatalogInv
  <2>2. copies' = copies
    BY DEF IdentifyDisc
  <2>3. db.lastAsset \in Nat
    BY DbFields DEF CatalogInv, Sound
  <2>4. CopiesKnown'
    BY <2>1, <2>2, <2>3 DEF CatalogInv, CopiesKnown
  <2>5. outcome'.toc = t
    BY <1>1
  <2>6. QED
    BY <2>1, <2>4, <2>5 DEF CatalogInv
<1>2. CASE db' = db /\ outcome'.result # "resolved"
  <2>1. copies' = copies
    BY DEF IdentifyDisc
  <2>2. QED
    BY <1>2, <2>1 DEF CatalogInv, CopiesKnown
<1>3. QED
  BY <1>1, <1>2 DEF IdentifyDisc

LEMMA CorrectSound ==
  ASSUME CatalogInv, Correct
  PROVE  CatalogInv' /\ db'.discs = db.discs
<1>1. PICK o \in Corrections :
        \E id \in (IF o[1] = "album" THEN DOMAIN db.albums ELSE DOMAIN db.releases) :
          InsertOverride(o[1], id, o[2], o[3])
  BY DEF Correct
<1>2. PICK id \in (IF o[1] = "album" THEN DOMAIN db.albums ELSE DOMAIN db.releases) :
        InsertOverride(o[1], id, o[2], o[3])
  BY <1>1
<1> DEFINE key == IF o[1] = "album" THEN db.albums[id].key ELSE db.releases[id].key
           n == db.lastOverride + 1
           row == [key |-> key, field |-> o[2], value |-> o[3]]
           T == With(db.overrides, n, row)
<1>3. db \in Db /\ Counted(db) /\ ForeignKeys(db) /\ Linked(db)
  BY DEF CatalogInv, Sound
<1>4. key \in AlbumKeys \cup ReleaseKeys /\ (Taken(db.albums, key) \/ Taken(db.releases, key))
  <2>1. CASE o[1] = "album"
    <3>1. db.albums[id] \in AlbumRow
      BY <1>3, <2>1, DbFields, TableRows
    <3>2. key = db.albums[id].key /\ id \in DOMAIN db.albums
      BY <2>1
    <3>3. QED
      BY <3>1, <3>2 DEF AlbumRow, Taken
  <2>2. CASE o[1] # "album"
    <3>1. db.releases[id] \in ReleaseRow
      BY <1>3, <2>2, DbFields, TableRows
    <3>2. key = db.releases[id].key /\ id \in DOMAIN db.releases
      BY <2>2
    <3>3. QED
      BY <3>1, <3>2 DEF ReleaseRow, Taken
  <2>3. QED
    BY <2>1, <2>2
<1>5. db' = [db EXCEPT !.lastOverride = n, !.overrides = T]
  BY <1>2, <1>3 DEF InsertOverride, Db
<1>6. outcome' = NoOutcome /\ copies' = copies
  BY <1>2 DEF InsertOverride
<1> HIDE DEF key
<1>7. row \in OverrideRow /\ row.key = key
  BY <1>4 DEF OverrideRow
<1>8. n \in Nat /\ n \in 1..n /\ 1..db.lastOverride \subseteq 1..n
  BY <1>3, DbFields
<1> HIDE DEF row, n
<1>9. T \in Tables(Nat, OverrideRow)
  BY <1>3, <1>7, <1>8, DbFields, TableWith
<1>10. DOMAIN T = DOMAIN db.overrides \cup {n} /\ T[n] = row
      /\ (\A i \in DOMAIN db.overrides : i # n => T[i] = db.overrides[i])
  BY DEF With
<1> HIDE DEF T
<1>11. /\ db' \in Db /\ db'.overrides = T /\ db'.lastOverride = n
       /\ db'.albums = db.albums /\ db'.releases = db.releases /\ db'.discs = db.discs
       /\ db'.assets = db.assets /\ db'.disputes = db.disputes
       /\ db'.lastAlbum = db.lastAlbum /\ db'.lastRelease = db.lastRelease
       /\ db'.lastAsset = db.lastAsset
  BY <1>3, <1>5, <1>8, <1>9 DEF Db
<1>12. Counted(db') /\ ForeignKeys(db')
  BY <1>3, <1>8, <1>10, <1>11 DEF Counted, ForeignKeys
<1>13. Links(db') \subseteq Links(db) \cup {key}
  BY <1>7, <1>10, <1>11 DEF Links
<1>14. Linked(db')
  BY <1>3, <1>4, <1>11, <1>13 DEF Linked
<1>15. HaveDiscs(db', {})
  BY <1>11 DEF CatalogInv, HaveDiscs, DiscsOf
<1>16. CopiesKnown'
  BY <1>6, <1>11 DEF CatalogInv, CopiesKnown
<1>17. outcome'.result # "resolved"
  BY <1>6 DEF NoOutcome
<1>18. QED
  BY <1>11, <1>12, <1>14, <1>15, <1>16, <1>17 DEF CatalogInv, Sound

LEMMA LoadSound ==
  ASSUME CatalogInv, NEW u \in DOMAIN db.assets, LoadAsset(u)
  PROVE  CatalogInv' /\ db'.discs = db.discs
<1>1. db.assets[u] \in AssetRow /\ db.assets[u].id \in 1..db.lastAsset
  BY DbFields, TableRows DEF CatalogInv, Sound, Counted
<1>2. CopiesKnown'
  BY <1>1 DEF LoadAsset, CatalogInv, CopiesKnown
<1>3. db' = db /\ outcome' = outcome
  BY DEF LoadAsset
<1>4. QED
  BY <1>2, <1>3 DEF CatalogInv

LEMMA CacheSound ==
  ASSUME CatalogInv, NEW copy \in copies, CacheAsset(copy)
  PROVE  CatalogInv' /\ db'.discs = db.discs
<1> DEFINE S == {u \in DOMAIN db.assets : db.assets[u].id = copy.id}
           row == [copy EXCEPT !.cached = TRUE]
           T == [u \in DOMAIN db.assets |-> IF u \in S THEN row ELSE db.assets[u]]
<1>1. copies' = copies \ {copy} /\ outcome' = outcome
  BY DEF CacheAsset
<1>2. CASE UNCHANGED db
  BY <1>1, <1>2 DEF CatalogInv, CopiesKnown
<1>3. CASE copy.release \in DOMAIN db.releases /\ db' = [db EXCEPT !.assets = T]
  <2>1. db \in Db /\ Counted(db) /\ ForeignKeys(db) /\ Linked(db)
    BY DEF CatalogInv, Sound
  <2>2. /\ row \in AssetRow /\ row.release \in DOMAIN db.releases
        /\ row.id \in 1..db.lastAsset
    <3>1. copy \in AssetRow /\ copy.id \in 1..db.lastAsset
      BY DEF CatalogInv, CopiesKnown
    <3>2. row \in AssetRow /\ row.release = copy.release /\ row.id = copy.id
      BY <3>1 DEF AssetRow
    <3>3. QED
      BY <1>3, <3>1, <3>2
  <2>3. db.assets \in [DOMAIN db.assets -> AssetRow] /\ DOMAIN db.assets \subseteq Urls
    BY <2>1, DbFields, TableRows
  <2> HIDE DEF row, S
  <2>4. T \in [DOMAIN db.assets -> AssetRow]
    BY <2>2, <2>3
  <2>5. T \in Tables(Urls, AssetRow)
    BY <2>3, <2>4 DEF Tables
  <2>6. DOMAIN T = DOMAIN db.assets
        /\ (\A u \in DOMAIN T : T[u] = row \/ T[u] = db.assets[u])
    OBVIOUS
  <2> HIDE DEF T
  <2>7. /\ db' \in Db /\ db'.assets = T
        /\ db'.albums = db.albums /\ db'.releases = db.releases /\ db'.discs = db.discs
        /\ db'.overrides = db.overrides /\ db'.disputes = db.disputes
        /\ db'.lastAlbum = db.lastAlbum /\ db'.lastRelease = db.lastRelease
        /\ db'.lastAsset = db.lastAsset /\ db'.lastOverride = db.lastOverride
    BY <1>3, <2>1, <2>5 DEF Db
  <2>8. Counted(db') /\ ForeignKeys(db')
    BY <2>1, <2>2, <2>6, <2>7 DEF Counted, ForeignKeys
  <2>9. KeysKept(db, db')
    BY <2>7 DEF KeysKept
  <2>10. Linked(db')
    BY <2>1, <2>7, <2>9, LinksKept
  <2>11. HaveDiscs(db', {})
    BY <2>7 DEF CatalogInv, HaveDiscs, DiscsOf
  <2>12. CopiesKnown'
    BY <1>1, <2>7 DEF CatalogInv, CopiesKnown
  <2>13. outcome.result = "resolved" => Wins(db', outcome.toc)
    BY <2>7, WinsDependsOn DEF CatalogInv
  <2>14. QED
    BY <1>1, <2>7, <2>8, <2>10, <2>11, <2>12, <2>13 DEF CatalogInv, Sound
<1>4. QED
  BY <1>2, <1>3 DEF CacheAsset

LEMMA StepSound ==
  ASSUME CatalogInv, [Next]_vars
  PROVE  CatalogInv' /\ (\A x \in Tocs : db.discs[x] # 0 => db'.discs[x] # 0)
<1>1. CASE \E t \in Tocs, c \in Candidates, disputed \in SUBSET {"album", "release"} :
             IdentifyDisc(t, c, disputed)
  BY <1>1, IdentifySound
<1>2. CASE Correct
  BY <1>2, CorrectSound
<1>3. CASE \E u \in DOMAIN db.assets : LoadAsset(u)
  BY <1>3, LoadSound
<1>4. CASE \E copy \in copies : CacheAsset(copy)
  BY <1>4, CacheSound
<1>5. CASE UNCHANGED vars
  BY <1>5 DEF vars, CatalogInv, CopiesKnown
<1>6. QED
  BY <1>1, <1>2, <1>3, <1>4, <1>5 DEF Next

LEMMA InvMeans ==
  ASSUME CatalogInv
  PROVE  ReferencesHold /\ AuthorityWins
<1>1. CatalogTypeOK
  <2>1. db \in Db /\ Counted(db) /\ ForeignKeys(db)
    BY DEF CatalogInv, Sound
  <2>2. \A a \in DOMAIN db.albums :
          db.albums[a].mbid \in Values("group") /\ db.albums[a].title \in Values("title")
    <3>1. \A a \in DOMAIN db.albums : db.albums[a] \in AlbumRow
      BY <2>1, DbFields, TableRows
    <3>2. QED
      BY <3>1 DEF AlbumRow
  <2>3. \A r \in DOMAIN db.releases :
          db.releases[r].mbid \in Values("mbid") /\ db.releases[r].label \in Values("label")
    <3>1. \A r \in DOMAIN db.releases : db.releases[r] \in ReleaseRow
      BY <2>1, DbFields, TableRows
    <3>2. QED
      BY <3>1 DEF ReleaseRow
  <2>4. db.discs \in [Tocs -> {0} \cup DOMAIN db.releases]
    BY <2>1, DbFields DEF ForeignKeys
  <2>5. DOMAIN db.assets \subseteq Urls
    BY <2>1, DbFields, TableRows
  <2>6. db.lastAlbum \in Nat /\ db.lastRelease \in Nat /\ db.lastAsset \in Nat
    BY <2>1, DbFields
  <2>7. QED
    BY <2>1, <2>2, <2>3, <2>4, <2>5, <2>6 DEF CatalogTypeOK, Counted, ForeignKeys
<1>2. ReleasesHaveDiscs
  BY DEF CatalogInv, HaveDiscs, ReleasesHaveDiscs
<1>3. LinksResolve
  BY DEF CatalogInv, Sound, Linked, Links, LinksResolve
<1>4. AuthorityWins
  BY DEF CatalogInv, AuthorityWins, Wins
<1>5. QED
  BY <1>1, <1>2, <1>3, <1>4 DEF ReferencesHold

LEMMA AlwaysSound == Spec => []CatalogInv
<1>1. CatalogInv /\ [Next]_vars => CatalogInv'
  BY StepSound
<1>2. QED
  BY InitSound, <1>1, PTL DEF Spec

\* What points at a row finds it, with a foreign key or without, and no
\* release is without a disc, after any identifications, corrections and
\* cached pictures.
THEOREM ReferencesAlwaysHold == Spec => []ReferencesHold
<1>1. CatalogInv => ReferencesHold
  BY InvMeans
<1>2. QED
  BY AlwaysSound, <1>1, PTL

\* The album and the release of a disc just identified carry the user's last
\* correction of every field, whatever the providers said.
THEOREM UserAlwaysWins == Spec => []AuthorityWins
<1>1. CatalogInv => AuthorityWins
  BY InvMeans
<1>2. QED
  BY AlwaysSound, <1>1, PTL

\* Identifying one disc takes no disc out of the catalog.
THEOREM NoDiscLost == Spec => DiscsStay
<1>1. CatalogInv /\ [Next]_vars => [\A t \in Tocs : db.discs[t] # 0 => db'.discs[t] # 0]_vars
  BY StepSound
<1>2. QED
  BY AlwaysSound, <1>1, PTL DEF Spec, DiscsStay

-----------------------------------------------------------------------------
(* When every release comes from MusicBrainz, releases stay in their       *)
(* groups and the user corrects no MusicBrainz id, identifying again is    *)
(* clean, and authority survives it (without that it is not and does not:  *)
(* the runs of Catalog_refuted.cfg).                                       *)

SteadySources ==
  /\ \A c \in Candidates : c.mbid # None /\ c.group # None
  /\ \A b, c \in Candidates : b.mbid = c.mbid => b.group = c.group
  /\ \A o \in Corrections : o[2] # "mbid"

\* Rows are known by the MusicBrainz id they have, and a release is in the
\* album of its group.
AlbumsByMbid(d) ==
  /\ \A a \in DOMAIN d.albums : d.albums[a].key = MbidKey("album", d.albums[a].mbid)
  /\ \A a, b \in DOMAIN d.albums : d.albums[a].mbid = d.albums[b].mbid => a = b
ReleasesByMbid(d) ==
  \A r \in DOMAIN d.releases :
    /\ d.releases[r].key = MbidKey("release", d.releases[r].mbid)
    /\ \A c \in Candidates :
         c.mbid = d.releases[r].mbid => d.albums[d.releases[r].album].mbid = c.group
Steady(d) == AlbumsByMbid(d) /\ ReleasesByMbid(d)

LEMMA SteadyAlbum ==
  ASSUME SteadySources, NEW d, Sound(d), Steady(d), NEW c \in Candidates
  PROVE  LET e == UpsertAlbum(d, c) IN
         /\ ~AlbumCollides(d, c) /\ Steady(e) /\ e.albums[AlbumOf(d, c)].mbid = c.group
<1> DEFINE a == AlbumOf(d, c)
           e == UpsertAlbum(d, c)
           f == FindAlbumByMbid(d, c.group)
           S == {x \in DOMAIN d.albums : c.group # None /\ d.albums[x].mbid = c.group}
<1>1. c.group # None /\ AlbumKey(d, c) = MbidKey("album", c.group)
  BY DEF SteadySources, AlbumKey
<1>2. IF S = {} THEN f = 0 ELSE f \in S
  <2>1. S \subseteq Nat \ {0}
    BY DbFields DEF Sound, Counted
  <2>2. QED
    BY <2>1, FirstFound DEF FindAlbumByMbid
<1>3. /\ KeysKept(d, e) /\ e.releases = d.releases
      /\ DOMAIN e.albums = DOMAIN d.albums \cup {a}
      /\ \A x \in DOMAIN d.albums : e.albums[x].mbid = d.albums[x].mbid
      /\ f = 0 => /\ a \notin DOMAIN d.albums
                  /\ e.albums[a].key = AlbumKey(d, c) /\ e.albums[a].mbid = c.group
  BY AlbumStep
<1>4. f # 0 => a = f
  BY DEF AlbumOf
<1> HIDE DEF e, f, a
<1>5. f = 0 => \A x \in DOMAIN d.albums : d.albums[x].mbid # c.group
  <2>1. 0 \notin S
    BY DbFields DEF Sound, Counted
  <2>2. QED
    BY <1>1, <1>2, <2>1
<1>6. ~AlbumCollides(d, c)
  <2>1. SUFFICES ASSUME f = 0, NEW x \in DOMAIN d.albums, d.albums[x].key = AlbumKey(d, c)
                 PROVE  FALSE
    BY DEF AlbumCollides, Taken, f
  <2>2. d.albums[x].mbid = c.group
    BY <1>1, <2>1 DEF Steady, AlbumsByMbid, MbidKey
  <2>3. QED
    BY <1>5, <2>1, <2>2
<1>7. e.albums[a].mbid = c.group
  BY <1>2, <1>3, <1>4
<1>8. \A x \in DOMAIN d.albums : e.albums[x].key = d.albums[x].key
  BY <1>3 DEF KeysKept
<1>9. AlbumsByMbid(e)
  <2>1. CASE f = 0
    <3>1. \A x \in DOMAIN e.albums : e.albums[x].key = MbidKey("album", e.albums[x].mbid)
      BY <1>1, <1>3, <1>8, <2>1 DEF Steady, AlbumsByMbid
    <3>2. ASSUME NEW x \in DOMAIN e.albums, NEW y \in DOMAIN e.albums,
                 e.albums[x].mbid = e.albums[y].mbid
          PROVE  x = y
      BY <1>3, <1>5, <2>1, <3>2 DEF Steady, AlbumsByMbid
    <3>3. QED
      BY <3>1, <3>2 DEF AlbumsByMbid
  <2>2. CASE f # 0
    <3>1. DOMAIN e.albums = DOMAIN d.albums
      BY <1>2, <1>3, <1>4, <2>2
    <3>2. QED
      BY <1>3, <1>8, <3>1 DEF Steady, AlbumsByMbid
  <2>3. QED
    BY <2>1, <2>2
<1>10. ReleasesByMbid(e)
  BY <1>3 DEF Steady, ReleasesByMbid, Sound, ForeignKeys
<1>11. QED
  BY <1>6, <1>7, <1>9, <1>10 DEF Steady, e, a

LEMMA SteadyRelease ==
  ASSUME SteadySources, NEW d, Sound(d), Steady(d), NEW c \in Candidates,
         NEW a \in DOMAIN d.albums, d.albums[a].mbid = c.group
  PROVE  LET e == UpsertRelease(d, a, c)
             r == ReleaseOf(d, a, c)
         IN  /\ ~ReleaseCollides(d, a, c) /\ Steady(e)
             /\ \A x \in DOMAIN d.releases : e.releases[x].album = d.releases[x].album
<1> DEFINE r == ReleaseOf(d, a, c)
           e == UpsertRelease(d, a, c)
           f == FindRelease(d, a, c)
           byMbid == {x \in ReleasesOf(d, a) : c.mbid # None /\ d.releases[x].mbid = c.mbid}
           byKey == {x \in DOMAIN d.releases : d.releases[x].key = CandidateKey(c.key)}
<1>1. c.mbid # None /\ ReleaseKey(d, c) = MbidKey("release", c.mbid)
  BY DEF SteadySources, ReleaseKey
<1>2. byKey = {}
  BY DEF Steady, ReleasesByMbid, MbidKey, CandidateKey
<1>3. IF byMbid = {} THEN f = 0 ELSE f \in byMbid
  <2>1. byMbid \subseteq Nat \ {0}
    BY DbFields DEF Sound, Counted, ReleasesOf
  <2>2. f = FirstOrZero(byMbid)
    <3>1. f = FirstOrZero(IF byMbid # {} THEN byMbid ELSE byKey)
      BY DEF FindRelease
    <3> HIDE DEF byMbid, byKey, f
    <3>2. QED
      BY <1>2, <3>1
  <2> HIDE DEF byMbid, f
  <2>3. QED
    BY <2>1, <2>2, FirstFound
<1>4. /\ KeysKept(d, e) /\ DOMAIN e.releases = DOMAIN d.releases \cup {r}
      /\ e.releases[r].album = a /\ e.albums = d.albums
      /\ \A x \in DOMAIN d.releases :
           /\ e.releases[x].mbid = d.releases[x].mbid
           /\ x # r => e.releases[x].album = d.releases[x].album
      /\ IF f = 0
          THEN /\ r \notin DOMAIN d.releases /\ e.releases[r].key = ReleaseKey(d, c)
               /\ e.releases[r].mbid = c.mbid
          ELSE r = f
  BY ReleaseStep
<1>5. \A x \in byMbid : x \in DOMAIN d.releases /\ x # 0 /\ d.releases[x].album = a
  BY DbFields DEF ReleasesOf, Sound, Counted
<1>6. \A x \in DOMAIN d.releases : d.releases[x].mbid = c.mbid => x \in byMbid
  <2>1. SUFFICES ASSUME NEW x \in DOMAIN d.releases, d.releases[x].mbid = c.mbid
                 PROVE  d.releases[x].album = a
    BY <1>1, <2>1 DEF ReleasesOf
  <2>2. d.albums[d.releases[x].album].mbid = c.group /\ d.releases[x].album \in DOMAIN d.albums
    BY <2>1 DEF Steady, ReleasesByMbid, Sound, ForeignKeys
  <2>3. QED
    BY <2>2 DEF Steady, AlbumsByMbid
<1> HIDE DEF e, f, r, byMbid
<1>7. ~ReleaseCollides(d, a, c)
  <2>1. SUFFICES ASSUME f = 0, NEW x \in DOMAIN d.releases, d.releases[x].key = ReleaseKey(d, c)
                 PROVE  FALSE
    BY DEF ReleaseCollides, Taken, f
  <2>2. d.releases[x].mbid = c.mbid
    BY <1>1, <2>1 DEF Steady, ReleasesByMbid, MbidKey
  <2>3. QED
    BY <1>3, <1>5, <1>6, <2>1, <2>2
<1>8. \A x \in DOMAIN d.releases : e.releases[x].album = d.releases[x].album
  BY <1>3, <1>4, <1>5
<1>9. \A x \in DOMAIN d.releases : e.releases[x].key = d.releases[x].key
  BY <1>4 DEF KeysKept
<1>10. ReleasesByMbid(e)
  <2>1. ASSUME NEW x \in DOMAIN d.releases
        PROVE  /\ e.releases[x].key = MbidKey("release", e.releases[x].mbid)
               /\ \A b \in Candidates :
                    b.mbid = e.releases[x].mbid => e.albums[e.releases[x].album].mbid = b.group
    BY <1>4, <1>8, <1>9 DEF Steady, ReleasesByMbid
  <2>2. CASE f = 0
    <3>1. /\ e.releases[r].key = MbidKey("release", e.releases[r].mbid)
          /\ \A b \in Candidates :
               b.mbid = e.releases[r].mbid => e.albums[e.releases[r].album].mbid = b.group
      BY <1>1, <1>4, <2>2 DEF SteadySources
    <3>2. QED
      BY <1>4, <2>1, <3>1 DEF ReleasesByMbid
  <2>3. CASE f # 0
    <3>1. r \in DOMAIN d.releases
      BY <1>3, <1>4, <1>5, <2>3
    <3>2. QED
      BY <1>4, <2>1, <3>1 DEF ReleasesByMbid
  <2>4. QED
    BY <2>2, <2>3
<1>11. AlbumsByMbid(e)
  BY <1>4 DEF Steady, AlbumsByMbid
<1>12. QED
  BY <1>7, <1>8, <1>10, <1>11 DEF Steady, e

LEMMA SteadyTransaction ==
  ASSUME SteadySources, NEW d, Sound(d), HaveDiscs(d, {}), HaveReleases(d), Steady(d),
         NEW t \in Tocs, NEW c \in Candidates, NEW disputed
  PROVE  LET e == Transaction(d, t, c, disputed)
             old == d.albums[d.releases[d.discs[t]].album]
             new == e.albums[e.releases[e.discs[t]].album]
         IN  /\ ~Collides(d, c) /\ HaveReleases(e) /\ Steady(e)
             /\ d.discs[t] # 0 /\ e.discs[t] = d.discs[t]
                  /\ Overriding(d, old.key, "title", None) # None
                => new.title = Overriding(d, old.key, "title", None)
<1> DEFINE a  == AlbumOf(d, c)
           d1 == UpsertAlbum(d, c)
           r  == ReleaseOf(d1, a, c)
           d2 == UpsertRelease(d1, a, c)
           d3 == UpsertDisc(d2, r, t)
           d4 == PersistDisagreements(d3, a, r, disputed)
           d5 == ApplyAllOverrides(d4, a, r)
           d6 == InsertAsset(d5, r, c.cover)
<1>1. Transaction(d, t, c, disputed) = d6
  BY DEF Transaction
<1>2. /\ Sound(d1) /\ a \in DOMAIN d1.albums /\ KeysKept(d, d1)
      /\ d1.releases = d.releases /\ d1.discs = d.discs /\ d1.overrides = d.overrides
      /\ DOMAIN d1.albums = DOMAIN d.albums \cup {a}
  BY AlbumStep
<1>3. ~AlbumCollides(d, c) /\ Steady(d1) /\ d1.albums[a].mbid = c.group
  BY SteadyAlbum
<1>4. Collides(d, c) <=> AlbumCollides(d, c) \/ ReleaseCollides(d1, a, c)
  BY DEF Collides
<1> HIDE DEF a, d1
<1>5. /\ Sound(d2) /\ r # 0 /\ d2.albums = d1.albums /\ d2.overrides = d1.overrides
      /\ DOMAIN d2.releases = DOMAIN d1.releases \cup {r} /\ d2.releases[r].album = a
      /\ d2.discs = d1.discs
  BY <1>2, ReleaseStep
<1>6. /\ ~ReleaseCollides(d1, a, c) /\ Steady(d2)
      /\ \A x \in DOMAIN d1.releases : d2.releases[x].album = d1.releases[x].album
  BY <1>2, <1>3, SteadyRelease
<1> HIDE DEF r, d2
<1>7. HaveDiscs(d2, {r})
  BY <1>2, <1>5 DEF HaveDiscs, DiscsOf
<1>8. HaveReleases(d2)
  <2>1. ASSUME NEW x \in DOMAIN d2.albums PROVE ReleasesOf(d2, x) # {}
    <3>1. CASE x = a
      BY <1>5, <3>1 DEF ReleasesOf
    <3>2. CASE x # a
      <4>1. PICK y \in DOMAIN d.releases : d.releases[y].album = x
        BY <1>2, <1>5, <3>2 DEF HaveReleases, ReleasesOf
      <4>2. y \in DOMAIN d2.releases /\ d2.releases[y].album = x
        BY <1>2, <1>5, <1>6, <4>1
      <4>3. QED
        BY <4>2 DEF ReleasesOf
    <3>3. QED
      BY <3>1, <3>2
  <2>2. QED
    BY <2>1 DEF HaveReleases
<1>9. r \in DOMAIN d2.releases
  BY <1>5
<1>10. /\ Sound(d3) /\ d3.discs[t] = r /\ r \in DOMAIN d3.releases
       /\ d3.releases[r] = d2.releases[r] /\ Within(d2, d3)
       /\ d2.discs[t] = r => d3.overrides = d2.overrides
  BY <1>5, <1>7, <1>9, DiscStep
<1> HIDE DEF d3
<1>11. HaveReleases(d3)
  BY <1>8, <1>10 DEF Within
<1>12. Steady(d3)
  <2>1. \A x \in DOMAIN d3.releases : d3.releases[x].album \in DOMAIN d3.albums
    BY <1>10 DEF Sound, ForeignKeys
  <2>2. AlbumsByMbid(d3)
    BY <1>6, <1>10 DEF Steady, AlbumsByMbid, Within
  <2>3. ReleasesByMbid(d3)
    BY <1>6, <1>10, <2>1 DEF Steady, ReleasesByMbid, Within
  <2>4. QED
    BY <2>2, <2>3 DEF Steady
<1>13. a \in DOMAIN d3.albums
  BY <1>5, <1>10 DEF Sound, ForeignKeys
<1>14. /\ Sound(d4) /\ d4.albums = d3.albums /\ d4.releases = d3.releases /\ d4.discs = d3.discs
       /\ d4.overrides = d3.overrides
  BY <1>10, <1>13, DisputeStep
<1> HIDE DEF d4
<1>15. a \in DOMAIN d4.albums /\ r \in DOMAIN d4.releases
  BY <1>10, <1>13, <1>14
<1>16. /\ Sound(d5) /\ d5.discs = d4.discs
       /\ DOMAIN d5.albums = DOMAIN d4.albums /\ DOMAIN d5.releases = DOMAIN d4.releases
       /\ d5.albums[a] = CorrectedAlbum(d4, d4.albums[a])
       /\ (\A x \in DOMAIN d4.albums : x # a => d5.albums[x] = d4.albums[x])
       /\ d5.releases[r] = CorrectedRelease(d4, d4.releases[r])
       /\ (\A x \in DOMAIN d4.releases : x # r => d5.releases[x] = d4.releases[x])
       /\ (\A x \in DOMAIN d4.releases : d5.releases[x].album = d4.releases[x].album)
  BY <1>14, <1>15, OverrideStep
<1> HIDE DEF d5
<1>17. r \in DOMAIN d5.releases
  BY <1>15, <1>16
<1>18. /\ d6.albums = d5.albums /\ d6.releases = d5.releases /\ d6.discs = d5.discs
  BY <1>16, <1>17, AssetStep
<1> HIDE DEF d6
<1> DEFINE A == d4.albums[a]
           R == d4.releases[r]
<1>19. A \in AlbumRow /\ R \in ReleaseRow
  BY <1>14, <1>15, DbFields, TableRows DEF Sound
<1>20. \A key, value : Overriding(d4, key, "mbid", value) = value
  <2>1. \A i \in DOMAIN d4.overrides : d4.overrides[i] \in OverrideRow
    BY <1>14, DbFields, TableRows DEF Sound
  <2>2. \A i \in DOMAIN d4.overrides : d4.overrides[i].field # "mbid"
    BY <2>1 DEF OverrideRow, SteadySources
  <2>3. QED
    BY <2>2 DEF Overriding
<1> HIDE DEF A, R
<1>21. /\ d5.albums[a].key = A.key /\ d5.albums[a].mbid = A.mbid
       /\ d5.albums[a].title = Overriding(d4, A.key, "title", A.title)
       /\ d5.releases[r].key = R.key /\ d5.releases[r].mbid = R.mbid
  <2>1. d5.albums[a] = CorrectedAlbum(d4, A) /\ d5.releases[r] = CorrectedRelease(d4, R)
    BY <1>16 DEF A, R
  <2>2. QED
    BY <1>19, <1>20, <2>1 DEF CorrectedAlbum, CorrectedRelease, AlbumRow, ReleaseRow
<1>22. /\ \A x \in DOMAIN d4.albums :
            d5.albums[x].key = d4.albums[x].key /\ d5.albums[x].mbid = d4.albums[x].mbid
       /\ \A x \in DOMAIN d4.releases :
            d5.releases[x].key = d4.releases[x].key /\ d5.releases[x].mbid = d4.releases[x].mbid
  BY <1>16, <1>21 DEF A, R
<1>23. Steady(d4)
  BY <1>12, <1>14 DEF Steady, AlbumsByMbid, ReleasesByMbid
<1>24. AlbumsByMbid(d5)
  BY <1>16, <1>22, <1>23 DEF Steady, AlbumsByMbid
<1>25. ReleasesByMbid(d5)
  <2>1. \A x \in DOMAIN d4.releases : d4.releases[x].album \in DOMAIN d4.albums
    BY <1>14 DEF Sound, ForeignKeys
  <2>2. QED
    BY <1>16, <1>22, <1>23, <2>1 DEF Steady, ReleasesByMbid
<1>26. Steady(d6)
  BY <1>18, <1>24, <1>25 DEF Steady, AlbumsByMbid, ReleasesByMbid
<1>27. HaveReleases(d6)
  BY <1>11, <1>14, <1>16, <1>18 DEF HaveReleases, ReleasesOf
<1>28. ASSUME d.discs[t] # 0, d6.discs[t] = d.discs[t],
              Overriding(d, d.albums[d.releases[d.discs[t]].album].key, "title", None) # None
       PROVE  d6.albums[d6.releases[d6.discs[t]].album].title
                = Overriding(d, d.albums[d.releases[d.discs[t]].album].key, "title", None)
  <2>1. d.discs[t] = r /\ d6.discs[t] = r
    BY <1>10, <1>14, <1>16, <1>18, <1>28
  <2>2. r \in DOMAIN d.releases
    BY <1>28, <2>1 DEF Sound, ForeignKeys
  <2>3. d.releases[r].album = a
    BY <1>2, <1>5, <1>6, <2>2
  <2>4. a \in DOMAIN d.albums
    BY <2>2, <2>3 DEF Sound, ForeignKeys
  <2>5. A.key = d.albums[a].key
    BY <1>2, <1>5, <1>10, <1>13, <1>14, <2>4 DEF KeysKept, Within, A
  <2>6. d4.overrides = d.overrides
    BY <1>2, <1>5, <1>10, <1>14, <2>1
  <2>7. d6.releases[r].album = a
    BY <1>5, <1>10, <1>14, <1>15, <1>16, <1>18
  <2>8. d6.albums[a].title = Overriding(d, A.key, "title", A.title)
    BY <1>18, <1>21, <2>6, OverridingStays
  <2>9. Overriding(d, A.key, "title", None) # None
    BY <1>28, <2>1, <2>3, <2>5
  <2>10. Overriding(d, A.key, "title", A.title) = Overriding(d, A.key, "title", None)
    BY <2>9 DEF Overriding
  <2>11. QED
    BY <2>1, <2>3, <2>5, <2>7, <2>8, <2>10
<1>29. QED
  BY <1>1, <1>3, <1>4, <1>6, <1>26, <1>27, <1>28

SteadyInv ==
  CatalogInv /\ HaveReleases(db) /\ Steady(db) /\ outcome.result # "collision"

\* No step but an identification touches an album, a release or a disc.
LEMMA OthersKeep ==
  ASSUME Correct \/ (\E u \in DOMAIN db.assets : LoadAsset(u))
           \/ (\E copy \in copies : CacheAsset(copy)),
         CatalogInv
  PROVE  /\ db'.albums = db.albums /\ db'.releases = db.releases /\ db'.discs = db.discs
         /\ outcome' \in {outcome, NoOutcome}
<1>1. db \in Db
  BY DEF CatalogInv, Sound
<1>2. QED
  BY <1>1 DEF Correct, InsertOverride, LoadAsset, CacheAsset, Db

LEMMA SteadyStep ==
  ASSUME SteadySources, SteadyInv, [Next]_vars
  PROVE  /\ SteadyInv'
         /\ [\A t \in Tocs :
               /\ outcome' = [toc |-> t, result |-> "resolved"]
               /\ db.discs[t] # 0 /\ db'.discs[t] = db.discs[t]
               /\ Corrected(AlbumOfDisc(t))
               => AlbumOfDisc(t)'.title
                    = Overriding(db, AlbumOfDisc(t).key, "title", None)]_vars
<1> DEFINE Survives(t) ==
             /\ outcome' = [toc |-> t, result |-> "resolved"]
             /\ db.discs[t] # 0 /\ db'.discs[t] = db.discs[t]
             /\ Corrected(AlbumOfDisc(t))
             => AlbumOfDisc(t)'.title = Overriding(db, AlbumOfDisc(t).key, "title", None)
<1>1. CatalogInv /\ CatalogInv'
  BY StepSound DEF SteadyInv
<1>2. ASSUME db'.albums = db.albums, db'.releases = db.releases, db'.discs = db.discs,
             outcome' = outcome, NEW t \in Tocs
      PROVE  Survives(t)
  <2>1. SUFFICES ASSUME outcome = [toc |-> t, result |-> "resolved"],
                        Corrected(AlbumOfDisc(t))
                 PROVE  AlbumOfDisc(t).title
                          = Overriding(db, AlbumOfDisc(t).key, "title", None)
    BY <1>2 DEF AlbumOfDisc
  <2>2. Wins(db, t)
    BY <1>1, <2>1 DEF CatalogInv
  <2> DEFINE album == AlbumOfDisc(t)
  <2>3. album.title = Overriding(db, album.key, "title", album.title)
    BY <2>2 DEF Wins, AlbumOfDisc
  <2>4. Overriding(db, album.key, "title", None) # None
    BY <2>1 DEF Corrected
  <2> HIDE DEF album
  <2>5. Overriding(db, album.key, "title", album.title)
          = Overriding(db, album.key, "title", None)
    BY <2>4 DEF Overriding
  <2>6. QED
    BY <2>3, <2>5 DEF album
<1>3. ASSUME NEW t \in Tocs, NEW c \in Candidates, NEW disputed, IdentifyDisc(t, c, disputed)
      PROVE  SteadyInv' /\ (\A x \in Tocs : Survives(x))
  <2>1. Sound(db) /\ HaveDiscs(db, {}) /\ HaveReleases(db) /\ Steady(db)
    BY DEF SteadyInv, CatalogInv
  <2>2. LET e == Transaction(db, t, c, disputed)
            old == db.albums[db.releases[db.discs[t]].album]
            new == e.albums[e.releases[e.discs[t]].album]
        IN  /\ ~Collides(db, c) /\ HaveReleases(e) /\ Steady(e)
            /\ db.discs[t] # 0 /\ e.discs[t] = db.discs[t]
                 /\ Overriding(db, old.key, "title", None) # None
               => new.title = Overriding(db, old.key, "title", None)
    BY <2>1, SteadyTransaction
  <2>3. CASE /\ db' = Transaction(db, t, c, disputed)
             /\ outcome' = [toc |-> t, result |-> "resolved"]
    <3>1. SteadyInv'
      BY <1>1, <2>2, <2>3 DEF SteadyInv
    <3>2. Survives(t)
      BY <2>2, <2>3 DEF AlbumOfDisc, Corrected
    <3>3. QED
      BY <2>3, <3>1, <3>2
  <2>4. CASE db' = db /\ outcome' = [toc |-> t, result |-> "failed"]
    BY <1>1, <2>4 DEF SteadyInv
  <2>5. QED
    BY <1>3, <2>2, <2>3, <2>4 DEF IdentifyDisc
<1>4. ASSUME Correct \/ (\E u \in DOMAIN db.assets : LoadAsset(u))
               \/ (\E copy \in copies : CacheAsset(copy))
      PROVE  SteadyInv' /\ (\A x \in Tocs : Survives(x))
  <2>1. /\ db'.albums = db.albums /\ db'.releases = db.releases /\ db'.discs = db.discs
        /\ outcome' \in {outcome, NoOutcome}
    BY <1>1, <1>4, OthersKeep
  <2>2. outcome'.result # "collision"
    BY <2>1 DEF SteadyInv, NoOutcome
  <2>3. HaveReleases(db') /\ Steady(db')
    BY <2>1 DEF SteadyInv, HaveReleases, ReleasesOf, Steady, AlbumsByMbid, ReleasesByMbid
  <2>4. SteadyInv'
    BY <1>1, <2>2, <2>3 DEF SteadyInv
  <2>5. CASE outcome' = outcome
    BY <1>2, <2>1, <2>4, <2>5
  <2>6. CASE outcome' = NoOutcome
    BY <2>4, <2>6 DEF NoOutcome
  <2>7. QED
    BY <2>1, <2>5, <2>6
<1>5. CASE Next
  BY <1>3, <1>4, <1>5 DEF Next
<1>6. CASE UNCHANGED vars
  BY <1>1, <1>6 DEF vars, SteadyInv
<1>7. QED
  BY <1>5, <1>6

\* Where releases stay in their groups, identifying again leaves no album
\* without releases and never fails on a UNIQUE index.
THEOREM SteadyIsClean ==
  ASSUME SteadySources
  PROVE  Spec => []ReidentifiesCleanly
<1>1. Init => SteadyInv
  BY InitSound DEF Init, NoOutcome, SteadyInv, HaveReleases, Steady, AlbumsByMbid, ReleasesByMbid
<1>2. SteadyInv /\ [Next]_vars => SteadyInv'
  BY SteadyStep
<1>3. SteadyInv => ReidentifiesCleanly
  BY DEF SteadyInv, HaveReleases, ReidentifiesCleanly, AlbumsHaveReleases, NeverCollides
<1>4. QED
  BY <1>1, <1>2, <1>3, PTL DEF Spec

\* And there the title that the user gave an album stays its title when a disc
\* of it is identified again.
THEOREM SteadyKeepsAuthority ==
  ASSUME SteadySources
  PROVE  Spec => AuthoritySurvives
<1>1. Init => SteadyInv
  BY InitSound DEF Init, NoOutcome, SteadyInv, HaveReleases, Steady, AlbumsByMbid, ReleasesByMbid
<1>2. SteadyInv /\ [Next]_vars => SteadyInv'
  BY SteadyStep
<1>3. SteadyInv /\ [Next]_vars =>
        [\A t \in Tocs :
           /\ outcome' = [toc |-> t, result |-> "resolved"]
           /\ db.discs[t] # 0 /\ db'.discs[t] = db.discs[t]
           /\ Corrected(AlbumOfDisc(t))
           => AlbumOfDisc(t)'.title = Overriding(db, AlbumOfDisc(t).key, "title", None)]_vars
  BY SteadyStep
<1>4. QED
  BY <1>1, <1>2, <1>3, PTL DEF Spec, AuthoritySurvives
=============================================================================
