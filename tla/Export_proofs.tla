----------------------------- MODULE Export_proofs -----------------------------
(***************************************************************************)
(* Proofs about Export, for any albums, releases, discs, assets, failures   *)
(* and ends of the process: a picture that is used is whole, and what was   *)
(* exported stays as it was reported.                                      *)
(***************************************************************************)
EXTENDS Export, TLAPS, FiniteSetTheorems, WellFoundedInduction

-----------------------------------------------------------------------------
(* Names. A cached picture and its temporary file never share one, and two  *)
(* assets do only if they share their id and the kind of their picture.     *)

LEMMA NamesDiffer ==
  ASSUME NEW a, NEW b
  PROVE  /\ CacheName(a) # TmpName(b)
         /\ TmpName(a) = TmpName(b) => CacheName(a) = CacheName(b)
         /\ CacheName(a) = CacheName(b) =>
              Assets[a].id = Assets[b].id /\ Pictures[Assets[a].url] = Pictures[Assets[b].url]
<1>1. ASSUME NEW p, NEW q
      PROVE  LET name == Append(<<p, q>>, "tmp") IN Len(name) = 3 /\ name[1] = p /\ name[2] = q
  OBVIOUS
<1>2. \A p, q : Len(<<p, q>>) = 2
  OBVIOUS
<1>3. Len(TmpName(b)) = 3 /\ Len(CacheName(a)) = 2
  BY <1>1, <1>2 DEF CacheName, TmpName
<1>4. \A c : TmpName(c)[1] = Assets[c].id /\ TmpName(c)[2] = Pictures[Assets[c].url]
  BY <1>1 DEF CacheName, TmpName
<1>5. QED
  BY <1>3, <1>4 DEF CacheName

LEMMA Smallest ==
  ASSUME NEW T, T \subseteq Nat, T # {}
  PROVE  \E x \in T : \A y \in T : x <= y
<1>1. PICK x \in T : \A y \in T : <<y, x>> \notin OpToRel(<, Nat)
  BY NatLessThanWellFounded, WFMin
<1>2. \A y \in T : <<y, x>> \in Nat \X Nat
  OBVIOUS
<1>3. \A y \in T : ~(y < x)
  BY <1>1, <1>2 DEF OpToRel
<1>4. QED
  BY <1>3

\* Of the front covers of a release one comes first.
LEMMA CoverIsAsset ==
  ASSUME NEW d
  PROVE  PickFrontCover(AssetsOf(d)) \in DOMAIN Assets \cup {None}
<1> DEFINE fronts == {a \in AssetsOf(d) : Assets[a].kind = "FrontCover"}
           before(a, b) ==
             \/ Assets[a].group < Assets[b].group
             \/ Assets[a].group = Assets[b].group /\ Assets[a].sequence < Assets[b].sequence
             \/ /\ Assets[a].group = Assets[b].group /\ Assets[a].sequence = Assets[b].sequence
                /\ Assets[a].id < Assets[b].id
<1>1. CASE fronts = {}
  BY <1>1 DEF PickFrontCover
<1>2. CASE fronts # {}
  <2>1. \A a \in fronts : a \in DOMAIN Assets /\ Assets[a].release = Discs[d].release
    BY DEF AssetsOf
  <2>2. \A a \in fronts : /\ Assets[a].id \in Nat /\ Assets[a].group \in Nat /\ Assets[a].sequence \in Nat
                          /\ \A b \in fronts : a # b => Assets[a].id # Assets[b].id
    BY <2>1, AssetsAssumption
  <2> HIDE DEF fronts
  <2>3. PICK g \in {Assets[a].group : a \in fronts} : \A y \in {Assets[a].group : a \in fronts} : g <= y
    <3>1. {Assets[a].group : a \in fronts} \subseteq Nat /\ {Assets[a].group : a \in fronts} # {}
      BY <1>2, <2>2
    <3>2. QED
      BY <3>1, Smallest
  <2> DEFINE G == {a \in fronts : Assets[a].group = g}
  <2>4. PICK s \in {Assets[a].sequence : a \in G} : \A y \in {Assets[a].sequence : a \in G} : s <= y
    <3>1. {Assets[a].sequence : a \in G} \subseteq Nat /\ {Assets[a].sequence : a \in G} # {}
      BY <2>2, <2>3
    <3>2. QED
      BY <3>1, Smallest
  <2> DEFINE S == {a \in G : Assets[a].sequence = s}
  <2>5. PICK i \in {Assets[a].id : a \in S} : \A y \in {Assets[a].id : a \in S} : i <= y
    <3>1. {Assets[a].id : a \in S} \subseteq Nat /\ {Assets[a].id : a \in S} # {}
      BY <2>2, <2>4
    <3>2. QED
      BY <3>1, Smallest
  <2>6. PICK a \in S : Assets[a].id = i
    BY <2>5
  <2>7. a \in fronts /\ Assets[a].group = g /\ Assets[a].sequence = s
    BY <2>6
  <2>8. ASSUME NEW b \in fronts, b # a PROVE before(a, b)
    <3>1. /\ g <= Assets[b].group
          /\ Assets[b].group = g => s <= Assets[b].sequence
          /\ Assets[b].group = g /\ Assets[b].sequence = s => i <= Assets[b].id
      BY <2>3, <2>4, <2>5
    <3>2. QED
      BY <2>2, <2>6, <2>7, <2>8, <3>1
  <2>9. \E x \in fronts : \A b \in fronts \ {x} : before(x, b)
    BY <2>7, <2>8
  <2> HIDE DEF before
  <2>10. (CHOOSE x \in fronts : \A b \in fronts \ {x} : before(x, b)) \in fronts
    BY <2>9
  <2>11. PickFrontCover(AssetsOf(d)) = CHOOSE x \in fronts : \A b \in fronts \ {x} : before(x, b)
    BY <1>2 DEF PickFrontCover, fronts, before
  <2>12. QED
    BY <2>1, <2>10, <2>11
<1>3. QED
  BY <1>1, <1>2

-----------------------------------------------------------------------------
(* Directories.                                                            *)

PathsIn(d, folder) ==
  [i \in DOMAIN Discs[d].tracks |-> <<folder, TrackFileName(Discs[d].tracks[i])>>]

\* Where a disc may be exported to: beside the folders of the release's other discs,
\* or where it is the only one.
Numbered(d) == Append(AlbumDirectory(d), Discs[d].number)

Alone(d, discs) == \A e \in discs : Discs[e].release = Discs[d].release => e = d

LEMMA DirectoryNow ==
  ASSUME NEW d \in known, IsFiniteSet(known)
  PROVE  DiscDirectory(d) = Numbered(d) \/ (DiscDirectory(d) = AlbumDirectory(d) /\ Alone(d, known))
<1> DEFINE S == {k \in known : Discs[k].release = Discs[d].release}
<1>1. IsFiniteSet(S) /\ d \in S
  BY FS_Subset
<1>2. Cardinality(S) \in Nat /\ Cardinality(S) # 0
  BY <1>1, FS_CardinalityType, FS_EmptySet
<1>3. Cardinality(S) = 1 => \E x : S = {x}
  BY <1>1, FS_Singleton
<1>4. CASE Cardinality(S) > 1
  BY <1>4 DEF DiscDirectory, TotalDiscs, Numbered
<1>5. CASE ~(Cardinality(S) > 1)
  <2>1. S = {d}
    BY <1>1, <1>2, <1>3, <1>5
  <2>2. Alone(d, known)
    BY <2>1 DEF Alone
  <2>3. QED
    BY <1>5, <2>2 DEF DiscDirectory, TotalDiscs
<1>6. QED
  BY <1>4, <1>5

HasCover(d) == PickFrontCover(AssetsOf(d)) # None

\* A disc whose export can end: its tracks are in its rip, and its cover is a picture.
Completes(d) ==
  InRip(d) /\ (HasCover(d) => Pictures[Assets[PickFrontCover(AssetsOf(d))].url] # None)

\* Of discs whose export can end, those of a release differ in number, and others in
\* the directories of their albums.
OwnDirectories ==
  \A d, e \in DOMAIN Discs :
    d # e /\ Completes(d) /\ Completes(e) =>
      IF Discs[d].release = Discs[e].release THEN Discs[d].number # Discs[e].number
      ELSE AlbumDirectory(d) # AlbumDirectory(e)

LEMMA NumberedIs ==
  ASSUME NEW d, NEW e
  PROVE  /\ Numbered(d) # AlbumDirectory(e)
         /\ Numbered(d) = Numbered(e) =>
              AlbumDirectory(d) = AlbumDirectory(e) /\ Discs[d].number = Discs[e].number
<1>1. ASSUME NEW p, NEW q, NEW r, NEW m
      PROVE  LET s == Append(<<p, q, r>>, m)
             IN  Len(s) = 4 /\ s[1] = p /\ s[2] = q /\ s[3] = r /\ s[4] = m
  OBVIOUS
<1>2. \A p, q, r : LET s == <<p, q, r>> IN Len(s) = 3 /\ s[1] = p /\ s[2] = q /\ s[3] = r
  OBVIOUS
<1>3. \A c : /\ Len(Numbered(c)) = 4 /\ Numbered(c)[4] = Discs[c].number
             /\ \A i \in 1..3 : Numbered(c)[i] = AlbumDirectory(c)[i]
  BY <1>1, <1>2 DEF Numbered, AlbumDirectory
<1>4. Len(AlbumDirectory(e)) = 3
  BY <1>2 DEF AlbumDirectory
<1>5. AlbumDirectory(d)[1] = AlbumDirectory(e)[1] /\ AlbumDirectory(d)[2] = AlbumDirectory(e)[2]
      /\ AlbumDirectory(d)[3] = AlbumDirectory(e)[3] => AlbumDirectory(d) = AlbumDirectory(e)
  BY DEF AlbumDirectory
<1>6. QED
  BY <1>3, <1>4, <1>5

LEMMA DirectoriesApart ==
  ASSUME OwnDirectories, NEW discs, NEW d \in DOMAIN Discs, NEW e \in DOMAIN Discs, d # e,
         Completes(d), Completes(e), d \in discs,
         NEW f \in {AlbumDirectory(d), Numbered(d)},
         NEW g, g = Numbered(e) \/ (g = AlbumDirectory(e) /\ Alone(e, discs))
  PROVE  f # g
<1>1. CASE Discs[d].release = Discs[e].release
  <2>1. Discs[d].number # Discs[e].number /\ ~Alone(e, discs)
    BY <1>1 DEF OwnDirectories, Alone
  <2>2. QED
    BY <2>1, NumberedIs
<1>2. CASE Discs[d].release # Discs[e].release
  <2>1. AlbumDirectory(d) # AlbumDirectory(e)
    BY <1>2 DEF OwnDirectories
  <2>2. QED
    BY <2>1, NumberedIs
<1>3. QED
  BY <1>1, <1>2

-----------------------------------------------------------------------------
(* What holds of any export. Kept is inductive.                            *)

Fetching == {"create", "write", "rename", "row"}
Tracks == {"track", "encode", "tags"}

\* A job has its fields; one of a disc also where its files go.
JobKnown(j) ==
  /\ "pc" \in DOMAIN j /\ j.pc \in {"idle", "cover", "layout", "shown"} \cup Fetching \cup Tracks
  /\ j.pc # "idle" => {"disc", "asset", "file", "picture"} \subseteq DOMAIN j
  /\ j.pc # "idle" /\ j.disc # None => {"paths", "folder", "done"} \subseteq DOMAIN j
  /\ j.pc = "shown" => j.disc = None
  /\ j.pc \in {"layout"} \cup Tracks => j.disc # None

\* What a job has of its cover: from the layout on, a picture if there is an asset.
CoverKnown(j) ==
  /\ j.pc \in {"cover", "shown"} \cup Fetching => j.asset \in DOMAIN Assets
  /\ j.pc = "cover" => j.file \in {None, CacheName(j.asset)}
  /\ j.pc \in Fetching => j.picture = PictureOf(j.asset, TRUE) /\ Pictures[Assets[j.asset].url] # None
  /\ j.pc \in {"layout"} \cup Tracks =>
       /\ (j.asset = None) <=> (j.picture = None)
       /\ j.asset # None => Pictures[Assets[j.asset].url] # None

\* A file of the cache is of an asset that has a picture.
CacheKnown(files) ==
  \A n \in DOMAIN files : \E a \in DOMAIN Assets :
    /\ n \in {CacheName(a), TmpName(a)} /\ Pictures[Assets[a].url] # None
    /\ files[n] \in {PictureOf(a, TRUE), PictureOf(a, FALSE)}

RowsKnown(rows) ==
  DOMAIN rows = DOMAIN Assets /\ \A a \in DOMAIN Assets : rows[a] \in {None, CacheName(a)}

DiscsKnown(discs) == discs \subseteq DOMAIN Discs /\ IsFiniteSet(discs)

IsFile(file) == {"audio", "tags", "cover"} \subseteq DOMAIN file

FilesKnown(files) == \A path \in DOMAIN files : IsFile(files[path])

\* A track of a disc: the audio and the tags of its number, and a cover if there is one.
IsTrack(d, i, file) ==
  /\ file.audio = Pcm(d, i)
  /\ file.tags.disc = Discs[d].number /\ file.tags.track = Discs[d].tracks[i].position
  /\ (file.cover = None) <=> ~HasCover(d)

Folder(d, discs, folder) ==
  folder = Numbered(d) \/ (folder = AlbumDirectory(d) /\ Alone(d, discs))

\* The export of a disc: where its files go, and the tracks that are done.
Exporting(j, discs, said, files) ==
  j.pc # "idle" /\ j.disc # None =>
    /\ j.disc \in discs /\ j.disc \notin DOMAIN said
    /\ j.asset = PickFrontCover(AssetsOf(j.disc))
    /\ Folder(j.disc, discs, j.folder) /\ j.paths = PathsIn(j.disc, j.folder)
    /\ j.done \in Nat /\ j.done <= Len(j.paths)
    /\ j.pc \notin Tracks => j.done = 0
    /\ j.pc \in Tracks => InRip(j.disc)
    /\ j.pc \in {"encode", "tags"} => j.done < Len(j.paths) /\ j.paths[j.done + 1] \in DOMAIN files
    /\ j.pc = "tags" => files[j.paths[j.done + 1]].audio = Pcm(j.disc, j.done + 1)
    /\ \A i \in 1..j.done :
         j.paths[i] \in DOMAIN files /\ IsTrack(j.disc, i, files[j.paths[i]])

\* An export that has ended: of a disc whose export can end, in one of its folders.
Reported(said, discs, files) ==
  \A d \in DOMAIN said :
    /\ d \in discs /\ Completes(d)
    /\ \E folder \in {AlbumDirectory(d), Numbered(d)} : said[d] = PathsIn(d, folder)
    /\ \A i \in DOMAIN said[d] : said[d][i] \in DOMAIN files

Kept ==
  /\ JobKnown(job) /\ CoverKnown(job)
  /\ CacheKnown(cache) /\ RowsKnown(paths)
  /\ DiscsKnown(known) /\ FilesKnown(library)
  /\ Exporting(job, known, reports, library)
  /\ Reported(reports, known, library)

LEMMA PathsAre ==
  ASSUME NEW d \in DOMAIN Discs, NEW folder
  PROVE  /\ Len(Discs[d].tracks) \in Nat /\ Len(PathsIn(d, folder)) = Len(Discs[d].tracks)
         /\ DOMAIN PathsIn(d, folder) = 1..Len(Discs[d].tracks)
         /\ DOMAIN Discs[d].tracks = 1..Len(Discs[d].tracks)
         /\ \A i \in 1..Len(Discs[d].tracks) :
              PathsIn(d, folder)[i] = <<folder, TrackFileName(Discs[d].tracks[i])>>
<1> DEFINE tracks == Discs[d].tracks
           S == {tracks[i] : i \in DOMAIN tracks}
           path(i) == <<folder, TrackFileName(tracks[i])>>
<1>1. tracks \in Seq(S)
  BY DiscsAssumption
<1>2. Len(tracks) \in Nat /\ DOMAIN tracks = 1..Len(tracks)
  BY <1>1
<1> HIDE DEF tracks
<1>3. PathsIn(d, folder) = [i \in 1..Len(tracks) |-> path(i)]
  BY <1>2 DEF PathsIn, tracks
<1> HIDE DEF path
<1>4. Len([i \in 1..Len(tracks) |-> path(i)]) = Len(tracks)
  BY <1>2
<1>5. \A i \in 1..Len(tracks) : PathsIn(d, folder)[i] = path(i)
  BY <1>3
<1>6. QED
  BY <1>2, <1>3, <1>4, <1>5 DEF tracks, path

\* The files of a disc are told apart by the positions of its tracks, those of
\* directories by the directories, and none is a cover.
LEMMA TracksApart ==
  ASSUME NEW d \in DOMAIN Discs, NEW f,
         NEW i \in 1..Len(Discs[d].tracks), NEW k \in 1..Len(Discs[d].tracks), i # k
  PROVE  PathsIn(d, f)[i] # PathsIn(d, f)[k]
<1>1. /\ PathsIn(d, f)[i] = <<f, TrackFileName(Discs[d].tracks[i])>>
      /\ PathsIn(d, f)[k] = <<f, TrackFileName(Discs[d].tracks[k])>>
      /\ i \in DOMAIN Discs[d].tracks /\ k \in DOMAIN Discs[d].tracks
  BY PathsAre
<1>2. \A track : TrackFileName(track)[1] = track.position
  BY DEF TrackFileName
<1>3. Discs[d].tracks[i].position # Discs[d].tracks[k].position
  BY <1>1, DiscsAssumption
<1>4. QED
  BY <1>1, <1>2, <1>3

LEMMA FoldersApart ==
  ASSUME NEW d \in DOMAIN Discs, NEW e \in DOMAIN Discs, NEW f, NEW g, f # g,
         NEW i \in 1..Len(Discs[d].tracks), NEW k \in 1..Len(Discs[e].tracks)
  PROVE  PathsIn(d, f)[i] # PathsIn(e, g)[k]
<1>1. /\ PathsIn(d, f)[i] = <<f, TrackFileName(Discs[d].tracks[i])>>
      /\ PathsIn(e, g)[k] = <<g, TrackFileName(Discs[e].tracks[k])>>
  BY PathsAre
<1>2. QED
  BY <1>1

LEMMA TrackIsNoCover ==
  ASSUME NEW d \in DOMAIN Discs, NEW f, NEW g, NEW kind, NEW i \in 1..Len(Discs[d].tracks)
  PROVE  PathsIn(d, f)[i] # <<g, <<None, kind>>>>
<1>1. PathsIn(d, f)[i] = <<f, TrackFileName(Discs[d].tracks[i])>> /\ i \in DOMAIN Discs[d].tracks
  BY PathsAre
<1>2. TrackFileName(Discs[d].tracks[i])[1] = Discs[d].tracks[i].position
  BY DEF TrackFileName
<1>3. Discs[d].tracks[i].position # None
  BY <1>1, DiscsAssumption
<1>4. QED
  BY <1>1, <1>2, <1>3

LEMMA PicturesAre ==
  ASSUME NEW a
  PROVE  /\ PictureOf(a, TRUE).whole /\ DOMAIN PictureOf(a, TRUE) = {"url", "whole"}
         /\ [PictureOf(a, TRUE) EXCEPT !.whole = FALSE] = PictureOf(a, FALSE)
<1>1. ASSUME NEW u, NEW v, NEW w
      PROVE  /\ [[url |-> u, whole |-> v] EXCEPT !["whole"] = w] = [url |-> u, whole |-> w]
             /\ DOMAIN [url |-> u, whole |-> v] = {"url", "whole"}
  OBVIOUS
<1>2. [url |-> Assets[a].url, whole |-> TRUE].whole
  BY Zenon
<1>3. QED
  BY <1>1, <1>2 DEF PictureOf

\* A file of the cache that has the name of an asset's picture: that asset has one.
LEMMA FileOfAsset ==
  ASSUME NEW files, CacheKnown(files), NEW a \in DOMAIN Assets, CacheName(a) \in DOMAIN files
  PROVE  files[CacheName(a)] # None /\ Pictures[Assets[a].url] # None
<1>1. PICK b \in DOMAIN Assets :
        /\ CacheName(a) \in {CacheName(b), TmpName(b)} /\ Pictures[Assets[b].url] # None
        /\ files[CacheName(a)] \in {PictureOf(b, TRUE), PictureOf(b, FALSE)}
  BY DEF CacheKnown
<1>2. CacheName(a) = CacheName(b)
  BY <1>1, NamesDiffer
<1>3. QED
  BY <1>1, <1>2, NamesDiffer, NoneAssumption

-----------------------------------------------------------------------------
(* A job that begins, and the steps up to the layout.                      *)

LEMMA JobGoes ==
  ASSUME NEW j, NEW k, NEW p, "pc" \in DOMAIN j, k = [j EXCEPT !.pc = p]
  PROVE  /\ DOMAIN k = DOMAIN j /\ k.pc = p
         /\ \A x \in DOMAIN j \ {"pc"} : k[x] = j[x]
OBVIOUS

LEMMA IdleKept ==
  ASSUME NEW discs, NEW said, NEW files
  PROVE  JobKnown(Idle) /\ CoverKnown(Idle) /\ Exporting(Idle, discs, said, files)
<1>1. DOMAIN Idle = {"pc"} /\ Idle.pc = "idle"
  BY DEF Idle
<1>2. QED
  BY <1>1 DEF JobKnown, CoverKnown, Exporting, Fetching, Tracks

LEMMA BeginExportKept ==
  ASSUME Kept, NEW d \in DOMAIN Discs, BeginExport(d)
  PROVE  Kept'
<1> DEFINE a == PickFrontCover(AssetsOf(d))
<1>1. /\ DOMAIN job' = {"pc", "disc", "asset", "file", "picture", "paths", "folder", "done"}
      /\ job'.pc = IF a = None THEN "layout" ELSE "cover"
      /\ job'.disc = d /\ job'.asset = a /\ job'.picture = None
      /\ job'.file = IF a = None THEN None ELSE paths[a]
      /\ job'.paths = OutputPaths(d) /\ job'.folder = DiscDirectory(d) /\ job'.done = 0
  BY DEF BeginExport
<1>2. /\ d \in known /\ reports' = [k \in DOMAIN reports \ {d} |-> reports[k]]
      /\ UNCHANGED <<known, paths, cache, library>>
  BY DEF BeginExport
<1>3. a \in DOMAIN Assets \cup {None} /\ d # None
  BY CoverIsAsset, DiscsAssumption
<1> HIDE DEF a
<1>4. JobKnown(job')
  BY <1>1, <1>3 DEF JobKnown, Fetching, Tracks
<1>5. CoverKnown(job')
  <2>1. a # None => paths[a] \in {None, CacheName(a)}
    BY <1>3 DEF Kept, RowsKnown
  <2>2. QED
    BY <1>1, <1>3, <2>1 DEF CoverKnown, Fetching, Tracks
<1>6. Exporting(job', known, reports', library)
  <2>1. Folder(d, known, DiscDirectory(d))
    BY <1>2, DirectoryNow DEF Kept, DiscsKnown, Folder
  <2>2. OutputPaths(d) = PathsIn(d, DiscDirectory(d))
    BY DEF OutputPaths, PathsIn
  <2>3. Len(PathsIn(d, DiscDirectory(d))) \in Nat
    BY PathsAre
  <2>4. job'.pc \notin Tracks
    BY <1>1 DEF Tracks
  <2>5. job'.pc \notin {"encode", "tags"}
    BY <1>1
  <2>6. d \notin DOMAIN reports'
    BY <1>2
  <2>7. \A i \in 1..0 : FALSE
    OBVIOUS
  <2>8. QED
    BY <1>1, <1>2, <2>1, <2>2, <2>3, <2>4, <2>5, <2>6, <2>7 DEF Exporting, a
<1>7. Reported(reports', known, library)
  <2>1. Reported(reports, known, library)
    BY DEF Kept
  <2>2. DOMAIN reports' \subseteq DOMAIN reports /\ \A k \in DOMAIN reports' : reports'[k] = reports[k]
    BY <1>2
  <2>3. QED
    BY <2>1, <2>2 DEF Reported
<1>8. QED
  BY <1>2, <1>4, <1>5, <1>6, <1>7 DEF Kept

LEMMA BeginShowKept ==
  ASSUME Kept, NEW a \in DOMAIN Assets, BeginShow(a)
  PROVE  Kept'
<1>1. PICK file \in {None, paths[a]} :
        job' = [pc |-> "cover", disc |-> None, asset |-> a, file |-> file, picture |-> None]
  BY DEF BeginShow
<1>2. /\ DOMAIN job' = {"pc", "disc", "asset", "file", "picture"}
      /\ job'.pc = "cover" /\ job'.disc = None /\ job'.asset = a /\ job'.file = file
  BY <1>1
<1>3. paths[a] \in {None, CacheName(a)}
  BY DEF Kept, RowsKnown
<1>4. JobKnown(job') /\ CoverKnown(job')
  BY <1>2, <1>3 DEF JobKnown, CoverKnown, Fetching, Tracks
<1>5. Exporting(job', known, reports, library)
  BY <1>2 DEF Exporting
<1>6. UNCHANGED <<known, paths, cache, library, reports>>
  BY DEF BeginShow
<1>7. QED
  BY <1>4, <1>5, <1>6 DEF Kept

\* A step of the job alone, up to the layout: its disc goes on as before.
LEMMA JobAlone ==
  ASSUME Kept, NEW j, JobKnown(j), CoverKnown(j), DOMAIN j = DOMAIN job,
         \A x \in DOMAIN job \ {"pc", "picture"} : j[x] = job[x],
         job.pc # "idle", job.pc \notin Tracks, j.pc \notin Tracks
  PROVE  Exporting(j, known, reports, library)
<1>1. j.pc \notin {"encode", "tags"}
  BY DEF Tracks
<1>2. CASE job.disc = None
  BY <1>2 DEF Kept, JobKnown, Exporting
<1>3. CASE job.disc # None
  <2>1. j.disc = job.disc /\ j.asset = job.asset /\ j.folder = job.folder
        /\ j.paths = job.paths /\ j.done = job.done
    BY <1>3 DEF Kept, JobKnown
  <2>2. QED
    BY <1>1, <1>3, <2>1 DEF Kept, Exporting
<1>4. QED
  BY <1>2, <1>3

LEMMA ReadCachedKept ==
  ASSUME Kept, ReadCached
  PROVE  Kept'
<1>1. job.pc = "cover" /\ job.file \in DOMAIN cache
  BY DEF ReadCached, At
<1>2. {"pc", "disc", "asset", "file", "picture"} \subseteq DOMAIN job
  BY <1>1 DEF Kept, JobKnown
<1>3. /\ DOMAIN job' = DOMAIN job /\ job'.pc = AfterCover /\ job'.picture = cache[job.file]
      /\ \A x \in DOMAIN job \ {"pc", "picture"} : job'[x] = job[x]
  BY <1>2 DEF ReadCached
<1>4. job.asset \in DOMAIN Assets /\ job.file \in {None, CacheName(job.asset)}
  BY <1>1 DEF Kept, CoverKnown
<1>5. CacheKnown(cache) /\ job.file = CacheName(job.asset)
  <2>1. CacheKnown(cache)
    BY DEF Kept
  <2>2. None \notin DOMAIN cache
    BY <2>1, NoneAssumption DEF CacheKnown
  <2>3. QED
    BY <1>1, <1>4, <2>1, <2>2
<1>6. cache[job.file] # None /\ Pictures[Assets[job.asset].url] # None
  BY <1>1, <1>4, <1>5, FileOfAsset
<1>7. AfterCover \in {"shown", "layout"} /\ (AfterCover = "shown" <=> job.disc = None)
  BY DEF AfterCover
<1>8. JobKnown(job')
  BY <1>1, <1>2, <1>3, <1>7 DEF Kept, JobKnown, Fetching, Tracks
<1>9. CoverKnown(job')
  <2>1. job.asset # None
    BY <1>4, AssetsAssumption
  <2>2. QED
    BY <1>2, <1>3, <1>4, <1>6, <1>7, <2>1 DEF CoverKnown, Fetching, Tracks
<1>10. Exporting(job', known, reports, library)
  BY <1>1, <1>3, <1>7, <1>8, <1>9, JobAlone DEF Tracks
<1>11. UNCHANGED <<known, paths, cache, library, reports>>
  BY DEF ReadCached
<1>12. QED
  BY <1>8, <1>9, <1>10, <1>11 DEF Kept

LEMMA FetchKept ==
  ASSUME Kept, Fetch
  PROVE  Kept'
<1>1. job.pc = "cover" /\ Pictures[Assets[job.asset].url] # None
  BY DEF Fetch, At
<1>2. {"pc", "disc", "asset", "file", "picture"} \subseteq DOMAIN job
  BY <1>1 DEF Kept, JobKnown
<1>3. /\ DOMAIN job' = DOMAIN job /\ job'.pc = "create" /\ job'.picture = PictureOf(job.asset, TRUE)
      /\ \A x \in DOMAIN job \ {"pc", "picture"} : job'[x] = job[x]
  BY <1>2 DEF Fetch
<1>4. JobKnown(job')
  BY <1>1, <1>2, <1>3 DEF Kept, JobKnown, Fetching, Tracks
<1>5. CoverKnown(job')
  BY <1>1, <1>2, <1>3 DEF Kept, CoverKnown, Fetching, Tracks
<1>6. Exporting(job', known, reports, library)
  BY <1>1, <1>3, <1>4, <1>5, JobAlone DEF Tracks
<1>7. UNCHANGED <<known, paths, cache, library, reports>>
  BY DEF Fetch
<1>8. QED
  BY <1>4, <1>5, <1>6, <1>7 DEF Kept

\* Between the steps of a download the job keeps all but its place.
LEMMA FetchingGoes ==
  ASSUME Kept, job.pc \in Fetching,
         NEW p, p \in Fetching \/ (p = AfterCover /\ job.pc = "row"), Goes(p)
  PROVE  /\ JobKnown(job') /\ CoverKnown(job') /\ Exporting(job', known, reports, library)
         /\ job'.pc = p /\ job'.asset = job.asset /\ job'.picture = job.picture
<1>1. {"pc", "disc", "asset", "file", "picture"} \subseteq DOMAIN job
  BY DEF Kept, JobKnown, Fetching
<1>2. DOMAIN job' = DOMAIN job /\ job'.pc = p /\ \A x \in DOMAIN job \ {"pc"} : job'[x] = job[x]
  BY <1>1, JobGoes DEF Goes
<1>3. AfterCover \in {"shown", "layout"} /\ (AfterCover = "shown" <=> job.disc = None)
  BY DEF AfterCover
<1>4. JobKnown(job')
  BY <1>1, <1>2, <1>3 DEF Kept, JobKnown, Fetching, Tracks
<1>5. CoverKnown(job')
  <2>1. /\ job.asset \in DOMAIN Assets /\ Pictures[Assets[job.asset].url] # None
        /\ job.picture = PictureOf(job.asset, TRUE)
    BY DEF Kept, CoverKnown
  <2>2. job.asset # None /\ job.picture # None
    BY <2>1, AssetsAssumption, NoneAssumption
  <2>3. QED
    BY <1>1, <1>2, <1>3, <2>1, <2>2 DEF CoverKnown, Fetching, Tracks
<1>6. Exporting(job', known, reports, library)
  BY <1>2, <1>3, <1>4, <1>5, JobAlone DEF Fetching, Tracks
<1>7. QED
  BY <1>1, <1>2, <1>4, <1>5, <1>6

LEMMA FetchingHas ==
  ASSUME Kept, job.pc \in Fetching
  PROVE  /\ job.asset \in DOMAIN Assets /\ Pictures[Assets[job.asset].url] # None
         /\ job.picture = PictureOf(job.asset, TRUE)
BY DEF Kept, CoverKnown

LEMMA CreateTmpKept ==
  ASSUME Kept, CreateTmp
  PROVE  Kept'
<1>1. job.pc \in Fetching /\ "write" \in Fetching /\ Goes("write")
  BY DEF CreateTmp, At, Fetching
<1>2. cache' = With(cache, TmpName(job.asset), PictureOf(job.asset, FALSE))
  BY <1>1, FetchingHas, PicturesAre DEF CreateTmp
<1> DEFINE beginning == PictureOf(job.asset, FALSE)
<1> HIDE DEF beginning
<1>3. /\ DOMAIN cache' = DOMAIN cache \cup {TmpName(job.asset)} /\ cache'[TmpName(job.asset)] = beginning
      /\ \A n \in DOMAIN cache \ {TmpName(job.asset)} : cache'[n] = cache[n]
  <2>1. cache' = With(cache, TmpName(job.asset), beginning)
    BY <1>2 DEF beginning
  <2>2. QED
    BY <2>1 DEF With
<1>4. CacheKnown(cache')
  <2>1. ASSUME NEW n \in DOMAIN cache'
        PROVE  \E a \in DOMAIN Assets :
                 /\ n \in {CacheName(a), TmpName(a)} /\ Pictures[Assets[a].url] # None
                 /\ cache'[n] \in {PictureOf(a, TRUE), PictureOf(a, FALSE)}
    <3>1. CASE n = TmpName(job.asset)
      BY <1>1, <1>3, <3>1, FetchingHas DEF beginning
    <3>2. CASE n # TmpName(job.asset)
      <4>1. n \in DOMAIN cache /\ cache'[n] = cache[n]
        BY <1>3, <2>1, <3>2
      <4>2. QED
        BY <4>1 DEF Kept, CacheKnown
    <3>3. QED
      BY <3>1, <3>2
  <2>2. QED
    BY <2>1 DEF CacheKnown
<1>5. JobKnown(job') /\ CoverKnown(job') /\ Exporting(job', known, reports, library)
  BY <1>1, FetchingGoes
<1>6. UNCHANGED <<known, paths, library, reports>>
  BY DEF CreateTmp
<1>7. QED
  BY <1>4, <1>5, <1>6 DEF Kept

LEMMA WriteTmpKept ==
  ASSUME Kept, WriteTmp
  PROVE  Kept'
<1>1. job.pc \in Fetching /\ "rename" \in Fetching /\ Goes("rename")
  BY DEF WriteTmp, At, Fetching
<1>2. DOMAIN cache' = DOMAIN cache
      /\ \A n \in DOMAIN cache : cache'[n] = IF n = TmpName(job.asset) THEN job.picture ELSE cache[n]
  BY DEF WriteTmp
<1>3. CacheKnown(cache')
  <2>1. ASSUME NEW n \in DOMAIN cache'
        PROVE  \E a \in DOMAIN Assets :
                 /\ n \in {CacheName(a), TmpName(a)} /\ Pictures[Assets[a].url] # None
                 /\ cache'[n] \in {PictureOf(a, TRUE), PictureOf(a, FALSE)}
    <3>1. CASE n = TmpName(job.asset)
      BY <1>1, <1>2, <3>1, FetchingHas
    <3>2. CASE n # TmpName(job.asset)
      BY <1>2, <3>2 DEF Kept, CacheKnown
    <3>3. QED
      BY <3>1, <3>2
  <2>2. QED
    BY <2>1 DEF CacheKnown
<1>4. JobKnown(job') /\ CoverKnown(job') /\ Exporting(job', known, reports, library)
  BY <1>1, FetchingGoes
<1>5. UNCHANGED <<known, paths, library, reports>>
  BY DEF WriteTmp
<1>6. QED
  BY <1>3, <1>4, <1>5 DEF Kept

\* The file of a temporary name is one of the job's asset, or of another whose picture
\* has the same name.
LEMMA RenameTmpKept ==
  ASSUME Kept, RenameTmp
  PROVE  Kept'
<1> DEFINE from == TmpName(job.asset)
           to == CacheName(job.asset)
<1>1. job.pc \in Fetching /\ "row" \in Fetching /\ Goes("row")
  BY DEF RenameTmp, At, Fetching
<1>2. from \in DOMAIN cache
      /\ cache' = [n \in (DOMAIN cache \ {from}) \cup {to} |-> IF n = to THEN cache[from] ELSE cache[n]]
  BY DEF RenameTmp
<1>3. CacheKnown(cache')
  <2>1. ASSUME NEW n \in DOMAIN cache'
        PROVE  \E a \in DOMAIN Assets :
                 /\ n \in {CacheName(a), TmpName(a)} /\ Pictures[Assets[a].url] # None
                 /\ cache'[n] \in {PictureOf(a, TRUE), PictureOf(a, FALSE)}
    <3>1. CASE n = to
      <4>1. PICK b \in DOMAIN Assets :
              /\ from \in {CacheName(b), TmpName(b)} /\ Pictures[Assets[b].url] # None
              /\ cache[from] \in {PictureOf(b, TRUE), PictureOf(b, FALSE)}
        BY <1>2 DEF Kept, CacheKnown
      <4>2. CacheName(b) = to
        BY <4>1, NamesDiffer
      <4>3. cache'[n] = cache[from]
        BY <1>2, <3>1
      <4>4. QED
        BY <3>1, <4>1, <4>2, <4>3
    <3>2. CASE n # to
      <4>1. n \in DOMAIN cache /\ cache'[n] = cache[n]
        BY <1>2, <2>1, <3>2
      <4>2. QED
        BY <4>1 DEF Kept, CacheKnown
    <3>3. QED
      BY <3>1, <3>2
  <2>2. QED
    BY <2>1 DEF CacheKnown
<1>4. JobKnown(job') /\ CoverKnown(job') /\ Exporting(job', known, reports, library)
  BY <1>1, FetchingGoes
<1>5. UNCHANGED <<known, paths, library, reports>>
  BY DEF RenameTmp
<1>6. QED
  BY <1>3, <1>4, <1>5 DEF Kept

LEMMA UpdateAssetKept ==
  ASSUME Kept, UpdateAsset
  PROVE  Kept'
<1>1. job.pc = "row" /\ job.pc \in Fetching /\ Goes(AfterCover)
  BY DEF UpdateAsset, At, Fetching
<1>2. RowsKnown(paths')
  BY DEF UpdateAsset, Kept, RowsKnown
<1>3. JobKnown(job') /\ CoverKnown(job') /\ Exporting(job', known, reports, library)
  BY <1>1, FetchingGoes
<1>4. UNCHANGED <<known, cache, library, reports>>
  BY DEF UpdateAsset
<1>5. QED
  BY <1>2, <1>3, <1>4 DEF Kept

\* The job is over, and nothing else has changed; or the cache is cleared.
LEMMA JobEndsKept ==
  ASSUME Kept, job' = Idle, UNCHANGED <<known, paths, cache, library, reports>>
  PROVE  Kept'
<1>1. JobKnown(job') /\ CoverKnown(job') /\ Exporting(job', known, reports, library)
  BY IdleKept
<1>2. QED
  BY <1>1 DEF Kept

LEMMA ClearCacheKept ==
  ASSUME Kept, ClearCache
  PROVE  Kept'
<1>1. cache' = <<>> /\ UNCHANGED <<known, paths, library, job, reports>>
  BY DEF ClearCache
<1>2. CacheKnown(<<>>)
  BY DEF CacheKnown
<1>3. QED
  BY <1>1, <1>2 DEF Kept

LEMMA CheckLayoutsKept ==
  ASSUME Kept, CheckLayouts
  PROVE  Kept'
<1>1. job.pc = "layout" /\ InRip(job.disc) /\ Goes("track")
  BY DEF CheckLayouts, At
<1>2. /\ {"pc", "disc", "asset", "file", "picture", "paths", "folder", "done"} \subseteq DOMAIN job
      /\ job.disc # None
  BY <1>1 DEF Kept, JobKnown
<1>3. DOMAIN job' = DOMAIN job /\ job'.pc = "track" /\ \A x \in DOMAIN job \ {"pc"} : job'[x] = job[x]
  BY <1>1, <1>2, JobGoes DEF Goes
<1>4. JobKnown(job')
  BY <1>1, <1>2, <1>3 DEF Kept, JobKnown, Fetching, Tracks
<1>5. CoverKnown(job')
  BY <1>1, <1>2, <1>3 DEF Kept, CoverKnown, Fetching, Tracks
<1>6. Exporting(job', known, reports, library)
  <2>1. /\ job'.disc = job.disc /\ job'.asset = job.asset /\ job'.folder = job.folder
        /\ job'.paths = job.paths /\ job'.done = job.done
    BY <1>2, <1>3
  <2>2. job.pc \notin Tracks /\ job'.pc \in Tracks
    BY <1>1, <1>3 DEF Tracks
  <2>3. QED
    BY <1>1, <1>2, <1>3, <2>1, <2>2 DEF Kept, Exporting
<1>7. UNCHANGED <<known, paths, cache, library, reports>>
  BY DEF CheckLayouts
<1>8. QED
  BY <1>4, <1>5, <1>6, <1>7 DEF Kept

LEMMA IdentifyKept ==
  ASSUME Kept, NEW d \in DOMAIN Discs, Identify(d)
  PROVE  Kept'
<1>1. job.pc = "idle" /\ known' = known \cup {d} /\ UNCHANGED <<paths, cache, library, job, reports>>
  BY DEF Identify, At
<1>2. DiscsKnown(known')
  BY <1>1, FS_AddElement DEF Kept, DiscsKnown
<1>3. Exporting(job, known', reports, library)
  BY <1>1 DEF Exporting
<1>4. Reported(reports, known', library)
  BY <1>1 DEF Kept, Reported
<1>5. QED
  BY <1>1, <1>2, <1>3, <1>4 DEF Kept

LEMMA ResetDatabaseKept ==
  ASSUME Kept, ResetDatabase
  PROVE  Kept'
<1>1. /\ job.pc = "idle" /\ UNCHANGED <<cache, library, job>>
      /\ known' \subseteq known /\ DOMAIN reports' = DOMAIN reports \cap known'
      /\ \A d \in DOMAIN reports' : reports'[d] = reports[d]
  BY DEF ResetDatabase, At
<1>2. DiscsKnown(known')
  BY <1>1, FS_Subset DEF Kept, DiscsKnown
<1>3. RowsKnown(paths')
  BY DEF ResetDatabase, Kept, RowsKnown
<1>4. Exporting(job, known', reports', library)
  BY <1>1 DEF Exporting
<1>5. Reported(reports', known', library)
  <2>1. Reported(reports, known, library)
    BY DEF Kept
  <2>2. \A d \in DOMAIN reports' : d \in known' /\ d \in DOMAIN reports
    BY <1>1
  <2>3. QED
    BY <1>1, <2>1, <2>2 DEF Reported
<1>6. QED
  BY <1>1, <1>2, <1>3, <1>4, <1>5 DEF Kept

-----------------------------------------------------------------------------
(* The files of an export.                                                 *)

LEMMA Exports ==
  ASSUME Kept, job.pc \in Tracks
  PROVE  /\ {"pc", "disc", "asset", "file", "picture", "paths", "folder", "done"} \subseteq DOMAIN job
         /\ job.disc # None /\ job.disc \in DOMAIN Discs /\ job.disc \in known \ DOMAIN reports
         /\ InRip(job.disc) /\ job.asset = PickFrontCover(AssetsOf(job.disc))
         /\ Folder(job.disc, known, job.folder) /\ job.paths = PathsIn(job.disc, job.folder)
         /\ job.done \in Nat /\ job.done <= Len(job.paths)
         /\ Len(job.paths) = Len(Discs[job.disc].tracks) /\ Len(job.paths) \in Nat
<1>1. job.pc # "idle" /\ job.disc # None
  BY DEF Kept, JobKnown, Tracks
<1>2. {"pc", "disc", "asset", "file", "picture", "paths", "folder", "done"} \subseteq DOMAIN job
  BY <1>1 DEF Kept, JobKnown
<1>3. /\ job.disc \in known \ DOMAIN reports
      /\ InRip(job.disc) /\ job.asset = PickFrontCover(AssetsOf(job.disc))
      /\ Folder(job.disc, known, job.folder) /\ job.paths = PathsIn(job.disc, job.folder)
      /\ job.done \in Nat /\ job.done <= Len(job.paths)
  BY <1>1 DEF Kept, Exporting
<1>4. job.disc \in DOMAIN Discs
  BY <1>3 DEF Kept, DiscsKnown
<1>5. QED
  BY <1>1, <1>2, <1>3, <1>4, PathsAre

LEMMA ExportCompletes ==
  ASSUME Kept, job.pc \in Tracks
  PROVE  Completes(job.disc)
<1>1. job.asset # None => Pictures[Assets[job.asset].url] # None
  BY DEF Kept, CoverKnown
<1>2. job.asset = PickFrontCover(AssetsOf(job.disc)) /\ InRip(job.disc)
  BY Exports
<1>3. QED
  BY <1>1, <1>2 DEF Completes, HasCover

\* A step on the file of the track that is due: those of the tracks before stay.
LEMMA FileOfTrack ==
  ASSUME Kept, job.pc \in Tracks, job.done < Len(job.paths),
         NEW files, DOMAIN files = DOMAIN library \cup {Path}, IsFile(files[Path]),
         \A path \in DOMAIN library \ {Path} : files[path] = library[path]
  PROVE  /\ FilesKnown(files) /\ Reported(reports, known, files) /\ Path \in DOMAIN files
         /\ \A i \in 1..job.done :
              job.paths[i] \in DOMAIN files /\ IsTrack(job.disc, i, files[job.paths[i]])
<1>1. FilesKnown(files)
  BY DEF Kept, FilesKnown
<1>2. Reported(reports, known, files)
  BY DEF Kept, Reported
<1>3. ASSUME NEW i \in 1..job.done
      PROVE  job.paths[i] \in DOMAIN files /\ IsTrack(job.disc, i, files[job.paths[i]])
  <2>1. i \in 1..Len(Discs[job.disc].tracks) /\ job.done + 1 \in 1..Len(Discs[job.disc].tracks)
        /\ i # job.done + 1
    BY Exports
  <2>2. job.paths[i] # Path
    <3>1. job.disc \in DOMAIN Discs /\ job.paths = PathsIn(job.disc, job.folder)
      BY Exports
    <3>2. QED
      BY <2>1, <3>1, TracksApart DEF Path
  <2>3. job.paths[i] \in DOMAIN library /\ IsTrack(job.disc, i, library[job.paths[i]])
    <3>1. job.pc # "idle" /\ job.disc # None
      BY Exports DEF Tracks
    <3>2. QED
      BY <3>1 DEF Kept, Exporting
  <2>4. QED
    BY <2>2, <2>3
<1>4. QED
  BY <1>1, <1>2, <1>3

\* Between the steps of a track the job keeps all but its place.
LEMMA TrackGoes ==
  ASSUME Kept, job.pc \in Tracks, NEW p \in Tracks, Goes(p)
  PROVE  /\ JobKnown(job') /\ CoverKnown(job') /\ job'.pc = p
         /\ job'.disc = job.disc /\ job'.asset = job.asset /\ job'.picture = job.picture
         /\ job'.paths = job.paths /\ job'.folder = job.folder /\ job'.done = job.done
<1>1. {"pc", "disc", "asset", "file", "picture", "paths", "folder", "done"} \subseteq DOMAIN job
  BY Exports
<1>2. DOMAIN job' = DOMAIN job /\ job'.pc = p /\ \A x \in DOMAIN job \ {"pc"} : job'[x] = job[x]
  BY <1>1, JobGoes DEF Goes
<1>3. JobKnown(job')
  BY <1>1, <1>2 DEF Kept, JobKnown, Fetching, Tracks
<1>4. CoverKnown(job')
  BY <1>1, <1>2 DEF Kept, CoverKnown, Fetching, Tracks
<1>5. QED
  BY <1>1, <1>2, <1>3, <1>4

LEMMA CreateFileKept ==
  ASSUME Kept, CreateFile
  PROVE  Kept'
<1>1. job.pc \in Tracks /\ "encode" \in Tracks /\ job.done < Len(job.paths) /\ Goes("encode")
  BY DEF CreateFile, At, Tracks
<1>2. /\ DOMAIN library' = DOMAIN library \cup {Path}
      /\ library'[Path] = [audio |-> None, tags |-> None, cover |-> None]
      /\ \A path \in DOMAIN library \ {Path} : library'[path] = library[path]
  BY DEF CreateFile, With
<1>3. IsFile(library'[Path])
  BY <1>2 DEF IsFile
<1>4. /\ FilesKnown(library') /\ Reported(reports, known, library') /\ Path \in DOMAIN library'
      /\ \A i \in 1..job.done :
           job.paths[i] \in DOMAIN library' /\ IsTrack(job.disc, i, library'[job.paths[i]])
  BY <1>1, <1>2, <1>3, FileOfTrack
<1>5. /\ JobKnown(job') /\ CoverKnown(job') /\ job'.pc = "encode" /\ job'.disc = job.disc
      /\ job'.asset = job.asset /\ job'.paths = job.paths /\ job'.folder = job.folder
      /\ job'.done = job.done
  BY <1>1, TrackGoes
<1>6. Exporting(job', known, reports, library')
  BY <1>1, <1>4, <1>5, Exports DEF Exporting, Path
<1>7. UNCHANGED <<known, paths, cache, reports>>
  BY DEF CreateFile
<1>8. QED
  BY <1>4, <1>5, <1>6, <1>7 DEF Kept

LEMMA EncodeKept ==
  ASSUME Kept, EncodeAudioStream
  PROVE  Kept'
<1>1. /\ job.pc = "encode" /\ job.pc \in Tracks /\ "tags" \in Tracks /\ Goes("tags")
      /\ library' = [library EXCEPT ![Path].audio = Pcm(job.disc, job.done + 1)]
  BY DEF EncodeAudioStream, At, Tracks
<1>2. job.done < Len(job.paths) /\ Path \in DOMAIN library
  BY <1>1, Exports DEF Kept, Exporting, Path
<1>3. IsFile(library[Path])
  BY <1>2 DEF Kept, FilesKnown
<1>4. /\ DOMAIN library' = DOMAIN library \cup {Path}
      /\ \A path \in DOMAIN library \ {Path} : library'[path] = library[path]
      /\ library'[Path].audio = Pcm(job.disc, job.done + 1) /\ IsFile(library'[Path])
  BY <1>1, <1>2, <1>3 DEF IsFile
<1>5. /\ FilesKnown(library') /\ Reported(reports, known, library') /\ Path \in DOMAIN library'
      /\ \A i \in 1..job.done :
           job.paths[i] \in DOMAIN library' /\ IsTrack(job.disc, i, library'[job.paths[i]])
  BY <1>1, <1>2, <1>4, FileOfTrack
<1>6. /\ JobKnown(job') /\ CoverKnown(job') /\ job'.pc = "tags" /\ job'.disc = job.disc
      /\ job'.asset = job.asset /\ job'.paths = job.paths /\ job'.folder = job.folder
      /\ job'.done = job.done
  BY <1>1, TrackGoes
<1>7. Exporting(job', known, reports, library')
  BY <1>1, <1>2, <1>4, <1>5, <1>6, Exports DEF Exporting, Path
<1>8. UNCHANGED <<known, paths, cache, reports>>
  BY DEF EncodeAudioStream
<1>9. QED
  BY <1>5, <1>6, <1>7, <1>8 DEF Kept

LEMMA TagsAre ==
  ASSUME NEW d, NEW i
  PROVE  Tags(d, i).disc = Discs[d].number /\ Tags(d, i).track = Discs[d].tracks[i].position
BY DEF Tags

LEMMA WriteMetadataKept ==
  ASSUME Kept, WriteMetadata
  PROVE  Kept'
<1> DEFINE n == job.done + 1
<1>1. /\ job.pc = "tags" /\ job.pc \in Tracks
      /\ library' = [library EXCEPT ![Path].tags = Tags(job.disc, job.done + 1), ![Path].cover = job.picture]
      /\ job' = [job EXCEPT !.pc = "track", !.done = @ + 1]
  BY DEF WriteMetadata, At, Tracks
<1>2. /\ job.done < Len(job.paths) /\ Path \in DOMAIN library
      /\ library[Path].audio = Pcm(job.disc, n)
  BY <1>1, Exports DEF Kept, Exporting, Path
<1>3. IsFile(library[Path])
  BY <1>2 DEF Kept, FilesKnown
<1> DEFINE tagged == [library[Path] EXCEPT !.tags = Tags(job.disc, n)]
           covered == [tagged EXCEPT !.cover = job.picture]
<1>4. /\ DOMAIN library' = DOMAIN library \cup {Path} /\ library'[Path] = covered
      /\ \A path \in DOMAIN library \ {Path} : library'[path] = library[path]
  BY <1>1, <1>2
<1>5. /\ covered.audio = Pcm(job.disc, n) /\ covered.tags = Tags(job.disc, n)
      /\ covered.cover = job.picture /\ IsFile(covered)
  <2>1. IsFile(tagged) /\ tagged.audio = Pcm(job.disc, n) /\ tagged.tags = Tags(job.disc, n)
    BY <1>2, <1>3 DEF IsFile
  <2> HIDE DEF tagged
  <2>2. QED
    BY <2>1 DEF IsFile
<1> HIDE DEF covered, tagged
<1>6. /\ FilesKnown(library') /\ Reported(reports, known, library') /\ Path \in DOMAIN library'
      /\ \A i \in 1..job.done :
           job.paths[i] \in DOMAIN library' /\ IsTrack(job.disc, i, library'[job.paths[i]])
  BY <1>1, <1>2, <1>4, <1>5, FileOfTrack
<1>7. IsTrack(job.disc, n, library'[Path])
  <2>1. (job.picture = None) <=> (job.asset = None)
    BY <1>1 DEF Kept, CoverKnown
  <2>2. HasCover(job.disc) <=> job.asset # None
    BY <1>1, Exports DEF HasCover
  <2>3. QED
    BY <1>4, <1>5, <2>1, <2>2, TagsAre DEF IsTrack
<1>8. /\ DOMAIN job' = DOMAIN job /\ job'.pc = "track" /\ job'.done = n
      /\ \A x \in DOMAIN job \ {"pc", "done"} : job'[x] = job[x]
  BY <1>1, Exports
<1>9. JobKnown(job') /\ CoverKnown(job')
  BY <1>1, <1>8, Exports DEF Kept, JobKnown, CoverKnown, Fetching, Tracks
<1>10. Exporting(job', known, reports, library')
  <2>1. /\ job'.disc = job.disc /\ job'.asset = job.asset /\ job'.paths = job.paths
        /\ job'.folder = job.folder
    BY <1>1, <1>8, Exports
  <2>2. ASSUME NEW i \in 1..n
        PROVE  job.paths[i] \in DOMAIN library' /\ IsTrack(job.disc, i, library'[job.paths[i]])
    <3>1. i \in 1..job.done \/ i = n
      BY <1>1, Exports
    <3>2. QED
      BY <1>6, <1>7, <3>1 DEF Path
  <2>3. n \in Nat /\ n <= Len(job.paths)
    BY <1>1, <1>2, Exports
  <2>4. QED
    BY <1>1, <1>8, <2>1, <2>2, <2>3, Exports DEF Exporting, Tracks
<1>11. UNCHANGED <<known, paths, cache, reports>>
  BY DEF WriteMetadata
<1>12. QED
  BY <1>6, <1>9, <1>10, <1>11 DEF Kept

\* The end of an export: beside the files, at most a cover, which is no track.
LEMMA FinishWrites ==
  ASSUME Kept, FinishExport
  PROVE  /\ DOMAIN library \subseteq DOMAIN library' /\ FilesKnown(library')
         /\ \A path \in DOMAIN library :
              (\A f, kind : path # <<f, <<None, kind>>>>) => library'[path] = library[path]
         /\ \A path \in DOMAIN library' :
              \/ path \in DOMAIN library /\ library'[path] = library[path]
              \/ job.picture # None /\ library'[path].cover = job.picture
<1> DEFINE kind == <<Pictures[Assets[job.asset].url]>>
           cover == <<job.folder, <<None, kind>>>>
           file == [audio |-> None, tags |-> None, cover |-> job.picture]
<1>1. CASE job.picture = None
  <2>1. library' = library
    BY <1>1 DEF FinishExport
  <2>2. QED
    BY <2>1 DEF Kept
<1>2. CASE job.picture # None
  <2>1. library' = With(library, cover, file)
    BY <1>2 DEF FinishExport
  <2>2. IsFile(file) /\ file.cover = job.picture
    BY DEF IsFile
  <2> HIDE DEF cover, file
  <2>3. /\ DOMAIN library' = DOMAIN library \cup {cover} /\ library'[cover] = file
        /\ \A path \in DOMAIN library \ {cover} : library'[path] = library[path]
    BY <2>1 DEF With
  <2>4. FilesKnown(library')
    BY <2>2, <2>3 DEF Kept, FilesKnown
  <2>5. ASSUME NEW path \in DOMAIN library, \A f, k : path # <<f, <<None, k>>>>
        PROVE  library'[path] = library[path]
    <3>1. path # cover
      BY <2>5 DEF cover
    <3>2. QED
      BY <2>3, <3>1
  <2>6. QED
    BY <1>2, <2>2, <2>3, <2>4, <2>5
<1>3. QED
  BY <1>1, <1>2

LEMMA FinishExportKept ==
  ASSUME Kept, FinishExport
  PROVE  Kept'
<1>1. /\ job.pc = "track" /\ job.pc \in Tracks /\ job.done = Len(job.paths) /\ job' = Idle
      /\ reports' = With(reports, job.disc, job.paths) /\ UNCHANGED <<known, paths, cache>>
  BY DEF FinishExport, At, Tracks
<1>2. /\ DOMAIN reports' = DOMAIN reports \cup {job.disc} /\ reports'[job.disc] = job.paths
      /\ \A d \in DOMAIN reports \ {job.disc} : reports'[d] = reports[d]
  BY <1>1 DEF With
<1>3. DOMAIN library \subseteq DOMAIN library' /\ FilesKnown(library')
  BY FinishWrites
<1>4. Reported(reports', known, library')
  <2>1. ASSUME NEW d \in DOMAIN reports'
        PROVE  /\ d \in known /\ Completes(d)
               /\ \E folder \in {AlbumDirectory(d), Numbered(d)} : reports'[d] = PathsIn(d, folder)
               /\ \A i \in DOMAIN reports'[d] : reports'[d][i] \in DOMAIN library'
    <3>1. CASE d = job.disc
      <4>1. d \in known /\ d \in DOMAIN Discs /\ InRip(d) /\ job.paths = PathsIn(d, job.folder)
            /\ job.folder \in {AlbumDirectory(d), Numbered(d)}
        BY <1>1, <3>1, Exports DEF Folder
      <4>2. Completes(d)
        BY <1>1, <3>1, ExportCompletes
      <4>3. DOMAIN job.paths = 1..job.done
        BY <1>1, <4>1, PathsAre
      <4>4. job.pc # "idle" /\ job.disc # None
        BY <1>1, Exports
      <4>5. \A i \in 1..job.done : job.paths[i] \in DOMAIN library
        BY <4>4 DEF Kept, Exporting
      <4>6. QED
        BY <1>2, <1>3, <3>1, <4>1, <4>2, <4>3, <4>5
    <3>2. CASE d # job.disc
      <4>1. d \in DOMAIN reports /\ reports'[d] = reports[d]
        BY <1>2, <2>1, <3>2
      <4>2. QED
        BY <1>3, <4>1 DEF Kept, Reported
    <3>3. QED
      BY <3>1, <3>2
  <2>2. QED
    BY <2>1 DEF Reported
<1>5. JobKnown(job') /\ CoverKnown(job') /\ Exporting(job', known, reports', library')
  BY <1>1, IdleKept
<1>6. QED
  BY <1>1, <1>3, <1>4, <1>5 DEF Kept

LEMMA InitKept == Init => Kept
<1> SUFFICES ASSUME Init PROVE Kept
  OBVIOUS
<1>1. JobKnown(job) /\ CoverKnown(job) /\ Exporting(job, known, reports, library)
  BY IdleKept DEF Init
<1>2. CacheKnown(cache) /\ FilesKnown(library) /\ Reported(reports, known, library)
  BY DEF Init, CacheKnown, FilesKnown, Reported
<1>3. RowsKnown(paths)
  BY DEF Init, RowsKnown
<1>4. DiscsKnown(known)
  BY FS_EmptySet DEF Init, DiscsKnown
<1>5. QED
  BY <1>1, <1>2, <1>3, <1>4 DEF Kept

LEMMA NextKept == Kept /\ [Next]_vars => Kept'
<1> SUFFICES ASSUME Kept, [Next]_vars PROVE Kept'
  OBVIOUS
<1>1. ASSUME NEW d \in DOMAIN Discs, BeginExport(d) PROVE Kept'
  BY <1>1, BeginExportKept
<1>2. ASSUME NEW d \in DOMAIN Discs, Identify(d) PROVE Kept'
  BY <1>2, IdentifyKept
<1>3. ASSUME NEW a \in DOMAIN Assets, BeginShow(a) PROVE Kept'
  BY <1>3, BeginShowKept
<1>4. CASE ReadCached
  BY <1>4, ReadCachedKept
<1>5. CASE Fetch
  BY <1>5, FetchKept
<1>6. CASE CreateTmp
  BY <1>6, CreateTmpKept
<1>7. CASE WriteTmp
  BY <1>7, WriteTmpKept
<1>8. CASE RenameTmp
  BY <1>8, RenameTmpKept
<1>9. CASE UpdateAsset
  BY <1>9, UpdateAssetKept
<1>10. CASE Shown
  BY <1>10, JobEndsKept DEF Shown
<1>11. CASE CheckLayouts
  BY <1>11, CheckLayoutsKept
<1>12. CASE CreateFile
  BY <1>12, CreateFileKept
<1>13. CASE EncodeAudioStream
  BY <1>13, EncodeKept
<1>14. CASE WriteMetadata
  BY <1>14, WriteMetadataKept
<1>15. CASE FinishExport
  BY <1>15, FinishExportKept
<1>16. CASE Refused
  BY <1>16, JobEndsKept DEF Refused
<1>17. CASE Stop
  BY <1>17, JobEndsKept DEF Stop
<1>18. CASE ResetDatabase
  BY <1>18, ResetDatabaseKept
<1>19. CASE SwitchDatabase
  BY <1>19 DEF SwitchDatabase, Kept
<1>20. CASE ClearCache
  BY <1>20, ClearCacheKept
<1>21. CASE UNCHANGED vars
  BY <1>21 DEF vars, Kept
<1>22. QED
  BY <1>1, <1>2, <1>3, <1>4, <1>5, <1>6, <1>7, <1>8, <1>9, <1>10, <1>11, <1>12, <1>13, <1>14,
     <1>15, <1>16, <1>17, <1>18, <1>19, <1>20, <1>21 DEF Next

LEMMA AlwaysKept == Spec => []Kept
BY InitKept, NextKept, PTL DEF Spec

-----------------------------------------------------------------------------
(* What was exported stays. The disc of a job and a disc that was reported  *)
(* are both discs whose export can end, and have directories of their own.  *)

ReportsRight ==
  \A d \in DOMAIN reports : \A i \in DOMAIN reports[d] : IsTrack(d, i, library[reports[d][i]])

LEMMA ReportIs ==
  ASSUME Kept, NEW d \in DOMAIN reports
  PROVE  /\ d \in known /\ d \in DOMAIN Discs /\ Completes(d)
         /\ \E folder \in {AlbumDirectory(d), Numbered(d)} : reports[d] = PathsIn(d, folder)
         /\ DOMAIN reports[d] = 1..Len(Discs[d].tracks)
         /\ \A i \in DOMAIN reports[d] : reports[d][i] \in DOMAIN library
<1>1. /\ d \in known /\ Completes(d)
      /\ \E folder \in {AlbumDirectory(d), Numbered(d)} : reports[d] = PathsIn(d, folder)
      /\ \A i \in DOMAIN reports[d] : reports[d][i] \in DOMAIN library
  BY DEF Kept, Reported
<1>2. d \in DOMAIN Discs
  BY <1>1 DEF Kept, DiscsKnown
<1>3. QED
  BY <1>1, <1>2, PathsAre

LEMMA ReportIsNoCover ==
  ASSUME Kept, NEW d \in DOMAIN reports, NEW i \in DOMAIN reports[d], NEW f, NEW kind
  PROVE  reports[d][i] # <<f, <<None, kind>>>>
BY ReportIs, TrackIsNoCover

LEMMA ReportIsNotPath ==
  ASSUME Kept, OwnDirectories, job.pc \in Tracks, job.done < Len(job.paths),
         NEW d \in DOMAIN reports, NEW i \in DOMAIN reports[d]
  PROVE  reports[d][i] # Path
<1> DEFINE e == job.disc
<1>1. /\ e \in DOMAIN Discs /\ e \notin DOMAIN reports /\ Folder(e, known, job.folder)
      /\ job.paths = PathsIn(e, job.folder) /\ job.done + 1 \in 1..Len(Discs[e].tracks)
  BY Exports
<1>2. Completes(e)
  BY ExportCompletes
<1>3. d \in known /\ d \in DOMAIN Discs /\ Completes(d) /\ i \in 1..Len(Discs[d].tracks)
  BY ReportIs
<1>4. PICK f \in {AlbumDirectory(d), Numbered(d)} : reports[d] = PathsIn(d, f)
  BY ReportIs
<1>5. d # e
  BY <1>1
<1>6. f # job.folder
  BY <1>1, <1>2, <1>3, <1>4, <1>5, DirectoriesApart DEF Folder
<1>7. QED
  BY <1>1, <1>3, <1>4, <1>6, FoldersApart DEF Path

LEMMA TrackStepsRight ==
  ASSUME Kept, OwnDirectories, ReportsRight, CreateFile \/ EncodeAudioStream \/ WriteMetadata
  PROVE  ReportsRight'
<1>1. job.pc \in Tracks /\ job.done < Len(job.paths)
  <2>1. job.pc \in Tracks
    BY DEF CreateFile, EncodeAudioStream, WriteMetadata, At, Tracks
  <2>2. CASE CreateFile
    BY <2>1, <2>2 DEF CreateFile
  <2>3. CASE EncodeAudioStream \/ WriteMetadata
    <3>1. job.pc \in {"encode", "tags"}
      BY <2>3 DEF EncodeAudioStream, WriteMetadata, At
    <3>2. job.pc # "idle" /\ job.disc # None
      BY <2>1, <3>1, Exports
    <3>3. QED
      BY <2>1, <3>1, <3>2 DEF Kept, Exporting
  <2>4. QED
    BY <2>2, <2>3
<1>2. \A path \in DOMAIN library \ {Path} : library'[path] = library[path]
  BY DEF CreateFile, EncodeAudioStream, WriteMetadata, With
<1>3. reports' = reports
  BY DEF CreateFile, EncodeAudioStream, WriteMetadata
<1>4. \A d \in DOMAIN reports : \A i \in DOMAIN reports[d] : library'[reports[d][i]] = library[reports[d][i]]
  BY <1>1, <1>2, ReportIs, ReportIsNotPath
<1>5. QED
  BY <1>3, <1>4 DEF ReportsRight

LEMMA FinishExportRight ==
  ASSUME Kept, ReportsRight, FinishExport
  PROVE  ReportsRight'
<1>1. /\ job.pc = "track" /\ job.pc \in Tracks /\ job.done = Len(job.paths)
      /\ reports' = With(reports, job.disc, job.paths)
  BY DEF FinishExport, At, Tracks
<1>2. /\ DOMAIN reports' = DOMAIN reports \cup {job.disc} /\ reports'[job.disc] = job.paths
      /\ \A d \in DOMAIN reports \ {job.disc} : reports'[d] = reports[d]
  BY <1>1 DEF With
<1>3. ASSUME NEW path \in DOMAIN library, \A f, kind : path # <<f, <<None, kind>>>>
      PROVE  library'[path] = library[path]
  BY <1>3, FinishWrites
<1>4. ASSUME NEW d \in DOMAIN reports', NEW i \in DOMAIN reports'[d]
      PROVE  IsTrack(d, i, library'[reports'[d][i]])
  <2>1. CASE d = job.disc
    <3>1. /\ d \in DOMAIN Discs /\ job.paths = PathsIn(d, job.folder) /\ job.disc # None
          /\ DOMAIN job.paths = 1..job.done /\ 1..job.done = 1..Len(Discs[d].tracks)
      BY <1>1, <2>1, Exports, PathsAre
    <3>2. i \in 1..job.done /\ reports'[d][i] = job.paths[i]
      BY <1>2, <1>4, <2>1, <3>1
    <3>3. job.paths[i] \in DOMAIN library /\ IsTrack(d, i, library[job.paths[i]])
      BY <1>1, <2>1, <3>1, <3>2 DEF Kept, Exporting
    <3>4. \A f, kind : job.paths[i] # <<f, <<None, kind>>>>
      BY <3>1, <3>2, TrackIsNoCover
    <3>5. QED
      BY <1>3, <3>2, <3>3, <3>4
  <2>2. CASE d # job.disc
    <3>1. d \in DOMAIN reports /\ reports'[d] = reports[d] /\ i \in DOMAIN reports[d]
      BY <1>2, <1>4, <2>2
    <3>2. reports[d][i] \in DOMAIN library /\ \A f, kind : reports[d][i] # <<f, <<None, kind>>>>
      BY <3>1, ReportIs, ReportIsNoCover
    <3>3. library'[reports[d][i]] = library[reports[d][i]]
      BY <1>3, <3>2
    <3>4. QED
      BY <3>1, <3>3 DEF ReportsRight
  <2>3. QED
    BY <2>1, <2>2
<1>5. QED
  BY <1>4 DEF ReportsRight

LEMMA NextRight == Kept /\ OwnDirectories /\ ReportsRight /\ [Next]_vars => ReportsRight'
<1> SUFFICES ASSUME Kept, OwnDirectories, ReportsRight, [Next]_vars PROVE ReportsRight'
  OBVIOUS
<1>1. CASE CreateFile \/ EncodeAudioStream \/ WriteMetadata
  BY <1>1, TrackStepsRight
<1>2. CASE FinishExport
  BY <1>2, FinishExportRight
<1>3. CASE (\E d \in DOMAIN Discs : BeginExport(d)) \/ ResetDatabase
  <2>1. /\ DOMAIN reports' \subseteq DOMAIN reports /\ library' = library
        /\ \A d \in DOMAIN reports' : reports'[d] = reports[d]
    BY <1>3 DEF BeginExport, ResetDatabase
  <2>2. QED
    BY <2>1 DEF ReportsRight
<1>4. CASE UNCHANGED <<library, reports>>
  BY <1>4 DEF ReportsRight
<1>5. QED
  <2>1. \/ CreateFile \/ EncodeAudioStream \/ WriteMetadata \/ FinishExport
        \/ (\E d \in DOMAIN Discs : BeginExport(d)) \/ ResetDatabase
        \/ UNCHANGED <<library, reports>>
    BY DEF Next, Identify, BeginShow, ReadCached, Fetch, CreateTmp, WriteTmp, RenameTmp, UpdateAsset,
           Shown, CheckLayouts, Refused, Stop, SwitchDatabase, ClearCache, vars
  <2>2. QED
    BY <1>1, <1>2, <1>3, <1>4, <2>1

\* Whatever is exported, shown, interrupted, identified, emptied and switched, the
\* files of the last export of a disc are what it reported: each track with the audio,
\* the tags and the cover of its own. The condition is needed: two discs of one name
\* that are no discs of one release are written over each other.
THEOREM ExportedAlwaysStays == ASSUME OwnDirectories PROVE Spec => []ExportedStays
<1>1. Init => ReportsRight
  BY DEF Init, ReportsRight
<1>2. Kept /\ ReportsRight /\ [Next]_vars => ReportsRight'
  BY NextRight
<1>3. Kept /\ ReportsRight => ExportedStays
  BY DEF ReportsRight, ExportedStays, IsTrack, Pcm, HasCover
<1>4. QED
  BY <1>1, <1>2, <1>3, AlwaysKept, PTL DEF Spec

-----------------------------------------------------------------------------
(* Pictures are whole. A file gets a picture's name only when it is whole,  *)
(* and that name is of one asset only.                                     *)

\* The pictures of all databases, and of a database before and after a reset, have
\* names of their own.
DistinctIds == \A a, b \in DOMAIN Assets : a # b => Assets[a].id # Assets[b].id

WholeFiles ==
  \A a \in DOMAIN Assets :
    CacheName(a) \in DOMAIN cache => cache[CacheName(a)] = PictureOf(a, TRUE)

WholeDownload ==
  job.pc = "rename" /\ TmpName(job.asset) \in DOMAIN cache =>
    cache[TmpName(job.asset)] = PictureOf(job.asset, TRUE)

WholePicture ==
  job.pc \in {"layout", "shown"} \cup Tracks /\ job.picture # None =>
    job.picture = PictureOf(job.asset, TRUE)

WholeCovers ==
  \A path \in DOMAIN library : library[path].cover # None => library[path].cover.whole

Whole == WholeFiles /\ WholeDownload /\ WholePicture /\ WholeCovers

LEMMA DownloadWhole ==
  ASSUME Kept, DistinctIds, Whole, CreateTmp \/ WriteTmp \/ RenameTmp
  PROVE  Whole'
<1>1. /\ job.pc \in Fetching /\ job'.asset = job.asset
      /\ CreateTmp => job'.pc = "write"
      /\ WriteTmp => job'.pc = "rename"
      /\ RenameTmp => job'.pc = "row" /\ job.pc = "rename"
  <2>1. CASE CreateTmp
    <3>1. job.pc \in Fetching /\ "write" \in Fetching /\ Goes("write") /\ job.pc = "create"
      BY <2>1 DEF CreateTmp, At, Fetching
    <3>2. QED
      BY <3>1, FetchingGoes DEF WriteTmp, RenameTmp, At
  <2>2. CASE WriteTmp
    <3>1. job.pc \in Fetching /\ "rename" \in Fetching /\ Goes("rename") /\ job.pc = "write"
      BY <2>2 DEF WriteTmp, At, Fetching
    <3>2. QED
      BY <3>1, FetchingGoes DEF CreateTmp, RenameTmp, At
  <2>3. CASE RenameTmp
    <3>1. job.pc \in Fetching /\ "row" \in Fetching /\ Goes("row") /\ job.pc = "rename"
      BY <2>3 DEF RenameTmp, At, Fetching
    <3>2. QED
      BY <3>1, FetchingGoes DEF CreateTmp, WriteTmp, At
  <2>4. QED
    BY <2>1, <2>2, <2>3
<1> DEFINE from == TmpName(job.asset)
           to == CacheName(job.asset)
<1>2. job.asset \in DOMAIN Assets /\ job.picture = PictureOf(job.asset, TRUE)
  BY <1>1, FetchingHas
<1>3. \A a : CacheName(a) # from
  BY NamesDiffer
<1>4. \A n \in DOMAIN cache' \ {from} : n # to => n \in DOMAIN cache /\ cache'[n] = cache[n]
  BY DEF CreateTmp, WriteTmp, RenameTmp, With
<1>5. WholeFiles'
  <2>1. ASSUME NEW a \in DOMAIN Assets, CacheName(a) \in DOMAIN cache'
        PROVE  cache'[CacheName(a)] = PictureOf(a, TRUE)
    <3>1. CASE CacheName(a) # to
      BY <1>3, <1>4, <2>1, <3>1 DEF Whole, WholeFiles
    <3>2. CASE CacheName(a) = to
      <4>1. a = job.asset
        BY <1>2, <3>2, NamesDiffer DEF DistinctIds
      <4>2. CASE RenameTmp
        <5>1. from \in DOMAIN cache /\ cache'[to] = cache[from]
          BY <4>2 DEF RenameTmp
        <5>2. QED
          BY <1>1, <4>1, <4>2, <5>1 DEF Whole, WholeDownload
      <4>3. CASE CreateTmp \/ WriteTmp
        <5>1. to \in DOMAIN cache /\ cache'[to] = cache[to]
          <6>1. to # from
            BY <1>3
          <6>2. QED
            BY <2>1, <3>2, <4>3, <6>1 DEF CreateTmp, WriteTmp, With
        <5>2. QED
          BY <1>2, <3>2, <4>1, <5>1 DEF Whole, WholeFiles
      <4>4. QED
        BY <4>2, <4>3
    <3>3. QED
      BY <3>1, <3>2
  <2>2. QED
    BY <2>1 DEF WholeFiles
<1>6. WholeDownload'
  <2>1. CASE WriteTmp
    <3>1. from \in DOMAIN cache' => cache'[from] = job.picture
      BY <2>1 DEF WriteTmp
    <3>2. QED
      BY <1>1, <1>2, <3>1 DEF WholeDownload
  <2>2. CASE CreateTmp \/ RenameTmp
    BY <1>1, <2>2 DEF WholeDownload
  <2>3. QED
    BY <2>1, <2>2
<1>7. job'.pc \notin {"layout", "shown"} \cup Tracks /\ library' = library
  BY <1>1 DEF CreateTmp, WriteTmp, RenameTmp, Tracks
<1>8. QED
  BY <1>5, <1>6, <1>7 DEF Whole, WholePicture, WholeCovers

\* A step of the job alone: the picture it goes on with is whole.
LEMMA JobWhole ==
  ASSUME Kept, Whole,
         \/ \E d \in DOMAIN Discs : BeginExport(d)
         \/ \E a \in DOMAIN Assets : BeginShow(a)
         \/ ReadCached \/ Fetch \/ UpdateAsset \/ CheckLayouts
  PROVE  Whole'
<1>1. UNCHANGED <<cache, library>>
  BY DEF BeginExport, BeginShow, ReadCached, Fetch, UpdateAsset, CheckLayouts
<1>2. CASE (\E d \in DOMAIN Discs : BeginExport(d)) \/ (\E a \in DOMAIN Assets : BeginShow(a))
  <2>1. job'.picture = None /\ job'.pc # "rename"
    <3>1. ASSUME NEW d \in DOMAIN Discs, BeginExport(d)
          PROVE  job'.picture = None /\ job'.pc \in {"layout", "cover"}
      BY <3>1 DEF BeginExport
    <3>2. ASSUME NEW a \in DOMAIN Assets, BeginShow(a)
          PROVE  job'.picture = None /\ job'.pc = "cover"
      BY <3>2 DEF BeginShow
    <3>3. QED
      BY <1>2, <3>1, <3>2
  <2>2. QED
    BY <1>1, <2>1 DEF Whole, WholeFiles, WholeDownload, WholePicture, WholeCovers
<1>3. CASE ReadCached
  <2>1. job.pc = "cover" /\ job.file \in DOMAIN cache
    BY <1>3 DEF ReadCached, At
  <2>2. {"pc", "asset", "picture"} \subseteq DOMAIN job
    BY <2>1 DEF Kept, JobKnown
  <2>3. job'.picture = cache[job.file] /\ job'.asset = job.asset /\ job'.pc = AfterCover
    BY <1>3, <2>2 DEF ReadCached
  <2>4. job.asset \in DOMAIN Assets /\ job.file \in {None, CacheName(job.asset)} /\ CacheKnown(cache)
    BY <2>1 DEF Kept, CoverKnown
  <2>5. None \notin DOMAIN cache
    BY <2>4, NoneAssumption DEF CacheKnown
  <2>6. cache[job.file] = PictureOf(job.asset, TRUE)
    BY <2>1, <2>4, <2>5 DEF Whole, WholeFiles
  <2>7. AfterCover # "rename"
    BY DEF AfterCover
  <2>8. QED
    BY <1>1, <2>3, <2>6, <2>7 DEF Whole, WholeFiles, WholeDownload, WholePicture, WholeCovers
<1>4. CASE Fetch
  <2>1. job.pc = "cover"
    BY <1>4 DEF Fetch, At
  <2>2. "pc" \in DOMAIN job
    BY DEF Kept, JobKnown
  <2>3. job'.pc = "create"
    BY <1>4, <2>2 DEF Fetch
  <2>4. job'.pc \notin {"layout", "shown"} \cup Tracks
    BY <2>3 DEF Tracks
  <2>5. QED
    BY <1>1, <2>3, <2>4 DEF Whole, WholeFiles, WholeDownload, WholePicture, WholeCovers
<1>5. CASE UpdateAsset
  <2>1. job.pc = "row" /\ job.pc \in Fetching /\ Goes(AfterCover)
    BY <1>5 DEF UpdateAsset, At, Fetching
  <2>2. job'.pc = AfterCover /\ job'.asset = job.asset /\ job'.picture = job.picture
    BY <2>1, FetchingGoes
  <2>3. job.picture = PictureOf(job.asset, TRUE) /\ AfterCover # "rename"
    BY <2>1, FetchingHas DEF AfterCover
  <2>4. QED
    BY <1>1, <2>2, <2>3 DEF Whole, WholeFiles, WholeDownload, WholePicture, WholeCovers
<1>6. CASE CheckLayouts
  <2>1. job.pc = "layout" /\ Goes("track")
    BY <1>6 DEF CheckLayouts, At
  <2>2. {"pc", "asset", "picture"} \subseteq DOMAIN job
    BY <2>1 DEF Kept, JobKnown
  <2>3. job'.pc = "track" /\ job'.asset = job.asset /\ job'.picture = job.picture
    BY <2>1, <2>2, JobGoes DEF Goes
  <2>4. QED
    BY <1>1, <2>1, <2>3 DEF Whole, WholeFiles, WholeDownload, WholePicture, WholeCovers
<1>7. QED
  BY <1>2, <1>3, <1>4, <1>5, <1>6

LEMMA FilesWhole ==
  ASSUME Kept, Whole, CreateFile \/ EncodeAudioStream \/ WriteMetadata \/ FinishExport
  PROVE  Whole'
<1>1. job.pc \in Tracks /\ cache' = cache
  BY DEF CreateFile, EncodeAudioStream, WriteMetadata, FinishExport, At, Tracks
<1>2. {"pc", "asset", "picture"} \subseteq DOMAIN job
  BY <1>1, Exports
<1>3. \/ job'.pc = "idle"
      \/ job'.pc \in Tracks /\ job'.asset = job.asset /\ job'.picture = job.picture
  <2>1. CASE CreateFile
    <3>1. Goes("encode") /\ "encode" \in Tracks
      BY <2>1 DEF CreateFile, Tracks
    <3>2. QED
      BY <1>1, <3>1, TrackGoes
  <2>2. CASE EncodeAudioStream
    <3>1. Goes("tags") /\ "tags" \in Tracks
      BY <2>2 DEF EncodeAudioStream, Tracks
    <3>2. QED
      BY <1>1, <3>1, TrackGoes
  <2>3. CASE WriteMetadata
    BY <1>2, <2>3 DEF WriteMetadata, Tracks
  <2>4. CASE FinishExport
    BY <2>4 DEF FinishExport, Idle
  <2>5. QED
    BY <2>1, <2>2, <2>3, <2>4
<1>4. job.picture # None => job.picture.whole
  BY <1>1, PicturesAre DEF Whole, WholePicture
<1>5. WholeCovers'
  <2>1. ASSUME NEW path \in DOMAIN library'
        PROVE  \/ path \in DOMAIN library /\ library'[path].cover = library[path].cover
               \/ library'[path].cover \in {None, job.picture}
    <3>1. CASE CreateFile
      <4>1. path # Path => path \in DOMAIN library /\ library'[path] = library[path]
        BY <2>1, <3>1 DEF CreateFile, With
      <4>2. path = Path => library'[path].cover = None
        BY <3>1 DEF CreateFile, With
      <4>3. QED
        BY <4>1, <4>2
    <3>2. CASE EncodeAudioStream
      <4>1. path \in DOMAIN library /\ IsFile(library[path])
        BY <2>1, <3>2 DEF EncodeAudioStream, Kept, FilesKnown
      <4>2. QED
        BY <3>2, <4>1 DEF EncodeAudioStream, IsFile
    <3>3. CASE WriteMetadata
      <4>1. path \in DOMAIN library /\ IsFile(library[path])
        BY <2>1, <3>3 DEF WriteMetadata, Kept, FilesKnown
      <4>2. path # Path => library'[path] = library[path]
        BY <3>3, <4>1 DEF WriteMetadata
      <4>3. path = Path => library'[path].cover = job.picture
        BY <3>3, <4>1 DEF WriteMetadata, IsFile
      <4>4. QED
        BY <4>1, <4>2, <4>3
    <3>4. CASE FinishExport
      BY <2>1, <3>4, FinishWrites
    <3>5. QED
      BY <3>1, <3>2, <3>3, <3>4
  <2>2. QED
    BY <1>4, <2>1 DEF Whole, WholeCovers
<1>6. WholePicture'
  BY <1>1, <1>3 DEF Whole, WholePicture, Tracks
<1>7. job'.pc # "rename"
  BY <1>3 DEF Tracks
<1>8. QED
  BY <1>1, <1>5, <1>6, <1>7 DEF Whole, WholeFiles, WholeDownload

LEMMA NextWhole == Kept /\ DistinctIds /\ Whole /\ [Next]_vars => Whole'
<1> SUFFICES ASSUME Kept, DistinctIds, Whole, [Next]_vars PROVE Whole'
  OBVIOUS
<1>1. CASE CreateTmp \/ WriteTmp \/ RenameTmp
  BY <1>1, DownloadWhole
<1>2. CASE \/ \E d \in DOMAIN Discs : BeginExport(d)
           \/ \E a \in DOMAIN Assets : BeginShow(a)
           \/ ReadCached \/ Fetch \/ UpdateAsset \/ CheckLayouts
  BY <1>2, JobWhole
<1>3. CASE CreateFile \/ EncodeAudioStream \/ WriteMetadata \/ FinishExport
  BY <1>3, FilesWhole
<1>4. CASE Shown \/ Refused \/ Stop
  <2>1. UNCHANGED <<cache, library>> /\ job'.pc = "idle"
    BY <1>4 DEF Shown, Refused, Stop, Idle
  <2>2. QED
    BY <2>1 DEF Whole, WholeFiles, WholeDownload, WholePicture, WholeCovers, Tracks
<1>5. CASE ClearCache
  <2>1. DOMAIN cache' = {} /\ UNCHANGED <<job, library>>
    BY <1>5 DEF ClearCache
  <2>2. QED
    BY <2>1 DEF Whole, WholeFiles, WholeDownload, WholePicture, WholeCovers
<1>6. CASE UNCHANGED <<cache, job, library>>
  BY <1>6 DEF Whole, WholeFiles, WholeDownload, WholePicture, WholeCovers
<1>7. QED
  <2>1. \/ CreateTmp \/ WriteTmp \/ RenameTmp
        \/ (\E d \in DOMAIN Discs : BeginExport(d)) \/ (\E a \in DOMAIN Assets : BeginShow(a))
        \/ ReadCached \/ Fetch \/ UpdateAsset \/ CheckLayouts
        \/ CreateFile \/ EncodeAudioStream \/ WriteMetadata \/ FinishExport
        \/ Shown \/ Refused \/ Stop \/ ClearCache
        \/ UNCHANGED <<cache, job, library>>
    BY DEF Next, Identify, ResetDatabase, SwitchDatabase, vars
  <2>2. QED
    BY <1>1, <1>2, <1>3, <1>4, <1>5, <1>6, <2>1

\* A picture that is shown or embedded is all of what its asset's address has, however
\* often the cache was cleared and a download was cut off. The condition is needed: the
\* cache is shared by the databases, whose assets have the same ids.
THEOREM CoverIsAlwaysAssets == ASSUME DistinctIds PROVE Spec => []CoverIsAssets
<1>1. Init => Whole
  BY DEF Init, Idle, Whole, WholeFiles, WholeDownload, WholePicture, WholeCovers, Tracks
<1>2. Kept /\ Whole /\ [Next]_vars => Whole'
  BY NextWhole
<1>3. Kept /\ Whole => CoverIsAssets
  <2> SUFFICES ASSUME Kept, Whole PROVE CoverIsAssets
    OBVIOUS
  <2>1. ASSUME job.pc \in {"layout", "shown", "track", "encode", "tags"}, job.picture # None
        PROVE  job.picture = PictureOf(job.asset, TRUE)
    BY <2>1 DEF Whole, WholePicture, Tracks
  <2>2. ASSUME NEW d \in DOMAIN reports, NEW i \in DOMAIN reports[d], library[reports[d][i]].cover # None
        PROVE  library[reports[d][i]].cover.whole
    BY <2>2, ReportIs DEF Whole, WholeCovers
  <2>3. QED
    BY <2>1, <2>2 DEF CoverIsAssets
<1>4. QED
  BY <1>1, <1>2, <1>3, AlwaysKept, PTL DEF Spec
=============================================================================
