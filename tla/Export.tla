--------------------------------- MODULE Export ---------------------------------
(***************************************************************************)
(* Export of a disc as tagged FLAC files (phono-junk-lib/src/extract.rs    *)
(* and phono-junk-extract), and the cache of cover art that it shares with *)
(* the detail panel.                                                       *)
(*                                                                         *)
(* One worker exports discs and caches pictures, one after the other. What *)
(* the catalog says of a disc stays as it is, but discs become known one   *)
(* by one. A name is a sequence of characters, an audio track is the rip   *)
(* and the track number that it was read from. A statement may fail and    *)
(* the process may end between any two (Stop).                             *)
(***************************************************************************)
EXTENDS Naturals, Sequences, FiniteSets, FiniteSetsExt, SequencesExt

CONSTANTS
  None,
  Databases,
  Albums,     \* album -> [artist, title, year]
  Releases,   \* release -> [album, database]
  Discs,      \* disc -> [release, number, tracks, ripped: the track numbers of its rip]
  Assets,     \* asset -> [release, id, kind, group, sequence, url]
  Pictures,   \* url -> the kind of image that is there, or None
  MaxMishaps  \* bounds failures, cleared caches and resets together

\* A disc has one track of a position, and a release one asset of an id (schema.rs); a
\* database that is reset starts its ids again.
ASSUME DiscsAssumption ==
  \A d \in DOMAIN Discs :
    LET tracks == Discs[d].tracks
    IN  /\ d # None /\ tracks \in Seq({tracks[i] : i \in DOMAIN tracks})
        /\ \A i, j \in DOMAIN tracks : i # j => tracks[i].position # tracks[j].position
        /\ \A i \in DOMAIN tracks : tracks[i].position # None
ASSUME AssetsAssumption ==
  \A a \in DOMAIN Assets :
    /\ a # None /\ {Assets[a].id, Assets[a].group, Assets[a].sequence} \subseteq Nat
    /\ \A b \in DOMAIN Assets \ {a} :
         Assets[a].release = Assets[b].release => Assets[a].id # Assets[b].id

VARIABLES
  open,       \* the database that is open
  known,      \* the discs that have been identified
  paths,      \* of each asset, where its row says that the picture is
  cache,      \* cache directory: name -> picture, [url, whole]
  library,    \* exported files: path -> [audio, tags, cover]
  job,        \* what the worker does
  reports,    \* history: what the last export of a disc said it has written, since its
              \* database was last emptied
  mishaps

vars == <<open, known, paths, cache, library, job, reports, mishaps>>

Idle == [pc |-> "idle"]

\* The function f, with this value for this argument.
With(f, x, value) == [y \in DOMAIN f \cup {x} |-> IF y = x THEN value ELSE f[y]]

Init ==
  /\ open \in Databases
  /\ known = {}
  /\ paths = [a \in DOMAIN Assets |-> None]
  /\ cache = <<>>
  /\ library = <<>>
  /\ job = Idle
  /\ reports = <<>>
  /\ mishaps = 0

-----------------------------------------------------------------------------
(* Names and paths.                                                        *)

Illegal == {"/", "\\", ":", "*", "?", "<", ">", "|"}
Trimmed == {".", " "}

\* sanitize_path_component: spaces collapse, what no file system has in a name is
\* replaced, and dots and spaces are taken from both ends.
Sanitize(name) ==
  LET spaced == FoldLeft(LAMBDA s, c : IF c = " " /\ s # <<>> /\ Last(s) = " " THEN s ELSE Append(s, c),
                         <<>>, name)
      legal == [i \in DOMAIN spaced |-> IF spaced[i] \in Illegal THEN "_" ELSE spaced[i]]
      kept == {i \in DOMAIN legal : legal[i] \notin Trimmed}
  IN  IF kept = {} THEN <<"Unknown">> ELSE SubSeq(legal, Min(kept), Max(kept))

\* resolve_album_artist: various artists where the album says so, or where all
\* tracks have artists, of which there are several and none is the album's.
AlbumArtist(album, tracks) ==
  LET artists == {tracks[i].artist : i \in DOMAIN tracks}
      various == /\ tracks # <<>> /\ None \notin artists
                 /\ Cardinality(artists) > 1 /\ album.artist \notin artists
  IN  IF album.artist = <<"Various Artists">> \/ various THEN <<"Various Artists">>
      ELSE IF album.artist = None THEN <<"Unknown Artist">> ELSE album.artist

ReleaseOf(d) == Releases[Discs[d].release]
AlbumOf(d) == Albums[ReleaseOf(d).album]

TotalDiscs(d) == Cardinality({k \in known : Discs[k].release = Discs[d].release})

\* album_artist_component, album_folder_name
AlbumDirectory(d) ==
  <<Sanitize(AlbumArtist(AlbumOf(d), Discs[d].tracks)), Sanitize(AlbumOf(d).title), AlbumOf(d).year>>

\* plan_disc_directory: the discs of a release have a folder each, once there are several.
DiscDirectory(d) ==
  IF TotalDiscs(d) > 1 THEN Append(AlbumDirectory(d), Discs[d].number) ELSE AlbumDirectory(d)

TrackFileName(track) ==
  <<track.position, IF track.title = None THEN <<"Unknown Track">> ELSE Sanitize(track.title)>>

\* plan_output_paths
OutputPaths(d) ==
  [i \in DOMAIN Discs[d].tracks |-> <<DiscDirectory(d), TrackFileName(Discs[d].tracks[i])>>]

-----------------------------------------------------------------------------
(* The cover.                                                              *)

AssetsOf(d) == {a \in DOMAIN Assets : Assets[a].release = Discs[d].release}

\* pick_front_cover: the first group, sequence and id; no group comes last.
PickFrontCover(assets) ==
  LET fronts == {a \in assets : Assets[a].kind = "FrontCover"}
      before(a, b) ==
        \/ Assets[a].group < Assets[b].group
        \/ Assets[a].group = Assets[b].group /\ Assets[a].sequence < Assets[b].sequence
        \/ /\ Assets[a].group = Assets[b].group /\ Assets[a].sequence = Assets[b].sequence
           /\ Assets[a].id < Assets[b].id
  IN  IF fronts = {} THEN None ELSE CHOOSE a \in fronts : \A b \in fronts \ {a} : before(a, b)

\* The name of a cached picture: its asset's id, whatever the database.
CacheName(a) == <<Assets[a].id, Pictures[Assets[a].url]>>

\* Mutant: the picture is written under its name.
InPlace(a) == CacheName(a)

TmpName(a) == Append(CacheName(a), "tmp")

\* What the address of an asset has, or a beginning of it.
PictureOf(a, whole) == [url |-> Assets[a].url, whole |-> whole]

\* None is no name, and no picture.
ASSUME NoneAssumption ==
  \A a \in DOMAIN Assets :
    None \notin {CacheName(a), TmpName(a), PictureOf(a, TRUE), PictureOf(a, FALSE)}

At(pc) == job.pc = pc
Goes(pc) == job' = [job EXCEPT !.pc = pc]

\* cache_asset_bytes ends: a picture is shown, an export goes on.
AfterCover == IF job.disc = None THEN "shown" ELSE "layout"

\* export_disc, until the cover: the rows are read once.
BeginExport(d) ==
  LET a == PickFrontCover(AssetsOf(d))
  IN  /\ At("idle") /\ ReleaseOf(d).database = open
      /\ d \in known /\ Discs[d].ripped # None
      /\ job' = [pc |-> IF a = None THEN "layout" ELSE "cover", disc |-> d, asset |-> a,
                 file |-> IF a = None THEN None ELSE paths[a], picture |-> None,
                 paths |-> OutputPaths(d), folder |-> DiscDirectory(d), done |-> 0]
      /\ reports' = [k \in DOMAIN reports \ {d} |-> reports[k]]
      /\ UNCHANGED <<open, known, paths, cache, library, mishaps>>

\* run_asset_cache_job: on the row of a cover that the panel has read, perhaps before
\* it had a file.
BeginShow(a) ==
  /\ At("idle") /\ Releases[Assets[a].release].database = open
  /\ \E d \in known : a = PickFrontCover(AssetsOf(d))
  /\ \E file \in {None, paths[a]} :
       job' = [pc |-> "cover", disc |-> None, asset |-> a, file |-> file, picture |-> None]
  /\ UNCHANGED <<open, known, paths, cache, library, reports, mishaps>>

\* A row whose file is there is a hit.
ReadCached ==
  /\ At("cover") /\ job.file \in DOMAIN cache
  /\ job' = [job EXCEPT !.picture = cache[job.file], !.pc = AfterCover]
  /\ UNCHANGED <<open, known, paths, cache, library, reports, mishaps>>

\* Only an image of a known kind is kept.
Fetch ==
  /\ At("cover") /\ job.file \notin DOMAIN cache
  /\ Pictures[Assets[job.asset].url] # None
  /\ job' = [job EXCEPT !.picture = PictureOf(job.asset, TRUE), !.pc = "create"]
  /\ UNCHANGED <<open, known, paths, cache, library, reports, mishaps>>

CreateTmp ==
  /\ At("create") /\ Goes("write")
  /\ cache' = With(cache, TmpName(job.asset), [job.picture EXCEPT !.whole = FALSE])
  /\ UNCHANGED <<open, known, paths, library, reports, mishaps>>

WriteTmp ==
  /\ At("write") /\ Goes("rename")
  /\ cache' = [n \in DOMAIN cache |-> IF n = TmpName(job.asset) THEN job.picture ELSE cache[n]]
  /\ UNCHANGED <<open, known, paths, library, reports, mishaps>>

RenameTmp ==
  /\ At("rename") /\ TmpName(job.asset) \in DOMAIN cache /\ Goes("row")
  /\ cache' = [n \in (DOMAIN cache \ {TmpName(job.asset)}) \cup {CacheName(job.asset)} |->
                IF n = CacheName(job.asset) THEN cache[TmpName(job.asset)] ELSE cache[n]]
  /\ UNCHANGED <<open, known, paths, library, reports, mishaps>>

UpdateAsset ==
  /\ At("row") /\ Goes(AfterCover)
  /\ paths' = [paths EXCEPT ![job.asset] = CacheName(job.asset)]
  /\ UNCHANGED <<open, known, cache, library, reports, mishaps>>

\* AssetCached: the panel has its picture.
Shown == At("shown") /\ job' = Idle /\ UNCHANGED <<open, known, paths, cache, library, reports, mishaps>>

-----------------------------------------------------------------------------
(* The files.                                                              *)

Track == Discs[job.disc].tracks[job.done + 1]
Path == job.paths[job.done + 1]

\* Mutant: the audio is that of the track at the same place in the rip.
PcmAtPlace(d, place) == <<d, SetToSortSeq(Discs[d].ripped, <)[place]>>

\* open_pcm_reader: by track number.
Pcm(d, place) == <<d, Discs[d].tracks[place].position>>

\* build_track_tags
Tags(d, place) ==
  LET track == Discs[d].tracks[place]
      album == AlbumOf(d)
  IN  [album |-> album.title, albumArtist |-> AlbumArtist(album, Discs[d].tracks),
       artist |-> IF track.artist # None THEN track.artist
                  ELSE IF album.artist # None THEN album.artist
                  ELSE AlbumArtist(album, Discs[d].tracks),
       title |-> track.title, track |-> track.position, tracks |-> Len(Discs[d].tracks),
       disc |-> Discs[d].number]

\* verify_layouts_match_tracks: every track is one of the rip.
InRip(d) == \A i \in DOMAIN Discs[d].tracks : Discs[d].tracks[i].position \in Discs[d].ripped

CheckLayouts ==
  /\ At("layout") /\ InRip(job.disc) /\ Goes("track")
  /\ UNCHANGED <<open, known, paths, cache, library, reports, mishaps>>

\* A file that is there is truncated.
CreateFile ==
  /\ At("track") /\ job.done < Len(job.paths) /\ Goes("encode")
  /\ library' = With(library, Path, [audio |-> None, tags |-> None, cover |-> None])
  /\ UNCHANGED <<open, known, paths, cache, reports, mishaps>>

EncodeAudioStream ==
  /\ At("encode") /\ Goes("tags")
  /\ library' = [library EXCEPT ![Path].audio = Pcm(job.disc, job.done + 1)]
  /\ UNCHANGED <<open, known, paths, cache, reports, mishaps>>

WriteMetadata ==
  /\ At("tags") /\ job' = [job EXCEPT !.pc = "track", !.done = @ + 1]
  /\ library' = [library EXCEPT ![Path].tags = Tags(job.disc, job.done + 1), ![Path].cover = job.picture]
  /\ UNCHANGED <<open, known, paths, cache, reports, mishaps>>

\* The cover goes beside the files, and the export is over.
FinishExport ==
  /\ At("track") /\ job.done = Len(job.paths) /\ job' = Idle
  /\ library' = IF job.picture = None THEN library
                ELSE With(library, <<job.folder, <<None, <<Pictures[Assets[job.asset].url]>>>>>>,
                          [audio |-> None, tags |-> None, cover |-> job.picture])
  /\ reports' = With(reports, job.disc, job.paths)
  /\ UNCHANGED <<open, known, paths, cache, mishaps>>

-----------------------------------------------------------------------------
(* What else happens.                                                      *)

Mishap == mishaps < MaxMishaps /\ mishaps' = mishaps + 1

\* What cannot go on: no image, no track of that number, a file that has gone.
Refused ==
  /\ \/ At("cover") /\ job.file \notin DOMAIN cache /\ Pictures[Assets[job.asset].url] = None
     \/ At("layout") /\ ~InRip(job.disc)
     \/ At("rename") /\ TmpName(job.asset) \notin DOMAIN cache
  /\ job' = Idle
  /\ UNCHANGED <<open, known, paths, cache, library, reports, mishaps>>

Stop ==
  /\ ~At("idle") /\ Mishap /\ job' = Idle
  /\ UNCHANGED <<open, known, paths, cache, library, reports>>

\* Identification, another job of the worker.
Identify(d) ==
  /\ At("idle") /\ d \notin known /\ ReleaseOf(d).database = open
  /\ known' = known \cup {d}
  /\ UNCHANGED <<open, paths, cache, library, job, reports, mishaps>>

\* Ids start again; files stay. What was exported before is as good as another's.
ResetDatabase ==
  LET ours == {a \in DOMAIN Assets : Releases[Assets[a].release].database = open}
  IN  /\ At("idle") /\ Mishap
      /\ known' = {d \in known : ReleaseOf(d).database # open}
      /\ reports' = [d \in DOMAIN reports \cap known' |-> reports[d]]
      /\ paths' = [a \in DOMAIN paths |-> IF a \in ours THEN None ELSE paths[a]]
      /\ UNCHANGED <<open, cache, library, job>>

SwitchDatabase ==
  /\ At("idle") /\ open' \in Databases \ {open}
  /\ UNCHANGED <<known, paths, cache, library, job, reports, mishaps>>

\* A cache may be cleared at any time.
ClearCache ==
  /\ cache # <<>> /\ Mishap /\ cache' = <<>>
  /\ UNCHANGED <<open, known, paths, library, job, reports>>

Next ==
  \/ \E d \in DOMAIN Discs : BeginExport(d) \/ Identify(d)
  \/ \E a \in DOMAIN Assets : BeginShow(a)
  \/ ReadCached \/ Fetch \/ CreateTmp \/ WriteTmp \/ RenameTmp \/ UpdateAsset \/ Shown
  \/ CheckLayouts \/ CreateFile \/ EncodeAudioStream \/ WriteMetadata \/ FinishExport
  \/ Refused \/ Stop \/ ResetDatabase \/ SwitchDatabase \/ ClearCache

Spec == Init /\ [][Next]_vars

-----------------------------------------------------------------------------

\* What the last export of a disc has reported is there, whatever other discs were
\* exported since and however they ended: every track in a file of its own, with the
\* audio of its own number in the rip, its tags, and a cover if the release has one.
ExportedStays ==
  \A d \in DOMAIN reports : \A i \in DOMAIN reports[d] :
    LET file == library[reports[d][i]]
    IN  /\ file.audio = <<d, Discs[d].tracks[i].position>>
        /\ file.tags.disc = Discs[d].number /\ file.tags.track = Discs[d].tracks[i].position
        /\ (file.cover = None) <=> (PickFrontCover(AssetsOf(d)) = None)

\* A picture that is embedded or shown is all of what the asset's address has,
\* however often the cache was cleared and a download interrupted.
CoverIsAssets ==
  /\ job.pc \in {"layout", "shown", "track", "encode", "tags"} /\ job.picture # None =>
       job.picture = PictureOf(job.asset, TRUE)
  /\ \A d \in DOMAIN reports : \A i \in DOMAIN reports[d] :
       library[reports[d][i]].cover # None => library[reports[d][i]].cover.whole
=============================================================================
