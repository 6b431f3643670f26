------------------------------- MODULE Providers -------------------------------
(***************************************************************************)
(* What each provider asks its service and makes of the reply (lookup_many *)
(* and lookup_art of the provider crates), and how replies about artwork   *)
(* are put together (phono-junk-identify/src/lib.rs).                      *)
(*                                                                         *)
(* A reply is [error, status, body]: the client's error, if it got none;   *)
(* the HTTP status; and what the JSON or HTML says, None when it cannot be *)
(* read. Of a body the model keeps the fields that identify, name and      *)
(* number things; a title that holds a separator is a sequence of parts.   *)
(***************************************************************************)
EXTENDS Naturals, Sequences, SequencesExt

CONSTANTS None

-----------------------------------------------------------------------------
(* The providers, their credentials and what they allow.                   *)

Identifying == {"musicbrainz", "discogs", "tower", "barcodelookup"}
Picturing == {"coverartarchive", "itunes", "discogs", "tower", "barcodelookup"}
WithCredential == {"discogs", "barcodelookup"}

\* Requests and the seconds they are spread over (HostRatePolicy).
RatePolicy ==
  [musicbrainz |-> <<1, 1>>, coverartarchive |-> <<1, 1>>, itunes |-> <<20, 60>>,
   discogs |-> <<60, 60>>, tower |-> <<1, 2>>, barcodelookup |-> <<1, 1>>]

NonEmpty(v) == v \notin {None, ""}

BarcodeOrCatalog(ids) ==
  IF NonEmpty(ids.barcode) THEN <<"barcode", ids.barcode>>
  ELSE IF NonEmpty(ids.catalog) THEN <<"catno", ids.catalog>> ELSE None

\* What a provider looks an identity up by: None when it cannot.
Query(provider, ids) ==
  CASE provider = "musicbrainz" -> IF ids.disc = None THEN None ELSE <<"discid", ids.disc>>
    [] provider \in {"discogs", "tower"} -> BarcodeOrCatalog(ids)
    [] provider = "barcodelookup" ->
         IF NonEmpty(ids.barcode) THEN <<"barcode", ids.barcode>> ELSE None

\* What a provider looks artwork up by. The catalog number is an empty one where
\* the release's MusicBrainz id or the text is what counts.
ArtQuery(provider, ids, release) ==
  CASE provider = "coverartarchive" -> IF release.mbid = None THEN None ELSE <<"mbid", release.mbid>>
    [] provider = "itunes" ->
         IF None \in {release.title, release.artist} THEN None
         ELSE <<"term", <<release.artist, release.title>>>>
    [] OTHER -> Query(provider, ids)

-----------------------------------------------------------------------------
(* Outcomes. A reply that is neither a success nor "not there" is an error. *)

Found(hits) == [ok |-> TRUE, hits |-> hits, error |-> None]
Failed(error) == [ok |-> FALSE, hits |-> <<>>, error |-> error]

HttpErrors == {"InvalidUrl", "Transport", "ServerRateLimited", "Timeout"}
MapHttpErr(e) == IF e = "ServerRateLimited" THEN "RateLimited" ELSE "Network"

StatusError(provider, status) ==
  IF provider \in WithCredential /\ status \in {401, 403} THEN "Auth"
  ELSE IF provider \in {"musicbrainz", "coverartarchive", "itunes"} THEN "Other"
  ELSE "Network"

\* The body of a reply, or why there is none.
Answer(provider, reply) ==
  IF reply.error # None THEN Failed(MapHttpErr(reply.error))
  ELSE IF reply.status = 404 THEN Found(<<>>)
  ELSE IF reply.status # 200 THEN Failed(StatusError(provider, reply.status))
  ELSE IF reply.body = None THEN Failed("Parse") ELSE Found(reply.body)

-----------------------------------------------------------------------------
(* Candidates.                                                             *)

FirstOf(s) == IF s = <<>> THEN None ELSE s[1]

\* The first value that is there, None if none is.
FirstKnown(s) == FirstOf(SelectSeq(s, LAMBDA v : v # None))

\* ReleaseCandidate::from_result: keyed by the MusicBrainz id, else by what it says.
KeyOf(c) ==
  IF c.mbid # None THEN <<"musicbrainz:release", c.mbid>>
  ELSE LET said(v) == IF v = None THEN "" ELSE v
       IN  <<c.provider, said(c.barcode), said(c.catalog), said(c.title)>>

Candidate(provider, release) ==
  [provider |-> provider, mbid |-> release.mbid, title |-> release.title,
   artist |-> release.artist, year |-> release.year, label |-> release.label,
   catalog |-> release.catalog, barcode |-> release.barcode]

\* With what only the provider knows: the medium, and whether it is this disc.
Of(candidate, key, tracks, number, exact) ==
  [candidate |-> candidate, key |-> key, tracks |-> tracks, number |-> number, exact |-> exact]

\* Milliseconds as frames of 1/75 s, rounded down.
MsToFrames(ms) == (ms * 75) \div 1000

MediumTracks(medium) ==
  [i \in DOMAIN medium.tracks |->
    [position |-> medium.tracks[i].position, title |-> medium.tracks[i].title,
     length |-> IF medium.tracks[i].length = None THEN None
                ELSE MsToFrames(medium.tracks[i].length)]]

\* artist_credit::format: names and the phrases between them, one after the other.
CreditText(credits) ==
  FlattenSeq([i \in DOMAIN credits |->
    IF credits[i].join = None THEN <<credits[i].name>> ELSE <<credits[i].name, credits[i].join>>])

\* result_for_release_medium
MusicBrainzRelease(release) ==
  LET credit == CreditText(release.artists)
      infos == release.labelInfo
  IN  Candidate("musicbrainz",
        [mbid |-> release.id, title |-> release.title,
         artist |-> IF credit = <<>> THEN None ELSE credit, year |-> release.year,
         label |-> FirstKnown([i \in DOMAIN infos |-> infos[i].label]),
         catalog |-> FirstKnown([i \in DOMAIN infos |-> infos[i].catalog]),
         barcode |-> release.barcode])

\* Mutant: the key names the release, as from_result has it.
KeyedByRelease(release, number) == <<"musicbrainz:release", release.id>>

MediumKey(release, number) == <<"musicbrainz:release", release.id, "medium", number>>

\* parse_discid_candidates: where a release lists discs, only the media that have
\* this one; else all of them. A release that is alone is taken to be exact.
MediumCandidates(releases, discid) ==
  LET listed(r) == \E m \in ToSet(r.media) : m.discs # {}
      number(r, i) == IF r.media[i].position = None THEN i ELSE r.media[i].position
      has(r, i) == discid \in r.media[i].discs
      candidate(r, i) ==
        Of(MusicBrainzRelease(r), MediumKey(r, number(r, i)), MediumTracks(r.media[i]),
           number(r, i), has(r, i) \/ Len(releases) = 1)
      ofRelease(r) ==
        FlattenSeq([i \in DOMAIN r.media |->
          IF listed(r) /\ ~has(r, i) THEN <<>> ELSE <<candidate(r, i)>>])
  IN  FlattenSeq([i \in DOMAIN releases |-> ofRelease(releases[i])])

\* "Artist - Title": without both parts it is all title.
SplitTitle(parts) ==
  IF parts = <<>> THEN [artist |-> None, title |-> None]
  ELSE IF Len(parts) > 1 /\ parts[1] # "" /\ Tail(parts) # <<"">>
    THEN [artist |-> parts[1], title |-> Tail(parts)]
    ELSE [artist |-> None, title |-> parts]

\* candidate_from_hit: a search hit has no tracks. Without an id its place is its key.
DiscogsCandidates(hits) ==
  [i \in DOMAIN hits |->
    LET names == SplitTitle(hits[i].title)
        key == IF hits[i].id # None THEN <<"discogs:release", hits[i].id>>
               ELSE <<"discogs:search-hit", i - 1>>
    IN  Of(Candidate("discogs",
             [mbid |-> None, title |-> names.title, artist |-> names.artist, year |-> hits[i].year,
              label |-> FirstOf(hits[i].labels), catalog |-> hits[i].catno,
              barcode |-> FirstOf(hits[i].barcodes)]),
           key, <<>>, None, FALSE)]

\* candidate_from_product: blank fields are missing ones.
ProductCandidates(products) ==
  LET known(v) == IF NonEmpty(v) THEN v ELSE None
      release(p) ==
        [mbid |-> None, title |-> known(p.title),
         artist |-> FirstKnown(<<known(p.manufacturer), known(p.brand)>>), year |-> p.year,
         label |-> known(p.manufacturer), catalog |-> None, barcode |-> known(p.barcode)]
  IN  [i \in DOMAIN products |->
        LET c == Candidate("barcodelookup", release(products[i]))
        IN  Of(c, <<"barcodelookup", IF c.barcode = None THEN "unknown" ELSE c.barcode, i - 1>>,
               <<>>, None, FALSE)]

-----------------------------------------------------------------------------
(* Tower's pages. A search page is a sequence of cards, a release page a    *)
(* record of its information rows and of its track list's rows.            *)

\* parse_search_page: a card is a hit when it is a release's and its link has a number.
IsHit(card) == card.category = "Release" /\ card.release # None

\* A row is the heading of a disc, or the next track, counted with or without a
\* title; one without is left out. Other rows do not count.
ListRow(list, row) ==
  CASE row.kind = "heading" ->
         [list EXCEPT !.disc = IF list.position > 0 THEN @ + 1 ELSE @, !.position = 0]
    [] row.kind = "track" ->
         LET next == [list EXCEPT !.position = @ + 1]
         IN  IF row.title = None THEN next
             ELSE [next EXCEPT !.tracks = Append(@, [disc |-> next.disc,
                     position |-> next.position, title |-> row.title, length |-> None])]
    [] OTHER -> list

\* parse_tracklist
Tracklist(rows) ==
  FoldLeft(ListRow, [disc |-> 1, position |-> 0, tracks |-> <<>>], rows).tracks

\* result_from_detail: the tracks without the disc that they are on.
TowerCandidates(page) ==
  LET c == Candidate("tower", [mbid |-> None, title |-> page.title, artist |-> page.artist,
             year |-> page.year, label |-> page.label, catalog |-> page.catalog,
             barcode |-> page.barcode])
      list == Tracklist(page.rows)
      tracks == [i \in DOMAIN list |-> [position |-> list[i].position, title |-> list[i].title,
                                        length |-> list[i].length]]
  IN  <<Of(c, KeyOf(c), tracks, None, FALSE)>>

\* parse_version_list: other releases, each once.
Versions(links, current) ==
  FoldLeft(LAMBDA known, l :
      IF l.release \in {None, current} \/ l.title = None
           \/ \E v \in ToSet(known) : v.release = l.release
        THEN known ELSE Append(known, l),
    <<>>, links)

-----------------------------------------------------------------------------
(* Identification by one provider. Tower needs two replies: the search's,   *)
(* and that of its first hit's page.                                       *)

NeedsPage(search) ==
  /\ Answer("tower", search).ok
  /\ \E i \in DOMAIN Answer("tower", search).hits : IsHit(Answer("tower", search).hits[i])

\* Mutant: a release page that cannot be had is no match.
TowerQuietly(search, page) ==
  LET opened == Answer("tower", page)
  IN  IF ~Answer("tower", search).ok THEN Answer("tower", search)
      ELSE IF ~NeedsPage(search) \/ ~opened.ok \/ page.status = 404 THEN Found(<<>>)
      ELSE Found(TowerCandidates(opened.hits))

\* identify_via_search
TowerLookup(search, page) ==
  LET opened == Answer("tower", page)
  IN  IF ~Answer("tower", search).ok THEN Answer("tower", search)
      ELSE IF ~NeedsPage(search) THEN Found(<<>>)
      ELSE IF ~opened.ok \/ page.status = 404 THEN opened
      ELSE Found(TowerCandidates(opened.hits))

\* lookup_many: first the credential, then whether there is anything to ask.
LookupMany(provider, ids, credentials, reply, page) ==
  IF provider \in WithCredential \ credentials THEN Failed("MissingCredential")
  ELSE IF Query(provider, ids) = None THEN Found(<<>>)
  ELSE IF provider = "tower" THEN TowerLookup(reply, page)
  ELSE LET answer == Answer(provider, reply)
       IN  IF ~answer.ok THEN answer
           ELSE CASE provider = "musicbrainz" ->
                       Found(MediumCandidates(answer.hits, ids.disc))
                  [] provider = "discogs" -> Found(DiscogsCandidates(answer.hits))
                  [] provider = "barcodelookup" -> Found(ProductCandidates(answer.hits))

-----------------------------------------------------------------------------
(* Artwork.                                                                *)

Asset(provider, kind, url, confidence) ==
  [provider |-> provider, kind |-> kind, url |-> url, confidence |-> confidence]

\* What an image of the Cover Art Archive is: its types before its flags.
Classify(image) ==
  CASE "booklet" \in image.types -> "Booklet"
    [] "booklet" \notin image.types /\ "tray" \in image.types -> "TrayInsert"
    [] {"booklet", "tray"} \cap image.types = {} /\ "medium" \in image.types -> "CdLabel"
    [] image.types \cap {"booklet", "tray", "medium", "obi"} = {"obi"} -> "ObiStrip"
    [] OTHER -> IF image.back THEN "BackCover" ELSE IF image.front THEN "FrontCover" ELSE "Other"

\* The pictures of a body; an address that is none is left out (None here).
Pictures(provider, body) ==
  LET all ==
        CASE provider = "coverartarchive" ->
               [i \in DOMAIN body |-> Asset(provider, Classify(body[i]), body[i].url, "Exact")]
          [] provider = "itunes" ->
               [i \in DOMAIN body |-> Asset(provider, "FrontCover", body[i].url, "Fuzzy")]
          [] provider \in {"discogs", "barcodelookup"} ->
               [i \in 1 .. (IF body = <<>> THEN 0 ELSE 1) |->
                 Asset(provider, "FrontCover", FirstOf(body[i].images), "Identifier")]
          [] provider = "tower" -> <<Asset(provider, "FrontCover", body.cover, "Identifier")>>
  IN  SelectSeq(all, LAMBDA a : a.url # None)

\* lookup_art. Tower is silent about every error; Discogs and Barcode Lookup about
\* a missing credential and a refusal, but not about a request that failed.
LookupArt(provider, ids, release, credentials, reply, page) ==
  LET answer == Answer(provider, reply)
      quiet == provider \in WithCredential /\ reply.error = None /\ reply.status # 200
  IN  IF provider \in WithCredential \ credentials \/ ArtQuery(provider, ids, release) = None
        THEN Found(<<>>)
      ELSE IF provider = "tower"
        THEN IF NeedsPage(reply) /\ Answer("tower", page).ok /\ page.status = 200
               THEN Found(Pictures("tower", page.body)) ELSE Found(<<>>)
      ELSE IF quiet THEN Found(<<>>)
      ELSE IF ~answer.ok THEN answer
      ELSE Found(Pictures(provider, answer.hits))

\* Mutant: a picture is known by its provider too.
SameFromOther(a, b) == a.provider = b.provider /\ a.kind = b.kind /\ a.url = b.url

SamePicture(a, b) == a.kind = b.kind /\ a.url = b.url

\* lookup_assets_excluding: of the providers in their order, each picture once.
\* Results is their outcomes, <<name, outcome>>.
LookupAssets(results, excluded) ==
  LET asked == SelectSeq(results, LAMBDA r : r[1] \notin excluded)
      batches == FlattenSeq([i \in DOMAIN asked |-> asked[i][2].hits])
      known(kept, a) == \E k \in ToSet(kept) : SamePicture(k, a)
      failed == SelectSeq(asked, LAMBDA r : ~r[2].ok)
  IN  [candidates |-> FoldLeft(LAMBDA kept, a : IF known(kept, a) THEN kept ELSE Append(kept, a),
                               <<>>, batches),
       errors |-> [i \in DOMAIN failed |-> <<failed[i][1], failed[i][2].error>>]]
=============================================================================
