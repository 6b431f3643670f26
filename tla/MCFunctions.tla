----------------------------- MODULE MCFunctions -----------------------------
(***************************************************************************)
(* The algorithms that keep no state, over every small input. A question   *)
(* is asked and answered:                                                  *)
(*   - audio: a rip and a dBAR file. The rip and the reference that the    *)
(*     dBAR was computed from are two parts of one stream, lag samples     *)
(*     apart.                                                              *)
(*   - lookup: what a provider replies to an identification;               *)
(*   - artwork: the pictures that the providers offer together;            *)
(*   - layout: the tracks of an image;                                     *)
(*   - sidecars: a rip and the files beside it;                            *)
(*   - corrections: a disc and what its user says of it.                   *)
(***************************************************************************)
EXTENDS OffsetSearch

CONSTANTS
  Samples,      \* the samples that occur
  Splits,       \* the lengths of a disc's tracks
  Submissions,  \* the versions that the pressings of a dBAR were computed with
  Unreadable, LeadIn, ExtraGap, Second

VARIABLES question, summary

vars == <<question, summary>>

Providers == INSTANCE Providers
Facts == INSTANCE DiscFacts
Corrections == INSTANCE Overrides

Asked(kind) == question.kind = kind
Answered == summary # None

-----------------------------------------------------------------------------
(* Audio.                                                                  *)

Cut(stream, from, lengths) ==
  [i \in DOMAIN lengths |->
    LET start == from + MapThenSumSet(LAMBDA j : lengths[j], 1 .. (i - 1))
    IN  [position |-> i, samples |-> SubSeq(stream, start + 1, start + lengths[i])]]

Length(lengths) == MapThenSumSet(LAMBDA j : lengths[j], DOMAIN lengths)

\* The disc of q as its owner read it, and as those who submitted it did.
Rip(q) == Cut(q.stream, IF q.lag > 0 THEN 0 ELSE -q.lag, q.lengths)
Reference(q) == Cut(q.stream, IF q.lag > 0 THEN q.lag ELSE 0, q.lengths)

\* The partial checksum that a submission has: 0 for a track without a frame 450.
Frame450(samples) ==
  LET last == Frame450Start + SamplesPerFrame
  IN  IF last > Len(samples)
        THEN 0
        ELSE MapThenSumSet(LAMBDA i : i * samples[Frame450Start + i], 1 .. SamplesPerFrame) % Word

Submission(q, version, confidence) ==
  LET tracks == Reference(q)
  IN  [trackCount |-> Len(tracks), ids |-> <<7, 8, 9>>,
       tracks |-> [i \in DOMAIN tracks |->
         LET crc == TrackCrcSamples(tracks[i].samples, DiscPosition(i, Len(tracks)))
         IN  [confidence |-> confidence, checksum |-> crc[version],
              checksum450 |-> IF q.frames THEN Frame450(tracks[i].samples) ELSE 0]]]

Dbar(q) == [i \in DOMAIN q.versions |-> Submission(q, q.versions[i], 4 - i)]

Fields(response) ==
  <<response.trackCount>> \o response.ids
    \o FlattenSeq([i \in DOMAIN response.tracks |->
         LET t == response.tracks[i] IN <<t.confidence, t.checksum, t.checksum450>>])

Body(dbar) == FlattenSeq([i \in DOMAIN dbar |-> Fields(dbar[i])])

Shifts == -DefaultMaxSampleShift .. DefaultMaxSampleShift

Audio ==
  UNION {[kind : {"audio"}, stream : [1 .. (Length(lengths) + DefaultMaxSampleShift) -> Samples],
          lengths : {lengths}, lag : Shifts, versions : Submissions, frames : BOOLEAN] :
         lengths \in Splits}

VerifyRip ==
  /\ Asked("audio")
  /\ summary' = VerifyWithOffsets(Parse(Body(Dbar(question))), Rip(question),
                                  DefaultMaxSampleShift)

-----------------------------------------------------------------------------
(* Replies. Of the media of a release, either all are numbered or none; of *)
(* what a search finds, two releases are not one.                          *)

Media == [position : {None, 1, 2}, discs : {{}, {"here"}, {"there"}}, tracks : {<<>>}]

Numbered(media) ==
  \/ \A i \in DOMAIN media : media[i].position = None
  \/ \A i, j \in DOMAIN media :
       media[i].position # None /\ (i # j => media[i].position # media[j].position)

MediaLists == {media \in UNION {[1 .. n -> Media] : n \in 0 .. 2} : Numbered(media)}

Release(id, media) ==
  [id |-> id, title |-> "t", year |-> None, barcode |-> None, labelInfo |-> <<>>,
   artists |-> <<>>, media |-> media]

\* Two hits of a search that says no more of them than its identifiers.
Hit(id) == [id |-> id, title |-> <<"a", "b">>, year |-> None, labels |-> <<>>, catno |-> None,
            barcodes |-> <<"123">>]
Product(barcode) == [title |-> "t", manufacturer |-> "", brand |-> "b", year |-> None,
                     barcode |-> barcode]

Lookups ==
  [kind : {"lookup"}, provider : {"musicbrainz"},
   body : {<<Release("r1", m)>> : m \in MediaLists}
            \cup {<<Release("r1", m), Release("r2", n)>> : m, n \in MediaLists}]
  \cup [kind : {"lookup"}, provider : {"discogs"},
        body : {<<Hit(None), Hit(None)>>, <<Hit(None), Hit(1)>>, <<Hit(1), Hit(2)>>}]
  \cup [kind : {"lookup"}, provider : {"barcodelookup"},
        body : {<<Product("123"), Product("123")>>, <<Product(""), Product("123")>>}]

Lookup ==
  /\ Asked("lookup")
  /\ summary' = Providers!LookupMany(question.provider,
                   [disc |-> "here", barcode |-> "123", catalog |-> None],
                   Providers!WithCredential,
                   [error |-> None, status |-> 200, body |-> question.body], None)

\* What three providers reply about artwork, one of them perhaps not at all.
Images == [types : {{"front"}, {"booklet"}}, back : {FALSE}, front : {TRUE}, url : {None, "u1", "u2"}]
Covers == [images : {<<"u1">>, <<"u2">>}]

Outcomes(provider, bodies) ==
  {Providers!Failed("Network")} \cup {Providers!Found(Providers!Pictures(provider, b)) : b \in bodies}

Artwork ==
  [kind : {"artwork"},
   archive : Outcomes("coverartarchive", {<<i, j>> : i, j \in Images}),
   discogs : Outcomes("discogs", {<<c>> : c \in Covers}),
   barcodes : Outcomes("barcodelookup", {<<>>} \cup {<<c>> : c \in Covers}),
   excluded : {{}, {"discogs"}}]

Offered(q) ==
  <<<<"coverartarchive", q.archive>>, <<"discogs", q.discogs>>, <<"barcodelookup", q.barcodes>>>>

CollectArtwork ==
  /\ Asked("artwork")
  /\ summary' = Providers!LookupAssets(Offered(question), question.excluded)

-----------------------------------------------------------------------------
(* Discs.                                                                  *)

\* Up to three tracks, numbered from first, at any offsets.
Layouts ==
  UNION {{[i \in 1 .. n |-> [kind |-> kinds[i], number |-> first + i - 1, offset |-> offsets[i],
                             length |-> 2]] :
            kinds \in [1 .. n -> {"audio", "data"}], offsets \in [1 .. n -> {2, 4, 7}],
            first \in 1 .. 2} : n \in 1 .. 3}

ReadLayout == Asked("layout") /\ summary' = <<Facts!LayoutToToc(question.layout)>>

Logs == {None, Unreadable} \cup [mcn : {None, "m1", "m2"}, isrcs : {<<>>, <<"i1">>, <<"i1", "i2">>}]
CdTexts == {None, Unreadable} \cup [upc : {None, "m1"}, isrcs : {<<>>, <<"i3", "i2">>}]

Rips ==
  [provenance : {None, "Redumper", "Unknown"},
   disc : {None} \cup [mcn : {None, "m1", "m3"}, isrcs : [1 .. 2 -> {None, "", "i4"}],
                       disagreements : {<<>>}]]

Sidecars == [kind : {"sidecars"}, rip : Rips, log : Logs, cdtext : CdTexts]

Refresh ==
  /\ Asked("sidecars")
  /\ summary' = Facts!Refreshed(question.rip, Facts!Collected(question.log, question.cdtext))

TrackFields(title) ==
  [title |-> title, artist_credit |-> None, length_frames |-> "9", isrc |-> None, mbid |-> None,
   recording_mbid |-> None]

KnownDisc ==
  [fields |-> [format |-> "CD", mb_discid |-> "d", cddb_id |-> None, ar_discid1 |-> None,
               ar_discid2 |-> None],
   tracks |-> <<[fields |-> TrackFields("t1")], [fields |-> TrackFields("t2")]>>]

Segment(name, index) == [name |-> name, index |-> index]

Words ==
  [path : {None, <<>>, <<Segment("title", None)>>}
            \cup {<<Segment("track", n)>> : n \in {None} \cup 0 .. 3},
   field : {"title", "length_frames", "format", "mb_discid", "nonsense"},
   text : {"", "7", "NaN"}]

Correct ==
  /\ Asked("corrections")
  /\ summary' = Corrections!ApplyAll(KnownDisc, question.words)

-----------------------------------------------------------------------------
Init ==
  /\ summary = None
  /\ question \in Audio \cup Lookups \cup Artwork \cup [kind : {"layout"}, layout : Layouts]
                   \cup Sidecars \cup [kind : {"corrections"}, words : {<<a, b>> : a, b \in Words}]

Next ==
  /\ summary = None
  /\ VerifyRip \/ Lookup \/ CollectArtwork \/ ReadLayout \/ Refresh \/ Correct
  /\ UNCHANGED question

Spec == Init /\ [][Next]_vars

-----------------------------------------------------------------------------
(* Properties.                                                             *)

\* The checksums that the search takes from prefix sums of the stream are those
\* of tracks that start elsewhere in it. Only samples that the ends of the
\* disc are spared may be missing (skip_bounds, PrefixSums::weighted_range).
MovedTracks ==
  LET tracks == Rip(question)
      disc == Disc(tracks)
      windows == Windows(tracks)
      moved(i, s) ==
        [n \in 1 .. windows[i].len |->
          IF windows[i].start + n + s \in DOMAIN disc THEN disc[windows[i].start + n + s] ELSE 0]
      prefix == PrefixSums(disc)
  IN  \A i \in DOMAIN windows, s \in Shifts :
        TrackCrcSamples(moved(i, s), windows[i].discPosition)
          = [v1 |-> ShiftedV1(prefix, windows[i], s), v2 |-> ShiftedV2(disc, windows[i], s)]

\* Where the search chooses no shift, it says of each track what the check of
\* one track says (verify_track).
UnmovedTracks ==
  \A i \in DOMAIN summary.tracks :
    LET position == DiscPosition(i, Len(summary.tracks))
        crc == TrackCrcSamples(Rip(question)[i].samples, position)
    IN  [summary.tracks[i] EXCEPT !.frame450 = FALSE] = VerifyTrack(Dbar(question), i, crc)

\* The two ways to a checksum agree.
ScanIsExact ==
  Asked("audio") => IF Answered THEN summary.shift = 0 => UnmovedTracks ELSE MovedTracks

\* What leads the search to a shift: an ARv1 checksum, or frame 450 of some
\* track. ARv2 alone does not.
Leads(q) ==
  \/ q.lag = 0
  \/ "v1" \in {q.versions[i] : i \in DOMAIN q.versions}
  \/ q.frames /\ \E i \in DOMAIN q.lengths :
       \* Frame 450 is read inside the stream, and is not silent.
       LET window == Windows(Rip(q))[i]
           prefix == PrefixSums(Disc(Rip(q)))
       IN  OrZero(ShiftedFrame450(prefix, window, q.lag)) # 0

\* A rip that only starts elsewhere is verified on every track, and the shift by
\* which it does is the one chosen or one of those it cannot be told from, unless
\* frame 450 supports another one better (verify_with_offsets).
TrueShiftFound == Asked("audio") /\ Answered =>
  LET rip == Rip(question)
      prefix == PrefixSums(Disc(rip))
      frames(s) == Cardinality({i \in DOMAIN rip :
                     FrameSupport(Dbar(question), prefix, Windows(rip)[i], s)})
      better == {s \in Shifts : frames(s) > frames(question.lag)}
  IN  Leads(question) =>
        IF summary.status = "verified"
          THEN /\ Cardinality(Verified(summary.tracks)) = Len(rip)
               /\ summary.shift \in {question.lag} \cup better
          ELSE /\ summary.status = "ambiguous_offsets"
               /\ question.lag \in summary.ambiguous \/ summary.ambiguous \subseteq better

\* What is parsed is the whole body: a download that breaks off is noticed,
\* unless it breaks between two pressings (DbarFile::parse).
TruncationShows == Asked("audio") /\ ~Answered =>
  LET body == Body(Dbar(question))
      parsed(n) == Parse(SubSeq(body, 1, n))
  IN  /\ parsed(Len(body)) = Dbar(question)
      /\ \A n \in DOMAIN body : parsed(n) # None => Body(parsed(n)) = SubSeq(body, 1, n)

\* The checksums are of the whole rip against the whole body.
ChecksumsHold == ScanIsExact /\ TruncationShows

Distinct(s) == \A i, j \in DOMAIN s : s[i] = s[j] => i = j

\* What is told apart by its key stays apart: the candidates of one lookup have
\* keys of their own, and each medium that has the disc is among them (lookup_many,
\* parse_discid_candidates). Of the pictures that providers offer each is there
\* once, from the first that offers it, whoever fails, and failures are all
\* reported (lookup_assets_excluding).
CandidatesTellApart ==
  /\ Asked("lookup") /\ Answered =>
       LET hits == summary.hits
           has == {p \in (DOMAIN question.body) \X (1 .. 2) :
                    /\ question.provider = "musicbrainz" /\ p[2] \in DOMAIN question.body[p[1]].media
                    /\ "here" \in question.body[p[1]].media[p[2]].discs}
       IN  /\ summary.ok /\ Distinct([i \in DOMAIN hits |-> hits[i].key])
           /\ Cardinality({i \in DOMAIN hits : hits[i].exact}) >= Cardinality(has)
  /\ Asked("artwork") /\ Answered =>
       LET asked == {i \in 1 .. 3 : Offered(question)[i][1] \notin question.excluded}
           kept == summary.candidates
           offers(i) == ToSet(Offered(question)[i][2].hits)
           like(a, b) == a.kind = b.kind /\ a.url = b.url
       IN  /\ \A i, j \in DOMAIN kept : like(kept[i], kept[j]) => i = j
           /\ \A i \in asked : \A a \in offers(i) : \E k \in DOMAIN kept :
                like(a, kept[k]) /\ \E j \in asked : j <= i /\ kept[k] \in offers(j)
           /\ Len(summary.errors) = Cardinality({i \in asked : ~Offered(question)[i][2].ok})

\* The tracks of an accepted table of contents fill the disc from the first to its
\* end, one after the other, under the numbers that the image has (layout_to_toc,
\* iter_track_spans).
SpansFillDisc ==
  LET toc == summary[1]
      spans == Facts!Spans(toc)
  IN  toc # None =>
        /\ \A i \in DOMAIN spans :
             /\ spans[i].length > 0 /\ spans[i].position = question.layout[i].number
             /\ spans[i].start + spans[i].length
                  = IF i = Len(spans) THEN toc.leadout ELSE spans[i + 1].start
        /\ MapThenSumSet(LAMBDA i : spans[i].length, DOMAIN spans) = Facts!TotalLength(toc)
        /\ Len(spans) = Facts!TrackNumbers(toc)

\* Reading the same files again tells nothing new, and what was known stays. The
\* difference between a log and a CD-TEXT is left out: it is noted at every look.
SecondLookAddsNothing ==
  LET data == Facts!Collected(question.log, question.cdtext)
      before == question.rip
      differ == None \notin {data.mcn, data.upc} /\ data.mcn # data.upc
  IN  /\ differ \/ Facts!Refreshed(summary, data) = summary
      /\ before.provenance \in {None, summary.provenance}
      /\ (before.disc = None) <=> (summary.disc = None)
      /\ before.disc # None =>
           /\ before.disc.mcn \in {None, summary.disc.mcn}
           /\ \A p \in 1 .. 2 : before.disc.isrcs[p] \in {None, "", summary.disc.isrcs[p]}

\* What a correction that can be applied is about, and what is there.
About(word) == IF word.path = <<>> THEN <<0, word.field>> ELSE <<word.path[1].index, word.field>>
Read(disc, place) ==
  IF place[1] = 0 THEN disc.fields[place[2]] ELSE disc.tracks[place[1]].fields[place[2]]
Places == ({0} \X (DOMAIN KnownDisc.fields)) \cup ({1, 2} \X (DOMAIN KnownDisc.tracks[1].fields))

\* Corrections are all applied or none, the last one about a field counts, and what
\* none is about stays (apply_all_overrides).
CorrectionsApply ==
  LET words == question.words
      alone(i) == Corrections!ApplyAll(KnownDisc, <<words[i]>>)
      about(place) == {i \in DOMAIN words : About(words[i]) = place}
      last(place) == CHOOSE i \in about(place) : \A j \in about(place) : j <= i
  IN  /\ summary.ok <=> \A i \in DOMAIN words : alone(i).ok
      /\ summary.ok => \A place \in Places :
           LET v == Read(summary.value, place)
           IN  IF about(place) = {} THEN v = Read(KnownDisc, place)
               ELSE v \in {words[last(place)].text, None} /\ (v = "" => place[2] = "format")

\* What is known of a disc stays known, whatever is learned of it later.
FactsStay ==
  Answered =>
    CASE Asked("layout") -> SpansFillDisc
      [] Asked("sidecars") -> SecondLookAddsNothing
      [] Asked("corrections") -> CorrectionsApply
      [] OTHER -> TRUE

-----------------------------------------------------------------------------
TwoAndThree == {<<3, 3>>, <<2, 2, 2>>, <<6>>}
Versions == {<<"v1">>, <<"v2">>, <<"v1", "v2">>}
=============================================================================
