------------------------------ MODULE MCPipeline ------------------------------
(***************************************************************************)
(* Pipeline for TLC: what the providers may come up with.                  *)
(***************************************************************************)
EXTENDS Pipeline

Candidate(provider, key, mbid, barcode, title) ==
  [provider |-> provider, key |-> key, mbid |-> mbid, barcode |-> barcode,
   catalog |-> None, label |-> None, title |-> title, exact |-> FALSE, tracks |-> <<>>,
   extra |-> 2]

\* MusicBrainz: two releases with the disc, one of which has no barcode.
Original == [Candidate("musicbrainz", 4, "r1", "b1", "Title") EXCEPT
               !.exact = TRUE, !.tracks = <<101>>]
Reissue == [Candidate("musicbrainz", 5, "r2", "b2", "Title (reissue)") EXCEPT
              !.exact = TRUE, !.tracks = <<101>>]
NoBarcode == [Reissue EXCEPT !.barcode = ""]

\* Two media of a release that MusicBrainz lists without their discs, and a
\* release that it lists with the disc.
Medium(key) == [Candidate("musicbrainz", key, "r2", "b2", "Title") EXCEPT !.tracks = <<90>>]
Live == [Original EXCEPT !.title = "Title (live)"]

\* Discogs: two pressings with one barcode and catalog number.
Pressing(key, title) == [Candidate("discogs", key, None, "b1", title) EXCEPT
                           !.catalog = "c1", !.label = "label"]
FirstPressing == Pressing(2, "Title")
SecondPressing == Pressing(3, "Title")

\* Tower: knows the year and the country as well, but ranks below Discogs.
Domestic == [Candidate("tower", 7, None, "b1", "Title") EXCEPT !.catalog = "c1", !.extra = 4]
Product == Candidate("barcodelookup", 1, None, "b1", "Title - CD")

Usual == {Original, Reissue, FirstPressing, SecondPressing, Domestic, Product}
Blank == {Original, NoBarcode, FirstPressing}
Media == {Live, Medium(5), Medium(6), FirstPressing}

OneTrack == <<100>>
Barcodes == {None, "b1"}
NoBarcodeGiven == {None}
=============================================================================
