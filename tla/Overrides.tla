------------------------------- MODULE Overrides -------------------------------
(***************************************************************************)
(* How a user's correction finds what it corrects                          *)
(* (phono-junk-db/src/overrides.rs, and apply_all_overrides in             *)
(* phono-junk-lib/src/identify.rs).                                        *)
(*                                                                         *)
(* A path is a sequence of segments, [name, index], the index None for a   *)
(* field's; reading it from text is left out, except that text may be no   *)
(* path (None). A numeric field has values that are no number ("NaN").     *)
(***************************************************************************)
EXTENDS Naturals, Sequences, SequencesExt

CONSTANTS None

Fields ==
  [Album |-> {"title", "sort_title", "artist_credit", "year", "mbid", "primary_type",
              "first_release_date"},
   Release |-> {"country", "date", "label", "catalog_number", "barcode", "mbid", "status",
                "language", "script"},
   Disc |-> {"format", "mb_discid", "cddb_id", "ar_discid1", "ar_discid2"},
   Track |-> {"title", "artist_credit", "length_frames", "isrc", "mbid", "recording_mbid"}]

Numeric == {"year", "length_frames"}

\* Fields that cannot be missing: an empty text is kept.
Texts == {<<"Album", "title">>, <<"Disc", "format">>}

Done(v) == [ok |-> TRUE, value |-> v, error |-> None]
Wrong(e) == [ok |-> FALSE, value |-> None, error |-> e]

\* What a field becomes: empty text clears it.
Value(target, field, text) ==
  IF field \notin Fields[target] THEN Wrong("UnknownField")
  ELSE IF field \in Numeric /\ text = "NaN" THEN Wrong("ValueParse")
  ELSE Done(IF text = "" /\ <<target, field>> \notin Texts THEN None ELSE text)

\* apply_flat_album, apply_flat_release, apply_flat_disc, apply_flat_track
Flat(target, entity, path, field, text) ==
  LET value == Value(target, field, text)
  IN  IF path # <<>> THEN Wrong("TargetMismatch")
      ELSE IF ~value.ok THEN value ELSE Done([entity EXCEPT ![field] = value.value])

\* Mutant: tracks are counted from 0.
FromZero(tracks, index) == index + 1

\* A track is meant by its place among those that are there.
PlaceOf(tracks, index) == index

\* apply_disc: the disc itself, or one of its tracks.
OnDisc(disc, path, field, text) ==
  IF path = <<>>
    THEN LET flat == Flat("Disc", disc.fields, <<>>, field, text)
         IN  IF flat.ok THEN Done([disc EXCEPT !.fields = flat.value]) ELSE flat
  ELSE IF path[1].name # "track" \/ path[1].index = None THEN Wrong("UnknownSegment")
  ELSE IF path[1].index = 0 \/ PlaceOf(disc.tracks, path[1].index) > Len(disc.tracks)
    THEN Wrong("IndexOutOfRange")
  ELSE LET place == PlaceOf(disc.tracks, path[1].index)
           flat == Flat("Track", disc.tracks[place].fields, Tail(path), field, text)
       IN  IF flat.ok THEN Done([disc EXCEPT !.tracks[place].fields = flat.value]) ELSE flat

\* apply: of a disc's correction.
ApplyToDisc(disc, o) ==
  IF o.path = None THEN Wrong("MalformedPath") ELSE OnDisc(disc, o.path, o.field, o.text)

\* apply_all_overrides, of a disc: one after the other, and the first that fails
\* fails the whole.
ApplyAll(disc, corrections) ==
  FoldLeft(LAMBDA sofar, o : IF sofar.ok THEN ApplyToDisc(sofar.value, o) ELSE sofar,
           Done(disc), corrections)
=============================================================================
