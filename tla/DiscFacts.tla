------------------------------- MODULE DiscFacts -------------------------------
(***************************************************************************)
(* What a rip says of its disc without anyone being asked: the table of    *)
(* contents that its layout gives (phono-junk-toc), the identifiers that   *)
(* are computed from it, and what a redumper log and CD-TEXT beside it     *)
(* tell (phono-junk-lib/src/sidecar.rs).                                   *)
(*                                                                         *)
(* A layout is a sequence of [kind, number, offset, length] in sectors; a  *)
(* log or a CD-TEXT is None where there is none, Unreadable where it       *)
(* cannot be read. Layouts and sidecars are parsed by libraries.           *)
(***************************************************************************)
EXTENDS Integers, Sequences, FiniteSetsExt, SequencesExt

CONSTANTS
  None, Unreadable,
  Word,          \* 2^32: sums wrap
  LeadIn,        \* sectors before the first
  ExtraGap,      \* sectors between the audio of a CD-Extra and its data
  Second         \* sectors of a second

-----------------------------------------------------------------------------
(* The table of contents.                                                  *)

IsData(t) == t.kind = "data"

\* The audio tracks: those before the first data track.
AudioPart(layout) ==
  LET data == {i \in DOMAIN layout : IsData(layout[i])}
  IN  IF data = {} THEN layout ELSE SubSeq(layout, 1, Min(data) - 1)

\* Where the audio ends: before the gap that a CD-Extra has, or after the last track.
Leadout(layout) ==
  LET audio == AudioPart(layout)
      last == Last(audio)
  IN  IF Len(audio) < Len(layout) THEN layout[Len(audio) + 1].offset - ExtraGap
      ELSE last.offset + last.length

\* Mutant: tables are taken as they come.
AnyToc(toc) == TRUE

\* validate_toc
ValidToc(toc) ==
  /\ toc.first <= toc.last
  /\ \A i \in DOMAIN toc.offsets : i > 1 => toc.offsets[i - 1] < toc.offsets[i]
  /\ Last(toc.offsets) < toc.leadout

\* layout_to_toc: None for what is refused.
LayoutToToc(layout) ==
  LET audio == AudioPart(layout)
      mixed == \E i \in DOMAIN layout : i > Len(audio) /\ ~IsData(layout[i])
      toc == [first |-> audio[1].number, last |-> Last(audio).number,
              leadout |-> Leadout(layout),
              offsets |-> [i \in DOMAIN audio |-> audio[i].offset]]
  IN  IF audio = <<>> \/ mixed THEN None
      ELSE IF Leadout(layout) < 0 \/ ~ValidToc(toc) THEN None ELSE toc

NotNegative(n) == IF n < 0 THEN 0 ELSE n

\* iter_track_spans, track_length_frames: a track goes on to the next one.
Spans(toc) ==
  [i \in DOMAIN toc.offsets |->
    LET end == IF i < Len(toc.offsets) THEN toc.offsets[i + 1] ELSE toc.leadout
    IN  [position |-> toc.first + i - 1, start |-> toc.offsets[i],
         length |-> NotNegative(end - toc.offsets[i])]]

TotalLength(toc) ==
  IF toc.offsets = <<>> THEN 0 ELSE NotNegative(toc.leadout - toc.offsets[1])

-----------------------------------------------------------------------------
(* Identifiers. The MusicBrainz id is a hash, kept as what is hashed.      *)

MusicBrainzId(toc) ==
  [first |-> toc.first, last |-> toc.last, leadout |-> toc.leadout,
   offsets |-> [n \in 1 .. 99 |->
     LET i == n - toc.first + 1
     IN  IF n <= toc.last /\ i \in DOMAIN toc.offsets THEN toc.offsets[i] ELSE 0]]

DigitSum[n \in Nat] == IF n = 0 THEN 0 ELSE (n % 10) + DigitSum[n \div 10]

TrackNumbers(toc) == toc.last - toc.first + 1

\* The three parts of the id, which the code packs into 8, 16 and 8 bits.
CddbId(toc) ==
  <<MapThenSumSet(LAMBDA i : DigitSum[toc.offsets[i] \div Second], DOMAIN toc.offsets) % 255,
    (toc.leadout - toc.offsets[1]) \div Second,
    TrackNumbers(toc) % 256>>

\* Sectors as AccurateRip counts them. A track at 0 counts as one at 1 in the second sum.
Lsn(sector) == NotNegative(sector - LeadIn)

AccurateRipIds(toc) ==
  LET end == Lsn(toc.leadout)
      place(i) == IF Lsn(toc.offsets[i]) = 0 THEN 1 ELSE Lsn(toc.offsets[i])
  IN  <<(end + MapThenSumSet(LAMBDA i : Lsn(toc.offsets[i]), DOMAIN toc.offsets)) % Word,
        (end * (TrackNumbers(toc) + 1)
           + MapThenSumSet(LAMBDA i : place(i) * (toc.first + i - 1), DOMAIN toc.offsets)) % Word,
        CddbId(toc)>>

DiscIds(toc) ==
  [mb |-> MusicBrainzId(toc), cddb |-> CddbId(toc), accuraterip |-> AccurateRipIds(toc),
   barcode |-> None, catalog |-> None]

-----------------------------------------------------------------------------
(* Sidecars. ISRCs are a function of track positions.                      *)

NoSidecars == [mcn |-> None, isrcs |-> <<>>, upc |-> None, provenance |-> None]

\* Entries of the first stay.
Merged(known, more) == [p \in DOMAIN known \cup DOMAIN more |->
                         IF p \in DOMAIN known THEN known[p] ELSE more[p]]

\* collect_redumper_sidecars, absorb_cdtext: a bad log is a log of an unknown ripper.
Collected(log, cdtext) ==
  LET fromLog == CASE log = None -> NoSidecars
                   [] log = Unreadable -> [NoSidecars EXCEPT !.provenance = "Unknown"]
                   [] OTHER -> [mcn |-> log.mcn, isrcs |-> log.isrcs, upc |-> None,
                                provenance |-> "Redumper"]
  IN  IF cdtext \in {None, Unreadable} THEN fromLog
      ELSE [fromLog EXCEPT !.upc = cdtext.upc, !.isrcs = Merged(@, cdtext.isrcs)]

\* enrich_disc_ids
Enriched(ids, data) ==
  IF ids.barcode # None THEN ids
  ELSE [ids EXCEPT !.barcode = IF data.mcn # None THEN data.mcn ELSE data.upc]

\* Mutant: what the sidecar says is written over what is known.
AppliedOver(disc, data) ==
  [disc EXCEPT
    !.mcn = IF data.mcn # None THEN data.mcn ELSE @,
    !.isrcs = [p \in DOMAIN @ |-> IF p \in DOMAIN data.isrcs THEN data.isrcs[p] ELSE @[p]],
    !.disagreements = IF data.mcn # None /\ data.upc # None /\ data.mcn # data.upc
                        THEN Append(@, <<data.mcn, data.upc>>) ELSE @]

\* apply_sidecar_to_catalog: what is known stays. A difference between the two
\* sidecars is noted whenever it is seen.
Applied(disc, data) ==
  [disc EXCEPT
    !.mcn = IF @ = None THEN data.mcn ELSE @,
    !.isrcs = [p \in DOMAIN @ |->
                IF @[p] \in {None, ""} /\ p \in DOMAIN data.isrcs THEN data.isrcs[p] ELSE @[p]],
    !.disagreements = IF data.mcn # None /\ data.upc # None /\ data.mcn # data.upc
                        THEN Append(@, <<data.mcn, data.upc>>) ELSE @]

HasFacts(data) == data.mcn # None \/ data.isrcs # <<>> \/ data.upc # None

\* refresh_for_cache_hit: a rip without a disc (disc None) keeps its ripper only.
Refreshed(rip, data) ==
  [rip EXCEPT
    !.provenance = IF @ = None THEN data.provenance ELSE @,
    !.disc = IF @ # None /\ HasFacts(data) THEN Applied(@, data) ELSE @]
=============================================================================
