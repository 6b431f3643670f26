------------------------------ MODULE AccurateRip ------------------------------
(***************************************************************************)
(* Checking a rip against AccurateRip (phono-junk-accuraterip): the two    *)
(* checksums of a track, the dBAR file that lists what others computed,    *)
(* and the search for the sample shift under which a rip agrees with them. *)
(*                                                                         *)
(* A sample is a number below Word (2^32 in the code), a track a sequence  *)
(* of samples with its number, and the disc stream their concatenation.    *)
(* Arithmetic wraps at Word. A dBAR body is a sequence of fields, where    *)
(* the code has the bytes of the fields.                                   *)
(***************************************************************************)
EXTENDS Integers, Sequences, FiniteSets, FiniteSetsExt, SequencesExt

CONSTANTS
  None,
  Word,           \* 2^32: the values of a sample, and of a checksum
  SkipSamples,    \* 2940: what the ends of a disc are spared
  Frame450Start,  \* 450 * 588
  SamplesPerFrame

ASSUME AccurateRipAssumption ==
  /\ {Word, SkipSamples, SamplesPerFrame} \subseteq Nat \ {0}
  /\ Frame450Start \in Nat

DefaultMaxSampleShift == SkipSamples - 1

-----------------------------------------------------------------------------
(* The checksums of a track.                                               *)

DiscPosition(index, count) ==
  CASE count = 1 -> "Only"
    [] count > 1 /\ index = 1 -> "First"
    [] count > 1 /\ index = count -> "Last"
    [] OTHER -> "Middle"

AtLeast0(n) == IF n < 0 THEN 0 ELSE n

\* The first and last position that count, from 1.
SkipBounds(position, total) ==
  [first |-> IF position \in {"First", "Only"} THEN SkipSamples ELSE 1,
   last |-> IF position \in {"Last", "Only"} THEN AtLeast0(total - SkipSamples) ELSE total]

\* ARv2 adds the high word of a product to its low word.
Folded(product) == (product \div Word) + (product % Word)

TrackCrcSamples(samples, position) ==
  LET bounds == SkipBounds(position, Len(samples))
      counted == (bounds.first .. bounds.last) \cap DOMAIN samples
  IN  [v1 |-> MapThenSumSet(LAMBDA p : p * samples[p], counted) % Word,
       v2 |-> MapThenSumSet(LAMBDA p : Folded(p * samples[p]), counted) % Word]

-----------------------------------------------------------------------------
(* The dBAR file: responses, one for each pressing somebody submitted.     *)

HeaderLen == 4   \* track count and three disc ids
EntryLen == 3    \* confidence, checksum, checksum of frame 450

ResponseAt(body, cur) ==
  [trackCount |-> body[cur + 1],
   ids |-> SubSeq(body, cur + 2, cur + HeaderLen),
   tracks |-> [t \in 1 .. body[cur + 1] |->
                LET entry == cur + HeaderLen + (t - 1) * EntryLen
                IN  [confidence |-> body[entry + 1],
                     checksum |-> body[entry + 2],
                     checksum450 |-> body[entry + 3]]]]

\* Where a response ends if it is whole; past the end of the body if it is truncated.
NextResponse(body, cur) ==
  IF cur < Len(body) THEN cur + HeaderLen + body[cur + 1] * EntryLen ELSE cur

\* Where one response after another begins, from 1.
Starts(body) ==
  LET start[n \in 1 .. (Len(body) + 1)] == IF n = 1 THEN 0 ELSE NextResponse(body, start[n - 1])
  IN  start

\* Mutant: a truncated response ends the parse quietly.
ParseLenient(body) ==
  LET starts == Starts(body)
      whole == {n \in 1 .. Len(body) : starts[n] < Len(body) /\ starts[n + 1] <= Len(body)}
  IN  [n \in whole |-> ResponseAt(body, starts[n])]

\* None if the last response is truncated.
Parse(body) ==
  LET starts == Starts(body)
      begun == {n \in 1 .. Len(body) : starts[n] < Len(body)}
  IN  IF starts[Len(body) + 1] # Len(body) THEN None ELSE [n \in begun |-> ResponseAt(body, starts[n])]

\* A file that belongs to another disc must not be used.
ValidRequest(dbar, count, ids) ==
  \A i \in DOMAIN dbar : dbar[i].trackCount = count /\ dbar[i].ids = ids

Lists(response, position) == position \in 1 .. response.trackCount

Pressings(dbar, position) == {i \in DOMAIN dbar : Lists(dbar[i], position)}

Expected(dbar, pressing, position) == dbar[pressing].tracks[position]

-----------------------------------------------------------------------------
(* The matches of one track.                                               *)

Version(expected, crc) ==
  CASE expected.checksum = crc.v1 /\ expected.checksum = crc.v2 -> "both"
    [] expected.checksum = crc.v1 /\ expected.checksum # crc.v2 -> "v1"
    [] OTHER -> "v2"

\* The pressings that list the checksum that was computed.
Matches(dbar, position, crc, checksum) ==
  {LET expected == Expected(dbar, i, position)
   IN  [pressing |-> i, confidence |-> expected.confidence, checksum |-> expected.checksum,
        version |-> Version(expected, crc)] :
     i \in {p \in Pressings(dbar, position) : Expected(dbar, p, position).checksum = checksum}}

Confidences(matches) == {match.confidence : match \in matches}

\* One is no better than the other, and if equal comes no later: the ARv2 matches come
\* first, and each kind in the order of the pressings.
NoBetter(match, other) ==
  \/ match.confidence < other.confidence
  \/ /\ match.confidence = other.confidence
     /\ \/ match.version = "v2" /\ other.version # "v2"
        \/ (match.version = "v2") = (other.version = "v2") /\ match.pressing <= other.pressing

\* max_by_key: the last of those with the highest confidence.
BestMatch(track) ==
  LET all == track.v2Matches \cup track.v1Matches
  IN  IF all = {} THEN None ELSE CHOOSE best \in all : \A match \in all : NoBetter(match, best)

BestConfidence(track) == Max(Confidences(track.v1Matches \cup track.v2Matches))

TrackStatus(v1Matches, v2Matches) == IF v1Matches = {} /\ v2Matches = {} THEN "mismatched" ELSE "verified"

\* One track as it was read, without a search.
VerifyTrack(dbar, position, crc) ==
  LET v1Matches == Matches(dbar, position, crc, crc.v1)
      v2Matches == Matches(dbar, position, crc, crc.v2)
  IN  [position |-> position, computed |-> crc, v1Matches |-> v1Matches, v2Matches |-> v2Matches,
       shift |-> 0, frame450 |-> FALSE,
       status |-> IF Pressings(dbar, position) = {} THEN "no_data"
                  ELSE TrackStatus(v1Matches, v2Matches)]

-----------------------------------------------------------------------------
(* The disc stream and its prefix sums.                                    *)

Disc(tracks) == FlattenSeq([i \in DOMAIN tracks |-> tracks[i].samples])

WindowStart(tracks, i) == MapThenSumSet(LAMBDA j : Len(tracks[j].samples), 1 .. (i - 1))

Windows(tracks) ==
  [i \in DOMAIN tracks |->
    [position |-> tracks[i].position,
     discPosition |-> DiscPosition(i, Len(tracks)),
     start |-> WindowStart(tracks, i),
     len |-> Len(tracks[i].samples)]]

\* sums[n] and weighted[n] are over the first n samples; the first has weight 0.
PrefixSums(disc) ==
  [sums |-> [n \in 0 .. Len(disc) |->
              MapThenSumSet(LAMBDA i : disc[i], 1 .. n) % Word],
   weighted |-> [n \in 0 .. Len(disc) |->
              MapThenSumSet(LAMBDA i : (i - 1) * disc[i], 1 .. n) % Word]]

\* Mutant: the weights are those of the disc, not of the track.
WeightedRangeGlobal(prefix, start, end, firstMultiplier) ==
  (prefix.weighted[end] - prefix.weighted[start]
    + firstMultiplier * (prefix.sums[end] - prefix.sums[start])) % Word

WeightedRange(prefix, start, end, firstMultiplier) ==
  LET sampleSum == prefix.sums[end] - prefix.sums[start]
      globalWeighted == prefix.weighted[end] - prefix.weighted[start]
  IN  (globalWeighted + (firstMultiplier - start) * sampleSum) % Word

\* Samples from+1 to to of the stream are there.
InStream(length, from, to) == 0 <= from /\ to <= length

\* Nothing, or the weighted sum over part of a window that is moved by shift.
ShiftedWeighted(prefix, window, shift, localStart, localEnd, firstMultiplier) ==
  LET length == Max(DOMAIN prefix.sums)
      from == window.start + localStart + shift
      to == window.start + localEnd + shift
  IN  IF InStream(length, from, to)
        THEN {WeightedRange(prefix, from, to, firstMultiplier)}
        ELSE {}

OrZero(sum) == IF sum = {} THEN 0 ELSE CHOOSE n \in sum : TRUE

ShiftedV1(prefix, window, shift) ==
  LET bounds == SkipBounds(window.discPosition, window.len)
  IN  IF bounds.first > bounds.last
        THEN 0
        ELSE OrZero(ShiftedWeighted(prefix, window, shift,
                                    bounds.first - 1, bounds.last, bounds.first))

ShiftedV2(disc, window, shift) ==
  LET bounds == SkipBounds(window.discPosition, window.len)
      from == window.start + bounds.first - 1 + shift
      count == bounds.last - bounds.first + 1
  IN  IF bounds.first > bounds.last \/ ~InStream(Len(disc), from, from + count)
        THEN 0
        ELSE MapThenSumSet(LAMBDA i : Folded((bounds.first + i) * disc[from + i + 1]),
                           0 .. (count - 1)) % Word

\* Nothing for a track without a frame 450.
ShiftedFrame450(prefix, window, shift) ==
  LET end == Frame450Start + SamplesPerFrame
  IN  IF end <= window.len
        THEN {OrZero(ShiftedWeighted(prefix, window, shift, Frame450Start, end, 1))}
        ELSE {}
=============================================================================
