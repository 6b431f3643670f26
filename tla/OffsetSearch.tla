------------------------------ MODULE OffsetSearch ------------------------------
(***************************************************************************)
(* The search over sample shifts (offset.rs of phono-junk-accuraterip). A  *)
(* cheap pass over prefix sums finds the shifts with any evidence, and     *)
(* only those are evaluated in full.                                       *)
(***************************************************************************)
EXTENDS AccurateRip

PrimaryMatches(dbar, position, sum) ==
  \E i \in Pressings(dbar, position) : Expected(dbar, i, position).checksum = sum

\* A checksum of zero stands for none.
Frame450Matches(dbar, position, sum) ==
  \E i \in Pressings(dbar, position) :
    Expected(dbar, i, position).checksum450 = sum /\ sum # 0

FrameSupport(dbar, prefix, window, shift) ==
  \E sum \in ShiftedFrame450(prefix, window, shift) :
    Frame450Matches(dbar, window.position, sum)

\* Mutant: only frame 450 leads to a shift.
HasFrameEvidence(dbar, prefix, windows, shift) ==
  shift = 0 \/ \E i \in DOMAIN windows : FrameSupport(dbar, prefix, windows[i], shift)

HasEvidence(dbar, prefix, windows, shift) ==
  \/ shift = 0
  \/ \E i \in DOMAIN windows :
       \/ PrimaryMatches(dbar, windows[i].position, ShiftedV1(prefix, windows[i], shift))
       \/ FrameSupport(dbar, prefix, windows[i], shift)

\* One track under a shift.
Verification(dbar, disc, prefix, window, shift) ==
  LET crc == [v1 |-> ShiftedV1(prefix, window, shift), v2 |-> ShiftedV2(disc, window, shift)]
      v1Matches == Matches(dbar, window.position, crc, crc.v1)
      v2Matches == Matches(dbar, window.position, crc, crc.v2)
  IN  [position |-> window.position, computed |-> crc, v1Matches |-> v1Matches, v2Matches |-> v2Matches,
       shift |-> shift, frame450 |-> FrameSupport(dbar, prefix, window, shift),
       status |-> TrackStatus(v1Matches, v2Matches)]

Verified(tracks) == {i \in DOMAIN tracks : tracks[i].status = "verified"}

Candidate(tracks, shift) ==
  LET confidence(i) == BestConfidence(tracks[i])
  IN  [shift |-> shift,
       fullMatches |-> Cardinality(Verified(tracks)),
       minimumConfidence |-> IF Verified(tracks) = {} THEN 0
                             ELSE Min({confidence(i) : i \in Verified(tracks)}),
       totalConfidence |-> MapThenSumSet(confidence, Verified(tracks)),
       frame450Matches |-> Cardinality({i \in DOMAIN tracks : tracks[i].frame450})]

EvaluateCandidate(dbar, disc, prefix, windows, shift) ==
  LET tracks == [i \in DOMAIN windows |-> Verification(dbar, disc, prefix, windows[i], shift)]
  IN  [candidate |-> Candidate(tracks, shift), tracks |-> tracks]

\* Mutant: the support of frame 450 counts first.
RankByFrame(candidate) ==
  <<candidate.frame450Matches, candidate.fullMatches,
    candidate.minimumConfidence, candidate.totalConfidence>>

Rank(candidate) ==
  <<candidate.fullMatches, candidate.minimumConfidence,
    candidate.totalConfidence, candidate.frame450Matches>>

\* Tuples compare by their first difference.
Beats(r, s) == \E i \in DOMAIN r : r[i] > s[i] /\ \A j \in 1 .. (i - 1) : r[j] = s[j]

Unshifted(tracks) == [i \in DOMAIN tracks |-> [tracks[i] EXCEPT !.shift = None]]

Undecided(tracks) ==
  [i \in DOMAIN tracks |-> [tracks[i] EXCEPT !.shift = None, !.status = "ambiguous"]]

Summary(status, shift, tracks, ambiguous) ==
  [status |-> status, shift |-> shift, tracks |-> tracks, ambiguous |-> ambiguous]

\* Mutant: of equal shifts one is taken.
AmongFirst(best, outcomes) ==
  LET shift == CHOOSE s \in best : \A t \in best : s <= t
      only == outcomes[shift]
  IN  Summary(IF only.candidate.fullMatches > 0 THEN "verified" ELSE "mismatched",
              shift, only.tracks, {})

\* All best shifts, or the best one. outcomes: what each shift comes to.
AmongBest(best, outcomes) ==
  LET shift == CHOOSE s \in best : TRUE
      only == outcomes[shift]
  IN  IF Cardinality(best) # 1
        THEN Summary("ambiguous_offsets", None, Undecided(outcomes[0].tracks), best)
        ELSE Summary(IF only.candidate.fullMatches > 0 THEN "verified" ELSE "mismatched",
                     shift, only.tracks, {})

Clamped(maxShift) ==
  IF maxShift > DefaultMaxSampleShift THEN DefaultMaxSampleShift ELSE AtLeast0(maxShift)

VerifyWithOffsets(dbar, tracks, maxShift) ==
  LET disc == Disc(tracks)
      prefix == PrefixSums(disc)
      windows == Windows(tracks)
      frontier == {s \in -Clamped(maxShift) .. Clamped(maxShift) :
                     HasEvidence(dbar, prefix, windows, s)}
      outcomes == [s \in frontier |-> EvaluateCandidate(dbar, disc, prefix, windows, s)]
      rank == [s \in frontier |-> Rank(outcomes[s].candidate)]
      best == {s \in frontier : \A t \in frontier : ~Beats(rank[t], rank[s])}
  IN  CASE tracks = <<>> \/ dbar = <<>> -> Summary("no_data", None, <<>>, {})
        [] tracks # <<>> /\ dbar # <<>> /\ rank[0] = <<0, 0, 0, 0>> /\ 0 \in best ->
             Summary("mismatched", None, Unshifted(outcomes[0].tracks), {})
        [] OTHER -> AmongBest(best, outcomes)
=============================================================================
