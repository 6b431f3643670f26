-------------------------- MODULE Verification_proofs --------------------------
(***************************************************************************)
(* Proofs about Verification, for any connections, rips and responses:     *)
(* readers see a log of whole verdicts, and every row can be traced to the *)
(* response it was checked against.                                        *)
(***************************************************************************)
EXTENDS Verification, WellFoundedInduction, FiniteSetTheorems, TLAPS

(* Induction, over sets of naturals.                                       *)

LEMMA Smallest ==
  ASSUME NEW T, T \subseteq Nat, T # {}
  PROVE  \E x \in T : \A y \in T : x <= y
<1>1. PICK x \in T : \A y \in T : <<y, x>> \notin OpToRel(<, Nat)
  BY NatLessThanWellFounded, WFMin
<1>2. \A y \in T : <<y, x>> \in Nat \X Nat
  OBVIOUS
<1>3. \A y \in T : ~(y < x)
  BY <1>1, <1>2 DEF OpToRel
<1>4. QED
  BY <1>3

LEMMA Induction ==
  ASSUME NEW T, 0 \in T, \A n \in Nat : n \in T => n + 1 \in T
  PROVE  \A n \in Nat : n \in T
<1>1. SUFFICES ASSUME Nat \ T # {} PROVE FALSE
  OBVIOUS
<1>2. PICK m \in Nat \ T : \A y \in Nat \ T : m <= y
  BY <1>1, Smallest
<1>3. m # 0 /\ m - 1 \in Nat /\ m - 1 \notin Nat \ T
  BY <1>2
<1>4. QED
  BY <1>3

LEMMA Largest ==
  ASSUME NEW b \in Nat, NEW T, T \subseteq 0..b, T # {}
  PROVE  \E x \in T : \A y \in T : y <= x
<1> DEFINE U == {n \in Nat : b - n \in T}
<1>1. U # {}
  <2>1. PICK x \in T : TRUE
    OBVIOUS
  <2>2. b - x \in U
    BY <2>1
  <2>3. QED
    BY <2>2
<1>2. PICK n \in U : \A m \in U : n <= m
  BY <1>1, Smallest
<1>3. ASSUME NEW y \in T PROVE y <= b - n
  <2>1. b - y \in U
    OBVIOUS
  <2>2. QED
    BY <1>2, <2>1
<1>4. QED
  BY <1>2, <1>3

-----------------------------------------------------------------------------
(* The dBAR file.                                                          *)

Body == Seq(0 .. (Word - 1))

LEMMA NextIsNat ==
  ASSUME NEW body \in Body, NEW cur \in Nat
  PROVE  /\ NextResponse(body, cur) \in Nat /\ cur <= NextResponse(body, cur)
         /\ cur < Len(body) => /\ body[cur + 1] \in 0 .. (Word - 1)
                               /\ NextResponse(body, cur) = cur + 4 + body[cur + 1] * 3
<1> USE AccurateRipAssumption
<1>1. ASSUME cur < Len(body) PROVE body[cur + 1] \in 0 .. (Word - 1)
  BY <1>1 DEF Body
<1>2. QED
  BY <1>1 DEF NextResponse, HeaderLen, EntryLen

\* A recursive function is the one its equation says, as each value needs the
\* one before only.
LEMMA StartsDefined ==
  ASSUME NEW body \in Body
  PROVE  Starts(body) = [n \in 1 .. (Len(body) + 1) |->
                          IF n = 1 THEN 0 ELSE NextResponse(body, Starts(body)[n - 1])]
<1> DEFINE From(f, m) == f = [n \in 1 .. (m + 1) |-> IF n = 1 THEN 0 ELSE NextResponse(body, f[n - 1])]
           T == {m \in Nat : \E f : From(f, m)}
<1>1. 0 \in T
  <2>1. From([n \in 1..1 |-> 0], 0)
    OBVIOUS
  <2>2. QED
    BY <2>1
<1>2. ASSUME NEW m \in Nat, m \in T PROVE m + 1 \in T
  <2>1. PICK f : From(f, m)
    BY <1>2
  <2> DEFINE dom == 1 .. ((m + 1) + 1)
             g == [n \in dom |-> IF n = m + 2 THEN NextResponse(body, f[m + 1]) ELSE f[n]]
  <2>2. \A n \in 1 .. (m + 1) : g[n] = f[n] /\ f[n] = IF n = 1 THEN 0 ELSE NextResponse(body, f[n - 1])
    BY <2>1
  <2>3. \A n \in dom : g[n] = IF n = 1 THEN 0 ELSE NextResponse(body, g[n - 1])
    BY <2>2
  <2>4. g = [n \in dom |-> g[n]]
    OBVIOUS
  <2> HIDE DEF g
  <2>5. From(g, m + 1)
    BY <2>3, <2>4
  <2>6. QED
    BY <2>5
<1> HIDE DEF T
<1>3. Len(body) \in T
  BY <1>1, <1>2, Induction DEF Body
<1>4. \E f : From(f, Len(body))
  BY <1>3 DEF T
<1>5. From(Starts(body), Len(body))
  BY <1>4 DEF Starts
<1>6. QED
  BY <1>5

LEMMA StartsStep ==
  ASSUME NEW body \in Body
  PROVE  /\ Starts(body)[1] = 0
         /\ \A n \in 1 .. Len(body) : Starts(body)[n + 1] = NextResponse(body, Starts(body)[n])
<1>1. Len(body) \in Nat
  BY DEF Body
<1> DEFINE s == Starts(body)
<1>2. s = [n \in 1 .. (Len(body) + 1) |-> IF n = 1 THEN 0 ELSE NextResponse(body, s[n - 1])]
  BY StartsDefined
<1> HIDE DEF s
<1>3. \A n \in 1 .. (Len(body) + 1) : s[n] = IF n = 1 THEN 0 ELSE NextResponse(body, s[n - 1])
  BY <1>2
<1>4. s[1] = 0
  BY <1>1, <1>3
<1>5. ASSUME NEW n \in 1 .. Len(body) PROVE s[n + 1] = NextResponse(body, s[n])
  BY <1>1, <1>3
<1>6. QED
  BY <1>4, <1>5 DEF s

LEMMA StartsAreNat ==
  ASSUME NEW body \in Body
  PROVE  \A n \in 1 .. (Len(body) + 1) : Starts(body)[n] \in Nat
<1> DEFINE T == {m \in Nat : m <= Len(body) => Starts(body)[m + 1] \in Nat}
<1>0. Len(body) \in Nat
  BY DEF Body
<1>1. 0 \in T
  BY StartsStep
<1>2. ASSUME NEW m \in Nat, m \in T PROVE m + 1 \in T
  <2> SUFFICES ASSUME m + 1 <= Len(body) PROVE Starts(body)[(m + 1) + 1] \in Nat
    OBVIOUS
  <2>1. m + 1 \in 1 .. Len(body) /\ Starts(body)[m + 1] \in Nat
    BY <1>0, <1>2
  <2>2. QED
    BY <2>1, StartsStep, NextIsNat
<1>3. \A m \in Nat : m \in T
  <2> HIDE DEF T
  <2>1. QED
    BY <1>1, <1>2, Induction
<1>4. QED
  <2> SUFFICES ASSUME NEW n \in 1 .. (Len(body) + 1) PROVE Starts(body)[n] \in Nat
    OBVIOUS
  <2>1. n - 1 \in Nat /\ n - 1 <= Len(body) /\ (n - 1) + 1 = n
    BY <1>0
  <2>2. QED
    BY <1>3, <2>1

\* When the last response is whole, all are: what is past the end stays there.
LEMMA StartsAreInside ==
  ASSUME NEW body \in Body, Starts(body)[Len(body) + 1] = Len(body)
  PROVE  \A n \in 1 .. (Len(body) + 1) : Starts(body)[n] <= Len(body)
<1> DEFINE T == {m \in Nat : m <= Len(body) => Starts(body)[Len(body) + 1 - m] <= Len(body)}
<1>0. Len(body) \in Nat
  BY DEF Body
<1>1. 0 \in T
  BY <1>0
<1>2. ASSUME NEW m \in Nat, m \in T PROVE m + 1 \in T
  <2> SUFFICES ASSUME m + 1 <= Len(body) PROVE Starts(body)[Len(body) - m] <= Len(body)
    BY <1>0
  <2> DEFINE n == Len(body) - m
  <2>1. n \in 1 .. Len(body) /\ n + 1 = Len(body) + 1 - m
    BY <1>0
  <2>2. Starts(body)[n + 1] <= Len(body)
    BY <1>2, <2>1, <1>0
  <2>3. Starts(body)[n + 1] = NextResponse(body, Starts(body)[n]) /\ Starts(body)[n] \in Nat
    BY <1>0, <2>1, StartsStep, StartsAreNat
  <2>4. Starts(body)[n] <= NextResponse(body, Starts(body)[n]) /\ NextResponse(body, Starts(body)[n]) \in Nat
    BY <2>3, NextIsNat
  <2>5. QED
    BY <1>0, <2>2, <2>3, <2>4
<1>3. \A m \in Nat : m \in T
  <2> HIDE DEF T
  <2>1. QED
    BY <1>1, <1>2, Induction
<1>4. QED
  <2> SUFFICES ASSUME NEW n \in 1 .. (Len(body) + 1) PROVE Starts(body)[n] <= Len(body)
    OBVIOUS
  <2>1. Len(body) + 1 - n \in T /\ Len(body) + 1 - n <= Len(body) /\ Len(body) + 1 - (Len(body) + 1 - n) = n
    BY <1>0, <1>3
  <2>2. QED
    BY <2>1

\* What a parse returns: responses whose every entry is in the body.
Dbar(dbar, length) ==
  /\ DOMAIN dbar \subseteq 1 .. length
  /\ \A i \in DOMAIN dbar :
       /\ dbar[i].trackCount \in 0 .. (Word - 1)
       /\ \A t \in 1 .. dbar[i].trackCount : dbar[i].tracks[t].confidence \in 0 .. (Word - 1)

LEMMA ParseIsDbar ==
  ASSUME NEW body \in Body, Parse(body) # None
  PROVE  Dbar(Parse(body), Len(body))
<1> DEFINE begun == {n \in 1 .. Len(body) : Starts(body)[n] < Len(body)}
<1>0. Len(body) \in Nat
  BY DEF Body
<1>1. /\ Starts(body)[Len(body) + 1] = Len(body)
      /\ Parse(body) = [n \in begun |-> ResponseAt(body, Starts(body)[n])]
  BY DEF Parse
<1>2. ASSUME NEW n \in begun
      PROVE  LET r == ResponseAt(body, Starts(body)[n])
             IN  /\ r.trackCount \in 0 .. (Word - 1)
                 /\ \A t \in 1 .. r.trackCount : r.tracks[t].confidence \in 0 .. (Word - 1)
  <2> DEFINE cur == Starts(body)[n]
             count == body[cur + 1]
  <2>1. cur \in Nat /\ cur < Len(body)
    BY <1>0, StartsAreNat
  <2>2. count \in 0 .. (Word - 1) /\ NextResponse(body, cur) = cur + 4 + count * 3
    BY <2>1, NextIsNat
  <2>3. n \in 1 .. Len(body) /\ n + 1 \in 1 .. (Len(body) + 1)
    BY <1>0
  <2>4. cur + 4 + count * 3 <= Len(body)
    BY <1>1, <2>2, <2>3, StartsStep, StartsAreInside
  <2> HIDE DEF cur, count
  <2>5. ASSUME NEW t \in 1 .. count PROVE body[cur + 4 + (t - 1) * 3 + 1] \in 0 .. (Word - 1)
    <3> DEFINE k == cur + 4 + (t - 1) * 3 + 1
    <3>1. k \in 1 .. Len(body)
      BY <1>0, <2>1, <2>2, <2>4, AccurateRipAssumption
    <3> HIDE DEF k
    <3>2. body[k] \in 0 .. (Word - 1)
      BY <3>1, AccurateRipAssumption DEF Body
    <3>3. QED
      BY <3>2 DEF k
  <2>6. ResponseAt(body, cur).trackCount = count
    BY DEF ResponseAt, count
  <2>7. \A t \in 1 .. count : ResponseAt(body, cur).tracks[t].confidence = body[cur + 4 + (t - 1) * 3 + 1]
    BY DEF ResponseAt, HeaderLen, EntryLen, count
  <2>8. QED
    BY <2>2, <2>5, <2>6, <2>7 DEF cur
<1>3. QED
  BY <1>0, <1>1, <1>2 DEF Dbar

-----------------------------------------------------------------------------
(* The matches of a track.                                                 *)

LEMMA MatchesAreListed ==
  ASSUME NEW length \in Nat, NEW dbar, Dbar(dbar, length), NEW position, NEW crc, NEW checksum,
         NEW match \in Matches(dbar, position, crc, checksum)
  PROVE  /\ match.pressing \in 1 .. length /\ match.confidence \in 0 .. (Word - 1)
         /\ match.checksum = checksum
         /\ Expected(dbar, match.pressing, position).checksum = match.checksum
         /\ Expected(dbar, match.pressing, position).confidence = match.confidence
<1>1. PICK i \in Pressings(dbar, position) :
        /\ Expected(dbar, i, position).checksum = checksum
        /\ match.pressing = i
        /\ match.confidence = Expected(dbar, i, position).confidence
        /\ match.checksum = Expected(dbar, i, position).checksum
  BY DEF Matches
<1>2. i \in 1 .. length /\ Expected(dbar, i, position).confidence \in 0 .. (Word - 1)
  BY <1>1 DEF Pressings, Lists, Expected, Dbar
<1>3. QED
  BY <1>1, <1>2

\* Of some matches one is the best, and it is the only one or the last of its kind.
LEMMA HasBest ==
  ASSUME NEW b \in Nat, NEW all, all # {},
         \A match \in all : match.confidence \in 0..b /\ match.pressing \in 0..b
  PROVE  \E best \in all : \A match \in all : NoBetter(match, best)
<1> DEFINE confidences == {match.confidence : match \in all}
<1>1. PICK c \in confidences : \A d \in confidences : d <= c
  <2>1. confidences # {} /\ confidences \subseteq 0..b
    OBVIOUS
  <2>2. QED
    BY <2>1, Largest
<1> DEFINE high == {match \in all : match.confidence = c}
           late == {match \in high : match.version # "v2"}
<1>2. ASSUME NEW some \in SUBSET all, some # {}
      PROVE  \E last \in some : \A match \in some : match.pressing <= last.pressing
  <2> DEFINE pressings == {match.pressing : match \in some}
  <2>1. pressings # {} /\ pressings \subseteq 0..b
    BY <1>2
  <2>2. PICK p \in pressings : \A q \in pressings : q <= p
    BY <2>1, Largest
  <2>3. QED
    BY <2>2
<1>3. \A match \in all : match \notin high => match.confidence < c
  BY <1>1
<1>4. high # {} /\ high \in SUBSET all /\ late \in SUBSET all
  BY <1>1
<1>5. CASE late # {}
  <2>1. PICK last \in late : \A match \in late : match.pressing <= last.pressing
    BY <1>2, <1>4, <1>5
  <2>2. \A match \in all : NoBetter(match, last)
    BY <1>3, <2>1 DEF NoBetter
  <2>3. QED
    BY <2>1, <2>2
<1>6. CASE late = {}
  <2>1. PICK last \in high : \A match \in high : match.pressing <= last.pressing
    BY <1>2, <1>4
  <2>2. \A match \in all : NoBetter(match, last)
    BY <1>3, <1>6, <2>1 DEF NoBetter
  <2>3. QED
    BY <2>1, <2>2
<1>7. QED
  BY <1>5, <1>6

\* What was found for a track is what its checksums match.
Checked(track, dbar) ==
  /\ {"position", "computed", "v1Matches", "v2Matches"} \subseteq DOMAIN track
  /\ track.v1Matches = Matches(dbar, track.position, track.computed, track.computed.v1)
  /\ track.v2Matches = Matches(dbar, track.position, track.computed, track.computed.v2)

\* A row that names a pressing: it lists that checksum with that confidence.
Traced(row, dbar) ==
  row.best # None =>
    /\ Expected(dbar, row.best.pressing, row.position).checksum = row.best.checksum
    /\ Expected(dbar, row.best.pressing, row.position).confidence = row.best.confidence
    /\ row.best.checksum \in {row.computed.v1, row.computed.v2}

LEMMA CheckedIsTraced ==
  ASSUME NEW length \in Nat, NEW dbar, Dbar(dbar, length), NEW track, Checked(track, dbar)
  PROVE  Traced(Row(track), dbar)
<1> DEFINE all == track.v2Matches \cup track.v1Matches
           best == CHOOSE b \in all : \A match \in all : NoBetter(match, b)
<1>1. ASSUME NEW match \in all
      PROVE  /\ match.pressing \in 1 .. length /\ match.confidence \in 0 .. (Word - 1)
             /\ Expected(dbar, match.pressing, track.position).checksum = match.checksum
             /\ Expected(dbar, match.pressing, track.position).confidence = match.confidence
             /\ match.checksum \in {track.computed.v1, track.computed.v2}
  BY MatchesAreListed DEF Checked
<1>2. CASE all = {}
  BY <1>2 DEF Traced, Row, BestMatch
<1>3. CASE all # {}
  <2> HIDE DEF all
  <2>1. PICK b \in Nat : length <= b /\ Word - 1 <= b
    <3>1. length + Word \in Nat /\ length <= length + Word /\ Word - 1 <= length + Word
      BY AccurateRipAssumption
    <3>2. QED
      BY <3>1
  <2>2. \A match \in all : match.confidence \in 0..b /\ match.pressing \in 0..b
    BY <1>1, <2>1, AccurateRipAssumption
  <2>3. \E x \in all : \A match \in all : NoBetter(match, x)
    BY <1>3, <2>2, HasBest
  <2>4. best \in all
    BY <2>3
  <2>5. Row(track).best = best /\ Row(track).position = track.position
        /\ Row(track).computed = track.computed
    BY <1>3 DEF Row, BestMatch, all
  <2> HIDE DEF best
  <2>6. QED
    BY <1>1, <2>4, <2>5 DEF Traced
<1>4. QED
  BY <1>2, <1>3

-----------------------------------------------------------------------------
(* What a verification comes to.                                           *)

VerdictStatus == {"verified", "mismatched", "no_data", "ambiguous_offsets"}

\* A summary of n tracks.
Sums(summary, dbar) ==
  /\ summary.status \in VerdictStatus
  /\ \E n \in Nat : DOMAIN summary.tracks = 1..n
  /\ \A i \in DOMAIN summary.tracks : Checked(summary.tracks[i], dbar)

LEMMA TracksAreChecked ==
  ASSUME NEW dbar, NEW disc0, NEW prefix, NEW windows, NEW shift
  PROVE  LET tracks == EvaluateCandidate(dbar, disc0, prefix, windows, shift).tracks
         IN  /\ DOMAIN tracks = DOMAIN windows
             /\ \A i \in DOMAIN tracks : Checked(tracks[i], dbar)
<1>1. \A i \in DOMAIN windows : Checked(Verification(dbar, disc0, prefix, windows[i], shift), dbar)
  BY DEF Verification, Checked
<1>2. QED
  BY <1>1 DEF EvaluateCandidate

LEMMA UncheckedFields ==
  ASSUME NEW dbar, NEW tracks, \A i \in DOMAIN tracks : Checked(tracks[i], dbar)
  PROVE  /\ DOMAIN Unshifted(tracks) = DOMAIN tracks /\ DOMAIN Undecided(tracks) = DOMAIN tracks
         /\ \A i \in DOMAIN tracks : Checked(Unshifted(tracks)[i], dbar) /\ Checked(Undecided(tracks)[i], dbar)
<1>1. ASSUME NEW i \in DOMAIN tracks
      PROVE  Checked([tracks[i] EXCEPT !.shift = None], dbar)
             /\ Checked([tracks[i] EXCEPT !.shift = None, !.status = "ambiguous"], dbar)
  BY DEF Checked
<1>2. QED
  BY <1>1 DEF Unshifted, Undecided

LEMMA SearchSums ==
  ASSUME NEW dbar, NEW tracks \in Contents
  PROVE  Sums(VerifyWithOffsets(dbar, tracks, DefaultMaxSampleShift), dbar)
<1> DEFINE stream == Disc(tracks)
           prefix == PrefixSums(stream)
           windows == Windows(tracks)
           reach == Clamped(DefaultMaxSampleShift)
           frontier == {s \in -reach .. reach : HasEvidence(dbar, prefix, windows, s)}
           outcomes == [s \in frontier |-> EvaluateCandidate(dbar, stream, prefix, windows, s)]
           rank == [s \in frontier |-> Rank(outcomes[s].candidate)]
           best == {s \in frontier : \A t \in frontier : ~Beats(rank[t], rank[s])}
           answer == VerifyWithOffsets(dbar, tracks, DefaultMaxSampleShift)
<1>1. \E n \in Nat : DOMAIN windows = 1..n
  BY ContentsAssumption DEF Windows
<1>2. 0 \in frontier
  <2>1. reach \in Nat
    BY AccurateRipAssumption DEF Clamped, DefaultMaxSampleShift, AtLeast0
  <2>2. HasEvidence(dbar, prefix, windows, 0)
    BY DEF HasEvidence
  <2>3. QED
    BY <2>1, <2>2
<1>3. \A s \in frontier : /\ \E n \in Nat : DOMAIN outcomes[s].tracks = 1..n
                          /\ \A i \in DOMAIN outcomes[s].tracks : Checked(outcomes[s].tracks[i], dbar)
  BY <1>1, TracksAreChecked
<1>4. \/ answer = Summary("no_data", None, <<>>, {})
      \/ answer = Summary("mismatched", None, Unshifted(outcomes[0].tracks), {})
      \/ answer = AmongBest(best, outcomes)
  BY DEF VerifyWithOffsets
<1> SUFFICES Sums(answer, dbar)
  OBVIOUS
<1> HIDE DEF answer, outcomes, frontier, rank
<1>5. LET tracks0 == outcomes[0].tracks
      IN  /\ \E n \in Nat : DOMAIN Unshifted(tracks0) = 1..n /\ DOMAIN Undecided(tracks0) = 1..n
          /\ \A i \in DOMAIN Unshifted(tracks0) : Checked(Unshifted(tracks0)[i], dbar)
          /\ \A i \in DOMAIN Undecided(tracks0) : Checked(Undecided(tracks0)[i], dbar)
  BY <1>2, <1>3, UncheckedFields
<1>6. CASE answer = Summary("no_data", None, <<>>, {})
  <2>1. DOMAIN <<>> = 1..0
    OBVIOUS
  <2>2. QED
    BY <1>6, <2>1 DEF Summary, Sums, VerdictStatus
<1>7. CASE answer = Summary("mismatched", None, Unshifted(outcomes[0].tracks), {})
  BY <1>5, <1>7 DEF Summary, Sums, VerdictStatus
<1>8. CASE answer = AmongBest(best, outcomes)
  <2>1. CASE Cardinality(best) # 1
    <3>1. answer = Summary("ambiguous_offsets", None, Undecided(outcomes[0].tracks), best)
      BY <1>8, <2>1 DEF AmongBest
    <3>2. QED
      BY <1>5, <3>1 DEF Summary, Sums, VerdictStatus
  <2>2. CASE Cardinality(best) = 1
    <3> DEFINE shift == CHOOSE s \in best : TRUE
    <3>1. best # {}
      BY <2>2, FS_EmptySet
    <3>2. shift \in frontier
      BY <3>1
    <3>3. \E status \in {"verified", "mismatched"} : answer = Summary(status, shift, outcomes[shift].tracks, {})
      BY <1>8, <2>2 DEF AmongBest
    <3> HIDE DEF shift
    <3>4. QED
      BY <1>3, <3>2, <3>3 DEF Summary, Sums, VerdictStatus
  <2>3. QED
    BY <2>1, <2>2
<1>9. QED
  BY <1>4, <1>6, <1>7, <1>8

LEMMA NothingSums ==
  ASSUME NEW tracks \in Contents
  PROVE  LET summary == Summary("no_data", None, NoDataTracks(tracks), {})
         IN  /\ summary.status \in VerdictStatus /\ \E n \in Nat : DOMAIN summary.tracks = 1..n
             /\ \A i \in DOMAIN summary.tracks : Row(summary.tracks[i]).best = None
BY ContentsAssumption DEF Summary, NoDataTracks, Row, BestMatch, VerdictStatus

\* A verdict has one row for each track, and each row is traced.
Questions == Contents \X (WholeBodies \cup {None})
Results == {Result(q[1], q[2]) : q \in Questions}

LEMMA ResultIsTraced ==
  ASSUME NEW tracks \in Contents, NEW body \in WholeBodies \cup {None}
  PROVE  LET result == Result(tracks, body)
         IN  /\ result.status \in VerdictStatus
             /\ \E n \in Nat : result.rows = [k \in 1..n |-> result.rows[k]]
             /\ result = [status |-> result.status, shift |-> result.shift,
                          ambiguous |-> result.ambiguous, rows |-> result.rows]
             /\ \A k \in DOMAIN result.rows :
                  IF body = None THEN result.rows[k].best = None ELSE Traced(result.rows[k], Parse(body))
<1> DEFINE summary == IF body = None THEN Summary("no_data", None, NoDataTracks(tracks), {})
                      ELSE VerifyWithOffsets(Parse(body), tracks, DefaultMaxSampleShift)
<1>1. Result(tracks, body) = Verdict(summary)
  BY DEF Result
<1>2. summary.status \in VerdictStatus /\ \E n \in Nat : DOMAIN summary.tracks = 1..n
  BY SearchSums, NothingSums DEF Sums
<1>3. ASSUME NEW k \in DOMAIN summary.tracks
      PROVE  IF body = None THEN Row(summary.tracks[k]).best = None ELSE Traced(Row(summary.tracks[k]), Parse(body))
  <2>1. CASE body = None
    BY <2>1, NothingSums
  <2>2. CASE body # None
    <3>1. Checked(summary.tracks[k], Parse(body))
      BY <2>2, SearchSums DEF Sums
    <3>2. body \in Body /\ Parse(body) # None /\ Len(body) \in Nat
      BY <2>2, BodiesAssumption DEF WholeBodies, Body
    <3>3. Dbar(Parse(body), Len(body))
      BY <3>2, ParseIsDbar
    <3> HIDE DEF summary
    <3>4. QED
      BY <2>2, <3>1, <3>2, <3>3, CheckedIsTraced
  <2>3. QED
    BY <2>1, <2>2
<1> HIDE DEF summary
<1>4. QED
  BY <1>1, <1>2, <1>3 DEF Verdict

\* The rows of all results.
Rows == UNION {{result.rows[k] : k \in DOMAIN result.rows} : result \in Results}

LEMMA ResultRows ==
  ASSUME NEW result \in Results
  PROVE  result.rows \in Seq(Rows) /\ result.status \in VerdictStatus
<1>1. PICK q \in Questions : result = Result(q[1], q[2])
  BY DEF Results
<1>2. q[1] \in Contents /\ q[2] \in WholeBodies \cup {None}
  BY DEF Questions
<1>3. result.status \in VerdictStatus
  BY <1>1, <1>2, ResultIsTraced
<1>4. PICK n \in Nat : result.rows = [k \in 1..n |-> result.rows[k]]
  <2>1. \E n \in Nat : Result(q[1], q[2]).rows = [k \in 1..n |-> Result(q[1], q[2]).rows[k]]
    BY <1>2, ResultIsTraced
  <2>2. QED
    BY <1>1, <2>1
<1>5. \A k \in 1..n : result.rows[k] \in Rows
  BY <1>4 DEF Rows
<1>6. QED
  BY <1>3, <1>4, <1>5

-----------------------------------------------------------------------------
(* The invariant. The rows of a run are the first ones of its result, one  *)
(* user at a time adds to them, and a run that is neither being worked on  *)
(* nor interrupted is the whole of what was computed.                      *)

DiscIds == {Ids(tracks) : tracks \in Contents} \cup {None}

Run == [dbar : Nat \cup {None}, status : Statuses, finished : BOOLEAN,
        shift : {result.shift : result \in Results} \cup {None},
        ambiguous : {result.ambiguous : result \in Results} \cup {{}},
        rows : Seq(Rows), question : Questions, result : Results]

Working(run) == run.status = "working" /\ ~run.finished
GivenUp(run) == run.status = "interrupted" /\ run.finished
Done(run) == run.finished /\ run.status = run.result.status /\ Whole(run)

FirstRows(run) ==
  /\ Len(run.rows) <= Len(run.result.rows)
  /\ \A k \in 1 .. Len(run.rows) : run.rows[k] = run.result.rows[k]

Asks(run) ==
  /\ run.result = Result(run.question[1], run.question[2])
  /\ \/ run.dbar = None /\ run.question[2] = None
     \/ run.dbar \in DOMAIN dbars /\ run.question[2] = dbars[run.dbar].body

Runs ==
  /\ runs \in Seq(Run)
  /\ \A i \in DOMAIN runs : /\ FirstRows(runs[i]) /\ Asks(runs[i])
                            /\ Working(runs[i]) \/ GivenUp(runs[i]) \/ Done(runs[i])

Responses ==
  /\ dbars \in Seq([disc : DiscIds, body : WholeBodies])
  /\ \A i, j \in DOMAIN dbars : dbars[i] = dbars[j] => i = j

\* What a user in the middle of a verification knows.
Knows(u) ==
  /\ At(u, "unlisted") => job[u].tracks \in Contents /\ job[u].body = None /\ job[u].dbar = None
  /\ At(u, "fetched") \/ At(u, "stored") =>
       job[u].tracks \in Contents /\ job[u].body \in WholeBodies /\ job[u].disc \in DiscIds
  /\ At(u, "stored") => job[u].dbar \in DOMAIN dbars /\ dbars[job[u].dbar].body = job[u].body
  /\ At(u, "started") => job[u].run \in DOMAIN runs /\ ~Done(runs[job[u].run])

OneWriter ==
  \A u, v \in Users : u # v /\ At(u, "started") /\ At(v, "started") => job[u].run # job[v].run

Inv ==
  /\ file \in Contents /\ disc \in DiscIds
  /\ Responses /\ Runs
  /\ DOMAIN job = Users /\ (\A u \in Users : Knows(u)) /\ OneWriter

-----------------------------------------------------------------------------
(* The users.                                                              *)

\* A step of one user: what the others know stays known, if no response goes away
\* and no run of theirs is finished.
LEMMA OneUserMoves ==
  ASSUME Inv, NEW u \in Users, NEW facts, To(u, facts),
         \A i \in DOMAIN dbars : i \in DOMAIN dbars' /\ dbars'[i] = dbars[i],
         \A i \in DOMAIN runs : i \in DOMAIN runs',
         \A v \in Users : v # u /\ At(v, "started") => ~Done(runs'[job[v].run]),
         Knows(u)',
         facts.at = "started" => \A v \in Users : v # u /\ At(v, "started") => job[v].run # facts.run
  PROVE  DOMAIN job' = Users /\ (\A v \in Users : Knows(v)') /\ OneWriter'
<1>1. DOMAIN job' = Users /\ job'[u] = facts /\ \A v \in Users : v # u => job'[v] = job[v]
  BY DEF Inv, To
<1>2. ASSUME NEW v \in Users, v # u PROVE Knows(v)'
  BY <1>1, <1>2 DEF Inv, Knows, At
<1>3. OneWriter'
  <2> SUFFICES ASSUME NEW v \in Users, NEW w \in Users, v # w,
                      At(v, "started")', At(w, "started")'
               PROVE  job'[v].run # job'[w].run
    BY DEF OneWriter
  <2>1. CASE v = u
    BY <1>1, <2>1 DEF At
  <2>2. CASE w = u
    BY <1>1, <2>2 DEF At
  <2>3. CASE v # u /\ w # u
    BY <1>1, <2>3 DEF Inv, OneWriter, At
  <2>4. QED
    BY <2>1, <2>2, <2>3
<1>4. QED
  BY <1>1, <1>2, <1>3

\* A step that leaves the tables as they are.
LEMMA TablesStay ==
  ASSUME Inv, UNCHANGED <<dbars, runs>>
  PROVE  Responses' /\ Runs'
BY DEF Inv, Responses, Runs, FirstRows, Asks

LEMMA OneUserMovesAlone ==
  ASSUME Inv, NEW u \in Users, NEW facts, To(u, facts),
         UNCHANGED <<file, disc, dbars, runs>>, Knows(u)', facts.at # "started"
  PROVE  Inv'
<1>1. \A v \in Users : v # u /\ At(v, "started") => ~Done(runs'[job[v].run])
  BY DEF Inv, Knows
<1>2. DOMAIN job' = Users /\ (\A v \in Users : Knows(v)') /\ OneWriter'
  BY <1>1, OneUserMoves
<1>3. QED
  BY <1>2, TablesStay DEF Inv

LEMMA FactsAt ==
  \A place, d, tracks, body, dbar : Facts(place, d, tracks, body, dbar).at = place
BY DEF Facts

LEMMA BeginKeepsInv == ASSUME Inv, NEW u \in Users, Begin(u) PROVE Inv'
<1>1. CASE To(u, Facts("unlisted", disc, file, None, None))
  <2>1. Knows(u)'
    BY <1>1 DEF To, Facts, Knows, At, Inv
  <2>2. QED
    BY <1>1, <2>1, OneUserMovesAlone, FactsAt DEF Begin
<1>2. ASSUME NEW body \in Bodies, Usable(body), To(u, Facts("fetched", disc, file, body, None))
      PROVE  Inv'
  <2>1. Knows(u)'
    BY <1>2 DEF To, Facts, Knows, At, Usable, Inv
  <2>2. QED
    BY <1>2, <2>1, OneUserMovesAlone, FactsAt DEF Begin
<1>3. QED
  BY <1>1, <1>2 DEF Begin

LEMMA InsertResponseKeepsInv == ASSUME Inv, NEW u \in Users, InsertDbarResponse(u) PROVE Inv'
<1> DEFINE row == [disc |-> job[u].disc, body |-> job[u].body]
<1>1. /\ job[u].tracks \in Contents /\ row \in [disc : DiscIds, body : WholeBodies]
      /\ dbars \in Seq([disc : DiscIds, body : WholeBodies])
      /\ UNCHANGED <<file, disc, runs>>
  BY DEF InsertDbarResponse, Inv, Knows, Responses
<1>2. CASE Stored(u) # {}
  <2> DEFINE i == CHOOSE i \in Stored(u) : TRUE
  <2>1. i \in DOMAIN dbars /\ dbars[i] = row
    <3>1. i \in Stored(u)
      BY <1>2
    <3>2. QED
      BY <3>1 DEF Stored, Same
  <2>2. ToStored(u, i) /\ UNCHANGED dbars
    BY <1>2 DEF InsertDbarResponse
  <2> HIDE DEF i
  <2>3. Knows(u)'
    BY <1>1, <2>1, <2>2 DEF ToStored, To, Facts, Knows, At, Inv
  <2>4. QED
    BY <1>1, <2>2, <2>3, OneUserMovesAlone, FactsAt DEF ToStored
<1>3. CASE Stored(u) = {}
  <2>1. /\ dbars' = Append(dbars, row) /\ ToStored(u, Len(dbars'))
    BY <1>3 DEF InsertDbarResponse
  <2>2. \A i \in DOMAIN dbars : dbars[i] # row
    BY <1>3 DEF Stored, Same
  <2> HIDE DEF row
  <2>3. /\ dbars' \in Seq([disc : DiscIds, body : WholeBodies]) /\ Len(dbars') = Len(dbars) + 1
        /\ Len(dbars) \in Nat /\ DOMAIN dbars = 1 .. Len(dbars) /\ DOMAIN dbars' = 1 .. (Len(dbars) + 1)
        /\ dbars'[Len(dbars) + 1] = row /\ \A i \in DOMAIN dbars : dbars'[i] = dbars[i]
    BY <1>1, <2>1
  <2>4. Responses'
    <3> SUFFICES ASSUME NEW i \in DOMAIN dbars', NEW j \in DOMAIN dbars', dbars'[i] = dbars'[j] PROVE i = j
      BY <2>3 DEF Responses
    <3>1. CASE i \in DOMAIN dbars /\ j \in DOMAIN dbars
      BY <2>3, <3>1 DEF Inv, Responses
    <3>2. CASE i = Len(dbars) + 1 \/ j = Len(dbars) + 1
      BY <2>2, <2>3, <3>2
    <3>3. QED
      BY <2>3, <3>1, <3>2
  <2>5. Runs'
    <3>1. \A i \in DOMAIN runs : Asks(runs[i])'
      BY <1>1, <2>3 DEF Inv, Runs, Asks
    <3>2. QED
      BY <1>1, <3>1 DEF Inv, Runs, FirstRows
  <2>6. Knows(u)'
    <3>1. Len(dbars') \in DOMAIN dbars' /\ dbars'[Len(dbars')].body = job[u].body
      BY <2>3 DEF row
    <3>2. job'[u] = Facts("stored", job[u].disc, job[u].tracks, job[u].body, Len(dbars'))
      BY <2>1 DEF ToStored, To, Inv
    <3>3. job[u].disc \in DiscIds /\ job[u].body \in WholeBodies
      BY DEF InsertDbarResponse, Inv, Knows
    <3>4. QED
      BY <1>1, <3>1, <3>2, <3>3 DEF Facts, Knows, At
  <2>7. \A v \in Users : v # u /\ At(v, "started") => ~Done(runs'[job[v].run])
    BY <1>1 DEF Inv, Knows
  <2>8. DOMAIN job' = Users /\ (\A v \in Users : Knows(v)') /\ OneWriter'
    BY <1>1, <2>1, <2>3, <2>6, <2>7, OneUserMoves, FactsAt DEF ToStored
  <2>9. QED
    BY <1>1, <2>4, <2>5, <2>8 DEF Inv
<1>4. QED
  BY <1>2, <1>3

-----------------------------------------------------------------------------
(* The runs.                                                               *)

LEMMA RunFields ==
  ASSUME NEW run \in Run
  PROVE  /\ run.dbar \in Nat \cup {None} /\ run.status \in Statuses /\ run.finished \in BOOLEAN
         /\ run.rows \in Seq(Rows) /\ run.question \in Questions /\ run.result \in Results
         /\ run.result.rows \in Seq(Rows) /\ run.result.status \in VerdictStatus
BY ResultRows DEF Run

LEMMA OneRunChanges ==
  ASSUME Inv, NEW i \in DOMAIN runs, NEW run \in Run, runs' = [runs EXCEPT ![i] = run],
         UNCHANGED dbars, FirstRows(run), Asks(run), Working(run) \/ GivenUp(run) \/ Done(run)
  PROVE  /\ Responses' /\ Runs' /\ DOMAIN runs' = DOMAIN runs /\ runs'[i] = run
         /\ \A j \in DOMAIN runs : j # i => runs'[j] = runs[j]
<1>1. /\ runs' \in Seq(Run) /\ DOMAIN runs' = DOMAIN runs /\ runs'[i] = run
      /\ \A j \in DOMAIN runs : j # i => runs'[j] = runs[j]
  BY DEF Inv, Runs
<1>2. ASSUME NEW j \in DOMAIN runs
      PROVE  /\ FirstRows(runs'[j]) /\ Asks(runs[j])'
             /\ Working(runs'[j]) \/ GivenUp(runs'[j]) \/ Done(runs'[j])
  <2>1. CASE j = i
    BY <1>1, <2>1 DEF Asks
  <2>2. CASE j # i
    BY <1>1, <2>2 DEF Inv, Runs, Asks
  <2>3. QED
    BY <2>1, <2>2
<1>3. Responses'
  BY DEF Inv, Responses
<1>4. QED
  BY <1>1, <1>2, <1>3 DEF Runs

\* The run of a user who has started one.
LEMMA StartedRun ==
  ASSUME Inv, NEW u \in Users, At(u, "started")
  PROVE  LET run == runs[job[u].run]
         IN  /\ job[u].run \in DOMAIN runs /\ run \in Run /\ FirstRows(run) /\ Asks(run)
             /\ Working(run) \/ GivenUp(run)
BY DEF Inv, Knows, Runs

LEMMA NewRunIsWorking ==
  ASSUME Inv, NEW u \in Users, At(u, "stored") \/ At(u, "unlisted")
  PROVE  /\ NewRun(job[u]) \in Run /\ Working(NewRun(job[u]))
         /\ FirstRows(NewRun(job[u])) /\ Asks(NewRun(job[u]))
<1> DEFINE facts == job[u]
           q == <<facts.tracks, facts.body>>
<1>1. /\ facts.tracks \in Contents /\ facts.body \in WholeBodies \cup {None}
      /\ \/ facts.dbar = None /\ facts.body = None
         \/ facts.dbar \in DOMAIN dbars /\ facts.body = dbars[facts.dbar].body
  BY DEF Inv, Knows
<1>2. facts.dbar \in Nat \cup {None}
  BY <1>1 DEF Inv, Responses
<1>3. q \in Questions /\ Result(facts.tracks, facts.body) \in Results
  BY <1>1 DEF Questions, Results
<1> HIDE DEF facts
<1>4. NewRun(facts) \in Run
  BY <1>2, <1>3 DEF NewRun, Run, Statuses
<1>5. Working(NewRun(facts)) /\ Asks(NewRun(facts))
  BY <1>1 DEF NewRun, Working, Asks
<1>6. FirstRows(NewRun(facts))
  <2>1. Len(Result(facts.tracks, facts.body).rows) \in Nat /\ Len(<<>>) = 0
    BY <1>3, ResultRows
  <2>2. QED
    BY <2>1 DEF NewRun, FirstRows
<1>7. QED
  BY <1>4, <1>5, <1>6 DEF facts

LEMMA WithRowIsSame ==
  ASSUME NEW run \in Run, FirstRows(run), Asks(run), Working(run) \/ GivenUp(run),
         Len(run.rows) < Len(run.result.rows)
  PROVE  /\ WithRow(run) \in Run /\ FirstRows(WithRow(run)) /\ Asks(WithRow(run))
         /\ Working(run) => Working(WithRow(run))
         /\ GivenUp(run) => GivenUp(WithRow(run))
         /\ WithRow(run).result = run.result
<1> DEFINE n == Len(run.rows) + 1
           rows == Append(run.rows, run.result.rows[n])
<1>1. /\ n \in 1 .. Len(run.result.rows) /\ rows \in Seq(Rows) /\ Len(rows) = n
      /\ rows[n] = run.result.rows[n] /\ \A k \in 1 .. Len(run.rows) : rows[k] = run.rows[k]
  BY RunFields
<1> HIDE DEF rows, n
<1>2. [run EXCEPT !.rows = rows] \in Run
  BY <1>1 DEF Run
<1>3. /\ WithRow(run).rows = rows /\ WithRow(run).result = run.result
      /\ WithRow(run).status = run.status /\ WithRow(run).finished = run.finished
      /\ WithRow(run).question = run.question /\ WithRow(run).dbar = run.dbar
  BY DEF WithRow, Run, rows, n
<1>4. FirstRows(WithRow(run))
  <2>1. Len(rows) <= Len(run.result.rows) /\ 1 .. Len(rows) = 1 .. n /\ Len(run.rows) \in Nat
    BY <1>1, RunFields
  <2>2. \A k \in 1 .. Len(rows) : rows[k] = run.result.rows[k]
    BY <1>1, <2>1 DEF FirstRows, n
  <2>3. QED
    BY <1>3, <2>1, <2>2 DEF FirstRows
<1>5. QED
  BY <1>2, <1>3, <1>4 DEF WithRow, Asks, Working, GivenUp, rows, n

LEMMA FinishedIsDone ==
  ASSUME NEW run \in Run, FirstRows(run), Asks(run), Len(run.rows) = Len(run.result.rows)
  PROVE  /\ Finished(run) \in Run /\ FirstRows(Finished(run)) /\ Asks(Finished(run)) /\ Done(Finished(run))
         /\ Finished(run).question = run.question
<1>1. run.rows = run.result.rows
  BY RunFields DEF FirstRows
<1>2. run.result.status \in Statuses /\ run.result \in Results
  BY RunFields DEF Statuses, VerdictStatus
<1>3. run.result.shift \in {result.shift : result \in Results} \cup {None}
      /\ run.result.ambiguous \in {result.ambiguous : result \in Results} \cup {{}}
  BY <1>2
<1>4. Finished(run) \in Run
  BY <1>2, <1>3 DEF Finished, Run
<1>5. /\ Finished(run).status = run.result.status /\ Finished(run).finished = TRUE
      /\ Finished(run).shift = run.result.shift /\ Finished(run).ambiguous = run.result.ambiguous
      /\ Finished(run).rows = run.rows /\ Finished(run).result = run.result
      /\ Finished(run).question = run.question /\ Finished(run).dbar = run.dbar
  BY DEF Finished, Run
<1>6. run.result = [status |-> run.result.status, shift |-> run.result.shift,
                    ambiguous |-> run.result.ambiguous, rows |-> run.result.rows]
  <2>1. run.question[1] \in Contents /\ run.question[2] \in WholeBodies \cup {None}
    BY RunFields DEF Questions
  <2>2. QED
    BY <2>1, ResultIsTraced DEF Asks
<1>7. Done(Finished(run))
  BY <1>1, <1>5, <1>6 DEF Done, Whole
<1>8. QED
  BY <1>4, <1>5, <1>7 DEF FirstRows, Asks

LEMMA StartKeepsInv == ASSUME Inv, NEW u \in Users, StartVerificationRun(u) PROVE Inv'
<1> DEFINE run == NewRun(job[u])
           started == [at |-> "started", run |-> Len(runs')]
<1>1. /\ runs' = Append(runs, run) /\ To(u, started)
      /\ UNCHANGED <<file, disc, dbars>>
  BY DEF StartVerificationRun
<1>2. run \in Run /\ Working(run) /\ FirstRows(run) /\ Asks(run)
  BY NewRunIsWorking DEF StartVerificationRun
<1> HIDE DEF run
<1>3. /\ runs \in Seq(Run) /\ runs' \in Seq(Run) /\ Len(runs) \in Nat /\ Len(runs') = Len(runs) + 1
      /\ DOMAIN runs = 1 .. Len(runs) /\ DOMAIN runs' = 1 .. (Len(runs) + 1)
      /\ runs'[Len(runs) + 1] = run /\ \A i \in DOMAIN runs : runs'[i] = runs[i]
  BY <1>1, <1>2 DEF Inv, Runs
<1>4. Responses' /\ Runs'
  <2>1. \A i \in DOMAIN runs' : /\ FirstRows(runs'[i]) /\ Asks(runs[i])'
                                /\ (Working(runs'[i]) \/ GivenUp(runs'[i]) \/ Done(runs'[i]))
    BY <1>1, <1>2, <1>3 DEF Inv, Runs, Asks
  <2>2. QED
    BY <1>1, <1>3, <2>1 DEF Inv, Responses, Runs
<1>5. started.at = "started" /\ started.run = Len(runs) + 1 /\ job'[u] = started
  BY <1>1, <1>3 DEF To, Inv
<1>6. Knows(u)'
  <2>1. ~Done(run)
    BY <1>2 DEF Working, Done
  <2>2. QED
    BY <1>3, <1>5, <2>1 DEF Knows, At
<1>7. \A v \in Users : v # u /\ At(v, "started") =>
        /\ job[v].run \in DOMAIN runs /\ ~Done(runs'[job[v].run])
        /\ job[v].run # started.run
  BY <1>3, <1>5 DEF Inv, Knows
<1> HIDE DEF started
<1>8. DOMAIN job' = Users /\ (\A v \in Users : Knows(v)') /\ OneWriter'
  BY <1>1, <1>3, <1>6, <1>7, OneUserMoves
<1>9. QED
  BY <1>1, <1>4, <1>8 DEF Inv

LEMMA InsertTrackKeepsInv == ASSUME Inv, NEW u \in Users, InsertTrackVerification(u) PROVE Inv'
<1> DEFINE i == job[u].run
           run == WithRow(runs[i])
<1>1. /\ i \in DOMAIN runs /\ runs[i] \in Run /\ (Working(runs[i]) \/ GivenUp(runs[i]))
      /\ run \in Run /\ FirstRows(run) /\ Asks(run) /\ (Working(run) \/ GivenUp(run))
  BY StartedRun, WithRowIsSame DEF InsertTrackVerification
<1>2. runs' = [runs EXCEPT ![i] = run] /\ UNCHANGED <<file, disc, dbars, job>>
  BY DEF InsertTrackVerification
<1>3. ~Done(run)
  BY <1>1, RunFields DEF Working, GivenUp, Done, VerdictStatus
<1> HIDE DEF i, run
<1>4. /\ Responses' /\ Runs' /\ DOMAIN runs' = DOMAIN runs /\ runs'[i] = run
      /\ \A j \in DOMAIN runs : j # i => runs'[j] = runs[j]
  BY <1>1, <1>2, OneRunChanges
<1>5. ASSUME NEW v \in Users PROVE Knows(v)'
  <2>1. At(v, "started") => ~Done(runs'[job[v].run])
    BY <1>3, <1>4 DEF Inv, Knows
  <2>2. QED
    BY <1>2, <1>4, <2>1 DEF Inv, Knows, At
<1>6. QED
  BY <1>2, <1>4, <1>5 DEF Inv, OneWriter, At

LEMMA FinishKeepsInv == ASSUME Inv, NEW u \in Users, FinishVerificationRun(u) PROVE Inv'
<1> DEFINE i == job[u].run
           run == Finished(runs[i])
<1>1. i \in DOMAIN runs /\ run \in Run /\ FirstRows(run) /\ Asks(run) /\ Done(run)
  BY StartedRun, FinishedIsDone DEF FinishVerificationRun
<1>2. runs' = [runs EXCEPT ![i] = run] /\ To(u, Idle) /\ UNCHANGED <<file, disc, dbars>>
  BY DEF FinishVerificationRun
<1> HIDE DEF run
<1>3. /\ Responses' /\ Runs' /\ DOMAIN runs' = DOMAIN runs
      /\ \A j \in DOMAIN runs : j # i => runs'[j] = runs[j]
  BY <1>1, <1>2, OneRunChanges
<1>4. \A v \in Users : v # u /\ At(v, "started") => job[v].run # i
  BY DEF FinishVerificationRun, Inv, OneWriter
<1>5. \A v \in Users : v # u /\ At(v, "started") => ~Done(runs'[job[v].run])
  BY <1>3, <1>4 DEF Inv, Knows
<1>6. Idle.at = "idle" /\ job'[u] = Idle
  BY <1>2 DEF Idle, To, Inv
<1>7. Knows(u)'
  BY <1>6 DEF Knows, At
<1>8. DOMAIN job' = Users /\ (\A v \in Users : Knows(v)') /\ OneWriter'
  BY <1>2, <1>3, <1>5, <1>6, <1>7, OneUserMoves
<1>9. QED
  BY <1>2, <1>3, <1>8 DEF Inv

\* A run is interrupted if it is being worked on, and is otherwise left alone.
LEMMA InterruptedRun ==
  ASSUME NEW run \in Run, FirstRows(run), Asks(run), Working(run) \/ GivenUp(run) \/ Done(run)
  PROVE  /\ Interrupted(run) \in Run /\ FirstRows(Interrupted(run)) /\ Asks(Interrupted(run))
         /\ Working(run) => GivenUp(Interrupted(run))
         /\ ~Working(run) => Interrupted(run) = run
         /\ Interrupted(run).result = run.result
<1>1. CASE Working(run)
  <2>1. Interrupted(run) = [run EXCEPT !.status = "interrupted", !.finished = TRUE]
    BY <1>1 DEF Interrupted, Working
  <2>2. [run EXCEPT !.status = "interrupted", !.finished = TRUE] \in Run
    BY DEF Run, Statuses
  <2>3. /\ Interrupted(run).status = "interrupted" /\ Interrupted(run).finished = TRUE
        /\ Interrupted(run).rows = run.rows /\ Interrupted(run).result = run.result
        /\ Interrupted(run).question = run.question /\ Interrupted(run).dbar = run.dbar
    BY <2>1 DEF Run
  <2>4. QED
    BY <1>1, <2>1, <2>2, <2>3 DEF FirstRows, Asks, GivenUp
<1>2. CASE ~Working(run)
  <2>1. run.status # "working"
    BY <1>2, RunFields DEF GivenUp, Done, VerdictStatus
  <2>2. QED
    BY <1>2, <2>1 DEF Interrupted
<1>3. QED
  BY <1>1, <1>2

LEMMA OpenKeepsInv == ASSUME Inv, NEW u \in Users, Open(u) PROVE Inv'
<1>1. runs' = [i \in DOMAIN runs |-> Interrupted(runs[i])] /\ To(u, Idle) /\ UNCHANGED <<file, disc, dbars>>
  BY DEF Open
<1>2. ASSUME NEW i \in DOMAIN runs
      PROVE  /\ runs'[i] = Interrupted(runs[i]) /\ runs'[i] \in Run
             /\ FirstRows(runs'[i]) /\ Asks(runs[i])'
             /\ (GivenUp(runs'[i]) \/ Done(runs'[i]))
             /\ (~Done(runs[i]) => ~Done(runs'[i]))
  <2>1. runs[i] \in Run /\ FirstRows(runs[i]) /\ Asks(runs[i])
        /\ (Working(runs[i]) \/ GivenUp(runs[i]) \/ Done(runs[i]))
    BY DEF Inv, Runs
  <2>2. runs'[i] = Interrupted(runs[i]) /\ Interrupted(runs[i]) \in Run
    BY <1>1, <2>1, InterruptedRun
  <2>3. FirstRows(runs'[i]) /\ Asks(runs[i])'
    BY <1>1, <2>1, <2>2, InterruptedRun DEF Asks
  <2>4. CASE Working(runs[i])
    <3>1. GivenUp(runs'[i])
      BY <2>1, <2>2, <2>4, InterruptedRun
    <3>2. ~Done(runs'[i])
      BY <2>2, <3>1, RunFields DEF GivenUp, Done, VerdictStatus
    <3>3. QED
      BY <2>2, <2>3, <3>1, <3>2
  <2>5. CASE ~Working(runs[i])
    <3>1. runs'[i] = runs[i]
      BY <2>1, <2>2, <2>5, InterruptedRun
    <3>2. QED
      BY <2>1, <2>2, <2>3, <2>5, <3>1
  <2>6. QED
    BY <2>4, <2>5
<1>3. DOMAIN runs' = DOMAIN runs /\ runs' \in Seq(Run)
  <2>1. DOMAIN runs = 1 .. Len(runs) /\ Len(runs) \in Nat
    BY DEF Inv, Runs
  <2>2. QED
    BY <1>1, <1>2, <2>1
<1>4. Responses' /\ Runs'
  BY <1>1, <1>2, <1>3 DEF Inv, Responses, Runs
<1>5. \A v \in Users : v # u /\ At(v, "started") => ~Done(runs'[job[v].run])
  BY <1>2 DEF Inv, Knows
<1>6. Idle.at = "idle" /\ job'[u] = Idle
  BY <1>1 DEF Idle, To, Inv
<1>7. Knows(u)'
  BY <1>6 DEF Knows, At
<1>8. DOMAIN job' = Users /\ (\A v \in Users : Knows(v)') /\ OneWriter'
  BY <1>1, <1>3, <1>5, <1>6, <1>7, OneUserMoves
<1>9. QED
  BY <1>1, <1>4, <1>8 DEF Inv

LEMMA StepKeepsInv == ASSUME Inv, [Next]_vars PROVE Inv'
<1>1. ASSUME NEW u \in Users, Fail(u) \/ Crash(u) PROVE Inv'
  <2>1. PICK rest \in {Idle, Down} : To(u, rest) /\ UNCHANGED <<file, disc, dbars, runs>>
    BY <1>1 DEF Fail, Crash
  <2>2. rest.at \in {"idle", "down"} /\ job'[u] = rest
    BY <2>1 DEF Idle, Down, To, Inv
  <2>3. Knows(u)'
    BY <2>2 DEF Knows, At
  <2>4. QED
    BY <2>1, <2>2, <2>3, OneUserMovesAlone
<1>2. CASE Edit
  <2>1. file' \in Contents /\ UNCHANGED <<disc, dbars, runs, job>>
    BY <1>2 DEF Edit
  <2>2. QED
    BY <2>1, TablesStay DEF Inv, Knows, OneWriter, At
<1>3. CASE Identify
  <2>1. disc' \in DiscIds /\ UNCHANGED <<file, dbars, runs, job>>
    BY <1>3 DEF Identify, DiscIds, Inv
  <2>2. QED
    BY <2>1, TablesStay DEF Inv, Knows, OneWriter, At
<1>4. CASE UNCHANGED vars
  BY <1>4, TablesStay DEF vars, Inv, Knows, OneWriter, At
<1>5. QED
  BY <1>1, <1>2, <1>3, <1>4, BeginKeepsInv, InsertResponseKeepsInv, StartKeepsInv, InsertTrackKeepsInv,
     FinishKeepsInv, OpenKeepsInv DEF Next

LEMMA Invariance == Spec => []Inv
<1>1. Init => Inv
  <2>1. <<>> \in Seq(Run) /\ <<>> \in Seq([disc : DiscIds, body : WholeBodies]) /\ DOMAIN <<>> = {}
    OBVIOUS
  <2>2. QED
    BY <2>1 DEF Init, Inv, Responses, Runs, Knows, OneWriter, At, Down, DiscIds
<1>2. Inv /\ [Next]_vars => Inv'
  BY StepKeepsInv
<1>3. QED
  BY <1>1, <1>2, PTL DEF Spec

-----------------------------------------------------------------------------

\* Every row that names a pressing can be traced, for any rips, responses and
\* connections: the response the run refers to is stored, and lists that checksum
\* with that confidence for that track, whatever was edited, killed or recovered
\* meanwhile (insert_dbar_response, persist_track_verification).
THEOREM RowsTraceToBody == Spec => []TracesToBody
<1>1. Inv => TracesToBody
  <2> SUFFICES ASSUME Inv PROVE TracesToBody
    OBVIOUS
  <2>1. ASSUME NEW i \in DOMAIN dbars PROVE Parse(dbars[i].body) # None
    <3>1. dbars \in Seq([disc : DiscIds, body : WholeBodies])
      BY DEF Inv, Responses
    <3> DEFINE Response == [disc : DiscIds, body : WholeBodies]
    <3> HIDE DEF Response
    <3>2. dbars \in Seq(Response)
      BY <3>1 DEF Response
    <3>3. dbars[i] \in Response
      BY <3>2
    <3>4. dbars[i].body \in WholeBodies
      BY <3>3 DEF Response
    <3>5. QED
      BY <3>4 DEF WholeBodies
  <2>2. \A i, j \in DOMAIN dbars : dbars[i] = dbars[j] => i = j
    BY DEF Inv, Responses
  <2>3. ASSUME NEW i \in DOMAIN runs
        PROVE  /\ runs[i].status \in Statuses
               /\ runs[i].dbar # None => runs[i].dbar \in DOMAIN dbars
               /\ \A k \in DOMAIN runs[i].rows :
                    runs[i].rows[k].best # None => Traced(runs[i].rows[k], Parse(dbars[runs[i].dbar].body))
    <3> DEFINE run == runs[i]
    <3>1. run \in Run /\ FirstRows(run) /\ Asks(run)
      BY DEF Inv, Runs
    <3>2. run.question[1] \in Contents /\ run.question[2] \in WholeBodies \cup {None}
      BY <3>1, RunFields DEF Questions
    <3> HIDE DEF run
    <3>3. ASSUME NEW k \in DOMAIN run.rows, run.rows[k].best # None
          PROVE  Traced(run.rows[k], Parse(dbars[run.dbar].body))
      <4>1. k \in DOMAIN run.result.rows /\ run.rows[k] = run.result.rows[k]
        BY <3>1, RunFields DEF FirstRows
      <4>2. run.question[2] # None /\ Traced(run.rows[k], Parse(run.question[2]))
        BY <3>1, <3>2, <3>3, <4>1, ResultIsTraced DEF Asks
      <4>3. run.question[2] = dbars[run.dbar].body
        BY <3>1, <4>2 DEF Asks
      <4>4. QED
        BY <4>2, <4>3
    <3>4. run.status \in Statuses /\ (run.dbar # None => run.dbar \in DOMAIN dbars)
      BY <3>1, RunFields DEF Asks
    <3>5. QED
      BY <3>3, <3>4 DEF run
  <2>4. QED
    BY <2>1, <2>2, <2>3 DEF TracesToBody, Traced
<1>2. QED
  BY <1>1, Invariance, PTL

-----------------------------------------------------------------------------
(* The evidence as a log of verdicts.                                      *)

LEMMA Entries ==
  ASSUME NEW run \in Run
  PROVE  /\ Working(run) => Entry(run) = Log!Pending
         /\ GivenUp(run) => Entry(run) = Log!GivenUp
         /\ Done(run) => Entry(run) = Log!Published(run.question)
<1>1. run.result.status \in VerdictStatus
  BY RunFields
<1>2. CASE Working(run)
  <2>1. ~GivenUp(run) /\ ~Done(run)
    BY <1>2 DEF Working, GivenUp, Done
  <2>2. QED
    BY <1>2, <2>1 DEF Working, Entry, Log!Pending
<1>3. CASE GivenUp(run)
  <2>1. run.status # run.result.status /\ ~Working(run)
    BY <1>1, <1>3 DEF Working, GivenUp, VerdictStatus
  <2>2. ~Whole(run) /\ ~Done(run)
    BY <2>1 DEF Whole, Done
  <2>3. QED
    BY <1>3, <2>1, <2>2 DEF GivenUp, Entry, Log!GivenUp
<1>4. CASE Done(run)
  <2>1. run.status # "interrupted" /\ ~Working(run) /\ ~GivenUp(run)
    BY <1>1, <1>4 DEF Working, GivenUp, Done, VerdictStatus
  <2>2. QED
    BY <1>4, <2>1 DEF Done, Entry, Log!Published
<1>5. QED
  BY <1>2, <1>3, <1>4

LEMMA StatesApart ==
  /\ Log!Pending.state = "pending" /\ Log!GivenUp.state = "given up"
  /\ \A v : Log!Published(v).state = "published"
BY DEF Log!Pending, Log!GivenUp, Log!Published

\* The log that the runs stand for.
log == [i \in DOMAIN runs |-> Entry(runs[i])]

LEMMA LogOfRuns ==
  ASSUME Inv
  PROVE  /\ Len(runs) \in Nat /\ DOMAIN runs = 1 .. Len(runs) /\ Len(log) = Len(runs)
         /\ DOMAIN log = DOMAIN runs /\ \A i \in DOMAIN runs : log[i] = Entry(runs[i])
BY DEF Inv, Runs, log

LEMMA StartBegins ==
  ASSUME Inv, NEW u \in Users, StartVerificationRun(u) PROVE log' = Append(log, Log!Pending)
<1> DEFINE run == NewRun(job[u])
<1>1. runs' = Append(runs, run) /\ Entry(run) = Log!Pending
  BY NewRunIsWorking, Entries DEF StartVerificationRun
<1>2. /\ Len(runs) \in Nat /\ DOMAIN runs = 1 .. Len(runs) /\ DOMAIN runs' = 1 .. (Len(runs) + 1)
      /\ runs'[Len(runs) + 1] = run /\ \A i \in DOMAIN runs : runs'[i] = runs[i]
  <2>1. runs \in Seq(Run) /\ run \in Run
    BY NewRunIsWorking DEF Inv, Runs, StartVerificationRun
  <2> HIDE DEF run
  <2>2. QED
    BY <1>1, <2>1
<1> HIDE DEF run
<1>3. /\ log' = [i \in 1 .. (Len(runs) + 1) |-> Entry(runs'[i])]
      /\ log = [i \in 1 .. Len(runs) |-> Entry(runs[i])]
  BY <1>2 DEF log
<1>4. QED
  BY <1>1, <1>2, <1>3

\* A step that changes one run.
LEMMA OneEntryChanges ==
  ASSUME Inv, NEW i \in DOMAIN runs, NEW run, runs' = [runs EXCEPT ![i] = run]
  PROVE  log' = [log EXCEPT ![i] = Entry(run)]
<1>1. DOMAIN runs' = DOMAIN runs /\ runs'[i] = run /\ \A j \in DOMAIN runs : j # i => runs'[j] = runs[j]
  OBVIOUS
<1>2. \A j \in DOMAIN runs : log'[j] = [log EXCEPT ![i] = Entry(run)][j]
  BY <1>1 DEF log
<1>3. QED
  BY <1>1, <1>2 DEF log

LEMMA InsertTrackStutters ==
  ASSUME Inv, NEW u \in Users, InsertTrackVerification(u) PROVE log' = log
<1> DEFINE i == job[u].run
           run == WithRow(runs[i])
<1>1. /\ i \in DOMAIN runs /\ runs[i] \in Run /\ run \in Run
      /\ \/ Working(runs[i]) /\ Working(run)
         \/ GivenUp(runs[i]) /\ GivenUp(run)
  BY StartedRun, WithRowIsSame DEF InsertTrackVerification
<1>2. Entry(run) = Entry(runs[i])
  BY <1>1, Entries
<1>3. runs' = [runs EXCEPT ![i] = run]
  BY DEF InsertTrackVerification
<1> HIDE DEF i, run
<1>4. log' = [log EXCEPT ![i] = Entry(run)]
  BY <1>1, <1>3, OneEntryChanges
<1>5. log[i] = Entry(run)
  BY <1>1, <1>2, LogOfRuns
<1>6. QED
  BY <1>4, <1>5 DEF log

LEMMA FinishPublishes ==
  ASSUME Inv, NEW u \in Users, FinishVerificationRun(u)
  PROVE  \E i \in DOMAIN log, v \in Contents \X (WholeBodies \cup {None}) :
            log[i].state # "published" /\ log' = [log EXCEPT ![i] = Log!Published(v)]
<1> DEFINE i == job[u].run
           run == Finished(runs[i])
<1>1. /\ i \in DOMAIN runs /\ runs[i] \in Run /\ (Working(runs[i]) \/ GivenUp(runs[i]))
      /\ run \in Run /\ Done(run) /\ run.question = runs[i].question
  BY StartedRun, FinishedIsDone DEF FinishVerificationRun
<1>2. runs' = [runs EXCEPT ![i] = run]
  BY DEF FinishVerificationRun
<1> HIDE DEF i, run
<1>3. log[i].state # "published"
  <2>1. log[i] \in {Log!Pending, Log!GivenUp}
    BY <1>1, Entries, LogOfRuns
  <2>2. QED
    BY <2>1, StatesApart
<1>4. log' = [log EXCEPT ![i] = Log!Published(run.question)]
  BY <1>1, <1>2, Entries, OneEntryChanges
<1>5. i \in DOMAIN log /\ run.question \in Contents \X (WholeBodies \cup {None})
  BY <1>1, LogOfRuns DEF Run, Questions
<1>6. QED
  BY <1>3, <1>4, <1>5

LEMMA OpenGivesUp ==
  ASSUME Inv, NEW u \in Users, Open(u)
  PROVE  log' = [i \in DOMAIN log |-> IF log[i] = Log!Pending THEN Log!GivenUp ELSE log[i]]
<1>1. runs' = [i \in DOMAIN runs |-> Interrupted(runs[i])] /\ DOMAIN runs' = DOMAIN runs
  BY DEF Open
<1>2. ASSUME NEW i \in DOMAIN runs
      PROVE  Entry(runs'[i]) = IF log[i] = Log!Pending THEN Log!GivenUp ELSE log[i]
  <2>1. /\ runs[i] \in Run /\ FirstRows(runs[i]) /\ Asks(runs[i])
        /\ (Working(runs[i]) \/ GivenUp(runs[i]) \/ Done(runs[i]))
    BY DEF Inv, Runs
  <2>2. log[i] = Entry(runs[i]) /\ runs'[i] = Interrupted(runs[i])
    BY <1>1, LogOfRuns
  <2>3. CASE Working(runs[i])
    BY <2>1, <2>2, <2>3, Entries, InterruptedRun
  <2>4. CASE ~Working(runs[i])
    <3>1. log[i] = Log!GivenUp \/ log[i] = Log!Published(runs[i].question)
      BY <2>1, <2>2, <2>4, Entries
    <3>2. log[i] # Log!Pending
      BY <3>1, StatesApart
    <3>3. QED
      BY <2>1, <2>2, <2>4, <3>2, InterruptedRun
  <2>5. QED
    BY <2>3, <2>4
<1>3. QED
  BY <1>1, <1>2, LogOfRuns DEF log

LEMMA StepIsOfLog == ASSUME Inv, [Next]_vars PROVE [Log!Next]_log
<1>1. CASE UNCHANGED runs
  BY <1>1 DEF log
<1>2. ASSUME NEW u \in Users, StartVerificationRun(u) PROVE Log!Next
  BY <1>2, StartBegins DEF Log!Next, Log!Begin, log
<1>3. ASSUME NEW u \in Users, InsertTrackVerification(u) PROVE UNCHANGED log
  BY <1>3, InsertTrackStutters
<1>4. ASSUME NEW u \in Users, FinishVerificationRun(u) PROVE Log!Next
  BY <1>4, FinishPublishes DEF Log!Next, Log!Publish, log
<1>5. ASSUME NEW u \in Users, Open(u) PROVE Log!Next
  BY <1>5, OpenGivesUp DEF Log!Next, Log!GiveUp, log
<1>6. ASSUME NEW u \in Users, Begin(u) \/ InsertDbarResponse(u) \/ Fail(u) \/ Crash(u)
      PROVE  UNCHANGED runs
  BY <1>6 DEF Begin, InsertDbarResponse, Fail, Crash
<1>7. CASE Edit \/ Identify \/ UNCHANGED vars
  BY <1>1, <1>7 DEF Edit, Identify, vars
<1>8. QED
  BY <1>1, <1>2, <1>3, <1>4, <1>5, <1>6, <1>7 DEF Next

\* Readers see each verdict whole and unchanging, for any number of connections: a
\* run's statements, killed and recovered anywhere, are a log in which a verdict
\* appears in one step (verify_disc_with_options, recover_interrupted_work).
THEOREM ImplementsLog == Spec => ImplementsVerdictLog
<1>1. Init => Log!Init
  BY DEF Init, Log!Init
<1>2. Inv /\ [Next]_vars => [Log!Next]_log
  BY StepIsOfLog
<1>3. QED
  BY <1>1, <1>2, Invariance, PTL DEF Spec, ImplementsVerdictLog, Log!Spec, log
=============================================================================
