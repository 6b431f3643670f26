----------------------------- MODULE MCVerification -----------------------------
(***************************************************************************)
(* Verification for TLC: two rips of one disc, and one of another.         *)
(***************************************************************************)
EXTENDS Verification

UserSymmetry == Permutations(Users)

Track(n, samples) == [position |-> n, samples |-> samples]

\* The samples that count are silent in the damaged rip; Other is another disc.
Original == <<Track(1, <<1, 6, 1>>), Track(2, <<6, 2, 1>>)>>
Damaged == <<Track(1, <<0, 0, 0>>), Track(2, <<0, 0, 0>>)>>
Other == <<Track(1, <<5, 3, 1, 2>>)>>

IdsOf(tracks) == IF Len(tracks) = 1 THEN <<1, 1, 1>> ELSE <<2, 2, 2>>

\* Two pressings, the second of which is of a disc nobody has ripped here.
Crc(tracks, i) == TrackCrcSamples(tracks[i].samples, DiscPosition(i, Len(tracks)))

Response(tracks, confidence) ==
  <<Len(tracks)>> \o IdsOf(tracks)
    \o FlattenSeq([i \in DOMAIN tracks |-> <<confidence, Crc(tracks, i).v1, 0>>])

First == Response(Original, 3)
Both == First \o <<2, 2, 2, 2, 5, 4, 0, 5, 7, 0>>

RipBodies == {Both, Response(Other, 2), SubSeq(Both, 1, 15)}
Discs == {Original, Other}
Reads == {Original, Damaged}
=============================================================================
