--------------------------- MODULE MCProviderCalls ---------------------------
(***************************************************************************)
(* Two look-ups of Tower side by side. The service fails the second, which *)
(* is there to compete for the host, or both find the same release. After  *)
(* a crash the round is asked for again, on what it left on disk.          *)
(***************************************************************************)
EXTENDS ProviderCalls

CONSTANTS c1, c2, c3

Both == {c1, c2}
Self == [c \in Both |-> c]
AllTower == [c \in Both |-> "tower"]
OneRound == <<Both>>
Hits == [c \in Both |-> IF c = c1 THEN c1 ELSE None]
Replies == [c \in Both |-> IF c = c1 THEN {200, 404, 503} ELSE {503}]
Pages200 == [c \in {c1, c2, c3} |-> {200}]
Same == [c \in Both |-> c1]
One == [tower |-> 1]
TwoUnits == [tower |-> 2]

\* Discogs' policy, n requests in n units, with n of 2.
Three == {c1, c2, c3}
AllDiscogs == [c \in Three |-> "discogs"]
Barcodes == [c \in Three |-> c]
ThreeAtOnce == <<Three>>
NoPages == [c \in {} |-> None]
Two == [discogs |-> 2]
OneOfTwo == [discogs |-> 1]
=============================================================================
