------------------------------- MODULE MCCatalog -------------------------------
(***************************************************************************)
(* Catalog for TLC: what the providers may come up with.                   *)
(***************************************************************************)
EXTENDS Catalog, TLC

CONSTANTS t1, t2

\* Which disc is which does not matter.
Discs == Permutations({t1, t2})

Candidate(key, mbid, group, title, cover) ==
  [key |-> key, mbid |-> mbid, group |-> group, title |-> title, label |-> "label",
   cover |-> cover]

\* Two releases of one release group and one of another, from MusicBrainz.
First   == Candidate("mb-1", "r1", "g1", "Title", "front.jpg")
Reissue == Candidate("mb-2", "r2", "g1", "Title", "front.jpg")
Other   == Candidate("mb-3", "r3", "g2", "Another", "other.jpg")
Steady == {First, Reissue, Other}

\* The first release after MusicBrainz has moved it to the other group.
Moved == Candidate("mb-1", "r1", "g2", "Another", "front.jpg")

\* A release that only Discogs knows has no MusicBrainz ids.
Discogs == Candidate("discogs-7", None, None, "Title", "discogs.jpg")

Mixed == {First, Moved, Discogs}
Unmoved == {First, Other, Discogs}

Wording == {<<"album", "title", "Mine">>, <<"release", "label", "Mine">>}
Identity == Wording \cup {<<"album", "mbid", "gx">>, <<"release", "mbid", None>>}
=============================================================================
