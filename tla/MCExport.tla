-------------------------------- MODULE MCExport --------------------------------
(***************************************************************************)
(* Instances of Export: a release of two discs, one with a rip of more     *)
(* tracks than are listed, and other releases, in two databases.           *)
(***************************************************************************)
EXTENDS Export

TrackAt(position, artist, title) == [position |-> position, artist |-> artist, title |-> title]

TwoAlbums ==
  [set |-> [artist |-> None, title |-> <<"a", "/", "b">>, year |-> 1999],
   single |-> [artist |-> <<"c">>, title |-> <<"a", ":", "b", " ">>, year |-> 1999]]

OneWithCovers ==
  [box |-> [album |-> "set", database |-> "home"], ep |-> [album |-> "single", database |-> "work"],
   demo |-> [album |-> "single", database |-> "work"], promo |-> [album |-> "set", database |-> "home"]]

SetAndSingle ==
  [first |-> [release |-> "box", number |-> 1, ripped |-> {1, 2},
              tracks |-> <<TrackAt(1, <<"d">>, None), TrackAt(2, None, <<"f">>)>>],
   second |-> [release |-> "box", number |-> 2, ripped |-> {1, 2},
               tracks |-> <<TrackAt(2, None, <<"f">>)>>],
   other |-> [release |-> "ep", number |-> 1, ripped |-> {1, 2},
              tracks |-> <<TrackAt(1, <<"d">>, <<"f">>), TrackAt(2, <<"e">>, <<"f">>)>>],
   short |-> [release |-> "demo", number |-> 1, ripped |-> {1},
              tracks |-> <<TrackAt(2, None, <<"f">>)>>],
   blank |-> [release |-> "promo", number |-> 1, ripped |-> {1},
              tracks |-> <<TrackAt(1, None, <<"f">>)>>]]

Scans ==
  [sleeve |-> [release |-> "box", id |-> 1, kind |-> "FrontCover", group |-> 9, sequence |-> 0,
               url |-> "u1"],
   digipak |-> [release |-> "box", id |-> 2, kind |-> "FrontCover", group |-> 1, sequence |-> 0,
                url |-> "u2"],
   page |-> [release |-> "promo", id |-> 3, kind |-> "FrontCover", group |-> 9, sequence |-> 0,
             url |-> "u3"]]

Kinds == [u1 |-> "jpg", u2 |-> "jpg", u3 |-> None]

-----------------------------------------------------------------------------
(* Two databases, each with a release.                                     *)

EachItsOwn ==
  [box |-> [album |-> "set", database |-> "home"], ep |-> [album |-> "single", database |-> "work"]]

FirstAndOther == [d \in {"first", "other"} |-> SetAndSingle[d]]

FirstOfEach ==
  [sleeve |-> [release |-> "box", id |-> 1, kind |-> "FrontCover", group |-> 9, sequence |-> 0,
               url |-> "u1"],
   cover |-> [release |-> "ep", id |-> 1, kind |-> "FrontCover", group |-> 9, sequence |-> 0,
              url |-> "u2"]]

-----------------------------------------------------------------------------
(* The two discs of a set that no provider knows by a MusicBrainz id: an   *)
(* album each, of one name.                                                *)

SameName ==
  [one |-> [artist |-> <<"c">>, title |-> <<"a">>, year |-> 1999],
   two |-> [artist |-> <<"c">>, title |-> <<"a">>, year |-> 1999]]

EachAnAlbum ==
  [box |-> [album |-> "one", database |-> "home"], ep |-> [album |-> "two", database |-> "home"]]

OneOfEach == [FirstOfEach EXCEPT !.cover.id = 2]

EachAlone ==
  [first |-> [release |-> "box", number |-> 1, ripped |-> {1}, tracks |-> <<TrackAt(1, None, None)>>],
   second |-> [release |-> "ep", number |-> 1, ripped |-> {1}, tracks |-> <<TrackAt(1, None, None)>>]]
=============================================================================
