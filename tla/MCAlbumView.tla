------------------------------ MODULE MCAlbumView ------------------------------
(***************************************************************************)
(* Instances of AlbumView: a library that is scanned and identified, and   *)
(* another with the same ids.                                              *)
(***************************************************************************)
EXTENDS AlbumView

Album(title, year) == [title |-> title, artist |-> <<1>>, year |-> year]
OfAlbum(a, country) == [album |-> a, country |-> country, label |-> None, language |-> None]
Rip(disc, state, ripper, path) == [disc |-> disc, state |-> state, ripper |-> ripper, path |-> path]

Empty == [albums |-> <<>>, releases |-> <<>>, discs |-> <<>>, rips |-> <<>>, covers |-> <<>>]

\* Two albums with covers, and a rip that turns out to be the second one's.
Scanned ==
  [albums |-> <<Album(<<2>>, 1999), Album(<<2, 1>>, None)>>,
   releases |-> <<OfAlbum(1, <<5>>), OfAlbum(2, <<6>>)>>,
   discs |-> <<[release |-> 1], [release |-> 2]>>,
   rips |-> <<Rip(1, "Identified", "redumper", None), Rip(2, "Identified", None, <<3>>),
              Rip(None, "Unidentified", None, None)>>,
   covers |-> <<<<1>>, <<2>>>>]

Identified ==
  [Scanned EXCEPT !.discs = Append(@, [release |-> 2]),
                  !.rips[3] = Rip(3, "Identified", "EAC", None)]

\* Other rows under the same ids.
Elsewhere ==
  [albums |-> <<Album(<<7>>, 2001)>>, releases |-> <<OfAlbum(1, <<5>>)>>,
   discs |-> <<[release |-> 1]>>,
   rips |-> <<Rip(1, "Identified", "redumper", <<3>>)>>,
   covers |-> <<<<1>>>>]

TwoLibraries == [home |-> <<Empty, Scanned, Identified>>, work |-> <<Empty, Elsewhere>>]

Filter(country) ==
  [artist |-> None, country |-> country, label |-> None, unidentified |-> TRUE, otherRipper |-> FALSE]

ByCountry == {Filter(<<5>>)}
Typed == {<<2000, 1999>>}

-----------------------------------------------------------------------------
(* An album that was released in two countries.                            *)

Imported ==
  [Elsewhere EXCEPT !.releases = <<OfAlbum(1, <<5>>), OfAlbum(1, <<6>>)>>]

WithImport == [home |-> <<Empty, Imported>>, work |-> <<Empty, Elsewhere>>]
=============================================================================
