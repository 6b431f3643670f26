-------------------------------- MODULE AlbumList --------------------------------
(***************************************************************************)
(* The list of a library's albums and unidentified rips                    *)
(* (phono-junk-lib/src/list.rs, the read models of                         *)
(* phono-junk-db/src/aggregate.rs), and the audit of its rips              *)
(* (phono-junk-lib/src/audit.rs).                                          *)
(*                                                                         *)
(* A library has tables, functions of row ids: albums, releases (each of   *)
(* an album), discs (each of a release) and rips (each of a disc, or of    *)
(* None). A text is the sequence of its characters in lower case, as       *)
(* numbers: comparisons ignore case.                                       *)
(***************************************************************************)
EXTENDS Integers, Sequences, FiniteSets, FiniteSetsExt, SequencesExt

CONSTANTS None

Ids(table) == SetToSortSeq(DOMAIN table, <)

ReleasesOf(lib, a) == {r \in DOMAIN lib.releases : lib.releases[r].album = a}
DiscsOf(lib, a) == {d \in DOMAIN lib.discs : lib.discs[d].release \in ReleasesOf(lib, a)}
RipsOf(lib, a) == {f \in DOMAIN lib.rips : lib.rips[f].disc \in DiscsOf(lib, a)}

\* What the first release says that says anything.
FirstSaid(lib, a, field) ==
  LET said == {r \in ReleasesOf(lib, a) : lib.releases[r][field] # None}
  IN  IF said = {} THEN None ELSE lib.releases[Min(said)][field]

\* Mutant: a rip that nothing is known of is not another ripper's.
OtherRipperNamed(rip) == rip.ripper \notin {None, "redumper"}

OtherRipper(rip) == rip.ripper # "redumper"

\* list_albums
ListRow(lib, a) ==
  [kind |-> "album", id |-> a, title |-> lib.albums[a].title, artist |-> lib.albums[a].artist,
   year |-> lib.albums[a].year, country |-> FirstSaid(lib, a, "country"),
   label |-> FirstSaid(lib, a, "label"), language |-> FirstSaid(lib, a, "language"),
   discs |-> Cardinality(DiscsOf(lib, a)), releases |-> Cardinality(ReleasesOf(lib, a)),
   otherRipper |-> \E f \in RipsOf(lib, a) : OtherRipper(lib.rips[f])]

UnidentifiedRow(lib, f) ==
  [kind |-> "rip", id |-> f, path |-> lib.rips[f].path, ripper |-> lib.rips[f].ripper,
   state |-> lib.rips[f].state]

\* load_list_entries: albums, then rips that are not identified.
LoadListEntries(lib) ==
  LET albums == Ids(lib.albums)
      rips == SelectSeq(Ids(lib.rips), LAMBDA f : lib.rips[f].state # "Identified")
  IN  [i \in DOMAIN albums |-> ListRow(lib, albums[i])]
        \o [i \in DOMAIN rips |-> UnidentifiedRow(lib, rips[i])]

\* entry_key
EntryKey(entry) == <<entry.kind, entry.id>>
Keys(entries) == {EntryKey(entries[i]) : i \in DOMAIN entries}

\* list_missing_redumper, by rip id.
ListMissingRedumper(lib) == {f \in DOMAIN lib.rips : lib.rips[f].ripper # "redumper"}

-----------------------------------------------------------------------------
(* Filters: [artist, year, country, label, unidentified, otherRipper].      *)

\* YearSpec::parse, of the numbers in the text: one year or a range, else refused.
ParseYear(numbers) ==
  CASE Len(numbers) = 1 -> <<numbers[1], numbers[1]>>
    [] Len(numbers) = 2 /\ numbers[1] <= numbers[2] -> numbers
    [] OTHER -> None

HasText(hay, needle) ==
  LET text == IF hay = None THEN <<>> ELSE hay
  IN  \E i \in 0 .. (Len(text) - Len(needle)) : SubSeq(text, i + 1, i + Len(needle)) = needle

\* matches
Matches(row, f) ==
  /\ f.artist # None => HasText(row.artist, f.artist)
  /\ f.year # None => row.year # None /\ row.year \in f.year[1] .. f.year[2]
  /\ f.country # None => row.country = f.country
  /\ f.label # None => HasText(row.label, f.label)
  /\ f.otherRipper => row.otherRipper

\* What a filter says that no unidentified rip can meet.
OfAlbums(f) == {f.artist, f.year, f.country, f.label} # {None}

Passes(entry, f) ==
  IF entry.kind = "album" THEN Matches(entry, f)
  ELSE f.unidentified /\ ~OfAlbums(f) /\ (f.otherRipper => OtherRipper(entry))

\* filter_entries
FilterEntries(entries, f) == SelectSeq(entries, LAMBDA e : Passes(e, f))

-----------------------------------------------------------------------------
(* The order of rows.                                                       *)

\* cmp_ci
TextBefore(a, b) ==
  \E n \in 0 .. Len(a) :
    /\ n < Len(b) /\ SubSeq(a, 1, n) = SubSeq(b, 1, n)
    /\ n = Len(a) \/ a[n + 1] < b[n + 1]

\* cmp_opt, cmp_opt_ci: what is missing comes last.
Before(key, a, b) ==
  /\ a # None
  /\ b # None => IF key \in {"year", "discs", "releases"} THEN a < b ELSE TextBefore(a, b)

\* compare_albums
AlbumBefore(key, x, y) ==
  \/ Before(key, x[key], y[key])
  \/ ~Before(key, y[key], x[key]) /\ TextBefore(x.title, y.title)

\* unidentified_display: a row without a path is named by its id.
Name(row) == IF row.path = None THEN <<126, row.id>> ELSE row.path

EntryBefore(key, x, y) ==
  CASE x.kind # y.kind -> x.kind = "album"
    [] x.kind = "album" /\ y.kind = "album" -> AlbumBefore(key, x, y)
    [] OTHER -> TextBefore(Name(x), Name(y))

\* sort_entries: rows that are equal stay as they were, all of them the other way
\* round when the order is descending.
SortEntries(entries, key, dir) ==
  LET before(i, j) ==
        \/ EntryBefore(key, entries[i], entries[j])
        \/ ~EntryBefore(key, entries[j], entries[i]) /\ i < j
      order == SetToSortSeq(DOMAIN entries, before)
      ascending == [n \in DOMAIN order |-> entries[order[n]]]
  IN  IF dir = "Asc" THEN ascending ELSE Reverse(ascending)
=============================================================================
