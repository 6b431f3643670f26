-------------------------------- MODULE Scoring --------------------------------
(***************************************************************************)
(* How the candidates of one attempt are ranked (score_and_resolve in      *)
(* phono-junk-identify/src/pipeline.rs), and how their fields are merged   *)
(* (consensus.rs).                                                         *)
(*                                                                         *)
(* A candidate is a record: its provider and candidate_key (a number, in   *)
(* the order of the strings), whether it is associated with the disc, the  *)
(* lengths of its tracks in frames, how many of the five unnamed fields    *)
(* that count for completeness it has (extra), and its named fields, each  *)
(* None or a string: the MusicBrainz id, barcode, catalog, label, title.   *)
(***************************************************************************)
EXTENDS Naturals, Sequences, FiniteSets

CONSTANTS
  None,
  Toc     \* the lengths of the disc's tracks in frames

-----------------------------------------------------------------------------
(* The evidence for a candidate c among the candidates C.                  *)

SameNonempty(a, b) == a \notin {None, ""} /\ a = b

Peers(C, c) == {o \in C : o.key # c.key}

ExactRelease(c, o) == c.mbid # None /\ o.mbid = c.mbid
BarcodeCatalog(c, o) ==
  /\ SameNonempty(c.barcode, o.barcode)
  /\ SameNonempty(c.catalog, o.catalog) \/ SameNonempty(c.label, o.label)

\* What the code formats as a string; a missing catalog number is as an empty one.
ReleaseIdentity(c) ==
  CASE c.mbid # None -> <<"mb", c.mbid>>
    [] c.mbid = None /\ c.barcode # None ->
         <<"barcode", c.barcode, IF c.catalog = None THEN "" ELSE c.catalog>>
    [] OTHER -> <<"key", c.key>>

Supporters(C, c) == {o.provider : o \in {p \in C : ReleaseIdentity(p) = ReleaseIdentity(c)}}

Apart(m, n) == IF m < n THEN n - m ELSE m - n

TrackAgreement(c) ==
  LET near == {i \in DOMAIN c.tracks \cap DOMAIN Toc :
                 c.tracks[i] # None /\ Apart(c.tracks[i], Toc[i]) <= 2}
  IN  (IF Len(c.tracks) = Len(Toc) THEN 10000 ELSE 0) + Cardinality(near)

Completeness(c) ==
  c.extra + Cardinality({f \in {"label", "catalog", "barcode"} : c[f] # None})

AsU8(b) == IF b THEN 1 ELSE 0

ProviderPriority == [musicbrainz |-> 4, discogs |-> 3, tower |-> 2, barcodelookup |-> 1]

Evidence(C, c) ==
  <<AsU8(c.exact),
    AsU8(\E o \in Peers(C, c) : ExactRelease(c, o)),
    AsU8(\E o \in Peers(C, c) : BarcodeCatalog(c, o)),
    Cardinality(Supporters(C, c)),
    TrackAgreement(c),
    Completeness(c)>>

\* Mutant: the provider counts before the evidence.
PriorityFirst(C, c) == <<ProviderPriority[c.provider]>> \o Evidence(C, c)

Rank(C, c) == Append(Evidence(C, c), ProviderPriority[c.provider])

\* Tuples compare by their first difference.
Exceeds(s, t) == \E i \in DOMAIN s : s[i] > t[i] /\ \A j \in 1..(i - 1) : s[j] = t[j]

\* The candidates with their scores; the rank decides, and then the key.
Scored(C) == {[candidate |-> c, evidence |-> Evidence(C, c), rank |-> Rank(C, c)] : c \in C}
Outranks(s, t) ==
  Exceeds(s.rank, t.rank) \/ (s.rank = t.rank /\ s.candidate.key < t.candidate.key)

\* Sorted: the i-th is outranked by i - 1 others.
Sorted(scored) ==
  [i \in 1..Cardinality(scored) |->
    CHOOSE s \in scored : Cardinality({t \in scored : Outranks(t, s)}) = i - 1]

\* The chosen candidate first. Ambiguous are results whose best two have the
\* same evidence; the others are not looked at.
Resolution(C) ==
  LET sorted == Sorted(Scored(C))
  IN  [ranked |-> [i \in DOMAIN sorted |-> sorted[i].candidate],
       ambiguous |-> Len(sorted) > 1 /\ sorted[1].evidence = sorted[2].evidence]

-----------------------------------------------------------------------------
(* The consensus over a sequence of results, field by field, among the     *)
(* results at some of its places.                                          *)

Fields == {"mbid", "barcode", "catalog", "label", "title"}

Providing(results, among, f) == {i \in among : results[i][f] # None}

Votes(results, among, f) ==
  [i \in Providing(results, among, f) |->
    Cardinality({j \in Providing(results, among, f) : results[j][f] = results[i][f]})]

\* The first result that has the value most results have.
Winner(results, among, f) ==
  LET votes == Votes(results, among, f)
  IN  CHOOSE i \in DOMAIN votes :
        \A j \in DOMAIN votes : votes[j] < votes[i] \/ (votes[j] = votes[i] /\ i <= j)

\* The id is chosen among all results.
PickMbid(results) ==
  IF Providing(results, DOMAIN results, "mbid") = {} THEN None
  ELSE results[Winner(results, DOMAIN results, "mbid")].mbid

\* Mutant: results without an id are left out with those of another id.
CohortOfNamed(results) == {i \in DOMAIN results : results[i].mbid = PickMbid(results)}

\* Results that name another release than the winner are left out.
Cohort(results) ==
  LET mbid == PickMbid(results)
  IN  {i \in DOMAIN results : mbid = None \/ results[i].mbid \in {None, mbid}}

\* A row for each result that differs from the winner.
FieldDisagreements(results, among, f) ==
  LET a == results[Winner(results, among, f)]
  IN  {[field |-> f, sourceA |-> a.provider, valueA |-> a[f],
        sourceB |-> results[i].provider, valueB |-> results[i][f]] :
         i \in {j \in Providing(results, among, f) : results[j][f] # a[f]}}

Disagreements(results) ==
  UNION {FieldDisagreements(results, IF f = "mbid" THEN DOMAIN results ELSE Cohort(results), f) :
           f \in Fields}
=============================================================================
