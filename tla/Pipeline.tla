-------------------------------- MODULE Pipeline --------------------------------
(***************************************************************************)
(* One identification attempt: the staged providers, each asked in a       *)
(* thread of its own, the choice of the candidate (identify_staged in      *)
(* phono-junk-identify/src/pipeline.rs), and the storing of evidence and   *)
(* projection (identify_disc in phono-junk-lib/src/identify.rs).           *)
(*                                                                         *)
(* Of a provider the model keeps what it may reply; the request, its       *)
(* parsing and the look-up of artwork, which adds nothing but pictures,    *)
(* are left out. The rip's row is in RipLifecycle, the tables that the     *)
(* transaction writes in Catalog.                                          *)
(***************************************************************************)
EXTENDS Scoring

CONSTANTS
  Running,     \* the result of a thread that has none yet
  Open,        \* the resolution of an attempt that has none yet
  Candidates,  \* what providers may come up with
  Givens,      \* barcodes that a disc may come with (None, or its sidecar's)
  MaxHits      \* bound: candidates in a reply

\* A provider describes a candidate alike in each of its replies.
ASSUME KeysUnique ==
  \A c, o \in Candidates : c.provider = o.provider /\ c.key = o.key => c = o
ASSUME MaxHitsAssumption == MaxHits \in Nat \ {0}

\* Candidates are what Scoring says, and None, Open and Running none of them.
ASSUME CandidatesAssumption ==
  /\ Toc \in Seq(Nat)
  /\ \A c \in Candidates : /\ c.provider \in DOMAIN ProviderPriority
                           /\ c.key \in Nat /\ c.extra \in Nat /\ c.exact \in BOOLEAN
  /\ Open # None /\ "toc" # None /\ {None, Open} \cap Candidates = {}
  /\ {None, Open} \cap [ranked : Seq(Candidates), ambiguous : BOOLEAN] = {}
  /\ Running \notin [ok : BOOLEAN, hits : Seq(Candidates)]

VARIABLES
  pc,            \* the place of the attempt
  stage,         \* 1..4, and 5 when all have passed
  ids,           \* the identifiers known
  tasks,         \* the questions of the stage whose results are not merged yet
  results,       \* of their threads, Running until they end
  candidates,
  observations,  \* one per question, in the order of the questions
  resolution,    \* Open, None or the chosen candidate with the ranked others
  rows,          \* what is in the database
  said           \* history: what was asked and what the thread that asked came back with

vars == <<pc, stage, ids, tasks, results, candidates, observations, resolution, rows, said>>

Kinds == {"disc", "barcode", "catalog"}
ElementsOf(s) == {s[i] : i \in DOMAIN s}

\* The registered providers by tier, with the identifiers they can be asked for.
Slots ==
  <<[provider |-> "musicbrainz",   tier |-> 1, kind |-> "disc"],
    [provider |-> "discogs",       tier |-> 2, kind |-> "barcode"],
    [provider |-> "discogs",       tier |-> 2, kind |-> "catalog"],
    [provider |-> "tower",         tier |-> 3, kind |-> "barcode"],
    [provider |-> "tower",         tier |-> 3, kind |-> "catalog"],
    [provider |-> "barcodelookup", tier |-> 4, kind |-> "barcode"]>>

Init ==
  /\ pc = "stage" /\ stage = 1
  /\ \E given \in Givens : ids = [disc |-> "toc", barcode |-> given, catalog |-> None]
  /\ tasks = <<>> /\ results = <<>>
  /\ candidates = {} /\ observations = <<>>
  /\ resolution = Open
  /\ rows = [observations |-> <<>>, candidates |-> <<>>, projection |-> None,
             disagreements |-> {}, ambiguity |-> None, status |-> "working", confidence |-> None]
  /\ said = {}

-----------------------------------------------------------------------------
(* The providers.                                                          *)

\* Tower follows the first hit of its search only.
MostHits(p) == IF p = "tower" THEN 1 ELSE MaxHits

\* An empty identifier is not sent to anyone: no match.
HitLists(q) ==
  LET known == {c \in Candidates : c.provider = q.provider}
      lists == UNION {[1..n -> known] : n \in 0..MostHits(q.provider)}
  IN  IF q.value = "" THEN {<<>>}
      ELSE {s \in lists : \A i, j \in DOMAIN s : i # j => s[i] # s[j]}

\* No match is a success; errors and panics are alike.
Failure == [ok |-> FALSE, hits |-> <<>>]
Replies(q) == {[ok |-> TRUE, hits |-> s] : s \in HitLists(q)} \cup {Failure}

-----------------------------------------------------------------------------
(* The stages.                                                             *)

\* Mutant: the music fallback is asked only when there is nothing yet.
SkippedIfAny(s) == s \in {3, 4} /\ candidates # {}

Skipped(s) ==
  \/ s = 3 /\ candidates # {} /\ ~Resolution(candidates).ambiguous
  \/ s = 4 /\ candidates # {}

\* What the i-th slot asks in stage s.
SlotAsks(i, s) ==
  [provider |-> Slots[i].provider, tier |-> s, kind |-> Slots[i].kind, value |-> ids[Slots[i].kind]]

\* Slots in the order of the registrations.
Ascending(S) == [k \in 1..Cardinality(S) |-> CHOOSE i \in S : Cardinality({j \in S : j < i}) = k - 1]
AskInOrder(S, s) == LET slots == Ascending(S) IN [k \in DOMAIN slots |-> SlotAsks(slots[k], s)]

\* Mutant: a stage includes the providers of the tiers before it, again.
QuestionsUpTo(s) ==
  AskInOrder({i \in DOMAIN Slots : Slots[i].tier <= s /\ ids[Slots[i].kind] # None}, s)

\* Questions whose identifier is known, and that nobody was asked.
Questions(s) ==
  AskInOrder({i \in DOMAIN Slots :
                /\ Slots[i].tier = s /\ ids[Slots[i].kind] # None
                /\ \A n \in DOMAIN observations : observations[n].question # SlotAsks(i, s)}, s)

SkipStage ==
  /\ pc = "stage" /\ stage <= 4
  /\ Skipped(stage)
  /\ stage' = stage + 1
  /\ UNCHANGED <<pc, ids, tasks, results, candidates, observations, resolution, rows, said>>

BeginStage ==
  /\ pc = "stage" /\ stage <= 4
  /\ ~Skipped(stage)
  /\ tasks' = Questions(stage)
  /\ results' = [i \in DOMAIN tasks' |-> Running]
  /\ pc' = "asking"
  /\ UNCHANGED <<stage, ids, candidates, observations, resolution, rows, said>>

\* A provider's thread ends, by itself or because it panicked.
ThreadEnds(i) ==
  /\ pc = "asking"
  /\ i \in DOMAIN tasks /\ results[i] = Running
  /\ \E r \in Replies(tasks[i]) :
       /\ results' = [results EXCEPT ![i] = r]
       /\ said' = said \cup {[question |-> tasks[i], ok |-> r.ok, hits |-> r.hits]}
  /\ UNCHANGED <<pc, stage, ids, tasks, candidates, observations, resolution, rows>>

\* Mutant: a thread that failed is waited for.
JoinSuccesses ==
  /\ pc = "asking"
  /\ \A i \in DOMAIN results : results[i] # Running /\ results[i].ok
  /\ pc' = "merging"
  /\ UNCHANGED <<stage, ids, tasks, results, candidates, observations, resolution, rows, said>>

\* The scope ends when every thread has.
JoinThreads ==
  /\ pc = "asking"
  /\ \A i \in DOMAIN results : results[i] # Running
  /\ pc' = "merging"
  /\ UNCHANGED <<stage, ids, tasks, results, candidates, observations, resolution, rows, said>>

\* Mutants: a reply replaces what is known; results are taken in reverse.
LearnAnyway(hits, k) ==
  IF \E i \in DOMAIN hits : k # "disc" /\ hits[i][k] # None
    THEN hits[CHOOSE i \in DOMAIN hits : hits[i][k] # None][k] ELSE ids[k]
ResultOfLast == results[Len(results)]

\* An identifier that is not known yet is the first that a hit has.
Learned(hits, k) ==
  LET having == {i \in DOMAIN hits : hits[i][k] # None}
  IN  IF k = "disc" \/ ids[k] # None THEN ids[k]
      ELSE IF having = {} THEN None
      ELSE hits[CHOOSE i \in having : \A j \in having : i <= j][k]

\* The result of the first task that is left.
ResultOfNext == results[1]

MergeResult ==
  /\ pc = "merging" /\ tasks # <<>>
  /\ LET r == ResultOfNext IN
       /\ ids' = [k \in Kinds |-> Learned(r.hits, k)]
       /\ candidates' = candidates \cup ElementsOf(r.hits)
       /\ observations' =
            Append(observations, [question |-> Head(tasks), ok |-> r.ok, hits |-> r.hits])
  /\ tasks' = Tail(tasks) /\ results' = Tail(results)
  /\ UNCHANGED <<pc, stage, resolution, rows, said>>

EndStage ==
  /\ pc = "merging" /\ tasks = <<>>
  /\ stage' = stage + 1
  /\ pc' = "stage"
  /\ UNCHANGED <<ids, tasks, results, candidates, observations, resolution, rows, said>>

Resolve ==
  /\ pc = "stage" /\ stage = 5
  /\ resolution' =
       IF candidates = {} THEN None ELSE Resolution(candidates)
  /\ pc' = "observations"
  /\ UNCHANGED <<stage, ids, tasks, results, candidates, observations, rows, said>>

-----------------------------------------------------------------------------
(* Storing what was found: rows of evidence one statement at a time, then  *)
(* the projection in a transaction.                                        *)

StoreObservation ==
  /\ pc = "observations"
  /\ Len(rows.observations) < Len(observations)
  /\ rows' = [rows EXCEPT !.observations = Append(@, observations[Len(@) + 1])]
  /\ UNCHANGED <<pc, stage, ids, tasks, results, candidates, observations, resolution, said>>

Unidentified ==
  /\ pc = "observations" /\ rows.observations = observations
  /\ resolution = None
  /\ rows' = [rows EXCEPT !.status = "unidentified"]
  /\ pc' = "done"
  /\ UNCHANGED <<stage, ids, tasks, results, candidates, observations, resolution, said>>

StoreCandidate ==
  /\ pc = "observations" /\ rows.observations = observations
  /\ resolution # None
  /\ Len(rows.candidates) < Len(resolution.ranked)
  /\ rows' = [rows EXCEPT !.candidates = Append(@, resolution.ranked[Len(@) + 1])]
  /\ UNCHANGED <<pc, stage, ids, tasks, results, candidates, observations, resolution, said>>

\* Mutant: the catalog is updated as soon as the candidate is chosen.
ProjectAtOnce == pc = "observations" /\ resolution # None

\* All evidence is in.
EvidenceStored ==
  /\ pc = "observations" /\ rows.observations = observations
  /\ resolution # None
  /\ Len(rows.candidates) = Len(resolution.ranked)

\* Only the winner is projected; disagreements are between all candidates, and
\* an ambiguous choice is one of its own, with the keys that were not chosen.
Project ==
  /\ EvidenceStored
  /\ rows' = [rows EXCEPT
                !.projection = resolution.ranked[1],
                !.disagreements = Disagreements(resolution.ranked),
                !.ambiguity = IF resolution.ambiguous
                                THEN [i \in DOMAIN Tail(resolution.ranked) |->
                                       resolution.ranked[i + 1].key]
                                ELSE None,
                !.status = "resolved",
                !.confidence = IF resolution.ambiguous THEN "low" ELSE "high"]
  /\ pc' = "done"
  /\ UNCHANGED <<stage, ids, tasks, results, candidates, observations, resolution, said>>

\* A statement fails, or the transaction, which is rolled back.
StoreFails ==
  /\ pc = "observations"
  /\ pc' = "failed"
  /\ UNCHANGED <<stage, ids, tasks, results, candidates, observations, resolution, rows, said>>

-----------------------------------------------------------------------------
Attempt == \/ SkipStage \/ BeginStage \/ JoinThreads \/ MergeResult \/ EndStage \/ Resolve
           \/ StoreObservation \/ Unidentified \/ StoreCandidate \/ Project \/ StoreFails

SomeThreadEnds == \E i \in 1..Len(Slots) : ThreadEnds(i)

Next == Attempt \/ SomeThreadEnds

Spec == Init /\ [][Next]_vars

\* The attempt's thread is scheduled, and so are the providers'; a request
\* times out. A thread ends once, so this is fair to each of them.
FairSpec == Spec /\ WF_vars(Attempt) /\ WF_vars(SomeThreadEnds)

-----------------------------------------------------------------------------
(* Correctness.                                                            *)

Found == UNION {ElementsOf(t.hits) : t \in said}
IsCandidateSeq(s) == ElementsOf(s) \subseteq Candidates

TypeOK ==
  /\ pc \in {"stage", "asking", "merging", "observations", "done", "failed"}
  /\ stage \in 1..5
  /\ DOMAIN ids = Kinds
  /\ Len(results) = Len(tasks) /\ Len(tasks) <= Len(Slots)
  /\ candidates \subseteq Candidates
  /\ Len(observations) <= Len(Slots)
  /\ resolution \in {Open, None} \/ IsCandidateSeq(resolution.ranked)
  /\ IsCandidateSeq(rows.candidates)
  /\ rows.status \in {"working", "unidentified", "resolved"}

\* Whatever the order in which threads end and whichever fail, what each came
\* back with is recorded under its own question, and every candidate that any
\* provider named takes part in the choice (pipeline.rs joins by position).
NothingLost ==
  pc \notin {"asking", "merging"} =>
    /\ ElementsOf(observations) = said
    /\ candidates = Found
    /\ resolution \notin {Open, None} => ElementsOf(resolution.ranked) = Found

\* What was named before stage s, and whether an identifier was known then.
NamedBefore(s) == UNION {ElementsOf(t.hits) : t \in {u \in said : u.question.tier < s}}
AskedAbout(p, k) == \E t \in said : t.question.provider = p /\ t.question.kind = k
KnownBefore(s, k) ==
  \/ \E c \in NamedBefore(s) : c[k] # None
  \/ ids[k] # None /\ \A c \in Found : c[k] # ids[k]

\* The fallbacks are asked about every identifier known when their turn comes,
\* and only then: Tower while there is nothing or the best two are tied, the
\* generic look-up while there is nothing ("contributes only when the
\* music-specific databases return nothing", context.rs:44-45).
FallbacksWhenNeeded ==
  stage = 5 =>
    LET wanted3 == NamedBefore(3) = {} \/ Resolution(NamedBefore(3)).ambiguous
        wanted4 == NamedBefore(4) = {}
    IN  /\ \A k \in {"barcode", "catalog"} :
             /\ AskedAbout("tower", k) => wanted3
             /\ wanted3 /\ KnownBefore(3, k) => AskedAbout("tower", k)
        /\ AskedAbout("barcodelookup", "barcode") => wanted4
        /\ wanted4 /\ KnownBefore(4, "barcode") => AskedAbout("barcodelookup", "barcode")

\* The confidence is low exactly if some other candidate has all the evidence
\* that the projected one has, and none has more: comparing with the runner-up
\* (pipeline.rs:207-209) is enough.
LowIffTied ==
  rows.projection # None =>
    LET others == Found \ {rows.projection} IN
    /\ \A o \in others : ~Exceeds(Evidence(Found, o), Evidence(Found, rows.projection))
    /\ rows.confidence = "low" <=>
         \E o \in others : Evidence(Found, o) = Evidence(Found, rows.projection)

\* "Every returned candidate and raw observation is stored before
\* deterministic scoring updates the catalog projection" (ARCHITECTURE.md:66-67),
\* whichever statement fails.
StoredBeforeProjected ==
  rows.projection # None =>
    /\ ElementsOf(rows.observations) = said
    /\ ElementsOf(rows.candidates) = Found

\* What the providers said reaches the choice and the tables, all of it, before the
\* choice shows.
EvidenceKept == TypeOK /\ NothingLost /\ StoredBeforeProjected

\* "Disagreements between providers are recorded, not silently resolved"
\* (README.md:11): a candidate of the same release with another value than the
\* projected one has that value in a disagreement on the field.
DifferencesRecorded ==
  rows.projection # None =>
    \A c \in Found, f \in Fields :
      /\ c[f] # None /\ rows.projection[f] # None /\ c[f] # rows.projection[f]
      /\ c.mbid \in {None, rows.projection.mbid}
      => \E d \in rows.disagreements : d.field = f /\ c[f] \in {d.valueA, d.valueB}

Identifiers ==
  {"toc"} \cup Givens \cup {c.barcode : c \in Candidates} \cup {c.catalog : c \in Candidates}

\* The frontier that an attempt implements.
Bounded == INSTANCE Frontier WITH
  Kind     <- Kinds,
  Question <- {[provider |-> Slots[i].provider, tier |-> Slots[i].tier, kind |-> Slots[i].kind,
                value |-> v] : i \in DOMAIN Slots, v \in Identifiers},
  Reply    <- {ElementsOf(s) : s \in UNION {[1..n -> Candidates] : n \in 0..MaxHits}},
  known    <- ids,
  replies  <- {[question |-> t.question, hits |-> ElementsOf(t.hits)] : t \in said},
  choice   <- IF resolution \in {Open, None} THEN resolution ELSE resolution.ranked[1]

\* The threads do not show: an attempt is one of the frontier, which asks one
\* question after another, each once.
ImplementsFrontier == Bounded!Spec

\* Every attempt ends (a provider that does not answer times out).
AttemptEnds == <>(pc \in {"done", "failed"})

-----------------------------------------------------------------------------
(* Statements of comments and documents that the code does not keep.       *)

\* "Empty-string barcode is treated as absent" (barcodelookup/src/lib.rs:374):
\* an empty barcode does not take the place of one that a candidate of the
\* first tier has.
EmptyIsAbsent ==
  stage = 5 /\ (\E c \in NamedBefore(2) : c.barcode \notin {None, ""}) => ids.barcode # ""

\* "Tower contributes only when they return nothing" (context.rs:103).
TowerOnlyWhenNothing ==
  stage = 5 /\ (\E k \in Kinds : AskedAbout("tower", k)) => NamedBefore(3) = {}

\* "corroboration from another music-specific provider ranks ahead of Tower's
\* provider-priority tie-breaker" (tower-records-mdb.md:206-207): what counts
\* as corroboration comes from another provider.
CorroborationIsIndependent ==
  resolution \notin {Open, None} =>
    \A c \in candidates : \A o \in Peers(candidates, c) :
      ExactRelease(c, o) \/ BarcodeCatalog(c, o) =>
        \E p \in Peers(candidates, c) :
          p.provider # c.provider /\ (ExactRelease(c, p) \/ BarcodeCatalog(c, p))
=============================================================================
