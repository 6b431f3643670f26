---------------------------- MODULE Pipeline_proofs ----------------------------
(***************************************************************************)
(* Proofs about Pipeline: whatever the providers reply, in whatever order  *)
(* their threads end and whichever fail, all that was said is kept, takes  *)
(* part in the choice and is stored before the choice shows; fallbacks are *)
(* asked when they are wanted and only then; a low confidence means a tie; *)
(* what differs from the projected values is recorded; and an attempt      *)
(* implements Frontier.                                                    *)
(*                                                                         *)
(* First the order of candidates: their ranks are ordered strictly and     *)
(* totally, so that each has its place and the first is exceeded by none.  *)
(* Then the invariant: Typed, AskedOnce (no slot is asked twice, and a     *)
(* question is of its stage), AllSaid (threads that ended and observations *)
(* are what was said), Decided, RowsAre and RowsFollow (rows are prefixes  *)
(* of what they store); and for the fallbacks Learnt, OnlyWanted and       *)
(* WantedAsked.                                                            *)
(***************************************************************************)
EXTENDS Pipeline, WellFoundedInduction, FiniteSetTheorems, SequenceTheorems, TLAPS

-----------------------------------------------------------------------------
(* Placing the elements of a finite set.                                   *)

\* R orders S strictly and totally, and place[x] elements come before x.
Orders(R, S) ==
  /\ \A x \in S : <<x, x>> \notin R
  /\ \A x, y, z \in S : <<x, y>> \in R /\ <<y, z>> \in R => <<x, z>> \in R
  /\ \A x, y \in S : x = y \/ <<x, y>> \in R \/ <<y, x>> \in R
Counts(R, S, before, place) ==
  /\ before \in [S -> SUBSET S] /\ \A x, y \in S : y \in before[x] <=> <<y, x>> \in R
  /\ place \in [S -> Nat] /\ \A x \in S : place[x] = Cardinality(before[x])

\* As many elements come before the n-th as there are numbers below n.
LEMMA PlacesAreAll ==
  ASSUME NEW S, IsFiniteSet(S), NEW R, Orders(R, S),
         NEW before, NEW place, Counts(R, S, before, place)
  PROVE  /\ Cardinality(S) \in Nat
         /\ \A x \in S : place[x] \in 0..(Cardinality(S) - 1)
         /\ \A x, y \in S : <<x, y>> \in R => place[x] < place[y]
         /\ place \in Surjection(S, 0..(Cardinality(S) - 1))
<1> USE DEF Orders, Counts
<1> DEFINE N == Cardinality(S)
<1>0. N \in Nat
  BY FS_CardinalityType
<1>1. ASSUME NEW x \in S
      PROVE  /\ place[x] = Cardinality(before[x]) /\ IsFiniteSet(before[x]) /\ place[x] \in Nat
             /\ before[x] \subseteq S /\ x \notin before[x]
  <2>1. before[x] \subseteq S /\ x \notin before[x]
    OBVIOUS
  <2>2. QED
    BY <2>1, FS_Subset
<1>2. ASSUME NEW x \in S PROVE place[x] \in 0..(N - 1)
  <2> HIDE DEF N
  <2>1. before[x] # S
    BY <1>1
  <2>2. Cardinality(before[x]) <= N /\ Cardinality(before[x]) # N
    BY <1>1, <2>1, FS_Subset DEF N
  <2>3. QED
    BY <1>0, <1>1, <2>2
<1>3. ASSUME NEW x \in S, NEW y \in S, <<x, y>> \in R PROVE place[x] < place[y]
  <2>1. before[x] \subseteq before[y] /\ x \in before[y]
    BY <1>3
  <2>2. Cardinality(before[x]) <= Cardinality(before[y]) /\ Cardinality(before[x]) # Cardinality(before[y])
    BY <1>1, <2>1, FS_Subset
  <2>3. QED
    BY <1>1, <2>2
<1>4. place \in Injection(S, 0..(N - 1))
  <2>1. ASSUME NEW x \in S, NEW y \in S, place[x] = place[y] PROVE x = y
    <3>1. ~(place[x] < place[y]) /\ ~(place[y] < place[x])
      <4>1. place[x] \in Nat /\ place[y] \in Nat
        BY <1>1
      <4>2. QED
        BY <2>1, <4>1
    <3>2. QED
      BY <1>3, <3>1
  <2>2. place \in [S -> 0..(N - 1)] /\ DOMAIN place = S
    BY <1>2
  <2>3. QED
    BY <2>1, <2>2 DEF Injection, IsInjective
<1>5. IsFiniteSet(0..(N - 1)) /\ Cardinality(0..(N - 1)) = N
  <2> HIDE DEF N
  <2>1. N - 1 \in Int /\ (IF 0 > N - 1 THEN 0 ELSE (N - 1) - 0 + 1) = N
    BY <1>0
  <2>2. QED
    BY <2>1, FS_Interval
<1>6. place \in Surjection(S, 0..(N - 1))
  BY <1>4, <1>5, FS_Injection
<1>7. QED
  BY <1>0, <1>2, <1>3, <1>6

\* The numbers of a finite set, each once and in order.
LEMMA AscendingOf ==
  ASSUME NEW S, S \subseteq Nat, IsFiniteSet(S)
  PROVE  /\ Cardinality(S) \in Nat
         /\ Ascending(S) = [k \in 1..Cardinality(S) |-> Ascending(S)[k]]
         /\ \A k \in 1..Cardinality(S) : Ascending(S)[k] \in S
         /\ \A k, l \in 1..Cardinality(S) : k < l => Ascending(S)[k] < Ascending(S)[l]
         /\ \A x \in S : \E k \in 1..Cardinality(S) : Ascending(S)[k] = x
<1> DEFINE n == Cardinality(S)
           a == Ascending(S)
<1>1. PICK R, before, place :
        /\ \A x, y \in S : <<x, y>> \in R <=> x < y
        /\ Orders(R, S) /\ Counts(R, S, before, place)
        /\ \A x \in S : place[x] = Cardinality({y \in S : y < x})
  <2> DEFINE r == {p \in S \X S : p[1] < p[2]}
             b == [x \in S |-> {y \in S : y < x}]
             p == [x \in S |-> Cardinality(b[x])]
  <2>1. \A x, y \in S : <<x, y>> \in r <=> x < y
    OBVIOUS
  <2>2. \A x \in S : p[x] = Cardinality({y \in S : y < x})
    OBVIOUS
  <2> HIDE DEF r
  <2>3. Orders(r, S)
    BY <2>1 DEF Orders
  <2>4. b \in [S -> SUBSET S] /\ \A x, y \in S : y \in b[x] <=> <<y, x>> \in r
    BY <2>1
  <2> HIDE DEF b
  <2>5. p \in [S -> Nat] /\ \A x \in S : p[x] = Cardinality(b[x])
    BY <2>4, FS_Subset, FS_CardinalityType
  <2> HIDE DEF p
  <2>6. Counts(r, S, b, p)
    BY <2>4, <2>5 DEF Counts
  <2>7. QED
    BY <2>1, <2>2, <2>3, <2>6
<1>2. /\ n \in Nat
      /\ \A x \in S : place[x] \in 0..(n - 1)
      /\ \A x, y \in S : <<x, y>> \in R => place[x] < place[y]
      /\ \A m \in 0..(n - 1) : \E x \in S : place[x] = m
  <2>1. /\ Cardinality(S) \in Nat
        /\ \A x \in S : place[x] \in 0..(Cardinality(S) - 1)
        /\ \A x, y \in S : <<x, y>> \in R => place[x] < place[y]
    BY <1>1, PlacesAreAll
  <2>2. place \in Surjection(S, 0..(Cardinality(S) - 1))
    BY <1>1, PlacesAreAll
  <2>3. QED
    BY <2>1, <2>2 DEF Surjection
<1>3. \A x \in S : Cardinality({y \in S : y < x}) = place[x]
  BY <1>1
<1>4. ASSUME NEW k \in 1..n PROVE a[k] \in S /\ place[a[k]] = k - 1
  <2>1. a[k] = CHOOSE i \in S : Cardinality({j \in S : j < i}) = k - 1
    BY DEF Ascending
  <2>2. k - 1 \in 0..(n - 1)
    BY <1>2
  <2>3. \E i \in S : Cardinality({j \in S : j < i}) = k - 1
    BY <1>2, <1>3, <2>2
  <2> HIDE DEF a
  <2>4. a[k] \in S /\ Cardinality({j \in S : j < a[k]}) = k - 1
    BY <2>1, <2>3
  <2>5. QED
    BY <1>3, <2>4
<1>5. a = [k \in 1..n |-> a[k]]
  <2> DEFINE Nth(k) == CHOOSE i \in S : Cardinality({j \in S : j < i}) = k - 1
  <2>1. a = [k \in 1..n |-> Nth(k)]
    BY DEF Ascending
  <2> HIDE DEF a, n, Nth
  <2>2. QED
    BY <2>1
<1> HIDE DEF a, n
<1>6. ASSUME NEW k \in 1..n, NEW l \in 1..n, k < l PROVE a[k] < a[l]
  <2>1. ~(place[a[l]] <= place[a[k]])
    BY <1>2, <1>4, <1>6
  <2>2. a[k] \in S /\ a[l] \in S /\ place[a[k]] \in Nat /\ place[a[l]] \in Nat
    BY <1>2, <1>4
  <2>3. <<a[l], a[k]>> \notin R /\ a[k] # a[l]
    <3>1. place[a[k]] < place[a[l]]
      BY <2>1, <2>2
    <3>2. ~(place[a[l]] < place[a[k]]) /\ place[a[k]] # place[a[l]]
      BY <2>2, <3>1
    <3>3. QED
      BY <1>2, <2>2, <3>2
  <2>4. QED
    BY <1>1, <2>2, <2>3 DEF Orders
<1>7. ASSUME NEW x \in S PROVE \E k \in 1..n : a[k] = x
  <2> DEFINE k == place[x] + 1
  <2>1. k \in 1..n
    BY <1>2
  <2>2. a[k] \in S /\ place[a[k]] = place[x]
    BY <1>2, <1>4, <2>1
  <2>3. a[k] = x
    <3>1. ~(place[a[k]] < place[x]) /\ ~(place[x] < place[a[k]])
      BY <1>2, <2>2
    <3>2. <<a[k], x>> \notin R /\ <<x, a[k]>> \notin R
      BY <1>2, <2>2, <3>1
    <3>3. QED
      BY <1>1, <2>2, <3>2 DEF Orders
  <2>4. QED
    BY <2>1, <2>3
<1>8. QED
  BY <1>2, <1>4, <1>5, <1>6, <1>7 DEF a, n

-----------------------------------------------------------------------------
(* Tuples of numbers, by their first difference.                           *)

Tuples(n) == [1..n -> Nat]

LEMMA Smallest ==
  ASSUME NEW T, T \subseteq Nat, T # {}
  PROVE  \E x \in T : \A y \in T : x <= y
<1>1. PICK x \in T : \A y \in T : <<y, x>> \notin OpToRel(<, Nat)
  BY NatLessThanWellFounded, WFMin
<1>2. \A y \in T : <<y, x>> \in Nat \X Nat
  OBVIOUS
<1>3. \A y \in T : ~(y < x)
  BY <1>1, <1>2 DEF OpToRel
<1>4. QED
  BY <1>3

\* Tuples of one length are ordered strictly and totally by their first difference.
LEMMA ExceedsOrders ==
  ASSUME NEW n \in Nat
  PROVE  /\ \A s \in Tuples(n) : ~Exceeds(s, s)
         /\ \A s, t, u \in Tuples(n) : Exceeds(s, t) /\ Exceeds(t, u) => Exceeds(s, u)
         /\ \A s, t \in Tuples(n) : s = t \/ Exceeds(s, t) \/ Exceeds(t, s)
<1>1. ASSUME NEW s \in Tuples(n) PROVE ~Exceeds(s, s)
  BY DEF Tuples, Exceeds
<1>2. ASSUME NEW s \in Tuples(n), NEW t \in Tuples(n), NEW u \in Tuples(n),
             Exceeds(s, t), Exceeds(t, u)
      PROVE  Exceeds(s, u)
  <2>1. PICK i \in 1..n : s[i] > t[i] /\ \A j \in 1..(i - 1) : s[j] = t[j]
    BY <1>2 DEF Tuples, Exceeds
  <2>2. PICK k \in 1..n : t[k] > u[k] /\ \A j \in 1..(k - 1) : t[j] = u[j]
    BY <1>2 DEF Tuples, Exceeds
  <2>3. \A j \in 1..n : s[j] \in Nat /\ t[j] \in Nat /\ u[j] \in Nat
    BY DEF Tuples
  <2>4. DOMAIN s = 1..n
    BY DEF Tuples
  <2> DEFINE m == IF i <= k THEN i ELSE k
  <2>5. m \in 1..n /\ s[m] > u[m] /\ \A j \in 1..(m - 1) : s[j] = u[j]
    <3>1. CASE i < k
      BY <2>1, <2>2, <2>3, <3>1
    <3>2. CASE i = k
      BY <2>1, <2>2, <2>3, <3>2
    <3>3. CASE k < i
      BY <2>1, <2>2, <2>3, <3>3
    <3>4. QED
      BY <3>1, <3>2, <3>3
  <2>6. QED
    BY <2>4, <2>5 DEF Exceeds
<1>3. ASSUME NEW s \in Tuples(n), NEW t \in Tuples(n), s # t PROVE Exceeds(s, t) \/ Exceeds(t, s)
  <2> DEFINE D == {i \in 1..n : s[i] # t[i]}
  <2>1. D # {}
    BY <1>3 DEF Tuples
  <2>2. PICK i \in D : \A j \in D : i <= j
    <3>1. D \subseteq Nat
      OBVIOUS
    <3> HIDE DEF D
    <3>2. QED
      BY <2>1, <3>1, Smallest
  <2>3. \A j \in 1..(i - 1) : s[j] = t[j]
    BY <2>2
  <2>4. s[i] \in Nat /\ t[i] \in Nat /\ DOMAIN s = 1..n /\ DOMAIN t = 1..n
    BY DEF Tuples
  <2>5. s[i] > t[i] \/ t[i] > s[i]
    BY <2>4
  <2>6. QED
    BY <2>3, <2>4, <2>5 DEF Exceeds
<1>4. QED
  BY <1>1, <1>2, <1>3

-----------------------------------------------------------------------------
(* The ranking. Scores are ordered, so every candidate has its place, and  *)
(* what is said of the best two is true of all.                            *)

\* Evidence is six numbers; the rank adds the provider's priority.
LEMMA EvidenceTyped ==
  ASSUME NEW C, C \subseteq Candidates, IsFiniteSet(C), NEW c \in C
  PROVE  /\ Evidence(C, c) \in Tuples(6) /\ Rank(C, c) \in Tuples(7)
         /\ \A i \in 1..6 : Rank(C, c)[i] = Evidence(C, c)[i]
         /\ Rank(C, c)[7] = ProviderPriority[c.provider]
<1>1. Cardinality(Supporters(C, c)) \in Nat
  <2> DEFINE like == {p \in C : ReleaseIdentity(p) = ReleaseIdentity(c)}
             provider == [o \in like |-> o.provider]
  <2>1. like \subseteq C /\ Supporters(C, c) = {o.provider : o \in like}
    BY DEF Supporters
  <2>2. IsFiniteSet(like)
    BY <2>1, FS_Subset
  <2> HIDE DEF like
  <2>3. provider \in Surjection(like, Supporters(C, c))
    BY <2>1 DEF Surjection
  <2>4. QED
    BY <2>2, <2>3, FS_Surjection, FS_CardinalityType
<1>2. TrackAgreement(c) \in Nat
  <2> DEFINE near == {i \in DOMAIN c.tracks \cap DOMAIN Toc :
                        c.tracks[i] # None /\ Apart(c.tracks[i], Toc[i]) <= 2}
  <2>1. near \subseteq 1..Len(Toc) /\ Len(Toc) \in Nat
    BY CandidatesAssumption
  <2>2. IsFiniteSet(1..Len(Toc))
    BY <2>1, FS_Interval
  <2> HIDE DEF near
  <2>3. Cardinality(near) \in Nat
    BY <2>1, <2>2, FS_Subset, FS_CardinalityType
  <2>4. TrackAgreement(c) = (IF Len(c.tracks) = Len(Toc) THEN 10000 ELSE 0) + Cardinality(near)
    BY DEF TrackAgreement, near
  <2>5. QED
    BY <2>3, <2>4
<1>3. Completeness(c) \in Nat
  <2> DEFINE has == {f \in {"label", "catalog", "barcode"} : c[f] # None}
  <2>1. has \subseteq {"label", "catalog", "barcode"}
    OBVIOUS
  <2>2. IsFiniteSet({"label", "catalog", "barcode"})
    <3>1. IsFiniteSet({"label"} \cup {"catalog"})
      BY FS_Singleton, FS_AddElement
    <3>2. IsFiniteSet(({"label"} \cup {"catalog"}) \cup {"barcode"})
      BY <3>1, FS_AddElement
    <3>3. ({"label"} \cup {"catalog"}) \cup {"barcode"} = {"label", "catalog", "barcode"}
      OBVIOUS
    <3>4. QED
      BY <3>2, <3>3
  <2> HIDE DEF has
  <2>3. Cardinality(has) \in Nat
    BY <2>1, <2>2, FS_Subset, FS_CardinalityType
  <2>4. Completeness(c) = c.extra + Cardinality(has) /\ c.extra \in Nat
    BY CandidatesAssumption DEF Completeness, has
  <2>5. QED
    BY <2>3, <2>4
<1>4. AsU8(TRUE) = 1 /\ AsU8(FALSE) = 0 /\ \A b \in BOOLEAN : AsU8(b) \in Nat
  BY DEF AsU8
<1>5. c.exact \in BOOLEAN /\ c.provider \in DOMAIN ProviderPriority
  BY CandidatesAssumption
<1>6. ProviderPriority[c.provider] \in Nat
  BY <1>5 DEF ProviderPriority
<1>7. Evidence(C, c) \in Seq(Nat) /\ Len(Evidence(C, c)) = 6
  <2> DEFINE e1 == AsU8(c.exact)  e2 == AsU8(\E o \in Peers(C, c) : ExactRelease(c, o))
             e3 == AsU8(\E o \in Peers(C, c) : BarcodeCatalog(c, o))
  <2>1. e1 \in Nat /\ e2 \in Nat /\ e3 \in Nat
    BY <1>4, <1>5
  <2>2. Evidence(C, c) = <<e1, e2, e3, Cardinality(Supporters(C, c)), TrackAgreement(c), Completeness(c)>>
    BY DEF Evidence
  <2> HIDE DEF e1, e2, e3
  <2>3. QED
    BY <1>1, <1>2, <1>3, <2>1, <2>2
<1>8. /\ Rank(C, c) \in Seq(Nat) /\ Len(Rank(C, c)) = 7
      /\ \A i \in 1..6 : Rank(C, c)[i] = Evidence(C, c)[i]
      /\ Rank(C, c)[7] = ProviderPriority[c.provider]
  <2>1. ASSUME NEW e \in Seq(Nat), NEW p \in Nat, Len(e) = 6
        PROVE  /\ Append(e, p) \in Seq(Nat) /\ Len(Append(e, p)) = 7
               /\ \A i \in 1..6 : Append(e, p)[i] = e[i]
               /\ Append(e, p)[7] = p
    <3>1. /\ Append(e, p) \in Seq(Nat)
          /\ Len(Append(e, p)) = Len(e) + 1
          /\ Append(e, p)[Len(e) + 1] = p
      BY AppendProperties
    <3>2. \A i \in 1..Len(e) : Append(e, p)[i] = e[i]
      BY AppendProperties
    <3>3. QED
      BY <2>1, <3>1, <3>2
  <2>2. QED
    BY <1>6, <1>7, <2>1 DEF Rank
<1>9. ASSUME NEW s \in Seq(Nat) PROVE s \in Tuples(Len(s))
  BY DEF Tuples
<1>10. Evidence(C, c) \in Tuples(6) /\ Rank(C, c) \in Tuples(7)
  <2>1. Evidence(C, c) \in Tuples(Len(Evidence(C, c))) /\ Rank(C, c) \in Tuples(Len(Rank(C, c)))
    BY <1>7, <1>8, <1>9
  <2>2. QED
    BY <1>7, <1>8, <2>1
<1>11. QED
  BY <1>8, <1>10

\* One score outranks another, and only if the other has no more evidence.
LEMMA ScoresOrdered ==
  ASSUME NEW C, C \subseteq Candidates, IsFiniteSet(C)
  PROVE  /\ \A s \in Scored(C) : ~Outranks(s, s)
         /\ \A s, t, u \in Scored(C) : Outranks(s, t) /\ Outranks(t, u) => Outranks(s, u)
         /\ \A s, t \in Scored(C) : s = t \/ Outranks(s, t) \/ Outranks(t, s)
         /\ \A s, t \in Scored(C) : Outranks(s, t) => ~Exceeds(t.evidence, s.evidence)
<1>1. ASSUME NEW s \in Scored(C)
      PROVE  /\ s.candidate \in C /\ s.candidate.key \in Nat
             /\ s.evidence = Evidence(C, s.candidate) /\ s.rank = Rank(C, s.candidate)
             /\ s.evidence \in Tuples(6) /\ s.rank \in Tuples(7)
             /\ s.rank[7] = ProviderPriority[s.candidate.provider]
             /\ \A i \in 1..6 : s.rank[i] = s.evidence[i]
  <2>1. PICK c \in C : s = [candidate |-> c, evidence |-> Evidence(C, c), rank |-> Rank(C, c)]
    BY DEF Scored
  <2>2. QED
    BY <2>1, EvidenceTyped, CandidatesAssumption
<1>2. /\ \A r \in Tuples(7) : ~Exceeds(r, r)
      /\ \A q, r, u \in Tuples(7) : Exceeds(q, r) /\ Exceeds(r, u) => Exceeds(q, u)
      /\ \A q, r \in Tuples(7) : q = r \/ Exceeds(q, r) \/ Exceeds(r, q)
  BY ExceedsOrders
<1>3. ASSUME NEW s \in Scored(C) PROVE ~Outranks(s, s)
  BY <1>1, <1>2 DEF Outranks
<1>4. ASSUME NEW s \in Scored(C), NEW t \in Scored(C), NEW u \in Scored(C),
             Outranks(s, t), Outranks(t, u)
      PROVE  Outranks(s, u)
  <2>1. s.rank \in Tuples(7) /\ t.rank \in Tuples(7) /\ u.rank \in Tuples(7)
    BY <1>1
  <2>2. s.candidate.key \in Nat /\ t.candidate.key \in Nat /\ u.candidate.key \in Nat
    BY <1>1
  <2>3. CASE Exceeds(s.rank, t.rank) \/ Exceeds(t.rank, u.rank)
    BY <1>2, <1>4, <2>1, <2>3 DEF Outranks
  <2>4. CASE s.rank = t.rank /\ t.rank = u.rank
    BY <1>2, <1>4, <2>1, <2>2, <2>4 DEF Outranks
  <2>5. QED
    BY <1>4, <2>3, <2>4 DEF Outranks
<1>5. ASSUME NEW s \in Scored(C), NEW t \in Scored(C), s # t PROVE Outranks(s, t) \/ Outranks(t, s)
  <2>1. CASE s.rank # t.rank
    BY <1>1, <1>2, <2>1 DEF Outranks
  <2>2. CASE s.rank = t.rank
    <3>1. s.candidate # t.candidate
      BY <1>5 DEF Scored
    <3>2. ProviderPriority[s.candidate.provider] = ProviderPriority[t.candidate.provider]
      BY <1>1, <2>2
    <3>3. s.candidate.provider = t.candidate.provider
      BY <1>1, <3>2, CandidatesAssumption DEF ProviderPriority
    <3>4. s.candidate.key # t.candidate.key
      BY <1>1, <3>1, <3>3, KeysUnique
    <3>5. QED
      BY <1>1, <2>2, <3>4 DEF Outranks
  <2>3. QED
    BY <2>1, <2>2
<1>6. ASSUME NEW s \in Scored(C), NEW t \in Scored(C), Outranks(s, t), Exceeds(t.evidence, s.evidence)
      PROVE  FALSE
  <2>1. /\ DOMAIN t.evidence = 1..6 /\ DOMAIN t.rank = 1..7
        /\ s.rank \in Tuples(7) /\ t.rank \in Tuples(7)
    BY <1>1 DEF Tuples
  <2>2. PICK i \in 1..6 : t.evidence[i] > s.evidence[i]
                          /\ \A j \in 1..(i - 1) : t.evidence[j] = s.evidence[j]
    BY <1>6, <2>1 DEF Exceeds
  <2>3. t.rank[i] > s.rank[i] /\ \A j \in 1..(i - 1) : t.rank[j] = s.rank[j]
    BY <1>1, <2>2
  <2>4. Exceeds(t.rank, s.rank)
    BY <2>1, <2>3 DEF Exceeds
  <2>5. QED
    BY <1>2, <1>6, <2>1, <2>4 DEF Outranks
<1>7. QED
  BY <1>3, <1>4, <1>5, <1>6

\* The scores, each once and the better before the worse.
LEMMA SortedOf ==
  ASSUME NEW S, IsFiniteSet(S),
         \A s \in S : ~Outranks(s, s),
         \A s, t, u \in S : Outranks(s, t) /\ Outranks(t, u) => Outranks(s, u),
         \A s, t \in S : s = t \/ Outranks(s, t) \/ Outranks(t, s)
  PROVE  /\ Cardinality(S) \in Nat
         /\ Sorted(S) = [k \in 1..Cardinality(S) |-> Sorted(S)[k]]
         /\ \A k \in 1..Cardinality(S) : Sorted(S)[k] \in S
         /\ \A k, l \in 1..Cardinality(S) : k < l => Outranks(Sorted(S)[k], Sorted(S)[l])
         /\ \A s \in S : \E k \in 1..Cardinality(S) : Sorted(S)[k] = s
<1> DEFINE n == Cardinality(S)
           a == Sorted(S)
<1>1. PICK R, before, place :
        /\ \A s, t \in S : <<s, t>> \in R <=> Outranks(s, t)
        /\ Orders(R, S) /\ Counts(R, S, before, place)
        /\ \A s \in S : place[s] = Cardinality({t \in S : Outranks(t, s)})
  <2> DEFINE r == {p \in S \X S : Outranks(p[1], p[2])}
             b == [s \in S |-> {t \in S : Outranks(t, s)}]
             p == [s \in S |-> Cardinality(b[s])]
  <2>1. \A s, t \in S : <<s, t>> \in r <=> Outranks(s, t)
    OBVIOUS
  <2>2. \A s \in S : p[s] = Cardinality({t \in S : Outranks(t, s)})
    OBVIOUS
  <2> HIDE DEF r
  <2>3. Orders(r, S)
    BY <2>1 DEF Orders
  <2>4. b \in [S -> SUBSET S] /\ \A x, y \in S : y \in b[x] <=> <<y, x>> \in r
    BY <2>1
  <2> HIDE DEF b
  <2>5. p \in [S -> Nat] /\ \A s \in S : p[s] = Cardinality(b[s])
    BY <2>4, FS_Subset, FS_CardinalityType
  <2> HIDE DEF p
  <2>6. Counts(r, S, b, p)
    BY <2>4, <2>5 DEF Counts
  <2>7. QED
    BY <2>1, <2>2, <2>3, <2>6
<1>2. /\ n \in Nat
      /\ \A s \in S : place[s] \in 0..(n - 1)
      /\ \A s, t \in S : <<s, t>> \in R => place[s] < place[t]
      /\ \A m \in 0..(n - 1) : \E s \in S : place[s] = m
  <2>1. /\ Cardinality(S) \in Nat
        /\ \A s \in S : place[s] \in 0..(Cardinality(S) - 1)
        /\ \A s, t \in S : <<s, t>> \in R => place[s] < place[t]
    BY <1>1, PlacesAreAll
  <2>2. place \in Surjection(S, 0..(Cardinality(S) - 1))
    BY <1>1, PlacesAreAll
  <2>3. QED
    BY <2>1, <2>2 DEF Surjection
<1>3. \A s \in S : Cardinality({t \in S : Outranks(t, s)}) = place[s]
  BY <1>1
<1>4. ASSUME NEW k \in 1..n PROVE a[k] \in S /\ place[a[k]] = k - 1
  <2> DEFINE Above(s) == Cardinality({t \in S : Outranks(t, s)})
  <2>1. a[k] = CHOOSE s \in S : Above(s) = k - 1
    BY DEF Sorted
  <2>2. \A s \in S : Above(s) = place[s]
    BY <1>3
  <2>3. k - 1 \in 0..(n - 1)
    BY <1>2
  <2> HIDE DEF a, Above
  <2>4. \E s \in S : Above(s) = k - 1
    BY <1>2, <2>2, <2>3
  <2>5. a[k] \in S /\ Above(a[k]) = k - 1
    BY <2>1, <2>4
  <2>6. QED
    BY <2>2, <2>5
<1>5. a = [k \in 1..n |-> a[k]]
  <2> DEFINE Nth(k) == CHOOSE s \in S : Cardinality({t \in S : Outranks(t, s)}) = k - 1
  <2>1. a = [k \in 1..n |-> Nth(k)]
    BY DEF Sorted
  <2> HIDE DEF a, n, Nth
  <2>2. QED
    BY <2>1
<1> HIDE DEF a, n
<1>6. ASSUME NEW k \in 1..n, NEW l \in 1..n, k < l PROVE Outranks(a[k], a[l])
  <2>1. a[k] \in S /\ a[l] \in S /\ place[a[k]] \in Nat /\ place[a[l]] \in Nat
    BY <1>2, <1>4
  <2>2. place[a[k]] < place[a[l]]
    BY <1>2, <1>4, <1>6
  <2>3. ~(place[a[l]] < place[a[k]]) /\ place[a[k]] # place[a[l]]
    BY <2>1, <2>2
  <2>4. <<a[l], a[k]>> \notin R /\ a[k] # a[l]
    BY <1>2, <2>1, <2>3
  <2>5. QED
    BY <1>1, <2>1, <2>4 DEF Orders
<1>7. ASSUME NEW s \in S PROVE \E k \in 1..n : a[k] = s
  <2> DEFINE k == place[s] + 1
  <2>1. k \in 1..n
    BY <1>2
  <2>2. a[k] \in S /\ place[a[k]] = place[s]
    BY <1>2, <1>4, <2>1
  <2>3. a[k] = s
    <3>1. ~(place[a[k]] < place[s]) /\ ~(place[s] < place[a[k]])
      BY <1>2, <2>2
    <3>2. <<a[k], s>> \notin R /\ <<s, a[k]>> \notin R
      BY <1>2, <2>2, <3>1
    <3>3. QED
      BY <1>1, <2>2, <3>2 DEF Orders
  <2>4. QED
    BY <2>1, <2>3
<1>8. QED
  BY <1>2, <1>4, <1>5, <1>6, <1>7 DEF a, n

\* What the choice among candidates is: all of them, the first exceeded by none.
Choice(C, r) ==
  /\ r \in [ranked : Seq(Candidates), ambiguous : BOOLEAN]
  /\ Len(r.ranked) >= 1 /\ ElementsOf(r.ranked) = C
  /\ \A k, l \in 1..Len(r.ranked) : r.ranked[k] = r.ranked[l] => k = l
  /\ \A o \in C : ~Exceeds(Evidence(C, o), Evidence(C, r.ranked[1]))
  /\ r.ambiguous <=> \E o \in C \ {r.ranked[1]} : Evidence(C, o) = Evidence(C, r.ranked[1])

\* The resolution is such a choice: looking at the best two is enough.
LEMMA ResolutionOf ==
  ASSUME NEW C, C \subseteq Candidates, IsFiniteSet(C), C # {}
  PROVE  Choice(C, Resolution(C))
<1> DEFINE S == Scored(C)
           n == Cardinality(S)
           a == Sorted(S)
           r == Resolution(C)
<1>1. ASSUME NEW s \in S
      PROVE  s.candidate \in C /\ s.evidence = Evidence(C, s.candidate)
  BY DEF Scored
<1>2. ASSUME NEW c \in C PROVE \E s \in S : s.candidate = c
  <2>1. [candidate |-> c, evidence |-> Evidence(C, c), rank |-> Rank(C, c)] \in S
    BY DEF Scored
  <2> HIDE DEF S
  <2>2. QED
    BY <2>1
<1>3. IsFiniteSet(S)
  <2> DEFINE score == [c \in C |-> [candidate |-> c, evidence |-> Evidence(C, c), rank |-> Rank(C, c)]]
  <2>1. score \in Surjection(C, S)
    BY DEF Surjection, Scored
  <2>2. QED
    BY <2>1, FS_Surjection
<1>4. /\ \A s, t \in S : s.candidate = t.candidate => s = t
  BY DEF Scored
<1>5. \A s, t \in S : Outranks(s, t) => ~Exceeds(t.evidence, s.evidence)
  BY ScoresOrdered
<1>6. /\ n \in Nat /\ a = [k \in 1..n |-> a[k]] /\ \A k \in 1..n : a[k] \in S
      /\ \A k, l \in 1..n : k < l => Outranks(a[k], a[l])
      /\ \A s \in S : \E k \in 1..n : a[k] = s
  <2>1. /\ \A s \in S : ~Outranks(s, s)
        /\ \A s, t, u \in S : Outranks(s, t) /\ Outranks(t, u) => Outranks(s, u)
        /\ \A s, t \in S : s = t \/ Outranks(s, t) \/ Outranks(t, s)
    BY ScoresOrdered
  <2> HIDE DEF S
  <2>2. QED
    BY <1>3, <2>1, SortedOf
<1>7. \A s \in S : ~Outranks(s, s)
  BY ScoresOrdered
<1>8. /\ r.ranked = [k \in DOMAIN a |-> a[k].candidate]
      /\ r.ambiguous = (Len(a) > 1 /\ a[1].evidence = a[2].evidence)
      /\ r = [ranked |-> r.ranked, ambiguous |-> r.ambiguous]
  BY DEF Resolution
<1> HIDE DEF S, n, a, r
<1>9. DOMAIN a = 1..n /\ Len(a) = n
  <2>1. DOMAIN a = 1..n
    BY <1>6
  <2>2. a \in Seq(S)
    BY <1>6
  <2>3. QED
    BY <1>6, <2>1, <2>2
<1>10. n >= 1
  BY <1>2, <1>6
<1>11. r.ranked = [k \in 1..n |-> a[k].candidate] /\ r.ranked \in Seq(Candidates) /\ Len(r.ranked) = n
  <2>1. r.ranked = [k \in 1..n |-> a[k].candidate]
    BY <1>8, <1>9
  <2>2. \A k \in 1..n : a[k].candidate \in Candidates
    BY <1>1, <1>6
  <2>3. QED
    BY <1>6, <2>1, <2>2
<1>12. ElementsOf(r.ranked) = C
  <2>1. ASSUME NEW c \in C PROVE c \in ElementsOf(r.ranked)
    <3>1. PICK k \in 1..n : a[k].candidate = c
      BY <1>2, <1>6
    <3>2. QED
      BY <1>11, <3>1 DEF ElementsOf
  <2>2. ASSUME NEW c \in ElementsOf(r.ranked) PROVE c \in C
    <3>1. PICK k \in 1..n : c = a[k].candidate
      BY <1>11 DEF ElementsOf
    <3>2. QED
      BY <1>1, <1>6, <3>1
  <2>3. QED
    BY <2>1, <2>2
<1>13. r.ranked[1] = a[1].candidate /\ a[1] \in S /\ 1 \in 1..n
  BY <1>6, <1>10, <1>11
<1>14. Evidence(C, r.ranked[1]) = a[1].evidence
  BY <1>1, <1>13
<1>15. ASSUME NEW k \in 1..n, k # 1
       PROVE  ~Exceeds(a[k].evidence, a[1].evidence) /\ a[k].candidate # a[1].candidate
  <2>1. Outranks(a[1], a[k])
    BY <1>6, <1>13, <1>15
  <2>2. a[k] # a[1]
    BY <1>7, <1>13, <2>1
  <2>3. QED
    BY <1>4, <1>5, <1>6, <1>13, <2>1, <2>2
<1>16. ASSUME NEW o \in C PROVE ~Exceeds(Evidence(C, o), Evidence(C, r.ranked[1]))
  <2>1. PICK k \in 1..n : a[k].candidate = o /\ a[k].evidence = Evidence(C, o)
    BY <1>1, <1>2, <1>6
  <2>2. CASE k = 1
    <3>1. a[1].evidence \in Tuples(6)
      BY <1>1, <1>13, EvidenceTyped
    <3>2. \A t \in Tuples(6) : ~Exceeds(t, t)
      BY ExceedsOrders
    <3>3. QED
      BY <1>14, <2>1, <2>2, <3>1, <3>2
  <2>3. CASE k # 1
    BY <1>14, <1>15, <2>1, <2>3
  <2>4. QED
    BY <2>2, <2>3
<1>17. r.ambiguous <=> \E o \in C \ {r.ranked[1]} : Evidence(C, o) = Evidence(C, r.ranked[1])
  <2>1. ASSUME r.ambiguous
        PROVE  \E o \in C \ {r.ranked[1]} : Evidence(C, o) = Evidence(C, r.ranked[1])
    <3>1. n > 1 /\ a[1].evidence = a[2].evidence
      BY <1>8, <1>9, <2>1
    <3>2. 2 \in 1..n /\ 2 # 1
      BY <1>6, <3>1
    <3>3. a[2].candidate \in C /\ a[2].evidence = Evidence(C, a[2].candidate)
      BY <1>1, <1>6, <3>2
    <3>4. a[2].candidate # a[1].candidate
      BY <1>15, <3>2
    <3>5. QED
      BY <1>13, <1>14, <3>1, <3>3, <3>4
  <2>2. ASSUME NEW o \in C \ {r.ranked[1]}, Evidence(C, o) = Evidence(C, r.ranked[1])
        PROVE  r.ambiguous
    <3>1. PICK k \in 1..n : a[k].candidate = o /\ a[k].evidence = Evidence(C, o)
      BY <1>1, <1>2, <1>6
    <3>2. k # 1 /\ a[k].evidence = a[1].evidence
      BY <1>13, <1>14, <2>2, <3>1
    <3>3. 2 \in 1..n /\ 2 # 1 /\ n > 1
      BY <1>6, <3>2
    <3>4. a[2].evidence = a[1].evidence
      <4>1. CASE k = 2
        BY <3>2, <4>1
      <4>2. CASE k # 2
        <5>1. Outranks(a[2], a[k])
          BY <1>6, <3>2, <3>3, <4>2
        <5>2. ~Exceeds(a[1].evidence, a[2].evidence)
          BY <1>5, <1>6, <3>2, <3>3, <5>1
        <5>3. ~Exceeds(a[2].evidence, a[1].evidence)
          BY <1>15, <3>3
        <5>4. a[1].evidence \in Tuples(6) /\ a[2].evidence \in Tuples(6)
          BY <1>1, <1>6, <1>13, <3>3, EvidenceTyped
        <5>5. \A s, t \in Tuples(6) : s = t \/ Exceeds(s, t) \/ Exceeds(t, s)
          BY ExceedsOrders
        <5>6. QED
          BY <5>2, <5>3, <5>4, <5>5
      <4>3. QED
        BY <4>1, <4>2
    <3>5. QED
      BY <1>8, <1>9, <3>3, <3>4
  <2>3. QED
    BY <2>1, <2>2
<1>18. r.ambiguous \in BOOLEAN
  BY <1>8
<1>19. ASSUME NEW k \in 1..n, NEW l \in 1..n, r.ranked[k] = r.ranked[l] PROVE k = l
  <2>1. a[k] = a[l]
    BY <1>4, <1>6, <1>11, <1>19
  <2>2. ~Outranks(a[k], a[l]) /\ ~Outranks(a[l], a[k])
    BY <1>6, <1>7, <2>1
  <2>3. ~(k < l) /\ ~(l < k)
    BY <1>6, <2>2
  <2>4. QED
    BY <1>6, <2>3
<1>20. QED
  <2>1. r \in [ranked : Seq(Candidates), ambiguous : BOOLEAN]
    BY <1>8, <1>11, <1>18
  <2>2. Len(r.ranked) >= 1
    BY <1>10, <1>11
  <2>3. QED
    BY <1>11, <1>12, <1>16, <1>17, <1>19, <2>1, <2>2 DEF Choice, r

-----------------------------------------------------------------------------
(* The invariant.                                                          *)

Question == {[provider |-> Slots[i].provider, tier |-> Slots[i].tier, kind |-> Slots[i].kind,
              value |-> v] : i \in DOMAIN Slots, v \in Identifiers}
Reply == [ok : BOOLEAN, hits : Seq(Candidates)]
Observation == [question : Question, ok : BOOLEAN, hits : Seq(Candidates)]

\* The first elements of a sequence.
Prefix(s, t) == Len(s) <= Len(t) /\ \A i \in 1..Len(s) : s[i] = t[i]

Typed ==
  /\ pc \in {"stage", "asking", "merging", "observations", "done", "failed"}
  /\ stage \in 1..5
  /\ pc \in {"asking", "merging"} => stage <= 4
  /\ ids \in [Kinds -> Identifiers \cup {None}]
  /\ tasks \in Seq(Question) /\ results \in Seq(Reply \cup {Running})
  /\ Len(results) = Len(tasks)
  /\ pc \notin {"asking", "merging"} => tasks = <<>>
  /\ pc = "merging" => \A i \in DOMAIN results : results[i] # Running
  /\ candidates \subseteq Candidates /\ IsFiniteSet(candidates)
  /\ observations \in Seq(Observation)

\* Questions are of one slot; no slot has two.
OfOneSlot(p, q) == p.provider = q.provider /\ p.kind = q.kind
AskedOnce ==
  /\ \A m, n \in DOMAIN observations :
       m # n => ~OfOneSlot(observations[m].question, observations[n].question)
  /\ \A i, j \in DOMAIN tasks : i # j => ~OfOneSlot(tasks[i], tasks[j])
  /\ \A n \in DOMAIN observations, i \in DOMAIN tasks : ~OfOneSlot(observations[n].question, tasks[i])
  /\ \A n \in DOMAIN observations : /\ observations[n].question.tier <= stage
                                    /\ pc = "stage" => observations[n].question.tier < stage
  /\ \A i \in DOMAIN tasks : tasks[i].tier = stage
  /\ pc = "asking" => \A i \in DOMAIN tasks : tasks[i].value # None /\ tasks[i].value = ids[tasks[i].kind]

\* What a thread that has ended says.
Said(i) == [question |-> tasks[i], ok |-> results[i].ok, hits |-> results[i].hits]
AllSaid ==
  /\ \A n \in DOMAIN observations : observations[n] \in said
  /\ \A i \in DOMAIN tasks : results[i] # Running => Said(i) \in said
  /\ \A t \in said : \/ \E n \in DOMAIN observations : t = observations[n]
                     \/ \E i \in DOMAIN tasks : results[i] # Running /\ t = Said(i)
  /\ \A n \in DOMAIN observations : ElementsOf(observations[n].hits) \subseteq candidates
  /\ \A c \in candidates : \E n \in DOMAIN observations : c \in ElementsOf(observations[n].hits)

Undecided == pc \in {"stage", "asking", "merging"}
Decided ==
  /\ Undecided => resolution = Open
  /\ ~Undecided => IF candidates = {} THEN resolution = None ELSE Choice(candidates, resolution)

RowsAre ==
  /\ rows = [observations |-> rows.observations, candidates |-> rows.candidates,
             projection |-> rows.projection, disagreements |-> rows.disagreements,
             ambiguity |-> rows.ambiguity, status |-> rows.status, confidence |-> rows.confidence]
  /\ rows.observations \in Seq(Observation) /\ rows.candidates \in Seq(Candidates)
  /\ rows.status \in {"working", "unidentified", "resolved"}
RowsFollow ==
  /\ Prefix(rows.observations, observations)
  /\ rows.candidates # <<>> =>
       /\ rows.observations = observations /\ ~Undecided /\ resolution # None
       /\ Prefix(rows.candidates, resolution.ranked)
  /\ rows.projection # None =>
       /\ pc = "done" /\ resolution # None
       /\ rows.observations = observations /\ rows.candidates = resolution.ranked
       /\ rows.projection = resolution.ranked[1]
       /\ rows.confidence = IF resolution.ambiguous THEN "low" ELSE "high"
       /\ rows.disagreements = Disagreements(resolution.ranked)

Inv == Typed /\ AskedOnce /\ AllSaid /\ Decided /\ RowsAre /\ RowsFollow

-----------------------------------------------------------------------------
(* Questions and replies.                                                  *)

LEMMA SlotsAre ==
  /\ DOMAIN Slots = 1..6
  /\ \A i \in 1..6 : Slots[i].tier \in 1..4 /\ Slots[i].kind \in Kinds
  /\ \A i, j \in 1..6 : OfOneSlot(Slots[i], Slots[j]) => i = j
<1> DEFINE s == Slots
<1>1. /\ s[1].provider = "musicbrainz" /\ s[1].kind = "disc" /\ s[1].tier = 1
      /\ s[2].provider = "discogs" /\ s[2].kind = "barcode" /\ s[2].tier = 2
      /\ s[3].provider = "discogs" /\ s[3].kind = "catalog" /\ s[3].tier = 2
      /\ s[4].provider = "tower" /\ s[4].kind = "barcode" /\ s[4].tier = 3
      /\ s[5].provider = "tower" /\ s[5].kind = "catalog" /\ s[5].tier = 3
      /\ s[6].provider = "barcodelookup" /\ s[6].kind = "barcode" /\ s[6].tier = 4
      /\ DOMAIN s = 1..6
  BY DEF Slots
<1> HIDE DEF s
<1>2. 1..6 = {1, 2, 3, 4, 5, 6}
  OBVIOUS
<1>3. \A i \in 1..6 : s[i].tier \in 1..4 /\ s[i].kind \in Kinds
  BY <1>1, <1>2 DEF Kinds
<1>4. \A i, j \in {1, 2, 3, 4, 5, 6} : s[i].provider = s[j].provider /\ s[i].kind = s[j].kind => i = j
  BY <1>1
<1>5. QED
  BY <1>1, <1>2, <1>3, <1>4 DEF s, OfOneSlot

\* A question is of one slot, which has its tier.
LEMMA QuestionsHaveSlots ==
  ASSUME NEW q \in Question
  PROVE  /\ \E i \in 1..6 : OfOneSlot(q, Slots[i]) /\ q.tier = Slots[i].tier
         /\ q.kind \in Kinds /\ q.tier \in 1..4 /\ q.value \in Identifiers
         /\ \A p \in Question : OfOneSlot(p, q) => p.tier = q.tier
<1>1. ASSUME NEW p \in Question
      PROVE  \E i \in 1..6 : /\ p.provider = Slots[i].provider /\ p.kind = Slots[i].kind
                             /\ p.tier = Slots[i].tier /\ p.value \in Identifiers
  BY SlotsAre DEF Question
<1>2. ASSUME NEW p \in Question, OfOneSlot(p, q) PROVE p.tier = q.tier
  <2>1. PICK i \in 1..6 : /\ p.provider = Slots[i].provider /\ p.kind = Slots[i].kind
                          /\ p.tier = Slots[i].tier
    BY <1>1
  <2>2. PICK j \in 1..6 : /\ q.provider = Slots[j].provider /\ q.kind = Slots[j].kind
                          /\ q.tier = Slots[j].tier
    BY <1>1
  <2>3. i = j
    BY <1>2, <2>1, <2>2, SlotsAre DEF OfOneSlot
  <2>4. QED
    BY <2>1, <2>2, <2>3
<1>3. QED
  BY <1>1, <1>2, SlotsAre DEF OfOneSlot

\* The questions of a stage: one for each of its slots that is open, about what is
\* known.
LEMMA QuestionsOf ==
  ASSUME ids \in [Kinds -> Identifiers \cup {None}], NEW s
  PROVE  LET qs == Questions(s) IN
         /\ qs \in Seq(Question)
         /\ \A k \in DOMAIN qs : qs[k].tier = s /\ qs[k].value # None /\ qs[k].value = ids[qs[k].kind]
         /\ \A k, l \in DOMAIN qs : k # l => ~OfOneSlot(qs[k], qs[l])
         /\ \A i \in 1..6 :
              /\ Slots[i].tier = s /\ ids[Slots[i].kind] # None
              /\ \A n \in DOMAIN observations : observations[n].question # SlotAsks(i, s)
              => \E k \in DOMAIN qs : OfOneSlot(qs[k], Slots[i])
<1> DEFINE open == {i \in DOMAIN Slots :
                      /\ Slots[i].tier = s /\ ids[Slots[i].kind] # None
                      /\ \A n \in DOMAIN observations : observations[n].question # SlotAsks(i, s)}
           a == Ascending(open)
           qs == Questions(s)
<1>1. open \subseteq 1..6 /\ IsFiniteSet(open)
  <2>1. open \subseteq 1..6
    BY SlotsAre
  <2>2. IsFiniteSet(1..6)
    <3>1. ASSUME NEW n \in Nat PROVE IsFiniteSet(1..n) /\ Cardinality(1..n) = n
      BY FS_Interval
    <3>2. QED
      BY <3>1
  <2> HIDE DEF open
  <2>3. QED
    BY <2>1, <2>2, FS_Subset
<1>2. \A i \in open : Slots[i].tier = s /\ ids[Slots[i].kind] # None
  OBVIOUS
<1>3. \A i \in 1..6 : /\ Slots[i].tier = s /\ ids[Slots[i].kind] # None
                      /\ \A n \in DOMAIN observations : observations[n].question # SlotAsks(i, s)
                      => i \in open
  BY SlotsAre
<1>4. qs = AskInOrder(open, s)
  BY DEF Questions
<1> HIDE DEF open
<1> DEFINE n == Cardinality(open)
<1>5. /\ n \in Nat /\ a = [k \in 1..n |-> a[k]] /\ \A k \in 1..n : a[k] \in open
      /\ \A k, l \in 1..n : k < l => a[k] < a[l]
      /\ \A i \in open : \E k \in 1..n : a[k] = i
  <2>1. open \subseteq Nat
    BY <1>1
  <2>2. QED
    BY <1>1, <2>1, AscendingOf
<1>6. qs = [k \in DOMAIN a |-> SlotAsks(a[k], s)]
  BY <1>4 DEF AskInOrder
<1> HIDE DEF a, n, qs
<1>7. DOMAIN a = 1..n
  BY <1>5
<1>8. DOMAIN qs = 1..n /\ \A k \in 1..n : qs[k] = SlotAsks(a[k], s)
  BY <1>6, <1>7
<1>9. ASSUME NEW i \in open
      PROVE  /\ SlotAsks(i, s) \in Question /\ OfOneSlot(SlotAsks(i, s), Slots[i])
             /\ SlotAsks(i, s).tier = s /\ SlotAsks(i, s).value # None
             /\ SlotAsks(i, s).value = ids[SlotAsks(i, s).kind]
  <2>1. ids[Slots[i].kind] \in Identifiers /\ i \in DOMAIN Slots /\ Slots[i].tier = s
        /\ ids[Slots[i].kind] # None
    BY <1>1, <1>2, SlotsAre
  <2>2. SlotAsks(i, s) = [provider |-> Slots[i].provider, tier |-> Slots[i].tier,
                          kind |-> Slots[i].kind, value |-> ids[Slots[i].kind]]
    BY <2>1 DEF SlotAsks
  <2>3. QED
    BY <2>1, <2>2 DEF Question, OfOneSlot
<1>10. qs \in Seq(Question)
  <2>1. qs = [k \in 1..n |-> SlotAsks(a[k], s)]
    BY <1>6, <1>7
  <2>2. \A k \in 1..n : SlotAsks(a[k], s) \in Question
    BY <1>5, <1>9
  <2>3. QED
    BY <1>5, <2>1, <2>2
<1>11. ASSUME NEW k \in 1..n, NEW l \in 1..n, k # l PROVE ~OfOneSlot(qs[k], qs[l])
  <2>1. a[k] # a[l] /\ a[k] \in 1..6 /\ a[l] \in 1..6
    <3>1. a[k] \in 1..6 /\ a[l] \in 1..6
      BY <1>1, <1>5
    <3>2. a[k] < a[l] \/ a[l] < a[k]
      BY <1>5, <1>11
    <3>3. QED
      BY <3>1, <3>2
  <2>2. ~OfOneSlot(Slots[a[k]], Slots[a[l]])
    BY <2>1, SlotsAre
  <2>3. OfOneSlot(qs[k], Slots[a[k]]) /\ OfOneSlot(qs[l], Slots[a[l]])
    BY <1>5, <1>8, <1>9
  <2>4. QED
    BY <2>2, <2>3 DEF OfOneSlot
<1>12. ASSUME NEW i \in open PROVE \E k \in 1..n : OfOneSlot(qs[k], Slots[i])
  BY <1>5, <1>8, <1>9
<1>13. QED
  BY <1>3, <1>5, <1>8, <1>9, <1>10, <1>11, <1>12 DEF qs

\* A reply is none that is Running, and has as many hits as a reply may.
LEMMA RepliesAre ==
  ASSUME NEW q, NEW r \in Replies(q)
  PROVE  /\ r \in Reply /\ r # Running
         /\ \E n \in 0..MaxHits : r.hits \in [1..n -> Candidates]
<1> USE MaxHitsAssumption
<1>1. ASSUME NEW s \in HitLists(q) PROVE \E n \in 0..MaxHits : s \in [1..n -> Candidates]
  <2>1. CASE q.value = ""
    <3>1. s = <<>>
      BY <2>1 DEF HitLists
    <3>2. s \in [1..0 -> Candidates] /\ 0 \in 0..MaxHits
      BY <3>1
    <3>3. QED
      BY <3>2
  <2>2. CASE q.value # ""
    <3> DEFINE known == {c \in Candidates : c.provider = q.provider}
    <3>1. PICK n \in 0..MostHits(q.provider) : s \in [1..n -> known]
      BY <2>2 DEF HitLists
    <3>2. MostHits(q.provider) \in Nat /\ MostHits(q.provider) <= MaxHits
      BY DEF MostHits
    <3>3. n \in 0..MaxHits
      BY <3>2
    <3>4. s \in [1..n -> Candidates]
      BY <3>1
    <3>5. QED
      BY <3>3, <3>4
  <2>3. QED
    BY <2>1, <2>2
<1>2. PICK n \in 0..MaxHits : r.hits \in [1..n -> Candidates]
  <2>1. CASE r = Failure
    <3>1. r.hits = <<>> /\ 0 \in 0..MaxHits
      BY <2>1 DEF Failure
    <3>2. r.hits \in [1..0 -> Candidates]
      BY <3>1
    <3>3. QED
      BY <3>1, <3>2
  <2>2. CASE r # Failure
    BY <1>1, <2>2 DEF Replies
  <2>3. QED
    BY <2>1, <2>2
<1>3. r = [ok |-> r.ok, hits |-> r.hits] /\ r.ok \in BOOLEAN
  <2>1. CASE r = Failure
    BY <2>1 DEF Failure
  <2>2. CASE r # Failure
    <3>1. PICK s \in HitLists(q) : r = [ok |-> TRUE, hits |-> s]
      BY <2>2 DEF Replies
    <3>2. QED
      BY <3>1
  <2>3. QED
    BY <2>1, <2>2
<1>4. r.hits \in Seq(Candidates)
  BY <1>2
<1>5. r \in Reply
  BY <1>3, <1>4 DEF Reply
<1>6. QED
  BY <1>2, <1>5, CandidatesAssumption DEF Reply

\* An identifier that is known stays; another is one that a hit has, if any has.
LEMMA LearnedIs ==
  ASSUME NEW hits \in Seq(Candidates), NEW k \in Kinds
  PROVE  \/ (k = "disc" \/ ids[k] # None) /\ Learned(hits, k) = ids[k]
         \/ /\ k # "disc" /\ ids[k] = None /\ Learned(hits, k) = None
            /\ \A i \in DOMAIN hits : hits[i][k] = None
         \/ /\ k # "disc" /\ ids[k] = None /\ Learned(hits, k) # None
            /\ \E i \in DOMAIN hits : Learned(hits, k) = hits[i][k]
<1> DEFINE having == {i \in DOMAIN hits : hits[i][k] # None}
<1>1. CASE k = "disc" \/ ids[k] # None
  BY <1>1 DEF Learned
<1>2. CASE ~(k = "disc" \/ ids[k] # None) /\ having = {}
  BY <1>2 DEF Learned
<1>3. CASE ~(k = "disc" \/ ids[k] # None) /\ having # {}
  <2> DEFINE First(i) == \A j \in having : i <= j
             first == CHOOSE i \in having : First(i)
  <2>1. having \subseteq Nat
    OBVIOUS
  <2>2. Learned(hits, k) = hits[first][k]
    BY <1>3 DEF Learned
  <2>3. \A i \in having : i \in DOMAIN hits /\ hits[i][k] # None
    OBVIOUS
  <2> HIDE DEF having
  <2>4. \E i \in having : First(i)
    BY <1>3, <2>1, Smallest
  <2> HIDE DEF First
  <2>5. first \in having
    BY <2>4
  <2> HIDE DEF first
  <2>6. QED
    BY <1>3, <2>2, <2>3, <2>5
<1>4. QED
  BY <1>1, <1>2, <1>3

LEMMA LearnedTyped ==
  ASSUME ids \in [Kinds -> Identifiers \cup {None}], NEW hits \in Seq(Candidates), NEW k \in Kinds
  PROVE  Learned(hits, k) \in Identifiers \cup {None}
<1>1. ASSUME k # "disc", NEW i \in DOMAIN hits PROVE hits[i][k] \in Identifiers
  <2>1. hits[i] \in Candidates
    OBVIOUS
  <2>2. hits[i].barcode \in Identifiers /\ hits[i].catalog \in Identifiers
    BY <2>1 DEF Identifiers
  <2>3. k \in {"barcode", "catalog"}
    BY <1>1 DEF Kinds
  <2>4. QED
    BY <2>2, <2>3
<1>2. QED
  BY <1>1, LearnedIs

\* A task's thread ends with a reply.
LEMMA Ends ==
  ASSUME Typed, NEW i, ThreadEnds(i)
  PROVE  /\ pc = "asking" /\ i \in DOMAIN tasks /\ DOMAIN results = DOMAIN tasks
         /\ results[i] = Running
         /\ \E r \in Reply :
              /\ r # Running /\ results' = [results EXCEPT ![i] = r]
              /\ said' = said \cup {[question |-> tasks[i], ok |-> r.ok, hits |-> r.hits]}
              /\ \E n \in 0..MaxHits : r.hits \in [1..n -> Candidates]
         /\ UNCHANGED <<pc, stage, ids, tasks, candidates, observations, resolution, rows>>
<1>1. PICK r \in Replies(tasks[i]) :
        /\ results' = [results EXCEPT ![i] = r]
        /\ said' = said \cup {[question |-> tasks[i], ok |-> r.ok, hits |-> r.hits]}
  BY DEF ThreadEnds
<1>2. r \in Reply /\ r # Running /\ \E n \in 0..MaxHits : r.hits \in [1..n -> Candidates]
  BY RepliesAre
<1>3. DOMAIN results = DOMAIN tasks
  BY DEF Typed
<1>4. QED
  BY <1>1, <1>2, <1>3 DEF ThreadEnds

\* The result of the first task is taken.
LEMMA Merges ==
  ASSUME Typed, MergeResult
  PROVE  LET r == results[1]
             o == [question |-> tasks[1], ok |-> r.ok, hits |-> r.hits] IN
         /\ pc = "merging" /\ tasks # <<>> /\ 1 \in DOMAIN tasks
         /\ r \in Reply /\ r # Running /\ o \in Observation /\ o = Said(1)
         /\ ids' = [k \in Kinds |-> Learned(r.hits, k)]
         /\ candidates' = candidates \cup ElementsOf(r.hits)
         /\ ElementsOf(r.hits) \subseteq Candidates /\ IsFiniteSet(ElementsOf(r.hits))
         /\ observations' \in Seq(Observation) /\ Len(observations') = Len(observations) + 1
         /\ \A n \in DOMAIN observations : observations'[n] = observations[n]
         /\ observations'[Len(observations) + 1] = o
         /\ tasks' \in Seq(Question) /\ results' \in Seq(Reply \cup {Running})
         /\ Len(tasks') = Len(tasks) - 1 /\ Len(results') = Len(tasks')
         /\ \A i \in DOMAIN tasks' : /\ tasks'[i] = tasks[i + 1] /\ results'[i] = results[i + 1]
                                     /\ i + 1 \in DOMAIN tasks
         /\ UNCHANGED <<pc, stage, resolution, rows, said>>
<1> DEFINE r == results[1]
           o == [question |-> tasks[1], ok |-> r.ok, hits |-> r.hits]
<1> USE DEF Typed
<1>1. /\ pc = "merging" /\ tasks # <<>>
      /\ ids' = [k \in Kinds |-> Learned(r.hits, k)]
      /\ candidates' = candidates \cup ElementsOf(r.hits)
      /\ tasks' = Tail(tasks) /\ results' = Tail(results)
      /\ UNCHANGED <<pc, stage, resolution, rows, said>>
  BY DEF MergeResult, ResultOfNext
<1>2. observations' = Append(observations, o)
  BY DEF MergeResult, ResultOfNext
<1>3. 1 \in DOMAIN tasks /\ 1 \in DOMAIN results /\ results # <<>>
  BY <1>1
<1>4. r \in Reply /\ r # Running
  BY <1>1, <1>3
<1>5. o \in Observation /\ tasks[1] \in Question
  BY <1>3, <1>4 DEF Observation, Reply
<1>6. r.hits \in Seq(Candidates)
  BY <1>4 DEF Reply
<1>7. ElementsOf(r.hits) \subseteq Candidates
  BY <1>6 DEF ElementsOf
<1>8. IsFiniteSet(ElementsOf(r.hits))
  <2> DEFINE hits == r.hits
  <2>1. hits \in Seq(Candidates)
    BY <1>6
  <2> HIDE DEF hits
  <2>2. Len(hits) \in Nat /\ DOMAIN hits = 1..Len(hits)
    BY <2>1
  <2>3. IsFiniteSet(1..Len(hits))
    BY <2>2, FS_Interval
  <2>4. hits \in Surjection(1..Len(hits), ElementsOf(hits))
    <3>1. ElementsOf(hits) = {hits[i] : i \in 1..Len(hits)}
      BY <2>2 DEF ElementsOf
    <3>2. hits \in [1..Len(hits) -> ElementsOf(hits)]
      BY <2>1, <3>1
    <3>3. QED
      BY <3>1, <3>2 DEF Surjection
  <2>5. IsFiniteSet(ElementsOf(hits))
    BY <2>3, <2>4, FS_Surjection
  <2>6. QED
    BY <2>5 DEF hits
<1> HIDE DEF r, o
<1>9. /\ observations' \in Seq(Observation) /\ Len(observations') = Len(observations) + 1
      /\ \A n \in 1..Len(observations) : observations'[n] = observations[n]
      /\ observations'[Len(observations) + 1] = o
  <2>1. observations \in Seq(Observation)
    OBVIOUS
  <2>2. QED
    BY <1>2, <1>5, <2>1, AppendProperties
<1>10. DOMAIN observations = 1..Len(observations)
  OBVIOUS
<1>11. ASSUME NEW S, NEW s \in Seq(S), s # <<>>
       PROVE  /\ Tail(s) \in Seq(S) /\ Len(Tail(s)) = Len(s) - 1
              /\ \A i \in DOMAIN Tail(s) : Tail(s)[i] = s[i + 1] /\ i + 1 \in DOMAIN s
  BY <1>11
<1>12. /\ tasks' \in Seq(Question) /\ Len(tasks') = Len(tasks) - 1
       /\ \A i \in DOMAIN tasks' : tasks'[i] = tasks[i + 1] /\ i + 1 \in DOMAIN tasks
  BY <1>1, <1>11
<1>13. /\ results' \in Seq(Reply \cup {Running}) /\ Len(results') = Len(results) - 1
       /\ \A i \in DOMAIN results' : results'[i] = results[i + 1]
  BY <1>1, <1>3, <1>11
<1>14. Len(results') = Len(tasks')
  BY <1>12, <1>13
<1>15. DOMAIN results' = DOMAIN tasks'
  BY <1>12, <1>13, <1>14
<1>16. o = Said(1)
  BY DEF o, r, Said
<1>17. QED
  BY <1>1, <1>3, <1>4, <1>5, <1>7, <1>8, <1>9, <1>10, <1>12, <1>13, <1>14, <1>15, <1>16 DEF o, r

-----------------------------------------------------------------------------
(* The invariant is inductive.                                             *)

Storing == StoreObservation \/ Unidentified \/ StoreCandidate \/ Project \/ StoreFails
Facts == <<stage, ids, tasks, results, candidates, observations, resolution, said>>

LEMMA StoringKeeps ==
  ASSUME Storing
  PROVE  pc = "observations" /\ pc' \in {"observations", "done", "failed"} /\ UNCHANGED Facts
BY DEF Storing, StoreObservation, Unidentified, StoreCandidate, EvidenceStored, Project, StoreFails, Facts

LEMMA Steps ==
  ASSUME [Next]_vars
  PROVE  \/ SkipStage \/ BeginStage \/ (\E i \in 1..Len(Slots) : ThreadEnds(i)) \/ JoinThreads
         \/ MergeResult \/ EndStage \/ Resolve \/ Storing \/ UNCHANGED vars
BY DEF Next, Attempt, SomeThreadEnds, Storing

LEMMA ObservationsAre ==
  ASSUME Typed, NEW n \in DOMAIN observations
  PROVE  /\ observations[n] \in Observation
         /\ observations[n].question \in Question /\ observations[n].question.tier \in 1..4
         /\ observations[n].hits \in Seq(Candidates)
<1>1. observations[n] \in Observation
  BY DEF Typed
<1>2. observations[n].question \in Question /\ observations[n].hits \in Seq(Candidates)
  BY <1>1 DEF Observation
<1>3. QED
  BY <1>1, <1>2, QuestionsHaveSlots

LEMMA TypedStep ==
  ASSUME Typed, [Next]_vars
  PROVE  Typed'
<1> USE DEF Typed
<1>1. ASSUME SkipStage PROVE Typed'
  BY <1>1 DEF SkipStage
<1>2. ASSUME BeginStage PROVE Typed'
  <2>1. tasks' = Questions(stage) /\ Questions(stage) \in Seq(Question)
    BY <1>2, QuestionsOf DEF BeginStage
  <2>2. /\ pc = "stage" /\ pc' = "asking" /\ stage <= 4
        /\ results' = [i \in DOMAIN tasks' |-> Running]
        /\ UNCHANGED <<stage, ids, candidates, observations, resolution, rows, said>>
    BY <1>2 DEF BeginStage
  <2>3. tasks' \in Seq(Question)
    BY <2>1
  <2>4. results' \in Seq(Reply \cup {Running}) /\ Len(results') = Len(tasks')
    <3> DEFINE n == Len(tasks')
    <3>1. n \in Nat /\ DOMAIN tasks' = 1..n
      BY <2>3
    <3>2. results' = [i \in 1..n |-> Running]
      BY <2>2, <3>1
    <3> HIDE DEF n
    <3>3. results' \in Seq(Reply \cup {Running}) /\ Len(results') = n
      BY <3>1, <3>2
    <3>4. QED
      BY <3>3 DEF n
  <2>5. QED
    BY <2>2, <2>3, <2>4
<1>3. ASSUME NEW i, ThreadEnds(i) PROVE Typed'
  <2>1. PICK r \in Reply : results' = [results EXCEPT ![i] = r]
    BY <1>3, Ends
  <2>2. results' \in Seq(Reply \cup {Running}) /\ Len(results') = Len(results)
    <3>1. ASSUME NEW S, NEW s \in Seq(S), NEW x \in S, i \in 1..Len(s)
          PROVE  [s EXCEPT ![i] = x] \in Seq(S) /\ Len([s EXCEPT ![i] = x]) = Len(s)
      BY <3>1, ExceptSeq
    <3>2. i \in 1..Len(results)
      BY <1>3, Ends
    <3>3. QED
      BY <2>1, <3>1, <3>2
  <2>3. pc = "asking" /\ UNCHANGED <<pc, stage, ids, tasks, candidates, observations>>
    BY <1>3, Ends
  <2>4. QED
    BY <2>2, <2>3
<1>4. ASSUME JoinThreads PROVE Typed'
  BY <1>4 DEF JoinThreads
<1>5. ASSUME MergeResult PROVE Typed'
  <2> DEFINE r == results[1]
  <2>1. /\ pc = "merging" /\ r \in Reply
        /\ ids' = [k \in Kinds |-> Learned(r.hits, k)]
        /\ candidates' = candidates \cup ElementsOf(r.hits)
        /\ ElementsOf(r.hits) \subseteq Candidates /\ IsFiniteSet(ElementsOf(r.hits))
        /\ observations' \in Seq(Observation)
        /\ tasks' \in Seq(Question) /\ results' \in Seq(Reply \cup {Running})
        /\ Len(results') = Len(tasks')
        /\ UNCHANGED <<pc, stage>>
    BY <1>5, Merges
  <2>2. \A k \in Kinds : Learned(r.hits, k) \in Identifiers \cup {None}
    <3>1. r.hits \in Seq(Candidates)
      BY <2>1 DEF Reply
    <3> HIDE DEF r
    <3>2. QED
      BY <3>1, LearnedTyped
  <2>3. ids' \in [Kinds -> Identifiers \cup {None}]
    BY <2>1, <2>2
  <2>4. candidates' \subseteq Candidates /\ IsFiniteSet(candidates')
    BY <2>1, FS_Union
  <2>5. \A i \in DOMAIN results' : results'[i] # Running
    <3>1. DOMAIN results' = DOMAIN tasks'
      BY <2>1
    <3>2. \A i \in DOMAIN tasks' : results'[i] = results[i + 1] /\ i + 1 \in DOMAIN tasks
      BY <1>5, Merges
    <3>3. DOMAIN results = DOMAIN tasks /\ \A i \in DOMAIN results : results[i] # Running
      BY <2>1
    <3>4. QED
      BY <3>1, <3>2, <3>3
  <2> HIDE DEF r
  <2>6. QED
    BY <2>1, <2>3, <2>4, <2>5
<1>6. ASSUME EndStage PROVE Typed'
  BY <1>6 DEF EndStage
<1>7. ASSUME Resolve PROVE Typed'
  BY <1>7 DEF Resolve
<1>8. ASSUME Storing PROVE Typed'
  BY <1>8, StoringKeeps DEF Facts
<1>9. ASSUME UNCHANGED vars PROVE Typed'
  BY <1>9 DEF vars
<1>10. QED
  BY <1>1, <1>2, <1>3, <1>4, <1>5, <1>6, <1>7, <1>8, <1>9, Steps

LEMMA OnceStep ==
  ASSUME Typed, AskedOnce, [Next]_vars
  PROVE  AskedOnce'
<1>1. ASSUME SkipStage PROVE AskedOnce'
  <2>1. /\ pc = "stage" /\ tasks = <<>> /\ stage' = stage + 1 /\ UNCHANGED <<pc, ids, tasks, observations>>
    <3>1. pc = "stage" => tasks = <<>>
      BY DEF Typed
    <3>2. QED
      BY <1>1, <3>1 DEF SkipStage
  <2>2. ASSUME NEW n \in DOMAIN observations
        PROVE  observations[n].question.tier <= stage + 1 /\ observations[n].question.tier < stage + 1
    <3>1. observations[n].question.tier \in 1..4
      BY ObservationsAre
    <3>2. stage \in 1..5
      BY DEF Typed
    <3>3. observations[n].question.tier <= stage
      BY DEF AskedOnce
    <3>4. QED
      BY <3>1, <3>2, <3>3
  <2>3. QED
    BY <2>1, <2>2 DEF AskedOnce
<1>2. ASSUME BeginStage PROVE AskedOnce'
  <2>1. /\ pc = "stage" /\ pc' = "asking" /\ tasks' = Questions(stage)
        /\ UNCHANGED <<stage, ids, observations>>
    BY <1>2 DEF BeginStage
  <2>2. /\ tasks' \in Seq(Question)
        /\ \A k \in DOMAIN tasks' : /\ tasks'[k].tier = stage /\ tasks'[k].value # None
                                    /\ tasks'[k].value = ids[tasks'[k].kind]
        /\ \A k, l \in DOMAIN tasks' : k # l => ~OfOneSlot(tasks'[k], tasks'[l])
    BY <2>1, QuestionsOf DEF Typed
  <2>3. ASSUME NEW n \in DOMAIN observations, NEW k \in DOMAIN tasks'
        PROVE  ~OfOneSlot(observations[n].question, tasks'[k])
    <3>1. /\ observations[n].question \in Question /\ observations[n].question.tier < stage
          /\ observations[n].question.tier \in Nat /\ stage \in Nat
      BY <2>1, ObservationsAre DEF Typed, AskedOnce
    <3>2. tasks'[k] \in Question /\ tasks'[k].tier = stage
      BY <2>2
    <3>3. observations[n].question.tier # tasks'[k].tier
      BY <3>1, <3>2
    <3>4. QED
      BY <3>1, <3>2, <3>3, QuestionsHaveSlots
  <2>4. QED
    BY <2>1, <2>2, <2>3 DEF AskedOnce
<1>3. ASSUME NEW i, ThreadEnds(i) PROVE AskedOnce'
  <2>1. UNCHANGED <<pc, stage, ids, tasks, observations>>
    BY <1>3, Ends
  <2>2. QED
    BY <2>1 DEF AskedOnce
<1>4. ASSUME JoinThreads PROVE AskedOnce'
  BY <1>4 DEF JoinThreads, AskedOnce
<1>5. ASSUME MergeResult PROVE AskedOnce'
  <2> DEFINE m == Len(observations)
  <2>1. /\ pc = "merging" /\ 1 \in DOMAIN tasks /\ UNCHANGED <<pc, stage>>
        /\ \A n \in 1..m : observations'[n] = observations[n]
        /\ observations'[m + 1].question = tasks[1]
        /\ \A i \in DOMAIN tasks' : tasks'[i] = tasks[i + 1] /\ i + 1 \in DOMAIN tasks /\ i + 1 # 1
        /\ m \in Nat /\ DOMAIN observations = 1..m /\ DOMAIN observations' = 1..(m + 1)
    <3>1. /\ pc = "merging" /\ 1 \in DOMAIN tasks /\ UNCHANGED <<pc, stage>>
          /\ \A n \in DOMAIN observations : observations'[n] = observations[n]
          /\ observations'[m + 1].question = tasks[1]
          /\ \A i \in DOMAIN tasks' : tasks'[i] = tasks[i + 1] /\ i + 1 \in DOMAIN tasks
          /\ observations' \in Seq(Observation) /\ Len(observations') = m + 1
          /\ tasks' \in Seq(Question)
      BY <1>5, Merges
    <3>2. m \in Nat /\ DOMAIN observations = 1..m
      BY DEF Typed
    <3>3. \A i \in DOMAIN tasks' : i + 1 # 1
      BY <3>1
    <3>4. DOMAIN observations' = 1..(m + 1)
      BY <3>1
    <3>5. QED
      BY <3>1, <3>2, <3>3, <3>4
  <2> HIDE DEF m
  <2>2. 1..(m + 1) = 1..m \cup {m + 1} /\ m + 1 \notin 1..m
    BY <2>1
  <2>3. \A n \in 1..m : ~OfOneSlot(observations[n].question, tasks[1])
    BY <2>1 DEF AskedOnce
  <2>4. \A n \in 1..m : ~OfOneSlot(tasks[1], observations[n].question)
    BY <2>3 DEF OfOneSlot
  <2>5. \A k, n \in DOMAIN observations' :
          k # n => ~OfOneSlot(observations'[k].question, observations'[n].question)
    BY <2>1, <2>2, <2>3, <2>4 DEF AskedOnce
  <2>6. \A i, j \in DOMAIN tasks' : i # j => ~OfOneSlot(tasks'[i], tasks'[j])
    <3>1. \A i, j \in DOMAIN tasks' : i # j => i + 1 # j + 1
      BY <1>5, Merges
    <3>2. QED
      BY <2>1, <3>1 DEF AskedOnce
  <2>7. \A n \in DOMAIN observations', i \in DOMAIN tasks' :
          ~OfOneSlot(observations'[n].question, tasks'[i])
    BY <2>1, <2>2 DEF AskedOnce
  <2>8. \A n \in DOMAIN observations' : observations'[n].question.tier <= stage
    <3>1. tasks[1].tier <= stage
      BY <2>1 DEF AskedOnce, Typed
    <3>2. QED
      BY <2>1, <2>2, <3>1 DEF AskedOnce
  <2>9. \A i \in DOMAIN tasks' : tasks'[i].tier = stage
    BY <2>1 DEF AskedOnce
  <2>10. QED
    BY <2>1, <2>5, <2>6, <2>7, <2>8, <2>9 DEF AskedOnce
<1>6. ASSUME EndStage PROVE AskedOnce'
  <2>1. /\ pc = "merging" /\ stage' = stage + 1 /\ pc' = "stage" /\ tasks = <<>>
        /\ UNCHANGED <<ids, tasks, observations>>
    BY <1>6 DEF EndStage
  <2>2. ASSUME NEW n \in DOMAIN observations
        PROVE  observations[n].question.tier <= stage + 1 /\ observations[n].question.tier < stage + 1
    <3>1. observations[n].question.tier <= stage /\ stage \in Nat
      BY DEF AskedOnce, Typed
    <3>2. observations[n].question.tier \in Nat
      BY ObservationsAre
    <3>3. QED
      BY <3>1, <3>2
  <2>3. QED
    BY <2>1, <2>2 DEF AskedOnce
<1>7. ASSUME Resolve PROVE AskedOnce'
  BY <1>7 DEF Resolve, AskedOnce
<1>8. ASSUME Storing PROVE AskedOnce'
  BY <1>8, StoringKeeps DEF Facts, AskedOnce
<1>9. ASSUME UNCHANGED vars PROVE AskedOnce'
  BY <1>9 DEF vars, AskedOnce
<1>10. QED
  BY <1>1, <1>2, <1>3, <1>4, <1>5, <1>6, <1>7, <1>8, <1>9, Steps

LEMMA SaidStep ==
  ASSUME Typed, AllSaid, [Next]_vars
  PROVE  AllSaid'
<1>1. ASSUME SkipStage PROVE AllSaid'
  BY <1>1 DEF SkipStage, AllSaid, Said
<1>2. ASSUME BeginStage PROVE AllSaid'
  <2>1. /\ tasks = <<>> /\ UNCHANGED <<candidates, observations, said>>
        /\ \A i \in DOMAIN tasks' : results'[i] = Running
    BY <1>2 DEF BeginStage, Typed
  <2>2. DOMAIN tasks = {}
    BY <2>1
  <2>3. QED
    BY <2>1, <2>2 DEF AllSaid
<1>3. ASSUME NEW i, ThreadEnds(i) PROVE AllSaid'
  <2>1. PICK r \in Reply : /\ r # Running /\ results' = [results EXCEPT ![i] = r]
                           /\ said' = said \cup {[question |-> tasks[i], ok |-> r.ok, hits |-> r.hits]}
    BY <1>3, Ends
  <2>2. /\ i \in DOMAIN tasks /\ DOMAIN results = DOMAIN tasks /\ results[i] = Running
        /\ UNCHANGED <<tasks, candidates, observations>>
    BY <1>3, Ends
  <2>3. results'[i] = r /\ \A j \in DOMAIN tasks : j # i => results'[j] = results[j]
    BY <2>1, <2>2
  <2>4. Said(i)' = [question |-> tasks[i], ok |-> r.ok, hits |-> r.hits]
        /\ \A j \in DOMAIN tasks : j # i => Said(j)' = Said(j)
    BY <2>2, <2>3 DEF Said
  <2> HIDE DEF Said
  <2>5. \A j \in DOMAIN tasks : results'[j] # Running => Said(j)' \in said'
    BY <2>1, <2>2, <2>3, <2>4 DEF AllSaid
  <2>6. ASSUME NEW t \in said'
        PROVE  \/ \E n \in DOMAIN observations : t = observations[n]
               \/ \E j \in DOMAIN tasks : results'[j] # Running /\ t = Said(j)'
    <3>1. CASE t \in said
      <4>1. CASE \E n \in DOMAIN observations : t = observations[n]
        BY <4>1
      <4>2. CASE \E j \in DOMAIN tasks : results[j] # Running /\ t = Said(j)
        BY <2>2, <2>3, <2>4, <4>2
      <4>3. QED
        BY <3>1, <4>1, <4>2 DEF AllSaid
    <3>2. CASE t \notin said
      BY <2>1, <2>2, <2>3, <2>4, <3>2
    <3>3. QED
      BY <3>1, <3>2
  <2>7. QED
    BY <2>1, <2>2, <2>5, <2>6 DEF AllSaid
<1>4. ASSUME JoinThreads PROVE AllSaid'
  BY <1>4 DEF JoinThreads, AllSaid, Said
<1>5. ASSUME MergeResult PROVE AllSaid'
  <2> DEFINE m == Len(observations)
             o == Said(1)
  <2>1. /\ 1 \in DOMAIN tasks /\ results[1] # Running /\ said' = said
        /\ candidates' = candidates \cup ElementsOf(o.hits)
        /\ \A n \in 1..m : observations'[n] = observations[n]
        /\ observations'[m + 1] = o
        /\ m \in Nat /\ DOMAIN observations = 1..m /\ DOMAIN observations' = 1..m \cup {m + 1}
    <3>1. /\ observations' \in Seq(Observation) /\ Len(observations') = m + 1
          /\ \A n \in DOMAIN observations : observations'[n] = observations[n]
          /\ observations'[m + 1] = o
          /\ 1 \in DOMAIN tasks /\ results[1] # Running /\ said' = said
      BY <1>5, Merges
    <3>2. m \in Nat /\ DOMAIN observations = 1..m
      BY DEF Typed
    <3>3. candidates' = candidates \cup ElementsOf(results[1].hits)
      BY <1>5, Merges
    <3>4. o.hits = results[1].hits
      BY DEF Said
    <3> HIDE DEF m, o
    <3>5. DOMAIN observations' = 1..m \cup {m + 1}
      BY <3>1, <3>2
    <3>6. QED
      BY <3>1, <3>2, <3>3, <3>4, <3>5
  <2>2. \A i \in DOMAIN tasks' : /\ tasks'[i] = tasks[i + 1] /\ results'[i] = results[i + 1]
                                 /\ i + 1 \in DOMAIN tasks /\ Said(i)' = Said(i + 1)
    BY <1>5, Merges DEF Said
  <2>3. ASSUME NEW j \in DOMAIN tasks, j # 1
        PROVE  \E i \in DOMAIN tasks' : j = i + 1
    <3>1. DOMAIN tasks = 1..Len(tasks) /\ Len(tasks) \in Nat
      BY DEF Typed
    <3>2. tasks' \in Seq(Question) /\ Len(tasks') = Len(tasks) - 1
      BY <1>5, Merges
    <3>3. DOMAIN tasks' = 1..(Len(tasks) - 1)
      BY <3>2
    <3>4. j - 1 \in DOMAIN tasks' /\ j = (j - 1) + 1
      BY <2>3, <3>1, <3>3
    <3>5. QED
      BY <3>4
  <2> HIDE DEF m, Said
  <2>4. o \in said
    BY <2>1 DEF AllSaid
  <2>5. \A n \in DOMAIN observations' : observations'[n] \in said'
    BY <2>1, <2>4 DEF AllSaid
  <2>6. \A i \in DOMAIN tasks' : results'[i] # Running => Said(i)' \in said'
    BY <2>1, <2>2 DEF AllSaid
  <2>7. ASSUME NEW t \in said'
        PROVE  \/ \E n \in DOMAIN observations' : t = observations'[n]
               \/ \E i \in DOMAIN tasks' : results'[i] # Running /\ t = Said(i)'
    <3>1. CASE \E n \in DOMAIN observations : t = observations[n]
      BY <2>1, <3>1
    <3>2. CASE \E j \in DOMAIN tasks : results[j] # Running /\ t = Said(j)
      <4>1. PICK j \in DOMAIN tasks : results[j] # Running /\ t = Said(j)
        BY <3>2
      <4>2. CASE j = 1
        BY <2>1, <4>1, <4>2
      <4>3. CASE j # 1
        BY <2>2, <2>3, <4>1, <4>3
      <4>4. QED
        BY <4>2, <4>3
    <3>3. QED
      BY <2>1, <3>1, <3>2 DEF AllSaid
  <2>8. \A n \in DOMAIN observations' : ElementsOf(observations'[n].hits) \subseteq candidates'
    BY <2>1 DEF AllSaid
  <2>9. ASSUME NEW c \in candidates'
        PROVE  \E n \in DOMAIN observations' : c \in ElementsOf(observations'[n].hits)
    <3>1. CASE c \in candidates
      <4>1. PICK n \in DOMAIN observations : c \in ElementsOf(observations[n].hits)
        BY <3>1 DEF AllSaid
      <4>2. QED
        BY <2>1, <4>1
    <3>2. CASE c \in ElementsOf(o.hits)
      BY <2>1, <3>2
    <3>3. QED
      BY <2>1, <3>1, <3>2
  <2>10. QED
    BY <2>5, <2>6, <2>7, <2>8, <2>9 DEF AllSaid
<1>6. ASSUME EndStage PROVE AllSaid'
  BY <1>6 DEF EndStage, AllSaid, Said
<1>7. ASSUME Resolve PROVE AllSaid'
  BY <1>7 DEF Resolve, AllSaid, Said
<1>8. ASSUME Storing PROVE AllSaid'
  BY <1>8, StoringKeeps DEF Facts, AllSaid, Said
<1>9. ASSUME UNCHANGED vars PROVE AllSaid'
  BY <1>9 DEF vars, AllSaid, Said
<1>10. QED
  BY <1>1, <1>2, <1>3, <1>4, <1>5, <1>6, <1>7, <1>8, <1>9, Steps

LEMMA DecidedStep ==
  ASSUME Typed, Decided, [Next]_vars
  PROVE  Decided'
<1> USE DEF Undecided
<1>1. ASSUME SkipStage PROVE Decided'
  BY <1>1 DEF SkipStage, Decided
<1>2. ASSUME BeginStage PROVE Decided'
  BY <1>2 DEF BeginStage, Decided
<1>3. ASSUME NEW i, ThreadEnds(i) PROVE Decided'
  <2>1. pc = "asking" /\ UNCHANGED <<pc, candidates, resolution>>
    BY <1>3, Ends
  <2>2. QED
    BY <2>1 DEF Decided
<1>4. ASSUME JoinThreads PROVE Decided'
  BY <1>4 DEF JoinThreads, Decided
<1>5. ASSUME MergeResult PROVE Decided'
  <2>1. pc = "merging" /\ UNCHANGED <<pc, resolution>>
    BY <1>5, Merges
  <2>2. QED
    BY <2>1 DEF Decided
<1>6. ASSUME EndStage PROVE Decided'
  BY <1>6 DEF EndStage, Decided
<1>7. ASSUME Resolve PROVE Decided'
  <2>1. /\ pc' = "observations" /\ candidates' = candidates
        /\ resolution' = IF candidates = {} THEN None ELSE Resolution(candidates)
    BY <1>7 DEF Resolve
  <2>2. candidates # {} => Choice(candidates, Resolution(candidates))
    BY ResolutionOf DEF Typed
  <2>3. QED
    BY <2>1, <2>2 DEF Decided
<1>8. ASSUME Storing PROVE Decided'
  BY <1>8, StoringKeeps DEF Facts, Decided
<1>9. ASSUME UNCHANGED vars PROVE Decided'
  BY <1>9 DEF vars, Decided
<1>10. QED
  BY <1>1, <1>2, <1>3, <1>4, <1>5, <1>6, <1>7, <1>8, <1>9, Steps

LEMMA PrefixFacts ==
  ASSUME NEW S, NEW s \in Seq(S), NEW t \in Seq(S), Prefix(s, t)
  PROVE  /\ Len(s) < Len(t) => Prefix(Append(s, t[Len(s) + 1]), t)
         /\ Len(s) = Len(t) => s = t
         /\ \A u \in Seq(S) : /\ Len(t) <= Len(u) /\ \A i \in 1..Len(t) : u[i] = t[i]
                              => Prefix(s, u)
<1>1. ASSUME Len(s) < Len(t) PROVE Prefix(Append(s, t[Len(s) + 1]), t)
  <2> DEFINE m == Len(s)  e == t[m + 1]
  <2>1. m \in Nat /\ m + 1 \in 1..Len(t)
    BY <1>1
  <2>2. e \in S
    BY <2>1
  <2>3. /\ Len(Append(s, e)) = m + 1 /\ \A i \in 1..m : Append(s, e)[i] = s[i]
        /\ Append(s, e)[m + 1] = e
    <3> HIDE DEF e
    <3>1. QED
      BY <2>2, AppendProperties
  <2>4. \A i \in 1..(m + 1) : i \in 1..m \/ i = m + 1
    BY <2>1
  <2>5. QED
    BY <1>1, <2>1, <2>3, <2>4 DEF Prefix
<1>2. ASSUME Len(s) = Len(t) PROVE s = t
  BY <1>2, SeqEqual DEF Prefix
<1>3. QED
  BY <1>1, <1>2 DEF Prefix

\* Once the attempt has decided, the resolution is a choice or None.
LEMMA ChoiceIs ==
  ASSUME Typed, Decided
  PROVE  /\ Undecided => resolution = Open
         /\ ~Undecided /\ candidates = {} => resolution = None
         /\ ~Undecided /\ candidates # {} => Choice(candidates, resolution)
         /\ resolution \notin {Open, None} <=> ~Undecided /\ resolution # None
         /\ resolution \notin {Open, None} =>
              /\ Choice(candidates, resolution) /\ candidates # {}
              /\ resolution.ranked \in Seq(Candidates) /\ Len(resolution.ranked) >= 1
              /\ resolution.ranked[1] \in candidates /\ resolution.ranked[1] # None
<1>1. ASSUME Choice(candidates, resolution) PROVE resolution \notin {Open, None}
  BY <1>1, CandidatesAssumption DEF Choice
<1>2. Open # None
  BY CandidatesAssumption
<1>3. ASSUME resolution \notin {Open, None}
      PROVE  /\ Choice(candidates, resolution) /\ candidates # {}
             /\ resolution.ranked \in Seq(Candidates) /\ Len(resolution.ranked) >= 1
             /\ resolution.ranked[1] \in candidates /\ resolution.ranked[1] # None
  <2>1. ~Undecided /\ candidates # {} /\ Choice(candidates, resolution)
    BY <1>3 DEF Decided
  <2>2. /\ resolution.ranked \in Seq(Candidates) /\ Len(resolution.ranked) >= 1
        /\ ElementsOf(resolution.ranked) = candidates
    BY <2>1 DEF Choice
  <2> DEFINE s == resolution.ranked
  <2>3. s \in Seq(Candidates) /\ Len(s) >= 1
    BY <2>2
  <2> HIDE DEF s
  <2>4. s[1] \in ElementsOf(s) /\ s[1] \in Candidates
    BY <2>3 DEF ElementsOf
  <2>5. s[1] # None
    BY <2>4, CandidatesAssumption
  <2>6. QED
    BY <2>1, <2>2, <2>4, <2>5 DEF s
<1>4. QED
  BY <1>1, <1>2, <1>3 DEF Decided

\* Neither a candidate row nor a projection is there before the choice.
LEMMA RowsWait ==
  ASSUME Typed, Decided, RowsFollow, Undecided
  PROVE  rows.candidates = <<>> /\ rows.projection = None
BY DEF RowsFollow, Undecided

LEMMA StoresObservation ==
  ASSUME Typed, Decided, RowsAre, RowsFollow, StoreObservation
  PROVE  RowsAre' /\ RowsFollow'
<1> DEFINE s == rows.observations
           e == observations[Len(s) + 1]
<1>1. /\ pc = "observations" /\ Len(s) < Len(observations)
      /\ rows' = [rows EXCEPT !.observations = Append(s, e)]
      /\ UNCHANGED <<pc, stage, ids, tasks, results, candidates, observations, resolution, said>>
  BY DEF StoreObservation
<1>2. /\ rows'.observations = Append(s, e) /\ rows'.candidates = rows.candidates
      /\ rows'.projection = rows.projection /\ rows'.disagreements = rows.disagreements
      /\ rows'.ambiguity = rows.ambiguity /\ rows'.status = rows.status
      /\ rows'.confidence = rows.confidence
      /\ rows' = [observations |-> rows'.observations, candidates |-> rows'.candidates,
                  projection |-> rows'.projection, disagreements |-> rows'.disagreements,
                  ambiguity |-> rows'.ambiguity, status |-> rows'.status,
                  confidence |-> rows'.confidence]
  BY <1>1 DEF RowsAre
<1>3. s \in Seq(Observation) /\ observations \in Seq(Observation) /\ Prefix(s, observations)
  BY DEF RowsAre, Typed, RowsFollow
<1>4. Prefix(Append(s, e), observations)
  <2> HIDE DEF s
  <2>1. QED
    BY <1>1, <1>3, PrefixFacts DEF e
<1>5. Append(s, e) \in Seq(Observation)
  <2>1. Len(s) + 1 \in 1..Len(observations)
    BY <1>1, <1>3
  <2>2. e \in Observation
    BY <1>3, <2>1
  <2> HIDE DEF s, e
  <2>3. QED
    BY <1>3, <2>2, AppendProperties
<1>6. rows.candidates = <<>> /\ rows.projection = None
  <2>1. rows.observations # observations
    BY <1>1
  <2>2. QED
    BY <2>1 DEF RowsFollow
<1> HIDE DEF s, e
<1>7. RowsAre'
  BY <1>2, <1>5 DEF RowsAre
<1>8. RowsFollow'
  BY <1>1, <1>2, <1>4, <1>6 DEF RowsFollow
<1>9. QED
  BY <1>7, <1>8

LEMMA StoresCandidate ==
  ASSUME Typed, Decided, RowsAre, RowsFollow, StoreCandidate
  PROVE  RowsAre' /\ RowsFollow'
<1> DEFINE s == rows.candidates
           t == resolution.ranked
           e == t[Len(s) + 1]
<1>1. /\ pc = "observations" /\ rows.observations = observations /\ resolution # None
      /\ Len(s) < Len(t)
      /\ rows' = [rows EXCEPT !.candidates = Append(s, e)]
      /\ UNCHANGED <<pc, stage, ids, tasks, results, candidates, observations, resolution, said>>
  BY DEF StoreCandidate
<1>2. /\ rows'.observations = rows.observations /\ rows'.candidates = Append(s, e)
      /\ rows'.projection = rows.projection /\ rows'.disagreements = rows.disagreements
      /\ rows'.ambiguity = rows.ambiguity /\ rows'.status = rows.status
      /\ rows'.confidence = rows.confidence
      /\ rows' = [observations |-> rows'.observations, candidates |-> rows'.candidates,
                  projection |-> rows'.projection, disagreements |-> rows'.disagreements,
                  ambiguity |-> rows'.ambiguity, status |-> rows'.status,
                  confidence |-> rows'.confidence]
  BY <1>1 DEF RowsAre
<1>3. ~Undecided /\ rows.projection = None
  BY <1>1 DEF Undecided, RowsFollow
<1>4. s \in Seq(Candidates) /\ t \in Seq(Candidates)
  BY <1>1, <1>3, ChoiceIs DEF RowsAre
<1>5. Prefix(s, t)
  <2>1. CASE s = <<>>
    BY <1>1, <2>1 DEF Prefix
  <2>2. CASE s # <<>>
    BY <2>2 DEF RowsFollow
  <2>3. QED
    BY <2>1, <2>2
<1> HIDE DEF s, t
<1>6. Prefix(Append(s, e), t)
  BY <1>1, <1>4, <1>5, PrefixFacts DEF e
<1>7. Append(s, e) \in Seq(Candidates)
  <2>1. Len(s) + 1 \in 1..Len(t)
    BY <1>1, <1>4
  <2>2. e \in Candidates
    BY <1>4, <2>1
  <2> HIDE DEF e
  <2>3. QED
    BY <1>4, <2>2, AppendProperties
<1> HIDE DEF e
<1>8. t' = t /\ Undecided' = Undecided
  BY <1>1 DEF t, Undecided
<1>9. RowsAre'
  BY <1>2, <1>7 DEF RowsAre
<1>10. RowsFollow'
  <2>1. Prefix(rows'.observations, observations')
    BY <1>1, <1>2 DEF RowsFollow
  <2>2. resolution'.ranked = t
    BY <1>1 DEF t
  <2>3. QED
    BY <1>1, <1>2, <1>3, <1>6, <1>8, <2>1, <2>2 DEF RowsFollow
<1>11. QED
  BY <1>9, <1>10

LEMMA Projects ==
  ASSUME Typed, Decided, RowsAre, RowsFollow, Project
  PROVE  RowsAre' /\ RowsFollow'
<1> DEFINE s == rows.candidates
           t == resolution.ranked
<1>1. /\ pc = "observations" /\ rows.observations = observations /\ resolution # None
      /\ Len(s) = Len(t) /\ pc' = "done"
      /\ UNCHANGED <<stage, ids, tasks, results, candidates, observations, resolution, said>>
  BY DEF Project, EvidenceStored
<1>2. /\ rows'.observations = rows.observations /\ rows'.candidates = s
      /\ rows'.projection = t[1] /\ rows'.status = "resolved"
      /\ rows'.confidence = IF resolution.ambiguous THEN "low" ELSE "high"
      /\ rows'.disagreements = Disagreements(t)
      /\ rows' = [observations |-> rows'.observations, candidates |-> rows'.candidates,
                  projection |-> rows'.projection, disagreements |-> rows'.disagreements,
                  ambiguity |-> rows'.ambiguity, status |-> rows'.status,
                  confidence |-> rows'.confidence]
  BY DEF Project, RowsAre
<1>3. ~Undecided
  BY <1>1 DEF Undecided
<1>4. s \in Seq(Candidates) /\ t \in Seq(Candidates)
  BY <1>1, <1>3, ChoiceIs DEF RowsAre
<1>5. Prefix(s, t)
  <2>1. CASE s = <<>>
    BY <1>1, <1>4, <2>1 DEF Prefix
  <2>2. CASE s # <<>>
    BY <2>2 DEF RowsFollow
  <2>3. QED
    BY <2>1, <2>2
<1> HIDE DEF s, t
<1>6. s = t
  BY <1>1, <1>4, <1>5, PrefixFacts
<1>7. resolution'.ranked = t /\ resolution'.ambiguous = resolution.ambiguous /\ ~Undecided'
  BY <1>1 DEF t, Undecided
<1>8. RowsAre'
  BY <1>2, <1>4 DEF RowsAre, s
<1>9. RowsFollow'
  <2>1. Prefix(rows'.observations, observations')
    BY <1>1, <1>2 DEF RowsFollow
  <2>2. Prefix(t, t)
    BY <1>4 DEF Prefix
  <2>3. QED
    BY <1>1, <1>2, <1>6, <1>7, <2>1, <2>2 DEF RowsFollow
<1>10. QED
  BY <1>8, <1>9

LEMMA RowsStep ==
  ASSUME Typed, Decided, RowsAre, RowsFollow, [Next]_vars
  PROVE  RowsAre' /\ RowsFollow'
<1>1. ASSUME Undecided, rows' = rows, Prefix(rows.observations, observations')
      PROVE  RowsAre' /\ RowsFollow'
  <2>1. rows.candidates = <<>> /\ rows.projection = None
    BY <1>1, RowsWait
  <2>2. QED
    BY <1>1, <2>1 DEF RowsAre, RowsFollow
<1>2. ASSUME Undecided, UNCHANGED <<rows, observations>> PROVE RowsAre' /\ RowsFollow'
  <2>1. Prefix(rows.observations, observations')
    BY <1>2 DEF RowsFollow
  <2>2. QED
    BY <1>1, <1>2, <2>1
<1>3. ASSUME SkipStage PROVE RowsAre' /\ RowsFollow'
  BY <1>2, <1>3 DEF SkipStage, Undecided
<1>4. ASSUME BeginStage PROVE RowsAre' /\ RowsFollow'
  BY <1>2, <1>4 DEF BeginStage, Undecided
<1>5. ASSUME NEW i, ThreadEnds(i) PROVE RowsAre' /\ RowsFollow'
  BY <1>2, <1>5 DEF ThreadEnds, Undecided
<1>6. ASSUME JoinThreads PROVE RowsAre' /\ RowsFollow'
  BY <1>2, <1>6 DEF JoinThreads, Undecided
<1>7. ASSUME MergeResult PROVE RowsAre' /\ RowsFollow'
  <2>1. /\ pc = "merging" /\ rows' = rows
        /\ observations' \in Seq(Observation) /\ Len(observations') = Len(observations) + 1
        /\ \A n \in DOMAIN observations : observations'[n] = observations[n]
    BY <1>7, Merges
  <2>2. /\ rows.observations \in Seq(Observation) /\ observations \in Seq(Observation)
        /\ Prefix(rows.observations, observations)
    BY DEF RowsAre, RowsFollow, Typed
  <2>3. Len(observations) <= Len(observations') /\ \A n \in 1..Len(observations) : observations'[n] = observations[n]
    BY <2>1, <2>2
  <2>4. Prefix(rows.observations, observations')
    BY <2>1, <2>2, <2>3, PrefixFacts
  <2>5. QED
    BY <1>1, <2>1, <2>4 DEF Undecided
<1>8. ASSUME EndStage PROVE RowsAre' /\ RowsFollow'
  BY <1>2, <1>8 DEF EndStage, Undecided
<1>9. ASSUME Resolve PROVE RowsAre' /\ RowsFollow'
  BY <1>2, <1>9 DEF Resolve, Undecided
<1>10. ASSUME Unidentified PROVE RowsAre' /\ RowsFollow'
  <2>1. /\ pc = "observations" /\ resolution = None /\ pc' = "done"
        /\ rows' = [rows EXCEPT !.status = "unidentified"]
        /\ UNCHANGED <<observations, resolution>>
    BY <1>10 DEF Unidentified
  <2>2. /\ rows'.observations = rows.observations /\ rows'.candidates = rows.candidates
        /\ rows'.projection = rows.projection /\ rows'.status = "unidentified"
        /\ rows' = [observations |-> rows'.observations, candidates |-> rows'.candidates,
                    projection |-> rows'.projection, disagreements |-> rows'.disagreements,
                    ambiguity |-> rows'.ambiguity, status |-> rows'.status,
                    confidence |-> rows'.confidence]
    BY <2>1 DEF RowsAre
  <2>3. RowsAre'
    BY <2>2 DEF RowsAre
  <2>4. RowsFollow'
    BY <2>1, <2>2 DEF RowsFollow
  <2>5. QED
    BY <2>3, <2>4
<1>11. ASSUME StoreFails PROVE RowsAre' /\ RowsFollow'
  <2>1. pc = "observations" /\ pc' = "failed" /\ UNCHANGED <<observations, resolution, rows>>
    BY <1>11 DEF StoreFails
  <2>2. QED
    BY <2>1 DEF RowsAre, RowsFollow, Undecided
<1>12. ASSUME UNCHANGED vars PROVE RowsAre' /\ RowsFollow'
  BY <1>12 DEF vars, RowsAre, RowsFollow, Undecided
<1>13. QED
  BY <1>3, <1>4, <1>5, <1>6, <1>7, <1>8, <1>9, <1>10, <1>11, <1>12, Steps,
     StoresObservation, StoresCandidate, Projects DEF Storing

LEMMA InitInv ==
  ASSUME Init
  PROVE  Inv
<1>1. PICK given \in Givens : ids = [disc |-> "toc", barcode |-> given, catalog |-> None]
  BY DEF Init
<1>2. /\ pc = "stage" /\ stage = 1 /\ tasks = <<>> /\ results = <<>> /\ candidates = {}
      /\ observations = <<>> /\ resolution = Open /\ said = {}
      /\ rows = [observations |-> <<>>, candidates |-> <<>>, projection |-> None,
                 disagreements |-> {}, ambiguity |-> None, status |-> "working", confidence |-> None]
  BY DEF Init
<1>3. ids \in [Kinds -> Identifiers \cup {None}]
  BY <1>1 DEF Kinds, Identifiers
<1>4. Typed
  BY <1>2, <1>3, FS_EmptySet DEF Typed
<1>5. AskedOnce
  BY <1>2 DEF AskedOnce
<1>6. AllSaid
  BY <1>2 DEF AllSaid
<1>7. Decided
  BY <1>2 DEF Decided, Undecided
<1>8. RowsAre
  BY <1>2 DEF RowsAre
<1>9. RowsFollow
  BY <1>2 DEF RowsFollow, Prefix
<1>10. QED
  BY <1>4, <1>5, <1>6, <1>7, <1>8, <1>9 DEF Inv

LEMMA Inductive == Spec => []Inv
<1>1. ASSUME Inv, [Next]_vars PROVE Inv'
  BY <1>1, TypedStep, OnceStep, SaidStep, DecidedStep, RowsStep DEF Inv
<1>2. QED
  BY <1>1, InitInv, PTL DEF Spec

-----------------------------------------------------------------------------
(* What follows from it.                                                   *)

\* No more questions than slots.
LEMMA AtMostSix ==
  ASSUME NEW qs \in Seq(Question),
         \A i, j \in DOMAIN qs : i # j => ~OfOneSlot(qs[i], qs[j])
  PROVE  Len(qs) <= Len(Slots)
<1> DEFINE n == Len(qs)
           slot == [i \in 1..n |-> CHOOSE k \in 1..6 : OfOneSlot(qs[i], Slots[k])]
<1>1. n \in Nat /\ DOMAIN qs = 1..n /\ \A i \in 1..n : qs[i] \in Question
  OBVIOUS
<1>2. ASSUME NEW i \in 1..n PROVE slot[i] \in 1..6 /\ OfOneSlot(qs[i], Slots[slot[i]])
  <2>1. \E k \in 1..6 : OfOneSlot(qs[i], Slots[k])
    BY <1>1, QuestionsHaveSlots
  <2>2. QED
    BY <2>1
<1> HIDE DEF n
<1>3. slot \in [1..n -> 1..6]
  BY <1>2
<1> HIDE DEF slot
<1>4. ASSUME NEW i \in 1..n, NEW j \in 1..n, slot[i] = slot[j] PROVE i = j
  <2>1. OfOneSlot(qs[i], qs[j])
    BY <1>2, <1>4 DEF OfOneSlot
  <2>2. QED
    BY <1>1, <2>1
<1>5. slot \in Injection(1..n, 1..6)
  BY <1>3, <1>4 DEF Injection, IsInjective
<1>6. ASSUME NEW m \in Nat PROVE IsFiniteSet(1..m) /\ Cardinality(1..m) = m
  BY FS_Interval
<1>7. Cardinality(1..n) <= Cardinality(1..6)
  <2>1. IsFiniteSet(1..6)
    BY <1>6
  <2>2. QED
    BY <1>5, <2>1, FS_Injection
<1>8. n <= 6
  BY <1>1, <1>6, <1>7
<1>9. QED
  BY <1>8 DEF n, Slots

LEMMA InvTypes ==
  ASSUME Inv
  PROVE  TypeOK
<1> USE DEF Inv
<1>1. DOMAIN ids = Kinds /\ Len(results) = Len(tasks) /\ candidates \subseteq Candidates
      /\ pc \in {"stage", "asking", "merging", "observations", "done", "failed"} /\ stage \in 1..5
  BY DEF Typed
<1>2. Len(tasks) <= Len(Slots)
  BY AtMostSix DEF Typed, AskedOnce
<1>3. Len(observations) <= Len(Slots)
  <2> DEFINE m == Len(observations)
             qs == [n \in 1..m |-> observations[n].question]
  <2>1. m \in Nat /\ DOMAIN observations = 1..m
    BY DEF Typed
  <2>2. \A n \in 1..m : observations[n].question \in Question
    BY <2>1, ObservationsAre
  <2>3. \A i, j \in 1..m : i # j => ~OfOneSlot(qs[i], qs[j])
    BY <2>1 DEF AskedOnce
  <2> HIDE DEF m
  <2>4. qs \in Seq(Question) /\ Len(qs) = m /\ DOMAIN qs = 1..m
    BY <2>1, <2>2
  <2> HIDE DEF qs
  <2>5. m <= Len(Slots)
    BY <2>3, <2>4, AtMostSix
  <2>6. QED
    BY <2>5 DEF m
<1>4. ASSUME NEW s \in Seq(Candidates) PROVE IsCandidateSeq(s)
  BY DEF IsCandidateSeq, ElementsOf
<1>5. resolution \in {Open, None} \/ IsCandidateSeq(resolution.ranked)
  BY <1>4, ChoiceIs
<1>6. IsCandidateSeq(rows.candidates) /\ rows.status \in {"working", "unidentified", "resolved"}
  BY <1>4 DEF RowsAre
<1>7. QED
  BY <1>1, <1>2, <1>3, <1>5, <1>6 DEF TypeOK

\* What is recorded when no question is open.
LEMMA AllMerged ==
  ASSUME Inv, pc \notin {"asking", "merging"}
  PROVE  ElementsOf(observations) = said /\ candidates = Found
<1>1. tasks = <<>>
  BY DEF Inv, Typed
<1>2. \A t : t \in said <=> \E n \in DOMAIN observations : t = observations[n]
  BY <1>1 DEF Inv, AllSaid
<1>3. ElementsOf(observations) = said
  BY <1>2 DEF ElementsOf
<1>4. ASSUME NEW c \in candidates PROVE c \in Found
  <2>1. PICK n \in DOMAIN observations : c \in ElementsOf(observations[n].hits)
    BY DEF Inv, AllSaid
  <2>2. QED
    BY <1>2, <2>1 DEF Found
<1>5. ASSUME NEW c \in Found PROVE c \in candidates
  <2>1. PICK t \in said : c \in ElementsOf(t.hits)
    BY DEF Found
  <2>2. PICK n \in DOMAIN observations : t = observations[n]
    BY <1>2
  <2>3. QED
    BY <2>1, <2>2 DEF Inv, AllSaid
<1>6. QED
  BY <1>3, <1>4, <1>5

\* What is projected is the choice among all that was found, as it was stored.
LEMMA ProjectedFromAll ==
  ASSUME Inv, rows.projection # None
  PROVE  /\ pc = "done" /\ resolution \notin {Open, None} /\ Choice(Found, resolution)
         /\ rows.observations = observations /\ rows.candidates = resolution.ranked
         /\ rows.projection = resolution.ranked[1]
         /\ rows.confidence = IF resolution.ambiguous THEN "low" ELSE "high"
         /\ rows.disagreements = Disagreements(resolution.ranked)
<1>1. /\ pc = "done" /\ resolution # None
      /\ rows.observations = observations /\ rows.candidates = resolution.ranked
      /\ rows.projection = resolution.ranked[1]
      /\ rows.confidence = IF resolution.ambiguous THEN "low" ELSE "high"
      /\ rows.disagreements = Disagreements(resolution.ranked)
  BY DEF Inv, RowsFollow
<1>2. candidates = Found
  BY <1>1, AllMerged
<1>3. resolution \notin {Open, None} /\ Choice(candidates, resolution)
  BY <1>1, ChoiceIs DEF Undecided, Inv
<1>4. QED
  BY <1>1, <1>2, <1>3

\* EvidenceKept: what every provider came back with is recorded under its own
\* question, takes part in the choice and is in the tables before the choice
\* shows, whatever the order of the threads and whatever fails.
THEOREM EvidenceIsKeptWhole == Spec => []EvidenceKept
<1>1. ASSUME Inv PROVE NothingLost
  <2>1. ASSUME pc \notin {"asking", "merging"}
        PROVE  /\ ElementsOf(observations) = said /\ candidates = Found
               /\ resolution \notin {Open, None} => ElementsOf(resolution.ranked) = Found
    <3>1. ElementsOf(observations) = said /\ candidates = Found
      BY <1>1, <2>1, AllMerged
    <3>2. ASSUME resolution \notin {Open, None} PROVE ElementsOf(resolution.ranked) = candidates
      BY <1>1, <3>2, ChoiceIs DEF Inv, Choice
    <3>3. QED
      BY <3>1, <3>2
  <2>2. QED
    BY <2>1 DEF NothingLost
<1>2. ASSUME Inv PROVE StoredBeforeProjected
  <2>1. ASSUME rows.projection # None
        PROVE  ElementsOf(rows.observations) = said /\ ElementsOf(rows.candidates) = Found
    <3>1. pc = "done" /\ rows.observations = observations /\ rows.candidates = resolution.ranked
          /\ Choice(Found, resolution)
      BY <1>2, <2>1, ProjectedFromAll
    <3>2. ElementsOf(observations) = said
      BY <1>2, <3>1, AllMerged
    <3>3. QED
      BY <3>1, <3>2 DEF Choice
  <2>2. QED
    BY <2>1 DEF StoredBeforeProjected
<1>3. Inv => EvidenceKept
  BY <1>1, <1>2, InvTypes DEF EvidenceKept
<1>4. QED
  BY <1>3, Inductive, PTL

\* LowIffTied: the confidence is low exactly if another candidate has the whole
\* evidence of the projected one, and none has more, although the code compares
\* the best candidate with the next one only.
THEOREM ConfidenceMeansTie == Spec => []LowIffTied
<1>1. ASSUME Inv, rows.projection # None
      PROVE  LET others == Found \ {rows.projection} IN
             /\ \A o \in others : ~Exceeds(Evidence(Found, o), Evidence(Found, rows.projection))
             /\ rows.confidence = "low" <=>
                  \E o \in others : Evidence(Found, o) = Evidence(Found, rows.projection)
  <2>1. /\ Choice(Found, resolution) /\ rows.projection = resolution.ranked[1]
        /\ rows.confidence = IF resolution.ambiguous THEN "low" ELSE "high"
    BY <1>1, ProjectedFromAll
  <2> DEFINE Of(c) == Evidence(Found, c)
  <2>2. /\ \A o \in Found : ~Exceeds(Of(o), Of(rows.projection))
        /\ resolution.ambiguous <=> \E o \in Found \ {rows.projection} : Of(o) = Of(rows.projection)
    BY <2>1 DEF Choice
  <2>3. rows.confidence = "low" <=> resolution.ambiguous
    BY <2>1
  <2> HIDE DEF Of
  <2>4. /\ \A o \in Found \ {rows.projection} : ~Exceeds(Of(o), Of(rows.projection))
        /\ rows.confidence = "low" <=> \E o \in Found \ {rows.projection} : Of(o) = Of(rows.projection)
    BY <2>2, <2>3
  <2>5. QED
    BY <2>4 DEF Of
<1>2. Inv => LowIffTied
  BY <1>1 DEF LowIffTied
<1>3. QED
  BY <1>2, Inductive, PTL

-----------------------------------------------------------------------------
(* The differences.                                                        *)

\* A winner has a value, none has more votes, and none of as many is before it.
LEMMA WinnerOf ==
  ASSUME NEW s, NEW among, among \subseteq Nat, IsFiniteSet(among), NEW f,
         Providing(s, among, f) # {}
  PROVE  LET votes == Votes(s, among, f)
             w     == Winner(s, among, f)
         IN  /\ w \in Providing(s, among, f)
             /\ \A j \in Providing(s, among, f) :
                  votes[j] < votes[w] \/ (votes[j] = votes[w] /\ w <= j)
<1> DEFINE P == Providing(s, among, f)
           votes == Votes(s, among, f)
           n == Cardinality(P)
           Wins(i) == \A j \in P : votes[j] < votes[i] \/ (votes[j] = votes[i] /\ i <= j)
<1>1. P \subseteq Nat /\ P # {} /\ IsFiniteSet(P) /\ n \in Nat
  BY FS_Subset, FS_CardinalityType DEF Providing
<1>2. DOMAIN votes = P /\ \A i \in P : votes[i] \in 0..n
  <2>1. \A i \in P : votes[i] = Cardinality({j \in P : s[j][f] = s[i][f]})
    BY DEF Votes
  <2>2. ASSUME NEW i \in P PROVE votes[i] \in 0..n
    <3> DEFINE T == {j \in P : s[j][f] = s[i][f]}
    <3>1. T \subseteq P /\ votes[i] = Cardinality(T)
      BY <2>1
    <3> HIDE DEF T, votes
    <3>2. Cardinality(T) \in Nat /\ Cardinality(T) <= Cardinality(P)
      BY <1>1, <3>1, FS_Subset, FS_CardinalityType
    <3>3. QED
      BY <1>1, <3>1, <3>2
  <2>3. QED
    BY <2>2 DEF Votes
<1>3. Winner(s, among, f) = CHOOSE i \in P : Wins(i)
  BY <1>2 DEF Winner
<1> HIDE DEF P, votes, n
<1>4. PICK m \in {n - votes[i] : i \in P} : \A d \in {n - votes[i] : i \in P} : m <= d
  <2> DEFINE D == {n - votes[i] : i \in P}
  <2>1. D \subseteq Nat /\ D # {}
    <3>1. ASSUME NEW i \in P PROVE n - votes[i] \in Nat
      BY <1>1, <1>2
    <3>2. PICK i \in P : TRUE
      BY <1>1
    <3>3. n - votes[i] \in D
      OBVIOUS
    <3>4. QED
      BY <3>1, <3>3
  <2> HIDE DEF D
  <2>2. \E m \in D : \A d \in D : m <= d
    BY <2>1, Smallest
  <2>3. QED
    BY <2>2 DEF D
<1>5. PICK i \in {k \in P : n - votes[k] = m} : \A k \in {l \in P : n - votes[l] = m} : i <= k
  <2> DEFINE F == {k \in P : n - votes[k] = m}
  <2>1. F \subseteq Nat /\ F # {}
    BY <1>1, <1>4
  <2> HIDE DEF F
  <2>2. \E k \in F : \A l \in F : k <= l
    BY <2>1, Smallest
  <2>3. QED
    BY <2>2 DEF F
<1>6. i \in P /\ Wins(i)
  <2>1. ASSUME NEW j \in P PROVE votes[j] < votes[i] \/ (votes[j] = votes[i] /\ i <= j)
    <3>1. n - votes[i] = m /\ m <= n - votes[j]
      BY <1>4, <1>5
    <3>2. votes[i] \in 0..n /\ votes[j] \in 0..n /\ n \in Nat
      BY <1>1, <1>2, <1>5
    <3>3. CASE votes[j] = votes[i]
      BY <1>5, <3>1, <3>3
    <3>4. CASE votes[j] # votes[i]
      BY <3>1, <3>2, <3>4
    <3>5. QED
      BY <3>3, <3>4
  <2>2. QED
    BY <1>5, <2>1
<1>7. Winner(s, among, f) \in P /\ Wins(Winner(s, among, f))
  <2> HIDE DEF Wins
  <2>1. QED
    BY <1>3, <1>6
<1>8. QED
  BY <1>7 DEF P, votes

\* No release is there as two media.
OneMedium == \A c, o \in Candidates : c.mbid # None /\ c.mbid = o.mbid => c = o

\* When no release is there twice, the first candidate is of the cohort, and so
\* is a candidate that names no release or the same one.
LEMMA FirstIsInCohort ==
  ASSUME OneMedium, NEW C, NEW r, Choice(C, r)
  PROVE  LET s == r.ranked IN
         /\ 1 \in Cohort(s)
         /\ \A k \in 1..Len(s) : s[k].mbid \in {None, s[1].mbid} => k \in Cohort(s)
<1> DEFINE s == r.ranked
           n == Len(s)
           P == Providing(s, 1..n, "mbid")
           w == Winner(s, 1..n, "mbid")
           votes == Votes(s, 1..n, "mbid")
<1>1. /\ s \in Seq(Candidates) /\ n >= 1
      /\ \A k, l \in 1..n : s[k] = s[l] => k = l
  BY DEF Choice
<1> HIDE DEF s
<1>2. /\ n \in Nat /\ DOMAIN s = 1..n /\ \A k \in 1..n : s[k] \in Candidates
      /\ 1..n \subseteq Nat /\ IsFiniteSet(1..n) /\ 1 \in 1..n
  BY <1>1, FS_Interval
<1>3. P = {k \in 1..n : s[k].mbid # None}
  BY DEF Providing
<1>4. ASSUME s[1].mbid # None PROVE PickMbid(s) = s[1].mbid
  <2>1. 1 \in P
    BY <1>2, <1>3, <1>4
  <2>2. ASSUME NEW k \in P PROVE votes[k] = 1
    <3> DEFINE T == {j \in P : s[j]["mbid"] = s[k]["mbid"]}
    <3>1. votes[k] = Cardinality(T)
      BY <2>2 DEF Votes
    <3>2. ASSUME NEW j \in T PROVE j = k
      <4>1. s[j] \in Candidates /\ s[k] \in Candidates /\ s[k].mbid # None /\ s[j].mbid = s[k].mbid
        BY <1>2, <1>3, <2>2
      <4>2. s[j] = s[k]
        BY <4>1 DEF OneMedium
      <4>3. QED
        BY <1>1, <1>3, <2>2, <4>2
    <3>3. T = {k}
      BY <2>2, <3>2
    <3> HIDE DEF T, votes
    <3>4. QED
      BY <3>1, <3>3, FS_Singleton
  <2> HIDE DEF P, votes, w, n
  <2>3. w \in P /\ \A j \in P : votes[j] < votes[w] \/ (votes[j] = votes[w] /\ w <= j)
    BY <1>2, <2>1, WinnerOf DEF P, votes, w
  <2>4. w <= 1 /\ w \in 1..n
    BY <1>3, <2>1, <2>2, <2>3
  <2>5. w = 1
    BY <1>2, <2>4
  <2>6. QED
    BY <1>2, <2>1, <2>5 DEF PickMbid, P, w
<1>5. ASSUME NEW k \in 1..n, s[k].mbid \in {None, s[1].mbid} PROVE k \in Cohort(s)
  BY <1>2, <1>4, <1>5 DEF Cohort
<1>6. QED
  BY <1>2, <1>5 DEF s

\* DifferencesRecorded, where every release is one medium: of two candidates of
\* one release that differ in a field, of which one is projected, the other's
\* value is in a row, whatever the majority has. (Two media of another release would
\* outvote the projected one, and leave it out of the comparison.)
THEOREM DifferencesAlwaysRecorded ==
  ASSUME OneMedium
  PROVE  Spec => []DifferencesRecorded
<1>1. ASSUME Inv, rows.projection # None, NEW c \in Found, NEW f \in Fields,
             c[f] # None, rows.projection[f] # None, c[f] # rows.projection[f],
             c.mbid \in {None, rows.projection.mbid}
      PROVE  \E d \in rows.disagreements : d.field = f /\ c[f] \in {d.valueA, d.valueB}
  <2> DEFINE s == resolution.ranked
             K == Cohort(s)
             w == Winner(s, K, f)
  <2>1. /\ Choice(Found, resolution) /\ rows.projection = s[1]
        /\ rows.disagreements = Disagreements(s)
    BY <1>1, ProjectedFromAll
  <2>2. s \in Seq(Candidates) /\ Len(s) >= 1 /\ ElementsOf(s) = Found
    BY <2>1 DEF Choice
  <2>3. /\ 1 \in K
        /\ \A k \in 1..Len(s) : s[k].mbid \in {None, s[1].mbid} => k \in K
    BY <2>1, FirstIsInCohort
  <2> HIDE DEF s
  <2>4. PICK k \in 1..Len(s) : s[k] = c
    BY <2>2 DEF ElementsOf
  <2>5. k \in K
    BY <1>1, <2>1, <2>3, <2>4
  <2>6. f # "mbid"
    BY <1>1
  <2>7. K \subseteq Nat /\ IsFiniteSet(K)
    <3>1. Len(s) \in Nat /\ K \subseteq 1..Len(s) /\ IsFiniteSet(1..Len(s))
      BY <2>2, FS_Interval DEF Cohort
    <3> HIDE DEF K
    <3>2. IsFiniteSet(K)
      BY <3>1, FS_Subset
    <3>3. QED
      BY <3>1, <3>2
  <2>8. {1, k} \subseteq Providing(s, K, f)
    BY <1>1, <2>1, <2>3, <2>4, <2>5 DEF Providing
  <2> HIDE DEF K
  <2>9. w \in Providing(s, K, f)
    BY <2>7, <2>8, WinnerOf
  <2>10. FieldDisagreements(s, K, f) \subseteq rows.disagreements
    BY <2>1, <2>6 DEF Disagreements, K
  <2> DEFINE Row(i) == [field |-> f, sourceA |-> s[w].provider, valueA |-> s[w][f],
                        sourceB |-> s[i].provider, valueB |-> s[i][f]]
  <2>11. \A i \in Providing(s, K, f) : s[i][f] # s[w][f] => Row(i) \in FieldDisagreements(s, K, f)
    BY DEF FieldDisagreements
  <2> HIDE DEF w
  <2>12. CASE s[w][f] # c[f]
    <3>1. Row(k) \in rows.disagreements
      BY <2>4, <2>8, <2>10, <2>11, <2>12
    <3>2. Row(k).field = f /\ Row(k).valueB = c[f]
      BY <2>4
    <3> HIDE DEF Row
    <3>3. QED
      BY <3>1, <3>2
  <2>13. CASE s[w][f] = c[f]
    <3>1. Row(1) \in rows.disagreements
      BY <1>1, <2>1, <2>8, <2>10, <2>11, <2>13
    <3>2. Row(1).field = f /\ Row(1).valueA = c[f]
      BY <2>13
    <3> HIDE DEF Row
    <3>3. QED
      BY <3>1, <3>2
  <2>14. QED
    BY <2>12, <2>13
<1>2. Inv => DifferencesRecorded
  BY <1>1 DEF DifferencesRecorded
<1>3. QED
  BY <1>2, Inductive, PTL

-----------------------------------------------------------------------------
(* The frontier.                                                           *)

Replied == {[question |-> t.question, hits |-> ElementsOf(t.hits)] : t \in said}
Chosen == IF resolution \in {Open, None} THEN resolution ELSE resolution.ranked[1]

LEMMA NamedIsFound ==
  /\ Bounded!Named = Found
  /\ \A k : Bounded!FromReplies(k) = {c[k] : c \in Found} \ {None}
<1>1. Bounded!Named = UNION {r.hits : r \in Replied}
  BY DEF Bounded!Named, Replied
<1>2. ASSUME NEW c \in Found PROVE c \in Bounded!Named
  <2>1. PICK t \in said : c \in ElementsOf(t.hits)
    BY DEF Found
  <2>2. [question |-> t.question, hits |-> ElementsOf(t.hits)] \in Replied
    BY DEF Replied
  <2>3. QED
    BY <1>1, <2>1, <2>2
<1>3. ASSUME NEW c \in Bounded!Named PROVE c \in Found
  <2>1. PICK r \in Replied : c \in r.hits
    BY <1>1
  <2>2. PICK t \in said : r = [question |-> t.question, hits |-> ElementsOf(t.hits)]
    BY DEF Replied
  <2>3. QED
    BY <2>1, <2>2 DEF Found
<1>4. Bounded!Named = Found
  BY <1>2, <1>3
<1>5. QED
  BY <1>4 DEF Bounded!FromReplies

\* A thread's end is an answer to a question that is asked once.
LEMMA EndAnswers ==
  ASSUME Inv, NEW i, ThreadEnds(i)
  PROVE  Bounded!Next
<1> DEFINE q == tasks[i]
<1>1. PICK r \in Reply :
        /\ said' = said \cup {[question |-> q, ok |-> r.ok, hits |-> r.hits]}
        /\ \E n \in 0..MaxHits : r.hits \in [1..n -> Candidates]
  BY Ends DEF Inv
<1>2. /\ pc = "asking" /\ i \in DOMAIN tasks /\ results[i] = Running
      /\ UNCHANGED <<pc, stage, ids, tasks, candidates, observations, resolution, rows>>
  BY Ends DEF Inv
<1>3. q \in Question /\ q.tier = stage /\ q.value # None /\ ids[q.kind] = q.value
  BY <1>2 DEF Inv, Typed, AskedOnce
<1> DEFINE a == ElementsOf(r.hits)
<1>4. a \in {ElementsOf(s) : s \in UNION {[1..n -> Candidates] : n \in 0..MaxHits}}
  BY <1>1
<1>5. ASSUME NEW t \in said PROVE t.question # q /\ t.question.tier <= q.tier
  <2>1. CASE \E n \in DOMAIN observations : t = observations[n]
    <3>1. PICK n \in DOMAIN observations : t = observations[n]
      BY <2>1
    <3>2. ~OfOneSlot(observations[n].question, q) /\ observations[n].question.tier <= stage
      BY <1>2 DEF Inv, AskedOnce
    <3>3. QED
      BY <1>3, <3>1, <3>2 DEF OfOneSlot
  <2>2. CASE \E j \in DOMAIN tasks : results[j] # Running /\ t = Said(j)
    <3>1. PICK j \in DOMAIN tasks : results[j] # Running /\ t = Said(j)
      BY <2>2
    <3>2. j # i /\ t.question = tasks[j]
      BY <1>2, <3>1 DEF Said
    <3>3. ~OfOneSlot(tasks[j], q) /\ tasks[j].tier = stage
      BY <1>2, <3>2 DEF Inv, AskedOnce
    <3>4. stage <= stage
      BY DEF Inv, Typed
    <3>5. QED
      BY <1>3, <3>2, <3>3, <3>4 DEF OfOneSlot
  <2>3. QED
    BY <2>1, <2>2 DEF Inv, AllSaid
<1>6. \A p \in Replied : p.question # q /\ p.question.tier <= q.tier
  <2> HIDE DEF q
  <2>1. ASSUME NEW p \in Replied PROVE \E t \in said : p.question = t.question
    BY DEF Replied
  <2>2. QED
    BY <1>5, <2>1
<1>7. Replied' = Replied \cup {[question |-> q, hits |-> a]}
  <2> DEFINE o == [question |-> q, ok |-> r.ok, hits |-> r.hits]
  <2>1. said' = said \cup {o} /\ o.question = q /\ ElementsOf(o.hits) = a
    BY <1>1
  <2> HIDE DEF o, a, q
  <2>2. QED
    BY <2>1 DEF Replied
<1>8. Chosen = Open /\ Chosen' = Open
  <2>1. resolution = Open /\ resolution' = Open
    BY <1>2 DEF Inv, Decided, Undecided
  <2>2. QED
    BY <2>1 DEF Chosen
<1> HIDE DEF q, a
<1>9. Bounded!Ask(q, a)
  BY <1>2, <1>3, <1>6, <1>7, <1>8 DEF Bounded!Ask, Replied, Chosen
<1>10. QED
  BY <1>3, <1>4, <1>9 DEF Bounded!Next, Question

\* A merged reply can only teach what some reply has.
LEMMA MergeLearns ==
  ASSUME Inv, MergeResult
  PROVE  Bounded!Next
<1> DEFINE hits == results[1].hits
<1>1. /\ pc = "merging" /\ 1 \in DOMAIN tasks /\ results[1] \in Reply /\ results[1] # Running
      /\ ids' = [k \in Kinds |-> Learned(hits, k)]
      /\ UNCHANGED <<pc, stage, resolution, rows, said>>
  BY Merges DEF Inv
<1>2. hits \in Seq(Candidates)
  BY <1>1 DEF Reply
<1>3. ASSUME NEW j \in DOMAIN hits PROVE hits[j] \in Found
  <2>1. Said(1) \in said /\ Said(1).hits = hits
    BY <1>1 DEF Inv, AllSaid, Said
  <2>2. QED
    BY <2>1 DEF Found, ElementsOf
<1> HIDE DEF hits
<1>4. ASSUME NEW k \in Kinds
      PROVE  /\ ids'[k] = ids[k] \/ (ids[k] = None /\ k # "disc" /\ ids'[k] \in Bounded!FromReplies(k))
  <2>1. ids'[k] = Learned(hits, k)
    BY <1>1
  <2>2. CASE Learned(hits, k) = ids[k]
    BY <2>1, <2>2
  <2>3. CASE Learned(hits, k) # ids[k]
    <3>1. k # "disc" /\ ids[k] = None /\ Learned(hits, k) # None
          /\ \E j \in DOMAIN hits : Learned(hits, k) = hits[j][k]
      BY <1>2, <2>3, LearnedIs
    <3>2. ids'[k] \in {c[k] : c \in Found} \ {None}
      BY <1>3, <2>1, <3>1
    <3>3. QED
      BY <3>1, <3>2, NamedIsFound
  <2>4. QED
    BY <2>2, <2>3
<1>5. ids' \in [Kinds -> {ids[k] : k \in Kinds} \cup UNION {Bounded!FromReplies(k) : k \in Kinds \ {"disc"}}]
  <2>1. DOMAIN ids' = Kinds /\ ids' = [k \in Kinds |-> ids'[k]]
    BY <1>1
  <2>2. \A k \in Kinds :
          ids'[k] \in {ids[l] : l \in Kinds} \cup UNION {Bounded!FromReplies(l) : l \in Kinds \ {"disc"}}
    BY <1>4
  <2>3. QED
    BY <2>1, <2>2
<1>6. Replied' = Replied /\ Chosen' = Chosen /\ Chosen = Open
  <2>1. resolution = Open
    BY <1>1 DEF Inv, Decided, Undecided
  <2>2. QED
    BY <1>1, <2>1 DEF Replied, Chosen
<1>7. Bounded!Learn
  BY <1>4, <1>5, <1>6 DEF Bounded!Learn, Replied, Chosen
<1>8. QED
  BY <1>7 DEF Bounded!Next

LEMMA ResolveChooses ==
  ASSUME Inv, Resolve
  PROVE  Bounded!Next
<1>1. /\ pc = "stage" /\ resolution' = IF candidates = {} THEN None ELSE Resolution(candidates)
      /\ UNCHANGED <<ids, candidates, said>>
  BY DEF Resolve
<1>2. candidates = Found
  BY <1>1, AllMerged
<1>3. resolution = Open
  BY <1>1 DEF Inv, Decided, Undecided
<1>4. Chosen = Open
  BY <1>3 DEF Chosen
<1>5. candidates = {} => Chosen' = None
  BY <1>1 DEF Chosen
<1>6. ASSUME candidates # {} PROVE Chosen' \in Found
  <2>1. Choice(candidates, resolution')
    BY <1>1, <1>6, ResolutionOf DEF Inv, Typed
  <2>2. resolution' \notin {Open, None}
    BY <2>1, CandidatesAssumption DEF Choice
  <2>3. Chosen' = resolution'.ranked[1]
    BY <2>2 DEF Chosen
  <2> DEFINE s == resolution'.ranked
  <2>4. s \in Seq(Candidates) /\ Len(s) >= 1 /\ ElementsOf(s) = candidates
    BY <2>1 DEF Choice
  <2> HIDE DEF s
  <2>5. s[1] \in ElementsOf(s)
    BY <2>4 DEF ElementsOf
  <2>6. QED
    BY <1>2, <2>3, <2>4, <2>5 DEF s
<1>7. Chosen' \in IF Bounded!Named = {} THEN {None} ELSE Bounded!Named
  BY <1>2, <1>5, <1>6, NamedIsFound
<1>8. Bounded!Choose
  BY <1>1, <1>4, <1>7 DEF Bounded!Choose, Replied, Chosen
<1>9. QED
  BY <1>8 DEF Bounded!Next

\* ImplementsFrontier: every attempt, with its stages, threads, failures and
\* rows, is one of the bounded frontier - questions about known identifiers,
\* each once and in the order of the tiers, and a choice among what was named.
THEOREM ImplementsBoundedFrontier == Spec => ImplementsFrontier
<1>1. ASSUME Init PROVE Bounded!Init
  <2>1. PICK given \in Givens : ids = [disc |-> "toc", barcode |-> given, catalog |-> None]
    BY <1>1 DEF Init
  <2>2. resolution = Open /\ said = {}
    BY <1>1 DEF Init
  <2>3. ASSUME NEW v \in Identifiers PROVE v \in {q.value : q \in Question}
    <3> DEFINE q == [provider |-> Slots[1].provider, tier |-> Slots[1].tier,
                     kind |-> Slots[1].kind, value |-> v]
    <3>1. q \in Question /\ q.value = v
      BY SlotsAre DEF Question
    <3> HIDE DEF q
    <3>2. QED
      BY <3>1
  <2>4. ids \in [Kinds -> Identifiers \cup {None}]
    BY <2>1 DEF Kinds, Identifiers
  <2>5. ids \in [Kinds -> {q.value : q \in Question} \cup {None}]
    BY <2>3, <2>4
  <2>6. Replied = {} /\ Chosen = Open
    BY <2>2 DEF Replied, Chosen
  <2>7. QED
    BY <2>5, <2>6 DEF Bounded!Init, Question, Replied, Chosen
<1>2. ASSUME Inv, [Next]_vars PROVE [Bounded!Next]_(Bounded!vars)
  <2>1. ASSUME UNCHANGED <<ids, said, resolution>> PROVE UNCHANGED Bounded!vars
    BY <2>1 DEF Bounded!vars
  <2>2. ASSUME SkipStage PROVE UNCHANGED <<ids, said, resolution>>
    BY <2>2 DEF SkipStage
  <2>3. ASSUME BeginStage PROVE UNCHANGED <<ids, said, resolution>>
    BY <2>3 DEF BeginStage
  <2>4. ASSUME JoinThreads PROVE UNCHANGED <<ids, said, resolution>>
    BY <2>4 DEF JoinThreads
  <2>5. ASSUME EndStage PROVE UNCHANGED <<ids, said, resolution>>
    BY <2>5 DEF EndStage
  <2>6. ASSUME Storing PROVE UNCHANGED <<ids, said, resolution>>
    BY <2>6, StoringKeeps DEF Facts
  <2>7. ASSUME UNCHANGED vars PROVE UNCHANGED <<ids, said, resolution>>
    BY <2>7 DEF vars
  <2>8. QED
    BY <1>2, <2>1, <2>2, <2>3, <2>4, <2>5, <2>6, <2>7, Steps,
       EndAnswers, MergeLearns, ResolveChooses
<1>3. QED
  BY <1>1, <1>2, Inductive, PTL DEF Spec, ImplementsFrontier, Bounded!Spec

-----------------------------------------------------------------------------
(* The fallbacks.                                                          *)

\* The stages of the fallbacks.
Wanted(s) == \/ NamedBefore(s) = {}
             \/ s = 3 /\ Resolution(NamedBefore(s)).ambiguous
Past(s) == s < stage \/ (s = stage /\ pc # "stage")
Fallback == {[stage |-> 3, provider |-> "tower", kind |-> "barcode"],
             [stage |-> 3, provider |-> "tower", kind |-> "catalog"],
             [stage |-> 4, provider |-> "barcodelookup", kind |-> "barcode"]}
Learnt == \A c \in candidates, k \in {"barcode", "catalog"} : c[k] # None => ids[k] # None
OnlyWanted ==
  /\ \A s \in {3, 4} : (\E t \in said : t.question.tier = s) => Wanted(s)
  /\ pc \in {"asking", "merging"} /\ stage \in {3, 4} => Wanted(stage)
WantedAsked ==
  \A f \in Fallback :
    Past(f.stage) /\ Wanted(f.stage) /\ KnownBefore(f.stage, f.kind) =>
      \/ AskedAbout(f.provider, f.kind)
      \/ \E i \in DOMAIN tasks : tasks[i].provider = f.provider /\ tasks[i].kind = f.kind
FallInv == Learnt /\ OnlyWanted /\ WantedAsked

LEMMA SaidAre ==
  ASSUME Inv, NEW t \in said
  PROVE  /\ t.question \in Question /\ t.question.tier \in 1..4 /\ t.question.tier <= stage
         /\ pc = "stage" => t.question.tier < stage
<1> USE DEF Inv
<1>1. CASE \E n \in DOMAIN observations : t = observations[n]
  BY <1>1, ObservationsAre DEF AskedOnce
<1>2. CASE \E i \in DOMAIN tasks : results[i] # Running /\ t = Said(i)
  <2>1. PICK i \in DOMAIN tasks : t = Said(i)
    BY <1>2
  <2>2. t.question = tasks[i] /\ tasks[i] \in Question /\ tasks[i].tier = stage
    BY <2>1 DEF Said, Typed, AskedOnce
  <2>3. stage \in Nat /\ (pc = "stage" => DOMAIN tasks = {})
    BY DEF Typed
  <2>4. QED
    BY <2>2, <2>3, QuestionsHaveSlots
<1>3. QED
  BY <1>1, <1>2 DEF AllSaid

\* Nothing is added to what was named before a stage once it has come.
LEMMA NamedStays ==
  ASSUME Inv, [Next]_vars
  PROVE  /\ said \subseteq said' /\ Found \subseteq Found'
         /\ \A s \in 1..4 : s <= stage => NamedBefore(s)' = NamedBefore(s)
<1>1. ASSUME said' = said
      PROVE  Found' = Found /\ \A s \in 1..4 : NamedBefore(s)' = NamedBefore(s)
  BY <1>1 DEF Found, NamedBefore
<1>2. ASSUME NEW i, ThreadEnds(i)
      PROVE  /\ said \subseteq said'
             /\ \A s \in 1..4 : s <= stage => NamedBefore(s)' = NamedBefore(s)
  <2>1. PICK r \in Reply :
          said' = said \cup {[question |-> tasks[i], ok |-> r.ok, hits |-> r.hits]}
    BY <1>2, Ends DEF Inv
  <2>2. tasks[i].tier = stage
    BY <1>2, Ends DEF Inv, AskedOnce
  <2> DEFINE o == [question |-> tasks[i], ok |-> r.ok, hits |-> r.hits]
  <2>3. said' = said \cup {o} /\ o.question.tier = stage
    BY <2>1, <2>2
  <2> HIDE DEF o
  <2>4. ASSUME NEW s \in 1..4, s <= stage PROVE NamedBefore(s)' = NamedBefore(s)
    <3>1. ~(stage < s)
      BY <2>4 DEF Inv, Typed
    <3>2. {u \in said' : u.question.tier < s} = {u \in said : u.question.tier < s}
      BY <2>3, <3>1
    <3>3. QED
      BY <3>2 DEF NamedBefore
  <2>5. QED
    BY <2>3, <2>4
<1>3. ASSUME said \subseteq said' PROVE Found \subseteq Found'
  BY <1>3 DEF Found
<1>4. ASSUME SkipStage \/ BeginStage \/ JoinThreads \/ EndStage \/ Resolve PROVE said' = said
  BY <1>4 DEF SkipStage, BeginStage, JoinThreads, EndStage, Resolve
<1>5. ASSUME MergeResult PROVE said' = said
  BY <1>5 DEF MergeResult
<1>6. ASSUME Storing PROVE said' = said
  BY <1>6, StoringKeeps DEF Facts
<1>7. ASSUME UNCHANGED vars PROVE said' = said
  BY <1>7 DEF vars
<1>8. QED
  BY <1>1, <1>2, <1>3, <1>4, <1>5, <1>6, <1>7, Steps

LEMMA NamedAtHead ==
  ASSUME Inv, pc = "stage"
  PROVE  NamedBefore(stage) = candidates
<1>1. candidates = Found
  BY AllMerged
<1>2. \A t \in said : t.question.tier < stage
  BY SaidAre
<1>3. {u \in said : u.question.tier < stage} = said
  BY <1>2
<1>4. QED
  BY <1>1, <1>3 DEF NamedBefore, Found

LEMMA LearntStep ==
  ASSUME Inv, Learnt, [Next]_vars
  PROVE  Learnt'
<1>1. ASSUME UNCHANGED <<ids, candidates>> PROVE Learnt'
  BY <1>1 DEF Learnt
<1>2. ASSUME MergeResult PROVE Learnt'
  <2> DEFINE hits == results[1].hits
  <2>1. /\ ids' = [k \in Kinds |-> Learned(hits, k)] /\ results[1] \in Reply
        /\ candidates' = candidates \cup ElementsOf(hits)
    BY <1>2, Merges DEF Inv
  <2>2. hits \in Seq(Candidates)
    BY <2>1 DEF Reply
  <2> HIDE DEF hits
  <2>3. ASSUME NEW c \in candidates', NEW k \in {"barcode", "catalog"}, c[k] # None
        PROVE  ids'[k] # None
    <3>1. k \in Kinds /\ k # "disc"
      BY DEF Kinds
    <3>2. ids'[k] = Learned(hits, k)
      BY <2>1, <3>1
    <3>3. CASE c \in candidates
      <4>1. ids[k] # None
        BY <2>3, <3>3 DEF Learnt
      <4>2. QED
        BY <2>2, <3>1, <3>2, <4>1, LearnedIs
    <3>4. CASE c \in ElementsOf(hits)
      <4>1. \E i \in DOMAIN hits : hits[i][k] # None
        BY <2>3, <3>4 DEF ElementsOf
      <4>2. QED
        BY <2>2, <3>1, <3>2, <4>1, LearnedIs
    <3>5. QED
      BY <2>1, <3>3, <3>4
  <2>4. QED
    BY <2>3 DEF Learnt
<1>3. ASSUME NEW i, ThreadEnds(i) PROVE UNCHANGED <<ids, candidates>>
  BY <1>3 DEF ThreadEnds
<1>4. ASSUME SkipStage \/ BeginStage \/ JoinThreads \/ EndStage \/ Resolve
      PROVE  UNCHANGED <<ids, candidates>>
  BY <1>4 DEF SkipStage, BeginStage, JoinThreads, EndStage, Resolve
<1>5. ASSUME Storing PROVE UNCHANGED <<ids, candidates>>
  BY <1>5, StoringKeeps DEF Facts
<1>6. ASSUME UNCHANGED vars PROVE UNCHANGED <<ids, candidates>>
  BY <1>6 DEF vars
<1>7. QED
  BY <1>1, <1>2, <1>3, <1>4, <1>5, <1>6, Steps

\* The test at the head of a stage is whether the fallback is wanted.
LEMMA SkippedIsUnwanted ==
  ASSUME Inv, pc = "stage", stage \in {3, 4}
  PROVE  Skipped(stage) <=> ~Wanted(stage)
BY NamedAtHead DEF Skipped, Wanted

LEMMA OnlyWantedStep ==
  ASSUME Inv, OnlyWanted, [Next]_vars
  PROVE  OnlyWanted'
<1>1. ASSUME NEW s \in {3, 4}, s <= stage PROVE Wanted(s)' = Wanted(s)
  BY <1>1, NamedStays DEF Wanted
<1>2. ASSUME NEW s \in {3, 4}, NEW t \in said, t.question.tier = s PROVE Wanted(s)'
  BY <1>1, <1>2, SaidAre DEF OnlyWanted
<1>3. ASSUME NEW s \in {3, 4}, NEW t \in said', t.question.tier = s PROVE Wanted(s)'
  <2>1. CASE t \in said
    BY <1>2, <1>3, <2>1
  <2>2. CASE t \notin said
    <3>1. PICK i : ThreadEnds(i)
      <4>1. SkipStage \/ BeginStage \/ JoinThreads \/ EndStage \/ Resolve => said' = said
        BY DEF SkipStage, BeginStage, JoinThreads, EndStage, Resolve
      <4>2. MergeResult => said' = said
        BY DEF MergeResult
      <4>3. Storing => said' = said
        BY StoringKeeps DEF Facts
      <4>4. UNCHANGED vars => said' = said
        BY DEF vars
      <4>5. QED
        BY <2>2, <4>1, <4>2, <4>3, <4>4, Steps
    <3>2. PICK r \in Reply :
            said' = said \cup {[question |-> tasks[i], ok |-> r.ok, hits |-> r.hits]}
      BY <3>1, Ends DEF Inv
    <3>3. pc = "asking" /\ i \in DOMAIN tasks /\ tasks[i].tier = stage
      BY <3>1, Ends DEF Inv, AskedOnce
    <3>4. s = stage
      BY <1>3, <2>2, <3>2, <3>3
    <3>5. Wanted(s) /\ s <= stage
      BY <3>3, <3>4 DEF OnlyWanted, Inv, Typed
    <3>6. QED
      BY <1>1, <3>5
  <2>3. QED
    BY <2>1, <2>2
<1>4. ASSUME pc' \in {"asking", "merging"}, stage' \in {3, 4} PROVE Wanted(stage)' /\ stage' = stage
  <2>1. CASE pc = "stage"
    <3>1. BeginStage
      <4>1. SkipStage \/ JoinThreads \/ EndStage \/ Resolve => pc' \notin {"asking", "merging"}
        BY <2>1 DEF SkipStage, JoinThreads, EndStage, Resolve
      <4>2. ~MergeResult /\ \A i : ~ThreadEnds(i)
        BY <2>1 DEF MergeResult, ThreadEnds
      <4>3. ~Storing
        BY <2>1, StoringKeeps
      <4>4. UNCHANGED vars => pc' = pc
        BY DEF vars
      <4>5. QED
        BY <1>4, <2>1, <4>1, <4>2, <4>3, <4>4, Steps
    <3>2. ~Skipped(stage) /\ stage' = stage
      BY <3>1 DEF BeginStage
    <3>3. Wanted(stage) /\ stage \in {3, 4} /\ stage <= stage
      BY <1>4, <2>1, <3>2, SkippedIsUnwanted
    <3>4. QED
      BY <1>1, <3>2, <3>3
  <2>2. CASE pc # "stage"
    <3>1. pc \in {"asking", "merging"} /\ stage' = stage
      <4>1. SkipStage \/ BeginStage \/ Resolve => pc = "stage"
        BY DEF SkipStage, BeginStage, Resolve
      <4>2. EndStage => pc' = "stage"
        BY DEF EndStage
      <4>3. MergeResult \/ JoinThreads => pc \in {"asking", "merging"} /\ stage' = stage
        BY DEF MergeResult, JoinThreads
      <4>4. \A i : ThreadEnds(i) => pc = "asking" /\ stage' = stage
        BY DEF ThreadEnds
      <4>5. Storing => pc' \notin {"asking", "merging"}
        BY StoringKeeps
      <4>6. UNCHANGED vars => UNCHANGED <<pc, stage>>
        BY DEF vars
      <4>7. QED
        BY <1>4, <2>2, <4>1, <4>2, <4>3, <4>4, <4>5, <4>6, Steps
    <3>2. Wanted(stage) /\ stage \in {3, 4} /\ stage <= stage
      BY <1>4, <3>1 DEF OnlyWanted
    <3>3. QED
      BY <1>1, <3>1, <3>2
  <2>3. QED
    BY <2>1, <2>2
<1>5. QED
  BY <1>3, <1>4 DEF OnlyWanted

\* What was unknown when a stage began does not become known before it.
LEMMA StaysUnknown ==
  ASSUME Inv, [Next]_vars, NEW s \in 1..4, s <= stage, NEW k \in {"barcode", "catalog"},
         KnownBefore(s, k)'
  PROVE  KnownBefore(s, k)
<1>1. NamedBefore(s)' = NamedBefore(s) /\ Found \subseteq Found'
  BY NamedStays
<1>2. CASE \E c \in NamedBefore(s)' : c[k] # None
  BY <1>1, <1>2 DEF KnownBefore
<1>3. CASE ids'[k] # None /\ \A c \in Found' : c[k] # ids'[k]
  <2>1. ids'[k] = ids[k]
    <3>1. ASSUME MergeResult, ids'[k] # ids[k] PROVE FALSE
      <4> DEFINE hits == results[1].hits
      <4>1. /\ 1 \in DOMAIN tasks /\ results[1] \in Reply /\ results[1] # Running
            /\ ids' = [l \in Kinds |-> Learned(hits, l)]
        BY <3>1, Merges DEF Inv
      <4>2. hits \in Seq(Candidates) /\ k \in Kinds /\ ids'[k] = Learned(hits, k)
        BY <4>1 DEF Reply, Kinds
      <4>3. \A j \in DOMAIN hits : hits[j] \in Found
        <5>1. Said(1) \in said /\ Said(1).hits = hits
          BY <4>1 DEF Inv, AllSaid, Said
        <5>2. QED
          BY <5>1 DEF Found, ElementsOf
      <4> HIDE DEF hits
      <4>4. \E j \in DOMAIN hits : Learned(hits, k) = hits[j][k]
        BY <1>3, <3>1, <4>2, LearnedIs
      <4>5. QED
        BY <1>1, <1>3, <4>2, <4>3, <4>4
    <3>2. ASSUME NEW i, ThreadEnds(i) PROVE ids' = ids
      BY <3>2 DEF ThreadEnds
    <3>3. ASSUME SkipStage \/ BeginStage \/ JoinThreads \/ EndStage \/ Resolve PROVE ids' = ids
      BY <3>3 DEF SkipStage, BeginStage, JoinThreads, EndStage, Resolve
    <3>4. ASSUME Storing PROVE ids' = ids
      BY <3>4, StoringKeeps DEF Facts
    <3>5. ASSUME UNCHANGED vars PROVE ids' = ids
      BY <3>5 DEF vars
    <3>6. QED
      BY <3>1, <3>2, <3>3, <3>4, <3>5, Steps
  <2>2. QED
    BY <1>1, <1>3, <2>1 DEF KnownBefore
<1>4. QED
  BY <1>2, <1>3 DEF KnownBefore

\* A fallback was asked, or is about to be.
AskedOrOpen(f) ==
  \/ AskedAbout(f.provider, f.kind)
  \/ \E i \in DOMAIN tasks : tasks[i].provider = f.provider /\ tasks[i].kind = f.kind

LEMMA StaysAsked ==
  ASSUME Inv, [Next]_vars, NEW f, AskedOrOpen(f)
  PROVE  AskedOrOpen(f)'
<1>1. CASE AskedAbout(f.provider, f.kind)
  BY <1>1, NamedStays DEF AskedOrOpen, AskedAbout
<1>2. CASE \E i \in DOMAIN tasks : tasks[i].provider = f.provider /\ tasks[i].kind = f.kind
  <2>1. PICK i \in DOMAIN tasks : tasks[i].provider = f.provider /\ tasks[i].kind = f.kind
    BY <1>2
  <2>2. ASSUME tasks' = tasks PROVE AskedOrOpen(f)'
    BY <2>1, <2>2 DEF AskedOrOpen
  <2>3. pc \in {"asking", "merging"} /\ tasks # <<>>
    BY <2>1 DEF Inv, Typed
  <2>4. ASSUME MergeResult PROVE AskedOrOpen(f)'
    <3>1. CASE i = 1
      <4>1. results[1] # Running /\ 1 \in DOMAIN tasks /\ said' = said
        BY <2>4, Merges DEF Inv
      <4>2. Said(1) \in said' /\ Said(1).question = tasks[1]
        BY <4>1 DEF Inv, AllSaid, Said
      <4>3. QED
        BY <2>1, <3>1, <4>2 DEF AskedOrOpen, AskedAbout
    <3>2. CASE i # 1
      <4>1. tasks' \in Seq(Question) /\ Len(tasks') = Len(tasks) - 1
            /\ \A j \in DOMAIN tasks' : tasks'[j] = tasks[j + 1]
        BY <2>4, Merges DEF Inv
      <4>2. DOMAIN tasks = 1..Len(tasks) /\ Len(tasks) \in Nat
        BY DEF Inv, Typed
      <4>3. DOMAIN tasks' = 1..(Len(tasks) - 1)
        BY <4>1
      <4>4. i - 1 \in DOMAIN tasks' /\ (i - 1) + 1 = i
        BY <3>2, <4>2, <4>3
      <4>5. tasks'[i - 1] = tasks[i]
        BY <4>1, <4>4
      <4>6. QED
        BY <2>1, <4>4, <4>5 DEF AskedOrOpen
    <3>3. QED
      BY <3>1, <3>2
  <2>5. ASSUME NEW j, ThreadEnds(j) PROVE tasks' = tasks
    BY <2>5 DEF ThreadEnds
  <2>6. ~SkipStage /\ ~BeginStage /\ ~EndStage /\ ~Resolve
    BY <2>3 DEF SkipStage, BeginStage, EndStage, Resolve
  <2>7. ASSUME JoinThreads PROVE tasks' = tasks
    BY <2>7 DEF JoinThreads
  <2>8. ~Storing
    BY <2>3, StoringKeeps
  <2>9. ASSUME UNCHANGED vars PROVE tasks' = tasks
    BY <2>9 DEF vars
  <2>10. QED
    BY <2>2, <2>4, <2>5, <2>6, <2>7, <2>8, <2>9, Steps
<1>3. QED
  BY <1>1, <1>2 DEF AskedOrOpen

\* A stage comes by being skipped or by being begun.
LEMMA HowPast ==
  ASSUME Inv, [Next]_vars, NEW s \in 1..4, ~Past(s), Past(s)'
  PROVE  pc = "stage" /\ stage = s /\ (SkipStage \/ BeginStage)
<1>1. stage \in 1..5
  BY DEF Inv, Typed
<1>2. ASSUME UNCHANGED stage PROVE pc = "stage" /\ pc' # "stage" /\ stage = s
  BY <1>1, <1>2 DEF Past
<1>3. ASSUME UNCHANGED <<pc, stage>> PROVE FALSE
  BY <1>2, <1>3
<1>4. ASSUME SkipStage PROVE pc = "stage" /\ stage = s
  <2>1. pc = "stage" /\ stage' = stage + 1 /\ pc' = pc
    BY <1>4 DEF SkipStage
  <2>2. QED
    BY <1>1, <2>1 DEF Past
<1>5. ASSUME BeginStage PROVE UNCHANGED stage
  BY <1>5 DEF BeginStage
<1>6. ASSUME NEW i, ThreadEnds(i) PROVE UNCHANGED <<pc, stage>>
  BY <1>6 DEF ThreadEnds
<1>7. ASSUME JoinThreads PROVE FALSE
  <2>1. pc = "asking" /\ stage' = stage
    BY <1>7 DEF JoinThreads
  <2>2. QED
    BY <1>2, <2>1
<1>8. ASSUME MergeResult PROVE UNCHANGED <<pc, stage>>
  BY <1>8 DEF MergeResult
<1>9. ASSUME EndStage PROVE FALSE
  <2>1. pc = "merging" /\ pc' = "stage" /\ stage' = stage + 1
    BY <1>9 DEF EndStage
  <2>2. QED
    BY <1>1, <2>1 DEF Past
<1>10. ASSUME Resolve PROVE FALSE
  <2>1. stage = 5 /\ stage' = stage
    BY <1>10 DEF Resolve
  <2>2. QED
    BY <1>2, <2>1
<1>11. ASSUME Storing PROVE FALSE
  <2>1. pc = "observations" /\ stage' = stage
    BY <1>11, StoringKeeps DEF Facts
  <2>2. QED
    BY <1>2, <2>1
<1>12. ASSUME UNCHANGED vars PROVE UNCHANGED <<pc, stage>>
  BY <1>12 DEF vars
<1>13. QED
  BY <1>2, <1>3, <1>4, <1>5, <1>6, <1>7, <1>8, <1>9, <1>10, <1>11, <1>12, Steps

LEMMA FallbackSlots ==
  /\ \A f \in Fallback :
       /\ f.stage \in {3, 4} /\ f.kind \in {"barcode", "catalog"} /\ f.kind \in Kinds
       /\ \E i \in 1..6 : /\ Slots[i].tier = f.stage /\ Slots[i].provider = f.provider
                          /\ Slots[i].kind = f.kind
  /\ \A q \in Question : /\ q.provider = "tower" => q.tier = 3
                         /\ q.provider = "barcodelookup" => q.tier = 4
<1> DEFINE s == Slots
<1>1. /\ s[1].provider = "musicbrainz" /\ s[2].provider = "discogs" /\ s[3].provider = "discogs"
      /\ s[4].provider = "tower" /\ s[4].kind = "barcode" /\ s[4].tier = 3
      /\ s[5].provider = "tower" /\ s[5].kind = "catalog" /\ s[5].tier = 3
      /\ s[6].provider = "barcodelookup" /\ s[6].kind = "barcode" /\ s[6].tier = 4
  BY DEF Slots
<1> HIDE DEF s
<1>2. 1..6 = {1, 2, 3, 4, 5, 6}
  OBVIOUS
<1>3. \A i \in 1..6 : /\ s[i].provider = "tower" => s[i].tier = 3
                      /\ s[i].provider = "barcodelookup" => s[i].tier = 4
  BY <1>1, <1>2
<1>4. ASSUME NEW q \in Question
      PROVE  /\ q.provider = "tower" => q.tier = 3
             /\ q.provider = "barcodelookup" => q.tier = 4
  <2>1. PICK i \in 1..6 : OfOneSlot(q, Slots[i]) /\ q.tier = Slots[i].tier
    BY QuestionsHaveSlots
  <2>2. QED
    BY <1>3, <2>1 DEF s, OfOneSlot
<1>5. ASSUME NEW f \in Fallback
      PROVE  /\ f.stage \in {3, 4} /\ f.kind \in {"barcode", "catalog"} /\ f.kind \in Kinds
             /\ \E i \in 1..6 : s[i].tier = f.stage /\ s[i].provider = f.provider /\ s[i].kind = f.kind
  BY <1>1, <1>2 DEF Fallback, Kinds
<1>6. QED
  BY <1>4, <1>5 DEF s

\* A stage that begins asks its fallbacks about all that is known.
LEMMA BeginAsks ==
  ASSUME Inv, Learnt, BeginStage, NEW f \in Fallback, stage = f.stage, KnownBefore(stage, f.kind)
  PROVE  AskedOrOpen(f)'
<1>1. /\ pc = "stage" /\ tasks' = Questions(stage) /\ stage \in {3, 4}
  BY FallbackSlots DEF BeginStage
<1>2. ids[f.kind] # None
  <2>1. CASE \E c \in NamedBefore(stage) : c[f.kind] # None
    BY <1>1, <2>1, NamedAtHead, FallbackSlots DEF Learnt
  <2>2. QED
    BY <2>1 DEF KnownBefore
<1>3. PICK i \in 1..6 : /\ Slots[i].tier = stage /\ Slots[i].provider = f.provider
                        /\ Slots[i].kind = f.kind
  BY FallbackSlots
<1>4. ASSUME NEW n \in DOMAIN observations PROVE observations[n].question # SlotAsks(i, stage)
  <2>1. observations[n].question.tier < stage /\ stage \in Nat
    BY <1>1 DEF Inv, AskedOnce
  <2>2. observations[n].question.tier # stage
    BY <2>1
  <2>3. SlotAsks(i, stage).tier = stage
    BY DEF SlotAsks
  <2>4. QED
    BY <2>2, <2>3
<1>5. ids \in [Kinds -> Identifiers \cup {None}]
  BY DEF Inv, Typed
<1>6. \E k \in DOMAIN tasks' : OfOneSlot(tasks'[k], Slots[i])
  BY <1>1, <1>2, <1>3, <1>4, <1>5, QuestionsOf
<1>7. QED
  BY <1>3, <1>6 DEF AskedOrOpen, OfOneSlot

LEMMA WantedAskedStep ==
  ASSUME Inv, Learnt, WantedAsked, [Next]_vars
  PROVE  WantedAsked'
<1>1. ASSUME NEW f \in Fallback, Past(f.stage)', Wanted(f.stage)', KnownBefore(f.stage, f.kind)'
      PROVE  AskedOrOpen(f)'
  <2> DEFINE s == f.stage
  <2>1. s \in {3, 4} /\ s \in 1..4 /\ f.kind \in {"barcode", "catalog"}
    BY FallbackSlots
  <2>2. ASSUME s <= stage PROVE Wanted(s) /\ KnownBefore(s, f.kind)
    <3>1. NamedBefore(s)' = NamedBefore(s)
      BY <2>1, <2>2, NamedStays
    <3>2. Wanted(s)
      BY <1>1, <3>1 DEF Wanted
    <3> HIDE DEF s
    <3>3. KnownBefore(s, f.kind)' => KnownBefore(s, f.kind)
      BY <2>1, <2>2, StaysUnknown
    <3>4. QED
      BY <1>1, <3>2, <3>3 DEF s
  <2>3. CASE Past(s)
    <3>1. s <= stage
      BY <2>1, <2>3 DEF Past, Inv, Typed
    <3>2. AskedOrOpen(f)
      BY <2>2, <2>3, <3>1 DEF WantedAsked, AskedOrOpen
    <3>3. QED
      BY <3>2, StaysAsked
  <2>4. CASE ~Past(s)
    <3>1. pc = "stage" /\ stage = s /\ (SkipStage \/ BeginStage)
      <4> HIDE DEF s
      <4>1. Past(s)'
        BY <1>1 DEF s
      <4>2. QED
        BY <2>1, <2>4, <4>1, HowPast
    <3>2. Wanted(s) /\ KnownBefore(s, f.kind)
      <4>1. s <= stage
        BY <2>1, <3>1
      <4>2. QED
        BY <2>2, <4>1
    <3>3. ~SkipStage
      BY <2>1, <3>1, <3>2, SkippedIsUnwanted DEF SkipStage
    <3>4. QED
      BY <3>1, <3>2, <3>3, BeginAsks
  <2>5. QED
    BY <2>3, <2>4
<1>2. QED
  BY <1>1 DEF WantedAsked, AskedOrOpen

LEMMA FallInductive == Spec => [](Inv /\ Learnt /\ OnlyWanted /\ WantedAsked)
<1>1. ASSUME Init PROVE Learnt /\ OnlyWanted /\ WantedAsked
  <2>1. pc = "stage" /\ stage = 1 /\ candidates = {} /\ said = {}
    BY <1>1 DEF Init
  <2>2. \A f \in Fallback : ~Past(f.stage)
    BY <2>1, FallbackSlots DEF Past
  <2>3. QED
    BY <2>1, <2>2 DEF Learnt, OnlyWanted, WantedAsked
<1>2. ASSUME Inv, Learnt, OnlyWanted, WantedAsked, [Next]_vars
      PROVE  (Learnt /\ OnlyWanted /\ WantedAsked)'
  BY <1>2, LearntStep, OnlyWantedStep, WantedAskedStep
<1>3. QED
  BY <1>1, <1>2, Inductive, PTL DEF Spec

\* FallbacksWhenNeeded: Tower is asked only while nothing or a tie was found,
\* the generic look-up only while nothing was, and then about every identifier
\* that was known when its stage came.
THEOREM FallbacksJustWhenNeeded == Spec => []FallbacksWhenNeeded
<1>1. ASSUME Inv, OnlyWanted, WantedAsked, stage = 5
      PROVE  LET wanted3 == NamedBefore(3) = {} \/ Resolution(NamedBefore(3)).ambiguous
                 wanted4 == NamedBefore(4) = {}
             IN  /\ \A k \in {"barcode", "catalog"} :
                      /\ AskedAbout("tower", k) => wanted3
                      /\ wanted3 /\ KnownBefore(3, k) => AskedAbout("tower", k)
                 /\ AskedAbout("barcodelookup", "barcode") => wanted4
                 /\ wanted4 /\ KnownBefore(4, "barcode") => AskedAbout("barcodelookup", "barcode")
  <2> DEFINE Unsure == NamedBefore(3) = {} \/ Resolution(NamedBefore(3)).ambiguous
             Nothing == NamedBefore(4) = {}
  <2>1. (Wanted(3) <=> Unsure) /\ (Wanted(4) <=> Nothing)
    BY DEF Wanted
  <2> HIDE DEF Unsure, Nothing
  <2>2. tasks = <<>> /\ Past(3) /\ Past(4)
    BY <1>1 DEF Inv, Typed, Past
  <2>3. ASSUME NEW p \in {"tower", "barcodelookup"}, NEW k, AskedAbout(p, k)
        PROVE  Wanted(IF p = "tower" THEN 3 ELSE 4)
    <3>1. PICK t \in said : t.question.provider = p
      BY <2>3 DEF AskedAbout
    <3>2. t.question \in Question
      BY <1>1, SaidAre
    <3>3. t.question.tier = IF p = "tower" THEN 3 ELSE 4
      BY <3>1, <3>2, FallbackSlots
    <3>4. QED
      BY <1>1, <3>3 DEF OnlyWanted
  <2>4. ASSUME NEW f \in Fallback, Wanted(f.stage), KnownBefore(f.stage, f.kind)
        PROVE  AskedAbout(f.provider, f.kind)
    <3>1. Past(f.stage)
      BY <2>2, FallbackSlots
    <3>2. QED
      BY <1>1, <2>2, <2>4, <3>1 DEF WantedAsked
  <2>5. ASSUME NEW k \in {"barcode", "catalog"}
        PROVE  /\ AskedAbout("tower", k) => Unsure
               /\ Unsure /\ KnownBefore(3, k) => AskedAbout("tower", k)
    <3>1. [stage |-> 3, provider |-> "tower", kind |-> k] \in Fallback
      BY DEF Fallback
    <3>2. Wanted(3) /\ KnownBefore(3, k) => AskedAbout("tower", k)
      BY <2>4, <3>1
    <3>3. AskedAbout("tower", k) => Wanted(3)
      BY <2>3
    <3>4. QED
      BY <2>1, <3>2, <3>3
  <2>6. /\ AskedAbout("barcodelookup", "barcode") => Nothing
        /\ Nothing /\ KnownBefore(4, "barcode") => AskedAbout("barcodelookup", "barcode")
    <3>1. [stage |-> 4, provider |-> "barcodelookup", kind |-> "barcode"] \in Fallback
      BY DEF Fallback
    <3>2. Wanted(4) /\ KnownBefore(4, "barcode") => AskedAbout("barcodelookup", "barcode")
      BY <2>4, <3>1
    <3>3. AskedAbout("barcodelookup", "barcode") => Wanted(4)
      BY <2>3
    <3>4. QED
      BY <2>1, <3>2, <3>3
  <2>7. QED
    BY <2>5, <2>6 DEF Unsure, Nothing
<1>2. Inv /\ OnlyWanted /\ WantedAsked => FallbacksWhenNeeded
  BY <1>1 DEF FallbacksWhenNeeded
<1>3. QED
  BY <1>2, FallInductive, PTL
=============================================================================
