------------------------- MODULE ProviderCalls_proofs -------------------------
(***************************************************************************)
(* Proofs about ProviderCalls, for any look-ups, rounds, policies and ends  *)
(* of the process: hosts are spared, absence is said and not made up, and  *)
(* the cache gives what the service said.                                  *)
(***************************************************************************)
EXTENDS ProviderCalls, TLAPS, WellFoundedInduction

-----------------------------------------------------------------------------
(* The buckets. An age counts against the debt: of the requests from the   *)
(* i-th on, each has put the host an interval in debt, of which no more    *)
(* than the i-th's age has been paid since.                                *)

LEMMA Smallest ==
  ASSUME NEW T, T \subseteq Nat, T # {}
  PROVE  Min(T) \in T /\ \A y \in T : Min(T) <= y
<1>1. PICK x \in T : \A y \in T : <<y, x>> \notin OpToRel(<, Nat)
  BY NatLessThanWellFounded, WFMin
<1>2. \A y \in T : <<y, x>> \in Nat \X Nat
  OBVIOUS
<1>3. \A y \in T : ~(y < x)
  BY <1>1, <1>2 DEF OpToRel
<1>4. \A y \in T : x =< y
  BY <1>3
<1>5. QED
  BY <1>4 DEF Min

Counts(h, owed, ages) ==
  /\ owed \in Nat /\ owed <= Interval[h] * Burst[h] /\ ages \in Seq(Nat)
  /\ \A i \in 1..Len(ages) : (Len(ages) - i + 1) * Interval[h] <= owed + ages[i]
  /\ Len(ages) > 0 => ages[1] < Window[h]

Buckets ==
  /\ DOMAIN debt = Hosts /\ DOMAIN recent = Hosts
  /\ \A h \in Hosts : Counts(h, debt[h], recent[h])

LEMMA PoliciesAreNat ==
  ASSUME NEW h \in Hosts
  PROVE  /\ Burst[h] \in Nat \ {0} /\ Interval[h] \in Nat \ {0} /\ Window[h] \in Nat \ {0}
         /\ Interval[h] * Burst[h] \in Nat
         /\ Interval[h] * Burst[h] = Interval[h] * (Burst[h] - 1) + Interval[h]
<1>1. Burst[h] \in Nat \ {0} /\ Interval[h] \in Nat \ {0} /\ Window[h] \in Nat \ {0}
  BY PolicyAssumption DEF Hosts
<1>2. QED
  BY <1>1

LEMMA CallsAreOf ==
  ASSUME NEW c \in Calls
  PROVE  /\ Provider[c] \in Hosts /\ Statuses[c] \subseteq Nat
         /\ Cached(c) => Asked[c] \in DOMAIN Hit
<1>1. /\ Provider[c] \in DOMAIN Burst /\ Statuses[c] \subseteq Nat
      /\ Provider[c] = "tower" => Asked[c] \in DOMAIN Hit
  BY CallsAssumption
<1>2. QED
  BY <1>1 DEF Hosts, Cached

LEMMA NoneSentCounts == ASSUME NEW h \in Hosts PROVE Counts(h, 0, <<>>)
BY PoliciesAreNat DEF Counts

LEMMA SendCounts ==
  ASSUME NEW h \in Hosts, NEW owed, NEW ages, Counts(h, owed, ages),
         owed <= Interval[h] * (Burst[h] - 1)
  PROVE  Counts(h, owed + Interval[h], Append(ages, 0))
<1> DEFINE later == Append(ages, 0)
           n == Len(ages)
           I == Interval[h]
<1>1. /\ ages \in Seq(Nat) /\ n \in Nat /\ later \in Seq(Nat) /\ Len(later) = n + 1
      /\ later[n + 1] = 0 /\ \A i \in 1..n : later[i] = ages[i] /\ ages[i] \in Nat
  BY DEF Counts
<1>2. I \in Nat \ {0} /\ owed \in Nat /\ owed + I <= I * Burst[h]
  BY PoliciesAreNat DEF Counts
<1>3. ASSUME NEW i \in 1..(n + 1)
      PROVE  (n + 1 - i + 1) * I <= owed + I + later[i]
  <2>1. CASE i = n + 1
    BY <1>1, <1>2, <2>1
  <2>2. CASE i \in 1..n
    <3>1. (n - i + 1) * I <= owed + ages[i]
      BY <2>2 DEF Counts
    <3>2. (n + 1 - i + 1) * I = (n - i + 1) * I + I
      BY <1>1, <1>2
    <3>3. (n - i + 1) * I \in Nat
      BY <1>1, <1>2, <2>2
    <3> HIDE DEF I, n, later
    <3>4. QED
      BY <1>1, <1>2, <2>2, <3>1, <3>2, <3>3
  <2>3. QED
    BY <1>1, <2>1, <2>2
<1>4. later[1] < Window[h]
  BY <1>1, PoliciesAreNat DEF Counts
<1>5. n + 1 \in Nat /\ owed + I \in Nat
  BY <1>1, <1>2
<1> HIDE DEF later, n, I
<1>6. Counts(h, owed + I, later)
  BY <1>1, <1>2, <1>3, <1>4, <1>5 DEF Counts, I
<1>7. QED
  BY <1>6 DEF later, I

LEMMA TickCounts ==
  ASSUME NEW h \in Hosts, NEW owed, NEW ages, Counts(h, owed, ages)
  PROVE  Counts(h, IF owed = 0 THEN 0 ELSE owed - 1, Later(ages, Window[h]))
<1> DEFINE n == Len(ages)
           I == Interval[h]
           aged == [i \in DOMAIN ages |-> ages[i] + 1]
           kept == {i \in DOMAIN aged : aged[i] < Window[h]}
           m == Min(kept)
           less == IF owed = 0 THEN 0 ELSE owed - 1
<1>1. /\ ages \in Seq(Nat) /\ n \in Nat /\ aged \in Seq(Nat) /\ Len(aged) = n
      /\ DOMAIN aged = 1..n /\ \A i \in 1..n : ages[i] \in Nat /\ aged[i] = ages[i] + 1
  <2>1. ages \in Seq(Nat) /\ n \in Nat /\ \A i \in 1..n : ages[i] \in Nat
    BY DEF Counts
  <2>2. aged = [i \in 1..n |-> ages[i] + 1]
    BY <2>1
  <2>3. QED
    BY <2>1, <2>2
<1>2. /\ I \in Nat \ {0} /\ owed \in Nat /\ less \in Nat /\ less <= owed /\ owed <= less + 1
      /\ less <= I * Burst[h]
  BY PoliciesAreNat DEF Counts
<1>3. CASE kept = {}
  <2>1. Later(ages, Window[h]) = <<>>
    BY <1>3 DEF Later
  <2>2. QED
    BY <1>2, <2>1 DEF Counts
<1>4. CASE kept # {}
  <2> DEFINE later == SubSeq(aged, m, n)
  <2>1. Later(ages, Window[h]) = later
    BY <1>1, <1>4 DEF Later
  <2>2. m \in 1..n /\ aged[m] < Window[h]
    <3>1. m \in kept
      <4>1. kept \subseteq Nat
        BY <1>1
      <4> HIDE DEF kept
      <4>2. QED
        BY <1>4, <4>1, Smallest
    <3>2. QED
      BY <1>1, <3>1
  <2> HIDE DEF m, aged, kept
  <2>3. /\ later \in Seq(Nat) /\ Len(later) = n - m + 1
        /\ \A i \in 1..(n - m + 1) : later[i] = aged[m + i - 1]
    BY <1>1, <2>2
  <2> HIDE DEF later
  <2>4. ASSUME NEW i \in 1..Len(later)
        PROVE  (Len(later) - i + 1) * I <= less + later[i]
    <3> DEFINE k == m + i - 1
    <3>1. k \in 1..n /\ later[i] = ages[k] + 1 /\ n - k + 1 = Len(later) - i + 1
      <4>1. i \in 1..(n - m + 1) /\ i \in Nat
        BY <1>1, <2>2, <2>3
      <4>2. k \in 1..n /\ n - k + 1 = n - m + 1 - i + 1
        BY <1>1, <2>2, <4>1
      <4>3. later[i] = ages[k] + 1
        BY <1>1, <2>3, <4>1, <4>2
      <4>4. n - k + 1 = Len(later) - i + 1
        <5>1. Len(later) = n - m + 1
          BY <2>3
        <5> HIDE DEF k, n
        <5>2. QED
          BY <1>1, <2>2, <4>1, <4>2, <5>1
      <4>5. QED
        BY <4>2, <4>3, <4>4
    <3>2. (n - k + 1) * I <= owed + ages[k]
      BY <3>1 DEF Counts
    <3> HIDE DEF k
    <3>3. (n - k + 1) * I \in Nat /\ ages[k] \in Nat
      BY <1>1, <1>2, <3>1
    <3> HIDE DEF less, I, n
    <3>4. QED
      BY <1>2, <3>1, <3>2, <3>3
  <2>5. Len(later) > 0 => later[1] < Window[h]
    <3>1. 1 \in 1..(n - m + 1) /\ m + 1 - 1 = m
      BY <1>1, <2>2
    <3>2. later[1] = aged[m]
      BY <2>3, <3>1
    <3>3. QED
      BY <2>2, <3>2
  <2> HIDE DEF less, I
  <2>6. Counts(h, less, later)
    BY <1>2, <2>3, <2>4, <2>5 DEF Counts, I
  <2>7. QED
    BY <2>1, <2>6 DEF less
<1>5. QED
  BY <1>3, <1>4

\* A step of a call puts at most its own host in debt, when it may.
LEMMA CallSpends ==
  ASSUME NEW c \in Calls, Step(c)
  PROVE  \/ UNCHANGED <<debt, recent>>
         \/ /\ Allowed(Provider[c])
            /\ debt' = [debt EXCEPT ![Provider[c]] = @ + Interval[Provider[c]]]
            /\ recent' = [recent EXCEPT ![Provider[c]] = Append(@, 0)]
BY DEF Step, ReadMeta, ReadBody, CheckBucket, Sends, Wake, Receive, ReceiveError, CreateTmp,
       WriteTmp, RenameTmp, StoreFails, Use, Panic

LEMMA BucketsStep == Buckets /\ [Next]_vars => Buckets'
<1> SUFFICES ASSUME Buckets, [Next]_vars PROVE Buckets'
  OBVIOUS
<1>1. CASE UNCHANGED <<debt, recent>>
  BY <1>1 DEF Buckets
<1>2. ASSUME NEW c \in Calls, Step(c) PROVE Buckets'
  <2> DEFINE p == Provider[c]
  <2>1. CASE /\ Allowed(p) /\ debt' = [debt EXCEPT ![p] = @ + Interval[p]]
             /\ recent' = [recent EXCEPT ![p] = Append(@, 0)]
    <3>1. p \in Hosts
      BY CallsAreOf
    <3>2. Counts(p, debt[p] + Interval[p], Append(recent[p], 0))
      BY <2>1, <3>1, SendCounts DEF Buckets, Allowed
    <3> HIDE DEF p
    <3>3. QED
      BY <2>1, <3>1, <3>2 DEF Buckets
  <2>2. QED
    BY <1>1, <1>2, <2>1, CallSpends
<1>3. CASE Tick
  <2>1. ASSUME NEW h \in Hosts PROVE Counts(h, debt'[h], recent'[h])
    BY <1>3, <2>1, TickCounts DEF Tick, Buckets
  <2>2. QED
    BY <1>3, <2>1 DEF Tick, Buckets
<1>4. CASE Crash
  BY <1>4, NoneSentCounts DEF Crash, Buckets, NoneSent
<1>5. CASE Spawn \/ Join \/ Done \/ UNCHANGED vars
  BY <1>1, <1>5 DEF Spawn, Join, Done, vars
<1>6. QED
  BY <1>2, <1>3, <1>4, <1>5 DEF Next

LEMMA BucketsInvariant == Spec => []Buckets
<1>1. Init => Buckets
  BY NoneSentCounts DEF Init, Buckets, NoneSent
<1>2. QED
  BY <1>1, BucketsStep, PTL DEF Spec

\* Whatever its policy, a host gets at most what the policy's period refills beyond
\* its burst (get_with_headers, governor's bucket): twice the requests of a policy
\* that may be spent at once, such as Discogs'.
RateHeld ==
  \A h \in Hosts : Len(recent[h]) * Interval[h] < Burst[h] * Interval[h] + Window[h]

LEMMA CountsHold ==
  ASSUME NEW h \in Hosts, NEW owed, NEW ages, Counts(h, owed, ages)
  PROVE  Len(ages) * Interval[h] < Burst[h] * Interval[h] + Window[h]
<1> DEFINE n == Len(ages)
           I == Interval[h]
<1>1. /\ I \in Nat \ {0} /\ Window[h] \in Nat \ {0} /\ I * Burst[h] \in Nat
      /\ I * Burst[h] = Burst[h] * I
  BY PoliciesAreNat
<1>2. n \in Nat /\ owed \in Nat /\ owed <= I * Burst[h]
  BY DEF Counts
<1>3. CASE n = 0
  BY <1>1, <1>3
<1>4. CASE n > 0
  <2>1. ages[1] \in Nat /\ ages[1] < Window[h] /\ (n - 1 + 1) * I <= owed + ages[1]
    BY <1>2, <1>4 DEF Counts
  <2>2. n - 1 + 1 = n /\ n * I \in Nat
    BY <1>1, <1>2
  <2> HIDE DEF n, I
  <2>3. n * I < Burst[h] * I + Window[h]
    BY <1>1, <1>2, <2>1, <2>2
  <2>4. QED
    BY <2>3 DEF n, I
<1>5. QED
  BY <1>2, <1>3, <1>4

\* RateHeld: for every host, of any policy.
THEOREM RatesAreHeld == Spec => []RateHeld
<1>1. Buckets => RateHeld
  BY CountsHold DEF Buckets, RateHeld
<1>2. QED
  BY <1>1, BucketsInvariant, PTL

\* PolicyHeld: where a period refills one request at most, as those of MusicBrainz,
\* the Cover Art Archive, Tower and Barcode Lookup do, no period has more than the
\* policy's requests, however many threads ask, wait and wake.
THEOREM PolicyIsHeld ==
  ASSUME \A h \in Hosts : Window[h] <= Interval[h]
  PROVE  Spec => []PolicyHeld
<1>1. ASSUME Buckets, NEW h \in Hosts PROVE Len(recent[h]) <= Burst[h]
  <2> DEFINE n == Len(recent[h])
             I == Interval[h]
             B == Burst[h]
  <2>1. n \in Nat /\ I \in Nat \ {0} /\ B \in Nat \ {0} /\ Window[h] \in Nat
    BY <1>1, PoliciesAreNat DEF Buckets, Counts
  <2>2. n * I < B * I + Window[h]
    BY <1>1, CountsHold DEF Buckets
  <2> HIDE DEF n, I, B
  <2>3. n * I < B * I + I
    <3>1. n * I \in Nat /\ B * I \in Nat
      BY <2>1
    <3>2. QED
      BY <2>1, <2>2, <3>1 DEF I
  <2>4. ~(n >= B + 1)
    <3>1. ASSUME n >= B + 1 PROVE FALSE
      <4>1. PICK k \in Nat : n = B + 1 + k
        <5>1. n - (B + 1) \in Nat /\ n = B + 1 + (n - (B + 1))
          BY <2>1, <3>1
        <5>2. QED
          BY <5>1
      <4>2. n * I = B * I + I + k * I
        BY <2>1, <4>1
      <4>3. k * I \in Nat /\ B * I \in Nat
        BY <2>1
      <4>4. QED
        BY <2>1, <2>3, <4>2, <4>3
    <3>2. QED
      BY <3>1
  <2>5. QED
    BY <2>1, <2>4 DEF n, B
<1>2. Buckets => PolicyHeld
  BY <1>1 DEF PolicyHeld
<1>3. QED
  BY <1>2, BucketsInvariant, PTL

-----------------------------------------------------------------------------
(* A step of a call changes its own record; of the others at most which    *)
(* file they have open.                                                    *)

Fields == {"pc", "url", "status", "replies", "wake", "part", "open", "body", "outcome"}

IsCall(r) == r = [f \in Fields |-> r[f]]

Shaped == DOMAIN calls = Calls /\ \A c \in Calls : IsCall(calls[c])

\* c becomes the call r, and the others keep all but the file that they have open.
Moves(c, r) ==
  /\ DOMAIN calls' = Calls /\ calls'[c] = r
  /\ \A d \in Calls \ {c} : /\ IsCall(calls'[d])
                            /\ \A f \in Fields \ {"open"} : calls'[d][f] = calls[d][f]

LEMMA BecomesMoves ==
  ASSUME Shaped, NEW c \in Calls, NEW r, Becomes(c, r)
  PROVE  Moves(c, r) /\ \A d \in Calls \ {c} : calls'[d] = calls[d]
<1>1. ASSUME NEW d \in Calls, d # c PROVE calls'[d] = calls[d]
  BY <1>1 DEF Becomes, Shaped
<1>2. DOMAIN calls' = Calls /\ calls'[c] = r
  BY DEF Becomes, Shaped
<1>3. QED
  BY <1>1, <1>2 DEF Moves, Shaped

LEMMA MovesShape ==
  ASSUME Shaped, NEW c \in Calls, NEW r, Moves(c, r), IsCall(r)
  PROVE  Shaped'
<1>1. ASSUME NEW d \in Calls PROVE IsCall(calls'[d])
  BY <1>1 DEF Shaped, Moves
<1>2. QED
  BY <1>1 DEF Shaped, Moves

\* What a step of c makes of it, but for the reply it uses.
Onwards(c, r) ==
  /\ IsCall(r) /\ Moves(c, r)
  /\ r.replies = calls[c].replies
  /\ \/ r.outcome = calls[c].outcome /\ r.pc \notin {"idle", "ended"}
     \/ r.pc = "ended" /\ \E e : r.outcome = Failed(e)

LEMMA StepMoves ==
  ASSUME Shaped, NEW c \in Calls, Step(c), ~Use(c)
  PROVE  Onwards(c, calls'[c]) /\ calls[c].pc \notin {"idle", "ended"}
<1> DEFINE k == calls[c]
<1>0. IsCall(k)
  BY DEF Shaped
<1>1. ASSUME NEW r, Becomes(c, r), IsCall(r), r.replies = k.replies,
             \/ r.outcome = k.outcome /\ r.pc \notin {"idle", "ended"}
             \/ r.pc = "ended" /\ \E e : r.outcome = Failed(e)
      PROVE  Onwards(c, calls'[c])
  <2>1. Moves(c, r) /\ calls'[c] = r
    BY <1>1, BecomesMoves DEF Moves
  <2>2. QED
    BY <1>1, <2>1 DEF Onwards
<1>2. ASSUME NEW pc, Goes(c, pc), pc \notin {"idle", "ended"} PROVE Onwards(c, calls'[c])
  <2> DEFINE r == [k EXCEPT !.pc = pc]
  <2>1. Becomes(c, r)
    BY <1>2 DEF Goes
  <2>2. IsCall(r) /\ r.replies = k.replies /\ r.outcome = k.outcome /\ r.pc = pc
    <3> HIDE DEF k
    <3>1. QED
      BY <1>0 DEF IsCall, Fields
  <2> HIDE DEF r
  <2>3. QED
    BY <1>1, <1>2, <2>1, <2>2
<1>3. CASE ReadMeta(c)
  <2> DEFINE r == [k EXCEPT !.pc = "html", !.status = files[<<k.url, "meta">>].status]
  <2>1. Goes(c, "bucket") \/ Becomes(c, r)
    BY <1>3 DEF ReadMeta
  <2>2. IsCall(r) /\ r.replies = k.replies /\ r.outcome = k.outcome /\ r.pc = "html"
    <3> HIDE DEF k
    <3>1. QED
      BY <1>0 DEF IsCall, Fields
  <2>3. k.pc = "meta"
    BY <1>3 DEF ReadMeta
  <2> HIDE DEF r
  <2>4. QED
    BY <1>1, <1>2, <2>1, <2>2, <2>3
<1>4. CASE ReadBody(c)
  <2> DEFINE r == [k EXCEPT !.pc = "read", !.body = files[<<k.url, "html">>]]
  <2>1. Goes(c, "bucket") \/ Becomes(c, r)
    BY <1>4 DEF ReadBody
  <2>2. IsCall(r) /\ r.replies = k.replies /\ r.outcome = k.outcome /\ r.pc = "read"
    <3> HIDE DEF k
    <3>1. QED
      BY <1>0 DEF IsCall, Fields
  <2>3. k.pc = "html"
    BY <1>4 DEF ReadBody
  <2> HIDE DEF r
  <2>4. QED
    BY <1>1, <1>2, <2>1, <2>2, <2>3
<1>5. CASE CheckBucket(c)
  <2> DEFINE r == [k EXCEPT !.pc = "asleep", !.wake = WaitTime(Provider[c])]
  <2>1. Goes(c, "sent") \/ Becomes(c, r)
    BY <1>5 DEF CheckBucket, Sends
  <2>2. IsCall(r) /\ r.replies = k.replies /\ r.outcome = k.outcome /\ r.pc = "asleep"
    <3> HIDE DEF k
    <3>1. QED
      BY <1>0 DEF IsCall, Fields
  <2>3. k.pc = "bucket"
    BY <1>5 DEF CheckBucket
  <2> HIDE DEF r
  <2>4. QED
    BY <1>1, <1>2, <2>1, <2>2, <2>3
<1>6. CASE Wake(c)
  BY <1>2, <1>6 DEF Wake
<1>7. ASSUME NEW status \in Statuses[c], Receive(c, status)
      PROVE  Onwards(c, calls'[c]) /\ k.pc \notin {"idle", "ended"}
  <2> DEFINE r == [k EXCEPT !.pc = IF Stored(c, status) THEN "create" ELSE "read", !.status = status,
                            !.body = BodyFor(k.url, status), !.part = Parts[1]]
  <2>1. Becomes(c, r) /\ k.pc = "sent"
    BY <1>7 DEF Receive
  <2>2. IsCall(r) /\ r.replies = k.replies /\ r.outcome = k.outcome /\ r.pc \in {"create", "read"}
    <3> HIDE DEF k
    <3>1. QED
      BY <1>0 DEF IsCall, Fields
  <2> HIDE DEF r
  <2>3. QED
    BY <1>1, <2>1, <2>2
<1>8. ASSUME NEW e \in Errors, ReceiveError(c, e)
      PROVE  Onwards(c, calls'[c]) /\ k.pc \notin {"idle", "ended"}
  <2> DEFINE r == [k EXCEPT !.pc = "ended", !.outcome = Failed(MapHttpErr(e))]
  <2>1. Becomes(c, r) /\ k.pc = "sent"
    BY <1>8 DEF ReceiveError
  <2>2. IsCall(r) /\ r.replies = k.replies /\ r.outcome = Failed(MapHttpErr(e)) /\ r.pc = "ended"
    <3> HIDE DEF k
    <3>1. QED
      BY <1>0 DEF IsCall, Fields
  <2> HIDE DEF r
  <2>3. QED
    BY <1>1, <2>1, <2>2
<1>9. CASE CreateTmp(c)
  <2> DEFINE r == [k EXCEPT !.pc = "write", !.open = Tmp(c)]
  <2>1. Becomes(c, r) /\ k.pc = "create"
    BY <1>9 DEF CreateTmp
  <2>2. IsCall(r) /\ r.replies = k.replies /\ r.outcome = k.outcome /\ r.pc = "write"
    <3> HIDE DEF k
    <3>1. QED
      BY <1>0 DEF IsCall, Fields
  <2> HIDE DEF r
  <2>3. QED
    BY <1>1, <2>1, <2>2
<1>10. CASE WriteTmp(c)
  <2> DEFINE r == [k EXCEPT !.pc = "rename", !.open = None]
  <2>1. Becomes(c, r) /\ k.pc = "write"
    BY <1>10 DEF WriteTmp
  <2>2. IsCall(r) /\ r.replies = k.replies /\ r.outcome = k.outcome /\ r.pc = "rename"
    <3> HIDE DEF k
    <3>1. QED
      BY <1>0 DEF IsCall, Fields
  <2> HIDE DEF r
  <2>3. QED
    BY <1>1, <2>1, <2>2
<1>11. CASE RenameTmp(c)
  <2> DEFINE target == <<k.url, k.part>>
             all == Renamed(c, target)
             next == IF k.part = Parts[2] THEN "read" ELSE "create"
  <2>1. k.pc = "rename" /\ (Goes(c, "read") \/ calls' = [all EXCEPT ![c].pc = next, ![c].part = Parts[2]])
    BY <1>11 DEF RenameTmp
  <2>2. CASE calls' = [all EXCEPT ![c].pc = next, ![c].part = Parts[2]]
    <3>1. /\ DOMAIN all = Calls
          /\ \A d \in Calls : /\ IsCall(all[d]) /\ \A f \in Fields \ {"open"} : all[d][f] = calls[d][f]
      BY DEF Renamed, Shaped, IsCall, Fields
    <3> HIDE DEF all, next
    <3>2. /\ DOMAIN calls' = Calls /\ \A d \in Calls \ {c} : calls'[d] = all[d]
          /\ calls'[c] = [all[c] EXCEPT !.pc = next, !.part = Parts[2]]
      BY <2>2, <3>1
    <3>3. /\ IsCall(calls'[c]) /\ calls'[c].replies = k.replies /\ calls'[c].outcome = k.outcome
          /\ calls'[c].pc = next
      <4>1. /\ IsCall(all[c]) /\ all[c]["replies"] = k["replies"]
            /\ all[c]["outcome"] = k["outcome"]
        BY <3>1 DEF Fields
      <4>2. QED
        BY <3>2, <4>1 DEF IsCall, Fields
    <3>4. Moves(c, calls'[c])
      BY <3>1, <3>2, <3>3 DEF Moves, IsCall, Fields
    <3>5. next \notin {"idle", "ended"}
      BY DEF next
    <3>6. QED
      BY <2>1, <3>3, <3>4, <3>5 DEF Onwards
  <2>3. QED
    BY <1>2, <2>1, <2>2
<1>12. CASE StoreFails(c)
  <2> DEFINE r == [k EXCEPT !.pc = "read", !.open = None]
  <2>1. Becomes(c, r) /\ k.pc \in {"create", "write"}
    BY <1>12 DEF StoreFails
  <2>2. IsCall(r) /\ r.replies = k.replies /\ r.outcome = k.outcome /\ r.pc = "read"
    <3> HIDE DEF k
    <3>1. QED
      BY <1>0 DEF IsCall, Fields
  <2> HIDE DEF r
  <2>3. QED
    BY <1>1, <2>1, <2>2
<1>13. CASE Panic(c)
  <2> DEFINE r == [k EXCEPT !.pc = "ended", !.outcome = Failed("Other"), !.body = None,
                            !.part = None, !.status = None]
  <2>1. Becomes(c, r) /\ k.pc = "read"
    BY <1>13 DEF Panic
  <2>2. IsCall(r) /\ r.replies = k.replies /\ r.outcome = Failed("Other") /\ r.pc = "ended"
    <3> HIDE DEF k
    <3>1. QED
      BY <1>0 DEF IsCall, Fields
  <2> HIDE DEF r
  <2>3. QED
    BY <1>1, <2>1, <2>2
<1>14. QED
  BY <1>3, <1>4, <1>5, <1>6, <1>7, <1>8, <1>9, <1>10, <1>11, <1>12, <1>13 DEF Step, Wake

LEMMA UseMoves ==
  ASSUME Shaped, NEW c \in Calls, Use(c)
  PROVE  LET k == calls[c]
             reply == [url |-> k.url, status |-> k.status, body |-> k.body]
             replies == Append(k.replies, reply)
             search == SearchReply(replies[1])
             r == calls'[c]
         IN  /\ k.pc = "read" /\ IsCall(r) /\ Becomes(c, r) /\ r.replies = replies /\ r.open = k.open
             /\ \/ r.pc = "ended" /\ ~Cached(c)
                   /\ r.outcome = Answer(Provider[c], [error |-> None, status |-> reply.status, body |-> <<>>])
                \/ r.pc = "ended" /\ Cached(c) /\ Len(replies) = 2
                   /\ r.outcome = TowerLookup(search, PageReply(reply))
                \/ r.pc = "ended" /\ Cached(c) /\ Len(replies) # 2 /\ ~NeedsPage(search)
                   /\ r.outcome = TowerLookup(search, search)
                \/ r.pc = "meta" /\ Cached(c) /\ Len(replies) # 2 /\ NeedsPage(search)
                   /\ r.outcome = k.outcome /\ r.url = <<"release", Hit[Asked[c]]>>
<1> DEFINE k == calls[c]
           reply == [url |-> k.url, status |-> k.status, body |-> k.body]
           replies == Append(k.replies, reply)
           search == SearchReply(replies[1])
           next == [k EXCEPT !.replies = replies, !.body = None, !.part = None, !.status = None]
           ended(outcome) == [next EXCEPT !.pc = "ended", !.outcome = outcome]
           opens == [next EXCEPT !.pc = "meta", !.url = <<"release", Hit[Asked[c]]>>]
<1>1. IsCall(k)
  BY DEF Shaped
<1>2. IsCall(next) /\ next.replies = replies /\ next.outcome = k.outcome /\ next.open = k.open
  <2> HIDE DEF k, replies
  <2>1. QED
    BY <1>1 DEF IsCall, Fields
<1>3. ASSUME NEW o PROVE /\ IsCall(ended(o)) /\ ended(o).replies = replies /\ ended(o).outcome = o
                         /\ ended(o).pc = "ended" /\ ended(o).open = k.open
  <2> HIDE DEF k, next, replies
  <2>1. QED
    BY <1>2 DEF IsCall, Fields
<1>4. /\ IsCall(opens) /\ opens.replies = replies /\ opens.outcome = k.outcome
      /\ opens.pc = "meta" /\ opens.open = k.open /\ opens.url = <<"release", Hit[Asked[c]]>>
  <2> HIDE DEF k, next, replies
  <2>1. QED
    BY <1>2 DEF IsCall, Fields
<1>5. /\ k.pc = "read"
      /\ \/ ~Cached(c) /\ Becomes(c, ended(Answer(Provider[c],
                              [error |-> None, status |-> reply.status, body |-> <<>>])))
         \/ Cached(c) /\ Len(replies) = 2 /\ Becomes(c, ended(TowerLookup(search, PageReply(reply))))
         \/ /\ Cached(c) /\ Len(replies) # 2 /\ ~NeedsPage(search)
            /\ Becomes(c, ended(TowerLookup(search, search)))
         \/ Cached(c) /\ Len(replies) # 2 /\ NeedsPage(search) /\ Becomes(c, opens)
  BY DEF Use
<1>6. ASSUME NEW r, Becomes(c, r) PROVE calls'[c] = r
  BY <1>6, BecomesMoves DEF Moves
<1> HIDE DEF ended, opens, next, search
<1>7. QED
  BY <1>3, <1>4, <1>5, <1>6 DEF search

-----------------------------------------------------------------------------
(* Not found is said. A look-up that goes on has no outcome yet, and of     *)
(* Tower's first reply it knows that it has hits.                          *)

SearchedBy(c, replies) ==
  \/ replies = <<>>
  \/ replies = <<replies[1]>> /\ Cached(c) /\ NeedsPage(SearchReply(replies[1]))

Absent(c, r) ==
  r.outcome # None /\ r.outcome.ok /\ r.outcome.hits = <<>> =>
    r.replies[Len(r.replies)].status \in {200, 404}

Honest(c, r) ==
  /\ r.pc # "ended" => r.outcome = None /\ SearchedBy(c, r.replies)
  /\ Absent(c, r)

AllHonest == Shaped /\ \A c \in Calls : Honest(c, calls[c])

LEMMA AnswerSaid ==
  ASSUME NEW p, NEW reply, Answer(p, reply).ok
  PROVE  reply.status \in {200, 404}
BY DEF Answer, Failed, Found

LEMMA SearchSaid ==
  ASSUME NEW reply, NEW page, TowerLookup(SearchReply(reply), page).ok,
         ~NeedsPage(SearchReply(reply))
  PROVE  reply.status \in {200, 404}
<1>1. Answer("tower", SearchReply(reply)).ok
  BY DEF TowerLookup
<1>2. SearchReply(reply).status \in {200, 404}
  BY <1>1, AnswerSaid
<1>3. QED
  BY <1>2 DEF SearchReply

LEMMA PageSaid ==
  ASSUME NEW search, NEW reply, NeedsPage(search),
         TowerLookup(search, PageReply(reply)).ok, TowerLookup(search, PageReply(reply)).hits = <<>>
  PROVE  reply.status \in {200, 404}
<1> DEFINE page == PageReply(reply)
           opened == Answer("tower", page)
<1>1. Answer("tower", search).ok
  BY DEF NeedsPage
<1>2. ASSUME NEW x PROVE TowerCandidates(x) # <<>>
  BY DEF TowerCandidates
<1>3. Found(TowerCandidates(opened.hits)).hits # <<>>
  BY <1>2 DEF Found
<1>4. opened.ok
  <2> HIDE DEF opened
  <2>1. TowerLookup(search, page) = opened \/ opened.ok
    BY <1>1 DEF TowerLookup, opened
  <2>2. QED
    BY <2>1
<1>5. page.status \in {200, 404}
  BY <1>4, AnswerSaid
<1>6. QED
  BY <1>5 DEF PageReply

\* The reply that is used is the first or the second.
LEMMA RepliesNow ==
  ASSUME NEW c, NEW old, SearchedBy(c, old), NEW reply
  PROVE  LET replies == Append(old, reply)
         IN  /\ old = <<>> => Len(replies) = 1 /\ replies = <<reply>> /\ replies[1] = reply
             /\ old = <<old[1]>> => Len(replies) = 2 /\ replies[1] = old[1] /\ replies[2] = reply
             /\ \A i \in DOMAIN replies : replies[i] = reply \/ (i \in DOMAIN old /\ replies[i] = old[i])
<1> DEFINE replies == Append(old, reply)
<1>1. CASE old = <<>>
  <2>1. LET s == Append(<<>>, reply) IN Len(s) = 1 /\ s[1] = reply /\ s = <<reply>> /\ DOMAIN s = {1}
    OBVIOUS
  <2>2. replies = Append(<<>>, reply)
    BY <1>1
  <2> HIDE DEF replies
  <2>3. QED
    BY <1>1, <2>1, <2>2 DEF replies
<1>2. CASE old = <<old[1]>>
  <2>1. ASSUME NEW a PROVE LET s == Append(<<a>>, reply)
                           IN  Len(s) = 2 /\ s[1] = a /\ s[2] = reply /\ DOMAIN s = {1, 2}
    OBVIOUS
  <2> DEFINE a == old[1]
  <2>2. old = <<a>>
    BY <1>2
  <2> HIDE DEF a
  <2>3. replies = Append(<<a>>, reply) /\ 1 \in DOMAIN old /\ old # <<>>
    BY <2>2
  <2> HIDE DEF replies
  <2>4. Len(replies) = 2 /\ replies[1] = a /\ replies[2] = reply /\ DOMAIN replies = {1, 2}
    BY <2>1, <2>3
  <2>5. QED
    BY <2>3, <2>4 DEF a, replies
<1>3. QED
  BY <1>1, <1>2 DEF SearchedBy

LEMMA UseIsHonest ==
  ASSUME Shaped, NEW c \in Calls, Use(c), Honest(c, calls[c])
  PROVE  Honest(c, calls'[c])
<1> DEFINE k == calls[c]
           reply == [url |-> k.url, status |-> k.status, body |-> k.body]
           replies == Append(k.replies, reply)
           r == calls'[c]
<1>1. SearchedBy(c, k.replies) /\ k.outcome = None
  BY UseMoves DEF Honest
<1>2. /\ k.replies = <<>> => Len(replies) = 1 /\ replies[1] = reply /\ replies = <<reply>>
      /\ k.replies = <<k.replies[1]>> => Len(replies) = 2 /\ replies[1] = k.replies[1] /\ replies[2] = reply
  <2> HIDE DEF k, reply
  <2>1. QED
    BY <1>1, RepliesNow
<1>3. replies[Len(replies)] = reply /\ Len(replies) \in {1, 2}
  BY <1>1, <1>2 DEF SearchedBy
<1> DEFINE search == SearchReply(replies[1])
<1>4. /\ r.replies = replies
      /\ \/ r.pc = "ended" /\ ~Cached(c)
            /\ r.outcome = Answer(Provider[c], [error |-> None, status |-> reply.status, body |-> <<>>])
         \/ r.pc = "ended" /\ Cached(c) /\ Len(replies) = 2
            /\ r.outcome = TowerLookup(search, PageReply(reply))
         \/ r.pc = "ended" /\ Cached(c) /\ Len(replies) # 2 /\ ~NeedsPage(search)
            /\ r.outcome = TowerLookup(search, search)
         \/ r.pc = "meta" /\ Cached(c) /\ Len(replies) # 2 /\ NeedsPage(search)
            /\ r.outcome = k.outcome
  BY UseMoves
<1>5. Absent(c, r) <=> (r.outcome # None /\ r.outcome.ok /\ r.outcome.hits = <<>> =>
                          reply.status \in {200, 404})
  BY <1>3, <1>4 DEF Absent
<1> HIDE DEF replies, k, r
<1>6. CASE r.outcome = Answer(Provider[c], [error |-> None, status |-> reply.status, body |-> <<>>])
           /\ r.pc = "ended"
  <2>1. r.outcome.ok => reply.status \in {200, 404}
    <3> HIDE DEF reply
    <3>1. QED
      BY <1>6, AnswerSaid
  <2>2. QED
    BY <1>5, <1>6, <2>1 DEF Honest, r
<1>7. CASE r.pc = "ended" /\ Len(replies) = 2 /\ r.outcome = TowerLookup(search, PageReply(reply))
  <2>1. NeedsPage(search)
    BY <1>1, <1>2, <1>7 DEF SearchedBy
  <2>2. QED
    BY <1>5, <1>7, <2>1, PageSaid DEF Honest, r
<1>8. CASE r.pc = "ended" /\ Len(replies) # 2 /\ ~NeedsPage(search) /\ r.outcome = TowerLookup(search, search)
  <2>1. replies[1] = reply
    BY <1>3, <1>8
  <2>2. r.outcome.ok => reply.status \in {200, 404}
    BY <1>8, <2>1, SearchSaid
  <2>3. QED
    BY <1>5, <1>8, <2>2 DEF Honest, r
<1>9. CASE r.pc = "meta" /\ Cached(c) /\ Len(replies) # 2 /\ NeedsPage(search) /\ r.outcome = k.outcome
  <2>1. r.outcome = None
    BY <1>1, <1>9
  <2>2. replies = <<replies[1]>>
    BY <1>1, <1>2, <1>9 DEF SearchedBy
  <2>3. QED
    BY <1>4, <1>5, <1>9, <2>1, <2>2 DEF Honest, SearchedBy, r
<1>10. QED
  BY <1>4, <1>6, <1>7, <1>8, <1>9

LEMMA OthersAreHonest ==
  ASSUME AllHonest, NEW c \in Calls, NEW r, Moves(c, r), IsCall(r), Honest(c, r)
  PROVE  AllHonest'
<1>1. ASSUME NEW d \in Calls \ {c} PROVE Honest(d, calls'[d])
  <2>1. /\ calls'[d]["pc"] = calls[d]["pc"] /\ calls'[d]["replies"] = calls[d]["replies"]
        /\ calls'[d]["outcome"] = calls[d]["outcome"]
    BY DEF Moves, Fields
  <2>2. Honest(d, calls[d])
    BY DEF AllHonest
  <2>3. QED
    BY <2>1, <2>2 DEF Honest, Absent
<1>2. \A d \in Calls : Honest(d, calls'[d])
  BY <1>1 DEF Moves
<1>3. Shaped'
  BY MovesShape DEF AllHonest
<1>4. QED
  BY <1>2, <1>3 DEF AllHonest

LEMMA HonestStep == AllHonest /\ [Next]_vars => AllHonest'
<1> SUFFICES ASSUME AllHonest, [Next]_vars PROVE AllHonest'
  OBVIOUS
<1>0. Shaped /\ \A c \in Calls : IsCall(calls[c]) /\ Honest(c, calls[c])
  BY DEF AllHonest, Shaped
<1>1. IsCall(Idle) /\ \A c \in Calls : Honest(c, Idle)
  BY DEF Idle, IsCall, Fields, Honest, SearchedBy, Absent
<1>2. CASE UNCHANGED calls
  BY <1>0, <1>2 DEF AllHonest, Shaped
<1>3. ASSUME NEW c \in Calls, Step(c) PROVE AllHonest'
  <2> DEFINE r == calls'[c]
  <2>1. CASE Use(c)
    <3>1. Honest(c, r)
      BY <1>0, <2>1, UseIsHonest
    <3>2. IsCall(r) /\ Moves(c, r)
      BY <1>0, <2>1, UseMoves, BecomesMoves
    <3>3. QED
      BY <3>1, <3>2, OthersAreHonest
  <2>2. CASE ~Use(c)
    <3>1. Onwards(c, r) /\ calls[c].pc # "ended"
      BY <1>0, <1>3, <2>2, StepMoves
    <3>2. Honest(c, r)
      <4>1. Honest(c, calls[c]) /\ calls[c].outcome = None
        BY <1>0, <3>1 DEF Honest
      <4> HIDE DEF r
      <4>2. CASE r.outcome = None /\ r.pc \notin {"idle", "ended"}
        BY <3>1, <4>1, <4>2 DEF Onwards, Honest, Absent
      <4>3. CASE r.pc = "ended" /\ \E e : r.outcome = Failed(e)
        BY <4>3 DEF Honest, Absent, Failed
      <4>4. QED
        BY <3>1, <4>1, <4>2, <4>3 DEF Onwards
    <3>3. QED
      BY <3>1, <3>2, OthersAreHonest DEF Onwards
  <2>3. QED
    BY <2>1, <2>2
<1>4. CASE Spawn
  <2> DEFINE new(c) == [Idle EXCEPT !.pc = IF Cached(c) THEN "meta" ELSE "bucket", !.url = FirstUrl(c)]
  <2>1. ASSUME NEW c \in Calls PROVE IsCall(new(c)) /\ Honest(c, new(c))
    <3>1. /\ IsCall(new(c)) /\ new(c).outcome = None /\ new(c).replies = <<>>
      BY DEF Idle, IsCall, Fields
    <3> HIDE DEF new
    <3>2. QED
      BY <3>1 DEF Honest, SearchedBy, Absent
  <2>2. calls' = [c \in Calls |-> IF c \in Rounds[round] THEN new(c) ELSE calls[c]]
    BY <1>4 DEF Spawn
  <2> HIDE DEF new
  <2>3. QED
    BY <1>0, <2>1, <2>2 DEF AllHonest, Shaped
<1>5. CASE Tick
  <2> DEFINE later(c) == [calls[c] EXCEPT !.wake = IF @ = 0 THEN 0 ELSE @ - 1]
  <2>1. ASSUME NEW c \in Calls PROVE IsCall(later(c)) /\ Honest(c, later(c))
    <3>1. /\ IsCall(later(c)) /\ later(c).outcome = calls[c].outcome
          /\ later(c).replies = calls[c].replies /\ later(c).pc = calls[c].pc
      BY <1>0 DEF IsCall, Fields
    <3> HIDE DEF later
    <3>2. QED
      BY <1>0, <3>1 DEF Honest, Absent
  <2>2. calls' = [c \in Calls |-> later(c)]
    BY <1>5 DEF Tick
  <2> HIDE DEF later
  <2>3. QED
    BY <2>1, <2>2 DEF AllHonest, Shaped
<1>6. CASE Crash
  BY <1>0, <1>1, <1>6 DEF Crash, AllHonest, Shaped
<1>7. QED
  BY <1>2, <1>3, <1>4, <1>5, <1>6 DEF Next, Join, Done, vars

LEMMA HonestAtFirst == Init => AllHonest
<1>1. IsCall(Idle) /\ \A c \in Calls : Honest(c, Idle)
  BY DEF Idle, IsCall, Fields, Honest, SearchedBy, Absent
<1>2. QED
  BY <1>1 DEF Init, AllHonest, Shaped

\* AbsenceIsSaid: of every look-up, whatever is on disk, whoever shares its host or
\* its pages, and however often the process dies: nothing found means that the
\* service said so with 200 or 404, and never that something failed.
THEOREM AbsenceIsAlwaysSaid == Spec => []AbsenceIsSaid
<1>1. AllHonest => AbsenceIsSaid
  BY DEF AllHonest, Honest, Absent, AbsenceIsSaid
<1>2. QED
  BY <1>1, HonestAtFirst, HonestStep, PTL DEF Spec

-----------------------------------------------------------------------------
(* The cache. While look-ups that run side by side ask for different pages, *)
(* each page has one writer, and what is fresh is whole.                   *)

\* The look-ups of a round do not ask for one page: they differ in their queries,
\* and in the release that their search finds, if it finds one.
DifferentPages ==
  \A i \in DOMAIN Rounds : \A c, d \in Rounds[i] :
    c # d /\ Cached(c) /\ Cached(d) =>
      Asked[c] # Asked[d] /\ (Hit[Asked[c]] # Hit[Asked[d]] \/ Hit[Asked[c]] = None)

Said == UNION {Statuses[c] : c \in Calls}

\* A whole meta file about this status.
IsMeta(content, status) ==
  /\ content = [kind |-> "meta", status |-> status, age |-> content.age]
  /\ content.age \in Nat /\ status \in Said

Live(meta, url) == meta # None /\ meta.kind = "meta" /\ meta.age <= TtlOf(url)

WholePage(url, fs) ==
  LET meta == fs[<<url, "meta">>]
  IN  /\ meta # None => IsMeta(meta, meta.status)
      /\ Live(meta, url) => fs[<<url, "html">>] = BodyFor(url, meta.status)

WholeFiles(fs) == DOMAIN fs = Names /\ \A url \in Pages : WholePage(url, fs)

UrlNow(c, replies) ==
  IF replies = <<>> THEN <<"search", Asked[c]>> ELSE <<"release", Hit[Asked[c]]>>

Fetched(reply) == reply.body = BodyFor(reply.url, reply.status)

\* Which round a look-up is of, which page it asks for, and what it has read.
Places(c, k, rd) ==
  /\ k.pc \notin {"idle", "ended"} => rd \in DOMAIN Rounds /\ c \in Rounds[rd]
  /\ k.pc \in {"meta", "html", "create", "write", "rename"} => Cached(c)
  /\ Cached(c) /\ k.pc \notin {"idle", "ended"} =>
       k.url = UrlNow(c, k.replies) /\ k.url \in Pages
  /\ k.open = IF k.pc = "write" THEN <<k.url, "tmp">> ELSE None
  /\ \A i \in DOMAIN k.replies : Fetched(k.replies[i])
  /\ k.pc = "read" => Fetched(k)

\* What is in the files of its page. A page is written only once it is not fresh.
Stores(c, k, fs) ==
  /\ k.pc = "html" => k.status \in Said /\ fs[<<k.url, "html">>] = BodyFor(k.url, k.status)
  /\ Cached(c) /\ k.pc \in {"bucket", "asleep", "sent", "create", "write", "rename"} =>
       ~Live(fs[<<k.url, "meta">>], k.url)
  /\ k.pc \in {"create", "write", "rename"} =>
       /\ Fetched(k) /\ k.status \in Said /\ k.part \in {"html", "meta"}
       /\ k.part = "meta" => fs[<<k.url, "html">>] = k.body
  /\ k.pc = "rename" =>
       IF k.part = "html" THEN fs[<<k.url, "tmp">>] = k.body
       ELSE IsMeta(fs[<<k.url, "tmp">>], k.status)

Kept ==
  /\ AllHonest /\ WholeFiles(files)
  /\ \A c \in Calls : Places(c, calls[c], round) /\ Stores(c, calls[c], files)

Busy(c) == calls[c].pc \notin {"idle", "ended"}

LEMMA PagesOf ==
  ASSUME NEW url \in Pages
  PROVE  <<url, "html">> \in Names /\ <<url, "meta">> \in Names /\ <<url, "tmp">> \in Names
BY DEF Names

LEMMA UrlsDiffer ==
  ASSUME DifferentPages, Kept, NEW c \in Calls, NEW d \in Calls, c # d,
         Cached(c), Cached(d), Busy(c), Busy(d)
  PROVE  calls[c].url # calls[d].url
<1>1. /\ round \in DOMAIN Rounds /\ c \in Rounds[round] /\ d \in Rounds[round]
      /\ calls[c].url = UrlNow(c, calls[c].replies) /\ calls[c].url \in Pages
      /\ calls[d].url = UrlNow(d, calls[d].replies)
  BY DEF Kept, Places, Busy
<1>2. Asked[c] # Asked[d] /\ (Hit[Asked[c]] # Hit[Asked[d]] \/ Hit[Asked[c]] = None)
  BY <1>1 DEF DifferentPages
<1>3. calls[c].url = <<"release", Hit[Asked[c]]>> => Hit[Asked[c]] # None
  BY <1>1 DEF Pages
<1>4. QED
  BY <1>1, <1>2, <1>3 DEF UrlNow

\* What a look-up goes by is in the files of its page.
LEMMA StoresStay ==
  ASSUME NEW c \in Calls, NEW k, NEW fs, NEW gs, NEW rd, Places(c, k, rd), Stores(c, k, fs),
         Cached(c) /\ k.pc \notin {"idle", "ended"} =>
           \A part \in {"html", "meta", "tmp"} : gs[<<k.url, part>>] = fs[<<k.url, part>>]
  PROVE  Stores(c, k, gs)
<1>1. CASE Cached(c) /\ k.pc \notin {"idle", "ended"}
  <2>1. /\ gs[<<k.url, "html">>] = fs[<<k.url, "html">>]
        /\ gs[<<k.url, "meta">>] = fs[<<k.url, "meta">>]
        /\ gs[<<k.url, "tmp">>] = fs[<<k.url, "tmp">>]
    BY <1>1
  <2>2. QED
    BY <2>1 DEF Stores
<1>2. CASE ~Cached(c) \/ k.pc \in {"idle", "ended"}
  BY <1>2 DEF Stores, Places
<1>3. QED
  BY <1>1, <1>2

\* A step of a call that touches no other's record and no other's page.
LEMMA OwnStep ==
  ASSUME DifferentPages, Kept, NEW c \in Calls, Busy(c), round' = round, AllHonest',
         \A d \in Calls \ {c} : calls'[d] = calls[d],
         \/ files' = files
         \/ /\ Cached(c) /\ DOMAIN files' = Names /\ WholePage(calls[c].url, files')
            /\ \A n \in Names : n[1] # calls[c].url => files'[n] = files[n],
         Places(c, calls'[c], round), Stores(c, calls'[c], files')
  PROVE  Kept'
<1>1. ASSUME NEW url \in Pages, url # calls[c].url
      PROVE  \A part \in {"html", "meta", "tmp"} : files'[<<url, part>>] = files[<<url, part>>]
  BY <1>1, PagesOf
<1>2. WholeFiles(files')
  <2>1. CASE files' = files
    BY <2>1 DEF Kept
  <2>2. ASSUME NEW url \in Pages, url # calls[c].url PROVE WholePage(url, files')
    <3>1. WholePage(url, files)
      BY DEF Kept, WholeFiles
    <3>2. /\ files'[<<url, "html">>] = files[<<url, "html">>]
          /\ files'[<<url, "meta">>] = files[<<url, "meta">>]
      BY <1>1, <2>2
    <3>3. QED
      BY <3>1, <3>2 DEF WholePage
  <2>3. QED
    BY <2>1, <2>2 DEF WholeFiles
<1>3. ASSUME NEW d \in Calls, d # c
      PROVE  Places(d, calls'[d], round') /\ Stores(d, calls'[d], files')
  <2>1. calls'[d] = calls[d]
    BY <1>3
  <2>2. Places(d, calls[d], round) /\ Stores(d, calls[d], files)
    BY DEF Kept
  <2>3. ASSUME Cached(d), calls[d].pc \notin {"idle", "ended"}
        PROVE  \A part \in {"html", "meta", "tmp"} :
                 files'[<<calls[d].url, part>>] = files[<<calls[d].url, part>>]
    <3>1. calls[d].url \in Pages
      BY <2>2, <2>3 DEF Places
    <3>2. Cached(c) => calls[d].url # calls[c].url
      BY <1>3, <2>3, UrlsDiffer DEF Busy
    <3>3. QED
      BY <1>1, <3>1, <3>2
  <2>4. Stores(d, calls[d], files')
    BY <2>2, <2>3, StoresStay
  <2>5. QED
    BY <2>1, <2>2, <2>4
<1>4. QED
  BY <1>2, <1>3 DEF Kept

LEMMA NextCall ==
  ASSUME DifferentPages, Kept, NEW c \in Calls, Busy(c), round' = round, files' = files,
         AllHonest', NEW r, Becomes(c, r), Places(c, r, round), Stores(c, r, files)
  PROVE  Kept'
<1>1. calls'[c] = r /\ \A d \in Calls \ {c} : calls'[d] = calls[d]
  BY BecomesMoves DEF Moves, Kept, AllHonest
<1>2. QED
  BY <1>1, OwnStep

\* The call that c is at the start of a step.
LEMMA CallNow ==
  ASSUME Kept, NEW c \in Calls
  PROVE  /\ IsCall(calls[c]) /\ Places(c, calls[c], round) /\ Stores(c, calls[c], files)
         /\ Honest(c, calls[c])
         /\ Cached(c) /\ Busy(c) => WholePage(calls[c].url, files)
<1>1. Places(c, calls[c], round)
  BY DEF Kept
<1>2. Cached(c) /\ Busy(c) => calls[c].url \in Pages
  BY <1>1 DEF Places, Busy
<1>3. QED
  BY <1>1, <1>2 DEF Kept, AllHonest, Shaped, WholeFiles

LEMMA ReadMetaKeeps ==
  ASSUME DifferentPages, Kept, NEW c \in Calls, ReadMeta(c), AllHonest'
  PROVE  Kept'
<1> DEFINE k == calls[c]
           meta == files[<<k.url, "meta">>]
           r == [k EXCEPT !.pc = "html", !.status = meta.status]
           s == [k EXCEPT !.pc = "bucket"]
<1>1. /\ k.pc = "meta" /\ Busy(c) /\ round' = round /\ files' = files
      /\ \/ Live(meta, k.url) /\ Becomes(c, r)
         \/ ~Live(meta, k.url) /\ Becomes(c, s)
  BY DEF ReadMeta, Fresh, Live, Goes, Busy
<1>2. /\ IsCall(k) /\ Places(c, k, round) /\ Stores(c, k, files) /\ Cached(c)
      /\ WholePage(k.url, files)
  BY <1>1, CallNow DEF Places
<1> HIDE DEF k
<1>3. CASE Live(meta, k.url) /\ Becomes(c, r)
  <2>1. meta.status \in Said /\ files[<<k.url, "html">>] = BodyFor(k.url, meta.status)
    BY <1>2, <1>3 DEF WholePage, Live, IsMeta
  <2>2. /\ r.pc = "html" /\ r.status = meta.status /\ r.url = k.url /\ r.open = k.open
        /\ r.replies = k.replies
    BY <1>2 DEF IsCall, Fields
  <2> HIDE DEF r
  <2>3. Places(c, r, round)
    BY <1>1, <1>2, <2>2 DEF Places
  <2>4. Stores(c, r, files)
    BY <2>1, <2>2 DEF Stores
  <2>5. QED
    BY <1>1, <1>3, <2>3, <2>4, NextCall
<1>4. CASE ~Live(meta, k.url) /\ Becomes(c, s)
  <2>1. s.pc = "bucket" /\ s.url = k.url /\ s.open = k.open /\ s.replies = k.replies
    BY <1>2 DEF IsCall, Fields
  <2> HIDE DEF s
  <2>2. Places(c, s, round)
    BY <1>1, <1>2, <2>1 DEF Places
  <2>3. Stores(c, s, files)
    BY <1>4, <2>1 DEF Stores
  <2>4. QED
    BY <1>1, <1>4, <2>2, <2>3, NextCall
<1>5. QED
  BY <1>1, <1>3, <1>4

LEMMA ReadBodyKeeps ==
  ASSUME DifferentPages, Kept, NEW c \in Calls, ReadBody(c), AllHonest'
  PROVE  Kept'
<1> DEFINE k == calls[c]
           body == files[<<k.url, "html">>]
           r == [k EXCEPT !.pc = "read", !.body = body]
<1>1. /\ k.pc = "html" /\ Busy(c) /\ round' = round /\ files' = files
      /\ body = None \/ Becomes(c, r)
  BY DEF ReadBody, Busy
<1>2. /\ IsCall(k) /\ Places(c, k, round) /\ Stores(c, k, files) /\ Cached(c)
  BY <1>1, CallNow DEF Places
<1> HIDE DEF k
<1>3. body = BodyFor(k.url, k.status) /\ k.status \in Said /\ k.url \in Pages
  BY <1>1, <1>2 DEF Stores, Places
<1>4. body # None
  BY <1>3, NoneAssumption DEF Said
<1>5. /\ r.pc = "read" /\ r.status = k.status /\ r.url = k.url /\ r.open = k.open
      /\ r.replies = k.replies /\ r.body = body
  BY <1>2 DEF IsCall, Fields
<1> HIDE DEF r
<1>6. Places(c, r, round)
  BY <1>1, <1>2, <1>3, <1>5 DEF Places, Fetched
<1>7. Stores(c, r, files)
  BY <1>5 DEF Stores
<1>8. QED
  BY <1>1, <1>4, <1>6, <1>7, NextCall

\* The client's steps: what they change is where the call is, and when it wakes.
LEMMA ClientKeeps ==
  ASSUME DifferentPages, Kept, NEW c \in Calls, CheckBucket(c) \/ Wake(c), AllHonest'
  PROVE  Kept'
<1> DEFINE k == calls[c]
           on(pc) == [k EXCEPT !.pc = pc]
           slept == [k EXCEPT !.pc = "asleep", !.wake = WaitTime(Provider[c])]
<1>1. /\ k.pc \in {"bucket", "asleep"} /\ Busy(c) /\ round' = round /\ files' = files
      /\ \E r \in {on("bucket"), on("sent"), slept} : Becomes(c, r)
  BY DEF CheckBucket, Wake, Sends, Goes, Busy
<1>2. IsCall(k) /\ Places(c, k, round) /\ Stores(c, k, files)
  BY CallNow
<1> HIDE DEF k
<1>3. ASSUME NEW r, r \in {on("bucket"), on("sent"), slept}
      PROVE  /\ r.pc \in {"bucket", "sent", "asleep"} /\ r.url = k.url /\ r.open = k.open
             /\ r.replies = k.replies
  BY <1>2, <1>3 DEF IsCall, Fields
<1> HIDE DEF on, slept
<1>4. PICK r \in {on("bucket"), on("sent"), slept} : Becomes(c, r)
  BY <1>1
<1>5. /\ r.pc \in {"bucket", "sent", "asleep"} /\ r.url = k.url /\ r.open = k.open
      /\ r.replies = k.replies
  BY <1>3
<1>6. Places(c, r, round)
  BY <1>1, <1>2, <1>5 DEF Places
<1>7. Stores(c, r, files)
  BY <1>1, <1>2, <1>5 DEF Stores
<1>8. QED
  BY <1>1, <1>4, <1>6, <1>7, NextCall

LEMMA ReceiveKeeps ==
  ASSUME DifferentPages, Kept, NEW c \in Calls, NEW status \in Statuses[c], Receive(c, status),
         AllHonest'
  PROVE  Kept'
<1> DEFINE k == calls[c]
           pc == IF Stored(c, status) THEN "create" ELSE "read"
           r == [k EXCEPT !.pc = pc, !.status = status, !.body = BodyFor(k.url, status),
                          !.part = Parts[1]]
<1>1. /\ k.pc = "sent" /\ Busy(c) /\ round' = round /\ files' = files /\ Becomes(c, r)
  BY DEF Receive, Busy
<1>2. IsCall(k) /\ Places(c, k, round) /\ Stores(c, k, files)
  BY CallNow
<1>3. status \in Said /\ Parts[1] = "html"
  BY DEF Said, Parts
<1>4. pc \in {"create", "read"} /\ (pc = "create" => Cached(c))
  BY DEF Stored
<1> HIDE DEF k, pc
<1>5. /\ r.pc = pc /\ r.url = k.url /\ r.open = k.open /\ r.replies = k.replies
      /\ r.status = status /\ r.body = BodyFor(k.url, status) /\ r.part = "html"
  BY <1>2, <1>3 DEF IsCall, Fields
<1> HIDE DEF r
<1>6. Places(c, r, round)
  BY <1>1, <1>2, <1>4, <1>5 DEF Places, Fetched
<1>7. Stores(c, r, files)
  BY <1>1, <1>2, <1>3, <1>4, <1>5 DEF Stores, Fetched
<1>8. QED
  BY <1>1, <1>6, <1>7, NextCall

\* A call that ends keeps the replies that it has.
LEMMA FailsKeeps ==
  ASSUME DifferentPages, Kept, NEW c \in Calls, (\E e \in Errors : ReceiveError(c, e)) \/ Panic(c),
         AllHonest'
  PROVE  Kept'
<1> DEFINE k == calls[c]
           failed(e) == [k EXCEPT !.pc = "ended", !.outcome = Failed(MapHttpErr(e))]
           panicked == [k EXCEPT !.pc = "ended", !.outcome = Failed("Other"), !.body = None,
                                 !.part = None, !.status = None]
<1>1. /\ k.pc \in {"sent", "read"} /\ Busy(c) /\ round' = round /\ files' = files
      /\ (\E e \in Errors : Becomes(c, failed(e))) \/ Becomes(c, panicked)
  BY DEF ReceiveError, Panic, Busy
<1>2. IsCall(k) /\ Places(c, k, round)
  BY CallNow
<1> HIDE DEF k
<1>3. ASSUME NEW r, Becomes(c, r), r.pc = "ended", r.open = k.open, r.replies = k.replies PROVE Kept'
  <2>1. Places(c, r, round)
    BY <1>1, <1>2, <1>3 DEF Places
  <2>2. Stores(c, r, files)
    BY <1>3 DEF Stores
  <2>3. QED
    BY <1>1, <1>3, <2>1, <2>2, NextCall
<1>4. ASSUME NEW e PROVE /\ failed(e).pc = "ended" /\ failed(e).open = k.open
                         /\ failed(e).replies = k.replies
  BY <1>2 DEF IsCall, Fields
<1>5. panicked.pc = "ended" /\ panicked.open = k.open /\ panicked.replies = k.replies
  BY <1>2 DEF IsCall, Fields
<1> HIDE DEF failed, panicked
<1>6. QED
  BY <1>1, <1>3, <1>4, <1>5

LEMMA StoreFailsKeeps ==
  ASSUME DifferentPages, Kept, NEW c \in Calls, StoreFails(c), AllHonest'
  PROVE  Kept'
<1> DEFINE k == calls[c]
           r == [k EXCEPT !.pc = "read", !.open = None]
<1>1. /\ k.pc \in {"create", "write"} /\ Busy(c) /\ round' = round /\ files' = files /\ Becomes(c, r)
  BY DEF StoreFails, Busy
<1>2. IsCall(k) /\ Places(c, k, round) /\ Stores(c, k, files)
  BY CallNow
<1> HIDE DEF k
<1>3. /\ r.pc = "read" /\ r.url = k.url /\ r.open = None /\ r.replies = k.replies
      /\ r.status = k.status /\ r.body = k.body
  BY <1>2 DEF IsCall, Fields
<1> HIDE DEF r
<1>4. Places(c, r, round)
  BY <1>1, <1>2, <1>3 DEF Places, Stores, Fetched
<1>5. Stores(c, r, files)
  BY <1>3 DEF Stores
<1>6. QED
  BY <1>1, <1>4, <1>5, NextCall

\* What is written to a page's temporary file changes nothing of the page.
LEMMA TmpStep ==
  ASSUME DifferentPages, Kept, NEW c \in Calls, Busy(c), Cached(c), round' = round, AllHonest',
         NEW r, Becomes(c, r), NEW content, files' = [files EXCEPT ![<<calls[c].url, "tmp">>] = content],
         Places(c, r, round), Stores(c, r, files')
  PROVE  Kept'
<1> DEFINE url == calls[c].url
<1>1. WholePage(url, files) /\ url \in Pages /\ DOMAIN files = Names
  BY CallNow DEF Places, Busy, Kept, WholeFiles
<1>2. calls'[c] = r /\ \A d \in Calls \ {c} : calls'[d] = calls[d]
  BY BecomesMoves DEF Moves, Kept, AllHonest
<1>3. DOMAIN files' = Names /\ \A n \in Names : n # <<url, "tmp">> => files'[n] = files[n]
  BY <1>1
<1>4. files'[<<url, "meta">>] = files[<<url, "meta">>] /\ files'[<<url, "html">>] = files[<<url, "html">>]
  BY <1>1, <1>3, PagesOf
<1>5. WholePage(url, files')
  BY <1>1, <1>4 DEF WholePage
<1>6. \A n \in Names : n[1] # url => files'[n] = files[n]
  BY <1>3
<1>7. QED
  BY <1>2, <1>3, <1>5, <1>6, OwnStep

LEMMA TmpFiles ==
  ASSUME Kept, NEW url \in Pages, NEW content, files' = [files EXCEPT ![<<url, "tmp">>] = content]
  PROVE  /\ files'[<<url, "tmp">>] = content
         /\ files'[<<url, "meta">>] = files[<<url, "meta">>]
         /\ files'[<<url, "html">>] = files[<<url, "html">>]
<1>1. DOMAIN files = Names
  BY DEF Kept, WholeFiles
<1>2. QED
  BY <1>1, PagesOf

LEMMA CreateTmpKeeps ==
  ASSUME DifferentPages, Kept, NEW c \in Calls, CreateTmp(c), AllHonest'
  PROVE  Kept'
<1> DEFINE k == calls[c]
           r == [k EXCEPT !.pc = "write", !.open = <<k.url, "tmp">>]
           content == [kind |-> "empty"]
<1>1. /\ k.pc = "create" /\ Busy(c) /\ round' = round /\ Becomes(c, r)
      /\ files' = [files EXCEPT ![<<k.url, "tmp">>] = content]
  BY DEF CreateTmp, Busy, Tmp
<1>2. IsCall(k) /\ Places(c, k, round) /\ Stores(c, k, files)
  BY CallNow
<1> HIDE DEF k, content
<1>3. /\ r.pc = "write" /\ r.url = k.url /\ r.open = <<k.url, "tmp">> /\ r.replies = k.replies
      /\ r.status = k.status /\ r.body = k.body /\ r.part = k.part
  BY <1>2 DEF IsCall, Fields
<1> HIDE DEF r
<1>4. Cached(c) /\ k.url \in Pages
  BY <1>1, <1>2 DEF Places
<1>5. Places(c, r, round)
  BY <1>1, <1>2, <1>3 DEF Places
<1>6. Stores(c, r, files')
  <2>1. /\ files'[<<k.url, "meta">>] = files[<<k.url, "meta">>]
        /\ files'[<<k.url, "html">>] = files[<<k.url, "html">>]
    BY <1>1, <1>4, TmpFiles
  <2>2. QED
    BY <1>1, <1>2, <1>3, <2>1 DEF Stores, Fetched
<1>7. QED
  BY <1>1, <1>4, <1>5, <1>6, TmpStep DEF k

LEMMA WriteTmpKeeps ==
  ASSUME DifferentPages, Kept, NEW c \in Calls, WriteTmp(c), AllHonest'
  PROVE  Kept'
<1> DEFINE k == calls[c]
           r == [k EXCEPT !.pc = "rename", !.open = None]
           content == IF k.part = "html" THEN k.body
                      ELSE [kind |-> "meta", status |-> k.status, age |-> 0]
<1>1. /\ k.pc = "write" /\ Busy(c) /\ round' = round /\ Becomes(c, r)
      /\ files' = IF k.open = None THEN files ELSE [files EXCEPT ![k.open] = content]
  BY DEF WriteTmp, Busy
<1>2. IsCall(k) /\ Places(c, k, round) /\ Stores(c, k, files)
  BY CallNow
<1> HIDE DEF k
<1>3. /\ r.pc = "rename" /\ r.url = k.url /\ r.open = None /\ r.replies = k.replies
      /\ r.status = k.status /\ r.body = k.body /\ r.part = k.part
  BY <1>2 DEF IsCall, Fields
<1> HIDE DEF r
<1>4. Cached(c) /\ k.url \in Pages /\ k.open = <<k.url, "tmp">>
  BY <1>1, <1>2 DEF Places
<1>5. files' = [files EXCEPT ![<<k.url, "tmp">>] = content]
  <2>1. k.open # None
    BY <1>4, PagesOf, NoneAssumption
  <2>2. QED
    BY <1>1, <1>4, <2>1
<1>6. content = IF k.part = "html" THEN k.body ELSE [kind |-> "meta", status |-> k.status, age |-> 0]
  OBVIOUS
<1> HIDE DEF content
<1>7. Places(c, r, round)
  BY <1>1, <1>2, <1>3 DEF Places
<1>8. Stores(c, r, files')
  <2>1. /\ files'[<<k.url, "meta">>] = files[<<k.url, "meta">>]
        /\ files'[<<k.url, "html">>] = files[<<k.url, "html">>]
        /\ files'[<<k.url, "tmp">>] = content
    BY <1>4, <1>5, TmpFiles
  <2>2. k.status \in Said
    BY <1>1, <1>2 DEF Stores
  <2>3. k.part # "html" => IsMeta(content, k.status)
    BY <1>6, <2>2 DEF IsMeta
  <2>4. QED
    BY <1>1, <1>2, <1>3, <1>6, <2>1, <2>3 DEF Stores, Fetched
<1>9. QED
  BY <1>1, <1>4, <1>5, <1>7, <1>8, TmpStep DEF k

\* No other call has a file of this page open.
LEMMA OpenElsewhere ==
  ASSUME DifferentPages, Kept, NEW c \in Calls, Cached(c), Busy(c), calls[c].pc # "write",
         NEW d \in Calls, NEW part \in {"html", "meta", "tmp"}
  PROVE  calls[d].open # <<calls[c].url, part>>
<1>1. calls[c].url \in Pages
  BY CallNow DEF Places, Busy
<1>2. <<calls[c].url, part>> \in Names
  BY <1>1 DEF Names
<1>3. /\ calls[d].open = IF calls[d].pc = "write" THEN <<calls[d].url, "tmp">> ELSE None
      /\ calls[d].pc = "write" => Cached(d)
  BY CallNow DEF Places
<1>4. CASE calls[d].pc = "write"
  <2>1. calls[d].url # calls[c].url
    BY <1>3, <1>4, UrlsDiffer DEF Busy
  <2>2. QED
    BY <1>3, <1>4, <2>1
<1>5. CASE calls[d].pc # "write"
  BY <1>2, <1>3, <1>5, NoneAssumption
<1>6. QED
  BY <1>4, <1>5

LEMMA RenameTmpKeeps ==
  ASSUME DifferentPages, Kept, NEW c \in Calls, RenameTmp(c), AllHonest'
  PROVE  Kept'
<1> DEFINE k == calls[c]
           target == <<k.url, k.part>>
           tmp == <<k.url, "tmp">>
           next == IF k.part = "meta" THEN "read" ELSE "create"
           all == Renamed(c, target)
           s == [k EXCEPT !.pc = "read"]
<1>1. /\ k.pc = "rename" /\ Busy(c) /\ round' = round
      /\ \/ files' = files /\ Becomes(c, s)
         \/ /\ files' = [files EXCEPT ![target] = files[tmp], ![tmp] = None]
            /\ calls' = [all EXCEPT ![c].pc = next, ![c].part = "meta"]
  BY DEF RenameTmp, Goes, Busy, Tmp, Parts
<1>2. IsCall(k) /\ Places(c, k, round) /\ Stores(c, k, files) /\ Cached(c) /\ WholePage(k.url, files)
  BY <1>1, CallNow DEF Places
<1>3. /\ k.url \in Pages /\ k.open = None /\ Fetched(k) /\ k.status \in Said
      /\ k.part \in {"html", "meta"} /\ ~Live(files[<<k.url, "meta">>], k.url)
      /\ k.part = "html" => files[tmp] = k.body
      /\ k.part = "meta" => IsMeta(files[tmp], k.status) /\ files[<<k.url, "html">>] = k.body
  <2> HIDE DEF k
  <2>1. QED
    BY <1>1, <1>2 DEF Places, Stores
<1>4. CASE files' = files /\ Becomes(c, s)
  <2> HIDE DEF k
  <2>1. /\ s.pc = "read" /\ s.url = k.url /\ s.open = None /\ s.replies = k.replies
        /\ s.status = k.status /\ s.body = k.body
    BY <1>2, <1>3 DEF IsCall, Fields
  <2> HIDE DEF s
  <2>2. Places(c, s, round)
    BY <1>1, <1>2, <1>3, <2>1 DEF Places, Fetched
  <2>3. Stores(c, s, files)
    BY <2>1 DEF Stores
  <2>4. QED
    BY <1>1, <1>4, <2>2, <2>3, NextCall
<1>5. CASE /\ files' = [files EXCEPT ![target] = files[tmp], ![tmp] = None]
           /\ calls' = [all EXCEPT ![c].pc = next, ![c].part = "meta"]
  <2>1. ASSUME NEW d \in Calls PROVE all[d] = calls[d]
    <3>1. calls[d].open # tmp /\ calls[d].open # target
      <4>1. tmp = <<calls[c].url, "tmp">> /\ \E part \in {"html", "meta"} : target = <<calls[c].url, part>>
        BY <1>3
      <4>2. QED
        BY <1>1, <1>2, <4>1, OpenElsewhere
    <3>2. all[d] = [calls[d] EXCEPT !.open = calls[d].open]
      BY <3>1 DEF Renamed, Tmp
    <3>3. IsCall(calls[d])
      BY CallNow
    <3>4. QED
      BY <3>2, <3>3 DEF IsCall, Fields
  <2>2. DOMAIN all = Calls
    BY DEF Renamed
  <2> HIDE DEF all, next
  <2>3. /\ \A d \in Calls \ {c} : calls'[d] = calls[d]
        /\ calls'[c] = [k EXCEPT !.pc = next, !.part = "meta"]
    BY <1>5, <2>1, <2>2
  <2> DEFINE r == calls'[c]
  <2> HIDE DEF k
  <2>4. /\ r.pc = next /\ r.url = k.url /\ r.open = None /\ r.replies = k.replies
        /\ r.status = k.status /\ r.body = k.body /\ r.part = "meta"
    BY <1>2, <1>3, <2>3 DEF IsCall, Fields
  <2>5. /\ DOMAIN files = Names /\ <<k.url, "html">> \in Names /\ <<k.url, "meta">> \in Names
        /\ tmp \in Names /\ target \in Names /\ target # tmp
    BY <1>3, PagesOf DEF Kept, WholeFiles
  <2>6. /\ DOMAIN files' = Names /\ files'[target] = files[tmp]
        /\ \A n \in Names : n \notin {target, tmp} => files'[n] = files[n]
    BY <1>5, <2>5
  <2>7. /\ k.part = "html" => /\ files'[<<k.url, "html">>] = k.body
                              /\ files'[<<k.url, "meta">>] = files[<<k.url, "meta">>]
        /\ k.part = "meta" => /\ files'[<<k.url, "meta">>] = files[tmp]
                              /\ files'[<<k.url, "html">>] = k.body
    BY <1>3, <2>5, <2>6
  <2>8. WholePage(k.url, files')
    <3>1. CASE k.part = "html"
      BY <1>2, <1>3, <2>7, <3>1 DEF WholePage
    <3>2. CASE k.part = "meta"
      <4>1. IsMeta(files[tmp], k.status) /\ files[tmp].status = k.status
        BY <1>3, <3>2 DEF IsMeta
      <4>2. QED
        BY <1>3, <2>7, <3>2, <4>1 DEF WholePage, Fetched
    <3>3. QED
      BY <1>3, <3>1, <3>2
  <2>9. \A n \in Names : n[1] # k.url => files'[n] = files[n]
    BY <2>6
  <2>10. Places(c, r, round)
    <3> HIDE DEF r
    <3>1. next \in {"read", "create"}
      BY DEF next
    <3>2. QED
      BY <1>1, <1>2, <1>3, <2>4, <3>1 DEF Places, Fetched
  <2>11. Stores(c, r, files')
    <3> HIDE DEF r
    <3>1. next = "read" \/ (next = "create" /\ k.part = "html")
      BY <1>3 DEF next
    <3>2. QED
      BY <1>3, <2>4, <2>7, <3>1 DEF Stores, Fetched
  <2>12. QED
    BY <1>1, <1>2, <2>3, <2>6, <2>8, <2>9, <2>10, <2>11, OwnStep DEF k
<1>6. QED
  BY <1>1, <1>4, <1>5

LEMMA UseKeeps ==
  ASSUME DifferentPages, Kept, NEW c \in Calls, Use(c), AllHonest'
  PROVE  Kept'
<1> DEFINE k == calls[c]
           reply == [url |-> k.url, status |-> k.status, body |-> k.body]
           replies == Append(k.replies, reply)
           r == calls'[c]
<1>1. /\ k.pc = "read" /\ Becomes(c, r) /\ r.replies = replies /\ r.open = k.open
      /\ \/ r.pc = "ended"
         \/ /\ r.pc = "meta" /\ Cached(c) /\ Len(replies) # 2 /\ NeedsPage(SearchReply(replies[1]))
            /\ r.url = <<"release", Hit[Asked[c]]>>
  BY UseMoves DEF Kept, AllHonest
<1>2. Busy(c) /\ round' = round /\ files' = files
  BY <1>1 DEF Use, Busy
<1>3. Places(c, k, round) /\ SearchedBy(c, k.replies)
  BY <1>1, CallNow DEF Honest
<1>4. /\ k.replies = <<>> => replies = <<reply>> /\ replies[1] = reply
      /\ k.replies = <<k.replies[1]>> => Len(replies) = 2
      /\ \A i \in DOMAIN replies :
           replies[i] = reply \/ (i \in DOMAIN k.replies /\ replies[i] = k.replies[i])
  BY <1>3, RepliesNow
<1>5. Fetched(reply) /\ reply.url = k.url
  BY <1>1, <1>3 DEF Places, Fetched
<1> HIDE DEF k, reply, replies, r
<1>6. \A i \in DOMAIN r.replies : Fetched(r.replies[i])
  BY <1>1, <1>3, <1>4, <1>5 DEF Places
<1>7. r.open = None
  BY <1>1, <1>3 DEF Places
<1>8. CASE r.pc = "ended"
  BY <1>1, <1>2, <1>6, <1>7, <1>8, NextCall DEF Places, Stores
<1>9. CASE /\ r.pc = "meta" /\ Cached(c) /\ Len(replies) # 2 /\ NeedsPage(SearchReply(replies[1]))
           /\ r.url = <<"release", Hit[Asked[c]]>>
  <2>1. k.replies = <<>> /\ replies = <<reply>> /\ replies[1] = reply
    BY <1>3, <1>4, <1>9 DEF SearchedBy
  <2>2. reply.url = <<"search", Asked[c]>>
    BY <1>1, <1>3, <1>5, <1>9, <2>1 DEF Places, UrlNow
  <2>3. Hit[reply.url[2]] # None
    <3>1. NeedsPage(SearchReply(reply))
      BY <1>9, <2>1
    <3> DEFINE answer == Answer("tower", SearchReply(reply))
               card == [category |-> "Release", release |-> Hit[reply.url[2]]]
    <3>2. PICK i \in DOMAIN answer.hits : IsHit(answer.hits[i])
      BY <3>1 DEF NeedsPage
    <3>3. answer.hits \in {<<>>, <<card>>}
      BY DEF Answer, SearchReply, Found, Failed
    <3> HIDE DEF answer, card
    <3>4. answer.hits[i] = card
      BY <3>2, <3>3
    <3>5. QED
      BY <3>2, <3>4 DEF IsHit, card
  <2>4. Asked[c] \in DOMAIN Hit
    BY <1>9, CallsAssumption DEF Cached
  <2>5. r.url \in Pages
    BY <1>9, <2>2, <2>3, <2>4 DEF Pages
  <2>6. r.replies # <<>>
    BY <1>1, <2>1
  <2>7. Places(c, r, round)
    BY <1>1, <1>3, <1>6, <1>7, <1>9, <2>5, <2>6 DEF Places, UrlNow
  <2>8. Stores(c, r, files)
    BY <1>9 DEF Stores
  <2>9. QED
    BY <1>1, <1>2, <2>7, <2>8, NextCall
<1>10. QED
  BY <1>1, <1>8, <1>9

\* With time a page stays what it is, and a meta file says the same, of an older page.
LEMMA OlderStays ==
  /\ \A url, status : Older(BodyFor(url, status)) = BodyFor(url, status)
  /\ \A content, status : IsMeta(content, status) => IsMeta(Older(content), status)
<1>1. ASSUME NEW url, NEW status PROVE Older(BodyFor(url, status)) = BodyFor(url, status)
  BY DEF Older, BodyFor
<1>2. ASSUME NEW content, NEW status, IsMeta(content, status) PROVE IsMeta(Older(content), status)
  <2>1. content.age \in Nat /\ content.age + 1 \in Nat
    BY <1>2 DEF IsMeta
  <2>2. PICK age \in Nat : content = [kind |-> "meta", status |-> status, age |-> age]
    BY <1>2 DEF IsMeta
  <2>3. \E old \in Nat : Older(content) = [kind |-> "meta", status |-> status, age |-> old]
    BY <2>1, <2>2 DEF Older
  <2>4. QED
    BY <1>2, <2>3 DEF IsMeta
<1>3. QED
  BY <1>1, <1>2

LEMMA OlderMeta ==
  ASSUME NEW meta, NEW url, meta # None => IsMeta(meta, meta.status)
  PROVE  /\ Older(meta) # None => IsMeta(Older(meta), Older(meta).status)
         /\ Live(Older(meta), url) => Live(meta, url) /\ Older(meta).status = meta.status
<1>1. CASE meta = None
  BY <1>1 DEF Older, Live
<1>2. CASE meta # None
  <2>1. PICK age \in Nat : meta = [kind |-> "meta", status |-> meta.status, age |-> age]
    BY <1>2 DEF IsMeta
  <2>2. TtlOf(url) \in Nat
    BY BoundsAssumption DEF TtlOf
  <2>3. IsMeta(Older(meta), meta.status)
    BY <1>2, OlderStays
  <2>4. Older(meta).status = meta.status
    BY <2>3 DEF IsMeta
  <2>5. Older(meta).age \in Nat /\ meta.age <= Older(meta).age
    BY <1>2, <2>1 DEF Older
  <2>6. meta.age = age /\ meta.kind = "meta"
    BY <2>1
  <2>7. Live(Older(meta), url) => Live(meta, url)
    BY <1>2, <2>2, <2>5, <2>6 DEF Live
  <2>8. QED
    BY <2>3, <2>4, <2>7
<1>3. QED
  BY <1>1, <1>2

LEMMA TickKeeps ==
  ASSUME Kept, Tick, AllHonest'
  PROVE  Kept'
<1>1. /\ files' = [n \in Names |-> Older(files[n])] /\ round' = round
      /\ calls' = [c \in Calls |-> [calls[c] EXCEPT !.wake = IF @ = 0 THEN 0 ELSE @ - 1]]
  BY DEF Tick
<1>2. ASSUME NEW url \in Pages
      PROVE  /\ files'[<<url, "html">>] = Older(files[<<url, "html">>])
             /\ files'[<<url, "meta">>] = Older(files[<<url, "meta">>])
             /\ files'[<<url, "tmp">>] = Older(files[<<url, "tmp">>])
             /\ files[<<url, "meta">>] # None => IsMeta(files[<<url, "meta">>], files[<<url, "meta">>].status)
             /\ WholePage(url, files)
  BY <1>1, PagesOf DEF Kept, WholeFiles, WholePage
<1>3. WholeFiles(files')
  <2>1. ASSUME NEW url \in Pages PROVE WholePage(url, files')
    <3>1. Live(files'[<<url, "meta">>], url) =>
            /\ Live(files[<<url, "meta">>], url)
            /\ files'[<<url, "meta">>].status = files[<<url, "meta">>].status
      BY <1>2, OlderMeta
    <3>2. files'[<<url, "meta">>] # None => IsMeta(files'[<<url, "meta">>], files'[<<url, "meta">>].status)
      BY <1>2, OlderMeta
    <3>3. QED
      BY <1>2, <3>1, <3>2, OlderStays DEF WholePage
  <2>2. QED
    BY <1>1, <2>1 DEF WholeFiles
<1>4. ASSUME NEW c \in Calls
      PROVE  Places(c, calls'[c], round') /\ Stores(c, calls'[c], files')
  <2> DEFINE k == calls[c]
             r == calls'[c]
  <2>1. IsCall(k) /\ Places(c, k, round) /\ Stores(c, k, files)
    BY CallNow
  <2>2. r = [k EXCEPT !.wake = IF @ = 0 THEN 0 ELSE @ - 1]
    BY <1>1
  <2> HIDE DEF k, r
  <2>3. /\ r.pc = k.pc /\ r.url = k.url /\ r.open = k.open /\ r.replies = k.replies
        /\ r.status = k.status /\ r.body = k.body /\ r.part = k.part
    BY <2>1, <2>2 DEF IsCall, Fields
  <2>4. Places(c, r, round')
    BY <1>1, <2>1, <2>3 DEF Places, Fetched
  <2>5. Stores(c, r, files')
    <3>1. CASE Cached(c) /\ k.pc \notin {"idle", "ended"}
      <4>1. k.url \in Pages
        BY <2>1, <3>1 DEF Places
      <4>2. Live(files'[<<k.url, "meta">>], k.url) => Live(files[<<k.url, "meta">>], k.url)
        BY <1>2, <4>1, OlderMeta
      <4>3. k.pc = "html" => files'[<<k.url, "html">>] = BodyFor(k.url, k.status)
        BY <1>2, <2>1, <4>1, OlderStays DEF Stores
      <4>4. k.pc \in {"create", "write", "rename"} /\ k.part = "meta" => files'[<<k.url, "html">>] = k.body
        BY <1>2, <2>1, <4>1, OlderStays DEF Stores, Fetched
      <4>5. k.pc = "rename" => IF k.part = "html" THEN files'[<<k.url, "tmp">>] = k.body
                               ELSE IsMeta(files'[<<k.url, "tmp">>], k.status)
        BY <1>2, <2>1, <4>1, OlderStays DEF Stores, Fetched
      <4>6. QED
        BY <2>1, <2>3, <4>2, <4>3, <4>4, <4>5 DEF Stores, Fetched
    <3>2. CASE ~Cached(c) \/ k.pc \in {"idle", "ended"}
      BY <2>1, <2>3, <3>2 DEF Stores, Places
    <3>3. QED
      BY <3>1, <3>2
  <2>6. QED
    BY <2>4, <2>5 DEF r
<1>5. QED
  BY <1>3, <1>4 DEF Kept

LEMMA SpawnKeeps ==
  ASSUME Kept, Spawn, AllHonest'
  PROVE  Kept'
<1> DEFINE new(c) == [Idle EXCEPT !.pc = IF Cached(c) THEN "meta" ELSE "bucket", !.url = FirstUrl(c)]
<1>1. /\ calls' = [c \in Calls |-> IF c \in Rounds[round] THEN new(c) ELSE calls[c]]
      /\ round' = round /\ files' = files /\ round \in DOMAIN Rounds
  BY DEF Spawn
<1>2. ASSUME NEW c \in Calls, c \in Rounds[round]
      PROVE  Places(c, new(c), round) /\ Stores(c, new(c), files)
  <2>1. /\ new(c).pc = IF Cached(c) THEN "meta" ELSE "bucket"
        /\ new(c).url = FirstUrl(c) /\ new(c).replies = <<>> /\ new(c).open = None
    BY DEF Idle
  <2> HIDE DEF new
  <2>2. Cached(c) => FirstUrl(c) = <<"search", Asked[c]>> /\ FirstUrl(c) \in Pages
    BY CallsAssumption DEF FirstUrl, Cached, Pages
  <2>3. QED
    BY <1>1, <1>2, <2>1, <2>2 DEF Places, Stores, UrlNow
<1> HIDE DEF new
<1>3. ASSUME NEW c \in Calls PROVE Places(c, calls'[c], round') /\ Stores(c, calls'[c], files')
  BY <1>1, <1>2 DEF Kept
<1>4. QED
  BY <1>1, <1>3 DEF Kept

LEMMA JoinKeeps ==
  ASSUME Kept, Join, AllHonest'
  PROVE  Kept'
<1>1. ASSUME NEW c \in Calls PROVE Places(c, calls[c], round + 1) /\ Stores(c, calls[c], files)
  <2>1. Places(c, calls[c], round) /\ Stores(c, calls[c], files)
    BY DEF Kept
  <2>2. calls[c].pc \in {"idle", "ended"}
    BY <2>1 DEF Places, Join
  <2>3. QED
    BY <2>1, <2>2 DEF Places
<1>2. QED
  BY <1>1 DEF Kept, Join

LEMMA IdleKeeps ==
  ASSUME NEW c \in Calls, NEW rd, NEW fs
  PROVE  Places(c, Idle, rd) /\ Stores(c, Idle, fs)
BY DEF Idle, Places, Stores

LEMMA CrashKeeps ==
  ASSUME Kept, Crash, AllHonest'
  PROVE  Kept'
<1>1. ASSUME NEW c \in Calls PROVE Places(c, calls'[c], round') /\ Stores(c, calls'[c], files')
  BY IdleKeeps DEF Crash, Kept
<1>2. QED
  BY <1>1 DEF Kept, Crash

LEMMA KeptStep == DifferentPages /\ Kept /\ [Next]_vars => Kept'
<1> SUFFICES ASSUME DifferentPages, Kept, [Next]_vars PROVE Kept'
  OBVIOUS
<1>1. AllHonest'
  BY HonestStep DEF Kept
<1>2. ASSUME NEW c \in Calls, Step(c) PROVE Kept'
  BY <1>1, <1>2, ReadMetaKeeps, ReadBodyKeeps, ClientKeeps, ReceiveKeeps, FailsKeeps,
     CreateTmpKeeps, WriteTmpKeeps, RenameTmpKeeps, StoreFailsKeeps, UseKeeps DEF Step
<1>3. CASE UNCHANGED vars
  BY <1>1, <1>3 DEF vars, Kept
<1>4. QED
  BY <1>1, <1>2, <1>3, SpawnKeeps, JoinKeeps, TickKeeps, CrashKeeps DEF Next, Done

\* ServedIsFetched: of any look-ups of which those of a round ask for different pages,
\* with any times to live, however often the disk fails, pages expire between two
\* reads or the process dies between two writes: a reply's body and status are of
\* one answer of the service, about the address that was asked.
THEOREM ServedIsAlwaysFetched ==
  ASSUME DifferentPages
  PROVE  Spec => []ServedIsFetched
<1>1. Init => Kept
  <2>1. SUFFICES ASSUME Init PROVE Kept
    OBVIOUS
  <2>2. AllHonest
    BY <2>1, HonestAtFirst
  <2>3. \A c \in Calls : calls[c] = Idle
    BY <2>1 DEF Init
  <2>4. \A n \in Names : files[n] = None
    BY <2>1 DEF Init
  <2>5. WholeFiles(files)
    BY <2>1, <2>4, PagesOf DEF Init, WholeFiles, WholePage, Live
  <2>6. QED
    BY <2>2, <2>3, <2>5, IdleKeeps DEF Kept
<1>2. Kept => ServedIsFetched
  <2>1. ASSUME Kept, NEW c \in Calls, NEW i \in DOMAIN calls[c].replies
        PROVE  Fetched(calls[c].replies[i])
    BY <2>1 DEF Kept, Places
  <2>2. QED
    BY <2>1 DEF ServedIsFetched, Fetched
<1>3. Kept /\ [Next]_vars => Kept'
  BY KeptStep
<1>4. QED
  BY <1>1, <1>2, <1>3, PTL DEF Spec
=============================================================================
