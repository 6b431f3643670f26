-------------------------------- MODULE Frontier --------------------------------
(***************************************************************************)
(* The "bounded frontier" of ARCHITECTURE.md, with the threads left out:   *)
(* providers are asked about identifiers that are known, in the order of   *)
(* their tiers and about each at most once; what they reply makes other    *)
(* identifiers known; in the end a candidate that some provider named is   *)
(* chosen, or none because none was named.                                 *)
(***************************************************************************)
EXTENDS Naturals

CONSTANTS Kind, Question, Reply, None, Open

VARIABLES
  known,    \* of each kind of identifier, its value or None
  replies,  \* of the questions that were asked
  choice    \* Open, a candidate or None

vars == <<known, replies, choice>>

Named == UNION {r.hits : r \in replies}
FromReplies(k) == {c[k] : c \in Named} \ {None}

Init ==
  /\ known \in [Kind -> {q.value : q \in Question} \cup {None}]
  /\ replies = {}
  /\ choice = Open

Ask(q, r) ==
  /\ choice = Open
  /\ q.value # None /\ known[q.kind] = q.value
  /\ \A p \in replies : p.question # q /\ p.question.tier <= q.tier
  /\ replies' = replies \cup {[question |-> q, hits |-> r]}
  /\ UNCHANGED <<known, choice>>

\* Identifiers that are known stay so.
Learn ==
  /\ choice = Open
  /\ known' \in [Kind -> {known[k] : k \in Kind} \cup UNION {FromReplies(k) : k \in Kind \ {"disc"}}]
  /\ \A k \in Kind : known'[k] # known[k] => known[k] = None /\ k # "disc" /\ known'[k] \in FromReplies(k)
  /\ UNCHANGED <<replies, choice>>

Choose ==
  /\ choice = Open
  /\ choice' \in IF Named = {} THEN {None} ELSE Named
  /\ UNCHANGED <<known, replies>>

Next == \/ \E q \in Question, r \in Reply : Ask(q, r)
        \/ Learn
        \/ Choose

Spec == Init /\ [][Next]_vars

\* The frontier is bounded: every attempt comes to a choice.
Settles == <>(choice # Open)
=============================================================================
