------------------------------- MODULE VerdictLog -------------------------------
(***************************************************************************)
(* What the verification evidence promises its readers: a log of runs,     *)
(* each of which is pending, given up, or has a verdict. A verdict appears *)
(* whole, in one step, and stays as it is.                                 *)
(***************************************************************************)
EXTENDS Naturals, Sequences

CONSTANTS
  None,
  Verdicts   \* the verdicts there are

VARIABLE log

Pending == [state |-> "pending", verdict |-> None]
GivenUp == [state |-> "given up", verdict |-> None]
Published(v) == [state |-> "published", verdict |-> v]

TypeOK == log \in Seq({Pending, GivenUp} \cup {Published(v) : v \in Verdicts})

Init == log = <<>>

Begin == log' = Append(log, Pending)

\* Runs are given up together, when the program they belonged to is gone.
GiveUp ==
  log' = [i \in DOMAIN log |-> IF log[i] = Pending THEN GivenUp ELSE log[i]]

\* A program may be thought gone and still finish.
Publish(i, v) == log[i].state # "published" /\ log' = [log EXCEPT ![i] = Published(v)]

Next == \/ Begin
        \/ GiveUp
        \/ \E i \in DOMAIN log, v \in Verdicts : Publish(i, v)

Spec == Init /\ [][Next]_log
=============================================================================
