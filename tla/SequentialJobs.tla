---------------------------- MODULE SequentialJobs ----------------------------
(***************************************************************************)
(* What session.rs promises of its "sequential catalog-mutating worker",   *)
(* with the channel, the threads and the cancel flag left out: jobs are    *)
(* accepted in the order of their ids, run one at a time in that order,    *)
(* and each ends. Jobs are dropped only if the worker never came up.       *)
(***************************************************************************)
EXTENDS Naturals

CONSTANT Job   \* the job ids that may be accepted, numbers

VARIABLES
  waiting,  \* accepted and not begun
  running,  \* the job being run, as a set of at most one
  ended,    \* jobs that were reported to an end
  closed    \* the worker is gone

vars == <<waiting, running, ended, closed>>

Init == waiting = {} /\ running = {} /\ ended = {} /\ closed = FALSE

Accept(j) ==
  /\ ~closed
  /\ \A k \in waiting \cup running \cup ended : k < j
  /\ waiting' = waiting \cup {j}
  /\ UNCHANGED <<running, ended, closed>>

Begin(j) ==
  /\ ~closed /\ running = {}
  /\ j \in waiting /\ \A k \in waiting : j <= k
  /\ waiting' = waiting \ {j}
  /\ running' = {j}
  /\ UNCHANGED <<ended, closed>>

End(j) ==
  /\ running = {j}
  /\ running' = {}
  /\ ended' = ended \cup {j}
  /\ UNCHANGED <<waiting, closed>>

\* Orderly, with nothing accepted left over; or before anything has run.
Close ==
  /\ ~closed /\ running = {}
  /\ waiting = {} \/ ended = {}
  /\ closed' = TRUE
  /\ waiting' = {}
  /\ UNCHANGED <<running, ended>>

Next == \/ \E j \in Job : Accept(j) \/ Begin(j) \/ End(j)
        \/ Close

Spec == Init /\ [][Next]_vars

\* Accepted work is begun, and begun work ends.
FairSpec == Spec /\ WF_vars(\E j \in Job : Begin(j) \/ End(j))
=============================================================================
