---------------------------- MODULE MCJobSupervisor ----------------------------
(***************************************************************************)
(* JobSupervisor for TLC, with a history variable: how many events had     *)
(* been sent when shutdown() raised the cancel flag.                       *)
(***************************************************************************)
EXTENDS JobSupervisor

VARIABLE mark   \* Len(events) when cancel was raised

mcVars == <<vars, mark>>
MCInit == Init /\ mark = 0
MCNext == Next /\ mark' = IF cancel' /\ ~cancel THEN Len(events) ELSE mark

MCSpec == MCInit /\ [][MCNext]_mcVars

\* With the fairness of FairSpec; mark changes with a step or not at all.
MCFairSpec == MCSpec /\ WF_vars(WorkerNext)
                     /\ WF_vars(Send \/ SendRefused) /\ WF_vars(SendShutdown \/ Join)

\* Once the flag is up the worker finishes at most the one batch item, or the
\* one scanned file (which may report twice), that it was in the middle of,
\* however many jobs are queued: every loop of session.rs reads the flag
\* before the next item.
CancelStopsBatches ==
  cancel => \A i, j \in (mark + 1)..Len(events) :
              events[i].kind = "Progress" /\ events[j].kind = "Progress" =>
                /\ events[i].job = events[j].job
                /\ i <= j + 1

\* The stream of each job tells its whole story in order, and once the flag is up
\* it is cut short without telling anything else (run_batch, run_scan_job).
OrderlyStreams == StreamsWellFormed /\ CancelStopsBatches

\* "Cancel outstanding work" (the comment on shutdown): a job that has not
\* begun when shutdown is called does nothing any more.
CancelStopsOutstandingJobs ==
  cancel => \A i, j \in (mark + 1)..Len(events) :
              events[i].kind = "Started" /\ events[j].job = events[i].job =>
                events[j].kind \notin {"Progress", "AssetCached"}
=============================================================================
