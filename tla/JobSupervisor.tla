----------------------------- MODULE JobSupervisor -----------------------------
(***************************************************************************)
(* One JobSupervisor of phono-junk-lib/src/session.rs: a client thread     *)
(* that queues jobs on a bounded channel, one worker thread that runs them *)
(* in order and reports on an unbounded event channel, and a shutdown that *)
(* cancels, sends a Shutdown request behind the queued jobs and joins.     *)
(*                                                                         *)
(* What a job does to the catalog is abstracted to a count of writes; the  *)
(* outcome of each item (ok, error) is nondeterministic.                   *)
(***************************************************************************)
EXTENDS Naturals, Sequences

CONSTANTS
  QueueCap,   \* capacity of the request channel (256 in the code)
  MaxJobs,    \* bound: jobs allocated over the life of one supervisor
  MaxItems    \* bound: items in a batch, or files under a scanned root

ASSUME QueueCapAssumption == QueueCap \in Nat \ {0}
ASSUME MaxJobsAssumption == MaxJobs \in Nat
ASSUME MaxItemsAssumption == MaxItems \in Nat

VARIABLES
  client,     \* what the thread that owns the supervisor is doing
  pending,    \* the request it is blocked sending
  senderOpen, \* self.sender is Some
  cancel,     \* the shared AtomicBool
  nextJob,    \* next_job_id
  queue,      \* requests in the sync_channel
  events,     \* every event ever sent on the event channel
  generation, \* the generation stamped on every event
  worker,     \* where the worker thread is
  current,    \* the request it is running
  left,       \* files left to walk, or items left to run
  found,      \* rips a scan collected for identification
  completed,  \* the progress counter of the current job
  catalog     \* writes made to the catalog so far

clientVars == <<client, pending, senderOpen, cancel, nextJob>>
workerVars == <<worker, current, left, found, completed>>
vars == <<clientVars, workerVars, queue, events, generation, catalog>>

Jobs == 1..MaxJobs
Kinds == {"batch", "scanQueue", "scanOnly", "asset"}
JobRequest == [job : Jobs, kind : Kinds, items : 0..MaxItems]
Shutdown == [job |-> 0, kind |-> "shutdown", items |-> 0]

JobEventKind == {"Started", "Progress", "LibraryChanged", "Finished",
                 "Cancelled", "Failed", "AssetCached", "AssetCacheFailed"}
Terminal == {"Finished", "Cancelled", "Failed", "AssetCacheFailed"}
JobEvent == [generation : Nat, job : 0..MaxJobs, kind : JobEventKind, n : Nat]

Event(job, kind, n) ==
  [generation |-> generation, job |-> job, kind |-> kind, n |-> n]

\* JobSupervisor::new: empty channels, no cancellation, a worker thread about
\* to open its own connection.
Init ==
  /\ client = "idle" /\ pending = Shutdown /\ senderOpen = TRUE
  /\ cancel = FALSE /\ nextJob = 1
  /\ queue = <<>> /\ events = <<>> /\ generation = 1
  /\ worker = "starting" /\ current = Shutdown
  /\ left = 0 /\ found = 0 /\ completed = 0 /\ catalog = 0

-----------------------------------------------------------------------------
(* The client.                                                             *)

\* queue_identification, queue_verification, queue_scan, queue_export and
\* queue_asset_cache: take a job id, then send; a closed supervisor refuses.
QueueJob(kind, items) ==
  /\ client \in {"idle", "closed"} /\ nextJob <= MaxJobs
  /\ nextJob' = nextJob + 1
  /\ IF senderOpen
       THEN /\ client' = "sending"
            /\ pending' = [job |-> nextJob, kind |-> kind, items |-> items]
       ELSE UNCHANGED <<client, pending>>
  /\ UNCHANGED <<senderOpen, cancel, queue, events, generation, workerVars, catalog>>

\* Mutant: a channel without a bound.
HasRoomAlways == worker # "exited"

\* SyncSender::send blocks while the channel is full and the worker alive.
HasRoom == Len(queue) < QueueCap /\ worker # "exited"

\* Mutant: the newest request overtakes the queued ones.
SendFirst ==
  /\ client = "sending" /\ HasRoom
  /\ queue' = <<pending>> \o queue
  /\ client' = "idle"
  /\ UNCHANGED <<pending, senderOpen, cancel, nextJob, events, generation, workerVars, catalog>>

Send ==
  /\ client = "sending" /\ HasRoom
  /\ queue' = Append(queue, pending)
  /\ client' = "idle"
  /\ UNCHANGED <<pending, senderOpen, cancel, nextJob, events, generation, workerVars, catalog>>

\* The receiver is gone: SessionError::SupervisorClosed.
SendRefused ==
  /\ client = "sending" /\ worker = "exited"
  /\ client' = "idle"
  /\ UNCHANGED <<pending, senderOpen, cancel, nextJob, queue, events, generation, workerVars, catalog>>

\* shutdown, first half: raise the flag and take the sender. A second call
\* finds neither sender nor worker.
BeginShutdown ==
  /\ client = "idle" /\ senderOpen
  /\ cancel' = TRUE /\ senderOpen' = FALSE
  /\ client' = "closing"
  /\ UNCHANGED <<pending, nextJob, queue, events, generation, workerVars, catalog>>

\* Mutant: waiting for room although the receiver is gone.
SendShutdownWaits ==
  /\ client = "closing" /\ HasRoom
  /\ queue' = Append(queue, Shutdown)
  /\ client' = "joining"
  /\ UNCHANGED <<pending, senderOpen, cancel, nextJob, events, generation, workerVars, catalog>>

SendShutdown ==
  /\ client = "closing"
  /\ \/ HasRoom /\ queue' = Append(queue, Shutdown)
     \/ worker = "exited" /\ UNCHANGED queue
  /\ client' = "joining"
  /\ UNCHANGED <<pending, senderOpen, cancel, nextJob, events, generation, workerVars, catalog>>

\* Mutant: the worker is detached, not joined.
JoinDetached ==
  /\ client = "joining"
  /\ client' = "closed"
  /\ UNCHANGED <<pending, senderOpen, cancel, nextJob, queue, events, generation, workerVars, catalog>>

Join ==
  /\ client = "joining" /\ worker = "exited"
  /\ client' = "closed"
  /\ UNCHANGED <<pending, senderOpen, cancel, nextJob, queue, events, generation, workerVars, catalog>>

-----------------------------------------------------------------------------
(* The worker.                                                             *)

Emit(kind, n) == events' = Append(events, Event(current.job, kind, n))

\* Leaving a run function: back to receiver.recv().
ToRecv == worker' = "recv" /\ UNCHANGED <<current, left, found, completed>>

\* open_database and recover_interrupted_work succeed.
WorkerReady ==
  /\ worker = "starting"
  /\ worker' = "recv"
  /\ UNCHANGED <<clientVars, queue, events, generation, current, left, found, completed, catalog>>

\* One of them fails: a Failed event for job 0, and the receiver is dropped
\* with whatever was queued.
WorkerFailsToStart ==
  /\ worker = "starting"
  /\ worker' = "exited"
  /\ queue' = <<>>
  /\ events' = Append(events, Event(0, "Failed", 0))
  /\ UNCHANGED <<clientVars, generation, current, left, found, completed, catalog>>

\* The head of run_batch, run_scan_job and run_asset_cache_job: where each
\* goes after its Started event, and the total that event carries.
RunOf == [batch |-> "item", scanQueue |-> "walk", scanOnly |-> "walk", asset |-> "fetch"]
TotalOf(request) ==
  IF request.kind = "batch" THEN request.items
  ELSE IF request.kind = "asset" THEN 1 ELSE 0

Receive ==
  /\ worker = "recv" /\ queue # <<>> /\ Head(queue) # Shutdown
  /\ current' = Head(queue)
  /\ worker' = RunOf[Head(queue).kind]
  /\ left' = Head(queue).items
  /\ events' = Append(events, Event(Head(queue).job, "Started", TotalOf(Head(queue))))
  /\ queue' = Tail(queue)
  /\ found' = 0 /\ completed' = 0
  /\ UNCHANGED <<clientVars, generation, catalog>>

\* Mutant: the worker leaves as soon as it sees the flag.
ReceiveShutdownAtOnce ==
  /\ worker = "recv" /\ queue # <<>> /\ (cancel \/ Head(queue) = Shutdown)
  /\ worker' = "exited"
  /\ queue' = <<>>
  /\ UNCHANGED <<clientVars, events, generation, current, left, found, completed, catalog>>

ReceiveShutdown ==
  /\ worker = "recv" /\ queue # <<>> /\ Head(queue) = Shutdown
  /\ worker' = "exited"
  /\ queue' = <<>>
  /\ UNCHANGED <<clientVars, events, generation, current, left, found, completed, catalog>>

\* Mutant: the flag is not read before an item.
ItemBeginUnchecked ==
  /\ worker = "item" /\ left > 0
  /\ worker' = "run"
  /\ UNCHANGED <<clientVars, queue, events, generation, current, left, found, completed, catalog>>

\* The loop of run_batch, and of the identification half of run_scan_job:
\* the flag is read before each item and never while one runs.
ItemBegin ==
  /\ worker = "item" /\ left > 0 /\ ~cancel
  /\ worker' = "run"
  /\ UNCHANGED <<clientVars, queue, events, generation, current, left, found, completed, catalog>>

\* Mutant: a cancelled job returns without a word.
ItemCancelledSilently ==
  /\ worker = "item" /\ left > 0 /\ cancel
  /\ ToRecv
  /\ UNCHANGED <<clientVars, queue, events, generation, catalog>>

ItemCancelled ==
  /\ worker = "item" /\ left > 0 /\ cancel
  /\ Emit("Cancelled", 0)
  /\ ToRecv
  /\ UNCHANGED <<clientVars, queue, generation, catalog>>

ItemOk ==
  /\ worker = "run"
  /\ worker' = "item"
  /\ left' = left - 1
  /\ completed' = completed + 1
  /\ Emit("Progress", completed + 1)
  /\ catalog' = catalog + 1
  /\ UNCHANGED <<clientVars, queue, generation, current, found>>

\* Mutant: the loop goes on after the first error.
ItemErrorGoesOn ==
  /\ worker = "run"
  /\ Emit("Failed", 0)
  /\ worker' = "item" /\ left' = left - 1
  /\ UNCHANGED <<clientVars, queue, generation, current, found, completed, catalog>>

\* The first error ends the job; it may have written (a rip marked Failed).
ItemError ==
  /\ worker = "run"
  /\ Emit("Failed", 0)
  /\ catalog' \in {catalog, catalog + 1}
  /\ ToRecv
  /\ UNCHANGED <<clientVars, queue, generation>>

\* Mutant: Finished is sent before LibraryChanged.
JobDoneSwapped ==
  /\ worker = "item" /\ left = 0
  /\ events' = events \o <<Event(current.job, "Finished", 0),
                           Event(current.job, "LibraryChanged", 0)>>
  /\ ToRecv
  /\ UNCHANGED <<clientVars, queue, generation, catalog>>

JobDone ==
  /\ worker = "item" /\ left = 0
  /\ events' = events \o <<Event(current.job, "LibraryChanged", 0),
                           Event(current.job, "Finished", 0)>>
  /\ ToRecv
  /\ UNCHANGED <<clientVars, queue, generation, catalog>>

\* scan_library_cancellable: the flag is read before each directory entry. A
\* cache hit or an unreadable file reports once, an ingested file twice.
WalkEntry ==
  /\ worker = "walk" /\ left > 0 /\ ~cancel
  /\ left' = left - 1
  /\ \/ /\ completed' = completed + 1
        /\ Emit("Progress", completed + 1)
        /\ catalog' \in {catalog, catalog + 1}  \* a sidecar refresh may write
        /\ UNCHANGED found
     \/ /\ completed' = completed + 2
        /\ events' = events \o <<Event(current.job, "Progress", completed + 1),
                                 Event(current.job, "Progress", completed + 2)>>
        /\ catalog' = catalog + 1
        /\ found' = found + 1
  /\ UNCHANGED <<clientVars, queue, generation, worker, current>>

\* The root is not a directory (tested before the flag is read), or reading
\* a directory entry fails.
WalkError ==
  /\ worker = "walk" /\ (~cancel \/ completed = 0)
  /\ Emit("Failed", 0)
  /\ ToRecv
  /\ UNCHANGED <<clientVars, queue, generation, catalog>>

\* The walk broke off on the flag, or the flag is up when it returns.
WalkCancelled ==
  /\ worker = "walk" /\ cancel
  /\ Emit("Cancelled", 0)
  /\ ToRecv
  /\ UNCHANGED <<clientVars, queue, generation, catalog>>

WalkDone ==
  /\ worker = "walk" /\ left = 0 /\ ~cancel
  /\ worker' = "item"
  /\ left' = IF current.kind = "scanQueue" THEN found ELSE 0
  /\ UNCHANGED <<clientVars, queue, events, generation, current, found, completed, catalog>>

\* run_asset_cache_job never reads the flag.
AssetOk ==
  /\ worker = "fetch"
  /\ events' = events \o <<Event(current.job, "AssetCached", 0),
                           Event(current.job, "LibraryChanged", 0),
                           Event(current.job, "Finished", 0)>>
  /\ catalog' = catalog + 1
  /\ ToRecv
  /\ UNCHANGED <<clientVars, queue, generation>>

AssetError ==
  /\ worker = "fetch"
  /\ Emit("AssetCacheFailed", 0)
  /\ ToRecv
  /\ UNCHANGED <<clientVars, queue, generation, catalog>>

-----------------------------------------------------------------------------
QueueSome ==
  \E kind \in Kinds, items \in 0..MaxItems :
    /\ kind = "asset" => items = 0
    /\ QueueJob(kind, items)

ClientNext == QueueSome \/ Send \/ SendRefused \/ BeginShutdown \/ SendShutdown \/ Join

WorkerNext ==
  \/ WorkerReady \/ WorkerFailsToStart
  \/ Receive \/ ReceiveShutdown
  \/ ItemBegin \/ ItemCancelled \/ ItemOk \/ ItemError \/ JobDone
  \/ WalkEntry \/ WalkError \/ WalkCancelled \/ WalkDone
  \/ AssetOk \/ AssetError

Next == ClientNext \/ WorkerNext

Spec == Init /\ [][Next]_vars

\* The worker thread is scheduled, and a client blocked in send or join is
\* woken; nobody is obliged to queue a job or to shut down.
FairSpec == Spec /\ WF_vars(WorkerNext)
                 /\ WF_vars(Send \/ SendRefused) /\ WF_vars(SendShutdown \/ Join)

-----------------------------------------------------------------------------
(* What the supervisor promises.                                           *)

Working == {"item", "run", "walk", "fetch"}

TypeOK ==
  /\ client \in {"idle", "sending", "closing", "joining", "closed"}
  /\ pending \in JobRequest \cup {Shutdown}
  /\ senderOpen \in BOOLEAN /\ cancel \in BOOLEAN
  /\ nextJob \in 1..(MaxJobs + 1)
  /\ queue \in Seq(JobRequest \cup {Shutdown}) /\ Len(queue) <= QueueCap
  /\ events \in Seq(JobEvent) /\ generation \in Nat
  /\ worker \in {"starting", "recv", "exited"} \cup Working
  /\ current \in JobRequest \cup {Shutdown}
  /\ left \in Nat /\ found \in Nat /\ completed \in Nat /\ catalog \in Nat

\* However jobs fail, are cancelled or are overtaken by a shutdown, no event
\* of a job follows its outcome: run_batch, run_scan_job and
\* run_asset_cache_job return right after sending it.
OneOutcome ==
  \A i, j \in 1..Len(events) :
    i < j /\ events[i].job = events[j].job => events[i].kind \notin Terminal

\* "One sequential catalog-mutating worker": jobs report in the order their
\* ids were handed out and the events of two jobs never interleave.
JobsInOrder ==
  \A i, j \in 1..Len(events) : i < j => events[i].job <= events[j].job

\* The stream of one job starts with Started, counts its progress 1, 2, 3, ...
\* without a gap (the second loop of run_scan_job goes on counting where the
\* walk stopped), and announces LibraryChanged before Finished.
StreamsWellFormed ==
  \A i \in 1..Len(events) :
    LET e == events[i]
        previous == events[i - 1]
        follows == i > 1 /\ previous.job = e.job
        counted == IF previous.kind = "Progress" THEN previous.n ELSE 0
    IN  CASE e.kind = "Started"  -> ~follows
          [] e.kind = "Failed" /\ e.job = 0 -> Len(events) = 1
          [] e.kind = "Progress" -> follows /\ e.n = counted + 1
          [] e.kind = "Finished" -> follows /\ previous.kind = "LibraryChanged"
          [] OTHER -> follows

Ended(j) == \E i \in 1..Len(events) : events[i].job = j /\ events[i].kind \in Terminal
InQueue(j) == \E i \in 1..Len(queue) : queue[i].job = j
NeverStarted == \E i \in 1..Len(events) : events[i].job = 0

\* Every job the channel accepted is reported to an end, a shutdown included:
\* the Shutdown request queues behind it. Only a worker that could not open
\* the database drops jobs, and it says so with the Failed event of job 0.
AcceptedJobsEnd == \A j \in Jobs : InQueue(j) ~> Ended(j) \/ NeverStarted

\* The thread that owns the supervisor, the GUI thread in the desktop
\* application, never blocks for good: a send gets its room or is refused, and
\* shutdown() returns with the worker joined, whatever is queued or running.
OwnerReturns ==
  /\ client = "sending" ~> client = "idle"
  /\ client = "closing" ~> client = "closed" /\ worker = "exited"

\* Nobody waits for good: neither for the end of a job nor for the supervisor.
NobodyWaitsForGood == AcceptedJobsEnd /\ OwnerReturns

\* After the join nothing of this supervisor touches the catalog or reports.
\* (Stated of every step; LibraryApp replaces a closed supervisor.)
QuietWhenClosed == [][client = "closed" => UNCHANGED <<catalog, events, queue>>]_vars

-----------------------------------------------------------------------------
(* The supervisor implements the abstract SequentialJobs.                  *)

Promise == INSTANCE SequentialJobs WITH
  Job     <- Jobs,
  waiting <- {queue[i].job : i \in 1..Len(queue)} \ {0},
  running <- IF worker \in Working THEN {current.job} ELSE {},
  ended   <- {events[i].job : i \in {k \in 1..Len(events) : events[k].kind \in Terminal}} \ {0},
  closed  <- worker = "exited"

\* Jobs are accepted, run one at a time in order and ended, as SequentialJobs
\* allows; and they are, as its fairness demands.
ImplementsSequentialJobs == Promise!FairSpec
=============================================================================
