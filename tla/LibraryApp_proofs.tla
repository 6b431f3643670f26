--------------------------- MODULE LibraryApp_proofs ---------------------------
(***************************************************************************)
(* Proofs about JobSupervisor, and about the sessions of LibraryApp that   *)
(* open one after the other, for every queue capacity and every bound.     *)
(* Of one supervisor: type correctness, that jobs report one outcome each, *)
(* in order, with progress that adds up, and that queue, flag and threads  *)
(* implement the safety of SequentialJobs. Of any sequence of sessions:    *)
(* the generations of the database stay apart, and the rows of the open    *)
(* one catch up with its catalog.                                          *)
(***************************************************************************)
EXTENDS LibraryApp, MCJobSupervisor, TLAPS

\* An item is run only while one is left.
RunHasItem == worker = "run" => left > 0

LEMMA EventType ==
  ASSUME TypeOK, NEW j \in 0..MaxJobs, NEW k \in JobEventKind, NEW n \in Nat
  PROVE  Event(j, k, n) \in JobEvent
BY DEF Event, JobEvent, TypeOK

\* The requests the worker deals with are jobs; only Shutdown has job 0.
LEMMA RequestType ==
  /\ Shutdown \notin JobRequest
  /\ Shutdown.job = 0
  /\ \A r \in JobRequest :
       /\ r.job \in 1..MaxJobs /\ r.items \in Nat
       /\ RunOf[r.kind] \in Working /\ TotalOf(r) \in Nat
BY MaxJobsAssumption, MaxItemsAssumption
   DEF JobRequest, Shutdown, Jobs, Kinds, RunOf, TotalOf, Working

LEMMA CurrentJob == TypeOK => current.job \in 0..MaxJobs
BY RequestType, MaxJobsAssumption DEF TypeOK, JobRequest, Shutdown, Jobs

LEMMA TwoMore ==
  ASSUME NEW S, NEW s \in Seq(S), NEW one, NEW two, NEW t, t = s \o <<one, two>>
  PROVE  /\ Len(t) = Len(s) + 2 /\ t[Len(s) + 1] = one /\ t[Len(s) + 2] = two
         /\ \A i \in 1..Len(s) : t[i] = s[i]
<1> DEFINE T == S \cup {one, two}
<1>1. s \in Seq(T) /\ <<one, two>> \in Seq(T)
  OBVIOUS
<1> HIDE DEF T
<1>2. QED
  BY <1>1

LEMMA JobNumbers ==
  ASSUME TypeOK
  PROVE  /\ nextJob \in Nat /\ nextJob >= 1 /\ current.job \in Nat /\ pending.job \in Nat
         /\ \A i \in 1..Len(queue) : queue[i].job \in Nat
         /\ \A i \in 1..Len(events) : events[i].job \in Nat
         /\ Len(queue) \in Nat /\ Len(events) \in Nat
<1>1. \A r \in JobRequest \cup {Shutdown} : r.job \in Nat
  BY RequestType, MaxJobsAssumption
<1>2. \A e \in JobEvent : e.job \in Nat
  BY MaxJobsAssumption DEF JobEvent
<1>3. \A i \in 1..Len(queue) : queue[i] \in JobRequest \cup {Shutdown}
  BY DEF TypeOK
<1>4. \A i \in 1..Len(events) : events[i] \in JobEvent
  BY DEF TypeOK
<1>5. QED
  BY <1>1, <1>2, <1>3, <1>4, MaxJobsAssumption DEF TypeOK

LEMMA InitTyped == Init => TypeOK /\ RunHasItem
<1> USE QueueCapAssumption, MaxJobsAssumption, MaxItemsAssumption
<1>1. <<>> \in Seq(JobRequest \cup {Shutdown}) /\ <<>> \in Seq(JobEvent) /\ Len(<<>>) = 0
  OBVIOUS
<1>2. ASSUME Init PROVE worker = "starting" /\ cancel \in BOOLEAN /\ senderOpen \in BOOLEAN
  BY <1>2 DEF Init
<1>3. ASSUME Init PROVE nextJob \in 1..(MaxJobs + 1) /\ Len(queue) <= QueueCap
  BY <1>1, <1>3 DEF Init
<1>4. ASSUME Init PROVE queue \in Seq(JobRequest \cup {Shutdown}) /\ events \in Seq(JobEvent)
  BY <1>1, <1>4 DEF Init
<1>5. ASSUME Init PROVE /\ left \in Nat /\ found \in Nat /\ completed \in Nat
                        /\ catalog \in Nat /\ generation \in Nat
  BY <1>5 DEF Init
<1>6. QED
  BY <1>2, <1>3, <1>4, <1>5 DEF Init, TypeOK, RunHasItem

LEMMA StepKeepsItem == TypeOK /\ RunHasItem /\ [Next]_vars => RunHasItem'
<1>1. TypeOK /\ Receive => worker' # "run"
  BY DEF TypeOK, Receive, RunOf, JobRequest, Kinds
<1>2. QED
 BY <1>1 DEF RunHasItem, TypeOK, Next, ClientNext, WorkerNext, QueueSome, QueueJob, Send,
       SendRefused, BeginShutdown, SendShutdown, Join, WorkerReady, WorkerFailsToStart,
       ReceiveShutdown, ItemBegin, ItemCancelled, ItemOk, ItemError,
       JobDone, WalkEntry, WalkError, WalkCancelled, WalkDone, AssetOk, AssetError,
       ToRecv, clientVars, workerVars, vars

LEMMA StepKeepsType == TypeOK /\ RunHasItem /\ [Next]_vars => TypeOK'
<1> USE QueueCapAssumption, MaxJobsAssumption, MaxItemsAssumption
<1> SUFFICES ASSUME TypeOK, RunHasItem, [Next]_vars PROVE TypeOK'
  OBVIOUS
<1> USE DEF TypeOK
<1>1. CASE QueueSome
  <2> PICK kind \in Kinds, items \in 0..MaxItems : QueueJob(kind, items)
    BY <1>1 DEF QueueSome
  <2>1. [job |-> nextJob, kind |-> kind, items |-> items] \in JobRequest
    BY DEF QueueJob, JobRequest, Jobs
  <2>2. QED
    BY <2>1 DEF QueueJob, workerVars
<1>2. CASE Send
  BY <1>2 DEF Send, HasRoom, workerVars
<1>3. CASE SendRefused
  BY <1>3 DEF SendRefused, workerVars
<1>4. CASE BeginShutdown
  BY <1>4 DEF BeginShutdown, workerVars
<1>5. CASE SendShutdown
  <2>1. queue' \in Seq(JobRequest \cup {Shutdown}) /\ Len(queue') <= QueueCap
    BY <1>5 DEF SendShutdown, HasRoom
  <2>2. QED
    BY <1>5, <2>1 DEF SendShutdown, workerVars
<1>6. CASE Join
  BY <1>6 DEF Join, workerVars
<1>7. CASE WorkerReady
  BY <1>7 DEF WorkerReady, clientVars
<1>8. CASE WorkerFailsToStart
  <2>1. Event(0, "Failed", 0) \in JobEvent
    BY EventType DEF JobEventKind
  <2>2. QED
    BY <1>8, <2>1 DEF WorkerFailsToStart, clientVars
<1>9. CASE Receive
  <2> DEFINE r == Head(queue)
  <2>1. r \in JobRequest /\ Tail(queue) \in Seq(JobRequest \cup {Shutdown})
                         /\ Len(Tail(queue)) <= QueueCap
    BY <1>9 DEF Receive
  <2>2. Event(r.job, "Started", TotalOf(r)) \in JobEvent
    BY <2>1, EventType, RequestType DEF JobEventKind
  <2>3. events' \in Seq(JobEvent)
    BY <1>9, <2>2 DEF Receive
  <2> HIDE DEF r
  <2>4. /\ worker' \in Working /\ current' \in JobRequest
        /\ left' \in Nat /\ found' \in Nat /\ completed' \in Nat
    BY <1>9, <2>1, RequestType DEF Receive, r
  <2>5. QED
    BY <1>9, <2>1, <2>3, <2>4 DEF Receive, clientVars
<1>10. CASE ReceiveShutdown
  BY <1>10 DEF ReceiveShutdown, clientVars
<1>11. CASE ItemBegin
  BY <1>11 DEF ItemBegin, clientVars, Working
<1>12. ASSUME NEW k \in JobEventKind, NEW n \in Nat, Emit(k, n)
       PROVE  events' \in Seq(JobEvent)
  BY <1>12, EventType, CurrentJob DEF Emit
<1>13. CASE ItemCancelled
  BY <1>12, <1>13 DEF ItemCancelled, ToRecv, clientVars, JobEventKind
<1>14. CASE ItemOk
  <2>1. events' \in Seq(JobEvent)
    BY <1>12, <1>14 DEF ItemOk, JobEventKind
  <2>2. QED
    BY <1>14, <2>1 DEF RunHasItem, ItemOk, clientVars, Working
<1>15. CASE ItemError
  BY <1>12, <1>15 DEF ItemError, ToRecv, clientVars, JobEventKind
<1>16. CASE JobDone
  <2>1. events' \in Seq(JobEvent)
    <3>1. /\ Event(current.job, "LibraryChanged", 0) \in JobEvent
          /\ Event(current.job, "Finished", 0) \in JobEvent
      BY EventType, CurrentJob DEF JobEventKind
    <3>2. QED
      BY <1>16, <3>1 DEF JobDone
  <2>2. QED
    BY <1>16, <2>1 DEF JobDone, ToRecv, clientVars
<1>17. CASE WalkEntry
  <2>1. events' \in Seq(JobEvent)
    <3>1. /\ Event(current.job, "Progress", completed + 1) \in JobEvent
          /\ Event(current.job, "Progress", completed + 2) \in JobEvent
      BY EventType, CurrentJob DEF JobEventKind
    <3>2. CASE Emit("Progress", completed + 1)
      BY <3>1, <3>2 DEF Emit
    <3>3. CASE events' = events \o <<Event(current.job, "Progress", completed + 1),
                                      Event(current.job, "Progress", completed + 2)>>
      BY <3>1, <3>3
    <3>4. QED
      BY <1>17, <3>2, <3>3 DEF WalkEntry
  <2>2. left' \in Nat /\ found' \in Nat /\ completed' \in Nat /\ catalog' \in Nat
    <3>1. left \in Nat /\ found \in Nat /\ completed \in Nat /\ catalog \in Nat
      BY DEF TypeOK
    <3>2. left' = left - 1 /\ left > 0 /\ completed' \in {completed + 1, completed + 2}
      BY <1>17 DEF WalkEntry
    <3>3. found' \in {found, found + 1} /\ catalog' \in {catalog, catalog + 1}
      BY <1>17 DEF WalkEntry
    <3>4. QED
      BY <3>1, <3>2, <3>3
  <2>3. QED
    BY <1>17, <2>1, <2>2 DEF WalkEntry, clientVars
<1>18. CASE WalkError
  BY <1>12, <1>18 DEF WalkError, ToRecv, clientVars, JobEventKind
<1>19. CASE WalkCancelled
  BY <1>12, <1>19 DEF WalkCancelled, ToRecv, clientVars, JobEventKind
<1>20. CASE WalkDone
  BY <1>20 DEF WalkDone, clientVars, Working
<1>21. CASE AssetOk
  <2>1. events' \in Seq(JobEvent)
    <3>1. /\ Event(current.job, "AssetCached", 0) \in JobEvent
          /\ Event(current.job, "LibraryChanged", 0) \in JobEvent
          /\ Event(current.job, "Finished", 0) \in JobEvent
      BY EventType, CurrentJob DEF JobEventKind
    <3>2. QED
      BY <1>21, <3>1 DEF AssetOk
  <2>2. QED
    BY <1>21, <2>1 DEF AssetOk, ToRecv, clientVars
<1>22. CASE AssetError
  BY <1>12, <1>22 DEF AssetError, ToRecv, clientVars, JobEventKind
<1>23. CASE UNCHANGED vars
  BY <1>23 DEF vars, clientVars, workerVars
<1>24. QED
  BY <1>1, <1>2, <1>3, <1>4, <1>5, <1>6, <1>7, <1>8, <1>9, <1>10, <1>11,
     <1>13, <1>14, <1>15, <1>16, <1>17, <1>18, <1>19, <1>20, <1>21,
     <1>22, <1>23 DEF Next, ClientNext, WorkerNext

\* Every variable keeps to its type: nothing but the bounds is assumed.
THEOREM TypeCorrect == Spec => []TypeOK
BY InitTyped, StepKeepsItem, StepKeepsType, PTL DEF Spec
-----------------------------------------------------------------------------
(* Jobs report one outcome each, in order. The two properties speak of the *)
(* events alone; what makes them inductive is where the jobs still to come *)
(* are: the running job has ended nothing yet and is behind all waiting    *)
(* ones, those are in order, and the one being sent is behind them all.    *)

Behind(j) == \A i \in 1..Len(events) : events[i].job < j

HandedOut ==
  /\ client = "sending" => pending.job \in 1..(nextJob - 1)
  /\ worker \in Working => current.job \in 1..(nextJob - 1)
  /\ Behind(nextJob)
  /\ \A i \in 1..Len(queue) : queue[i].job < nextJob

WaitingInOrder ==
  /\ \A i, j \in 1..Len(queue) : i < j /\ queue[j].job # 0 => queue[i].job < queue[j].job
  /\ \A i \in 1..Len(queue) : queue[i].job # 0 => Behind(queue[i].job)
  /\ client = "sending" =>
       /\ Behind(pending.job)
       /\ \A i \in 1..Len(queue) : queue[i].job < pending.job
       /\ worker \in Working => current.job < pending.job

RunningInOrder ==
  /\ worker \in Working =>
       /\ \A i \in 1..Len(queue) : queue[i].job # 0 => current.job < queue[i].job
       /\ \A i \in 1..Len(events) :
            /\ events[i].job <= current.job
            /\ events[i].job = current.job => events[i].kind \notin Terminal
  /\ worker = "starting" => events = <<>>

OrderInv == HandedOut /\ WaitingInOrder /\ RunningInOrder /\ OneOutcome /\ JobsInOrder

\* A step of the running job only adds to the events, under its own id, and
\* an outcome only as the last one and on leaving the run function.
Reports ==
  /\ worker \in Working /\ worker' \in Working \cup {"recv"}
  /\ UNCHANGED <<client, pending, nextJob, queue, current>>
  /\ Len(events) <= Len(events')
  /\ \A i \in 1..Len(events) : events'[i] = events[i]
  /\ \A i \in (Len(events) + 1)..Len(events') :
       /\ events'[i].job = current.job
       /\ events'[i].kind \in Terminal => i = Len(events') /\ worker' = "recv"

LEMMA ReportKeepsOrder ==
  ASSUME TypeOK, TypeOK', OrderInv, Reports
  PROVE  OrderInv'
<1> DEFINE n == Len(events)  m == Len(events')
<1>0. n \in Nat /\ m \in Nat /\ n <= m
  BY DEF TypeOK, Reports
<1>1. \A i \in 1..m : i \in 1..n \/ i \in (n + 1)..m
  BY <1>0
<1>2. \A i \in 1..m : events'[i].job \in Nat /\ events'[i].job <= current.job
  <2>1. current.job \in Nat /\ \A i \in 1..n : events[i].job \in Nat
    BY JobNumbers
  <2>2. \A i \in 1..n : events'[i] = events[i] /\ events[i].job <= current.job
    BY DEF OrderInv, RunningInOrder, Reports
  <2>3. \A i \in (n + 1)..m : events'[i].job = current.job
    BY DEF Reports
  <2> HIDE DEF n, m
  <2>4. QED
    BY <1>1, <2>1, <2>2, <2>3
<1>3. current.job \in 1..(nextJob - 1) /\ nextJob \in Nat
  BY DEF OrderInv, HandedOut, Reports, TypeOK
<1>4. HandedOut'
  BY <1>2, <1>3 DEF OrderInv, HandedOut, Behind, Reports
<1>5. WaitingInOrder'
  <2>1. \A k \in Nat : current.job < k => Behind(k)'
    BY <1>2, <1>3 DEF Behind
  <2>2. \A i \in 1..Len(queue) : queue[i].job # 0 => current.job < queue[i].job
    BY DEF OrderInv, RunningInOrder, Reports
  <2>3. client = "sending" => current.job < pending.job
    BY DEF OrderInv, WaitingInOrder, Reports
  <2>4. QED
    BY <2>1, <2>2, <2>3, JobNumbers DEF OrderInv, WaitingInOrder, Reports
<1>6. RunningInOrder'
  BY <1>0, <1>1, <1>2 DEF OrderInv, RunningInOrder, Reports, Working
<1>old. \A i \in 1..n : events'[i] = events[i]
  BY DEF Reports
<1>new. \A j \in (n + 1)..m :
          events'[j].job = current.job /\ (events'[j].kind \in Terminal => j = m)
  BY DEF Reports
<1>7. OneOutcome'
  <2> SUFFICES ASSUME NEW i \in 1..m, NEW j \in 1..m, i < j, events'[i].job = events'[j].job
               PROVE  events'[i].kind \notin Terminal
    BY DEF OneOutcome
  <2>1. CASE j \in 1..n
    <3>1. i \in 1..n
      BY <1>0, <2>1
    <3>2. QED
      BY <1>old, <2>1, <3>1 DEF OrderInv, OneOutcome
  <2>2. CASE j \in (n + 1)..m /\ i \in 1..n
    BY <1>old, <1>new, <2>2 DEF OrderInv, RunningInOrder, Reports
  <2>3. CASE i \in (n + 1)..m
    BY <1>0, <1>new, <2>3
  <2>4. QED
    BY <1>1, <2>1, <2>2, <2>3
<1>8. JobsInOrder'
  <2> SUFFICES ASSUME NEW i \in 1..m, NEW j \in 1..m, i < j
               PROVE  events'[i].job <= events'[j].job
    BY DEF JobsInOrder
  <2>1. CASE j \in 1..n
    <3>1. i \in 1..n
      BY <1>0, <2>1
    <3>2. QED
      BY <1>old, <2>1, <3>1 DEF OrderInv, JobsInOrder
  <2>2. CASE j \in (n + 1)..m
    BY <1>2, <1>new, <2>2
  <2>3. QED
    BY <1>1, <2>1, <2>2
<1>9. QED
  BY <1>4, <1>5, <1>6, <1>7, <1>8 DEF OrderInv

LEMMA StepKeepsOrder == TypeOK /\ TypeOK' /\ OrderInv /\ [Next]_vars => OrderInv'
<1> SUFFICES ASSUME TypeOK, TypeOK', OrderInv, [Next]_vars PROVE OrderInv'
  OBVIOUS
<1>1. /\ nextJob \in Nat /\ nextJob >= 1 /\ current.job \in Nat /\ pending.job \in Nat
      /\ \A i \in 1..Len(queue) : queue[i].job \in Nat
      /\ \A i \in 1..Len(events) : events[i].job \in Nat
      /\ Len(queue) \in Nat /\ Len(events) \in Nat
  BY JobNumbers
<1>4. CASE QueueSome
  <2> PICK kind \in Kinds, items \in 0..MaxItems : QueueJob(kind, items)
    BY <1>4 DEF QueueSome
  <2>1. UNCHANGED <<queue, events, worker, current>>
    BY DEF QueueJob, workerVars
  <2>2. nextJob' = nextJob + 1 /\ (client' = "sending" => pending'.job = nextJob)
    BY DEF QueueJob
  <2>3. HandedOut'
    BY <1>1, <2>1, <2>2 DEF OrderInv, HandedOut, Behind
  <2>4. WaitingInOrder'
    BY <1>1, <2>1, <2>2 DEF OrderInv, HandedOut, WaitingInOrder, Behind
  <2>5. QED
    BY <2>1, <2>3, <2>4 DEF OrderInv, RunningInOrder, OneOutcome, JobsInOrder
<1>5. CASE Send
  <2>1. UNCHANGED <<events, worker, current, nextJob>> /\ client' = "idle"
    BY <1>5 DEF Send, workerVars
  <2>2. queue' = Append(queue, pending) /\ client = "sending"
    BY <1>5 DEF Send
  <2>3. /\ Len(queue') = Len(queue) + 1 /\ queue'[Len(queue) + 1] = pending
        /\ \A i \in 1..Len(queue) : queue'[i] = queue[i]
    BY <2>2 DEF TypeOK
  <2>4. \A i \in 1..Len(queue') :
          \/ i \in 1..Len(queue) /\ queue'[i] = queue[i]
          \/ i = Len(queue) + 1 /\ queue'[i] = pending
    BY <1>1, <2>3
  <2>5. HandedOut'
    BY <1>1, <2>1, <2>2, <2>4 DEF OrderInv, HandedOut, Behind
  <2>6. WaitingInOrder'
    <3>1. \A i \in 1..Len(queue) : queue[i].job < pending.job
      BY <2>2 DEF OrderInv, WaitingInOrder
    <3>2. \A i, j \in 1..Len(queue') :
             i < j /\ queue'[j].job # 0 => queue'[i].job < queue'[j].job
      BY <1>1, <2>3, <2>4, <3>1 DEF OrderInv, WaitingInOrder
    <3>3. \A i \in 1..Len(queue') : queue'[i].job # 0 => Behind(queue'[i].job)
      BY <2>2, <2>4 DEF OrderInv, WaitingInOrder
    <3>4. QED
      BY <2>1, <3>2, <3>3 DEF WaitingInOrder, Behind
  <2>7. RunningInOrder'
    BY <2>1, <2>2, <2>4 DEF OrderInv, RunningInOrder, WaitingInOrder
  <2>8. QED
    BY <2>1, <2>5, <2>6, <2>7 DEF OrderInv, OneOutcome, JobsInOrder
<1>6. CASE SendShutdown
  <2>1. UNCHANGED <<events, worker, current, nextJob, pending>> /\ client' = "joining"
    BY <1>6 DEF SendShutdown, workerVars
  <2>2. CASE queue' = queue
    BY <2>1, <2>2 DEF OrderInv, HandedOut, WaitingInOrder, RunningInOrder, Behind,
                      OneOutcome, JobsInOrder
  <2>3. CASE queue' = Append(queue, Shutdown)
    <3>1. /\ Len(queue') = Len(queue) + 1 /\ queue'[Len(queue) + 1].job = 0
          /\ \A i \in 1..Len(queue) : queue'[i] = queue[i]
      BY <2>3, RequestType DEF TypeOK
    <3>2. \A i \in 1..Len(queue') :
            \/ i \in 1..Len(queue) /\ queue'[i] = queue[i]
            \/ i = Len(queue) + 1 /\ queue'[i].job = 0
      <4>1. Len(queue) \in Nat
        BY DEF TypeOK
      <4>2. QED
        BY <3>1, <4>1
    <3>3. HandedOut'
      <4>1. ASSUME NEW i \in 1..Len(queue') PROVE queue'[i].job < nextJob
        <5>1. \A k \in 1..Len(queue) : queue[k].job < nextJob
          BY DEF OrderInv, HandedOut
        <5>2. QED
          BY <1>1, <3>2, <5>1
      <4>2. QED
        BY <2>1, <4>1 DEF OrderInv, HandedOut, Behind
    <3>4. WaitingInOrder'
      <4>1. \A i, j \in 1..Len(queue') :
               i < j /\ queue'[j].job # 0 => queue'[i].job < queue'[j].job
        <5>1. \A i, j \in 1..Len(queue) :
                 i < j /\ queue[j].job # 0 => queue[i].job < queue[j].job
          BY DEF OrderInv, WaitingInOrder
        <5>2. SUFFICES ASSUME NEW i \in 1..Len(queue'), NEW j \in 1..Len(queue'),
                              i < j, queue'[j].job # 0
                       PROVE  queue'[i].job < queue'[j].job
          OBVIOUS
        <5>3. j \in 1..Len(queue) /\ i \in 1..Len(queue)
          BY <1>1, <3>2, <5>2
        <5>4. QED
          BY <3>1, <5>1, <5>2, <5>3
      <4>2. QED
        BY <2>1, <3>2, <4>1 DEF OrderInv, WaitingInOrder, Behind
    <3>5. RunningInOrder'
      BY <2>1, <3>2 DEF OrderInv, RunningInOrder
    <3>6. QED
      BY <2>1, <3>3, <3>4, <3>5 DEF OrderInv, OneOutcome, JobsInOrder
  <2>4. QED
    BY <1>6, <2>2, <2>3 DEF SendShutdown
<1>7. CASE SendRefused \/ BeginShutdown \/ Join \/ WorkerReady \/ UNCHANGED vars
  <2>1. /\ UNCHANGED <<queue, events, current, nextJob, pending>>
        /\ client' # "sending" \/ client' = client
        /\ worker' \notin Working \/ worker' = worker
        /\ worker' # "starting" \/ worker' = worker
    BY <1>7 DEF SendRefused, BeginShutdown, Join, WorkerReady, vars, clientVars, workerVars,
                Working
  <2>2. QED
    BY <2>1 DEF OrderInv, HandedOut, WaitingInOrder, RunningInOrder, Behind,
                OneOutcome, JobsInOrder
<1>8. CASE WorkerFailsToStart
  <2>1. /\ events' = Append(<<>>, Event(0, "Failed", 0)) /\ queue' = <<>>
        /\ UNCHANGED <<client, pending, nextJob>> /\ worker' = "exited"
    BY <1>8 DEF WorkerFailsToStart, OrderInv, RunningInOrder, clientVars
  <2>2. Len(queue') = 0 /\ Len(events') = 1 /\ events'[1].job = 0
    BY <2>1 DEF Event
  <2>4. QED
    BY <1>1, <2>1, <2>2
       DEF OrderInv, HandedOut, WaitingInOrder, RunningInOrder, Behind,
           OneOutcome, JobsInOrder, Working
<1>9. CASE Receive
  <2> DEFINE r == Head(queue)
  <2>1. /\ Len(queue) >= 1 /\ r = queue[1] /\ Len(queue') = Len(queue) - 1
        /\ \A i \in 1..Len(queue') : queue'[i] = queue[i + 1]
        /\ r \in JobRequest
    BY <1>9 DEF Receive, TypeOK
  <2>2. /\ worker' \in Working /\ current' = r
        /\ UNCHANGED <<client, pending, nextJob>>
    BY <1>9, <2>1, RequestType DEF Receive, clientVars
  <2>3. /\ Len(events') = Len(events) + 1
        /\ events'[Len(events) + 1].job = r.job /\ events'[Len(events) + 1].kind = "Started"
        /\ \A i \in 1..Len(events) : events'[i] = events[i]
    BY <1>9 DEF Receive, Event, TypeOK
  <2> HIDE DEF r
  <2>4. r.job \in 1..(nextJob - 1) /\ Behind(r.job)
    BY <1>1, <2>1, RequestType DEF OrderInv, HandedOut, WaitingInOrder
  <2>5. \A i \in 1..Len(queue') : queue'[i].job # 0 => r.job < queue'[i].job
    BY <2>1 DEF OrderInv, WaitingInOrder
  <2>6. \A i \in 1..Len(events') :
          \/ i \in 1..Len(events) /\ events'[i] = events[i] /\ events[i].job < r.job
          \/ i = Len(events) + 1 /\ events'[i].job = r.job /\ events'[i].kind = "Started"
    BY <1>1, <2>3, <2>4 DEF Behind
  <2>7. \A i \in 1..Len(queue') : queue'[i].job \in Nat /\ queue'[i].job < nextJob
    BY <1>1, <2>1 DEF OrderInv, HandedOut
  <2>8. \A k \in Nat : r.job < k => Behind(k)'
    <3>1. r.job \in Nat /\ \A i \in 1..Len(events) : events[i].job \in Nat
      BY <1>1, <2>4, JobNumbers
    <3>2. \A i \in 1..Len(events') : events'[i].job \in Nat /\ events'[i].job <= r.job
      BY <2>6, <3>1
    <3>3. QED
      BY <3>1, <3>2 DEF Behind
  <2>9. HandedOut'
    BY <1>1, <2>2, <2>4, <2>7, <2>8 DEF OrderInv, HandedOut
  <2>10. WaitingInOrder'
    <3>1. \A i, j \in 1..Len(queue') :
             i < j /\ queue'[j].job # 0 => queue'[i].job < queue'[j].job
      <4>1. SUFFICES ASSUME NEW i \in 1..Len(queue'), NEW j \in 1..Len(queue'),
                            i < j, queue'[j].job # 0
                     PROVE  queue'[i].job < queue'[j].job
        OBVIOUS
      <4>2. /\ i + 1 \in 1..Len(queue) /\ j + 1 \in 1..Len(queue) /\ i + 1 < j + 1
            /\ queue'[i] = queue[i + 1] /\ queue'[j] = queue[j + 1]
        BY <2>1, <4>1
      <4>3. QED
        BY <4>1, <4>2 DEF OrderInv, WaitingInOrder
    <3>2. \A i \in 1..Len(queue') : queue'[i].job # 0 =>
            \A e \in 1..Len(events') : events'[e].job < queue'[i].job
      BY <2>5, <2>7, <2>8 DEF Behind
    <3>3. client = "sending" =>
            /\ r.job < pending.job
            /\ \A i \in 1..Len(queue') : queue'[i].job < pending.job
      BY <2>1 DEF OrderInv, WaitingInOrder
    <3>4. QED
      BY <1>1, <2>2, <2>8, <3>1, <3>2, <3>3 DEF OrderInv, WaitingInOrder, Behind
  <2>11. RunningInOrder'
    <3>1. worker' # "starting" /\ current'.job = r.job /\ r.job \in Nat
      <4>1. r.job \in Nat
        <5>1. nextJob \in Nat
          BY <1>1
        <5>2. QED
          BY <2>4, <5>1
      <4>2. QED
        BY <2>2, <4>1 DEF Working
    <3>2. \A i \in 1..Len(events') :
            /\ events'[i].job <= r.job
            /\ events'[i].job = r.job => events'[i].kind \notin Terminal
      <4>1. "Started" \notin Terminal
        BY DEF Terminal
      <4>2. \A i \in 1..Len(events) : events[i].job \in Nat
        BY JobNumbers
      <4>3. QED
        BY <2>6, <3>1, <4>1, <4>2
    <3>3. QED
      BY <2>2, <2>5, <3>1, <3>2 DEF RunningInOrder
  <2>12. \A i, j \in 1..Len(events') : i < j =>
           /\ events'[i].job <= events'[j].job
           /\ events'[i].job = events'[j].job => events'[i].kind \notin Terminal
    <3>1. SUFFICES ASSUME NEW i \in 1..Len(events'), NEW j \in 1..Len(events'), i < j
                   PROVE  /\ events'[i].job <= events'[j].job
                          /\ events'[i].job = events'[j].job => events'[i].kind \notin Terminal
      OBVIOUS
    <3>2. i \in 1..Len(events) /\ events'[i] = events[i] /\ events[i].job < r.job
      BY <1>1, <2>3, <2>6, <3>1
    <3>3. r.job \in Nat /\ events[i].job \in Nat
      BY <1>1, <2>4, <3>2
    <3>4. CASE j \in 1..Len(events)
      BY <2>6, <2>3, <3>1, <3>2, <3>4 DEF OrderInv, OneOutcome, JobsInOrder
    <3>5. CASE j = Len(events) + 1
      BY <2>3, <3>2, <3>3, <3>5
    <3>6. QED
      BY <2>6, <3>4, <3>5
  <2>13. OneOutcome' /\ JobsInOrder'
    BY <2>12 DEF OneOutcome, JobsInOrder
  <2>14. QED
    BY <2>9, <2>10, <2>11, <2>13 DEF OrderInv
<1>10. CASE ReceiveShutdown
  <2>1. /\ UNCHANGED <<events, client, pending, nextJob>> /\ worker' = "exited"
        /\ queue' = <<>> /\ Len(queue') = 0
    BY <1>10 DEF ReceiveShutdown, clientVars
  <2>2. QED
    BY <2>1 DEF OrderInv, HandedOut, WaitingInOrder, RunningInOrder, Behind,
                OneOutcome, JobsInOrder, Working
<1>11. CASE ItemBegin \/ WalkDone
  <2>1. Reports
    BY <1>11 DEF ItemBegin, WalkDone, Reports, Working, clientVars, TypeOK
  <2>2. QED
    BY <2>1, ReportKeepsOrder
<1>12. ASSUME NEW k \in JobEventKind, NEW n \in Nat, Emit(k, n),
              worker \in Working, worker' \in Working \cup {"recv"},
              k \in Terminal => worker' = "recv",
              UNCHANGED <<client, pending, nextJob, queue, current>>
       PROVE  OrderInv'
  <2>1. /\ Len(events') = Len(events) + 1
        /\ events'[Len(events) + 1] = Event(current.job, k, n)
        /\ \A i \in 1..Len(events) : events'[i] = events[i]
    BY <1>12 DEF Emit, TypeOK
  <2>2. Reports
    <3>1. Len(events) \in Nat /\ \A i \in (Len(events) + 1)..Len(events') : i = Len(events) + 1
      BY <2>1 DEF TypeOK
    <3>2. events'[Len(events) + 1].job = current.job /\ events'[Len(events) + 1].kind = k
      BY <2>1 DEF Event
    <3>3. QED
      BY <1>12, <2>1, <3>1, <3>2 DEF Reports
  <2>3. QED
    BY <2>2, ReportKeepsOrder
<1>13. CASE ItemCancelled \/ ItemError \/ WalkError \/ WalkCancelled \/ AssetError
  BY <1>12, <1>13 DEF ItemCancelled, ItemError, WalkError, WalkCancelled, AssetError,
                      ToRecv, clientVars, JobEventKind, Working
<1>14. CASE ItemOk
  BY <1>12, <1>14 DEF ItemOk, TypeOK, clientVars, JobEventKind, Terminal, Working
<1>15. CASE JobDone
  <2>1. /\ Len(events') = Len(events) + 2
        /\ events'[Len(events) + 1] = Event(current.job, "LibraryChanged", 0)
        /\ events'[Len(events) + 2] = Event(current.job, "Finished", 0)
        /\ \A i \in 1..Len(events) : events'[i] = events[i]
    BY <1>15 DEF JobDone, TypeOK
  <2>2. Reports
    BY <1>15, <2>1 DEF Reports, JobDone, ToRecv, Event, Terminal, clientVars, Working, TypeOK
  <2>3. QED
    BY <2>2, ReportKeepsOrder
<1>16. CASE WalkEntry
  <2>1. CASE Emit("Progress", completed + 1)
    BY <1>12, <1>16, <2>1 DEF WalkEntry, TypeOK, clientVars, JobEventKind, Terminal, Working
  <2>2. CASE events' = events \o <<Event(current.job, "Progress", completed + 1),
                                    Event(current.job, "Progress", completed + 2)>>
    <3>1. /\ Len(events') = Len(events) + 2
          /\ events'[Len(events) + 1] = Event(current.job, "Progress", completed + 1)
          /\ events'[Len(events) + 2] = Event(current.job, "Progress", completed + 2)
          /\ \A i \in 1..Len(events) : events'[i] = events[i]
      <4>1. events \in Seq(JobEvent)
        BY DEF TypeOK
      <4>2. QED
        BY <2>2, <4>1, TwoMore
    <3>2. \A i \in (Len(events) + 1)..Len(events') :
             events'[i].job = current.job /\ events'[i].kind = "Progress"
      <4>1. \A i \in (Len(events) + 1)..Len(events') : i \in {Len(events) + 1, Len(events) + 2}
        BY <1>1, <3>1
      <4>2. QED
        BY <3>1, <4>1 DEF Event
    <3>3. UNCHANGED <<client, pending, nextJob, queue, current, worker>> /\ worker \in Working
      BY <1>16 DEF WalkEntry, clientVars, Working
    <3>4. \A i \in (Len(events) + 1)..Len(events') :
             events'[i].job = current.job /\ events'[i].kind \notin Terminal
      BY <3>2 DEF Terminal
    <3>5. Len(events) \in Nat /\ Len(events) <= Len(events')
      BY <1>1, <3>1
    <3>6. worker' \in Working
      BY <3>3
    <3>7. Reports
      BY <3>1, <3>3, <3>4, <3>5, <3>6 DEF Reports
    <3>8. QED
      BY <3>7, ReportKeepsOrder
  <2>3. QED
    BY <1>16, <2>1, <2>2 DEF WalkEntry
<1>17. CASE AssetOk
  <2>1. /\ Len(events') = Len(events) + 3
        /\ events'[Len(events) + 1] = Event(current.job, "AssetCached", 0)
        /\ events'[Len(events) + 2] = Event(current.job, "LibraryChanged", 0)
        /\ events'[Len(events) + 3] = Event(current.job, "Finished", 0)
        /\ \A i \in 1..Len(events) : events'[i] = events[i]
    BY <1>17 DEF AssetOk, TypeOK
  <2>2. Reports
    BY <1>17, <2>1 DEF Reports, AssetOk, ToRecv, Event, Terminal, clientVars, Working, TypeOK
  <2>3. QED
    BY <2>2, ReportKeepsOrder
<1>18. QED
  BY <1>4, <1>5, <1>6, <1>7, <1>8, <1>9, <1>10, <1>11, <1>13, <1>14, <1>15, <1>16, <1>17
     DEF Next, ClientNext, WorkerNext

LEMMA OrderInvariant == Spec => []OrderInv
<1>1. Init => OrderInv
  <2>1. Init => Len(events) = 0 /\ Len(queue) = 0
    BY DEF Init
  <2>2. QED
    BY <2>1 DEF Init, OrderInv, HandedOut, WaitingInOrder, RunningInOrder, Behind,
                OneOutcome, JobsInOrder, Working
<1>2. QED
  BY <1>1, TypeCorrect, StepKeepsOrder, PTL DEF Spec

\* However many jobs fail, are cancelled or are overtaken by a shutdown, no
\* event of a job follows its outcome.
THEOREM OutcomeIsLast == Spec => []OneOutcome
<1>1. OrderInv => OneOutcome
  BY DEF OrderInv
<1>2. QED
  BY <1>1, OrderInvariant, PTL

\* The worker reports on jobs in the order in which their ids were handed out,
\* one job at a time.
THEOREM JobsReportInOrder == Spec => []JobsInOrder
<1>1. OrderInv => JobsInOrder
  BY DEF OrderInv
<1>2. QED
  BY <1>1, OrderInvariant, PTL

-----------------------------------------------------------------------------
(* The join.                                                               *)

Joined == client = "closed" => worker = "exited"

LEMMA StepKeepsJoined ==
  Joined /\ [Next]_vars => Joined' /\ [client = "closed" => UNCHANGED <<catalog, events, queue>>]_vars
BY DEF Joined, Next, ClientNext, WorkerNext, QueueSome, QueueJob, Send,
       SendRefused, BeginShutdown, SendShutdown, Join, WorkerReady, WorkerFailsToStart,
       Receive, ReceiveShutdown, ItemBegin, ItemCancelled, ItemOk, ItemError,
       JobDone, WalkEntry, WalkError, WalkCancelled, WalkDone, AssetOk, AssetError,
       ToRecv, clientVars, workerVars, vars

\* Once shutdown has returned no step of this supervisor touches the catalog,
\* the events or the queue.
THEOREM ClosedIsQuiet == Spec => QuietWhenClosed
<1>1. Init => Joined
  BY DEF Init, Joined
<1>2. QED
  BY <1>1, StepKeepsJoined, PTL DEF Spec, QuietWhenClosed

-----------------------------------------------------------------------------
(* The supervisor as SequentialJobs. The order of the jobs is above; what  *)
(* is missing is that no job waits behind a Shutdown request, so that a    *)
(* worker that receives one leaves nothing undone.                         *)

ShutdownIsLast ==
  /\ client \in {"closing", "joining", "closed"} => ~senderOpen
  /\ \A i \in 1..Len(queue) :
       queue[i].job = 0 => i = Len(queue) /\ client \in {"joining", "closed"}

LEMMA StepKeepsShutdownLast ==
  TypeOK /\ OrderInv /\ ShutdownIsLast /\ [Next]_vars => ShutdownIsLast'
<1> SUFFICES ASSUME TypeOK, OrderInv, ShutdownIsLast, [Next]_vars PROVE ShutdownIsLast'
  OBVIOUS
<1>1. Len(queue) \in Nat /\ \A i \in 1..Len(queue) : queue[i].job \in Nat
  BY JobNumbers
<1>2. CASE QueueSome
  BY <1>2 DEF ShutdownIsLast, QueueSome, QueueJob
<1>3. CASE Send \/ (SendShutdown /\ queue' # queue)
  <2>1. /\ client \in {"sending", "closing"} /\ UNCHANGED senderOpen
        /\ \/ client' = "idle" /\ queue' = Append(queue, pending) /\ client = "sending"
           \/ client' = "joining" /\ queue' = Append(queue, Shutdown) /\ client = "closing"
    BY <1>3 DEF Send, SendShutdown
  <2>2. \A i \in 1..Len(queue) : queue[i].job # 0
    BY <2>1 DEF ShutdownIsLast
  <2>3. client = "sending" => pending.job # 0
    BY DEF OrderInv, HandedOut
  <2>4. /\ Len(queue') = Len(queue) + 1
        /\ \A i \in 1..Len(queue') : \/ i = Len(queue')
                                     \/ i \in 1..Len(queue) /\ queue'[i] = queue[i]
        /\ \/ queue'[Len(queue')] = Shutdown /\ client' = "joining"
           \/ queue'[Len(queue')] = pending /\ client = "sending"
    BY <2>1 DEF TypeOK
  <2>5. ASSUME NEW i \in 1..Len(queue'), queue'[i].job = 0
        PROVE  i = Len(queue') /\ client' = "joining"
    BY <2>1, <2>2, <2>3, <2>4, <2>5 DEF TypeOK
  <2>6. QED
    BY <2>1, <2>5 DEF ShutdownIsLast
<1>4. CASE SendShutdown /\ queue' = queue
  BY <1>4 DEF SendShutdown, ShutdownIsLast
<1>5. CASE SendRefused \/ BeginShutdown \/ Join
  BY <1>5 DEF SendRefused, BeginShutdown, Join, ShutdownIsLast
<1>6. CASE queue' = <<>> /\ UNCHANGED clientVars
  <2>1. Len(queue') = 0
    BY <1>6
  <2>2. QED
    BY <1>6, <2>1 DEF ShutdownIsLast, clientVars
<1>7. CASE Receive
  <2>1. /\ Len(queue') = Len(queue) - 1 /\ UNCHANGED clientVars
        /\ \A i \in 1..Len(queue') : i + 1 \in 1..Len(queue) /\ queue'[i] = queue[i + 1]
    BY <1>7 DEF Receive, TypeOK
  <2>2. QED
    BY <1>1, <2>1 DEF ShutdownIsLast, clientVars
<1>8. CASE UNCHANGED <<clientVars, queue>>
  BY <1>8 DEF ShutdownIsLast, clientVars
<1>9. CASE WorkerNext
  <2>1. CASE Receive \/ ReceiveShutdown \/ WorkerFailsToStart
    BY <1>6, <1>7, <2>1 DEF ReceiveShutdown, WorkerFailsToStart
  <2>2. CASE ~(Receive \/ ReceiveShutdown \/ WorkerFailsToStart)
    BY <1>8, <1>9, <2>2 DEF WorkerNext, WorkerReady, ItemBegin, ItemCancelled, ItemOk, ItemError,
       JobDone, WalkEntry, WalkError, WalkCancelled, WalkDone, AssetOk, AssetError
  <2>3. QED
    BY <2>1, <2>2
<1>10. QED
  BY <1>2, <1>3, <1>4, <1>5, <1>8, <1>9 DEF Next, ClientNext, vars

waiting == {queue[i].job : i \in 1..Len(queue)} \ {0}
running == IF worker \in Working THEN {current.job} ELSE {}
ended == {events[i].job : i \in {k \in 1..Len(events) : events[k].kind \in Terminal}} \ {0}

\* What a job reports leaves the ended ones as they are, or ends it.
LEMMA EndedGrows ==
  ASSUME TypeOK, NEW j \in Jobs, NEW n \in Nat, Len(events') = Len(events) + n,
         \A i \in 1..Len(events) : events'[i] = events[i],
         \A i \in (Len(events) + 1)..(Len(events) + n) : events'[i].job = j
  PROVE  /\ (\E i \in (Len(events) + 1)..(Len(events) + n) : events'[i].kind \in Terminal)
              => ended' = ended \cup {j}
         /\ ~(\E i \in (Len(events) + 1)..(Len(events) + n) : events'[i].kind \in Terminal)
              => ended' = ended
<1>1. Len(events) \in Nat /\ j # 0
  BY MaxJobsAssumption DEF TypeOK, Jobs
<1>2. \A i \in 1..Len(events') : i \in 1..Len(events) \/ i \in (Len(events) + 1)..(Len(events) + n)
  BY <1>1
<1>3. \A i : i \in 1..Len(events) \/ i \in (Len(events) + 1)..(Len(events) + n) => i \in 1..Len(events')
  BY <1>1
<1>4. ASSUME NEW x PROVE x \in ended => x \in ended'
  BY <1>3 DEF ended
<1>5. ASSUME NEW x PROVE x \in ended' => \/ x \in ended
                                         \/ /\ x = j
                                            /\ \E i \in (Len(events) + 1)..(Len(events) + n) :
                                                  events'[i].kind \in Terminal
  BY <1>2 DEF ended
<1>6. ASSUME NEW i \in (Len(events) + 1)..(Len(events) + n), events'[i].kind \in Terminal
      PROVE  j \in ended'
  BY <1>1, <1>3, <1>6 DEF ended
<1>7. QED
  BY <1>4, <1>5, <1>6

\* What the proof of a step has to show of SequentialJobs.
closed == worker = "exited"

Stutters == UNCHANGED <<waiting, running, ended, closed>>

Accepts(j) ==
  /\ ~closed /\ j \in Jobs /\ \A k \in waiting \cup running \cup ended : k < j
  /\ waiting' = waiting \cup {j} /\ UNCHANGED <<running, ended, closed>>

Begins(j) ==
  /\ ~closed /\ running = {} /\ j \in Jobs /\ j \in waiting /\ \A k \in waiting : j <= k
  /\ waiting' = waiting \ {j} /\ running' = {j} /\ UNCHANGED <<ended, closed>>

Ends(j) ==
  /\ j \in Jobs /\ running = {j} /\ running' = {} /\ ended' = ended \cup {j}
  /\ UNCHANGED <<waiting, closed>>

Closes ==
  /\ ~closed /\ running = {} /\ (waiting = {} \/ ended = {})
  /\ closed' = TRUE /\ waiting' = {} /\ UNCHANGED <<running, ended>>

LEMMA SendAccepts == ASSUME TypeOK, OrderInv, Send PROVE Accepts(pending.job)
<1>1. /\ client = "sending" /\ worker # "exited" /\ queue' = Append(queue, pending)
      /\ UNCHANGED <<worker, current, events>>
  BY DEF Send, HasRoom, workerVars
<1>2. /\ pending.job \in Jobs /\ pending.job \in Nat /\ pending.job # 0
  BY <1>1, MaxJobsAssumption DEF OrderInv, HandedOut, TypeOK, Jobs
<1>3. /\ Len(queue) \in Nat /\ Len(queue') = Len(queue) + 1 /\ queue'[Len(queue')] = pending
      /\ \A i \in 1..Len(queue) : i \in 1..Len(queue') /\ queue'[i] = queue[i]
      /\ \A i \in 1..Len(queue') : i = Len(queue') \/ i \in 1..Len(queue)
      /\ Len(queue') \in 1..Len(queue')
  BY <1>1 DEF TypeOK
<1>4. ASSUME NEW x PROVE x \in waiting' <=> x \in waiting \cup {pending.job}
  BY <1>2, <1>3 DEF waiting
<1>5. \A k \in waiting \cup running \cup ended : k < pending.job
  BY <1>1 DEF waiting, running, ended, OrderInv, WaitingInOrder, Behind
<1>6. UNCHANGED <<running, ended, closed>> /\ ~closed
  BY <1>1 DEF running, ended, closed
<1>7. QED
  BY <1>2, <1>4, <1>5, <1>6 DEF Accepts

LEMMA ReceiveBegins ==
  ASSUME TypeOK, OrderInv, Receive PROVE Begins(Head(queue).job)
<1> DEFINE r == Head(queue)
<1>1. /\ Len(queue) \in Nat /\ Len(queue) >= 1 /\ r = queue[1] /\ Len(queue') = Len(queue) - 1
      /\ \A i \in 1..Len(queue') : i + 1 \in 1..Len(queue) /\ queue'[i] = queue[i + 1]
      /\ \A i \in 2..Len(queue) : i - 1 \in 1..Len(queue') /\ queue'[i - 1] = queue[i]
      /\ r \in JobRequest
  BY DEF Receive, TypeOK
<1>2. worker = "recv" /\ worker' \in Working /\ current' = r
  BY <1>1, RequestType DEF Receive
<1>3. events' = Append(events, Event(r.job, "Started", TotalOf(r)))
  BY DEF Receive
<1> HIDE DEF r
<1>4. r.job \in Jobs /\ r.job # 0 /\ r.job \in Nat
  BY <1>1, RequestType, MaxJobsAssumption DEF Jobs
<1>5. \A i \in 2..Len(queue) : queue[i].job # 0 => r.job < queue[i].job
  BY <1>1 DEF OrderInv, WaitingInOrder
<1>6. \A i \in 1..Len(queue) : queue[i].job \in Nat
  BY JobNumbers
<1>7. r.job \in waiting /\ \A k \in waiting : r.job <= k
  <2>1. \A i \in 1..Len(queue) : i = 1 \/ i \in 2..Len(queue)
    BY <1>1
  <2>2. 1 \in 1..Len(queue)
    BY <1>1
  <2>3. QED
    BY <1>1, <1>4, <1>5, <1>6, <2>1, <2>2 DEF waiting
<1>8. waiting' = waiting \ {r.job}
  <2>1. ASSUME NEW i \in 1..Len(queue'), queue'[i].job # 0
        PROVE  queue'[i].job \in waiting \ {r.job}
    <3>1. i + 1 \in 2..Len(queue) /\ i + 1 \in 1..Len(queue) /\ queue'[i] = queue[i + 1]
      BY <1>1
    <3>2. r.job < queue[i + 1].job /\ queue[i + 1].job \in Nat
      BY <1>5, <1>6, <2>1, <3>1
    <3>3. QED
      BY <1>4, <2>1, <3>1, <3>2 DEF waiting
  <2>2. ASSUME NEW i \in 1..Len(queue), queue[i].job # 0, queue[i].job # r.job
        PROVE  queue[i].job \in waiting'
    <3>1. i \in 2..Len(queue)
      BY <1>1, <2>2
    <3>2. QED
      BY <1>1, <2>2, <3>1 DEF waiting
  <2>3. QED
    BY <2>1, <2>2 DEF waiting
<1>9. ended' = ended
  <2>1. /\ Len(events) \in Nat /\ Len(events') = Len(events) + 1
        /\ events'[Len(events) + 1] = Event(r.job, "Started", TotalOf(r))
        /\ \A i \in 1..Len(events) : events'[i] = events[i]
    BY <1>3 DEF TypeOK
  <2>2. \A i \in (Len(events) + 1)..(Len(events) + 1) :
          events'[i].job = r.job /\ events'[i].kind \notin Terminal
    BY <2>1 DEF Event, Terminal
  <2>3. QED
    BY <1>4, <2>1, <2>2, EndedGrows
<1>10. /\ running = {} /\ running' = {r.job} /\ ~closed /\ UNCHANGED closed
  BY <1>2 DEF running, closed, Working
<1>11. QED
  BY <1>4, <1>7, <1>8, <1>9, <1>10 DEF Begins, r

LEMMA LastReceiveCloses ==
  ASSUME TypeOK, ShutdownIsLast, ReceiveShutdown PROVE Closes
<1>1. /\ worker = "recv" /\ worker' = "exited" /\ queue' = <<>> /\ UNCHANGED events
      /\ Len(queue) \in Nat /\ 1 \in 1..Len(queue) /\ queue[1].job = 0
  BY RequestType DEF ReceiveShutdown, TypeOK
<1>2. Len(queue) = 1
  BY <1>1 DEF ShutdownIsLast
<1>3. waiting = {} /\ waiting' = {}
  <2>1. Len(queue') = 0 /\ \A i \in 1..Len(queue) : i = 1
    BY <1>1, <1>2
  <2>2. QED
    BY <1>1, <2>1 DEF waiting
<1>4. QED
  BY <1>1, <1>3 DEF Closes, closed, running, ended, Working

LEMMA FailureCloses ==
  ASSUME TypeOK, OrderInv, WorkerFailsToStart PROVE Closes
<1>1. /\ worker = "starting" /\ worker' = "exited" /\ queue' = <<>> /\ events = <<>>
      /\ events' = <<Event(0, "Failed", 0)>>
  BY DEF WorkerFailsToStart, OrderInv, RunningInOrder
<1>2. Len(queue') = 0 /\ Len(events) = 0 /\ Len(events') = 1 /\ events'[1].job = 0
  BY <1>1 DEF Event
<1>3. waiting' = {} /\ ended = {} /\ ended' = {}
  BY <1>2 DEF waiting, ended
<1>4. QED
  BY <1>1, <1>3 DEF Closes, closed, running, Working

\* The running job says something, and goes on or ends.
LEMMA ReportIsPromised ==
  ASSUME TypeOK, OrderInv, NEW n \in Nat, worker \in Working,
         Len(events') = Len(events) + n, UNCHANGED <<queue, current>>,
         \A i \in 1..Len(events) : events'[i] = events[i],
         \A i \in (Len(events) + 1)..(Len(events) + n) : events'[i].job = current.job,
         \/ /\ worker' \in Working
            /\ \A i \in (Len(events) + 1)..(Len(events) + n) : events'[i].kind \notin Terminal
         \/ /\ worker' = "recv"
            /\ \E i \in (Len(events) + 1)..(Len(events) + n) : events'[i].kind \in Terminal
  PROVE  Stutters \/ Ends(current.job)
<1>1. current.job \in Jobs
  BY MaxJobsAssumption DEF OrderInv, HandedOut, Jobs, TypeOK
<1>2. UNCHANGED <<waiting, closed>> /\ running = {current.job}
  BY DEF waiting, closed, running, Working
<1>3. CASE worker' \in Working
  <2>1. ended' = ended /\ running' = running
    BY <1>1, <1>3, EndedGrows DEF running, Working
  <2>2. QED
    BY <1>2, <2>1 DEF Stutters
<1>4. CASE worker' = "recv"
  <2>1. ended' = ended \cup {current.job} /\ running' = {}
    BY <1>1, <1>4, EndedGrows DEF running, Working
  <2>2. QED
    BY <1>1, <1>2, <2>1 DEF Ends
<1>5. QED
  BY <1>3, <1>4 DEF Working

LEMMA WorkIsPromised ==
  ASSUME TypeOK, OrderInv,
         \/ ItemBegin \/ ItemCancelled \/ ItemOk \/ ItemError \/ JobDone
         \/ WalkEntry \/ WalkError \/ WalkCancelled \/ WalkDone
         \/ AssetOk \/ AssetError
  PROVE  Stutters \/ Ends(current.job)
<1>1. Len(events) \in Nat
  BY DEF TypeOK
<1>2. ASSUME NEW k, NEW n, Emit(k, n), worker \in Working, UNCHANGED <<queue, current>>,
             \/ worker' \in Working /\ k \notin Terminal
             \/ worker' = "recv" /\ k \in Terminal
      PROVE  Stutters \/ Ends(current.job)
  <2>1. /\ Len(events') = Len(events) + 1
        /\ events'[Len(events) + 1] = Event(current.job, k, n)
        /\ \A i \in 1..Len(events) : events'[i] = events[i]
    BY <1>2 DEF Emit, TypeOK
  <2>2. /\ \A i \in (Len(events) + 1)..(Len(events) + 1) :
             events'[i].job = current.job /\ events'[i].kind = k
        /\ Len(events) + 1 \in (Len(events) + 1)..(Len(events) + 1)
    BY <1>1, <2>1 DEF Event
  <2>3. QED
    BY <1>2, <2>1, <2>2, ReportIsPromised
<1>3. CASE ItemBegin \/ WalkDone
  <2>1. /\ UNCHANGED <<queue, events>> /\ worker \in Working /\ worker' \in Working
        /\ UNCHANGED current
    BY <1>3 DEF ItemBegin, WalkDone, Working
  <2>2. QED
    BY <2>1 DEF Stutters, waiting, running, ended, closed, Working
<1>4. CASE ItemCancelled \/ ItemError \/ WalkError \/ WalkCancelled \/ AssetError
  BY <1>2, <1>4 DEF ItemCancelled, ItemError, WalkError, WalkCancelled, AssetError,
                    ToRecv, Working, Terminal
<1>5. CASE ItemOk
  BY <1>2, <1>5 DEF ItemOk, Working, Terminal
<1>6. CASE JobDone
  <2>1. /\ Len(events') = Len(events) + 2
        /\ events'[Len(events) + 1] = Event(current.job, "LibraryChanged", 0)
        /\ events'[Len(events) + 2] = Event(current.job, "Finished", 0)
        /\ \A i \in 1..Len(events) : events'[i] = events[i]
    BY <1>6 DEF JobDone, TypeOK
  <2>2. /\ \A i \in (Len(events) + 1)..(Len(events) + 2) : events'[i].job = current.job
        /\ \E i \in (Len(events) + 1)..(Len(events) + 2) : events'[i].kind \in Terminal
    BY <1>1, <2>1 DEF Event, Terminal
  <2>3. worker \in Working /\ worker' = "recv" /\ UNCHANGED <<queue, current>>
    BY <1>6 DEF JobDone, ToRecv, Working
  <2>4. QED
    BY <2>1, <2>2, <2>3, ReportIsPromised
<1>7. CASE WalkEntry
  <2>1. worker \in Working /\ worker' \in Working /\ UNCHANGED <<queue, current>>
    BY <1>7 DEF WalkEntry, Working
  <2>2. CASE Emit("Progress", completed + 1)
    BY <1>2, <2>1, <2>2 DEF Terminal
  <2>3. CASE events' = events \o <<Event(current.job, "Progress", completed + 1),
                                    Event(current.job, "Progress", completed + 2)>>
    <3>1. /\ Len(events') = Len(events) + 2
          /\ events'[Len(events) + 1] = Event(current.job, "Progress", completed + 1)
          /\ events'[Len(events) + 2] = Event(current.job, "Progress", completed + 2)
          /\ \A i \in 1..Len(events) : events'[i] = events[i]
      BY <2>3 DEF TypeOK
    <3>2. \A i \in (Len(events) + 1)..(Len(events) + 2) :
             events'[i].job = current.job /\ events'[i].kind = "Progress"
      <4>1. \A i \in (Len(events) + 1)..(Len(events) + 2) : i \in {Len(events) + 1, Len(events) + 2}
        BY <1>1
      <4>2. QED
        BY <3>1, <4>1 DEF Event
    <3>3. \A i \in (Len(events) + 1)..(Len(events) + 2) : events'[i].kind \notin Terminal
      BY <3>2 DEF Terminal
    <3>4. QED
      BY <2>1, <3>1, <3>2, <3>3, ReportIsPromised
  <2>4. QED
    BY <1>7, <2>2, <2>3 DEF WalkEntry
<1>8. CASE AssetOk
  <2>1. /\ Len(events') = Len(events) + 3
        /\ events'[Len(events) + 1] = Event(current.job, "AssetCached", 0)
        /\ events'[Len(events) + 2] = Event(current.job, "LibraryChanged", 0)
        /\ events'[Len(events) + 3] = Event(current.job, "Finished", 0)
        /\ \A i \in 1..Len(events) : events'[i] = events[i]
    BY <1>8 DEF AssetOk, TypeOK
  <2>2. /\ \A i \in (Len(events) + 1)..(Len(events) + 3) : events'[i].job = current.job
        /\ \E i \in (Len(events) + 1)..(Len(events) + 3) : events'[i].kind \in Terminal
    BY <1>1, <2>1 DEF Event, Terminal
  <2>3. worker \in Working /\ worker' = "recv" /\ UNCHANGED <<queue, current>>
    BY <1>8 DEF AssetOk, ToRecv, Working
  <2>4. QED
    BY <2>1, <2>2, <2>3, ReportIsPromised
<1>9. QED
  BY <1>3, <1>4, <1>5, <1>6, <1>7, <1>8

LEMMA SendShutdownStutters == ASSUME TypeOK, SendShutdown PROVE Stutters
<1>1. UNCHANGED <<events, worker, current>>
  BY DEF SendShutdown, workerVars
<1>2. CASE queue' = queue
  BY <1>1, <1>2 DEF Stutters, waiting, running, ended, closed
<1>3. CASE queue' = Append(queue, Shutdown)
  <2>1. /\ Len(queue) \in Nat /\ Len(queue') = Len(queue) + 1 /\ queue'[Len(queue')].job = 0
        /\ \A i \in 1..Len(queue) : i \in 1..Len(queue') /\ queue'[i] = queue[i]
        /\ \A i \in 1..Len(queue') : i = Len(queue') \/ i \in 1..Len(queue)
    BY <1>3, RequestType DEF TypeOK
  <2>2. ASSUME NEW x PROVE x \in waiting' <=> x \in waiting
    BY <2>1 DEF waiting
  <2>3. QED
    BY <1>1, <2>2 DEF Stutters, running, ended, closed
<1>4. QED
  BY <1>2, <1>3 DEF SendShutdown

LEMMA StepIsPromised ==
  TypeOK /\ OrderInv /\ ShutdownIsLast /\ [Next]_vars =>
    [Promise!Next]_<<waiting, running, ended, closed>>
<1> SUFFICES ASSUME TypeOK, OrderInv, ShutdownIsLast, [Next]_vars
             PROVE  \/ Stutters \/ Closes
                    \/ \E j \in Jobs : Accepts(j) \/ Begins(j) \/ Ends(j)
  BY DEF Stutters, Closes, Accepts, Begins, Ends, Promise!Next, Promise!Accept, Promise!Begin,
         Promise!End, Promise!Close, waiting, running, ended, closed
<1>1. CASE QueueSome \/ SendRefused \/ BeginShutdown \/ Join \/ UNCHANGED vars
  <2>1. UNCHANGED <<queue, events, worker, current>>
    BY <1>1 DEF QueueSome, QueueJob, SendRefused, BeginShutdown, Join, vars, workerVars
  <2>2. QED
    BY <2>1 DEF Stutters, waiting, running, ended, closed
<1>2. CASE WorkerReady
  <2>1. UNCHANGED <<queue, events>> /\ worker = "starting" /\ worker' = "recv"
    BY <1>2 DEF WorkerReady
  <2>2. QED
    BY <2>1 DEF Stutters, waiting, running, ended, closed, Working
<1>3. \A j : Accepts(j) \/ Begins(j) \/ Ends(j) => j \in Jobs
  BY DEF Accepts, Begins, Ends
<1>4. QED
  BY <1>1, <1>2, <1>3, SendAccepts, SendShutdownStutters, FailureCloses, ReceiveBegins,
     LastReceiveCloses, WorkIsPromised DEF Next, ClientNext, WorkerNext

\* The supervisor does only what SequentialJobs allows, for every capacity and every
\* bound: jobs begin one at a time in the order they were accepted, each ends, and
\* none is dropped but by a worker that never came up (worker_loop, shutdown).
THEOREM RunsSequentially == Spec => Promise!Spec
<1>1. Init => Promise!Init /\ ShutdownIsLast
  <2> SUFFICES ASSUME Init PROVE Promise!Init /\ ShutdownIsLast
    OBVIOUS
  <2>1. Len(queue) = 0 /\ Len(events) = 0
    BY DEF Init
  <2>2. QED
    BY <2>1 DEF Init, Promise!Init, ShutdownIsLast, Working
<1>2. Spec => []ShutdownIsLast
  BY <1>1, StepKeepsShutdownLast, TypeCorrect, OrderInvariant, PTL DEF Spec
<1>3. QED
  BY <1>1, <1>2, StepIsPromised, TypeCorrect, OrderInvariant, PTL
     DEF Spec, Promise!Spec, Promise!vars, waiting, running, ended, closed

-----------------------------------------------------------------------------
(* The stream of a job, event by event. What a run function has counted is *)
(* what its last event says, and an event of job 0 is the last of all.     *)

Counted(e) == IF e.kind = "Progress" THEN e.n ELSE 0

\* StreamsWellFormed, of one event of a sequence.
Told(s, i) ==
  LET e == s[i]
      previous == s[i - 1]
      follows == i > 1 /\ previous.job = e.job
  IN  CASE e.kind = "Started"  -> ~follows
        [] e.kind = "Failed" /\ e.job = 0 -> Len(s) = 1
        [] e.kind = "Progress" -> follows /\ e.n = Counted(previous) + 1
        [] e.kind = "Finished" -> follows /\ previous.kind = "LibraryChanged"
        [] OTHER -> follows

Streams ==
  /\ \A i \in 1..Len(events) : Told(events, i)
  /\ \A i \in 1..Len(events) : events[i].job = 0 => worker = "exited"
  /\ worker \in Working => /\ Len(events) > 0
                           /\ events[Len(events)].job = current.job
                           /\ events[Len(events)].kind \in {"Started", "Progress"}
                           /\ completed = Counted(events[Len(events)])

LEMMA ToldStays ==
  ASSUME TypeOK, Streams, Len(events') \in Nat, Len(events) <= Len(events'), worker # "exited",
         \A i \in 1..Len(events) : events'[i] = events[i]
  PROVE  \A i \in 1..Len(events) : Told(events', i) /\ events'[i].job # 0
<1> SUFFICES ASSUME NEW i \in 1..Len(events) PROVE Told(events', i) /\ events'[i].job # 0
  OBVIOUS
<1>1. Told(events, i) /\ events[i].job # 0 /\ events'[i] = events[i]
  BY DEF Streams
<1>2. CASE i = 1
  BY <1>1, <1>2 DEF Told
<1>3. CASE i # 1
  <2>1. Len(events) \in Nat /\ i - 1 \in 1..Len(events)
    BY <1>3 DEF TypeOK
  <2>2. events'[i - 1] = events[i - 1]
    BY <2>1
  <2>3. QED
    BY <1>1, <2>2 DEF Told
<1>4. QED
  BY <1>2, <1>3

\* The running job goes on with its stream.
LEMMA MoreIsTold ==
  ASSUME TypeOK, TypeOK', OrderInv, Streams, worker \in Working, UNCHANGED current,
         Len(events) < Len(events'), \A i \in 1..Len(events) : events'[i] = events[i],
         \A i \in (Len(events) + 1)..Len(events') :
            /\ events'[i].job = current.job /\ events'[i].kind # "Started"
            /\ events'[i].kind = "Progress" => events'[i].n = Counted(events'[i - 1]) + 1
            /\ events'[i].kind = "Finished" => events'[i - 1].kind = "LibraryChanged",
         \/ worker' = "recv"
         \/ /\ worker' \in Working /\ events'[Len(events')].kind = "Progress"
            /\ completed' = events'[Len(events')].n
  PROVE  Streams'
<1>1. Len(events) \in Nat /\ Len(events') \in Nat /\ Len(events) > 0 /\ worker # "exited"
  <2>1. events \in Seq(JobEvent) /\ events' \in Seq(JobEvent)
    BY DEF TypeOK
  <2>2. Len(events) > 0 /\ worker # "exited"
    BY DEF Streams, Working
  <2>3. QED
    BY <2>1, <2>2
<1>2. current.job # 0
  <2>1. current.job \in 1..(nextJob - 1) /\ nextJob \in Nat
    BY DEF OrderInv, HandedOut, TypeOK
  <2>2. QED
    BY <2>1
<1>3. \A i \in 1..Len(events) : Told(events', i) /\ events'[i].job # 0
  BY <1>1, ToldStays
<1>4. ASSUME NEW i \in (Len(events) + 1)..Len(events')
      PROVE  Told(events', i) /\ events'[i].job # 0
  <2>1. events'[i - 1].job = current.job
    <3>1. CASE i = Len(events) + 1
      BY <1>1, <3>1 DEF Streams
    <3>2. CASE i # Len(events) + 1
      <4>1. i - 1 \in (Len(events) + 1)..Len(events')
        BY <1>1, <3>2
      <4>2. QED
        BY <4>1
    <3>3. QED
      BY <3>1, <3>2
  <2>2. i > 1 /\ events'[i].job = current.job /\ events'[i].kind # "Started"
    BY <1>1
  <2>3. QED
    BY <1>2, <2>1, <2>2 DEF Told
<1>5. \A i \in 1..Len(events') : Told(events', i) /\ events'[i].job # 0
  <2>1. \A i \in 1..Len(events') : i \in 1..Len(events) \/ i \in (Len(events) + 1)..Len(events')
    BY <1>1
  <2>2. QED
    BY <1>3, <1>4, <2>1
<1>6. CASE worker' = "recv"
  BY <1>5, <1>6 DEF Streams, Working
<1>7. CASE /\ worker' \in Working /\ events'[Len(events')].kind = "Progress"
           /\ completed' = events'[Len(events')].n
  <2>1. events'[Len(events')].job = current.job /\ Len(events') > 0
    BY <1>1
  <2>2. QED
    BY <1>5, <1>7, <2>1 DEF Streams, Counted
<1>8. QED
  BY <1>6, <1>7

LEMMA OneIsTold ==
  ASSUME TypeOK, TypeOK', OrderInv, Streams, NEW k, NEW n, Emit(k, n), worker \in Working,
         UNCHANGED current, k \notin {"Started", "Finished"}, k = "Progress" => n = completed + 1,
         worker' = "recv" \/ (worker' \in Working /\ k = "Progress" /\ completed' = n)
  PROVE  Streams'
<1>1. /\ Len(events) \in Nat /\ Len(events') = Len(events) + 1
      /\ events'[Len(events) + 1] = Event(current.job, k, n)
      /\ \A i \in 1..Len(events) : events'[i] = events[i]
  <2> DEFINE e == Event(current.job, k, n)
  <2>1. events \in Seq(JobEvent) /\ events' = Append(events, e)
    BY DEF Emit, TypeOK
  <2> HIDE DEF e
  <2>2. QED
    BY <2>1 DEF e
<1>2. /\ events'[Len(events) + 1].job = current.job /\ events'[Len(events) + 1].kind = k
      /\ events'[Len(events) + 1].n = n
  BY <1>1 DEF Event
<1>3. completed = Counted(events'[Len(events)])
  BY <1>1 DEF Streams
<1>4. ASSUME NEW i \in (Len(events) + 1)..Len(events')
      PROVE  /\ events'[i].job = current.job /\ events'[i].kind # "Started"
             /\ events'[i].kind = "Progress" => events'[i].n = Counted(events'[i - 1]) + 1
             /\ events'[i].kind # "Finished"
  <2>1. i = Len(events) + 1 /\ i - 1 = Len(events)
    BY <1>1
  <2>2. QED
    BY <1>2, <1>3, <2>1
<1>5. QED
  BY <1>1, <1>2, <1>4, MoreIsTold

LEMMA ReceiveIsTold ==
  ASSUME TypeOK, TypeOK', OrderInv, Streams, Receive PROVE Streams'
<1> DEFINE r == Head(queue)
<1>1. /\ Len(queue) \in Nat /\ 1 \in 1..Len(queue) /\ r = queue[1] /\ r \in JobRequest
      /\ Len(events) \in Nat
  BY DEF Receive, TypeOK
<1>2. worker = "recv" /\ worker' \in Working /\ current' = r /\ completed' = 0
  BY <1>1, RequestType DEF Receive
<1>3. /\ Len(events') = Len(events) + 1 /\ events'[Len(events')].job = r.job
      /\ events'[Len(events')].kind = "Started"
      /\ \A i \in 1..Len(events) : events'[i] = events[i]
  BY DEF Receive, Event, TypeOK
<1> HIDE DEF r
<1>4. Behind(r.job) /\ r.job # 0 /\ r.job \in Nat
  BY <1>1, RequestType, MaxJobsAssumption DEF OrderInv, WaitingInOrder
<1>5. \A i \in 1..Len(events) : Told(events', i) /\ events'[i].job # 0
  BY <1>1, <1>2, <1>3, ToldStays
<1>6. Told(events', Len(events'))
  <2>1. Len(events') > 1 => Len(events') - 1 \in 1..Len(events)
    BY <1>1, <1>3
  <2>2. Len(events') > 1 => events'[Len(events') - 1].job < r.job
    BY <1>3, <1>4, <2>1 DEF Behind
  <2>3. Len(events') > 1 => events'[Len(events') - 1].job # r.job
    BY <1>3, <1>4, <2>1, <2>2, JobNumbers
  <2>4. QED
    BY <1>3, <2>3 DEF Told
<1>7. \A i \in 1..Len(events') : Told(events', i) /\ events'[i].job # 0
  <2>1. \A i \in 1..Len(events') : i \in 1..Len(events) \/ i = Len(events')
    BY <1>1, <1>3
  <2>2. QED
    BY <1>3, <1>4, <1>5, <1>6, <2>1
<1>8. QED
  BY <1>1, <1>2, <1>3, <1>7 DEF Streams, Counted, r

LEMMA StepKeepsStreams ==
  ASSUME TypeOK, TypeOK', OrderInv, Streams, [Next]_vars PROVE Streams'
<1>1. Len(events) \in Nat
  BY DEF TypeOK
<1>2. CASE ClientNext \/ UNCHANGED vars
  <2>1. UNCHANGED <<events, worker, current, completed>>
    BY <1>2 DEF ClientNext, QueueSome, QueueJob, Send, SendRefused, BeginShutdown, SendShutdown,
                Join, vars, workerVars
  <2>2. QED
    BY <2>1 DEF Streams, Told
<1>3. CASE WorkerReady \/ ReceiveShutdown \/ ItemBegin \/ WalkDone
  <2>1. /\ UNCHANGED <<events, current, completed>> /\ worker # "exited"
        /\ worker' \in Working => worker \in Working
    BY <1>3 DEF WorkerReady, ReceiveShutdown, ItemBegin, WalkDone, Working
  <2>2. QED
    BY <2>1 DEF Streams, Told
<1>4. CASE WorkerFailsToStart
  <2>1. /\ events' = <<Event(0, "Failed", 0)>> /\ worker' = "exited"
    BY <1>4 DEF WorkerFailsToStart, OrderInv, RunningInOrder
  <2>2. Len(events') = 1 /\ events'[1].job = 0 /\ events'[1].kind = "Failed"
    BY <2>1 DEF Event
  <2>3. \A i \in 1..Len(events') : i = 1
    BY <2>2
  <2>4. QED
    BY <2>1, <2>2, <2>3 DEF Streams, Told, Working
<1>5. CASE ItemCancelled \/ ItemError \/ WalkError \/ WalkCancelled \/ AssetError
  BY <1>5, OneIsTold DEF ItemCancelled, ItemError, WalkError, WalkCancelled, AssetError,
                         ToRecv, Working
<1>6. CASE ItemOk
  BY <1>6, OneIsTold DEF ItemOk, Working
<1>7. CASE JobDone
  <2>1. /\ Len(events') = Len(events) + 2
        /\ events'[Len(events) + 1] = Event(current.job, "LibraryChanged", 0)
        /\ events'[Len(events) + 2] = Event(current.job, "Finished", 0)
        /\ \A i \in 1..Len(events) : events'[i] = events[i]
    BY <1>7 DEF JobDone, TypeOK
  <2>2. /\ events'[Len(events) + 1].job = current.job
        /\ events'[Len(events) + 1].kind = "LibraryChanged"
        /\ events'[Len(events) + 2].job = current.job /\ events'[Len(events) + 2].kind = "Finished"
    BY <2>1 DEF Event
  <2>3. worker \in Working /\ worker' = "recv" /\ UNCHANGED current
    BY <1>7 DEF JobDone, ToRecv, Working
  <2>4. \A i \in (Len(events) + 1)..Len(events') :
          i = Len(events) + 1 \/ (i = Len(events) + 2 /\ i - 1 = Len(events) + 1)
    BY <1>1, <2>1
  <2>5. QED
    BY <1>1, <2>1, <2>2, <2>3, <2>4, MoreIsTold
<1>8. CASE WalkEntry
  <2>1. worker \in Working /\ worker' \in Working /\ UNCHANGED current
    BY <1>8 DEF WalkEntry, Working
  <2>2. CASE completed' = completed + 1 /\ Emit("Progress", completed + 1)
    BY <2>1, <2>2, OneIsTold
  <2>3. CASE /\ completed' = completed + 2
             /\ events' = events \o <<Event(current.job, "Progress", completed + 1),
                                      Event(current.job, "Progress", completed + 2)>>
    <3>1. /\ Len(events') = Len(events) + 2
          /\ events'[Len(events) + 1] = Event(current.job, "Progress", completed + 1)
          /\ events'[Len(events) + 2] = Event(current.job, "Progress", completed + 2)
          /\ \A i \in 1..Len(events) : events'[i] = events[i]
      <4>1. events \in Seq(JobEvent)
        BY DEF TypeOK
      <4>2. QED
        BY <2>3, <4>1, TwoMore
    <3>2. /\ events'[Len(events) + 1].job = current.job
          /\ events'[Len(events) + 1].kind = "Progress" /\ events'[Len(events) + 1].n = completed + 1
          /\ events'[Len(events) + 2].job = current.job
          /\ events'[Len(events) + 2].kind = "Progress" /\ events'[Len(events) + 2].n = completed + 2
      BY <3>1 DEF Event
    <3>3. completed = Counted(events'[Len(events)]) /\ completed \in Nat
      <4>1. Len(events) \in 1..Len(events) /\ completed = Counted(events[Len(events)])
        BY <1>1, <2>1 DEF Streams
      <4>2. QED
        BY <3>1, <4>1 DEF TypeOK
    <3>4. Counted(events'[Len(events) + 1]) = completed + 1
      BY <3>2 DEF Counted
    <3>5. \A i \in (Len(events) + 1)..Len(events') :
            \/ i = Len(events) + 1 /\ i - 1 = Len(events)
            \/ i = Len(events) + 2 /\ i - 1 = Len(events) + 1
      BY <1>1, <3>1
    <3>6. ASSUME NEW i \in (Len(events) + 1)..Len(events')
          PROVE  /\ events'[i].job = current.job /\ events'[i].kind = "Progress"
                 /\ events'[i].n = Counted(events'[i - 1]) + 1
      <4>1. CASE i = Len(events) + 1 /\ i - 1 = Len(events)
        BY <3>2, <3>3, <4>1
      <4>2. CASE i = Len(events) + 2 /\ i - 1 = Len(events) + 1
        <5>1. /\ events'[i] = events'[Len(events) + 2] /\ events'[i - 1] = events'[Len(events) + 1]
              /\ completed + 2 = (completed + 1) + 1
          BY <3>3, <4>2
        <5>2. QED
          BY <3>2, <3>4, <5>1
      <4>3. QED
        BY <3>5, <3>6, <4>1, <4>2
    <3>7. /\ Len(events) < Len(events') /\ events'[Len(events')].kind = "Progress"
          /\ completed' = events'[Len(events')].n
      BY <1>1, <2>3, <3>1, <3>2
    <3>8. QED
      BY <2>1, <3>1, <3>6, <3>7, MoreIsTold
  <2>4. QED
    BY <1>8, <2>2, <2>3 DEF WalkEntry
<1>9. CASE AssetOk
  <2>1. /\ Len(events') = Len(events) + 3
        /\ events'[Len(events) + 1] = Event(current.job, "AssetCached", 0)
        /\ events'[Len(events) + 2] = Event(current.job, "LibraryChanged", 0)
        /\ events'[Len(events) + 3] = Event(current.job, "Finished", 0)
        /\ \A i \in 1..Len(events) : events'[i] = events[i]
    BY <1>9 DEF AssetOk, TypeOK
  <2>2. /\ events'[Len(events) + 1].job = current.job
        /\ events'[Len(events) + 1].kind = "AssetCached"
        /\ events'[Len(events) + 2].job = current.job
        /\ events'[Len(events) + 2].kind = "LibraryChanged"
        /\ events'[Len(events) + 3].job = current.job /\ events'[Len(events) + 3].kind = "Finished"
    BY <2>1 DEF Event
  <2>3. worker \in Working /\ worker' = "recv" /\ UNCHANGED current
    BY <1>9 DEF AssetOk, ToRecv, Working
  <2>4. \A i \in (Len(events) + 1)..Len(events') :
          i = Len(events) + 1 \/ i = Len(events) + 2 \/ (i = Len(events) + 3 /\ i - 1 = Len(events) + 2)
    BY <1>1, <2>1
  <2>5. QED
    BY <1>1, <2>1, <2>2, <2>3, <2>4, MoreIsTold
<1>10. QED
  BY <1>2, <1>3, <1>4, <1>5, <1>6, <1>7, <1>8, <1>9, ReceiveIsTold DEF Next, WorkerNext

-----------------------------------------------------------------------------
(* The flag. What was under way when it went up reports its progress once, *)
(* and no item is begun after.                                             *)

LastProgress ==
  /\ mark \in 0..Len(events)
  /\ cancel => \A i \in (mark + 1)..Len(events) : events[i].kind = "Progress" =>
       /\ worker # "run"
       /\ \A j \in (mark + 1)..Len(events) : events[j].kind = "Progress" => i = j

\* A step under the flag that begins nothing, and reports progress only of the
\* item under way.
LEMMA FlagStays ==
  ASSUME TypeOK, TypeOK', LastProgress, cancel, mark' = mark, NEW n \in Nat,
         Len(events') = Len(events) + n, \A i \in 1..Len(events) : events'[i] = events[i],
         worker' # "run" \/ worker = "run",
         \/ \A i \in (Len(events) + 1)..(Len(events) + n) : events'[i].kind # "Progress"
         \/ n = 1 /\ worker = "run" /\ worker' # "run"
  PROVE  LastProgress'
<1>0. Len(events) \in Nat /\ Len(events') \in Nat
  BY DEF TypeOK
<1>1. /\ Len(events) \in Nat /\ Len(events') \in Nat /\ mark \in Nat /\ mark <= Len(events)
      /\ mark \in 0..Len(events')
  BY <1>0 DEF LastProgress
<1>2. \A i \in (mark + 1)..Len(events') :
         \/ i \in (mark + 1)..Len(events) /\ events'[i] = events[i]
         \/ i \in (Len(events) + 1)..(Len(events) + n)
  BY <1>1
<1>3. CASE \A i \in (Len(events) + 1)..(Len(events) + n) : events'[i].kind # "Progress"
  <2>1. \A i \in (mark + 1)..Len(events') :
          events'[i].kind = "Progress" => i \in (mark + 1)..Len(events) /\ events[i].kind = "Progress"
    BY <1>2, <1>3
  <2>2. QED
    BY <1>1, <2>1 DEF LastProgress
<1>4. CASE n = 1 /\ worker = "run" /\ worker' # "run"
  <2>1. \A i \in (mark + 1)..Len(events) : events[i].kind # "Progress"
    BY <1>4 DEF LastProgress
  <2>2. \A i \in (mark + 1)..Len(events') : events'[i].kind = "Progress" => i = Len(events) + 1
    BY <1>1, <1>2, <1>4, <2>1
  <2>3. QED
    BY <1>1, <1>4, <2>2 DEF LastProgress
<1>5. QED
  BY <1>3, <1>4

\* What a step does to the events and the worker, as far as the flag goes.
LEMMA StepUnderFlag ==
  ASSUME TypeOK, OrderInv, [Next]_vars, cancel
  PROVE  /\ cancel'
         /\ worker' # "run" \/ worker = "run"
         /\ \E n \in Nat :
              /\ Len(events') = Len(events) + n /\ \A i \in 1..Len(events) : events'[i] = events[i]
              /\ \/ \A i \in (Len(events) + 1)..(Len(events) + n) : events'[i].kind # "Progress"
                 \/ n = 1 /\ worker = "run" /\ worker' # "run"
<1>1. Len(events) \in Nat
  BY DEF TypeOK
<1>2. cancel' /\ (worker' # "run" \/ worker = "run")
  <2>1. Receive => worker' # "run"
    BY DEF TypeOK, Receive, RunOf, JobRequest, Kinds
  <2>2. QED
    BY <2>1 DEF Next, ClientNext, WorkerNext, QueueSome, QueueJob, Send,
         SendRefused, BeginShutdown, SendShutdown, Join, WorkerReady, WorkerFailsToStart,
         Receive, ReceiveShutdown, ItemBegin, ItemCancelled, ItemOk, ItemError,
         JobDone, WalkEntry, WalkError, WalkCancelled, WalkDone, AssetOk, AssetError,
         ToRecv, clientVars, workerVars, vars
<1> DEFINE Quiet(n) ==
      /\ Len(events') = Len(events) + n /\ \A i \in 1..Len(events) : events'[i] = events[i]
      /\ \/ \A i \in (Len(events) + 1)..(Len(events) + n) : events'[i].kind # "Progress"
         \/ n = 1 /\ worker = "run" /\ worker' # "run"
<1>3. CASE UNCHANGED events
  <2>1. Quiet(0)
    BY <1>1, <1>3
  <2>2. QED
    BY <1>2, <2>1
<1>4. ASSUME NEW j, NEW k, NEW n, events' = Append(events, Event(j, k, n)),
             k # "Progress" \/ (worker = "run" /\ worker' # "run")
      PROVE  Quiet(1)
  <2>1. /\ Len(events') = Len(events) + 1 /\ events'[Len(events) + 1] = Event(j, k, n)
        /\ \A i \in 1..Len(events) : events'[i] = events[i]
    BY <1>4 DEF TypeOK
  <2>2. \A i \in (Len(events) + 1)..(Len(events) + 1) : events'[i].kind = k
    BY <1>1, <2>1 DEF Event
  <2>3. QED
    BY <1>4, <2>1, <2>2
<1>5. CASE JobDone
  <2>1. /\ Len(events') = Len(events) + 2
        /\ events'[Len(events) + 1] = Event(current.job, "LibraryChanged", 0)
        /\ events'[Len(events) + 2] = Event(current.job, "Finished", 0)
        /\ \A i \in 1..Len(events) : events'[i] = events[i]
    BY <1>5 DEF JobDone, TypeOK
  <2>2. \A i \in (Len(events) + 1)..(Len(events) + 2) : events'[i].kind # "Progress"
    <3>1. \A i \in (Len(events) + 1)..(Len(events) + 2) : i \in {Len(events) + 1, Len(events) + 2}
      BY <1>1
    <3>2. QED
      BY <2>1, <3>1 DEF Event
  <2>3. QED
    BY <1>2, <2>1, <2>2
<1>6. CASE AssetOk
  <2>1. /\ Len(events') = Len(events) + 3
        /\ events'[Len(events) + 1] = Event(current.job, "AssetCached", 0)
        /\ events'[Len(events) + 2] = Event(current.job, "LibraryChanged", 0)
        /\ events'[Len(events) + 3] = Event(current.job, "Finished", 0)
        /\ \A i \in 1..Len(events) : events'[i] = events[i]
    BY <1>6 DEF AssetOk, TypeOK
  <2>2. \A i \in (Len(events) + 1)..(Len(events) + 3) : events'[i].kind # "Progress"
    <3>1. \A i \in (Len(events) + 1)..(Len(events) + 3) :
            i \in {Len(events) + 1, Len(events) + 2, Len(events) + 3}
      BY <1>1
    <3>2. QED
      BY <2>1, <3>1 DEF Event
  <2>3. QED
    BY <1>2, <2>1, <2>2
<1>7. \/ UNCHANGED events \/ JobDone \/ AssetOk
      \/ \E j, k, n : /\ events' = Append(events, Event(j, k, n))
                      /\ k # "Progress" \/ (worker = "run" /\ worker' # "run")
  <2>1. CASE Receive
    BY <2>1 DEF Receive
  <2>2. CASE WorkerFailsToStart
    <3>1. events' = Append(events, Event(0, "Failed", 0))
      BY <2>2 DEF WorkerFailsToStart
    <3>2. QED
      BY <3>1
  <2>3. CASE ItemCancelled \/ ItemError \/ WalkError \/ WalkCancelled \/ AssetError
    <3>1. PICK k \in {"Cancelled", "Failed", "AssetCacheFailed"} :
            events' = Append(events, Event(current.job, k, 0))
      BY <2>3 DEF ItemCancelled, ItemError, WalkError, WalkCancelled, AssetError, Emit
    <3>2. QED
      BY <3>1
  <2>4. CASE ItemOk
    BY <2>4 DEF ItemOk, Emit
  <2>5. CASE ~(Receive \/ WorkerFailsToStart \/ ItemCancelled \/ ItemError \/ WalkError
               \/ WalkCancelled \/ AssetError \/ ItemOk \/ JobDone \/ AssetOk)
    <3>1. ~WalkEntry
      BY DEF WalkEntry
    <3>2. QED
      BY <2>5, <3>1 DEF Next, ClientNext, WorkerNext, QueueSome, QueueJob, Send, SendRefused,
         BeginShutdown, SendShutdown, Join, WorkerReady, ReceiveShutdown, ItemBegin, WalkDone,
         workerVars, vars
  <2>6. QED
    BY <2>1, <2>2, <2>3, <2>4, <2>5
<1>8. QED
  BY <1>2, <1>3, <1>4, <1>5, <1>6, <1>7

LEMMA EventsGrow ==
  ASSUME TypeOK, [Next]_vars
  PROVE  Len(events) <= Len(events') /\ (cancel' /\ ~cancel => UNCHANGED events)
<1>1. Len(events) \in Nat
  BY DEF TypeOK
<1>2. CASE ClientNext \/ UNCHANGED vars
  BY <1>1, <1>2 DEF ClientNext, QueueSome, QueueJob, Send, SendRefused, BeginShutdown,
                    SendShutdown, Join, vars
<1>3. CASE WorkerNext
  <2>1. cancel' = cancel
    BY <1>3 DEF WorkerNext, WorkerReady, WorkerFailsToStart, Receive, ReceiveShutdown,
       ItemBegin, ItemCancelled, ItemOk, ItemError, JobDone, WalkEntry, WalkError,
       WalkCancelled, WalkDone, AssetOk, AssetError, clientVars
  <2>2. ASSUME NEW e, events' = Append(events, e) PROVE Len(events) <= Len(events')
    BY <1>1, <2>2 DEF TypeOK
  <2>3. ASSUME NEW e, NEW f, events' = events \o <<e, f>> PROVE Len(events) <= Len(events')
    BY <1>1, <2>3 DEF TypeOK
  <2>4. ASSUME NEW e, NEW f, NEW g, events' = events \o <<e, f, g>> PROVE Len(events) <= Len(events')
    BY <1>1, <2>4 DEF TypeOK
  <2>5. CASE \/ WorkerFailsToStart \/ Receive \/ ItemCancelled \/ ItemOk \/ ItemError
             \/ WalkError \/ WalkCancelled \/ AssetError
    BY <2>1, <2>2, <2>5 DEF WorkerFailsToStart, Receive, ItemCancelled, ItemOk, ItemError,
       WalkError, WalkCancelled, AssetError, Emit
  <2>6. CASE JobDone \/ WalkEntry
    BY <2>1, <2>2, <2>3, <2>6 DEF JobDone, WalkEntry, Emit
  <2>7. CASE AssetOk
    BY <2>1, <2>4, <2>7 DEF AssetOk
  <2>8. CASE WorkerReady \/ ReceiveShutdown \/ ItemBegin \/ WalkDone
    BY <1>1, <2>1, <2>8 DEF WorkerReady, ReceiveShutdown, ItemBegin, WalkDone
  <2>9. QED
    BY <1>3, <2>5, <2>6, <2>7, <2>8 DEF WorkerNext
<1>4. QED
  BY <1>2, <1>3 DEF Next

LEMMA StepKeepsProgress ==
  ASSUME TypeOK, TypeOK', OrderInv, LastProgress, [MCNext]_mcVars PROVE LastProgress'
<1>1. [Next]_vars /\ Len(events) \in Nat /\ Len(events') \in Nat
  <2>1. [Next]_vars
    BY DEF MCNext, mcVars
  <2>2. events \in Seq(JobEvent) /\ events' \in Seq(JobEvent)
    BY DEF TypeOK
  <2>3. QED
    BY <2>1, <2>2
<1>2. CASE cancel
  <2>1. mark' = mark
    BY <1>2 DEF MCNext, mcVars
  <2>2. QED
    BY <1>1, <1>2, <2>1, StepUnderFlag, FlagStays
<1>3. CASE ~cancel /\ cancel'
  <2>1. mark' = Len(events) /\ events' = events
    BY <1>1, <1>3, EventsGrow DEF MCNext, mcVars, vars, clientVars
  <2>2. QED
    BY <1>1, <2>1 DEF LastProgress
<1>4. CASE ~cancel'
  <2>1. mark' = mark /\ mark \in 0..Len(events) /\ Len(events) <= Len(events')
    BY <1>1, <1>4, EventsGrow DEF MCNext, mcVars, LastProgress
  <2>2. QED
    BY <1>1, <1>4, <2>1 DEF LastProgress
<1>5. QED
  BY <1>2, <1>3, <1>4

\* The stream of each job tells its whole story in order, and once the flag is up
\* one item at most is still told of, for any jobs queued (run_batch, run_scan_job).
THEOREM StreamsAreOrderly == MCSpec => []OrderlyStreams
<1>1. MCInit => Init /\ Streams /\ LastProgress
  <2> SUFFICES ASSUME MCInit PROVE Init /\ Streams /\ LastProgress
    OBVIOUS
  <2>1. Init /\ Len(events) = 0 /\ mark = 0 /\ worker = "starting" /\ cancel = FALSE
    BY DEF MCInit, Init
  <2>2. QED
    BY <2>1 DEF Streams, LastProgress, Working
<1>2. [MCNext]_mcVars => [Next]_vars
  BY DEF MCNext, mcVars
<1>3. MCSpec => Spec
  BY <1>1, <1>2, PTL DEF MCSpec, Spec
<1>4. MCSpec => [](Streams /\ LastProgress)
  BY <1>1, <1>2, <1>3, TypeCorrect, OrderInvariant, StepKeepsStreams, StepKeepsProgress, PTL
     DEF MCSpec
<1>5. TypeOK /\ Streams /\ LastProgress => OrderlyStreams
  <2> SUFFICES ASSUME TypeOK, Streams, LastProgress PROVE OrderlyStreams
    OBVIOUS
  <2>1. StreamsWellFormed
    BY DEF Streams, Told, Counted, StreamsWellFormed
  <2>2. CancelStopsBatches
    <3> SUFFICES ASSUME cancel, NEW i \in (mark + 1)..Len(events), NEW j \in (mark + 1)..Len(events),
                        events[i].kind = "Progress", events[j].kind = "Progress"
                 PROVE  events[i].job = events[j].job /\ i <= j + 1
      BY DEF CancelStopsBatches
    <3>1. i = j /\ i \in Nat
      BY DEF LastProgress, TypeOK
    <3>2. QED
      BY <3>1
  <2>3. QED
    BY <2>1, <2>2 DEF OrderlyStreams
<1>6. QED
  BY <1>3, <1>4, <1>5, TypeCorrect, PTL

-----------------------------------------------------------------------------
(* The sessions: what their proofs know of the supervisor of the open one.  *)

\* Events carry the generation of the supervisor that sent them.
OwnEvents == \A i \in 1..Len(events) : events[i].generation = generation

SilentStart == worker = "starting" => Len(events) = 0

Done == worker = "recv" /\ Len(events) > 0 /\ events[Len(events)].kind = "Finished"

\* A job that finished has announced LibraryChanged just before.
Announces ==
  Done' => \/ Done /\ UNCHANGED <<events, catalog>>
           \/ /\ Len(events') - 1 \in (Len(events) + 1)..Len(events')
              /\ events'[Len(events') - 1].kind = "LibraryChanged"

\* The events are only added to.
Adds ==
  /\ Len(events) <= Len(events')
  /\ \A i \in 1..Len(events) : events'[i] = events[i]

SupervisorInv == TypeOK /\ RunHasItem /\ Joined /\ OwnEvents /\ SilentStart

-----------------------------------------------------------------------------
(* A step of the supervisor.                                               *)

LEMMA OneEvent ==
  ASSUME TypeOK, OwnEvents, NEW j, NEW k, NEW n,
         events' = Append(events, Event(j, k, n)), generation' = generation, k # "Finished"
  PROVE  OwnEvents' /\ Adds /\ Len(events') = Len(events) + 1 /\ ~Done'
<1>1. /\ Len(events) \in Nat /\ Len(events') = Len(events) + 1
      /\ events'[Len(events) + 1] = Event(j, k, n)
      /\ \A i \in 1..Len(events) : events'[i] = events[i]
  BY DEF TypeOK
<1>2. Event(j, k, n).generation = generation /\ Event(j, k, n).kind = k
  BY DEF Event
<1>3. QED
  BY <1>1, <1>2 DEF OwnEvents, Adds, Done

LEMMA TwoEvents ==
  ASSUME TypeOK, OwnEvents, NEW j, NEW k, NEW n, NEW l, NEW m,
         events' = events \o <<Event(j, k, n), Event(j, l, m)>>, generation' = generation
  PROVE  /\ OwnEvents' /\ Adds /\ Len(events') = Len(events) + 2 /\ Len(events) \in Nat
         /\ events'[Len(events) + 1].kind = k /\ events'[Len(events) + 2].kind = l
<1>1. /\ Len(events) \in Nat /\ Len(events') = Len(events) + 2
      /\ events'[Len(events) + 1] = Event(j, k, n) /\ events'[Len(events) + 2] = Event(j, l, m)
      /\ \A i \in 1..Len(events) : events'[i] = events[i]
  BY DEF TypeOK
<1>2. /\ Event(j, k, n).generation = generation /\ Event(j, k, n).kind = k
      /\ Event(j, l, m).generation = generation /\ Event(j, l, m).kind = l
  BY DEF Event
<1>3. QED
  BY <1>1, <1>2 DEF OwnEvents, Adds

LEMMA ThreeEvents ==
  ASSUME TypeOK, OwnEvents, NEW j, NEW k, NEW n, NEW l, NEW m, NEW h, NEW o,
         events' = events \o <<Event(j, k, n), Event(j, l, m), Event(j, h, o)>>,
         generation' = generation
  PROVE  /\ OwnEvents' /\ Adds /\ Len(events') = Len(events) + 3 /\ Len(events) \in Nat
         /\ events'[Len(events) + 2].kind = l
<1>1. /\ Len(events) \in Nat /\ Len(events') = Len(events) + 3
      /\ events'[Len(events) + 1] = Event(j, k, n) /\ events'[Len(events) + 2] = Event(j, l, m)
      /\ events'[Len(events) + 3] = Event(j, h, o)
      /\ \A i \in 1..Len(events) : events'[i] = events[i]
  BY DEF TypeOK
<1>2. /\ Event(j, k, n).generation = generation /\ Event(j, l, m).generation = generation
      /\ Event(j, l, m).kind = l /\ Event(j, h, o).generation = generation
  BY DEF Event
<1>3. QED
  BY <1>1, <1>2 DEF OwnEvents, Adds

LEMMA SupervisorSteps ==
  ASSUME SupervisorInv, [Next]_vars
  PROVE  SupervisorInv' /\ generation' = generation /\ Adds /\ Announces
<1>1. TypeOK' /\ RunHasItem' /\ Joined'
  BY StepKeepsType, StepKeepsItem, StepKeepsJoined DEF SupervisorInv
<1>2. TypeOK /\ OwnEvents /\ SilentStart /\ Len(events) \in Nat
  BY DEF SupervisorInv, TypeOK
<1>3. generation' = generation /\ (worker' = "starting" => worker = "starting" /\ UNCHANGED events)
  BY <1>2 DEF Next, ClientNext, WorkerNext, QueueSome, QueueJob, Send,
       SendRefused, BeginShutdown, SendShutdown, Join, WorkerReady, WorkerFailsToStart,
       Receive, ReceiveShutdown, ItemBegin, ItemCancelled, ItemOk, ItemError,
       JobDone, WalkEntry, WalkError, WalkCancelled, WalkDone, AssetOk, AssetError,
       ToRecv, clientVars, workerVars, vars, TypeOK, RunOf, JobRequest, Kinds
<1> SUFFICES OwnEvents' /\ Adds /\ Announces
  BY <1>1, <1>2, <1>3 DEF SupervisorInv, SilentStart
<1>4. ASSUME NEW j, NEW k, NEW n, events' = Append(events, Event(j, k, n)), k # "Finished"
      PROVE  OwnEvents' /\ Adds /\ Announces
  BY <1>2, <1>3, <1>4, OneEvent DEF Announces
<1>5. CASE UNCHANGED <<events, worker, catalog>>
  BY <1>2, <1>3, <1>5 DEF OwnEvents, Adds, Announces, Done
<1>6. CASE UNCHANGED events /\ worker' # "recv"
  BY <1>2, <1>3, <1>6 DEF OwnEvents, Adds, Announces, Done
<1>7. CASE ClientNext \/ UNCHANGED vars
  BY <1>5, <1>7 DEF ClientNext, QueueSome, QueueJob, Send, SendRefused, BeginShutdown,
       SendShutdown, Join, workerVars, vars
<1>8. CASE WorkerReady
  <2>1. UNCHANGED events /\ Len(events') = 0
    BY <1>2, <1>8 DEF WorkerReady, SilentStart
  <2>2. QED
    BY <1>2, <1>3, <2>1 DEF OwnEvents, Adds, Announces, Done
<1>9. CASE ReceiveShutdown \/ ItemBegin \/ WalkDone
  BY <1>6, <1>9 DEF ReceiveShutdown, ItemBegin, WalkDone
<1>10. CASE WorkerFailsToStart \/ Receive \/ ItemCancelled \/ ItemOk \/ ItemError
            \/ WalkError \/ WalkCancelled \/ AssetError
  BY <1>4, <1>10 DEF WorkerFailsToStart, Receive, ItemCancelled, ItemOk, ItemError,
       WalkError, WalkCancelled, AssetError, Emit
<1>11. CASE JobDone
  <2>1. events' = events \o <<Event(current.job, "LibraryChanged", 0),
                              Event(current.job, "Finished", 0)>>
    BY <1>11 DEF JobDone
  <2>2. QED
    BY <1>2, <1>3, <2>1, TwoEvents DEF Announces
<1>12. CASE WalkEntry
  <2>1. CASE Emit("Progress", completed + 1)
    BY <1>4, <2>1 DEF Emit
  <2>2. CASE events' = events \o <<Event(current.job, "Progress", completed + 1),
                                    Event(current.job, "Progress", completed + 2)>>
    <3>1. OwnEvents' /\ Adds
      BY <1>2, <1>3, <2>2, TwoEvents
    <3>2. ~Done'
      BY <1>12 DEF WalkEntry, Done
    <3>3. QED
      BY <3>1, <3>2 DEF Announces
  <2>3. QED
    BY <1>12, <2>1, <2>2 DEF WalkEntry
<1>13. CASE AssetOk
  <2>1. events' = events \o <<Event(current.job, "AssetCached", 0),
                              Event(current.job, "LibraryChanged", 0),
                              Event(current.job, "Finished", 0)>>
    BY <1>13 DEF AssetOk
  <2>2. /\ OwnEvents' /\ Adds /\ Len(events') = Len(events) + 3 /\ Len(events) \in Nat
        /\ events'[Len(events) + 2].kind = "LibraryChanged"
    BY <1>2, <1>3, <2>1, ThreeEvents
  <2>3. /\ Len(events') - 1 = Len(events) + 2
        /\ Len(events') - 1 \in (Len(events) + 1)..Len(events')
    BY <2>2
  <2>4. QED
    BY <2>2, <2>3 DEF Announces
<1>14. QED
  BY <1>7, <1>8, <1>9, <1>10, <1>11, <1>12, <1>13 DEF Next, WorkerNext

-----------------------------------------------------------------------------
(* The application. Its generations go up, the supervisor has the one of   *)
(* the session exactly if that has a connection, and what the worker wrote *)
(* is in the rows or announced by an event still to be drained.            *)

Generations ==
  /\ sessionGen = lastGen /\ generation <= sessionGen
  /\ connection <=> generation = sessionGen
  /\ session \in {"switching", "resetting"} => lastGen < MaxGen
  /\ session = "none" => client = "closed"

Announced == \E i \in (seen + 1)..Len(events) : events[i].kind = "LibraryChanged"

CaughtUp == session = "open" /\ connection /\ Done => rows = Current \/ Announced

AppInv ==
  /\ SupervisorInv /\ GenerationsApart /\ Generations /\ CaughtUp

LEMMA CurrentIsView ==
  ASSUME TypeOK, sessionGen \in 1..MaxGen
  PROVE  Current \in View
BY MaxGenAssumption DEF Current, View, TypeOK

LEMMA NoViewIsView == NoView \in View
BY MaxGenAssumption DEF NoView, View

\* What the user or a frame does to the views.
LEMMA ViewsChange ==
  ASSUME AppInv, UNCHANGED <<vars, session, sessionGen, lastGen, connection, orphans>>,
         seen' \in 0..Len(events), rows' \in View, detail' \in View,
         panic' \in {"nobody", "user"}, CaughtUp'
  PROVE  AppInv'
<1>1. SupervisorInv' /\ TypeOK'
  BY DEF AppInv, SupervisorInv, TypeOK, RunHasItem, Joined, OwnEvents, SilentStart,
         vars, clientVars, workerVars
<1>2. GenerationsApart'
  BY <1>1 DEF AppInv, GenerationsApart, AppTypeOK, SingleMutator, StaleEventsIgnored,
              vars, clientVars, workerVars
<1>3. Generations'
  BY DEF AppInv, Generations, vars, clientVars, workerVars
<1>4. QED
  BY <1>1, <1>2, <1>3 DEF AppInv

\* What the supervisor does, the session staying as it is.
LEMMA SupervisorMoves ==
  ASSUME AppInv, [Next]_vars, UNCHANGED <<sessionGen, lastGen, connection, seen, rows, detail, panic, orphans>>,
         \/ session' = session /\ (session = "none" => client' = "closed")
         \/ session' \in {"switching", "resetting"} /\ lastGen < MaxGen
  PROVE  AppInv'
<1>1. SupervisorInv' /\ generation' = generation /\ Adds /\ Announces
  BY SupervisorSteps DEF AppInv
<1>2. /\ seen \in 0..Len(events) /\ Len(events) \in Nat /\ Len(events') \in Nat
      /\ Len(events) <= Len(events')
  <2>1. events \in Seq(JobEvent) /\ events' \in Seq(JobEvent)
    BY <1>1 DEF AppInv, SupervisorInv, TypeOK
  <2>2. seen \in 0..Len(events)
    BY DEF AppInv, GenerationsApart, AppTypeOK
  <2>3. Len(events) <= Len(events')
    BY <1>1 DEF Adds
  <2>4. QED
    BY <2>1, <2>2, <2>3
<1>3. GenerationsApart'
  BY <1>1, <1>2 DEF AppInv, SupervisorInv, GenerationsApart, AppTypeOK, SingleMutator,
                    StaleEventsIgnored
<1>4. Generations'
  BY <1>1 DEF AppInv, Generations
<1>5. CaughtUp'
  <2> SUFFICES ASSUME session' = "open", connection', Done' PROVE rows' = Current' \/ Announced'
    BY DEF CaughtUp
  <2>1. CASE Done /\ UNCHANGED <<events, catalog>>
    BY <2>1 DEF AppInv, CaughtUp, Current, Announced
  <2>2. CASE /\ Len(events') - 1 \in (Len(events) + 1)..Len(events')
             /\ events'[Len(events') - 1].kind = "LibraryChanged"
    BY <1>2, <2>2 DEF Announced
  <2>3. QED
    BY <1>1, <2>1, <2>2 DEF Announces
<1>6. QED
  BY <1>1, <1>3, <1>4, <1>5 DEF AppInv

LEMMA FrameKeeps == ASSUME AppInv, Frame PROVE AppInv'
<1>1. /\ Len(events) \in Nat /\ sessionGen \in 1..MaxGen /\ seen \in 0..Len(events)
      /\ \A i \in 1..Len(events) : events[i].generation = generation
      /\ TypeOK /\ rows \in View /\ detail \in View /\ panic = "nobody" /\ session = "open"
  BY DEF AppInv, SupervisorInv, GenerationsApart, AppTypeOK, TypeOK, OwnEvents, Frame, Free
<1>2. /\ UNCHANGED <<vars, session, sessionGen, lastGen, connection, orphans>>
      /\ seen' = Len(events) /\ Current' = Current /\ events' = events /\ Done' = Done
  BY DEF Frame, Current, Done, vars, workerVars
<1>3. CASE ReloadWanted /\ connection /\ ReloadRows /\ UNCHANGED panic
  <2>1. rows' = Current' /\ rows' \in View /\ detail' \in View
    BY <1>1, <1>2, <1>3, CurrentIsView, NoViewIsView DEF ReloadRows
  <2>2. QED
    BY <1>1, <1>2, <1>3, <2>1, ViewsChange DEF CaughtUp
<1>4. CASE ReloadWanted /\ Panics("frame")
  <2>1. generation = sessionGen
    BY <1>1, <1>4 DEF ReloadWanted, Applied
  <2>2. QED
    BY <1>4, <2>1 DEF Panics, AppInv, Generations
<1>5. CASE ~ReloadWanted /\ UNCHANGED <<rows, detail, panic>>
  <2>1. connection => ~Announced
    BY <1>1, <1>5 DEF ReloadWanted, Applied, Announced, AppInv, Generations
  <2>2. CaughtUp'
    BY <1>2, <1>5, <2>1 DEF AppInv, CaughtUp
  <2>3. QED
    BY <1>1, <1>2, <1>5, <2>2, ViewsChange
<1>6. QED
  BY <1>3, <1>4, <1>5 DEF Frame

LEMMA UserKeeps == ASSUME AppInv, Refresh \/ Focus PROVE AppInv'
<1>1. /\ Len(events) \in Nat /\ sessionGen \in 1..MaxGen /\ seen \in 0..Len(events)
      /\ TypeOK /\ rows \in View /\ detail \in View /\ panic = "nobody"
  BY DEF AppInv, SupervisorInv, GenerationsApart, AppTypeOK, TypeOK, Refresh, Focus, Free
<1>2. /\ UNCHANGED <<vars, session, sessionGen, lastGen, connection, seen, orphans>>
      /\ Current' = Current /\ Done' = Done /\ Announced' = Announced
  BY DEF Refresh, Focus, Current, Done, Announced, vars, workerVars
<1>3. CASE ReloadRows /\ UNCHANGED panic
  <2>1. rows' = Current' /\ rows' \in View /\ detail' \in View
    BY <1>1, <1>2, <1>3, CurrentIsView, NoViewIsView DEF ReloadRows
  <2>2. QED
    BY <1>1, <1>2, <1>3, <2>1, ViewsChange DEF CaughtUp
<1>4. CASE Panics("user")
  <2>1. CaughtUp' /\ rows' \in View /\ detail' \in View /\ panic' \in {"nobody", "user"}
    BY <1>1, <1>2, <1>4 DEF Panics, AppInv, CaughtUp
  <2>2. QED
    BY <1>1, <1>2, <2>1, ViewsChange
<1>5. CASE detail' = Current /\ UNCHANGED <<rows, panic>>
  <2>1. CaughtUp' /\ rows' \in View /\ detail' \in View /\ panic' \in {"nobody", "user"}
    BY <1>1, <1>2, <1>5, CurrentIsView DEF AppInv, CaughtUp
  <2>2. QED
    BY <1>1, <1>2, <2>1, ViewsChange
<1>6. QED
  BY <1>3, <1>4, <1>5 DEF Refresh, Focus

\* A supervisor is replaced only when its worker has exited.
LEMMA NewSupervisorKeeps ==
  ASSUME AppInv, lastGen < MaxGen, client = "closed", NewSupervisor(lastGen + 1),
         detail' \in {detail, NoView}
  PROVE  AppInv'
<1>1. lastGen + 1 \in 1..MaxGen /\ lastGen + 1 \in Nat /\ MaxGen \in Nat
  BY MaxGenAssumption DEF AppInv, GenerationsApart, AppTypeOK
<1>2. worker = "exited"
  BY DEF AppInv, SupervisorInv, Joined
<1>3. <<>> \in Seq(JobRequest \cup {Shutdown}) /\ <<>> \in Seq(JobEvent) /\ Len(<<>>) = 0
  OBVIOUS
<1>4. /\ events' = <<>> /\ Len(events') = 0 /\ worker' = "starting" /\ client' = "idle"
      /\ generation' = lastGen + 1 /\ sessionGen' = lastGen + 1 /\ lastGen' = lastGen + 1
      /\ connection' = TRUE /\ session' = "open" /\ seen' = 0 /\ panic' = panic
      /\ rows' = [gen |-> lastGen + 1, writes |-> 0] /\ orphans' = orphans + 0
  BY <1>2, <1>3 DEF NewSupervisor
<1>5. /\ pending' = Shutdown /\ current' = Shutdown /\ queue' = <<>> /\ Len(queue') = 0
      /\ senderOpen' = TRUE /\ cancel' = FALSE /\ nextJob' = 1
      /\ left' = 0 /\ found' = 0 /\ completed' = 0 /\ catalog' = 0
  BY <1>3 DEF NewSupervisor
<1>6. TypeOK'
  <2>1. senderOpen' \in BOOLEAN /\ cancel' \in BOOLEAN
    BY <1>5
  <2>2. nextJob' \in 1..(MaxJobs + 1) /\ Len(queue') <= QueueCap
    BY <1>5, MaxJobsAssumption, QueueCapAssumption
  <2>3. queue' \in Seq(JobRequest \cup {Shutdown}) /\ events' \in Seq(JobEvent)
    BY <1>3, <1>4, <1>5
  <2>4. QED
    BY <1>1, <1>4, <1>5, <2>1, <2>2, <2>3 DEF TypeOK
<1>7. SupervisorInv'
  BY <1>4, <1>6 DEF SupervisorInv, RunHasItem, Joined, OwnEvents, SilentStart
<1>8. rows' \in View /\ detail' \in View
  BY <1>1, <1>4, NoViewIsView DEF View, AppInv, GenerationsApart, AppTypeOK
<1>9. GenerationsApart'
  BY <1>1, <1>4, <1>6, <1>8 DEF AppInv, GenerationsApart, AppTypeOK, SingleMutator, StaleEventsIgnored
<1>10. Generations' /\ CaughtUp'
  BY <1>1, <1>4 DEF Generations, CaughtUp, Done
<1>11. QED
  BY <1>7, <1>9, <1>10 DEF AppInv

LEMMA ReopenFailsKeeps == ASSUME AppInv, ReopenFails PROVE AppInv'
<1>1. /\ lastGen \in 1..MaxGen /\ lastGen < MaxGen /\ lastGen + 1 \in 1..MaxGen /\ generation \in Nat
      /\ generation <= lastGen /\ client = "closed"
  BY MaxGenAssumption DEF AppInv, SupervisorInv, TypeOK, GenerationsApart, AppTypeOK, Generations,
                          ReopenFails, Reopened
<1>2. /\ UNCHANGED <<vars, seen, rows, detail, panic, orphans>> /\ connection' = FALSE
      /\ sessionGen' = lastGen + 1 /\ lastGen' = lastGen + 1 /\ session' \in {"open", "none"}
  BY DEF ReopenFails
<1>3. SupervisorInv' /\ TypeOK'
  BY <1>2 DEF AppInv, SupervisorInv, TypeOK, RunHasItem, Joined, OwnEvents, SilentStart,
              vars, clientVars, workerVars
<1>4. GenerationsApart'
  BY <1>1, <1>2, <1>3 DEF AppInv, GenerationsApart, AppTypeOK, SingleMutator, StaleEventsIgnored,
                          vars, clientVars, workerVars
<1>5. Generations' /\ CaughtUp'
  BY <1>1, <1>2 DEF Generations, CaughtUp, vars, clientVars
<1>6. QED
  BY <1>3, <1>4, <1>5 DEF AppInv

LEMMA StepKeepsApp == AppInv /\ [AppNext]_appVars => AppInv'
<1> SUFFICES ASSUME AppInv, [AppNext]_appVars PROVE AppInv'
  OBVIOUS
<1>1. CASE UserQueue \/ Blocked \/ Work
  <2>1. [Next]_vars /\ UNCHANGED guiVars /\ (session = "none" => client' = "closed")
    <3>1. CASE UserQueue
      BY <3>1 DEF UserQueue, Free, Next, ClientNext, QueueSome
    <3>2. CASE Blocked
      BY <3>2 DEF Blocked, Next, ClientNext, Send, SendRefused, SendShutdown, Join,
                  AppInv, Generations
    <3>3. CASE Work
      <4>1. client' = client
        BY <3>3 DEF Work, WorkerNext, WorkerReady, WorkerFailsToStart, Receive, ReceiveShutdown,
             ItemBegin, ItemCancelled, ItemOk, ItemError, JobDone, WalkEntry, WalkError,
             WalkCancelled, WalkDone, AssetOk, AssetError, ToRecv, clientVars
      <4>2. QED
        BY <3>3, <4>1 DEF Work, Next, AppInv, Generations
    <3>4. QED
      BY <1>1, <3>1, <3>2, <3>3
  <2>2. QED
    BY <2>1, SupervisorMoves DEF guiVars
<1>2. ASSUME NEW why \in {"switching", "resetting"}, BeginReopen(why) PROVE AppInv'
  <2>1. [Next]_vars
    BY <1>2 DEF BeginReopen, Next, ClientNext
  <2>2. QED
    BY <1>2, <2>1, SupervisorMoves DEF BeginReopen
<1>3. CASE ReopenOk
  <2>1. lastGen < MaxGen /\ client = "closed" /\ detail' \in {detail, NoView}
    BY <1>3 DEF ReopenOk, Reopened, AppInv, Generations
  <2>2. QED
    BY <1>3, <2>1, NewSupervisorKeeps DEF ReopenOk
<1>4. CASE OpenFirst
  <2>1. lastGen < MaxGen /\ client = "closed"
    BY <1>4 DEF OpenFirst, AppInv, Generations
  <2>2. QED
    BY <1>4, <2>1, NewSupervisorKeeps DEF OpenFirst
<1>5. CASE UNCHANGED appVars
  <2>1. [Next]_vars /\ UNCHANGED guiVars /\ (session = "none" => client' = "closed")
    BY <1>5 DEF appVars, vars, clientVars, AppInv, Generations
  <2>2. QED
    BY <2>1, SupervisorMoves DEF guiVars
<1>6. QED
  BY <1>1, <1>2, <1>3, <1>4, <1>5, FrameKeeps, UserKeeps, ReopenFailsKeeps DEF AppNext

LEMMA AppInvariance == AppSpec => []AppInv
<1>1. AppInit => AppInv
  <2> SUFFICES ASSUME AppInit PROVE AppInv
    OBVIOUS
  <2>1. TypeOK /\ RunHasItem /\ Len(events) = 0
    BY InitTyped DEF AppInit, Init
  <2>2. SupervisorInv
    BY <2>1 DEF AppInit, Init, SupervisorInv, Joined, OwnEvents, SilentStart
  <2>3. Current \in View /\ NoView \in View
    BY <2>1, CurrentIsView, NoViewIsView, MaxGenAssumption DEF AppInit
  <2>4. GenerationsApart
    BY <2>1, <2>3, MaxGenAssumption
       DEF AppInit, GenerationsApart, AppTypeOK, SingleMutator, StaleEventsIgnored
  <2>5. Generations /\ CaughtUp
    BY <2>1 DEF AppInit, Init, Generations, CaughtUp
  <2>6. QED
    BY <2>2, <2>4, <2>5 DEF AppInv
<1>2. QED
  BY <1>1, StepKeepsApp, PTL DEF AppSpec

\* Two generations of the database never meet, however sessions are opened,
\* switched, reset and fail to: no worker runs beside the next one's, and no late
\* event makes a frame read a catalog that is closed (reopen, update).
THEOREM ApartForGood == AppSpec => []GenerationsApart
<1>1. AppInv => GenerationsApart
  BY DEF AppInv
<1>2. QED
  BY <1>1, AppInvariance, PTL

\* Once a job has finished, and the events are drained, the rows are the catalog's,
\* for any number of events in a frame and of jobs before (update, reload_rows).
THEOREM RowsFollowCatalog == AppSpec => []RowsCatchUp
<1>1. AppInv => RowsCatchUp
  <2> SUFFICES ASSUME AppInv, session = "open", connection, worker = "recv",
                      seen = Len(events), seen > 0, events[seen].kind = "Finished"
               PROVE  rows = Current
    BY DEF RowsCatchUp
  <2>1. ~Announced
    BY DEF Announced, AppInv, GenerationsApart, AppTypeOK, TypeOK
  <2>2. QED
    BY <2>1 DEF AppInv, CaughtUp, Done
<1>2. QED
  BY <1>1, AppInvariance, PTL
=============================================================================
