----------------------------- MODULE ProviderCalls -----------------------------
(***************************************************************************)
(* The look-ups of a round, each in a thread of its own                    *)
(* (phono-junk-identify/src/fanout.rs): they share a client that spaces    *)
(* the requests to a host (http.rs), and Tower's pages are kept on disk    *)
(* (phono-junk-tower/src/cache.rs). A process may die and be started       *)
(* again: its files stay, its client's memory of past requests does not.   *)
(*                                                                         *)
(* Time is relative: Tick lets one unit pass. The timeout of the client    *)
(* makes every request end; the moment is not modelled. A request goes out *)
(* at the moment its host's bucket lets it.                                *)
(***************************************************************************)
EXTENDS Providers, FiniteSets

CONSTANTS
  Calls,       \* the look-ups
  Provider,    \* of each call, of those that are identified by a query
  Asked,       \* the query of each call
  Rounds,      \* a sequence of sets of calls: those that run side by side
  Hit,         \* of each query, the release that its search finds, or None
  Burst,       \* of each provider's host: requests that may go out together
  Interval,    \* and the time after which one more may
  Window,      \* the period of its policy
  SearchTtl, ReleaseTtl,
  Statuses,    \* bound: how services reply to each call
  Errors,      \* bound: how requests fail, of HttpErrors
  MaxCrashes   \* bound

ASSUME RoundsAssumption ==
  /\ Rounds \in Seq(SUBSET Calls)
  /\ \A i, j \in DOMAIN Rounds : i # j => Rounds[i] \cap Rounds[j] = {}
ASSUME CallsAssumption ==
  \A c \in Calls : /\ Provider[c] \in DOMAIN Burst /\ Statuses[c] \subseteq Nat
                   /\ Provider[c] = "tower" => Asked[c] \in DOMAIN Hit
ASSUME PolicyAssumption == {Burst, Interval, Window} \subseteq [DOMAIN Burst -> Nat \ {0}]
ASSUME BoundsAssumption == SearchTtl \in Nat /\ ReleaseTtl \in Nat /\ MaxCrashes \in Nat

VARIABLES
  round,     \* the round that runs
  calls,     \* what each of its threads is about
  debt,      \* of each host, the time until its bucket is full again
  recent,    \* history: the ages of the requests of the last Window
  files,     \* the cache: what is in the file <<url, ending>>, None without one
  crashes

vars == <<round, calls, debt, recent, files, crashes>>

Hosts == DOMAIN Burst
Pages == {<<"search", q>> : q \in DOMAIN Hit}
           \cup {<<"release", Hit[q]>> : q \in {p \in DOMAIN Hit : Hit[p] # None}}
Names == Pages \X {"html", "meta", "tmp"}

Idle == [pc |-> "idle", url |-> None, status |-> None, replies |-> <<>>, wake |-> 0,
         part |-> None, open |-> None, body |-> None, outcome |-> None]

NoneSent == [h \in Hosts |-> <<>>]

Init ==
  /\ round = 1
  /\ calls = [c \in Calls |-> Idle]
  /\ debt = [h \in Hosts |-> 0] /\ recent = NoneSent
  /\ files = [n \in Names |-> None]
  /\ crashes = 0

\* A call becomes this one; other variables are left as they are by its callers.
Becomes(c, call) == calls' = [calls EXCEPT ![c] = call]
Goes(c, pc) == Becomes(c, [calls[c] EXCEPT !.pc = pc])

Cached(c) == Provider[c] = "tower"
FirstUrl(c) == IF Cached(c) THEN <<"search", Asked[c]>> ELSE <<"api", Asked[c]>>

\* The threads of a round are spawned together.
Spawn ==
  /\ round \in DOMAIN Rounds
  /\ \A c \in Rounds[round] : calls[c] = Idle
  /\ calls' = [c \in Calls |->
       IF c \in Rounds[round]
         THEN [Idle EXCEPT !.pc = IF Cached(c) THEN "meta" ELSE "bucket", !.url = FirstUrl(c)]
         ELSE calls[c]]
  /\ UNCHANGED <<round, debt, recent, files, crashes>>

\* And all are waited for, whatever they come back with (spawn_all).
Join ==
  /\ round \in DOMAIN Rounds
  /\ \A c \in Rounds[round] : calls[c].pc = "ended"
  /\ round' = round + 1
  /\ UNCHANGED <<calls, debt, recent, files, crashes>>

-----------------------------------------------------------------------------
(* The cache: load_fresh.                                                  *)

TtlOf(url) == IF url[1] = "search" THEN SearchTtl ELSE ReleaseTtl

\* A file that is missing or does not say what a meta file does is a miss.
Fresh(url) ==
  LET meta == files[<<url, "meta">>]
  IN  meta # None /\ meta.kind = "meta" /\ meta.age <= TtlOf(url)

ReadMeta(c) ==
  /\ calls[c].pc = "meta"
  /\ IF Fresh(calls[c].url)
       THEN Becomes(c, [calls[c] EXCEPT !.pc = "html", !.status = files[<<calls[c].url, "meta">>].status])
       ELSE Goes(c, "bucket")
  /\ UNCHANGED <<round, debt, recent, files, crashes>>

ReadBody(c) ==
  /\ calls[c].pc = "html"
  /\ LET body == files[<<calls[c].url, "html">>]
     IN  IF body = None THEN Goes(c, "bucket")
         ELSE Becomes(c, [calls[c] EXCEPT !.pc = "read", !.body = body])
  /\ UNCHANGED <<round, debt, recent, files, crashes>>

-----------------------------------------------------------------------------
(* The client: get_with_headers. The bucket is governor's (external): each  *)
(* request puts it an interval in debt, up to a burst.                     *)

Allowed(h) == debt[h] <= Interval[h] * (Burst[h] - 1)
WaitTime(h) == debt[h] - Interval[h] * (Burst[h] - 1)

Sends(c) ==
  LET h == Provider[c]
  IN  /\ debt' = [debt EXCEPT ![h] = @ + Interval[h]]
      /\ recent' = [recent EXCEPT ![h] = Append(@, 0)]
      /\ Goes(c, "sent")

CheckBucket(c) ==
  /\ calls[c].pc = "bucket"
  /\ \/ Allowed(Provider[c]) /\ Sends(c)
     \/ /\ ~Allowed(Provider[c])
        /\ Becomes(c, [calls[c] EXCEPT !.pc = "asleep", !.wake = WaitTime(Provider[c])])
        /\ UNCHANGED <<debt, recent>>
  /\ UNCHANGED <<round, files, crashes>>

\* Mutant: who has waited is served.
SendOnWaking(c) ==
  /\ calls[c].pc = "asleep" /\ calls[c].wake = 0
  /\ recent' = [recent EXCEPT ![Provider[c]] = Append(@, 0)]
  /\ Goes(c, "sent")
  /\ UNCHANGED <<round, debt, files, crashes>>

\* The bucket is asked again: another thread may have been faster.
Wake(c) ==
  /\ calls[c].pc = "asleep" /\ calls[c].wake = 0
  /\ Goes(c, "bucket")
  /\ UNCHANGED <<round, debt, recent, files, crashes>>

\* The service is external. What it says is about the page that was asked for.
BodyFor(url, status) == [kind |-> "page", url |-> url, status |-> status]

\* None is no file, and no page.
ASSUME NoneAssumption ==
  /\ None \notin Names
  /\ \A c \in Calls : \A url \in Pages, status \in Statuses[c] : None # BodyFor(url, status)

\* Mutant: the meta file comes first.
MetaFirst == <<"meta", "html">>

\* The body first: a meta file that is there is about a body that is there.
Parts == <<"html", "meta">>

\* Errors and a server's failures are not kept; every other page is.
Stored(c, status) == Cached(c) /\ status < 500

Receive(c, status) ==
  /\ calls[c].pc = "sent"
  /\ Becomes(c, [calls[c] EXCEPT !.pc = IF Stored(c, status) THEN "create" ELSE "read",
       !.status = status, !.body = BodyFor(calls[c].url, status), !.part = Parts[1]])
  /\ UNCHANGED <<round, debt, recent, files, crashes>>

ReceiveError(c, error) ==
  /\ calls[c].pc = "sent"
  /\ Becomes(c, [calls[c] EXCEPT !.pc = "ended", !.outcome = Failed(MapHttpErr(error))])
  /\ UNCHANGED <<round, debt, recent, files, crashes>>

-----------------------------------------------------------------------------
(* The cache: store and write_atomic. Both files of a page are written      *)
(* under the one temporary name. An open file is known by the name it has  *)
(* now: another thread may rename or replace it.                           *)

Tmp(c) == <<calls[c].url, "tmp">>

\* File::create empties the file of that name, if there is one.
CreateTmp(c) ==
  /\ calls[c].pc = "create"
  /\ files' = [files EXCEPT ![Tmp(c)] = [kind |-> "empty"]]
  /\ Becomes(c, [calls[c] EXCEPT !.pc = "write", !.open = Tmp(c)])
  /\ UNCHANGED <<round, debt, recent, crashes>>

WriteTmp(c) ==
  /\ calls[c].pc = "write"
  /\ files' = IF calls[c].open = None THEN files
              ELSE [files EXCEPT ![calls[c].open] =
                     IF calls[c].part = "html" THEN calls[c].body
                     ELSE [kind |-> "meta", status |-> calls[c].status, age |-> 0]]
  /\ Becomes(c, [calls[c] EXCEPT !.pc = "rename", !.open = None])
  /\ UNCHANGED <<round, debt, recent, crashes>>

\* Others that have the renamed file open write to it under its new name, and
\* those that have the replaced one open write to none.
Renamed(c, target) ==
  [d \in Calls |->
    [calls[d] EXCEPT !.open = IF @ = Tmp(c) THEN target ELSE IF @ = target THEN None ELSE @]]

RenameTmp(c) ==
  /\ calls[c].pc = "rename"
  /\ LET target == <<calls[c].url, calls[c].part>>
     IN  IF files[Tmp(c)] = None
           THEN Goes(c, "read") /\ UNCHANGED files
           ELSE /\ files' = [files EXCEPT ![target] = files[Tmp(c)], ![Tmp(c)] = None]
                /\ calls' = [Renamed(c, target) EXCEPT
                     ![c].pc = IF calls[c].part = Parts[2] THEN "read" ELSE "create",
                     ![c].part = Parts[2]]
  /\ UNCHANGED <<round, debt, recent, crashes>>

\* A step on the disk fails: the page is used, and not stored any further.
StoreFails(c) ==
  /\ calls[c].pc \in {"create", "write"}
  /\ Becomes(c, [calls[c] EXCEPT !.pc = "read", !.open = None])
  /\ UNCHANGED <<round, debt, recent, files, crashes>>

-----------------------------------------------------------------------------
(* What the provider makes of the reply.                                   *)

\* What is no page of Tower's has no hits, and is a release without a name.
IsPage(content) == content.kind = "page"

SearchReply(reply) ==
  [error |-> None, status |-> reply.status,
   body |-> IF IsPage(reply.body) /\ reply.status = 200
              THEN <<[category |-> "Release", release |-> Hit[reply.url[2]]]>> ELSE <<>>]

Nameless == [title |-> None, artist |-> None, year |-> None, label |-> None, catalog |-> None,
             barcode |-> None, rows |-> <<>>]

PageReply(reply) ==
  [error |-> None, status |-> reply.status,
   body |-> IF IsPage(reply.body) THEN [Nameless EXCEPT !.title = reply.url[2]] ELSE Nameless]

\* The reply is used: it ends the look-up, or leads Tower's to the release page.
Use(c) ==
  /\ calls[c].pc = "read"
  /\ LET reply == [url |-> calls[c].url, status |-> calls[c].status, body |-> calls[c].body]
         replies == Append(calls[c].replies, reply)
         search == SearchReply(replies[1])
         next == [calls[c] EXCEPT !.replies = replies, !.body = None, !.part = None, !.status = None]
         ended(outcome) == Becomes(c, [next EXCEPT !.pc = "ended", !.outcome = outcome])
     IN  IF ~Cached(c) THEN ended(Answer(Provider[c], [error |-> None, status |-> reply.status, body |-> <<>>]))
         ELSE IF Len(replies) = 2 THEN ended(TowerLookup(search, PageReply(reply)))
         ELSE IF ~NeedsPage(search) THEN ended(TowerLookup(search, search))
         ELSE Becomes(c, [next EXCEPT !.pc = "meta", !.url = <<"release", Hit[Asked[c]]>>])
  /\ UNCHANGED <<round, debt, recent, files, crashes>>

\* A thread that panics over a reply has failed (spawn_all).
Panic(c) ==
  /\ calls[c].pc = "read"
  /\ Becomes(c, [calls[c] EXCEPT !.pc = "ended", !.outcome = Failed("Other"), !.body = None,
                                !.part = None, !.status = None])
  /\ UNCHANGED <<round, debt, recent, files, crashes>>

-----------------------------------------------------------------------------
Older(content) ==
  IF content # None /\ content.kind = "meta"
    THEN [content EXCEPT !.age = IF @ > SearchTtl /\ @ > ReleaseTtl THEN @ ELSE @ + 1] ELSE content

\* The ages, the oldest first, of those that are still of the period.
Later(ages, period) ==
  LET aged == [i \in DOMAIN ages |-> ages[i] + 1]
      kept == {i \in DOMAIN aged : aged[i] < period}
  IN  IF kept = {} THEN <<>> ELSE SubSeq(aged, Min(kept), Len(aged))

Tick ==
  /\ round \in DOMAIN Rounds
  /\ debt' = [h \in Hosts |-> IF debt[h] = 0 THEN 0 ELSE debt[h] - 1]
  /\ recent' = [h \in Hosts |-> Later(recent[h], Window[h])]
  /\ calls' = [c \in Calls |-> [calls[c] EXCEPT !.wake = IF @ = 0 THEN 0 ELSE @ - 1]]
  /\ files' = [n \in Names |-> Older(files[n])]
  /\ UNCHANGED <<round, crashes>>

\* The process ends in the midst of a round, which is asked for again.
Crash ==
  /\ crashes < MaxCrashes
  /\ round \in DOMAIN Rounds
  /\ \E c \in Rounds[round] : calls[c].pc \notin {"idle", "ended"}
  /\ crashes' = crashes + 1
  /\ calls' = [c \in Calls |-> IF c \in Rounds[round] THEN Idle ELSE calls[c]]
  /\ debt' = [h \in Hosts |-> 0] /\ recent' = NoneSent
  /\ UNCHANGED <<round, files>>

Done == round \notin DOMAIN Rounds /\ UNCHANGED vars

Step(c) ==
  \/ ReadMeta(c) \/ ReadBody(c) \/ CheckBucket(c) \/ Wake(c)
  \/ (\E status \in Statuses[c] : Receive(c, status)) \/ (\E e \in Errors : ReceiveError(c, e))
  \/ CreateTmp(c) \/ WriteTmp(c) \/ RenameTmp(c) \/ StoreFails(c)
  \/ Use(c) \/ Panic(c)

Next == Spawn \/ Join \/ (\E c \in Calls : Step(c)) \/ Tick \/ Crash \/ Done

Spec == Init /\ [][Next]_vars

-----------------------------------------------------------------------------
(* Properties.                                                             *)

\* A look-up goes by what the service said of the page it asked for: status and
\* body belong together and to the address, from the cache too, after crashes,
\* failures of the disk and while pages expire (get_or_fetch, store). The claim
\* is for look-ups that do not store one page side by side.
ServedIsFetched ==
  \A c \in Calls : \A i \in DOMAIN calls[c].replies :
    LET reply == calls[c].replies[i] IN reply.body = BodyFor(reply.url, reply.status)

\* No look-up finds nothing because something failed: not found is what a reply
\* says with 200 or 404, or one before it (identify_via_search, Answer).
AbsenceIsSaid ==
  \A c \in Calls :
    calls[c].outcome # None /\ calls[c].outcome.ok /\ calls[c].outcome.hits = <<>> =>
      LET replies == calls[c].replies IN replies[Len(replies)].status \in {200, 404}

\* However many threads ask it, a host gets no more than its policy's requests
\* in the policy's period (get_with_headers). A restart forgets.
PolicyHeld == \A h \in Hosts : Len(recent[h]) <= Burst[h]

\* Tower is asked one thing at a time, as its notes want it.
OneTowerRequest == Cardinality({c \in Calls : Cached(c) /\ calls[c].pc = "sent"}) <= 1
=============================================================================
