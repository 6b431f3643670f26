------------------------------ MODULE LibraryApp ------------------------------
(***************************************************************************)
(* The desktop application (phono-junk-gui/src/app.rs, views, backend)     *)
(* over a LibrarySession (session.rs) and its JobSupervisor. One GUI       *)
(* thread owns the session: it queues jobs, drains the events once per     *)
(* frame, caches the album list and one detail payload, and switches or    *)
(* resets the database by closing the supervisor and opening another.      *)
(*                                                                         *)
(* Each (re)opened database is a generation of its own; what the GUI has   *)
(* loaded is identified by the generation and the number of catalog writes *)
(* it reflects.                                                            *)
(***************************************************************************)
EXTENDS JobSupervisor

CONSTANT MaxGen   \* bound: sessions opened in one run of the program

ASSUME MaxGenAssumption == MaxGen \in Nat \ {0}

VARIABLES
  session,    \* "open", "none", or what the GUI thread is reopening it for
  sessionGen, \* LibrarySession::generation
  lastGen,    \* NEXT_GENERATION - 1
  connection, \* LibrarySession::connection is Some
  seen,       \* how many of the supervisor's events the GUI has drained
  rows,       \* list_entries: what it was loaded from
  detail,     \* detail_cache: what it was loaded from, or NoView
  panic,      \* who hit expect("open session connection")
  orphans     \* worker threads still alive when their supervisor was dropped

guiVars == <<session, sessionGen, lastGen, connection, seen, rows, detail, panic, orphans>>
appVars == <<vars, guiVars>>

View == [gen : 0..MaxGen, writes : Nat]
NoView == [gen |-> 0, writes |-> 0]
Current == [gen |-> sessionGen, writes |-> catalog]

AppInit ==
  /\ Init
  /\ session = "open" /\ sessionGen = 1 /\ lastGen = 1 /\ connection = TRUE
  /\ seen = 0 /\ rows = Current /\ detail = NoView
  /\ panic = "nobody" /\ orphans = 0

\* The GUI thread is free to run a frame.
Free == client \in {"idle", "closed"} /\ session = "open" /\ panic = "nobody"

-----------------------------------------------------------------------------
\* reload_rows: load the list; if the focused entry is no longer in it, drop
\* focus and detail.
ReloadRows == rows' = Current /\ detail' \in {detail, NoView}

\* LibrarySession::connection() when there is none.
Panics(who) == ~connection /\ panic' = who /\ UNCHANGED <<rows, detail>>

\* Mutant: events of every generation count.
AppliedAll == (seen + 1)..Len(events)

\* update: the undrained events, less those of another generation.
Applied == {i \in (seen + 1)..Len(events) : events[i].generation = sessionGen}

\* Mutant: only the last event of a frame is looked at.
ReloadOnLast == Len(events) \in Applied /\ events[Len(events)].kind = "LibraryChanged"

ReloadWanted == \E i \in Applied : events[i].kind = "LibraryChanged"

\* They are drained, and the rows reloaded if one was LibraryChanged.
Frame ==
  /\ Free /\ seen < Len(events)
  /\ seen' = Len(events)
  /\ \/ ReloadWanted /\ connection /\ ReloadRows /\ UNCHANGED panic
     \/ ReloadWanted /\ Panics("frame")
     \/ ~ReloadWanted /\ UNCHANGED <<rows, detail, panic>>
  /\ UNCHANGED <<vars, session, sessionGen, lastGen, connection, orphans>>

\* The Refresh button.
Refresh ==
  /\ Free
  /\ \/ connection /\ ReloadRows /\ UNCHANGED panic
     \/ Panics("user")
  /\ UNCHANGED <<vars, session, sessionGen, lastGen, connection, seen, orphans>>

\* A click on another row: drop the cached detail, and ensure_cache loads the
\* new one as the frame is drawn.
Focus ==
  /\ Free
  /\ \/ connection /\ detail' = Current /\ UNCHANGED <<rows, panic>>
     \/ Panics("user")
  /\ UNCHANGED <<vars, session, sessionGen, lastGen, connection, seen, orphans>>

\* The spawn_* functions of the GUI's backend read ids or track a folder
\* through the connection before they queue a job; cover art does not.
UserQueue ==
  /\ Free
  /\ \E kind \in Kinds, items \in 0..MaxItems :
       /\ kind = "asset" => items = 0
       /\ kind # "asset" => connection
       /\ QueueJob(kind, items)
  /\ UNCHANGED guiVars

\* A send or a join goes on while the GUI thread is blocked in it.
Blocked == (Send \/ SendRefused \/ SendShutdown \/ Join) /\ UNCHANGED guiVars

Work == WorkerNext /\ UNCHANGED guiVars

-----------------------------------------------------------------------------
(* Switching and resetting the database.                                   *)

\* open_db and reset_database on an open session: LibrarySession::reopen
\* first shuts the supervisor down (at once if it already is) ...
BeginReopen(why) ==
  /\ Free /\ lastGen < MaxGen
  /\ IF senderOpen THEN BeginShutdown ELSE UNCHANGED vars
  /\ session' = why
  /\ UNCHANGED <<sessionGen, lastGen, connection, seen, rows, detail, panic, orphans>>

\* ... and JobSupervisor::new replaces it once shutdown has returned.
NewSupervisor(g) ==
  /\ client' = "idle" /\ pending' = Shutdown /\ senderOpen' = TRUE
  /\ cancel' = FALSE /\ nextJob' = 1
  /\ queue' = <<>> /\ events' = <<>> /\ generation' = g
  /\ worker' = "starting" /\ current' = Shutdown
  /\ left' = 0 /\ found' = 0 /\ completed' = 0 /\ catalog' = 0
  /\ orphans' = orphans + (IF worker = "exited" THEN 0 ELSE 1)
  /\ session' = "open" /\ sessionGen' = g /\ lastGen' = g /\ connection' = TRUE
  /\ seen' = 0
  /\ rows' = [gen |-> g, writes |-> 0]
  /\ UNCHANGED panic

\* Mutant: shutdown returns before the join.
ReopenedEarly == client \in {"joining", "closed"} /\ session \in {"switching", "resetting"}

Reopened == client = "closed" /\ session \in {"switching", "resetting"}

\* reset_database clears every view; open_db reloads the rows, which drops the
\* focused entry only if the new database has no entry of that key. The scans
\* that open_db then queues, one per tracked folder, are UserQueue steps.
ReopenOk ==
  /\ Reopened
  /\ NewSupervisor(lastGen + 1)
  /\ detail' \in IF session = "resetting" THEN {NoView} ELSE {detail, NoView}

\* The file cannot be opened. reopen has already closed the connection and
\* taken a new generation; open_db then drops the session, reset_database
\* keeps it.
ReopenFails ==
  /\ Reopened
  /\ connection' = FALSE
  /\ sessionGen' = lastGen + 1 /\ lastGen' = lastGen + 1
  /\ session' = IF session = "resetting" THEN "open" ELSE "none"
  /\ UNCHANGED <<vars, seen, rows, detail, panic, orphans>>

\* LibrarySession::open or rebuild when the application has no session.
OpenFirst ==
  /\ session = "none" /\ lastGen < MaxGen
  /\ NewSupervisor(lastGen + 1)
  /\ detail' \in {detail, NoView}

-----------------------------------------------------------------------------
AppNext ==
  \/ Frame \/ Refresh \/ Focus \/ UserQueue \/ Blocked \/ Work
  \/ BeginReopen("switching") \/ BeginReopen("resetting")
  \/ ReopenOk \/ ReopenFails \/ OpenFirst

AppSpec == AppInit /\ [][AppNext]_appVars

-----------------------------------------------------------------------------
AppTypeOK ==
  /\ TypeOK
  /\ session \in {"open", "none", "switching", "resetting"}
  /\ sessionGen \in 1..MaxGen /\ lastGen \in 1..MaxGen /\ connection \in BOOLEAN
  /\ seen \in 0..Len(events)
  /\ rows \in View /\ detail \in View
  /\ panic \in {"nobody", "frame", "user"} /\ orphans \in Nat

\* "Background work is bounded, ... joined, and scoped to one database
\* generation": when a session is reopened, no worker of the old database is
\* left running beside the new one.
SingleMutator == orphans = 0

\* "Events from an older generation are ignored": a supervisor that outlives
\* its database (a failed reset) may still hold LibraryChanged events; draining
\* them must not touch the catalog, which is no longer open.
StaleEventsIgnored == panic # "frame"

\* Two generations never meet: no worker of the one beside the other's, no event of
\* the one in the other's frame.
GenerationsApart == AppTypeOK /\ SingleMutator /\ StaleEventsIgnored

\* When the worker has gone idle after a job that finished, and the GUI has
\* drained everything, the album list shows the catalog as it is.
RowsCatchUp ==
  /\ session = "open" /\ connection /\ client = "idle"
  /\ worker = "recv" /\ queue = <<>>
  /\ seen = Len(events) /\ seen > 0 /\ events[seen].kind = "Finished"
  => rows = Current

\* A drained LibraryChanged invalidates the detail cache (state.rs).
DetailInvalidated ==
  [][seen' > seen /\ rows' # rows => detail' \in {NoView, rows'}]_appVars

\* detail_cache is the payload of the focused entry of the open database (app.rs).
DetailOfOpenDatabase == session = "open" => detail.gen \in {0, sessionGen}

\* expect("open session connection") never fails.
ConnectionIsOpen == panic = "nobody"

\* "the GUI's Status column reflects the current phase in real time" (scan.rs):
\* once the GUI has drained what a finished item reported, its list shows it.
StatusColumnLive ==
  session = "open" /\ connection /\ worker = "item" /\ seen = Len(events) /\ completed > 0
    => rows = Current
=============================================================================
