----------------------------- MODULE RipLifecycle -----------------------------
(***************************************************************************)
(* The life of a rip file's row: phono-junk-lib/src/scan.rs (ingest, then  *)
(* identify), the row writes of identify.rs, phono-junk-db/src/cache.rs    *)
(* and the attempt markers and recovery of evidence.rs.                    *)
(*                                                                         *)
(* A program opens the database twice: LibrarySession holds a connection   *)
(* of its own ("session") and the worker thread of its JobSupervisor       *)
(* another ("worker"). Every SQL statement outside the one transaction     *)
(* commits by itself, so each is an action. The files change under the     *)
(* program's feet, and programs are killed and started again.              *)
(*                                                                         *)
(* Data abstracted: the (mtime, size) pair is a stamp that no two contents *)
(* of a file share; a disc is the TOC that its ids are computed from; a    *)
(* provider's answer is a match or none.                                   *)
(***************************************************************************)
EXTENDS Naturals, Sequences

CONSTANTS
  Programs,    \* programs that may have the database open
  Ingesters,   \* the connections that scan and identify
  Files,       \* the CUE and CHD files of the library
  Tocs,        \* disc contents, as told apart by their TOC ids
  None,        \* no disc, or no recorded state
  MaxStamp,    \* bound: edits of one file
  MaxRows,     \* bound: rip_files rows
  MaxAttempts, \* bound: identification attempts
  MaxCrashes   \* bound: times programs are killed

Conns == Programs \X {"session", "worker"}

ASSUME IngestersAssumption == Ingesters \subseteq Conns
ASSUME DataAssumption == Files # {} /\ Tocs # {} /\ None \notin Tocs
ASSUME BoundsAssumption ==
  MaxStamp \in Nat /\ MaxRows \in Nat /\ MaxAttempts \in Nat /\ MaxCrashes \in Nat

VARIABLES
  disk,      \* file -> its stamp and contents
  rows,      \* the rip_files table, by row id
  discs,     \* the discs table, by TOC
  attempts,  \* identification_attempts, by id: their status
  pc,        \* connection -> the statement it is at
  local,     \* connection -> the local variables of the function it runs
  crashes

vars == <<disk, rows, discs, attempts, pc, local, crashes>>

IdentificationState ==
  {"unscanned", "queued", "working", "identified", "unidentified", "failed"}
RipFile == [file : Files, stamp : Nat, disc : Tocs \cup {None}, state : IdentificationState]

\* The locals: the file and its stat, the row id, existing_state, the row as
\* last read, the TOC read from the file, the attempt, the request's options.
Locals == [file : Files, stamp : Nat, id : Nat, keep : IdentificationState \cup {None},
           copy : RipFile, toc : Tocs, attempt : Nat, identify : BOOLEAN, force : BOOLEAN]

\* Between two requests there are none.
AnyFile == CHOOSE f \in Files : TRUE
AnyToc == CHOOSE t \in Tocs : TRUE
NoRow == [file |-> AnyFile, stamp |-> 0, disc |-> None, state |-> "unscanned"]
NoLocals == [file |-> AnyFile, stamp |-> 0, id |-> 0, keep |-> None, copy |-> NoRow,
             toc |-> AnyToc, attempt |-> 0, identify |-> FALSE, force |-> FALSE]

Recovering == {"recover", "recoverAttempts"}
Ingesting == {"lookup", "keep", "find", "upsert"}
Identifying == {"read", "match", "ask", "copyLink", "link", "commit", "copyUnmark", "unmark",
                "close", "sidecar", "identified", "unidentified", "failed"}

\* find_by_path: a row of the path, if there is one (LIMIT 1, in no order).
RowsOf(f) == {i \in 1..Len(rows) : rows[i].file = f}
FindByPath(f) == IF RowsOf(f) = {} THEN 0 ELSE CHOOSE i \in RowsOf(f) : TRUE

\* lookup_cached: the row of the path, if it carries the file's stamp.
LookupCached(f, stamp) ==
  LET i == FindByPath(f) IN IF i # 0 /\ rows[i].stamp = stamp THEN i ELSE 0

Init ==
  /\ disk \in [Files -> [stamp : {0}, toc : Tocs]]
  /\ rows = <<>> /\ discs = {} /\ attempts = <<>>
  /\ pc = [c \in Conns |-> "down"]
  /\ local = [c \in Conns |-> NoLocals]
  /\ crashes = 0

-----------------------------------------------------------------------------
(* Starting, recovering, being killed.                                     *)

\* LibrarySession::open recovers over its own connection; the worker that it
\* then spawns opens another one and recovers again, while the session is in
\* use already.
Open(c) ==
  /\ pc[c] = "down"
  /\ c[2] = "worker" => pc[<<c[1], "session">>] \notin {"down"} \cup Recovering
  /\ pc' = [pc EXCEPT ![c] = "recover"]
  /\ UNCHANGED <<disk, rows, discs, attempts, local, crashes>>

\* Mutant: only the attempts are recovered.
RecoverRipsNot(c) ==
  /\ pc[c] = "recover"
  /\ pc' = [pc EXCEPT ![c] = "recoverAttempts"]
  /\ UNCHANGED <<disk, rows, discs, attempts, local, crashes>>

RecoverRips(c) ==
  /\ pc[c] = "recover"
  /\ rows' = [i \in DOMAIN rows |->
                IF rows[i].state = "working" THEN [rows[i] EXCEPT !.state = "queued"] ELSE rows[i]]
  /\ pc' = [pc EXCEPT ![c] = "recoverAttempts"]
  /\ UNCHANGED <<disk, discs, attempts, local, crashes>>

\* Mutant: WHERE status = 'working' is missing.
RecoverAllAttempts(c) ==
  /\ pc[c] = "recoverAttempts"
  /\ attempts' = [a \in DOMAIN attempts |-> "interrupted"]
  /\ pc' = [pc EXCEPT ![c] = "idle"]
  /\ UNCHANGED <<disk, rows, discs, local, crashes>>

RecoverAttempts(c) ==
  /\ pc[c] = "recoverAttempts"
  /\ attempts' = [a \in DOMAIN attempts |->
                    IF attempts[a] = "working" THEN "interrupted" ELSE attempts[a]]
  /\ pc' = [pc EXCEPT ![c] = "idle"]
  /\ UNCHANGED <<disk, rows, discs, local, crashes>>

\* The process of a program is killed: both its connections are gone, and a
\* transaction that had not committed never happened.
Crash(p) ==
  /\ pc[<<p, "session">>] # "down" /\ crashes < MaxCrashes
  /\ crashes' = crashes + 1
  /\ pc' = [c \in Conns |-> IF c[1] = p THEN "down" ELSE pc[c]]
  /\ local' = [c \in Conns |-> IF c[1] = p THEN NoLocals ELSE local[c]]
  /\ UNCHANGED <<disk, rows, discs, attempts>>

\* Somebody rewrites a file.
Edit(f) ==
  /\ disk[f].stamp < MaxStamp
  /\ \E t \in Tocs : disk' = [disk EXCEPT ![f] = [stamp |-> disk[f].stamp + 1, toc |-> t]]
  /\ UNCHANGED <<rows, discs, attempts, pc, local, crashes>>

-----------------------------------------------------------------------------
(* ingest_metadata.                                                        *)

Goto(c, where) == pc' = [pc EXCEPT ![c] = where]
Continue(c, where) == Goto(c, where) /\ UNCHANGED local
Return(c) == Goto(c, "idle") /\ local' = [local EXCEPT ![c] = NoLocals]
Database == <<rows, discs, attempts>>

\* std::fs::metadata.
StatFile(c, f, identify, force) ==
  /\ pc[c] = "idle" /\ c \in Ingesters
  /\ FindByPath(f) # 0 \/ Len(rows) < MaxRows
  /\ local' = [local EXCEPT ![c].file = f, ![c].stamp = disk[f].stamp,
                            ![c].identify = identify, ![c].force = force]
  /\ Goto(c, "lookup")
  /\ UNCHANGED <<disk, Database, crashes>>

\* The row that an unforced request takes for a cache hit: file unchanged and
\* a disc attached.
Hit(c) ==
  LET i == LookupCached(local[c].file, local[c].stamp)
  IN  IF ~local[c].force /\ i # 0 /\ rows[i].disc # None THEN i ELSE 0

CacheHit(c) ==
  /\ pc[c] = "lookup" /\ Hit(c) # 0
  /\ Return(c)
  /\ UNCHANGED <<disk, Database, crashes>>

\* Not cached: the TOC is read, if only to see that it can be.
CacheMiss(c) ==
  /\ pc[c] = "lookup" /\ Hit(c) = 0
  /\ \/ Continue(c, "keep")
     \/ Return(c)   \* a TOC error: the file is skipped
  /\ UNCHANGED <<disk, Database, crashes>>

\* Mutant: the state is looked up by path, whatever the stamp.
ReadStateOfPath(c) ==
  /\ pc[c] = "keep"
  /\ LET i == FindByPath(local[c].file)
     IN  local' = [local EXCEPT ![c].keep = IF i = 0 THEN None ELSE rows[i].state]
  /\ Goto(c, "find")
  /\ UNCHANGED <<disk, Database, crashes>>

ReadExistingState(c) ==
  /\ pc[c] = "keep"
  /\ LET i == LookupCached(local[c].file, local[c].stamp)
     IN  local' = [local EXCEPT ![c].keep = IF i = 0 THEN None ELSE rows[i].state]
  /\ Goto(c, "find")
  /\ UNCHANGED <<disk, Database, crashes>>

\* Mutant: the row of the path is not looked for.
FindNoRow(c) == pc[c] = "find" /\ Continue(c, "upsert") /\ UNCHANGED <<disk, Database, crashes>>

\* upsert_rip_file, first statement.
FindRow(c) ==
  /\ pc[c] = "find"
  /\ local' = [local EXCEPT ![c].id = FindByPath(local[c].file)]
  /\ Goto(c, "upsert")
  /\ UNCHANGED <<disk, Database, crashes>>

\* Mutant: unwrap_or(Unscanned) is missing.
NewStateUnwrapped(l) == IF l.identify \/ l.force THEN "queued" ELSE l.keep

NewState(l) ==
  IF l.identify \/ l.force THEN "queued" ELSE IF l.keep = None THEN "unscanned" ELSE l.keep

\* Mutant: an existing row keeps its disc.
NewRowKeepsDisc(l) ==
  [file |-> l.file, stamp |-> l.stamp, state |-> NewState(l),
   disc |-> IF l.id = 0 THEN None ELSE rows[l.id].disc]

NewRow(l) == [file |-> l.file, stamp |-> l.stamp, disc |-> None, state |-> NewState(l)]

\* Its second: an existing row keeps its id and nothing else.
UpsertRow(c) ==
  /\ pc[c] = "upsert"
  /\ rows' = IF local[c].id = 0
               THEN Append(rows, NewRow(local[c]))
               ELSE [rows EXCEPT ![local[c].id] = NewRow(local[c])]
  /\ Return(c)
  /\ UNCHANGED <<disk, discs, attempts, crashes>>

-----------------------------------------------------------------------------
(* identify_one and the statements of identify_disc that touch the row.    *)

\* get_rip_file, of which only the path is used, and the row is Working.
BeginIdentify(c, i, force) ==
  /\ pc[c] = "idle" /\ c \in Ingesters /\ Len(attempts) < MaxAttempts
  /\ local' = [local EXCEPT ![c].id = i, ![c].file = rows[i].file, ![c].force = force]
  /\ rows' = [rows EXCEPT ![i].state = "working"]
  /\ Goto(c, "read")
  /\ UNCHANGED <<disk, discs, attempts, crashes>>

ReadToc(c) ==
  /\ pc[c] = "read"
  /\ \/ /\ local' = [local EXCEPT ![c].toc = disk[local[c].file].toc]
        /\ Goto(c, "match")
     \/ Continue(c, "failed")
  /\ UNCHANGED <<disk, Database, crashes>>

\* find_disc_by_ids: a catalogued disc is linked without asking anybody.
MatchCatalog(c) ==
  /\ pc[c] = "match" /\ ~local[c].force /\ local[c].toc \in discs
  /\ Continue(c, "copyLink")
  /\ UNCHANGED <<disk, Database, crashes>>

StartAttempt(c) ==
  /\ pc[c] = "match" /\ (local[c].force \/ local[c].toc \notin discs)
  /\ attempts' = Append(attempts, "working")
  /\ local' = [local EXCEPT ![c].attempt = Len(attempts) + 1]
  /\ Goto(c, "ask")
  /\ UNCHANGED <<disk, rows, discs, crashes>>

\* The providers have answered. Storing what they said may fail, and leaves
\* the attempt as it is.
Answer(c) ==
  /\ pc[c] = "ask"
  /\ \E next \in {"commit", "copyUnmark", "failed"} : Continue(c, next)
  /\ UNCHANGED <<disk, Database, crashes>>

\* cached_outcome and mark_unidentified read the row, change two fields of
\* the copy and write it back whole.
CopyRow(c) ==
  /\ pc[c] \in {"copyLink", "copyUnmark"}
  /\ local' = [local EXCEPT ![c].copy = rows[local[c].id]]
  /\ Goto(c, IF pc[c] = "copyLink" THEN "link" ELSE "unmark")
  /\ UNCHANGED <<disk, Database, crashes>>

LinkRow(c) ==
  /\ pc[c] = "link"
  /\ rows' = [rows EXCEPT ![local[c].id] = [local[c].copy EXCEPT !.disc = local[c].toc]]
  /\ Continue(c, "sidecar")
  /\ UNCHANGED <<disk, discs, attempts, crashes>>

UnmarkRow(c) ==
  /\ pc[c] = "unmark"
  /\ rows' = [rows EXCEPT ![local[c].id] = [local[c].copy EXCEPT !.disc = None]]
  /\ Continue(c, "close")
  /\ UNCHANGED <<disk, discs, attempts, crashes>>

Close(a, status) == attempts' = [attempts EXCEPT ![a] = status]

CloseUnidentified(c) ==
  /\ pc[c] = "close"
  /\ Close(local[c].attempt, "unidentified")
  /\ Continue(c, "unidentified")
  /\ UNCHANGED <<disk, rows, discs, crashes>>

\* The transaction: the disc, the row and the attempt together, or nothing
\* (a constraint, or another connection wrote since its first read).
Commit(c) ==
  /\ pc[c] = "commit"
  /\ \/ /\ discs' = discs \cup {local[c].toc}
        /\ rows' = [rows EXCEPT ![local[c].id].disc = local[c].toc]
        /\ Close(local[c].attempt, "resolved")
        /\ Continue(c, "sidecar")
     \/ UNCHANGED Database /\ Continue(c, "failed")
  /\ UNCHANGED <<disk, crashes>>

\* apply_sidecar_to_catalog; an error fails the identification after all.
ApplySidecar(c) ==
  /\ pc[c] = "sidecar"
  /\ Continue(c, "identified") \/ Continue(c, "failed")
  /\ UNCHANGED <<disk, Database, crashes>>

\* Whatever the outcome, its state is written to the row.
Outcomes == {"identified", "unidentified", "failed"}

\* Mutant: an error returns before the state is written.
FinishIfOk(c) ==
  /\ pc[c] \in Outcomes
  /\ rows' = IF pc[c] = "failed" THEN rows ELSE [rows EXCEPT ![local[c].id].state = pc[c]]
  /\ Return(c)
  /\ UNCHANGED <<disk, discs, attempts, crashes>>

FinishIdentify(c) ==
  /\ pc[c] \in Outcomes
  /\ rows' = [rows EXCEPT ![local[c].id].state = pc[c]]
  /\ Return(c)
  /\ UNCHANGED <<disk, discs, attempts, crashes>>

-----------------------------------------------------------------------------
Request(c) ==
  \/ \E f \in Files, identify, force \in BOOLEAN : StatFile(c, f, identify, force)
  \/ \E i \in 1..Len(rows), force \in BOOLEAN : BeginIdentify(c, i, force)

Ingest(c) ==
  CacheHit(c) \/ CacheMiss(c) \/ ReadExistingState(c) \/ FindRow(c) \/ UpsertRow(c)

Identify(c) ==
  \/ ReadToc(c) \/ MatchCatalog(c) \/ StartAttempt(c) \/ Answer(c) \/ CopyRow(c)
  \/ LinkRow(c) \/ UnmarkRow(c) \/ CloseUnidentified(c) \/ Commit(c)
  \/ ApplySidecar(c) \/ FinishIdentify(c)

Recover(c) == RecoverRips(c) \/ RecoverAttempts(c)

Next ==
  \/ \E c \in Conns : Open(c) \/ Recover(c) \/ Request(c) \/ Ingest(c) \/ Identify(c)
  \/ \E p \in Programs : Crash(p)
  \/ \E f \in Files : Edit(f)

Spec == Init /\ [][Next]_vars

\* A started function runs on, and a program that was killed is started again.
FairSpec == Spec /\ \A c \in Conns : WF_vars(Open(c) \/ Recover(c) \/ Ingest(c) \/ Identify(c))

-----------------------------------------------------------------------------
RipTypeOK ==
  /\ disk \in [Files -> [stamp : Nat, toc : Tocs]]
  /\ rows \in Seq(RipFile)
  /\ discs \subseteq Tocs
  /\ attempts \in Seq({"working", "resolved", "unidentified", "interrupted"})
  /\ pc \in [Conns -> {"down", "idle"} \cup Recovering \cup Ingesting \cup Identifying]
  /\ local \in [Conns -> Locals]
  /\ crashes \in Nat

\* "A cached row is valid iff the current on-disk (mtime, size) pair matches
\* the stored pair" (cache.rs): a row that carries the stamp of the file as it
\* is links, if anything, the disc that the file holds.
CacheSound ==
  \A i \in 1..Len(rows) :
    rows[i].disc # None /\ rows[i].stamp = disk[rows[i].file].stamp =>
      rows[i].disc = disk[rows[i].file].toc

\* "Identified: disc_id is set" (IdentificationState). The album list needs
\* the disc, the list of unidentified rips leaves such a row out: with one and
\* not the other the rip is in neither.
IdentifiedHasDisc ==
  \A i \in 1..Len(rows) : rows[i].state = "identified" => rows[i].disc # None

\* "Working: an identify worker is currently running providers for this rip"
\* (IdentificationState), unless it was killed and nobody has recovered yet.
Running(i) == \E c \in Conns : pc[c] \in Identifying /\ local[c].id = i
WorkingMeansRunning ==
  \A i \in 1..Len(rows) : rows[i].state = "working" =>
    Running(i) \/ \E c \in Conns : pc[c] \in {"down", "recover"}

\* "Working: visible to the GUI Status column for the duration of provider
\* fan-out" (scan.rs).
WorkingForTheDuration ==
  \A c \in Conns : pc[c] \in Identifying => rows[local[c].id].state = "working"

\* "Provider evidence is append-only": a closed attempt is not touched again.
EvidenceAppendOnly ==
  [][\A a \in DOMAIN attempts : attempts[a] # "working" => attempts'[a] = attempts[a]]_vars

\* "Insert or update a rip-file row keyed on cue_path" (cache.rs): a file has
\* one row.
OneRowPerFile == \A i, j \in 1..Len(rows) : rows[i].file = rows[j].file => i = j

\* A row means what it says: of one file, Identified as a disc, or at work.
RowsMeanWhatTheySay == IdentifiedHasDisc /\ WorkingMeansRunning /\ OneRowPerFile

\* "Cached: rip was already identified and the (mtime, size) pair matched"
\* (MetadataOutcome): a rescan passes over no row that still needs work.
CachedIsIdentified ==
  \A c \in Conns : pc[c] = "lookup" /\ Hit(c) # 0 => rows[Hit(c)].state = "identified"

\* "Preserve an existing row's terminal state (Identified / Unidentified) when
\* the file changed but we don't want to bump it back to Queued" (scan.rs).
TerminalStatePreserved ==
  [][\A c \in Conns :
       pc[c] = "upsert" /\ pc'[c] = "idle" /\ local[c].id # 0
         /\ ~local[c].identify /\ ~local[c].force
         /\ rows[local[c].id].state \in {"identified", "unidentified"}
       => rows'[local[c].id].state = rows[local[c].id].state]_vars

\* No row is Working for ever, whoever is killed when.
Working(i) == i \in DOMAIN rows /\ rows[i].state = "working"
WorkingEnds == \A i \in 1..MaxRows : Working(i) ~> ~Working(i)
=============================================================================
