------------------------------ MODULE Verification ------------------------------
(***************************************************************************)
(* The verification of a rip (PhonoContext::verify_disc in                 *)
(* phono-junk-lib/src/verify.rs) and the evidence it leaves                *)
(* (phono-junk-db/src/evidence.rs).                                        *)
(*                                                                         *)
(* Every statement commits by itself. A verification that fails on the way *)
(* or is killed leaves a run 'working', which recover_interrupted_work     *)
(* closes when a program opens the catalog, whoever the run belongs to.    *)
(*                                                                         *)
(* One rip row, linked to a disc; the file it names may be rewritten and   *)
(* identified anew. A rip is its tracks, as in OffsetSearch.               *)
(***************************************************************************)
EXTENDS OffsetSearch

CONSTANTS
  Users,     \* the connections that verify
  Contents,  \* what the file may contain
  Bodies,    \* what the service may answer with; a body names the disc it is for
  MaxRuns,   \* bound: the rows of verification_runs
  Ids(_)     \* the disc ids of a rip

\* Tracks have a number and samples; a body is numbers, each below Word.
ASSUME ContentsAssumption == Contents \subseteq Seq([position : Nat, samples : Seq(0 .. (Word - 1))])
ASSUME BodiesAssumption == Bodies \subseteq Seq(0 .. (Word - 1))

VARIABLES
  file,     \* the rip
  disc,     \* the ids of the disc the row is linked to, or None
  dbars,    \* dbar_responses: [disc, body], the id is the position
  runs,     \* verification_runs with their track_verifications
  job       \* the verification that each user has in progress

vars == <<file, disc, dbars, runs, job>>

Idle == [at |-> "idle"]
Down == [at |-> "down"]

Init == /\ file \in Contents
        /\ disc = None
        /\ dbars = <<>>
        /\ runs = <<>>
        /\ job = [u \in Users |-> Down]

-----------------------------------------------------------------------------
(* What a verification stores.                                             *)

\* A row of track_verifications.
Row(track) ==
  [position |-> track.position, computed |-> track.computed, best |-> BestMatch(track),
   shift |-> track.shift, frame450 |-> track.frame450, status |-> track.status]

NoDataTracks(tracks) ==
  [i \in DOMAIN tracks |->
    [position |-> tracks[i].position,
     computed |-> TrackCrcSamples(tracks[i].samples, DiscPosition(i, Len(tracks))),
     v1Matches |-> {}, v2Matches |-> {}, shift |-> None, frame450 |-> FALSE,
     status |-> "no_data"]]

Verdict(summary) ==
  [status |-> summary.status, shift |-> summary.shift, ambiguous |-> summary.ambiguous,
   rows |-> [i \in DOMAIN summary.tracks |-> Row(summary.tracks[i])]]

WholeBodies == {body \in Bodies : Parse(body) # None}

\* What comes of a rip: the service has no file for its disc, or a dBAR file.
Result(tracks, body) ==
  Verdict(IF body = None
            THEN Summary("no_data", None, NoDataTracks(tracks), {})
            ELSE VerifyWithOffsets(Parse(body), tracks, DefaultMaxSampleShift))

-----------------------------------------------------------------------------
(* One verification, statement by statement.                               *)

At(u, place) == job[u].at = place

To(u, facts) == job' = [job EXCEPT ![u] = facts]

\* What a verification knows once the service has answered.
Facts(place, d, tracks, body, dbar) ==
  [at |-> place, disc |-> d, tracks |-> tracks, body |-> body, dbar |-> dbar]

\* A body that is truncated, or belongs to another disc, is an error.
Usable(body) ==
  body \in WholeBodies /\ ValidRequest(Parse(body), Len(file), disc)

\* resolve_target, ids_from_disc, load_layouts, load_disc_pcm and fetch_dbar_evidence:
\* the disc is the one that the row is linked to, the tracks are what the file now
\* has, and nothing is written before the service has answered. 404 is an answer,
\* every other status but 200 an error.
Begin(u) ==
  /\ At(u, "idle") /\ disc # None
  /\ \/ To(u, Facts("unlisted", disc, file, None, None))
     \/ \E body \in Bodies : /\ Usable(body)
                             /\ To(u, Facts("fetched", disc, file, body, None))
  /\ UNCHANGED <<file, disc, dbars, runs>>

Same(u, i) == dbars[i] = [disc |-> job[u].disc, body |-> job[u].body]

Stored(u) == {i \in DOMAIN dbars : Same(u, i)}

ToStored(u, dbar) == To(u, Facts("stored", job[u].disc, job[u].tracks, job[u].body, dbar))

\* Mutant: the id is that of the last row inserted.
InsertDbarResponseLast(u) ==
  /\ At(u, "fetched")
  /\ dbars' = IF Stored(u) # {} THEN dbars
              ELSE Append(dbars, [disc |-> job[u].disc, body |-> job[u].body])
  /\ ToStored(u, Len(dbars'))
  /\ UNCHANGED <<file, disc, runs>>

\* A body that is there already is not stored again.
InsertDbarResponse(u) ==
  /\ At(u, "fetched")
  /\ IF Stored(u) # {}
       THEN ToStored(u, CHOOSE i \in Stored(u) : TRUE) /\ UNCHANGED dbars
       ELSE /\ dbars' = Append(dbars, [disc |-> job[u].disc, body |-> job[u].body])
            /\ ToStored(u, Len(dbars'))
  /\ UNCHANGED <<file, disc, runs>>

\* The verdict is computed in memory; question and result are not columns.
NewRun(facts) ==
  [dbar |-> facts.dbar, status |-> "working", finished |-> FALSE, shift |-> None,
   ambiguous |-> {}, rows |-> <<>>, question |-> <<facts.tracks, facts.body>>,
   result |-> Result(facts.tracks, facts.body)]

StartVerificationRun(u) ==
  /\ At(u, "stored") \/ At(u, "unlisted")
  /\ Len(runs) < MaxRuns
  /\ runs' = Append(runs, NewRun(job[u]))
  /\ To(u, [at |-> "started", run |-> Len(runs')])
  /\ UNCHANGED <<file, disc, dbars>>

\* One statement for each track.
WithRow(run) == [run EXCEPT !.rows = Append(@, run.result.rows[Len(run.rows) + 1])]

InsertTrackVerification(u) ==
  /\ At(u, "started")
  /\ Len(runs[job[u].run].rows) < Len(runs[job[u].run].result.rows)
  /\ runs' = [runs EXCEPT ![job[u].run] = WithRow(@)]
  /\ UNCHANGED <<file, disc, dbars, job>>

Finished(run) ==
  [run EXCEPT !.status = run.result.status, !.finished = TRUE, !.shift = run.result.shift,
              !.ambiguous = run.result.ambiguous]

\* Mutant: the run is finished before its tracks are stored.
FinishAnyTime(u) ==
  /\ At(u, "started")
  /\ runs' = [runs EXCEPT ![job[u].run] = Finished(@)]
  /\ To(u, Idle)
  /\ UNCHANGED <<file, disc, dbars>>

FinishVerificationRun(u) ==
  /\ At(u, "started")
  /\ Len(runs[job[u].run].rows) = Len(runs[job[u].run].result.rows)
  /\ runs' = [runs EXCEPT ![job[u].run] = Finished(@)]
  /\ To(u, Idle)
  /\ UNCHANGED <<file, disc, dbars>>

\* The file, the service or a statement fails.
Fail(u) ==
  /\ job[u].at \notin {"idle", "down"}
  /\ To(u, Idle)
  /\ UNCHANGED <<file, disc, dbars, runs>>

-----------------------------------------------------------------------------
(* The program and the world.                                              *)

Interrupted(run) ==
  IF run.status = "working" THEN [run EXCEPT !.status = "interrupted", !.finished = TRUE] ELSE run

Open(u) ==
  /\ At(u, "down")
  /\ To(u, Idle)
  /\ runs' = [i \in DOMAIN runs |-> Interrupted(runs[i])]
  /\ UNCHANGED <<file, disc, dbars>>

Crash(u) ==
  /\ ~At(u, "down")
  /\ To(u, Down)
  /\ UNCHANGED <<file, disc, dbars, runs>>

\* The file is ripped anew.
Edit == file' \in Contents \ {file} /\ UNCHANGED <<disc, dbars, runs, job>>

\* A rescan and an identification. Between the two the row is linked to no disc,
\* and no verification begins.
Identify == disc' = Ids(file) /\ disc' # disc /\ UNCHANGED <<file, dbars, runs, job>>

Next ==
  \/ \E u \in Users : \/ Begin(u)
                      \/ InsertDbarResponse(u) \/ StartVerificationRun(u)
                      \/ InsertTrackVerification(u) \/ FinishVerificationRun(u)
                      \/ Fail(u) \/ Open(u) \/ Crash(u)
  \/ Edit
  \/ Identify

Spec == Init /\ [][Next]_vars

-----------------------------------------------------------------------------
(* What a reader of the rip row sees: its last finished run.               *)

FinishedRuns == {i \in DOMAIN runs : runs[i].finished}

LatestStatus == IF FinishedRuns = {} THEN None ELSE runs[Max(FinishedRuns)].status

-----------------------------------------------------------------------------
(* Properties.                                                             *)

Statuses == {"working", "interrupted", "verified", "mismatched", "no_data", "ambiguous_offsets"}

\* Every row that names a pressing can be traced: the response that the run refers
\* to is stored for a disc of the rip, and lists that checksum with that confidence
\* for that track (insert_dbar_response, persist_track_verification).
TracesToBody ==
  /\ \A i \in DOMAIN dbars : Parse(dbars[i].body) # None
  /\ \A i, j \in DOMAIN dbars : dbars[i] = dbars[j] => i = j
  /\ \A run \in {runs[i] : i \in DOMAIN runs} :
       /\ run.status \in Statuses
       /\ run.dbar # None => run.dbar \in DOMAIN dbars
       /\ \A row \in {r \in {run.rows[k] : k \in DOMAIN run.rows} : r.best # None} :
            LET listed == Expected(Parse(dbars[run.dbar].body), row.best.pressing, row.position)
            IN  /\ listed.checksum = row.best.checksum
                /\ listed.confidence = row.best.confidence
                /\ row.best.checksum \in {row.computed.v1, row.computed.v2}

\* A verdict is whole if it is the one that was computed, rows and all; it then
\* stands for its question.
Whole(run) ==
  run.result = [status |-> run.status, shift |-> run.shift, ambiguous |-> run.ambiguous,
                rows |-> run.rows]

Entry(run) ==
  [state |-> CASE ~run.finished -> "pending"
               [] run.finished /\ run.status = "interrupted" -> "given up"
               [] OTHER -> "published",
   verdict |-> IF run.finished /\ Whole(run) THEN run.question ELSE None]

\* Readers, who look at finished runs only, see every verdict whole and unchanging,
\* though its rows are separate statements, verifications are killed between any
\* two of them, and programs recover each other's runs (verify_disc_with_options).
Log == INSTANCE VerdictLog WITH
         Verdicts <- Contents \X (WholeBodies \cup {None}),
         log <- [i \in DOMAIN runs |-> Entry(runs[i])]

ImplementsVerdictLog == Log!Spec

\* A run that was closed stays closed: what recover_interrupted_work is for
\* ("process-local work markers after an unclean shutdown", evidence.rs:243).
ClosedRunsStayClosed ==
  [][\A i \in DOMAIN runs : runs[i].finished => runs'[i] = runs[i]]_vars

\* A rip that is shown as verified is one that was verified as it is.
ShownIsCurrent ==
  LatestStatus = "verified" /\ disc = Ids(file) =>
    \E body \in WholeBodies : Result(file, body).status = "verified"
=============================================================================
