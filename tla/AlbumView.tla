-------------------------------- MODULE AlbumView --------------------------------
(***************************************************************************)
(* What the user of the desktop application sees and points at: the album  *)
(* list with its filters, order and selection, and the detail panel with   *)
(* its cover (phono-junk-gui/src/app.rs, views/album_list.rs,              *)
(* views/detail.rs), over libraries that a worker changes.                 *)
(*                                                                         *)
(* A frame drains the session's events and then draws, from the top: the   *)
(* bars, the panel and the table; in each the user may do one thing. The   *)
(* worker is LibraryApp's, of which only the results that the GUI looks at *)
(* are kept; a reset that fails is in LibraryApp too.                      *)
(***************************************************************************)
EXTENDS AlbumList, TLC

CONSTANTS
  Databases,
  Libraries,    \* database -> the states that it goes through, from empty; with
                \* covers: album -> the covers of its releases, asset ids
  Filters,      \* what the user may ask the list for, but the year
  YearTexts,    \* what the user may type for a year, <<>> for nothing
  SortKeys,     \* the columns whose headers are clicked
  MaxSessions,  \* bounds the sessions opened in one run of the program
  MaxFetches    \* bounds the covers on their way at once

VARIABLES
  part,        \* of the frame, which is next
  database,    \* the open one, or None
  generation,  \* LibrarySession::generation
  stage,       \* how far each library has come
  jobs,        \* covers that the worker is to fetch, <<database, asset>>
  events,      \* events that are not drained
  filters, yearError, sorting,
  list         \* what is loaded, and what the user has pointed at in it:
               \* entries, selected, anchor, focused, detailOpen, detail

vars == <<part, database, generation, stage, jobs, events, filters, yearError, sorting, list>>

\* The selected keys, with the session (a history) in which each was selected.
NoKeys == <<>>

Init ==
  /\ part = "events"
  /\ database \in Databases /\ generation = 1
  /\ stage = [d \in Databases |-> 1]
  /\ jobs = <<>> /\ events = <<>>
  /\ filters = [artist |-> None, year |-> None, country |-> None, label |-> None,
                unidentified |-> TRUE, otherRipper |-> FALSE]
  /\ yearError = FALSE
  /\ sorting = [key |-> "title", dir |-> "Asc"]
  /\ list = [entries |-> LoadListEntries(Libraries[database][1]), selected |-> NoKeys,
             anchor |-> None, focused |-> None, detailOpen |-> FALSE, detail |-> None]

Library(d) == Libraries[d][stage[d]]

At(p) == part = p
Then(p) == part' = p

-----------------------------------------------------------------------------
(* Loading rows.                                                           *)

\* Mutant: rows are loaded and nothing else.
Listed(l, entries) == [l EXCEPT !.entries = entries]

\* reload_rows: what is no longer in the list is no longer pointed at.
Reloaded(l, entries) ==
  LET valid == Keys(entries)
      gone == l.focused # None /\ l.focused \notin valid
  IN  [l EXCEPT
        !.entries = entries,
        !.selected = [k \in DOMAIN @ \cap valid |-> @[k]],
        !.anchor = IF @ \in valid THEN @ ELSE None,
        !.focused = IF gone THEN None ELSE @,
        !.detail = IF gone THEN None ELSE @]

\* Mutant: what has been fetched is the panel's.
AnyCover(detail, asset) == detail # None

\* matches_focus: the asset is a cover of the album in the panel.
IsFocused(detail, asset) ==
  detail # None /\ \E i \in DOMAIN detail.covers : detail.covers[i][2] = asset

Heard(l, e) ==
  CASE e.kind = "LibraryChanged" -> Reloaded(l, LoadListEntries(Library(database)))
    [] e.kind = "AssetCached" /\ IsFocused(l.detail, e.asset[2]) ->
         [l EXCEPT !.detail.art = e.asset, !.detail.loading = FALSE, !.detail.error = FALSE]
    [] e.kind = "AssetCacheFailed" /\ IsFocused(l.detail, e.asset[2]) ->
         [l EXCEPT !.detail.loading = FALSE, !.detail.error = TRUE]
    [] OTHER -> l

\* update. The events of a session end with it.
Drain ==
  /\ At("events") /\ Then("bars")
  /\ list' = FoldLeft(Heard, list, events)
  /\ events' = <<>>
  /\ UNCHANGED <<database, generation, stage, jobs, filters, yearError, sorting>>

-----------------------------------------------------------------------------
(* The bars.                                                               *)

Opens == At("bars") /\ Then("panel") /\ generation < MaxSessions /\ generation' = generation + 1

\* A session's jobs and events go with it.
Dropped == jobs' = <<>> /\ events' = <<>>

Unselected(l) == [l EXCEPT !.selected = NoKeys, !.anchor = None]

\* open_db
OpenDb(d) ==
  /\ Opens /\ Dropped /\ database' = d
  /\ list' = Reloaded(Unselected(list), LoadListEntries(Library(d)))
  /\ UNCHANGED <<stage, filters, yearError, sorting>>

OpenDbFails ==
  /\ Opens /\ Dropped /\ database' = None
  /\ list' = Unselected(list)
  /\ UNCHANGED <<stage, filters, yearError, sorting>>

\* reset_database, of the file that is open.
ResetDatabase ==
  /\ Opens /\ Dropped /\ database # None /\ UNCHANGED database
  /\ stage' = [stage EXCEPT ![database] = 1]
  /\ list' = Reloaded([Unselected(list) EXCEPT !.focused = None, !.detail = None],
                      LoadListEntries(Libraries[database][1]))
  /\ UNCHANGED <<filters, yearError, sorting>>

View == SortEntries(FilterEntries(list.entries, filters), sorting.key, sorting.dir)

\* selection_bar
SelectAllVisible(l) ==
  LET visible == Keys(FilterEntries(l.entries, filters))
  IN  [l EXCEPT !.selected = [k \in visible |-> generation] @@ @]

\* What the other buttons do to the list, Refresh among them.
Buttons ==
  {[list EXCEPT !.detailOpen = ~@], SelectAllVisible(list), Unselected(list)}
    \cup (IF database = None THEN {} ELSE {Reloaded(list, LoadListEntries(Library(database)))})

PressButton ==
  /\ At("bars") /\ Then("panel") /\ list' \in Buttons
  /\ UNCHANGED <<database, generation, stage, jobs, events, filters, yearError, sorting>>

\* filter_bar
SetFilter(f) ==
  /\ At("bars") /\ Then("panel")
  /\ filters' = f @@ [year |-> filters.year]
  /\ UNCHANGED <<database, generation, stage, jobs, events, yearError, sorting, list>>

\* apply_year_filter: what cannot be read is no filter.
ApplyYearFilter(text) ==
  /\ At("bars") /\ Then("panel")
  /\ filters' = [filters EXCEPT !.year = IF text = <<>> THEN None ELSE ParseYear(text)]
  /\ yearError' = (text # <<>> /\ ParseYear(text) = None)
  /\ UNCHANGED <<database, generation, stage, jobs, events, sorting, list>>

-----------------------------------------------------------------------------
(* The panel.                                                              *)

\* album_detail, unidentified_detail: the covers of an album's releases.
CoversOf(key) ==
  IF database = None \/ key[1] = "rip" THEN <<>>
  ELSE LET covers == Library(database).covers[key[2]]
       IN  [i \in DOMAIN covers |-> <<database, covers[i]>>]

\* ensure_cache: what is loaded is kept until another entry is focused. The session
\* that it was loaded from is a history.
EnsureCache(l) ==
  IF l.detail # None /\ l.detail.key = l.focused THEN l
  ELSE [l EXCEPT !.detail = [key |-> l.focused, from |-> generation, covers |-> CoversOf(l.focused),
                             art |-> None, loading |-> FALSE, error |-> FALSE]]

\* cover_block: fetched once, and not again after a failure.
NeedsFetch(detail) ==
  detail.covers # <<>> /\ detail.art = None /\ ~detail.loading /\ ~detail.error

\* show, of the panel, with queue_cover_fetch: without a session there is nothing
\* to queue it on.
ShowPanel ==
  LET l == EnsureCache(list)
      fetch == NeedsFetch(l.detail) /\ database # None
  IN  /\ At("panel") /\ Then("table")
      /\ list.detailOpen /\ list.focused # None
      /\ list' = IF fetch THEN [l EXCEPT !.detail.loading = TRUE] ELSE l
      /\ jobs' = IF fetch THEN Append(jobs, l.detail.covers[1]) ELSE jobs
      /\ Len(jobs') <= MaxFetches
      /\ UNCHANGED <<database, generation, stage, events, filters, yearError, sorting>>

-----------------------------------------------------------------------------
(* The table.                                                              *)

\* A plain click: this row alone, and the panel's.
Focused(l, key) ==
  [l EXCEPT !.selected = key :> generation, !.anchor = key, !.focused = key,
            !.detail = IF l.focused = key THEN @ ELSE None, !.detailOpen = TRUE]

\* Ctrl or Cmd: this row too, or no longer.
Toggled(l, key) ==
  [l EXCEPT !.anchor = key,
            !.selected = IF key \in DOMAIN @ THEN [k \in DOMAIN @ \ {key} |-> @[k]]
                         ELSE (key :> generation) @@ @]

\* Shift: the rows from the anchor to this one.
Extended(l, rows, from, to) ==
  [l EXCEPT !.selected =
    [k \in {EntryKey(rows[n]) : n \in Min({from, to}) .. Max({from, to})} |-> generation]]

\* apply_click: without an anchor that is shown, shift is nothing.
ApplyClick(rows, i, shift, command) ==
  LET anchors == {n \in DOMAIN rows : EntryKey(rows[n]) = list.anchor}
      key == EntryKey(rows[i])
  IN  /\ list' = IF shift /\ anchors # {} THEN Extended(list, rows, Min(anchors), i)
                 ELSE IF command THEN Toggled(list, key) ELSE Focused(list, key)
      /\ UNCHANGED sorting

\* The menu of a row that is not selected selects it.
SecondaryClick(key) ==
  /\ key \notin DOMAIN list.selected
  /\ list' = [list EXCEPT !.selected = key :> generation, !.anchor = key]
  /\ UNCHANGED sorting

\* sort_header
SortHeader(key) ==
  /\ sorting' = [key |-> key, dir |-> IF sorting = [key |-> key, dir |-> "Asc"] THEN "Desc" ELSE "Asc"]
  /\ UNCHANGED list

Table ==
  /\ At("table") /\ Then("events") /\ database # None
  /\ LET rows == View
     IN  \/ \E i \in DOMAIN rows : \E shift, command \in BOOLEAN : ApplyClick(rows, i, shift, command)
         \/ \E key \in Keys(rows) : SecondaryClick(key)
         \/ \E key \in SortKeys : SortHeader(key)
  /\ UNCHANGED <<database, generation, stage, jobs, events, filters, yearError>>

\* A part of the frame in which nothing is done.
Passed ==
  /\ \/ At("bars") /\ Then("panel")
     \/ At("panel") /\ ~(list.detailOpen /\ list.focused # None) /\ Then("table")
     \/ At("table") /\ Then("events")
  /\ UNCHANGED <<database, generation, stage, jobs, events, filters, yearError, sorting, list>>

-----------------------------------------------------------------------------
(* The worker.                                                             *)

Said(kind, asset) == [kind |-> kind, asset |-> asset]
Changed == Said("LibraryChanged", None)

\* A scan or an identification is over.
Change ==
  /\ database # None /\ stage[database] < Len(Libraries[database])
  /\ stage' = [stage EXCEPT ![database] = @ + 1]
  /\ events' = Append(events, Changed)
  /\ UNCHANGED <<part, database, generation, jobs, filters, yearError, sorting, list>>

\* run_asset_cache_job
CacheAsset ==
  /\ jobs # <<>> /\ jobs' = Tail(jobs)
  /\ events' \in {events \o <<Said("AssetCached", jobs[1]), Changed>>,
                  Append(events, Said("AssetCacheFailed", jobs[1]))}
  /\ UNCHANGED <<part, database, generation, stage, filters, yearError, sorting, list>>

Next ==
  \/ Drain \/ PressButton \/ OpenDbFails \/ ResetDatabase \/ ShowPanel \/ Table \/ Passed
  \/ \E d \in Databases : OpenDb(d)
  \/ \E f \in Filters : SetFilter(f)
  \/ \E text \in YearTexts : ApplyYearFilter(text)
  \/ Change \/ CacheAsset

Spec == Init /\ [][Next]_vars

-----------------------------------------------------------------------------

\* What is selected, and so what a bulk operation would be about, is in the list
\* that is loaded and was selected in it, in this session: ids mean other rows in
\* another database (selected, selection_anchor).
SelectionMeansSame ==
  /\ DOMAIN list.selected \subseteq Keys(list.entries)
  /\ \A k \in DOMAIN list.selected : list.selected[k] = generation
  /\ {list.anchor, list.focused} \subseteq {None} \cup Keys(list.entries)

\* The picture in the panel is the cover of the album in the panel, however late it
\* comes; and while a spinner is shown instead, the picture or the news that there
\* is none is on its way, unless the session has gone (cover_block, update).
CoverOfPanel ==
  LET detail == list.detail
  IN  detail # None =>
        /\ detail.art # None => detail.art = detail.covers[1]
        /\ detail.loading /\ detail.from = generation =>
             \/ detail.covers[1] \in ToSet(jobs)
             \/ \E e \in ToSet(events) : e.asset = detail.covers[1]

\* The list and the audit agree on what was not read by redumper: a rip that the
\* audit names is shown by itself or as an album's, and no other album or rip is
\* (list_albums, filter_entries, list_missing_redumper).
AuditAgrees ==
  database # None =>
    LET lib == Library(database)
        shown == FilterEntries(LoadListEntries(lib),
                   [artist |-> None, year |-> None, country |-> None, label |-> None,
                    unidentified |-> TRUE, otherRipper |-> TRUE])
        stands(e) == IF e.kind = "rip" THEN {e.id} ELSE RipsOf(lib, e.id)
        named == ListMissingRedumper(lib)
    IN  /\ named \subseteq UNION {stands(e) : e \in ToSet(shown)}
        /\ \A e \in ToSet(shown) : stands(e) \cap named # {}

-----------------------------------------------------------------------------
(* What the code does not keep.                                            *)

\* "Set while a fetch is in flight" (state.rs), whatever has become of the session.
LoadingIsInFlight ==
  list.detail # None /\ list.detail.loading =>
    \/ list.detail.covers[1] \in ToSet(jobs)
    \/ \E e \in ToSet(events) : e.asset = list.detail.covers[1]

\* "Exact match on `Release.country` (any release)" (list.rs).
AnyReleaseMatches ==
  database # None =>
    LET lib == Library(database)
    IN  \A a \in DOMAIN lib.albums : \A r \in ReleasesOf(lib, a) :
          lib.releases[r].country # None =>
            Matches(ListRow(lib, a),
              [artist |-> None, year |-> None, country |-> lib.releases[r].country, label |-> None,
               unidentified |-> TRUE, otherRipper |-> FALSE])
=============================================================================
