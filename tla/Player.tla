--------------------------------- MODULE Player ---------------------------------
(***************************************************************************)
(* Playing a track in the desktop application                              *)
(* (phono-junk-gui/src/backend/player, app.rs, views/detail.rs): the GUI   *)
(* thread, which starts, seeks and stops, and the audio thread of kira,    *)
(* where a sound goes on until it ends, fails or is told to stop.          *)
(*                                                                         *)
(* In a frame the player is polled and then the panel drawn, with its      *)
(* table of tracks and the strip of what is playing; in each the user may  *)
(* do one thing. Lengths and positions are in samples.                     *)
(***************************************************************************)
EXTENDS Integers, Sequences, FiniteSets

CONSTANTS
  None,
  Databases,
  Rips,       \* database -> the tracks of its rips by id: sectors, 0 of a data track
  PcmSamplesPerSector,
  MaxVoices   \* bounds the sounds started in one run of the program

\* What a panel may show, and the tracks that may be played: <<database, rip, position>>.
Panels == UNION {{<<d, r>> : r \in DOMAIN Rips[d]} : d \in Databases}
Tracks == UNION {{<<p[1], p[2], position>> : position \in DOMAIN Rips[p[1]][p[2]]} : p \in Panels}
TrackIds == {<<track[2], track[3]>> : track \in Tracks}

ASSUME SectorAssumption == PcmSamplesPerSector \in Nat \ {0}
ASSUME TracksAssumption == \A t \in Tracks : Rips[t[1]][t[2]][t[3]] \in Nat
ASSUME NoneAssumption == None \notin [id : TrackIds, voice : Nat]

VARIABLES
  part,     \* of the frame, which is next
  open,     \* the database
  panel,    \* the rip in the panel, <<database that it was loaded from, id>>, or None
  player,   \* there is a Player
  current,  \* Player::current: [id, voice], or None
  drag,     \* scrub_drag: [id, to], and of which voice (a history), or None
  voices    \* on the audio thread: [track, told, state, at, seek], of all that started

vars == <<part, open, panel, player, current, drag, voices>>

Init ==
  /\ part = "poll" /\ open \in Databases /\ panel = None
  /\ player = FALSE /\ current = None /\ drag = None /\ voices = <<>>

\* <<database, rip, position>> of a track; total_samples
Sectors(track) == Rips[track[1]][track[2]][track[3]]
Length(track) == Sectors(track) * PcmSamplesPerSector

\* Of a sound that has ended nothing is kept.
On(v) == voices[v].state = "Playing"
Silent(voice) == [voice EXCEPT !.state = "Stopped", !.at = 0, !.seek = None]

Draws == part = "draw" /\ part' = "poll"

-----------------------------------------------------------------------------
(* The player.                                                             *)

\* Mutant: the handle is dropped, and nobody told.
Dropped == voices

\* stop: a handle that is dropped stops nothing by itself.
Stopped == IF current = None THEN voices ELSE [voices EXCEPT ![current.voice].told = TRUE]

StopPlaying == voices' = Stopped /\ current' = None

\* play_track, after ensure_player: what was playing stops, and then the file may
\* not open, or the sound not start.
PlayTrack(id, track) ==
  \/ Sectors(track) > 0 /\ Len(voices) < MaxVoices
     /\ player' = TRUE
     /\ voices' = Append(Stopped, [track |-> track, told |-> FALSE, state |-> "Playing", at |-> 0, seek |-> None])
     /\ current' = [id |-> id, voice |-> Len(voices) + 1]
  \/ player' = TRUE /\ StopPlaying
  \/ ~player /\ UNCHANGED <<player, voices, current>>

Clamped(to) == IF to > Length(voices[current.voice].track) THEN Length(voices[current.voice].track) ELSE to

\* seek
Seek(id, to) ==
  IF current = None \/ current.id # id THEN UNCHANGED voices
  ELSE voices' = [voices EXCEPT ![current.voice].seek = IF On(current.voice) THEN Clamped(to) ELSE @]

\* Mutant: what is dragged is kept.
Kept(ended) == drag

\* What is left of the drag after the poll: nothing when the playback has changed.
DragAfter(ended) == IF ended THEN None ELSE drag

\* update, with poll_state: a sound that has stopped by itself is noticed once a frame.
Poll ==
  LET ended == current # None /\ voices[current.voice].state = "Stopped"
  IN  /\ part = "poll" /\ part' = "draw"
      /\ current' = IF ended THEN None ELSE current
      /\ drag' = DragAfter(ended)
      /\ UNCHANGED <<open, panel, player, voices>>

-----------------------------------------------------------------------------
(* The panel. While the slider is held, nothing else is clicked.           *)

Strip == current # None
Held == Strip /\ drag # None

\* handle_play_click: the row that is playing is stopped, any other played.
HandlePlayClick(position) ==
  LET id == <<panel[2], position>>
  IN  /\ Draws /\ ~Held /\ panel # None
      /\ IF Strip /\ current.id = id THEN StopPlaying /\ UNCHANGED player
         ELSE PlayTrack(id, <<panel[1], panel[2], position>>)
      /\ UNCHANGED <<open, panel, drag>>

\* now_playing_strip: its button, and its slider.
StripStop ==
  /\ Draws /\ Strip /\ ~Held
  /\ StopPlaying /\ drag' = None
  /\ UNCHANGED <<open, panel, player>>

DragTo(to) ==
  /\ Draws /\ Strip /\ (drag # None => drag.id = current.id)
  /\ drag' = IF drag = None THEN [id |-> current.id, to |-> to, voice |-> current.voice]
             ELSE [drag EXCEPT !.to = to]
  /\ UNCHANGED <<open, panel, player, current, voices>>

DragStopped ==
  /\ Draws /\ Held
  /\ Seek(current.id, drag.to) /\ drag' = None
  /\ UNCHANGED <<open, panel, player, current>>

\* A click on another row of the list (the panel loads its rip), no click, or another
\* database in place of this one, when the panel shows what it showed until it is
\* loaded again.
ShowPanel(rip) ==
  /\ Draws /\ ~Held /\ panel' = <<open, rip>>
  /\ UNCHANGED <<open, player, current, drag, voices>>

NoClick == Draws /\ UNCHANGED <<open, panel, player, current, drag, voices>>

OpenDb(d) ==
  /\ Draws /\ ~Held /\ open' = d
  /\ UNCHANGED <<panel, player, current, drag, voices>>

-----------------------------------------------------------------------------
(* The audio thread.                                                       *)

\* TrackPcmDecoder::seek: back to where the sector begins, and no further than the end.
DecoderSeek(track, index) ==
  LET sector == index \div PcmSamplesPerSector
  IN  (IF sector > Sectors(track) THEN Sectors(track) ELSE sector) * PcmSamplesPerSector

\* decode: one sector at a time; after the last there is no more, and the sound ends.
Decode(v) ==
  LET voice == voices[v]
  IN  /\ On(v)
      /\ voices' = [voices EXCEPT ![v] =
           IF voice.at < Length(voice.track) THEN [voice EXCEPT !.at = @ + PcmSamplesPerSector]
           ELSE Silent(voice)]

TakeSeek(v) ==
  /\ On(v) /\ voices[v].seek # None
  /\ voices' = [voices EXCEPT ![v].at = DecoderSeek(voices[v].track, voices[v].seek), ![v].seek = None]

\* It is told to stop, it cannot be read, the device is gone.
Ends(v) == On(v) /\ voices' = [voices EXCEPT ![v] = Silent(@)]

Audio ==
  /\ \E v \in DOMAIN voices : Decode(v) \/ TakeSeek(v) \/ Ends(v)
  /\ UNCHANGED <<part, open, panel, player, current, drag>>

Next ==
  \/ Poll \/ StripStop \/ DragStopped \/ NoClick \/ Audio
  \/ panel # None /\ \E position \in DOMAIN Rips[panel[1]][panel[2]] : HandlePlayClick(position)
  \/ Strip /\ \E to \in 0 .. Length(voices[current.voice].track) : DragTo(to)
  \/ \E rip \in DOMAIN Rips[open] : ShowPanel(rip)
  \/ \E d \in Databases \ {open} : OpenDb(d)

Spec == Init /\ [][Next]_vars

-----------------------------------------------------------------------------

\* There is one voice, and the strip is about it: whatever goes on and was not told to
\* stop is what the strip names and its button stops, whichever call failed
\* (play_track, stop). What the slider is dragged to is about the same playing, not
\* about an earlier one of the same track (update, DragAfter); and where a sound goes
\* on is in its track, on a sector (seek, decode).
StripIsHeard ==
  /\ \A v \in DOMAIN voices : On(v) /\ ~voices[v].told => Strip /\ current.voice = v
  /\ drag # None /\ part = "draw" => Strip /\ current.voice = drag.voice
  /\ \A v \in DOMAIN voices :
       /\ voices[v].at % PcmSamplesPerSector = 0
       /\ voices[v].at \in 0 .. Length(voices[v].track)

\* "The smallest stable key" (player/mod.rs): the row with the stop button is the
\* track that is heard.
RowIsHeard ==
  panel # None /\ Strip /\ current.id[1] = panel[2] => voices[current.voice].track[1] = panel[1]
=============================================================================
