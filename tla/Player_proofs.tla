----------------------------- MODULE Player_proofs -----------------------------
(***************************************************************************)
(* Proofs about Player, for any libraries, sector length and number of     *)
(* sounds: the strip is about what is heard.                               *)
(***************************************************************************)
EXTENDS Player, TLAPS

Voice == [track : Tracks, told : BOOLEAN, state : {"Playing", "Stopped"}, at : Nat, seek : Nat \cup {None}]

PlayerTypeOK ==
  /\ part \in {"poll", "draw"} /\ open \in Databases /\ player \in BOOLEAN
  /\ panel \in Panels \cup {None}
  /\ voices \in Seq(Voice)
  /\ current \in [id : TrackIds, voice : 1..Len(voices)] \cup {None}
  /\ drag \in [id : TrackIds, to : Nat, voice : Nat] \cup {None}

\* What goes on untold is what the strip is about; what is dragged is it too, from
\* one drawing to the next; and a sound stands at the start of one of its sectors.
OneHeard == \A v \in DOMAIN voices : On(v) /\ ~voices[v].told => current # None /\ current.voice = v
DragIsOfStrip == drag # None => current # None /\ current.voice = drag.voice
Aligned(voice) == \E k \in 0 .. Sectors(voice.track) : voice.at = k * PcmSamplesPerSector
OnSectors == \A v \in DOMAIN voices : Aligned(voices[v])

Inv == PlayerTypeOK /\ OneHeard /\ DragIsOfStrip /\ OnSectors

-----------------------------------------------------------------------------
(* Sectors and samples.                                                    *)

LEMMA SectorsAreNat == ASSUME NEW t \in Tracks PROVE Sectors(t) \in Nat /\ Length(t) \in Nat
BY TracksAssumption, SectorAssumption DEF Sectors, Length

\* A sector further is in the track while the end is not reached.
LEMMA SectorFurther ==
  ASSUME NEW s \in Nat, NEW k \in 0..s, k * PcmSamplesPerSector < s * PcmSamplesPerSector
  PROVE  /\ k + 1 \in 0..s
         /\ k * PcmSamplesPerSector + PcmSamplesPerSector = (k + 1) * PcmSamplesPerSector
<1>1. k < s
  BY SectorAssumption
<1>2. QED
  BY <1>1, SectorAssumption

LEMMA DecoderSeeksSector ==
  ASSUME NEW t \in Tracks, NEW index \in Nat
  PROVE  \E k \in 0 .. Sectors(t) : DecoderSeek(t, index) = k * PcmSamplesPerSector
<1>1. index \div PcmSamplesPerSector \in Nat
  BY SectorAssumption
<1>2. QED
  BY <1>1, SectorsAreNat DEF DecoderSeek

LEMMA AlignedIsOnSector ==
  ASSUME NEW voice \in Voice, Aligned(voice)
  PROVE  voice.at % PcmSamplesPerSector = 0 /\ voice.at \in 0 .. Length(voice.track)
<1>1. PICK k \in 0 .. Sectors(voice.track) : voice.at = k * PcmSamplesPerSector
  BY DEF Aligned
<1>2. Sectors(voice.track) \in Nat
  BY SectorsAreNat DEF Voice
<1>3. /\ (k * PcmSamplesPerSector) % PcmSamplesPerSector = 0
      /\ k * PcmSamplesPerSector \in Nat
      /\ k * PcmSamplesPerSector <= Sectors(voice.track) * PcmSamplesPerSector
  BY <1>2, SectorAssumption
<1>4. QED
  BY <1>1, <1>2, <1>3, SectorAssumption DEF Length

-----------------------------------------------------------------------------
(* The sounds.                                                             *)

LEMMA CurrentSounds ==
  ASSUME PlayerTypeOK, current # None
  PROVE  current.id \in TrackIds /\ current.voice \in DOMAIN voices /\ voices[current.voice] \in Voice
BY DEF PlayerTypeOK

\* Telling what is playing to stop leaves nothing on and untold.
LEMMA StoppingTellsAll ==
  ASSUME Inv
  PROVE  /\ Stopped \in Seq(Voice) /\ Len(Stopped) = Len(voices)
         /\ \A v \in DOMAIN voices : Stopped[v].state = "Playing" => Stopped[v].told
         /\ \A v \in DOMAIN voices : Aligned(Stopped[v])
<1>1. CASE current = None
  BY <1>1 DEF Inv, PlayerTypeOK, OneHeard, OnSectors, Stopped, On, Voice
<1>2. CASE current # None
  <2>1. /\ current.voice \in DOMAIN voices /\ voices[current.voice] \in Voice
        /\ Stopped = [voices EXCEPT ![current.voice].told = TRUE]
        /\ voices \in Seq(Voice)
    BY <1>2, CurrentSounds DEF Inv, PlayerTypeOK, Stopped
  <2>2. [voices[current.voice] EXCEPT !.told = TRUE] \in Voice
    BY <2>1 DEF Voice
  <2>3. Stopped \in Seq(Voice) /\ Len(Stopped) = Len(voices)
    BY <2>1, <2>2
  <2>4. ASSUME NEW v \in DOMAIN voices
        PROVE  /\ Stopped[v].state = "Playing" => Stopped[v].told
               /\ Stopped[v].at = voices[v].at /\ Stopped[v].track = voices[v].track
    BY <2>1, <2>4 DEF Inv, OneHeard, On, Voice
  <2>5. QED
    BY <2>3, <2>4 DEF Inv, OnSectors, Aligned
<1>3. QED
  BY <1>1, <1>2

\* stop: afterwards nothing that goes on is untold.
LEMMA StopKeepsInv ==
  ASSUME Inv, StopPlaying, player' \in BOOLEAN, drag' = None,
         UNCHANGED open, part' \in {"poll", "draw"}, UNCHANGED panel
  PROVE  Inv'
<1>1. voices' = Stopped /\ current' = None
  BY DEF StopPlaying
<1>2. PlayerTypeOK'
  BY <1>1, StoppingTellsAll DEF Inv, PlayerTypeOK
<1>3. OneHeard' /\ OnSectors'
  BY <1>1, StoppingTellsAll DEF Inv, PlayerTypeOK, OneHeard, On, OnSectors, Aligned
<1>4. QED
  BY <1>1, <1>2, <1>3 DEF Inv, DragIsOfStrip

\* A sound that has taken a seek.
Taken(voice, to) == [voice EXCEPT !.at = to, !.seek = None]

\* The steps of one sound, in voices[v], which stay where they are told or not.
LEMMA SoundKeepsInv ==
  ASSUME Inv, NEW v \in DOMAIN voices, On(v),
         NEW voice \in Voice, voice.told = voices[v].told, Aligned(voice),
         voices' = [voices EXCEPT ![v] = voice],
         UNCHANGED <<part, open, panel, player, current, drag>>
  PROVE  Inv'
<1>1. voices' \in Seq(Voice) /\ Len(voices') = Len(voices) /\ DOMAIN voices' = DOMAIN voices
  BY DEF Inv, PlayerTypeOK
<1>2. voices'[v] = voice /\ \A w \in DOMAIN voices : w # v => voices'[w] = voices[w]
  BY DEF Inv, PlayerTypeOK
<1>3. PlayerTypeOK' /\ DragIsOfStrip'
  BY <1>1 DEF Inv, PlayerTypeOK, DragIsOfStrip
<1>4. OneHeard'
  BY <1>1, <1>2 DEF Inv, OneHeard, On
<1>5. OnSectors'
  BY <1>1, <1>2 DEF Inv, OnSectors, Aligned
<1>6. QED
  BY <1>3, <1>4, <1>5 DEF Inv

\* play_track: the new sound is the one that goes on, if it starts.
LEMMA PlayKeepsInv ==
  ASSUME Inv, NEW track \in Tracks, drag = None,
         PlayTrack(<<track[2], track[3]>>, track),
         UNCHANGED <<open, panel, drag>>, part' \in {"poll", "draw"}
  PROVE  Inv'
<1> DEFINE id == <<track[2], track[3]>>
           started == [track |-> track, told |-> FALSE, state |-> "Playing", at |-> 0, seek |-> None]
<1>1. CASE player' = TRUE /\ voices' = Append(Stopped, started)
           /\ current' = [id |-> id, voice |-> Len(voices) + 1]
  <2>1. started \in Voice /\ Aligned(started)
    <3>1. Sectors(track) \in Nat /\ 0 = 0 * PcmSamplesPerSector
      BY SectorsAreNat, SectorAssumption
    <3>2. QED
      BY <3>1 DEF Voice, Aligned
  <2> HIDE DEF started
  <2>2. /\ voices' \in Seq(Voice) /\ Len(voices') = Len(voices) + 1
        /\ voices'[Len(voices) + 1] = started
        /\ \A v \in DOMAIN voices : voices'[v] = Stopped[v]
        /\ DOMAIN voices = 1..Len(voices) /\ DOMAIN voices' = 1..(Len(voices) + 1)
    BY <1>1, <2>1, StoppingTellsAll DEF Inv, PlayerTypeOK
  <2>3. current' \in [id : TrackIds, voice : 1..Len(voices')] /\ current' # None
    BY <1>1, <2>2, NoneAssumption DEF Inv, PlayerTypeOK, TrackIds
  <2>4. PlayerTypeOK' /\ DragIsOfStrip'
    BY <1>1, <2>2, <2>3 DEF Inv, PlayerTypeOK, DragIsOfStrip
  <2>5. OneHeard'
    BY <1>1, <2>2, <2>3, StoppingTellsAll DEF Inv, PlayerTypeOK, OneHeard, On
  <2>6. OnSectors'
    <3>1. \A v \in DOMAIN voices : Aligned(voices'[v])
      BY <2>2, StoppingTellsAll DEF Inv, PlayerTypeOK, OnSectors, Aligned
    <3>2. Aligned(started)
      BY <2>1 DEF Aligned
    <3>3. \A v \in DOMAIN voices' : v \in DOMAIN voices \/ v = Len(voices) + 1
      BY <2>2
    <3>4. QED
      BY <2>2, <3>1, <3>2, <3>3 DEF OnSectors
  <2>7. QED
    BY <2>4, <2>5, <2>6 DEF Inv
<1>2. CASE player' = TRUE /\ StopPlaying
  BY <1>2, StopKeepsInv
<1>3. CASE UNCHANGED <<player, voices, current>>
  BY <1>3 DEF Inv, PlayerTypeOK, OneHeard, On, DragIsOfStrip, OnSectors, Aligned
<1>4. QED
  BY <1>1, <1>2, <1>3 DEF PlayTrack

\* Frames in which the player is left alone.
LEMMA QuietKeepsInv ==
  ASSUME Inv, UNCHANGED <<player, current, drag, voices>>,
         part' \in {"poll", "draw"}, open' \in Databases, panel' \in Panels \cup {None}
  PROVE  Inv'
BY DEF Inv, PlayerTypeOK, OneHeard, On, DragIsOfStrip, OnSectors, Aligned

LEMMA StepKeepsInv == ASSUME Inv, [Next]_vars PROVE Inv'
<1>1. CASE Poll
  <2> DEFINE ended == current # None /\ voices[current.voice].state = "Stopped"
  <2>1. CASE ended
    <3>1. current' = None /\ drag' = None /\ UNCHANGED voices
      BY <1>1, <2>1 DEF Poll, DragAfter
    <3>2. \A v \in DOMAIN voices : On(v) => voices[v].told
      BY <2>1 DEF Inv, OneHeard, On
    <3>3. QED
      BY <1>1, <3>1, <3>2 DEF Poll, Inv, PlayerTypeOK, OneHeard, On, DragIsOfStrip, OnSectors, Aligned
  <2>2. CASE ~ended
    <3>1. UNCHANGED <<current, drag, voices>>
      BY <1>1, <2>2 DEF Poll, DragAfter
    <3>2. QED
      BY <1>1, <3>1, QuietKeepsInv DEF Poll, Inv, PlayerTypeOK
  <2>3. QED
    BY <2>1, <2>2
<1>2. CASE StripStop
  BY <1>2, StopKeepsInv DEF StripStop, Draws, Inv, PlayerTypeOK
<1>3. CASE DragStopped
  <2>1. CASE UNCHANGED voices
    BY <1>3, <2>1 DEF DragStopped, Draws, Inv, PlayerTypeOK, OneHeard, On, DragIsOfStrip, OnSectors, Aligned
  <2>2. CASE voices' = [voices EXCEPT ![current.voice].seek = IF On(current.voice) THEN Clamped(drag.to) ELSE @]
    <3> DEFINE v == current.voice
               seek == IF On(v) THEN Clamped(drag.to) ELSE voices[v].seek
               voice == [voices[v] EXCEPT !.seek = seek]
    <3>1. /\ current # None /\ drag # None /\ drag.to \in Nat
          /\ v \in DOMAIN voices /\ voices[v] \in Voice
      BY <1>3, CurrentSounds DEF DragStopped, Held, Strip, Inv, PlayerTypeOK
    <3>2. seek \in Nat \cup {None}
      BY <3>1, SectorsAreNat DEF Clamped, Voice
    <3>3. voices' = [voices EXCEPT ![v] = voice]
      BY <2>2
    <3> HIDE DEF seek
    <3>4. /\ voice \in Voice /\ voice.told = voices[v].told /\ voice.state = voices[v].state
          /\ voice.at = voices[v].at /\ voice.track = voices[v].track
      BY <3>1, <3>2 DEF Voice
    <3> HIDE DEF voice
    <3>5. /\ voices' \in Seq(Voice) /\ Len(voices') = Len(voices) /\ DOMAIN voices' = DOMAIN voices
          /\ \A w \in DOMAIN voices : /\ voices'[w].told = voices[w].told /\ voices'[w].state = voices[w].state
                                      /\ voices'[w].at = voices[w].at /\ voices'[w].track = voices[w].track
      BY <3>1, <3>3, <3>4 DEF Inv, PlayerTypeOK
    <3>6. PlayerTypeOK' /\ DragIsOfStrip'
      BY <1>3, <3>5 DEF DragStopped, Draws, Inv, PlayerTypeOK, DragIsOfStrip
    <3>7. OneHeard'
      BY <1>3, <3>5 DEF DragStopped, Inv, OneHeard, On
    <3>8. OnSectors'
      <4>1. \A w \in DOMAIN voices : Aligned(voices'[w])
        BY <3>5 DEF Inv, OnSectors, Aligned
      <4>2. QED
        BY <3>5, <4>1 DEF OnSectors
    <3>9. QED
      BY <3>6, <3>7, <3>8 DEF Inv
  <2>3. QED
    BY <1>3, <2>1, <2>2 DEF DragStopped, Seek
<1>4. CASE NoClick
  BY <1>4, QuietKeepsInv DEF NoClick, Draws, Inv, PlayerTypeOK
<1>5. CASE Audio
  <2>1. PICK v \in DOMAIN voices : Decode(v) \/ TakeSeek(v) \/ Ends(v)
    BY <1>5 DEF Audio
  <2> DEFINE voice == voices[v]
  <2>2. voice \in Voice /\ On(v) /\ UNCHANGED <<part, open, panel, player, current, drag>>
    BY <1>5, <2>1 DEF Audio, Decode, TakeSeek, Ends, Inv, PlayerTypeOK
  <2>3. voice.track \in Tracks /\ Sectors(voice.track) \in Nat
    BY <2>2, SectorsAreNat DEF Voice
  <2>4. Silent(voice) \in Voice /\ Silent(voice).told = voice.told /\ Aligned(Silent(voice))
    <3>1. /\ Silent(voice) \in Voice /\ Silent(voice).told = voice.told
          /\ Silent(voice).track = voice.track /\ Silent(voice).at = 0
      BY <2>2 DEF Silent, Voice
    <3>2. 0 = 0 * PcmSamplesPerSector
      BY SectorAssumption
    <3>3. QED
      BY <2>3, <3>1, <3>2 DEF Aligned
  <2>5. CASE voices' = [voices EXCEPT ![v] = Silent(voice)]
    BY <2>2, <2>4, <2>5, SoundKeepsInv
  <2>6. CASE voice.at < Length(voice.track)
             /\ voices' = [voices EXCEPT ![v] = [voice EXCEPT !.at = voice.at + PcmSamplesPerSector]]
    <3> DEFINE next == [voice EXCEPT !.at = voice.at + PcmSamplesPerSector]
    <3>1. PICK k \in 0 .. Sectors(voice.track) : voice.at = k * PcmSamplesPerSector
      BY DEF Inv, OnSectors, Aligned
    <3>2. k + 1 \in 0 .. Sectors(voice.track) /\ voice.at + PcmSamplesPerSector = (k + 1) * PcmSamplesPerSector
      BY <2>3, <2>6, <3>1, SectorFurther DEF Length
    <3>3. next \in Voice /\ next.told = voice.told /\ next.track = voice.track
          /\ next.at = (k + 1) * PcmSamplesPerSector
      BY <2>2, <3>2, SectorAssumption DEF Voice
    <3>4. Aligned(next)
      BY <3>2, <3>3 DEF Aligned
    <3>5. QED
      BY <2>2, <2>6, <3>3, <3>4, SoundKeepsInv
  <2>7. CASE TakeSeek(v)
    <3> DEFINE to == DecoderSeek(voice.track, voice.seek)
    <3>1. voice.seek \in Nat
      BY <2>2, <2>7 DEF TakeSeek, Voice
    <3>2. PICK k \in 0 .. Sectors(voice.track) : to = k * PcmSamplesPerSector
      BY <2>3, <3>1, DecoderSeeksSector
    <3>3. to \in Nat
      BY <2>3, <3>2, SectorAssumption
    <3>4. voices' = [voices EXCEPT ![v] = Taken(voice, to)]
      BY <2>7 DEF TakeSeek, Taken, Inv, PlayerTypeOK
    <3> HIDE DEF voice, to
    <3>5. /\ Taken(voice, to) \in Voice /\ Taken(voice, to).told = voice.told
          /\ Taken(voice, to).track = voice.track /\ Taken(voice, to).at = to
      BY <2>2, <3>3 DEF Taken, Voice
    <3>6. Aligned(Taken(voice, to))
      BY <3>2, <3>5 DEF Aligned
    <3>7. QED
      BY <2>2, <3>4, <3>5, <3>6, SoundKeepsInv DEF voice
  <2>8. QED
    <3>1. CASE Decode(v)
      BY <3>1, <2>5, <2>6 DEF Decode
    <3>2. CASE Ends(v)
      BY <3>2, <2>5 DEF Ends
    <3>3. QED
      BY <2>1, <2>7, <3>1, <3>2
<1>6. ASSUME NEW position \in DOMAIN Rips[panel[1]][panel[2]], panel # None, HandlePlayClick(position)
      PROVE  Inv'
  <2> DEFINE track == <<panel[1], panel[2], position>>
  <2>1. track \in Tracks
    BY <1>6 DEF Inv, PlayerTypeOK, Tracks
  <2>2. drag = None
    BY <1>6 DEF HandlePlayClick, Held, Strip, Inv, DragIsOfStrip
  <2>3. UNCHANGED <<open, panel, drag>> /\ part' \in {"poll", "draw"}
    BY <1>6 DEF HandlePlayClick, Draws
  <2>4. CASE StopPlaying /\ UNCHANGED player
    BY <2>2, <2>3, <2>4, StopKeepsInv DEF Inv, PlayerTypeOK
  <2>5. CASE PlayTrack(<<panel[2], position>>, track)
    BY <2>1, <2>2, <2>3, <2>5, PlayKeepsInv
  <2>6. QED
    BY <1>6, <2>4, <2>5 DEF HandlePlayClick
<1>7. ASSUME Strip, NEW to \in 0 .. Length(voices[current.voice].track), DragTo(to)
      PROVE  Inv'
  <2>1. current # None /\ current.voice \in Nat /\ current.id \in TrackIds
        /\ Length(voices[current.voice].track) \in Nat
    BY <1>7, CurrentSounds, SectorsAreNat DEF Strip, Inv, PlayerTypeOK, Voice
  <2>2. to \in Nat
    BY <2>1
  <2>3. drag' \in [id : TrackIds, to : Nat, voice : Nat] /\ drag'.voice = current.voice
    BY <1>7, <2>1, <2>2 DEF DragTo, Inv, PlayerTypeOK, DragIsOfStrip
  <2>4. QED
    BY <1>7, <2>1, <2>3 DEF DragTo, Draws, Inv, PlayerTypeOK, OneHeard, On, DragIsOfStrip, OnSectors, Aligned
<1>8. ASSUME NEW rip \in DOMAIN Rips[open], ShowPanel(rip)
      PROVE  Inv'
  BY <1>8, QuietKeepsInv DEF ShowPanel, Draws, Inv, PlayerTypeOK, Panels
<1>9. ASSUME NEW d \in Databases, OpenDb(d)
      PROVE  Inv'
  BY <1>9, QuietKeepsInv DEF OpenDb, Draws, Inv, PlayerTypeOK
<1>10. CASE UNCHANGED vars
  BY <1>10, QuietKeepsInv DEF vars, Inv, PlayerTypeOK
<1>11. QED
  BY <1>1, <1>2, <1>3, <1>4, <1>5, <1>6, <1>7, <1>8, <1>9, <1>10 DEF Next

\* The strip is about the one sound that goes on, and a sound stands on a sector of
\* its track, for any number of libraries, tracks and sounds, whatever fails
\* (play_track, stop, update, seek, decode).
THEOREM StripAboutHeard == Spec => []StripIsHeard
<1>1. Init => Inv
  <2>1. <<>> \in Seq(Voice) /\ DOMAIN <<>> = {}
    OBVIOUS
  <2>2. QED
    BY <2>1 DEF Init, Inv, PlayerTypeOK, OneHeard, DragIsOfStrip, OnSectors
<1>2. Inv /\ [Next]_vars => Inv'
  BY StepKeepsInv
<1>3. Inv => StripIsHeard
  <2> SUFFICES ASSUME Inv PROVE StripIsHeard
    OBVIOUS
  <2>1. \A v \in DOMAIN voices : voices[v] \in Voice /\ Aligned(voices[v])
    BY DEF Inv, PlayerTypeOK, OnSectors
  <2>2. \A v \in DOMAIN voices : /\ voices[v].at % PcmSamplesPerSector = 0
                                 /\ voices[v].at \in 0 .. Length(voices[v].track)
    BY <2>1, AlignedIsOnSector
  <2>3. QED
    BY <2>2 DEF Inv, OneHeard, DragIsOfStrip, StripIsHeard, Strip
<1>4. QED
  BY <1>1, <1>2, <1>3, PTL DEF Spec
=============================================================================
