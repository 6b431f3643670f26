-------------------------------- MODULE MCPlayer --------------------------------
(***************************************************************************)
(* An instance of Player: two libraries, of one disc each.                 *)
(***************************************************************************)
EXTENDS Player

\* An audio track, and a data track; the other's has an audio track only.
TwoRips == [home |-> <<<<2, 0>>>>, work |-> <<<<1>>>>]
=============================================================================
