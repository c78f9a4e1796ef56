------------------------- MODULE MCFixedRingBuffer -------------------------
(***************************************************************************)
(* FixedRingBuffer for TLC: four slots and positions that wrap at eight,   *)
(* so that both wraparounds happen at every fill level.                    *)
(***************************************************************************)
EXTENDS FixedRingBuffer
=============================================================================
