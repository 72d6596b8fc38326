------------------------------ MODULE MCTimer ------------------------------
(* Timer for TLC.  Words of two bits: the counter has 16 values and the    *)
(* carry into the high word happens every fourth tick.                     *)
EXTENDS Timer
=============================================================================
