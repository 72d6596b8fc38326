---------------------------- MODULE MCRingBuffer ----------------------------
(* RingBuffer for TLC: three slots and three elements are enough for the   *)
(* indices to wrap, to meet full and empty, and for any two neighbours to  *)
(* be told apart.                                                          *)
EXTENDS RingBuffer
=============================================================================
