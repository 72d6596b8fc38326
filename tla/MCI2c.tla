-------------------------------- MODULE MCI2c --------------------------------
(* I2c for TLC: one retry more than the fewest, and up to three bytes, so   *)
(* that a read has a first, a middle and a last byte.                       *)
EXTENDS I2c
=============================================================================
