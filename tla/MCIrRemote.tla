----------------------------- MODULE MCIrRemote -----------------------------
(* IrRemote for TLC: bytes of two bits, so that a frame has eight; the     *)
(* times are the nominal ones of the code, a glitch, and a pause of more   *)
(* than one turn of the timer, which measures like the bit 1.              *)
EXTENDS IrRemote
=============================================================================
