----------------------------- MODULE MCVl53l0x -----------------------------
(* Vl53l0x for TLC, for the behaviours that a run looks for: two rounds    *)
(* and at most one failed exchange are enough for them.                    *)
EXTENDS Vl53l0x
=============================================================================
