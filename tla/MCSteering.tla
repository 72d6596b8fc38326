----------------------------- MODULE MCSteering -----------------------------
(* Steering for TLC: a near wall, one that is seen but not near, and none. *)
EXTENDS Steering
=============================================================================
