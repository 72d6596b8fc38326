--------------------------- MODULE MCStateMachine ---------------------------
(* StateMachine for TLC.  Two readings of a sensor (near and nothing) give *)
(* every wall position; a queue of two commands overflows; there is one    *)
(* key of each kind the code tells apart: OK, an arrow, a speed.           *)
EXTENDS StateMachine
=============================================================================
