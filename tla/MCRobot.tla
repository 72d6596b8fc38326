------------------------------ MODULE MCRobot ------------------------------
(* Robot for TLC: OK, an arrow and a speed; a near wall and none. *)
EXTENDS Robot
=============================================================================
