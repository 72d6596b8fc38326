----------------------------- MODULE MCStartup -----------------------------
(* Startup for TLC: rounds modulo four tell every value apart from those   *)
(* of the rounds before and after it; five SPADs in rows of three, so that *)
(* the last one is not at the end of a row, as 44 in rows of eight.        *)
EXTENDS Startup
=============================================================================
