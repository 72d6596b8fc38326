------------------------------- MODULE MCPwm -------------------------------
(* Pwm for TLC.  Time passes in steps of 100 ticks, of which all phases    *)
(* but STOP's are multiples, and the counter turns after 2000.             *)
EXTENDS Pwm
=============================================================================
