------------------------------ MODULE TimerA1 ------------------------------
(***************************************************************************)
(* Timer A1 counts freely.  The software PWM compares its counter, the     *)
(* infrared receiver captures it.                                          *)
(***************************************************************************)
EXTENDS Naturals

CONSTANT TimerRange     \* TA1R counts modulo this, 2^16 in the code

ASSUME TimerAssumption == TimerRange \in Nat \ {0}
=============================================================================
