----------------------------- MODULE PwmTables -----------------------------
(***************************************************************************)
(* The speeds of drivers/pwm_both_timers.c and what they mean for the two  *)
(* wheels, whose PWM is made by two timers in two ways.                    *)
(***************************************************************************)
EXTENDS Naturals

Wheels == {"LEFT", "RIGHT"}
PwmSpeeds == {"MAX", "HALF_PLUS", "HALF", "QUARTER_PLUS", "QUARTER",
              "EIGHTH_PLUS", "EIGHTH", "STOP"}

PWM_PERIOD_TICKS == 100
PWM_PERIOD_TICKS2 == 8 * PWM_PERIOD_TICKS

(* pwm_periods[]: the high and the low phase of the right wheel in ticks,  *)
(* and the duty of the left wheel in ticks of its period of 100.           *)
A1High(speed) ==
    CASE speed = "MAX"          -> 2 * PWM_PERIOD_TICKS2
      [] speed = "HALF_PLUS"    -> PWM_PERIOD_TICKS2 + PWM_PERIOD_TICKS2 \div 2
      [] speed = "HALF"         -> PWM_PERIOD_TICKS2
      [] speed = "QUARTER_PLUS" -> PWM_PERIOD_TICKS2 \div 2 + PWM_PERIOD_TICKS2 \div 4
      [] speed = "QUARTER"      -> PWM_PERIOD_TICKS2 \div 2
      [] speed = "EIGHTH_PLUS"  -> PWM_PERIOD_TICKS2 \div 4 + PWM_PERIOD_TICKS2 \div 8
      [] speed = "EIGHTH"       -> PWM_PERIOD_TICKS2 \div 4
      [] speed = "STOP"         -> 1
A1Low == PWM_PERIOD_TICKS2

A0Period(speed) ==
    CASE speed = "MAX" -> 67          [] speed = "HALF_PLUS" -> 60
      [] speed = "HALF" -> 50         [] speed = "QUARTER_PLUS" -> 43
      [] speed = "QUARTER" -> 33      [] speed = "EIGHTH_PLUS" -> 27
      [] speed = "EIGHTH" -> 20       [] speed = "STOP" -> 0

(* The share of the time a wheel is powered, in parts per thousand.        *)
LeftDuty(speed) == (1000 * A0Period(speed)) \div PWM_PERIOD_TICKS
RightDuty(speed) == (1000 * A1High(speed)) \div (A1High(speed) + A1Low)
=============================================================================
