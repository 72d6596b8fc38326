--------------------------------- MODULE Pwm ---------------------------------
(***************************************************************************)
(* drivers/pwm_both_timers.c.  The left wheel's PWM is made by timer A0 in *)
(* hardware.  Timer A1 must count freely for the infrared receiver, so the *)
(* right wheel's PWM is made in software: the compare interrupt toggles    *)
(* the pin and moves the compare register on by the length of the phase    *)
(* that begins.  If it moves it to a time already past, the next interrupt *)
(* comes a whole turn of the counter later and the pin stays as it is.     *)
(***************************************************************************)
EXTENDS TimerA1, PwmTables, Integers

CONSTANTS
    Unit,           \* ticks per step of the model's time
    MaxLatency      \* ticks the interrupt may be held up by others

(* The counter's turn is longer than any phase; all phases that are used   *)
(* are multiples of PWM_PERIOD_TICKS, and none is over before an interrupt *)
(* that is held up has been served.                                        *)
ASSUME RangeAssumption == TimerRange > 2 * PWM_PERIOD_TICKS2
ASSUME UnitAssumption ==
    /\ Unit \in Nat \ {0}
    /\ PWM_PERIOD_TICKS % Unit = 0 /\ TimerRange % Unit = 0
ASSUME LatencyAssumption == MaxLatency \in Nat /\ MaxLatency < 2 * PWM_PERIOD_TICKS

VARIABLES
    TA1R,           \* the counter
    TA1CCR0,        \* the compare register
    CCIE, CCIFG,    \* the compare interrupt: enabled, and its flag
    enabling,       \* pwm_channel_enable has set CCIE, not yet the channel
    late,           \* ticks since the flag was raised
    ta1_ccr0_base, toggle_bit, current_speed_right, is_chanel_enabled,
    TA0CCR1,        \* the duty of the left wheel in percent
    pin,            \* IO_PWM_MOTORS_RIGHT is high
    phase,          \* history: the length of the phase the pin is in
    elapsed         \* history: ticks since the pin last changed

right == <<TA1CCR0, CCIFG, late, ta1_ccr0_base, toggle_bit, pin, phase, elapsed>>
vars == <<TA1R, CCIE, enabling, right, current_speed_right, is_chanel_enabled, TA0CCR1>>

TypeOK ==
    /\ TA1R \in 0 .. TimerRange - 1 /\ TA1CCR0 \in 0 .. TimerRange - 1
    /\ CCIE \in BOOLEAN /\ CCIFG \in BOOLEAN /\ enabling \in BOOLEAN
    /\ late \in 0 .. MaxLatency
    /\ ta1_ccr0_base \in 0 .. TimerRange - 1
    /\ toggle_bit \in BOOLEAN
    /\ current_speed_right \in PwmSpeeds
    /\ is_chanel_enabled \in [Wheels -> BOOLEAN]
    /\ TA0CCR1 \in 0 .. 100
    /\ pin \in BOOLEAN
    /\ phase \in {A1High(s) : s \in PwmSpeeds} \cup {0}
    /\ elapsed \in 0 .. 2 * PWM_PERIOD_TICKS2 + MaxLatency + Unit

-----------------------------------------------------------------------------
(* timer_a1_init; later ir_remote_init_ta1 restarts the counter, so it may *)
(* have any value when the first drive command comes.                      *)
Init ==
    /\ TA1R \in {n \in 0 .. TimerRange - 1 : n % Unit = 0}
    /\ TA1CCR0 = PWM_PERIOD_TICKS
    /\ CCIE = FALSE /\ CCIFG \in BOOLEAN /\ enabling = FALSE
    /\ late = 0
    /\ ta1_ccr0_base = PWM_PERIOD_TICKS
    /\ toggle_bit = FALSE
    /\ current_speed_right = "STOP"
    /\ is_chanel_enabled = [w \in Wheels |-> FALSE]
    /\ TA0CCR1 = 0
    /\ pin = FALSE
    /\ phase = 0
    /\ elapsed = 0

-----------------------------------------------------------------------------
(* pwm_channel_enable(PWM_RIGHT, true), up to the write of TA1CCTL0, which *)
(* also clears the flag that a free running counter has set long ago.      *)
EnableRight ==
    IF is_chanel_enabled["RIGHT"]
    THEN UNCHANGED <<CCIE, CCIFG, enabling>>
    ELSE CCIE' = TRUE /\ CCIFG' = FALSE /\ enabling' = TRUE

(* Mutant: STOP is stored as the speed of the right wheel. *)
SetDutyRight_StoresStop(speed) ==
    /\ current_speed_right' = speed
    /\ IF speed = "STOP" THEN UNCHANGED <<CCIE, CCIFG, enabling>> ELSE EnableRight
    /\ UNCHANGED <<TA0CCR1, is_chanel_enabled>>

(* pwm_both_timers_set_duty_cycle, for the right wheel: STOP does nothing. *)
SetDutyRight(speed) ==
    /\ IF speed = "STOP"
       THEN UNCHANGED <<current_speed_right, CCIE, CCIFG, enabling>>
       ELSE current_speed_right' = speed /\ EnableRight
    /\ UNCHANGED <<TA0CCR1, is_chanel_enabled>>

(* ... and for the left one. *)
SetDutyLeft(speed) ==
    /\ IF speed = "STOP"
       THEN UNCHANGED <<TA0CCR1, is_chanel_enabled>>
       ELSE /\ TA0CCR1' = A0Period(speed)
            /\ is_chanel_enabled' = [is_chanel_enabled EXCEPT !["LEFT"] = TRUE]
    /\ UNCHANGED <<current_speed_right, CCIE, CCIFG, enabling>>

SetDutyCycle(wheel, speed) ==
    /\ ~enabling
    /\ IF wheel = "RIGHT" THEN SetDutyRight(speed) ELSE SetDutyLeft(speed)
    /\ UNCHANGED <<TA1R, TA1CCR0, late, ta1_ccr0_base, toggle_bit, pin, phase, elapsed>>

(* The end of pwm_channel_enable.  An interrupt that came before found the *)
(* channel disabled.                                                       *)
ChannelEnabled ==
    /\ enabling
    /\ enabling' = FALSE
    /\ is_chanel_enabled' = [is_chanel_enabled EXCEPT !["RIGHT"] = TRUE]
    /\ UNCHANGED <<TA1R, CCIE, right, current_speed_right, TA0CCR1>>

-----------------------------------------------------------------------------
NextBase(ticks) == (ta1_ccr0_base + ticks) % TimerRange

(* isr_reset_continous_timer: the pin changes and its next phase begins.   *)

(* Mutant: the compare register is written before the base moves on. *)
Toggle_OldBase ==
    /\ pin' = ~toggle_bit
    /\ phase' = IF toggle_bit THEN A1Low ELSE A1High(current_speed_right)
    /\ elapsed' = 0
    /\ ta1_ccr0_base' = NextBase(phase')
    /\ TA1CCR0' = ta1_ccr0_base
    /\ toggle_bit' = ~toggle_bit

(* Mutant: the pin is driven high only. *)
Toggle_NoToggle ==
    /\ pin' = ~toggle_bit
    /\ phase' = IF toggle_bit THEN A1Low ELSE A1High(current_speed_right)
    /\ elapsed' = 0
    /\ ta1_ccr0_base' = NextBase(phase')
    /\ TA1CCR0' = ta1_ccr0_base'
    /\ UNCHANGED toggle_bit

Toggle ==
    /\ pin' = ~toggle_bit
    /\ phase' = IF toggle_bit THEN A1Low ELSE A1High(current_speed_right)
    /\ elapsed' = 0
    /\ ta1_ccr0_base' = NextBase(phase')
    /\ TA1CCR0' = ta1_ccr0_base'
    /\ toggle_bit' = ~toggle_bit

Isr ==
    /\ CCIE /\ CCIFG
    /\ CCIFG' = FALSE
    /\ late' = 0
    /\ IF is_chanel_enabled["RIGHT"] THEN Toggle
       ELSE /\ TA1CCR0' = ta1_ccr0_base
            /\ UNCHANGED <<pin, phase, elapsed, ta1_ccr0_base, toggle_bit>>
    /\ UNCHANGED <<TA1R, CCIE, enabling, current_speed_right, is_chanel_enabled, TA0CCR1>>

(* The counter runs; a pending interrupt is served within MaxLatency.      *)
Passed == (TA1CCR0 - TA1R - 1) % TimerRange < Unit     \* the compare matches

Count ==
    /\ CCIE /\ CCIFG => late + Unit <= MaxLatency
    /\ TA1R' = (TA1R + Unit) % TimerRange
    /\ CCIFG' = (CCIFG \/ Passed)
    /\ late' = IF CCIE /\ CCIFG THEN late + Unit ELSE 0
    /\ elapsed' = IF phase = 0 THEN 0 ELSE elapsed + Unit
    /\ UNCHANGED <<CCIE, enabling, TA1CCR0, ta1_ccr0_base, toggle_bit, pin, phase,
                   current_speed_right, is_chanel_enabled, TA0CCR1>>

Set == \E wheel \in Wheels, speed \in PwmSpeeds : SetDutyCycle(wheel, speed)

Next == Set \/ ChannelEnabled \/ Isr \/ Count

(* The processor goes on and the counter does not stop. *)
Spec ==
    /\ Init /\ [][Next]_vars
    /\ WF_vars(ChannelEnabled) /\ WF_vars(Isr) /\ WF_vars(Count)

-----------------------------------------------------------------------------
(* From the first phase on, the next compare always lies ahead, within the *)
(* phase the pin is in: whatever speed is set between two interrupts and   *)
(* however late they are, none is missed, and the wheel does not keep full *)
(* or no power for a turn of the counter (pwm_both_timers.c:103-120,       *)
(* 158-182).                                                               *)
NoCompareMissed ==
    phase # 0 /\ ~CCIFG => (TA1CCR0 - TA1R) % TimerRange \in 1 .. phase

(* Every phase of the pin has the length of the table for the speed that   *)
(* was current when it began, up to the latency of the interrupts at its   *)
(* two ends (pwm_both_timers.c:54-63, 158-182).                            *)
PhasesAsTable ==
    [][pin' # pin /\ phase # 0 =>
        elapsed \in phase - MaxLatency .. phase + MaxLatency]_vars

(* Once the right wheel has been given a speed its pin goes on toggling,   *)
(* whatever is set later and whenever the first interrupt came; only the   *)
(* mode pins stop the wheel (pwm_both_timers.c:73-81, 105-106, 158-182).   *)
PulsesGoOn == []<>(CCIE => pin) /\ []<>(CCIE => ~pin)
=============================================================================
