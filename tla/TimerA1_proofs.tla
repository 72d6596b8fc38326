-------------------------- MODULE TimerA1_proofs --------------------------
(***************************************************************************)
(* Proofs about the two drivers that share the free running counter of     *)
(* timer A1.                                                               *)
(*                                                                         *)
(* The software PWM (drivers/pwm_both_timers.c), for every length of the   *)
(* counter's turn, every unit of time down to a single tick, and every     *)
(* latency of the interrupt below the shortest phase.                      *)
(*                                                                         *)
(* The infrared decoder (drivers/ir_remote_ta1.c), for every number of     *)
(* bits in a byte, every set of pauses and every buffer size: glitches     *)
(* never turn a frame into another command, and clean frames are decoded.  *)
(***************************************************************************)
EXTENDS Pwm, IrRemote, FiniteSetTheorems, SequenceTheorems, TLAPS

(* Time passes in multiples of Unit. *)
Aligned(n) == \E k \in Int : n = k * Unit

(* The ticks from the counter to the compare register, and back.           *)
Ahead == (TA1CCR0 - TA1R) % TimerRange
Behind == (TA1R - TA1CCR0) % TimerRange

Pending == CCIE /\ CCIFG

(* The interrupt is enabled with the channel or just before it, and then   *)
(* with a speed; pulses are made only on an enabled channel.               *)
ChannelInv ==
    /\ CCIE <=> enabling \/ is_chanel_enabled["RIGHT"]
    /\ CCIE => current_speed_right # "STOP"
    /\ phase # 0 => is_chanel_enabled["RIGHT"]
    /\ ta1_ccr0_base = TA1CCR0

(* While the flag is down the compare is ahead, within the phase; when it  *)
(* is up the compare was as long ago as the interrupt is late.  Either way *)
(* the phase has begun at most MaxLatency after it should.                 *)
CompareInv ==
    /\ Aligned(TA1R) /\ Aligned(TA1CCR0)
    /\ ~Pending => late = 0
    /\ Pending => Behind = late
    /\ phase # 0 =>
          IF CCIFG THEN elapsed - late \in phase - MaxLatency .. phase
          ELSE Ahead \in 1 .. phase /\ elapsed + Ahead \in phase - MaxLatency .. phase
    /\ phase = 0 => elapsed = 0

(* The inductive invariant. *)
Inv ==
    /\ TypeOK
    /\ ChannelInv
    /\ CompareInv

-----------------------------------------------------------------------------
(* Remainders *)
LEMMA ModIs ==
    ASSUME NEW w \in Nat, w > 0, NEW q \in Int, NEW r \in 0 .. w - 1
    PROVE  (q * w + r) % w = r
  OBVIOUS

LEMMA DivIs ==
    ASSUME NEW w \in Nat, w > 0, NEW q \in Int, NEW r \in 0 .. w - 1
    PROVE  (q * w + r) \div w = q
  OBVIOUS

LEMMA DivMod ==
    ASSUME NEW w \in Nat, w > 0, NEW n \in Int
    PROVE  /\ n = (n \div w) * w + (n % w)
           /\ n \div w \in Int /\ n % w \in 0 .. w - 1
  OBVIOUS

(* A difference modulo w that is moved on, and stays in the turn. *)
LEMMA ModShift ==
    ASSUME NEW w \in Nat, w > 0, NEW n \in Int, NEW d \in Int, (n % w) + d \in 0 .. w - 1
    PROVE  (n + d) % w = (n % w) + d
  <1>1. n + d = (n \div w) * w + ((n % w) + d) /\ n \div w \in Int
    BY DivMod
  <1> QED BY <1>1, ModIs

(* Reducing one side of a difference first makes none. *)
LEMMA ModLeft ==
    ASSUME NEW w \in Nat, w > 0, NEW a \in Int, NEW b \in Int
    PROVE  ((a % w) - b) % w = (a - b) % w
  <1> DEFINE n == a - b
  <1>1. a = (a \div w) * w + (a % w) /\ a \div w \in Int /\ a % w \in Int
    BY DivMod
  <1>2. n = (n \div w) * w + (n % w) /\ n \div w \in Int /\ n % w \in 0 .. w - 1
    BY DivMod
  <1> DEFINE q == (n \div w) - (a \div w)
  <1>3. (a % w) - b = q * w + (n % w) /\ q \in Int
    BY <1>1, <1>2
  <1> QED BY <1>2, <1>3, ModIs

LEMMA ModRight ==
    ASSUME NEW w \in Nat, w > 0, NEW a \in Int, NEW b \in Int
    PROVE  (b - (a % w)) % w = (b - a) % w
  <1> DEFINE n == b - a
  <1>1. a = (a \div w) * w + (a % w) /\ a \div w \in Int /\ a % w \in Int
    BY DivMod
  <1>2. n = (n \div w) * w + (n % w) /\ n \div w \in Int /\ n % w \in 0 .. w - 1
    BY DivMod
  <1> DEFINE q == (n \div w) + (a \div w)
  <1>3. b - (a % w) = q * w + (n % w) /\ q \in Int
    BY <1>1, <1>2
  <1> QED BY <1>2, <1>3, ModIs
-----------------------------------------------------------------------------
LEMMA Constants ==
    /\ TimerRange \in Nat /\ TimerRange > 1600 /\ TimerRange % Unit = 0
    /\ MaxLatency \in 0 .. 199
    /\ Unit \in 1 .. 100 /\ PWM_PERIOD_TICKS % Unit = 0 /\ PWM_PERIOD_TICKS = 100
  <1>1. /\ TimerRange \in Nat /\ TimerRange > 1600 /\ MaxLatency \in 0 .. 199
        /\ Unit \in Nat /\ Unit > 0 /\ 100 % Unit = 0 /\ TimerRange % Unit = 0
    BY TimerAssumption, RangeAssumption, UnitAssumption, LatencyAssumption
    DEF PWM_PERIOD_TICKS2, PWM_PERIOD_TICKS
  <1>2. 100 = (100 \div Unit) * Unit + 0 /\ 100 \div Unit \in Int
    BY <1>1, DivMod
  <1>3. Unit <= 100
    BY <1>1, <1>2
  <1> QED BY <1>1, <1>3 DEF PWM_PERIOD_TICKS

LEMMA Divisor ==
    ASSUME NEW n \in Int, n % Unit = 0
    PROVE  \E c \in Int : n = c * Unit
  <1>1. n = (n \div Unit) * Unit + 0 /\ n \div Unit \in Int
    BY Constants, DivMod
  <1> QED BY <1>1, Constants

LEMMA AlignedSum ==
    ASSUME NEW a \in Int, NEW b \in Int, Aligned(a), Aligned(b)
    PROVE  Aligned(a + b) /\ Aligned(a - b)
  <1>1. PICK k \in Int : a = k * Unit
    BY DEF Aligned
  <1>2. PICK l \in Int : b = l * Unit
    BY DEF Aligned
  <1>3. a + b = (k + l) * Unit /\ a - b = (k - l) * Unit
    BY <1>1, <1>2, Constants
  <1> QED BY <1>3 DEF Aligned

LEMMA AlignedMod ==
    ASSUME NEW a \in Int, Aligned(a)
    PROVE  Aligned(a % TimerRange)
  <1>1. PICK k \in Int : a = k * Unit
    BY DEF Aligned
  <1>2. PICK c \in Int : TimerRange = c * Unit
    <2>1. TimerRange \in Int /\ TimerRange % Unit = 0
      BY Constants
    <2> QED BY ONLY <2>1, Divisor
  <1>3. a = (a \div TimerRange) * TimerRange + (a % TimerRange) /\ a \div TimerRange \in Int
        /\ a % TimerRange \in Int
    <2>1. TimerRange \in Nat /\ TimerRange > 0
      BY Constants
    <2> QED BY <2>1, DivMod
  <1>4. a % TimerRange = (k - (a \div TimerRange) * c) * Unit
    BY <1>1, <1>2, <1>3, Constants
  <1> QED BY <1>3, <1>4 DEF Aligned

(* The first multiple of Unit is Unit. *)
LEMMA AlignedFirst ==
    ASSUME NEW d \in 1 .. Unit, Aligned(d)
    PROVE  d = Unit
  <1>1. PICK k \in Int : d = k * Unit
    BY DEF Aligned
  <1>2. k >= 1
    BY <1>1, Constants
  <1>3. k * Unit >= Unit
    BY <1>2, Constants
  <1> QED BY <1>1, <1>3, Constants

LEMMA AlignedPeriods ==
    ASSUME NEW n \in Int, NEW p \in Int, p = n * PWM_PERIOD_TICKS
    PROVE  Aligned(p)
  <1>1. PICK c \in Int : PWM_PERIOD_TICKS = c * Unit
    BY Constants, Divisor
  <1>2. p = (n * c) * Unit
    BY <1>1, Constants DEF PWM_PERIOD_TICKS
  <1> QED BY <1>2 DEF Aligned

(* The phases of the table. *)
LEMMA Phases ==
    ASSUME NEW speed \in PwmSpeeds, speed # "STOP"
    PROVE  /\ A1High(speed) \in 200 .. 1600 /\ Aligned(A1High(speed))
           /\ A1Low \in 200 .. 1600 /\ Aligned(A1Low) /\ A1Low = A1High("HALF")
  <1>1. \E n \in 2 .. 16 : A1High(speed) = n * PWM_PERIOD_TICKS
    <2>1. A1High(speed) \in {1600, 1200, 800, 600, 400, 300, 200}
      BY DEF PwmSpeeds, A1High, PWM_PERIOD_TICKS2, PWM_PERIOD_TICKS
    <2> QED BY <2>1 DEF PWM_PERIOD_TICKS
  <1>2. A1Low = 8 * PWM_PERIOD_TICKS /\ A1Low = A1High("HALF") /\ A1Low = 800
    BY DEF A1Low, A1High, PWM_PERIOD_TICKS2, PWM_PERIOD_TICKS
  <1>3. PICK n \in 2 .. 16 : A1High(speed) = n * PWM_PERIOD_TICKS
    BY <1>1
  <1>4. A1High(speed) \in 200 .. 1600
    BY <1>3 DEF PWM_PERIOD_TICKS
  <1>5. n \in Int /\ 8 \in Int /\ A1High(speed) \in Int /\ A1Low \in Int
    BY <1>2, <1>4
  <1>6. Aligned(A1High(speed)) /\ Aligned(A1Low)
    BY <1>2, <1>3, <1>5, AlignedPeriods
  <1> QED BY <1>2, <1>4, <1>6

(* What TypeOK says of the arithmetic variables. *)
LEMMA Types ==
    ASSUME TypeOK
    PROVE  /\ TA1R \in 0 .. TimerRange - 1 /\ TA1CCR0 \in 0 .. TimerRange - 1
           /\ late \in 0 .. MaxLatency /\ phase \in 0 .. 1600 /\ elapsed \in Nat
           /\ TimerRange \in Nat /\ Unit \in 1 .. 100 /\ MaxLatency \in 0 .. 199
           /\ Ahead \in 0 .. TimerRange - 1 /\ Behind \in 0 .. TimerRange - 1
  <1>1. TA1R \in 0 .. TimerRange - 1 /\ TA1CCR0 \in 0 .. TimerRange - 1 /\ late \in 0 .. MaxLatency
    BY DEF TypeOK
  <1>2. phase \in 0 .. 1600
    <2>1. phase \in {A1High(s) : s \in PwmSpeeds} \cup {0}
      BY DEF TypeOK
    <2>2. A1High("STOP") = 1
      BY DEF A1High
    <2>3. ASSUME NEW s \in PwmSpeeds
          PROVE  A1High(s) \in 0 .. 1600
      BY <2>2, Phases
    <2> QED BY <2>1, <2>3
  <1>3. elapsed \in Nat
    BY Constants DEF TypeOK, PWM_PERIOD_TICKS2, PWM_PERIOD_TICKS
  <1>4. Ahead \in 0 .. TimerRange - 1 /\ Behind \in 0 .. TimerRange - 1
    <2>1. TA1CCR0 - TA1R \in Int /\ TA1R - TA1CCR0 \in Int /\ TimerRange > 0
      BY <1>1, Constants
    <2> QED BY <2>1, Constants, DivMod DEF Ahead, Behind
  <1> QED BY <1>1, <1>2, <1>3, <1>4, Constants
-----------------------------------------------------------------------------
LEMMA InitInv == Init => Inv
  <1> SUFFICES ASSUME Init
               PROVE  Inv
    OBVIOUS
  <1>1. TypeOK
    <2>1. /\ TA1R \in 0 .. TimerRange - 1 /\ TA1CCR0 \in 0 .. TimerRange - 1
          /\ ta1_ccr0_base \in 0 .. TimerRange - 1
          /\ late \in 0 .. MaxLatency
          /\ elapsed \in 0 .. 2 * PWM_PERIOD_TICKS2 + MaxLatency + Unit
      BY Constants DEF Init, PWM_PERIOD_TICKS2
    <2>2. /\ CCIE \in BOOLEAN /\ CCIFG \in BOOLEAN /\ enabling \in BOOLEAN
          /\ toggle_bit \in BOOLEAN /\ pin \in BOOLEAN
          /\ current_speed_right \in PwmSpeeds
          /\ is_chanel_enabled \in [Wheels -> BOOLEAN]
      BY DEF Init, PwmSpeeds
    <2>3. TA0CCR1 \in 0 .. 100
      BY DEF Init
    <2>4. phase \in {A1High(s) : s \in PwmSpeeds} \cup {0}
      BY DEF Init
    <2> QED BY <2>1, <2>2, <2>3, <2>4 DEF TypeOK
  <1>2. ChannelInv
    BY DEF Init, ChannelInv, Wheels
  <1>3. Aligned(TA1R) /\ Aligned(TA1CCR0)
    <2>1. TA1R \in Int /\ TA1R % Unit = 0
      BY Constants DEF Init
    <2>2. TA1CCR0 \in Int /\ TA1CCR0 % Unit = 0
      BY Constants DEF Init
    <2>3. \E c \in Int : TA1R = c * Unit
      BY <2>1, Divisor
    <2>4. \E c \in Int : TA1CCR0 = c * Unit
      BY <2>2, Divisor
    <2> QED BY <2>3, <2>4 DEF Aligned
  <1>4. CompareInv
    BY <1>3 DEF Init, CompareInv, Pending
  <1> QED BY <1>1, <1>2, <1>4 DEF Inv

(* pwm_both_timers_set_duty_cycle does not touch the timing of a phase. *)
LEMMA SetInv == Inv /\ Set => Inv'
  <1> SUFFICES ASSUME Inv, NEW wheel \in Wheels, NEW speed \in PwmSpeeds, SetDutyCycle(wheel, speed)
               PROVE  Inv'
    BY DEF Set
  <1>1. /\ ~enabling
        /\ UNCHANGED <<TA1R, TA1CCR0, late, ta1_ccr0_base, toggle_bit, pin, phase, elapsed>>
    BY DEF SetDutyCycle
  <1>2. \/ /\ UNCHANGED <<CCIE, CCIFG, enabling>>
           /\ \/ UNCHANGED current_speed_right
              \/ current_speed_right' = speed /\ speed # "STOP"
        \/ /\ ~is_chanel_enabled["RIGHT"] /\ CCIE' = TRUE /\ CCIFG' = FALSE /\ enabling' = TRUE
           /\ current_speed_right' = speed /\ speed # "STOP"
    BY DEF SetDutyCycle, SetDutyRight, SetDutyLeft, EnableRight
  <1>3. /\ is_chanel_enabled' \in [Wheels -> BOOLEAN]
        /\ is_chanel_enabled'["RIGHT"] = is_chanel_enabled["RIGHT"]
        /\ TA0CCR1' \in 0 .. 100
    <2>1. is_chanel_enabled \in [Wheels -> BOOLEAN] /\ TA0CCR1 \in 0 .. 100
      BY DEF Inv, TypeOK
    <2>2. \/ UNCHANGED <<TA0CCR1, is_chanel_enabled>>
          \/ /\ TA0CCR1' = A0Period(speed)
             /\ is_chanel_enabled' = [is_chanel_enabled EXCEPT !["LEFT"] = TRUE]
      BY DEF SetDutyCycle, SetDutyRight, SetDutyLeft
    <2>3. A0Period(speed) \in 0 .. 100
      BY DEF A0Period, PwmSpeeds
    <2> QED BY <2>1, <2>2, <2>3 DEF Wheels
  <1>4. TypeOK'
    <2>1. CCIE' \in BOOLEAN /\ CCIFG' \in BOOLEAN /\ enabling' \in BOOLEAN
          /\ current_speed_right' \in PwmSpeeds
      BY <1>2 DEF Inv, TypeOK
    <2> QED BY <1>1, <1>3, <2>1 DEF Inv, TypeOK
  <1>5. ChannelInv'
    BY <1>1, <1>2, <1>3 DEF Inv, ChannelInv
  <1>6. CompareInv'
    <2>1. CASE UNCHANGED <<CCIE, CCIFG>>
      BY <1>1, <2>1 DEF Inv, CompareInv, Pending, Behind, Ahead, Aligned
    <2>2. CASE ~is_chanel_enabled["RIGHT"] /\ CCIE' = TRUE /\ CCIFG' = FALSE
      <3>1. ~CCIE /\ phase = 0
        BY <1>1, <2>2 DEF Inv, ChannelInv
      <3> QED BY <1>1, <2>2, <3>1 DEF Inv, CompareInv, Pending, Aligned
    <2> QED BY <1>2, <2>1, <2>2
  <1> QED BY <1>4, <1>5, <1>6 DEF Inv

LEMMA ChannelEnabledInv == Inv /\ ChannelEnabled => Inv'
  <1> SUFFICES ASSUME Inv, ChannelEnabled
               PROVE  Inv'
    OBVIOUS
  <1>1. /\ enabling /\ enabling' = FALSE
        /\ is_chanel_enabled' = [is_chanel_enabled EXCEPT !["RIGHT"] = TRUE]
        /\ UNCHANGED <<TA1R, CCIE, current_speed_right, TA0CCR1>>
        /\ UNCHANGED <<TA1CCR0, CCIFG, late, ta1_ccr0_base, toggle_bit, pin, phase, elapsed>>
    BY DEF ChannelEnabled, right
  <1>2. is_chanel_enabled' \in [Wheels -> BOOLEAN] /\ is_chanel_enabled'["RIGHT"] = TRUE
    BY <1>1 DEF Inv, TypeOK, Wheels
  <1>3. TypeOK'
    BY <1>1, <1>2 DEF Inv, TypeOK
  <1>4. ChannelInv'
    BY <1>1, <1>2 DEF Inv, ChannelInv
  <1>5. CompareInv'
    BY <1>1 DEF Inv, CompareInv, Pending, Behind, Ahead, Aligned
  <1> QED BY <1>3, <1>4, <1>5 DEF Inv

(* isr_reset_continous_timer on an enabled channel: the next compare lies  *)
(* ahead, because the interrupt is served before the shortest phase is     *)
(* over.                                                                   *)
LEMMA ToggleAhead ==
    ASSUME Inv, Pending, Toggle, is_chanel_enabled["RIGHT"]
    PROVE  /\ phase' \in 200 .. 1600 /\ phase' \in {A1High(s) : s \in PwmSpeeds}
           /\ TA1CCR0' \in 0 .. TimerRange - 1 /\ Aligned(TA1CCR0')
           /\ (TA1CCR0' - TA1R) % TimerRange = phase' - late
  <1>1. /\ phase' = IF toggle_bit THEN A1Low ELSE A1High(current_speed_right)
        /\ TA1CCR0' = (TA1CCR0 + phase') % TimerRange
    BY DEF Toggle, NextBase, Inv, ChannelInv
  <1>2. current_speed_right \in PwmSpeeds /\ current_speed_right # "STOP"
    BY DEF Inv, TypeOK, ChannelInv, Pending
  <1>3. phase' \in 200 .. 1600 /\ Aligned(phase') /\ phase' \in {A1High(s) : s \in PwmSpeeds}
    <2>1. "HALF" \in PwmSpeeds
      BY DEF PwmSpeeds
    <2> QED BY <1>1, <1>2, <2>1, Phases
  <1>4. /\ TA1R \in 0 .. TimerRange - 1 /\ TA1CCR0 \in 0 .. TimerRange - 1
        /\ late \in 0 .. MaxLatency /\ Behind = late
    BY Types DEF Inv, CompareInv
  <1>5. TA1CCR0 + phase' \in Int /\ TimerRange > 0 /\ TimerRange \in Nat
    BY <1>3, <1>4, Constants
  <1>6. TA1CCR0' \in 0 .. TimerRange - 1
    BY <1>1, <1>5, DivMod
  <1>7. Aligned(TA1CCR0')
    <2>1. Aligned(TA1CCR0 + phase')
      BY <1>3, <1>4, AlignedSum DEF Inv, CompareInv
    <2> QED BY <1>1, <1>5, <2>1, AlignedMod
  <1>8. (TA1CCR0' - TA1R) % TimerRange = phase' - late
    <2> DEFINE n == TA1R - TA1CCR0
               q == n \div TimerRange
    <2>1. n = q * TimerRange + late /\ q \in Int
      BY <1>4, <1>5, DivMod DEF Behind
    <2>2. (TA1CCR0' - TA1R) % TimerRange = ((TA1CCR0 + phase') - TA1R) % TimerRange
      <3>1. TA1CCR0 + phase' \in Int /\ TA1R \in Int
        BY <1>4, <1>5
      <3> QED BY <1>1, <1>5, <3>1, ModLeft
    <2>3. phase' - late \in 0 .. TimerRange - 1
      <3>1. MaxLatency \in 0 .. 199 /\ TimerRange \in Nat /\ TimerRange > 1600
        BY Constants
      <3>2. late \in 0 .. 199
        BY <1>4, <3>1
      <3>3. phase' \in 200 .. 1600
        BY <1>3
      <3> DEFINE p == phase'
      <3>4. p \in 200 .. 1600
        BY <3>3
      <3> HIDE DEF p
      <3>5. p - late \in 0 .. TimerRange - 1
        BY <3>1, <3>2, <3>4
      <3> QED BY <3>5 DEF p
    <2>4. (TA1CCR0 + phase') - TA1R = (0 - q) * TimerRange + (phase' - late)
      <3> HIDE DEF q
      <3> QED BY <1>3, <1>4, <1>5, <2>1
    <2>5. 0 - q \in Int
      BY <2>1
    <2> HIDE DEF n, q
    <2> QED BY <1>5, <2>2, <2>3, <2>4, <2>5, ModIs
  <1> QED BY <1>3, <1>6, <1>7, <1>8

LEMMA IsrInv == Inv /\ Isr => Inv'
  <1> SUFFICES ASSUME Inv, Isr
               PROVE  Inv'
    OBVIOUS
  <1>1. /\ Pending /\ CCIFG' = FALSE /\ late' = 0
        /\ UNCHANGED <<TA1R, CCIE, enabling, current_speed_right, is_chanel_enabled, TA0CCR1>>
    BY DEF Isr, Pending
  <1>2. 0 \in 0 .. MaxLatency /\ late \in 0 .. MaxLatency
    BY Constants, Types DEF Inv
  <1>3. CASE is_chanel_enabled["RIGHT"]
    <2>1. Toggle
      BY <1>3 DEF Isr
    <2>2. /\ pin' = ~toggle_bit /\ toggle_bit' = ~toggle_bit /\ elapsed' = 0
          /\ ta1_ccr0_base' = TA1CCR0'
      BY <2>1 DEF Toggle
    <2>3. /\ phase' \in 200 .. 1600 /\ phase' \in {A1High(s) : s \in PwmSpeeds}
          /\ TA1CCR0' \in 0 .. TimerRange - 1 /\ Aligned(TA1CCR0')
          /\ (TA1CCR0' - TA1R) % TimerRange = phase' - late
      BY <1>1, <1>3, <2>1, ToggleAhead
    <2>4. TypeOK'
      <3>1. elapsed' \in 0 .. 2 * PWM_PERIOD_TICKS2 + MaxLatency + Unit
        BY <2>2, Constants DEF PWM_PERIOD_TICKS2
      <3>2. pin' \in BOOLEAN /\ toggle_bit' \in BOOLEAN /\ CCIFG' \in BOOLEAN
        BY <1>1, <2>2
      <3>3. /\ phase' \in {A1High(s) : s \in PwmSpeeds} \cup {0}
            /\ ta1_ccr0_base' \in 0 .. TimerRange - 1 /\ TA1CCR0' \in 0 .. TimerRange - 1
            /\ late' \in 0 .. MaxLatency
        BY <1>1, <1>2, <2>2, <2>3
      <3> QED BY <1>1, <3>1, <3>2, <3>3 DEF Inv, TypeOK
    <2>5. ChannelInv'
      BY <1>1, <1>3, <2>2 DEF Inv, ChannelInv
    <2>6. CompareInv'
      <3>1. Ahead' = phase' - late
        BY <1>1, <2>3 DEF Ahead
      <3>2. Ahead' \in 1 .. phase' /\ elapsed' + Ahead' \in phase' - MaxLatency .. phase'
        <4>1. phase' \in 200 .. 1600 /\ elapsed' = 0
          BY <2>2, <2>3
        <4>2. MaxLatency \in 0 .. 199 /\ late \in 0 .. MaxLatency
          BY <1>2, Constants
        <4> DEFINE p == phase'
        <4>3. p \in 200 .. 1600
          BY <4>1
        <4> HIDE DEF p
        <4>4. p - late \in 1 .. p /\ 0 + (p - late) \in p - MaxLatency .. p
          BY <4>2, <4>3
        <4> QED BY <3>1, <4>1, <4>4 DEF p
      <3> QED BY <1>1, <2>3, <3>2 DEF Inv, CompareInv, Pending, Aligned
    <2> QED BY <2>4, <2>5, <2>6 DEF Inv
  <1>4. CASE ~is_chanel_enabled["RIGHT"]
    <2>1. TA1CCR0' = TA1CCR0 /\ UNCHANGED <<pin, phase, elapsed, ta1_ccr0_base, toggle_bit>>
      BY <1>4 DEF Isr, Inv, ChannelInv
    <2>2. TypeOK'
      BY <1>1, <1>2, <2>1 DEF Inv, TypeOK
    <2>3. ChannelInv'
      BY <1>1, <2>1 DEF Inv, ChannelInv
    <2>4. CompareInv'
      BY <1>1, <1>4, <2>1 DEF Inv, CompareInv, ChannelInv, Pending, Aligned
    <2> QED BY <2>2, <2>3, <2>4 DEF Inv
  <1> QED BY <1>3, <1>4

(* The compare matches in the next step if it is at most that far ahead.   *)
LEMMA PassedIs ==
    ASSUME TypeOK
    PROVE  Passed <=> Ahead \in 1 .. Unit
  <1> DEFINE n == TA1CCR0 - TA1R
  <1>1. /\ n \in Int /\ TimerRange \in Nat /\ TimerRange > 1600 /\ Unit \in 1 .. 100
        /\ n % TimerRange \in 0 .. TimerRange - 1
    BY Types, Constants DEF Ahead
  <1>2. TA1CCR0 - TA1R - 1 = n + (-1) /\ -1 \in Int
    BY <1>1
  <1>w. TimerRange \in Nat /\ TimerRange > 0
    BY <1>1
  <1>n. n \in Int
    BY <1>1
  <1>3. CASE n % TimerRange = 0
    <2>1. n = (n \div TimerRange) * TimerRange + 0 /\ n \div TimerRange \in Int
      <3> HIDE DEF n
      <3> QED BY <1>w, <1>n, <1>3, DivMod
    <2> DEFINE q == n \div TimerRange
    <2>2. q \in Int /\ n = q * TimerRange
      BY <1>1, <2>1
    <2> HIDE DEF q, n
    <2>3. n + (-1) = (q - 1) * TimerRange + (TimerRange - 1)
      BY <1>1, <2>2
    <2>4. q - 1 \in Int /\ TimerRange - 1 \in 0 .. TimerRange - 1 /\ TimerRange > 0
      BY <1>1, <2>2
    <2>5. (n + (-1)) % TimerRange = TimerRange - 1
      BY <1>w, <2>3, <2>4, ModIs
    <2>6. ~((n + (-1)) % TimerRange < Unit)
      BY <1>1, <2>5
    <2> QED BY <1>2, <1>3, <2>6 DEF Passed, Ahead, n
  <1>4. CASE n % TimerRange # 0
    <2> DEFINE r == n % TimerRange
    <2>1. r + (-1) \in 0 .. TimerRange - 1 /\ r \in 1 .. TimerRange - 1
      BY <1>1, <1>4
    <2>2. (n + (-1)) % TimerRange = r + (-1)
      <3> HIDE DEF n
      <3> QED BY <1>1, <1>2, <2>1, ModShift
    <2> HIDE DEF r
    <2>3. r + (-1) < Unit <=> r \in 1 .. Unit
      BY <1>1, <2>1
    <2> QED BY <1>2, <2>2, <2>3 DEF Passed, Ahead, r
  <1> QED BY <1>3, <1>4

(* The counter moves towards the compare register, or away from it.        *)
LEMMA CountMoves ==
    ASSUME TypeOK, Aligned(TA1R), Aligned(TA1CCR0),
           TA1R' = (TA1R + Unit) % TimerRange, TA1CCR0' = TA1CCR0
    PROVE  /\ TA1R' \in 0 .. TimerRange - 1 /\ Aligned(TA1R')
           /\ Ahead >= Unit => Ahead' = Ahead - Unit
           /\ Behind + Unit <= MaxLatency => Behind' = Behind + Unit
           /\ Ahead = Unit => Behind' = 0
           /\ Passed => Ahead = Unit
  <1>1. /\ TA1R \in Int /\ TA1CCR0 \in Int /\ Unit \in 1 .. 100
        /\ TimerRange \in Nat /\ TimerRange > 1600 /\ TimerRange > 0 /\ MaxLatency \in 0 .. 199
        /\ Ahead \in 0 .. TimerRange - 1 /\ Behind \in 0 .. TimerRange - 1
    BY Types, Constants
  <1>2. TA1R + Unit \in Int /\ TA1CCR0 - TA1R \in Int /\ TA1R - TA1CCR0 \in Int /\ Unit \in Int
    BY <1>1
  <1>w. TimerRange \in Nat /\ TimerRange > 0
    BY <1>1
  <1>3. Aligned(Unit)
    <2>1. Unit = 1 * Unit /\ 1 \in Int
      BY <1>1
    <2> QED BY <2>1 DEF Aligned
  <1>4. TA1R' \in 0 .. TimerRange - 1 /\ Aligned(TA1R')
    <2>1. Aligned(TA1R + Unit)
      BY <1>1, <1>2, <1>3, AlignedSum
    <2> QED BY <1>1, <1>2, <2>1, AlignedMod, DivMod
  <1>5. Ahead' = ((TA1CCR0 - TA1R) + (-Unit)) % TimerRange
    <2>1. Ahead' = (TA1CCR0 - ((TA1R + Unit) % TimerRange)) % TimerRange
      BY DEF Ahead
    <2>2. (TA1CCR0 - ((TA1R + Unit) % TimerRange)) % TimerRange = (TA1CCR0 - (TA1R + Unit)) % TimerRange
      <3> DEFINE a == TA1R + Unit
                 b == TA1CCR0
      <3>1. a \in Int /\ b \in Int
        BY <1>1, <1>2
      <3> HIDE DEF a, b
      <3>2. (b - (a % TimerRange)) % TimerRange = (b - a) % TimerRange
        BY <1>w, <3>1, ModRight
      <3> QED BY <3>2 DEF a, b
    <2>3. TA1CCR0 - (TA1R + Unit) = (TA1CCR0 - TA1R) + (-Unit)
      BY <1>1
    <2> QED BY <2>1, <2>2, <2>3
  <1>6. Behind' = ((TA1R - TA1CCR0) + Unit) % TimerRange
    <2>1. Behind' = (((TA1R + Unit) % TimerRange) - TA1CCR0) % TimerRange
      BY DEF Behind
    <2>2. (((TA1R + Unit) % TimerRange) - TA1CCR0) % TimerRange = ((TA1R + Unit) - TA1CCR0) % TimerRange
      <3> DEFINE a == TA1R + Unit
                 b == TA1CCR0
      <3>1. a \in Int /\ b \in Int
        BY <1>1, <1>2
      <3> HIDE DEF a, b
      <3>2. ((a % TimerRange) - b) % TimerRange = (a - b) % TimerRange
        BY <1>w, <3>1, ModLeft
      <3> QED BY <3>2 DEF a, b
    <2>3. (TA1R + Unit) - TA1CCR0 = (TA1R - TA1CCR0) + Unit
      BY <1>1
    <2> QED BY <2>1, <2>2, <2>3
  <1>7. ASSUME Ahead >= Unit
        PROVE  Ahead' = Ahead - Unit
    <2> DEFINE n == TA1CCR0 - TA1R
    <2>1. n \in Int /\ -Unit \in Int /\ Ahead = n % TimerRange
      BY <1>1, <1>2 DEF Ahead
    <2>2. Ahead + (-Unit) \in 0 .. TimerRange - 1 /\ Ahead + (-Unit) = Ahead - Unit
      BY <1>1, <1>7
    <2> HIDE DEF n
    <2>3. (n % TimerRange) + (-Unit) \in 0 .. TimerRange - 1
      BY <2>1, <2>2
    <2>4. (n + (-Unit)) % TimerRange = (n % TimerRange) + (-Unit)
      <3>1. n \in Int /\ -Unit \in Int
        BY <2>1
      <3> QED BY <1>w, <2>3, <3>1, ModShift
    <2> QED BY <1>5, <2>1, <2>2, <2>4 DEF n
  <1>8. ASSUME Behind + Unit <= MaxLatency
        PROVE  Behind' = Behind + Unit
    <2> DEFINE n == TA1R - TA1CCR0
    <2>1. n \in Int /\ Behind = n % TimerRange
      BY <1>1, <1>2 DEF Behind
    <2>2. Behind + Unit \in 0 .. TimerRange - 1
      BY <1>1, <1>8
    <2> HIDE DEF n
    <2>3. (n % TimerRange) + Unit \in 0 .. TimerRange - 1
      BY <2>1, <2>2
    <2>4. (n + Unit) % TimerRange = (n % TimerRange) + Unit
      <3>1. n \in Int /\ Unit \in Int
        BY <1>2, <2>1
      <3> QED BY <1>w, <2>3, <3>1, ModShift
    <2> QED BY <1>6, <2>1, <2>4 DEF n
  <1>9. ASSUME Ahead = Unit
        PROVE  Behind' = 0
    <2> DEFINE n == TA1CCR0 - TA1R
               q == n \div TimerRange
    <2>1. n \in Int /\ n % TimerRange = Unit
      BY <1>2, <1>9 DEF Ahead
    <2>2. n = q * TimerRange + Unit /\ q \in Int
      BY <1>1, <2>1, DivMod
    <2>3. (TA1R - TA1CCR0) + Unit = (0 - q) * TimerRange + 0
      <3>1. (TA1R - TA1CCR0) + Unit = Unit - n
        BY <1>1
      <3> HIDE DEF n, q
      <3>2. Unit - n = (0 - q) * TimerRange + 0
        BY <1>1, <2>2
      <3> QED BY <3>1, <3>2
    <2>4. 0 - q \in Int /\ 0 \in 0 .. TimerRange - 1
      BY <1>1, <2>2
    <2> DEFINE k == 0 - q
               m == (TA1R - TA1CCR0) + Unit
    <2>5. m = k * TimerRange + 0 /\ k \in Int
      BY <2>3, <2>4
    <2>6. Behind' = m % TimerRange
      BY <1>6
    <2> HIDE DEF n, q, k, m
    <2>7. (k * TimerRange + 0) % TimerRange = 0
      BY <1>w, <2>4, <2>5, ModIs
    <2> QED BY <2>5, <2>6, <2>7
  <1>10. ASSUME Passed
         PROVE  Ahead = Unit
    <2>1. Ahead \in 1 .. Unit
      BY <1>10, PassedIs
    <2>2. Aligned(TA1CCR0 - TA1R)
      BY <1>1, AlignedSum
    <2>3. Aligned(Ahead)
      BY <1>2, <2>2, AlignedMod DEF Ahead
    <2> QED BY <2>1, <2>3, AlignedFirst
  <1> QED BY <1>4, <1>7, <1>8, <1>9, <1>10

(* A step of the counter leaves the end of the phase where it was; the     *)
(* flag goes up exactly when the counter arrives there.                    *)
LEMMA CountInv == Inv /\ Count => Inv'
  <1> SUFFICES ASSUME Inv, Count
               PROVE  Inv'
    OBVIOUS
  <1>1. /\ Pending => late + Unit <= MaxLatency
        /\ TA1R' = (TA1R + Unit) % TimerRange
        /\ CCIFG' = (CCIFG \/ Passed)
        /\ UNCHANGED <<CCIE, enabling, TA1CCR0, ta1_ccr0_base, toggle_bit, pin, phase,
                       current_speed_right, is_chanel_enabled, TA0CCR1>>
    BY DEF Count, Pending
  <1>2. /\ Pending => late' = late + Unit
        /\ ~Pending => late' = 0
        /\ phase = 0 => elapsed' = 0
        /\ phase # 0 => elapsed' = elapsed + Unit
    BY DEF Count, Pending
  <1>3. /\ late \in 0 .. MaxLatency /\ phase \in 0 .. 1600 /\ elapsed \in Nat
        /\ Unit \in 1 .. 100 /\ MaxLatency \in 0 .. 199
        /\ Ahead \in Nat /\ Behind \in Nat
    BY Types DEF Inv
  <1>4. /\ TA1R' \in 0 .. TimerRange - 1 /\ Aligned(TA1R')
        /\ Ahead >= Unit => Ahead' = Ahead - Unit
        /\ Behind + Unit <= MaxLatency => Behind' = Behind + Unit
        /\ Ahead = Unit => Behind' = 0
        /\ Passed => Ahead = Unit
    BY <1>1, CountMoves DEF Inv, CompareInv
  <1>5. Passed <=> Ahead \in 1 .. Unit
    BY PassedIs DEF Inv
  <1>6. ChannelInv'
    BY <1>1 DEF Inv, ChannelInv
  <1>7. /\ phase # 0 /\ CCIFG => Pending
        /\ phase # 0 /\ ~CCIFG => ~Pending
        /\ Pending' <=> Pending \/ (CCIE /\ Passed)
    BY <1>1 DEF Inv, ChannelInv, Pending
  <1>8. late' \in 0 .. MaxLatency
    BY <1>1, <1>2, <1>3
  <1>9. Pending' => Behind' = late'
    <2>1. CASE Pending
      BY <1>1, <1>2, <1>4, <2>1 DEF Inv, CompareInv
    <2>2. CASE ~Pending /\ Passed
      BY <1>2, <1>4, <2>2
    <2> QED BY <1>7, <2>1, <2>2
  <1>10. ASSUME phase # 0, CCIFG
         PROVE  elapsed' - late' \in phase - MaxLatency .. phase
    <2>1. elapsed - late \in phase - MaxLatency .. phase
      BY <1>10 DEF Inv, CompareInv
    <2>2. elapsed' = elapsed + Unit /\ late' = late + Unit
      BY <1>2, <1>7, <1>10
    <2>3. (elapsed + Unit) - (late + Unit) = elapsed - late
      BY <1>3
    <2> QED BY <2>1, <2>2, <2>3
  <1>11. ASSUME phase # 0, ~CCIFG
         PROVE  /\ Passed => elapsed' - late' \in phase - MaxLatency .. phase
                /\ ~Passed => /\ Ahead' \in 1 .. phase
                              /\ elapsed' + Ahead' \in phase - MaxLatency .. phase
    <2>1. Ahead \in 1 .. phase /\ elapsed + Ahead \in phase - MaxLatency .. phase
      BY <1>11 DEF Inv, CompareInv
    <2>2. elapsed' = elapsed + Unit /\ late' = 0
      BY <1>2, <1>7, <1>11
    <2>3. ASSUME Passed
          PROVE  elapsed' - late' = elapsed + Ahead
      <3>1. Ahead = Unit
        BY <1>4, <2>3
      <3> QED BY <1>3, <2>2, <3>1
    <2>4. ASSUME ~Passed
          PROVE  Ahead' \in 1 .. phase /\ elapsed' + Ahead' = elapsed + Ahead
      <3>1. Ahead > Unit
        BY <1>3, <1>5, <2>1, <2>4
      <3>2. Ahead' = Ahead - Unit
        BY <1>3, <1>4, <3>1
      <3>3. Ahead - Unit \in 1 .. phase /\ (elapsed + Unit) + (Ahead - Unit) = elapsed + Ahead
        BY <1>3, <2>1, <3>1
      <3> QED BY <2>2, <3>2, <3>3
    <2> QED BY <2>1, <2>3, <2>4
  <1>12. CompareInv'
    <2>1. Aligned(TA1R)' /\ Aligned(TA1CCR0)'
      BY <1>1, <1>4 DEF Inv, CompareInv, Aligned
    <2>2. ~Pending' => late' = 0
      BY <1>2, <1>7
    <2>3. phase' # 0 =>
             IF CCIFG' THEN elapsed' - late' \in phase' - MaxLatency .. phase'
             ELSE Ahead' \in 1 .. phase' /\ elapsed' + Ahead' \in phase' - MaxLatency .. phase'
      <3>1. phase' = phase
        BY <1>1
      <3>2. CASE CCIFG
        BY <1>1, <1>10, <3>1, <3>2
      <3>3. CASE ~CCIFG
        BY <1>1, <1>11, <3>1, <3>3
      <3> QED BY <3>2, <3>3
    <2>4. phase' = 0 => elapsed' = 0
      BY <1>1, <1>2
    <2> QED BY <1>9, <2>1, <2>2, <2>3, <2>4 DEF CompareInv
  <1>13. elapsed' \in 0 .. 2 * PWM_PERIOD_TICKS2 + MaxLatency + Unit
    <2>1. elapsed' <= 1600 + MaxLatency
      <3>1. CASE phase = 0
        BY <1>2, <1>3, <3>1
      <3>2. CASE phase # 0 /\ (CCIFG \/ Passed)
        <4>1. elapsed' - late' \in phase - MaxLatency .. phase
          BY <1>10, <1>11, <3>2
        <4>2. elapsed' = elapsed + Unit
          BY <1>2, <3>2
        <4> DEFINE e == elapsed'
                   l == late'
        <4>3. /\ e \in Int /\ l \in Int /\ l <= MaxLatency /\ e - l \in phase - MaxLatency .. phase
              /\ phase \in Int /\ phase <= 1600 /\ MaxLatency \in Int
          <5>1. e \in Int
            BY <1>3, <4>2
          <5>2. l \in Int /\ l <= MaxLatency
            BY <1>3, <1>8
          <5>3. phase \in Int /\ phase <= 1600 /\ MaxLatency \in Int
            BY <1>3
          <5>4. e - l \in phase - MaxLatency .. phase
            BY ONLY <4>1
          <5> HIDE DEF e, l
          <5> QED BY ONLY <5>1, <5>2, <5>3, <5>4
        <4> HIDE DEF e, l
        <4>4. e - l <= phase
          BY <4>3
        <4>5. e <= 1600 + MaxLatency
          BY <4>3, <4>4
        <4> QED BY <4>5 DEF e
      <3>3. CASE phase # 0 /\ ~CCIFG /\ ~Passed
        <4>1. Ahead \in 1 .. phase /\ elapsed + Ahead \in phase - MaxLatency .. phase /\ Ahead > Unit
          BY <1>3, <1>5, <3>3 DEF Inv, CompareInv
        <4>2. elapsed' = elapsed + Unit
          BY <1>2, <3>3
        <4>3. elapsed \in Int /\ Unit \in Int /\ MaxLatency \in Nat /\ phase \in 0 .. 1600
          BY <1>3
        <4>4. elapsed + Ahead <= phase
          BY ONLY <4>1, <4>3
        <4>5. elapsed + Unit <= phase
          BY ONLY <4>1, <4>3, <4>4
        <4> QED BY ONLY <4>2, <4>3, <4>5
      <3> QED BY <1>3, <3>1, <3>2, <3>3
    <2>2. elapsed' \in Nat
      BY <1>2, <1>3
    <2> QED BY <1>3, <2>1, <2>2 DEF PWM_PERIOD_TICKS2, PWM_PERIOD_TICKS
  <1>14. TypeOK'
    <2>1. CCIFG' \in BOOLEAN
      BY <1>1 DEF Inv, TypeOK, Passed
    <2> QED BY <1>1, <1>4, <1>8, <1>13, <2>1 DEF Inv, TypeOK
  <1> QED BY <1>6, <1>12, <1>14 DEF Inv

LEMMA NextInv == Inv /\ [Next]_vars => Inv'
  <1> SUFFICES ASSUME Inv, [Next]_vars
               PROVE  Inv'
    OBVIOUS
  <1>1. CASE UNCHANGED vars
    BY <1>1 DEF vars, right, Inv, TypeOK, ChannelInv, CompareInv, Pending, Ahead, Behind, Aligned
  <1> QED BY <1>1, SetInv, ChannelEnabledInv, IsrInv, CountInv DEF Next

-----------------------------------------------------------------------------
(* The inductive invariant holds: whenever the pin is given pulses the     *)
(* compare register, the flag and the time the phase has lasted agree.     *)
THEOREM InvCorrect == Spec => []Inv
  BY InitInv, NextInv, PTL DEF Spec

(* The variables keep their ranges; a phase never lasts longer than the    *)
(* longest of the table and the latency (pwm_both_timers.c:54-63).         *)
THEOREM TypeCorrect == Spec => []TypeOK
  <1>1. Inv => TypeOK
    BY DEF Inv
  <1> QED BY <1>1, InvCorrect, PTL

(* No compare is missed, whatever speed is set between two interrupts and  *)
(* however late they are within the shortest phase                         *)
(* (pwm_both_timers.c:103-120, 158-182).                                   *)
THEOREM CompareCorrect == Spec => []NoCompareMissed
  <1>1. Inv => NoCompareMissed
    BY DEF Inv, CompareInv, NoCompareMissed, Ahead
  <1> QED BY <1>1, InvCorrect, PTL

(* Every phase of the pin has the length of the table, up to the latency   *)
(* (pwm_both_timers.c:54-63, 158-182).                                     *)
THEOREM PhasesCorrect == Spec => PhasesAsTable
  <1>1. Inv /\ [Next]_vars =>
          [pin' # pin /\ phase # 0 => elapsed \in phase - MaxLatency .. phase + MaxLatency]_vars
    <2> SUFFICES ASSUME Inv, Next, pin' # pin, phase # 0
                 PROVE  elapsed \in phase - MaxLatency .. phase + MaxLatency
      OBVIOUS
    <2>1. Isr
      BY DEF Next, Set, SetDutyCycle, ChannelEnabled, right, Count
    <2>2. late \in 0 .. MaxLatency /\ phase \in 0 .. 1600 /\ elapsed \in Nat /\ MaxLatency \in 0 .. 199
      BY Types DEF Inv
    <2>3. elapsed - late \in phase - MaxLatency .. phase
      BY <2>1 DEF Isr, Inv, CompareInv
    <2> QED BY <2>2, <2>3
  <1> QED BY <1>1, InvCorrect, PTL DEF Spec, PhasesAsTable

-----------------------------------------------------------------------------
(* The infrared decoder *)
(* The remote's decoder: what it knows of the byte under way. *)
Ones(t, k) == {i \in 1 .. k : t[i] = 1}

(* The k bits received of a byte, t, are at the top of the byte, with the  *)
(* zeros of glitches between them and nothing else; s is how often it was  *)
(* shifted since the first of them entered.                                *)
InPlace(byte, t, k, s) ==
    /\ \A i \in 1 .. ByteBits - s : byte[i] = 0
    /\ k = 0 => s = 0
    /\ k > 0 => byte[ByteBits - s + 1] = t[1]
    /\ s = k => \A i \in 1 .. k : byte[ByteBits - k + i] = t[i]
    /\ Cardinality(Ones(byte, ByteBits)) <= Cardinality(Ones(t, k))

(* The first bit was shifted out: if it was a one, a one is lost.          *)
ShiftedOut(byte, t, k) ==
    /\ k > 0
    /\ Cardinality(Ones(byte, ByteBits)) + t[1] <= Cardinality(Ones(t, k))

(* The byte follows the bits t; only glitches come between them.           *)
Follows(byte, t, k, bad) ==
    \/ \E s \in k .. ByteBits : InPlace(byte, t, k, s) /\ (s # k => bad)
    \/ ShiftedOut(byte, t, k) /\ bad

(* The bytes that are complete.                                            *)
Stored == rx.bit_count \div ByteBits

(* The inductive invariant of the decoder: the byte under way and those    *)
(* that are complete follow the bits received for them.                    *)
DecoderInv ==
    /\ IrTypeOK /\ CountersAgree
    /\ Follows(rx.current_byte, ByteOf(bits, Stored + 1), rx.byte_bit_count,
               Stored + 1 \in glitched)
    /\ \A n \in 1 .. Stored :
          Follows(ir_message[ByteNames[n]], ByteOf(bits, n), ByteBits, n \in glitched)

-----------------------------------------------------------------------------
LEMMA IrConstants ==
    /\ ByteBits \in Nat \ {0} /\ IrBufferSize \in Nat \ {0}
    /\ TimerRange \in Nat \ {0} /\ Gaps \subseteq Nat
  BY ByteAssumption, BufferAssumption, TimerAssumption, GapsAssumption

(* Ones of a byte. *)
LEMMA OnesFinite ==
    ASSUME NEW t, NEW k \in Nat
    PROVE  IsFiniteSet(Ones(t, k)) /\ Cardinality(Ones(t, k)) \in Nat
  <1>1. IsFiniteSet(1 .. k)
    BY FS_Interval
  <1>2. Ones(t, k) \in SUBSET (1 .. k)
    BY DEF Ones
  <1> QED BY <1>1, <1>2, FS_Subset, FS_CardinalityType

LEMMA OnesAppend ==
    ASSUME NEW t, NEW u, NEW k \in Nat, \A i \in 1 .. k : u[i] = t[i], u[k + 1] \in {0, 1}
    PROVE  Cardinality(Ones(u, k + 1)) = Cardinality(Ones(t, k)) + u[k + 1]
  <1>1. IsFiniteSet(Ones(t, k)) /\ Cardinality(Ones(t, k)) \in Nat
    BY OnesFinite
  <1>2. k + 1 \notin Ones(t, k)
    BY DEF Ones
  <1>3. CASE u[k + 1] = 1
    <2>1. Ones(u, k + 1) = Ones(t, k) \cup {k + 1}
      BY <1>3 DEF Ones
    <2> QED BY <1>1, <1>2, <1>3, <2>1, FS_AddElement
  <1>4. CASE u[k + 1] = 0
    <2>1. Ones(u, k + 1) = Ones(t, k)
      BY <1>4 DEF Ones
    <2> QED BY <1>1, <1>4, <2>1
  <1> QED BY <1>3, <1>4

(* A shift gains the bit that enters and loses the lowest one. *)
LEMMA OnesShifted ==
    ASSUME NEW byte \in Bytes, NEW dur
    PROVE  Cardinality(Ones(Shifted(byte, dur), ByteBits)) + byte[1]
              <= Cardinality(Ones(byte, ByteBits)) + BitOf(dur)
  <1> DEFINE new == Shifted(byte, dur)
             top == ByteBits - 1
             kept == Ones(byte, ByteBits) \ {1}
  <1>1. /\ ByteBits \in Nat \ {0} /\ top \in Nat /\ top + 1 = ByteBits
        /\ BitOf(dur) \in {0, 1} /\ byte[1] \in {0, 1}
    BY IrConstants DEF Bytes, BitOf
  <1>2. /\ new[top + 1] = BitOf(dur)
        /\ \A i \in 1 .. top : new[i] = byte[i + 1]
    BY <1>1 DEF Shifted
  <1>3. Cardinality(Ones(new, ByteBits)) = Cardinality(Ones(new, top)) + BitOf(dur)
    <2> HIDE DEF new, top
    <2> QED BY <1>1, <1>2, OnesAppend
  <1>4. /\ IsFiniteSet(kept) /\ Cardinality(Ones(byte, ByteBits)) \in Nat
        /\ Cardinality(kept) + byte[1] = Cardinality(Ones(byte, ByteBits))
    <2>1. IsFiniteSet(Ones(byte, ByteBits)) /\ Cardinality(Ones(byte, ByteBits)) \in Nat
      BY <1>1, OnesFinite
    <2>2. 1 \in Ones(byte, ByteBits) <=> byte[1] = 1
      BY <1>1 DEF Ones
    <2>3. /\ IsFiniteSet(kept)
          /\ Cardinality(kept) = IF 1 \in Ones(byte, ByteBits)
                                 THEN Cardinality(Ones(byte, ByteBits)) - 1
                                 ELSE Cardinality(Ones(byte, ByteBits))
      BY <2>1, FS_RemoveElement
    <2> HIDE DEF kept
    <2> QED BY <1>1, <2>1, <2>2, <2>3
  <1>5. Cardinality(Ones(new, top)) <= Cardinality(kept)
    <2> DEFINE up == [i \in Ones(new, top) |-> i + 1]
    <2>1. \A i \in Ones(new, top) : i \in Int /\ i + 1 \in kept
      BY <1>1, <1>2 DEF Ones
    <2>2. up \in Injection(Ones(new, top), kept)
      BY <2>1 DEF Injection, IsInjective
    <2> HIDE DEF up, new, kept, top
    <2> QED BY <1>4, <2>2, FS_Injection
  <1>6. Cardinality(Ones(new, top)) \in Nat /\ Cardinality(kept) \in Nat
    BY <1>1, <1>4, OnesFinite, FS_CardinalityType
  <1> HIDE DEF new, kept, top
  <1>7. Cardinality(Ones(new, ByteBits)) + byte[1]
           <= Cardinality(Ones(byte, ByteBits)) + BitOf(dur)
    BY <1>1, <1>3, <1>4, <1>5, <1>6
  <1> QED BY <1>7 DEF new

(* Two bytes that differ in every bit have as many ones as a byte has bits. *)
LEMMA OnesOfComplements ==
    ASSUME NEW a \in Bytes, NEW b \in Bytes,
           \A i \in 1 .. ByteBits : a[i] # b[i]
    PROVE  Cardinality(Ones(a, ByteBits)) + Cardinality(Ones(b, ByteBits)) = ByteBits
  <1>1. ByteBits \in Nat
    BY IrConstants
  <1>2. IsFiniteSet(1 .. ByteBits) /\ Cardinality(1 .. ByteBits) = ByteBits
    BY <1>1, FS_Interval
  <1>3. \A i \in 1 .. ByteBits : b[i] = 1 <=> a[i] # 1
    BY DEF Bytes
  <1>4. Ones(b, ByteBits) = (1 .. ByteBits) \ Ones(a, ByteBits)
    BY <1>3 DEF Ones
  <1>5. (1 .. ByteBits) \cap Ones(a, ByteBits) = Ones(a, ByteBits)
    BY DEF Ones
  <1>6. Cardinality(Ones(a, ByteBits)) \in Nat
    BY <1>1, OnesFinite
  <1>7. Cardinality((1 .. ByteBits) \ Ones(a, ByteBits)) =
           Cardinality(1 .. ByteBits) - Cardinality((1 .. ByteBits) \cap Ones(a, ByteBits))
    BY <1>2, FS_Difference
  <1>8. Cardinality(Ones(b, ByteBits)) = ByteBits - Cardinality(Ones(a, ByteBits))
    BY <1>2, <1>4, <1>5, <1>7
  <1> QED BY <1>1, <1>6, <1>8

(* A bit enters: the byte goes on to follow what is received, unless the   *)
(* first bit is shifted out, which takes a glitch.                         *)
LEMMA BitFollows ==
    ASSUME NEW byte \in Bytes, NEW dur, NEW k \in 0 .. ByteBits - 1, NEW t, NEW u,
           \A i \in 1 .. k : u[i] = t[i] /\ t[i] \in {0, 1},
           u[k + 1] = BitOf(dur),
           NEW bad \in BOOLEAN, Follows(byte, t, k, bad)
    PROVE  Follows(Shifted(byte, dur), u, k + 1, bad)
  <1> DEFINE new == Shifted(byte, dur)
             ones == Cardinality(Ones(byte, ByteBits))
             had == Cardinality(Ones(t, k))
             newOnes == Cardinality(Ones(new, ByteBits))
             has == Cardinality(Ones(u, k + 1))
  <1>1. /\ ByteBits \in Nat \ {0} /\ k \in Nat /\ k < ByteBits
        /\ BitOf(dur) \in {0, 1} /\ \A i \in 1 .. ByteBits : byte[i] \in {0, 1}
    BY IrConstants DEF Bytes, BitOf
  <1>2. /\ new[ByteBits] = BitOf(dur)
        /\ \A i \in 1 .. ByteBits - 1 : new[i] = byte[i + 1]
    BY <1>1 DEF Shifted
  <1>3. /\ ones \in Nat /\ had \in Nat /\ newOnes \in Nat /\ has \in Nat
        /\ byte[1] \in {0, 1}
    BY <1>1, OnesFinite
  <1>4. newOnes + byte[1] <= ones + BitOf(dur)
    BY OnesShifted
  <1>5. has = had + BitOf(dur)
    BY <1>1, OnesAppend
  <1>6. ASSUME NEW s \in k .. ByteBits, InPlace(byte, t, k, s), s # k => bad
        PROVE  Follows(new, u, k + 1, bad)
    <2>1. /\ \A i \in 1 .. ByteBits - s : byte[i] = 0
          /\ k = 0 => s = 0
          /\ k > 0 => byte[ByteBits - s + 1] = t[1]
          /\ s = k => \A i \in 1 .. k : byte[ByteBits - k + i] = t[i]
          /\ ones <= had
      BY <1>6 DEF InPlace
    <2>2. CASE s < ByteBits
      <3>1. \A i \in 1 .. ByteBits - (s + 1) : new[i] = 0
        BY <1>1, <1>2, <2>1
      <3>2. new[ByteBits - (s + 1) + 1] = u[1]
        BY <1>1, <1>2, <2>1, <2>2
      <3>3. ASSUME s = k, NEW i \in 1 .. k + 1
            PROVE  new[ByteBits - (k + 1) + i] = u[i]
        <4>1. CASE i = k + 1
          BY <1>1, <1>2, <4>1
        <4>2. CASE i # k + 1
          <5>1. i \in 1 .. k /\ ByteBits - (k + 1) + i \in 1 .. ByteBits - 1
            BY <1>1, <4>2
          <5>2. new[ByteBits - (k + 1) + i] = byte[ByteBits - k + i]
            BY <1>1, <1>2, <5>1
          <5> QED BY <2>1, <3>3, <5>1, <5>2
        <4> QED BY <4>1, <4>2
      <3>4. newOnes <= has
        <4> HIDE DEF ones, had, newOnes, has
        <4> QED BY <1>1, <1>3, <1>4, <1>5, <2>1
      <3>5. InPlace(new, u, k + 1, s + 1)
        BY <1>1, <3>1, <3>2, <3>3, <3>4 DEF InPlace
      <3>6. s + 1 \in k + 1 .. ByteBits /\ (s + 1 # k + 1 => bad)
        BY <1>1, <1>6, <2>2
      <3> QED BY <3>5, <3>6 DEF Follows
    <2>3. CASE s = ByteBits
      <3>1. k > 0 /\ bad /\ byte[1] = t[1] /\ u[1] = t[1]
        BY <1>1, <1>6, <2>1, <2>3
      <3>2. newOnes + u[1] <= has
        <4> HIDE DEF ones, had, newOnes, has
        <4> QED BY <1>1, <1>3, <1>4, <1>5, <2>1, <3>1
      <3> QED BY <1>1, <3>1, <3>2 DEF Follows, ShiftedOut
    <2> QED BY <1>1, <1>6, <2>2, <2>3
  <1>7. CASE ShiftedOut(byte, t, k) /\ bad
    <2>1. k > 0 /\ ones + t[1] <= had /\ u[1] = t[1] /\ t[1] \in {0, 1}
      BY <1>1, <1>7 DEF ShiftedOut
    <2>2. newOnes + u[1] <= has
      <3> HIDE DEF ones, had, newOnes, has
      <3> QED BY <1>1, <1>3, <1>4, <1>5, <2>1
    <2> QED BY <1>1, <1>7, <2>1, <2>2 DEF Follows, ShiftedOut
  <1> QED BY <1>6, <1>7 DEF Follows

(* A glitch shifts a zero in.                                              *)
LEMMA GlitchFollows ==
    ASSUME NEW byte \in Bytes, NEW dur, NEW k \in 0 .. ByteBits - 1, NEW t,
           BitOf(dur) = 0, \A i \in 1 .. k : t[i] \in {0, 1},
           NEW bad \in BOOLEAN, Follows(byte, t, k, bad)
    PROVE  Follows(Shifted(byte, dur), t, k, TRUE)
  <1> DEFINE new == Shifted(byte, dur)
             ones == Cardinality(Ones(byte, ByteBits))
             had == Cardinality(Ones(t, k))
             newOnes == Cardinality(Ones(new, ByteBits))
  <1>1. /\ ByteBits \in Nat \ {0} /\ k \in Nat /\ k < ByteBits
        /\ \A i \in 1 .. ByteBits : byte[i] \in {0, 1}
    BY IrConstants DEF Bytes
  <1>2. /\ new[ByteBits] = 0
        /\ \A i \in 1 .. ByteBits - 1 : new[i] = byte[i + 1]
    BY <1>1 DEF Shifted
  <1>3. /\ ones \in Nat /\ had \in Nat /\ newOnes \in Nat
        /\ byte[1] \in {0, 1}
    BY <1>1, OnesFinite
  <1>4. newOnes + byte[1] <= ones
    <2>1. newOnes + byte[1] <= ones + BitOf(dur)
      BY OnesShifted
    <2> HIDE DEF ones, newOnes
    <2> QED BY <1>3, <2>1
  <1>5. ASSUME NEW s \in k .. ByteBits, InPlace(byte, t, k, s)
        PROVE  Follows(new, t, k, TRUE)
    <2>1. /\ \A i \in 1 .. ByteBits - s : byte[i] = 0
          /\ k = 0 => s = 0
          /\ k > 0 => byte[ByteBits - s + 1] = t[1]
          /\ ones <= had
      BY <1>5 DEF InPlace
    <2>2. newOnes <= had
      <3> HIDE DEF ones, had, newOnes
      <3> QED BY <1>3, <1>4, <2>1
    <2>3. CASE k = 0
      <3>1. \A i \in 1 .. ByteBits : new[i] = 0
        BY <1>1, <1>2, <2>1, <2>3
      <3>2. InPlace(new, t, k, 0)
        BY <1>1, <2>2, <2>3, <3>1 DEF InPlace
      <3> QED BY <1>1, <2>3, <3>2 DEF Follows
    <2>4. CASE k > 0 /\ s < ByteBits
      <3>1. \A i \in 1 .. ByteBits - (s + 1) : new[i] = 0
        BY <1>1, <1>2, <2>1
      <3>2. new[ByteBits - (s + 1) + 1] = t[1]
        BY <1>1, <1>2, <2>1, <2>4
      <3>3. s + 1 # k /\ s + 1 \in k .. ByteBits
        BY <1>1, <2>4
      <3>4. InPlace(new, t, k, s + 1)
        BY <1>1, <2>2, <2>4, <3>1, <3>2, <3>3 DEF InPlace
      <3> QED BY <3>3, <3>4 DEF Follows
    <2>5. CASE k > 0 /\ s = ByteBits
      <3>1. byte[1] = t[1]
        BY <1>1, <2>1, <2>5
      <3>2. newOnes + t[1] <= had
        <4> HIDE DEF ones, had, newOnes
        <4> QED BY <1>3, <1>4, <2>1, <3>1
      <3> QED BY <2>5, <3>2 DEF Follows, ShiftedOut
    <2>6. k = 0 \/ (k > 0 /\ s < ByteBits) \/ (k > 0 /\ s = ByteBits)
      BY <1>1
    <2> QED BY <2>3, <2>4, <2>5, <2>6
  <1>6. CASE ShiftedOut(byte, t, k)
    <2>1. k > 0 /\ ones + t[1] <= had /\ t[1] \in {0, 1}
      BY <1>1, <1>6 DEF ShiftedOut
    <2>2. newOnes + t[1] <= had
      <3> HIDE DEF ones, had, newOnes
      <3> QED BY <1>3, <1>4, <2>1
    <2> QED BY <2>1, <2>2 DEF Follows, ShiftedOut
  <1> QED BY <1>5, <1>6 DEF Follows

(* A byte that is complete and was not glitched is what was received.      *)
LEMMA CompleteIs ==
    ASSUME NEW byte \in Bytes, NEW t \in Bytes, NEW bad \in BOOLEAN,
           Follows(byte, t, ByteBits, bad)
    PROVE  \/ byte = t
           \/ bad /\ ShiftedOut(byte, t, ByteBits)
  <1>1. ByteBits \in Nat \ {0}
    BY IrConstants
  <1>2. ASSUME NEW s \in ByteBits .. ByteBits, InPlace(byte, t, ByteBits, s)
        PROVE  byte = t
    <2>1. s = ByteBits
      BY <1>1
    <2>2. \A i \in 1 .. ByteBits : byte[ByteBits - ByteBits + i] = t[i]
      BY <1>2, <2>1 DEF InPlace
    <2>3. \A i \in 1 .. ByteBits : byte[i] = t[i]
      BY <1>1, <2>2
    <2> QED BY <2>3 DEF Bytes
  <1> QED BY <1>2 DEF Follows

(* Bytes that glitches have changed do not pass the checksum: one of two   *)
(* complementary bytes starts with a one, which it loses, and no byte      *)
(* gains one.                                                              *)
LEMMA NothingIsForged ==
    ASSUME NEW a \in Bytes, NEW b \in Bytes,
           NEW c \in Bytes, NEW d \in Bytes,
           NEW bad3 \in BOOLEAN, NEW bad4 \in BOOLEAN,
           Follows(a, c, ByteBits, bad3), Follows(b, d, ByteBits, bad4),
           \A i \in 1 .. ByteBits : a[i] # b[i],
           \A i \in 1 .. ByteBits : c[i] # d[i]
    PROVE  a = c
  <1>1. ByteBits \in Nat \ {0}
    BY IrConstants
  <1>2. CASE b = d
    <2>1. \A i \in 1 .. ByteBits : a[i] = c[i]
      BY <1>2 DEF Bytes
    <2>2. a = [i \in 1 .. ByteBits |-> a[i]] /\ c = [i \in 1 .. ByteBits |-> c[i]]
      BY DEF Bytes
    <2>3. [i \in 1 .. ByteBits |-> a[i]] = [i \in 1 .. ByteBits |-> c[i]]
      BY <2>1
    <2> QED BY <2>2, <2>3
  <1>3. CASE ShiftedOut(a, c, ByteBits) /\ ShiftedOut(b, d, ByteBits)
    <2>1. /\ Cardinality(Ones(a, ByteBits)) + Cardinality(Ones(b, ByteBits)) = ByteBits
          /\ Cardinality(Ones(c, ByteBits)) + Cardinality(Ones(d, ByteBits)) = ByteBits
      BY OnesOfComplements
    <2>2. /\ Cardinality(Ones(a, ByteBits)) + c[1] <= Cardinality(Ones(c, ByteBits))
          /\ Cardinality(Ones(b, ByteBits)) + d[1] <= Cardinality(Ones(d, ByteBits))
      BY <1>3 DEF ShiftedOut
    <2>3. c[1] \in {0, 1} /\ d[1] \in {0, 1} /\ c[1] # d[1]
      BY <1>1 DEF Bytes
    <2>4. \A t : Cardinality(Ones(t, ByteBits)) \in Nat
      BY <1>1, OnesFinite
    <2> QED BY <1>1, <2>1, <2>2, <2>3, <2>4
  <1> QED BY <1>2, <1>3, CompleteIs

-----------------------------------------------------------------------------
(* Where a bit is in the message. *)
LEMMA Within ==
    ASSUME NEW b \in Nat \ {0}, NEW q \in Nat, NEW n \in 1 .. q, NEW i \in 1 .. b
    PROVE  (n - 1) * b + i \in 1 .. q * b
  <1>1. n - 1 \in Nat /\ (n - 1) * b \in Nat
    OBVIOUS
  <1>2. q - n \in Nat /\ (q - n) * b \in Nat
    OBVIOUS
  <1>3. q * b = (n - 1) * b + b + (q - n) * b
    OBVIOUS
  <1>4. q * b \in Nat
    OBVIOUS
  <1> QED BY <1>1, <1>2, <1>3, <1>4

LEMMA NamesAre ==
    /\ {ByteNames[i] : i \in 1 .. 4} = {"addr", "addr_inverted", "cmd", "cmd_inverted"}
    /\ ByteNames[3] = "cmd" /\ ByteNames[4] = "cmd_inverted"
    /\ \A i, j \in 1 .. 4 : ByteNames[i] = ByteNames[j] => i = j
    /\ \A i \in 1 .. 4 : ByteNames[i] \in {"addr", "addr_inverted", "cmd", "cmd_inverted"}
  <1>1. /\ ByteNames[1] = "addr" /\ ByteNames[2] = "addr_inverted"
        /\ ByteNames[3] = "cmd" /\ ByteNames[4] = "cmd_inverted"
    BY DEF ByteNames
  <1>2. \A i \in 1 .. 4 : i = 1 \/ i = 2 \/ i = 3 \/ i = 4
    OBVIOUS
  <1>3. \A i \in 1 .. 4 : ByteNames[i] \in {"addr", "addr_inverted", "cmd", "cmd_inverted"}
    BY <1>1, <1>2
  <1>4. {ByteNames[i] : i \in 1 .. 4} = {"addr", "addr_inverted", "cmd", "cmd_inverted"}
    BY <1>1, <1>3
  <1> QED BY <1>1, <1>2, <1>3, <1>4

LEMMA ByteTypes ==
    /\ ByteBits \in Nat \ {0} /\ MessageBits = 4 * ByteBits
    /\ ZeroByte \in Bytes
    /\ \A byte \in Bytes : \A dur : Shifted(byte, dur) \in Bytes
    /\ \A dur : BitOf(dur) \in {0, 1} /\ (~IsBit(dur) => BitOf(dur) = 0)
  <1>1. ByteBits \in Nat \ {0} /\ MessageBits = 4 * ByteBits
    BY IrConstants DEF MessageBits
  <1>2. \A dur : BitOf(dur) \in {0, 1} /\ (~IsBit(dur) => BitOf(dur) = 0)
    BY DEF BitOf, IsBit
  <1>3. ZeroByte \in Bytes
    BY DEF ZeroByte, Bytes
  <1>4. ASSUME NEW byte \in Bytes, NEW dur
        PROVE  Shifted(byte, dur) \in Bytes
    <2>1. \A i \in 1 .. ByteBits :
             (IF i = ByteBits THEN BitOf(dur) ELSE byte[i + 1]) \in {0, 1}
      BY <1>1, <1>2 DEF Bytes
    <2> QED BY <2>1 DEF Shifted, Bytes
  <1> QED BY <1>1, <1>2, <1>3, <1>4

(* What the invariant says about the counters.                             *)
LEMMA Position ==
    ASSUME DecoderInv
    PROVE  /\ ByteBits \in Nat \ {0} /\ Stored \in 0 .. 3 /\ Stored * ByteBits \in Nat
           /\ rx.byte_bit_count \in 0 .. ByteBits - 1
           /\ rx.bit_count \in Nat
           /\ rx.bit_count = Stored * ByteBits + rx.byte_bit_count
           /\ bits \in Seq({0, 1}) /\ Len(bits) = rx.bit_count
           /\ rx.current_byte \in Bytes
           /\ rx = [bit_count |-> rx.bit_count, byte_bit_count |-> rx.byte_bit_count,
                    current_byte |-> rx.current_byte]
  <1>1. /\ rx \in [bit_count : 0 .. MessageBits - 1, byte_bit_count : 0 .. ByteBits - 1,
                   current_byte : Bytes]
        /\ bits \in Seq({0, 1}) /\ Len(bits) = rx.bit_count
        /\ rx.byte_bit_count = rx.bit_count % ByteBits
    BY DEF DecoderInv, IrTypeOK, CountersAgree
  <1>2. ByteBits \in Nat \ {0} /\ MessageBits = 4 * ByteBits
    BY ByteTypes
  <1>3. /\ rx.bit_count \in Nat /\ rx.bit_count < 4 * ByteBits
        /\ rx.byte_bit_count \in 0 .. ByteBits - 1
    BY <1>1, <1>2
  <1>4. /\ Stored \in Int /\ rx.bit_count = Stored * ByteBits + rx.byte_bit_count
    <2>1. /\ rx.bit_count = Stored * ByteBits + (rx.bit_count % ByteBits)
          /\ Stored \in Int
      BY <1>2, <1>3, DivMod DEF Stored
    <2> QED BY <1>1, <2>1
  <1>5. Stored \in 0 .. 3
    <2> DEFINE q == Stored
               n == rx.bit_count
               k == rx.byte_bit_count
    <2>1. /\ q \in Int /\ n \in Nat /\ k \in 0 .. ByteBits - 1
          /\ n < 4 * ByteBits /\ n = q * ByteBits + k
      BY <1>3, <1>4
    <2> HIDE DEF q, n, k
    <2>2. q >= 0
      BY <1>2, <2>1
    <2>3. q <= 3
      BY <1>2, <2>1
    <2> QED BY <2>1, <2>2, <2>3 DEF q
  <1>6. Stored * ByteBits \in Nat
    BY <1>2, <1>5
  <1>7. /\ rx.current_byte \in Bytes
        /\ rx = [bit_count |-> rx.bit_count, byte_bit_count |-> rx.byte_bit_count,
                 current_byte |-> rx.current_byte]
    BY <1>1
  <1> QED BY <1>1, <1>2, <1>3, <1>4, <1>5, <1>6, <1>7

(* The bytes received before this one do not change when a bit is added.   *)
LEMMA ByteOfAppended ==
    ASSUME NEW bs \in Seq({0, 1}), NEW b \in {0, 1}, NEW q \in Nat,
           q * ByteBits <= Len(bs)
    PROVE  \A n \in 1 .. q : /\ ByteOf(Append(bs, b), n) = ByteOf(bs, n)
                             /\ ByteOf(bs, n) \in Bytes
  <1>1. ByteBits \in Nat \ {0}
    BY IrConstants
  <1> SUFFICES ASSUME NEW n \in 1 .. q
               PROVE  /\ ByteOf(Append(bs, b), n) = ByteOf(bs, n)
                      /\ ByteOf(bs, n) \in Bytes
    OBVIOUS
  <1>2. ASSUME NEW i \in 1 .. ByteBits
        PROVE  /\ Append(bs, b)[(n - 1) * ByteBits + i] = bs[(n - 1) * ByteBits + i]
               /\ bs[(n - 1) * ByteBits + i] \in {0, 1}
    <2>1. (n - 1) * ByteBits + i \in 1 .. q * ByteBits
      BY <1>1, Within
    <2>2. q * ByteBits \in Nat /\ Len(bs) \in Nat
      BY <1>1
    <2>3. (n - 1) * ByteBits + i \in 1 .. Len(bs)
      BY <2>1, <2>2
    <2> QED BY <2>3
  <1>3. ByteOf(Append(bs, b), n) = ByteOf(bs, n)
    BY <1>2 DEF ByteOf
  <1>4. ByteOf(bs, n) \in Bytes
    BY <1>2 DEF ByteOf, Bytes
  <1> QED BY <1>3, <1>4

LEMMA ByteAfter ==
    ASSUME NEW bs, NEW q \in Nat, NEW i \in 1 .. ByteBits
    PROVE  ByteOf(bs, q + 1)[i] = bs[q * ByteBits + i]
  <1>1. ByteOf(bs, q + 1)[i] = bs[(q + 1 - 1) * ByteBits + i]
    BY DEF ByteOf
  <1>2. q + 1 - 1 = q
    OBVIOUS
  <1> QED BY <1>1, <1>2

(* A byte not yet begun. *)
LEMMA FreshFollows ==
    ASSUME NEW t, NEW bad
    PROVE  Follows(ZeroByte, t, 0, bad)
  <1>1. ByteBits \in Nat \ {0}
    BY IrConstants
  <1>2. \A i \in 1 .. ByteBits : ZeroByte[i] = 0
    BY DEF ZeroByte
  <1>3. Ones(ZeroByte, ByteBits) = {} /\ Ones(t, 0) = {}
    BY <1>2 DEF Ones
  <1>4. Cardinality(Ones(ZeroByte, ByteBits)) = 0 /\ Cardinality(Ones(t, 0)) = 0
    BY <1>3, FS_EmptySet
  <1>5. InPlace(ZeroByte, t, 0, 0)
    BY <1>1, <1>2, <1>4 DEF InPlace
  <1> QED BY <1>1, <1>5 DEF Follows

(* The byte under way after an edge.                                       *)
LEMMA UnderWay ==
    ASSUME DecoderInv, NEW dur
    PROVE  LET new == Shifted(rx.current_byte, dur)
               n == Stored + 1
               k == rx.byte_bit_count
           IN  /\ IsBit(dur) => Follows(new, ByteOf(Append(bits, BitOf(dur)), n), k + 1,
                                           n \in glitched)
               /\ ~IsBit(dur) => Follows(new, ByteOf(bits, n), k, TRUE)
  <1> DEFINE byte == rx.current_byte
             k == rx.byte_bit_count
             b == BitOf(dur)
             base == Stored * ByteBits
             t == ByteOf(bits, Stored + 1)
             u == ByteOf(Append(bits, b), Stored + 1)
             bad == Stored + 1 \in glitched
  <1>1. /\ ByteBits \in Nat \ {0} /\ Stored \in 0 .. 3 /\ base \in Nat
        /\ k \in 0 .. ByteBits - 1 /\ bits \in Seq({0, 1}) /\ Len(bits) = base + k
        /\ byte \in Bytes /\ b \in {0, 1} /\ (~IsBit(dur) => b = 0)
    BY Position, ByteTypes
  <1>2. Follows(byte, t, k, bad) /\ bad \in BOOLEAN
    BY DEF DecoderInv
  <1>3. \A i \in 1 .. ByteBits : t[i] = bits[base + i] /\ u[i] = Append(bits, b)[base + i]
    <2>1. Stored \in Nat
      BY <1>1
    <2>2. ASSUME NEW i \in 1 .. ByteBits
          PROVE  t[i] = bits[base + i] /\ u[i] = Append(bits, b)[base + i]
      BY <2>1, ByteAfter, Zenon
    <2> QED BY <2>2
  <1> HIDE DEF base, t, u, b, k, byte, bad
  <1>4. ASSUME NEW i \in 1 .. k
        PROVE  u[i] = t[i] /\ t[i] \in {0, 1}
    <2>1. i \in 1 .. ByteBits /\ base + i \in 1 .. Len(bits)
      BY <1>1
    <2>2. Append(bits, b)[base + i] = bits[base + i] /\ bits[base + i] \in {0, 1}
      BY <1>1, <2>1
    <2> QED BY <1>3, <2>1, <2>2
  <1>5. u[k + 1] = b
    <2>1. k + 1 \in 1 .. ByteBits /\ base + (k + 1) = Len(bits) + 1
      BY <1>1
    <2>2. Append(bits, b)[Len(bits) + 1] = b
      BY <1>1
    <2> QED BY <1>3, <2>1, <2>2
  <1>6. Follows(Shifted(byte, dur), u, k + 1, bad)
    BY <1>1, <1>2, <1>4, <1>5, BitFollows DEF b
  <1>7. ~IsBit(dur) => Follows(Shifted(byte, dur), t, k, TRUE)
    BY <1>1, <1>2, <1>4, GlitchFollows DEF b
  <1> QED BY <1>6, <1>7 DEF byte, k, t, u, b, bad

-----------------------------------------------------------------------------
(* A message begins. *)
LEMMA EmptyKeeps ==
    ASSUME rx' = EmptyRx, bits' = <<>>, glitched' = {},
           ir_message' \in Messages, gap' \in Gaps \cup {0},
           ir_cmd_buffer' \in Seq(Bytes), Len(ir_cmd_buffer') <= IrBufferSize
    PROVE  DecoderInv'
  <1>1. /\ ByteBits \in Nat \ {0} /\ MessageBits = 4 * ByteBits /\ ZeroByte \in Bytes
    BY ByteTypes
  <1>2. /\ rx'.bit_count = 0 /\ rx'.byte_bit_count = 0 /\ rx'.current_byte = ZeroByte
        /\ rx' \in [bit_count : 0 .. MessageBits - 1, byte_bit_count : 0 .. ByteBits - 1,
                    current_byte : Bytes]
    BY <1>1 DEF EmptyRx
  <1>3. 0 \div ByteBits = 0 /\ 0 % ByteBits = 0
    <2>1. 0 * ByteBits + 0 = 0
      BY <1>1
    <2> QED BY <1>1, <2>1, ModIs, DivIs
  <1>4. /\ bits' \in Seq({0, 1}) /\ Len(bits') = 0 /\ Len(bits') < MessageBits
        /\ glitched' \subseteq 1 .. 4
    BY <1>1
  <1>5. IrTypeOK'
    BY <1>2, <1>4 DEF IrTypeOK
  <1>6. CountersAgree'
    BY <1>2, <1>3, <1>4 DEF CountersAgree
  <1>7. Stored' = 0
    BY <1>2, <1>3 DEF Stored
  <1>8. Follows(ZeroByte, ByteOf(bits', Stored' + 1), 0, Stored' + 1 \in glitched')
    BY FreshFollows, Zenon
  <1>9. \A n \in 1 .. Stored' : FALSE
    BY <1>7
  <1> QED BY <1>2, <1>5, <1>6, <1>8, <1>9 DEF DecoderInv

LEMMA IrInitInv ==
    ASSUME IrInit
    PROVE  DecoderInv
  <1>1. /\ ByteBits \in Nat \ {0} /\ MessageBits = 4 * ByteBits /\ ZeroByte \in Bytes
        /\ IrBufferSize \in Nat
    BY ByteTypes, IrConstants
  <1>2. /\ rx = EmptyRx /\ bits = <<>> /\ glitched = {} /\ ir_message = EmptyMessage
        /\ gap = 0 /\ ir_cmd_buffer = <<>>
    BY DEF IrInit
  <1>3. /\ rx.bit_count = 0 /\ rx.byte_bit_count = 0 /\ rx.current_byte = ZeroByte
        /\ rx \in [bit_count : 0 .. MessageBits - 1, byte_bit_count : 0 .. ByteBits - 1,
                   current_byte : Bytes]
    BY <1>1, <1>2 DEF EmptyRx
  <1>4. 0 \div ByteBits = 0 /\ 0 % ByteBits = 0
    <2>1. 0 * ByteBits + 0 = 0
      BY <1>1
    <2> QED BY <1>1, <2>1, ModIs, DivIs
  <1>5. ir_message \in Messages
    BY <1>1, <1>2 DEF EmptyMessage, Messages
  <1>6. IrTypeOK
    <2>1. /\ bits \in Seq({0, 1}) /\ Len(bits) < MessageBits /\ glitched \subseteq 1 .. 4
          /\ gap \in Gaps \cup {0} /\ ir_cmd_buffer \in Seq(Bytes)
          /\ Len(ir_cmd_buffer) <= IrBufferSize
      BY <1>1, <1>2
    <2> QED BY <1>3, <1>5, <2>1 DEF IrTypeOK
  <1>7. CountersAgree
    BY <1>2, <1>3, <1>4 DEF CountersAgree
  <1>8. Stored = 0
    BY <1>3, <1>4 DEF Stored
  <1>9. Follows(ZeroByte, ByteOf(bits, Stored + 1), 0, Stored + 1 \in glitched)
    BY FreshFollows, Zenon
  <1>10. \A n \in 1 .. Stored : FALSE
    BY <1>8
  <1> QED BY <1>3, <1>6, <1>7, <1>9, <1>10 DEF DecoderInv

(* What an edge leaves of the bytes that are complete.                     *)
LEMMA CompleteKept ==
    ASSUME DecoderInv, NEW dur, HistoryOf(dur), NEW n \in 1 .. Stored,
           ir_message'[ByteNames[n]] = ir_message[ByteNames[n]]
    PROVE  Follows(ir_message'[ByteNames[n]], ByteOf(bits', n), ByteBits, n \in glitched')
  <1>1. /\ ByteBits \in Nat \ {0} /\ Stored \in 0 .. 3 /\ Stored * ByteBits \in Nat
        /\ rx.byte_bit_count \in 0 .. ByteBits - 1 /\ bits \in Seq({0, 1})
        /\ Len(bits) = Stored * ByteBits + rx.byte_bit_count /\ BitOf(dur) \in {0, 1}
    BY Position, ByteTypes
  <1>2. Follows(ir_message[ByteNames[n]], ByteOf(bits, n), ByteBits, n \in glitched)
    BY DEF DecoderInv
  <1>3. ByteOf(Append(bits, BitOf(dur)), n) = ByteOf(bits, n)
    <2>1. Stored \in Nat /\ Stored * ByteBits <= Len(bits)
      BY <1>1
    <2> QED BY <1>1, <2>1, ByteOfAppended
  <1>4. ByteOf(bits', n) = ByteOf(bits, n)
    BY <1>3 DEF HistoryOf
  <1>5. n \in glitched => n \in glitched'
    BY DEF HistoryOf
  <1> QED BY <1>2, <1>4, <1>5 DEF Follows

(* An edge inside a byte.                                                  *)
LEMMA ParseBitKeeps ==
    ASSUME DecoderInv, NEW dur, ParseBit(dur), gap' \in Gaps
    PROVE  DecoderInv'
  <1> DEFINE q == Stored
             k == rx.byte_bit_count
             new == Shifted(rx.current_byte, dur)
             more == IF IsBit(dur) THEN 1 ELSE 0
  <1>1. /\ ByteBits \in Nat \ {0} /\ MessageBits = 4 * ByteBits
        /\ q \in 0 .. 3 /\ q * ByteBits \in Nat /\ k \in 0 .. ByteBits - 1
        /\ rx.bit_count = q * ByteBits + k /\ rx.bit_count \in Nat
        /\ bits \in Seq({0, 1}) /\ Len(bits) = rx.bit_count
        /\ new \in Bytes /\ BitOf(dur) \in {0, 1} /\ more \in {0, 1}
    BY Position, ByteTypes
  <1>2. /\ rx' = [bit_count |-> rx.bit_count + more, byte_bit_count |-> k + more,
                  current_byte |-> new]
        /\ k + more # ByteBits
        /\ HistoryOf(dur)
        /\ ir_message' = ir_message /\ ir_cmd_buffer' = ir_cmd_buffer
    BY <1>1 DEF ParseBit, Counted
  <1>3. /\ rx'.bit_count = q * ByteBits + (k + more) /\ rx'.byte_bit_count = k + more
        /\ rx'.current_byte = new /\ k + more \in 0 .. ByteBits - 1
    BY <1>1, <1>2
  <1>4. rx'.bit_count \div ByteBits = q /\ rx'.bit_count % ByteBits = k + more
    <2> HIDE DEF q, k, more
    <2> QED BY <1>1, <1>3, ModIs, DivIs
  <1>5. Stored' = q
    BY <1>4 DEF Stored
  <1>6. /\ bits' \in Seq({0, 1}) /\ Len(bits') = rx'.bit_count
        /\ glitched' \subseteq 1 .. 4
    <2>1. CASE IsBit(dur)
      <3>1. /\ bits' = Append(bits, BitOf(dur)) /\ glitched' = glitched /\ more = 1
        BY <1>2, <2>1 DEF HistoryOf
      <3>2. glitched \subseteq 1 .. 4
        BY DEF DecoderInv, IrTypeOK
      <3>3. bits' \in Seq({0, 1}) /\ Len(bits') = rx.bit_count + 1
        BY <1>1, <3>1
      <3> QED BY <1>2, <3>1, <3>2, <3>3
    <2>2. CASE ~IsBit(dur)
      <3>1. /\ bits' = bits /\ glitched' = glitched \cup {q + 1} /\ more = 0
        BY <1>2, <2>2 DEF HistoryOf, Stored
      <3>2. glitched \subseteq 1 .. 4
        BY DEF DecoderInv, IrTypeOK
      <3> QED BY <1>1, <1>3, <3>1, <3>2
    <2> QED BY <2>1, <2>2
  <1>7. rx'.bit_count \in 0 .. MessageBits - 1
    <2> HIDE DEF q, k, more
    <2> QED BY <1>1, <1>3
  <1>8. IrTypeOK'
    <2>1. rx' \in [bit_count : 0 .. MessageBits - 1, byte_bit_count : 0 .. ByteBits - 1,
                   current_byte : Bytes]
      BY <1>1, <1>2, <1>3, <1>7
    <2>2. Len(bits') < MessageBits
      BY <1>1, <1>6, <1>7
    <2>3. /\ ir_message \in Messages /\ ir_cmd_buffer \in Seq(Bytes)
          /\ Len(ir_cmd_buffer) <= IrBufferSize
      BY DEF DecoderInv, IrTypeOK
    <2> QED BY <1>2, <1>6, <2>1, <2>2, <2>3 DEF IrTypeOK
  <1>9. CountersAgree'
    BY <1>3, <1>4, <1>6 DEF CountersAgree
  <1>10. Follows(new, ByteOf(bits', q + 1), k + more, q + 1 \in glitched')
    <2>1. CASE IsBit(dur)
      <3>1. bits' = Append(bits, BitOf(dur)) /\ glitched' = glitched /\ more = 1
        BY <1>2, <2>1 DEF HistoryOf
      <3> QED BY <2>1, <3>1, UnderWay
    <2>2. CASE ~IsBit(dur)
      <3>1. bits' = bits /\ q + 1 \in glitched' /\ more = 0
        BY <1>2, <2>2 DEF HistoryOf, Stored
      <3>2. Follows(new, ByteOf(bits, q + 1), k, TRUE)
        BY <2>2, UnderWay
      <3>3. k + more = k
        BY <1>1, <3>1
      <3> QED BY <3>1, <3>2, <3>3 DEF Follows
    <2> QED BY <2>1, <2>2
  <1>11. \A n \in 1 .. q :
            Follows(ir_message'[ByteNames[n]], ByteOf(bits', n), ByteBits, n \in glitched')
    BY <1>2, CompleteKept
  <1> QED BY <1>3, <1>5, <1>8, <1>9, <1>10, <1>11 DEF DecoderInv

(* A byte is completed by a bit: its ByteBits-th.                          *)
LEMMA Completing ==
    ASSUME DecoderInv, NEW dur, Counted(rx.byte_bit_count, dur) = ByteBits
    PROVE  /\ IsBit(dur) /\ rx.byte_bit_count + 1 = ByteBits
           /\ Counted(rx.bit_count, dur) = (Stored + 1) * ByteBits
           /\ Completed(dur) = Stored + 1
           /\ Len(Append(bits, BitOf(dur))) = (Stored + 1) * ByteBits
           /\ Append(bits, BitOf(dur)) \in Seq({0, 1})
  <1> DEFINE q == Stored
  <1>1. /\ ByteBits \in Nat \ {0} /\ q \in 0 .. 3 /\ q * ByteBits \in Nat
        /\ rx.byte_bit_count \in 0 .. ByteBits - 1 /\ BitOf(dur) \in {0, 1}
        /\ rx.bit_count = q * ByteBits + rx.byte_bit_count /\ rx.bit_count \in Nat
        /\ bits \in Seq({0, 1}) /\ Len(bits) = rx.bit_count
    BY Position, ByteTypes
  <1>2. IsBit(dur) /\ rx.byte_bit_count + 1 = ByteBits
    BY <1>1 DEF Counted
  <1>3. Counted(rx.bit_count, dur) = rx.bit_count + 1
    BY <1>2 DEF Counted
  <1> HIDE DEF q
  <1>4. rx.bit_count + 1 = (q + 1) * ByteBits
    BY <1>1, <1>2
  <1>5. ((q + 1) * ByteBits) \div ByteBits = q + 1
    <2>1. (q + 1) * ByteBits + 0 = (q + 1) * ByteBits
      BY <1>1
    <2>2. ((q + 1) * ByteBits + 0) \div ByteBits = q + 1
      BY <1>1, ModIs, DivIs
    <2> QED BY <2>1, <2>2
  <1>6. Completed(dur) = q + 1
    BY <1>3, <1>4, <1>5 DEF Completed
  <1>7. /\ Append(bits, BitOf(dur)) \in Seq({0, 1})
        /\ Len(Append(bits, BitOf(dur))) = rx.bit_count + 1
    BY <1>1
  <1> QED BY <1>2, <1>3, <1>4, <1>6, <1>7 DEF q

(* The byte is put in its place.                                           *)
LEMMA ByteStored ==
    ASSUME DecoderInv, NEW dur, Counted(rx.byte_bit_count, dur) = ByteBits,
           StoreByte(dur)
    PROVE  LET bs == Append(bits, BitOf(dur))
           IN  /\ ir_message' \in Messages
               /\ Stored + 1 \in 1 .. 4
               /\ Follows(ir_message'[ByteNames[Stored + 1]], ByteOf(bs, Stored + 1),
                          ByteBits, Stored + 1 \in glitched)
               /\ \A n \in 1 .. Stored : ir_message'[ByteNames[n]] = ir_message[ByteNames[n]]
  <1> DEFINE q == Stored
             new == Shifted(rx.current_byte, dur)
             bs == Append(bits, BitOf(dur))
  <1>1. /\ ByteBits \in Nat \ {0} /\ q \in 0 .. 3 /\ new \in Bytes /\ q + 1 \in 1 .. 4
    BY Position, ByteTypes
  <1>2. /\ IsBit(dur) /\ rx.byte_bit_count + 1 = ByteBits /\ Completed(dur) = q + 1
    BY Completing
  <1>3. /\ ir_message' = [ir_message EXCEPT ![ByteNames[q + 1]] = new]
        /\ ir_message \in [{"addr", "addr_inverted", "cmd", "cmd_inverted"} -> Bytes]
        /\ Messages = [{"addr", "addr_inverted", "cmd", "cmd_inverted"} -> Bytes]
    BY <1>2, NamesAre DEF StoreByte, DecoderInv, IrTypeOK, Messages
  <1>4. ByteNames[q + 1] \in {"addr", "addr_inverted", "cmd", "cmd_inverted"}
    BY <1>1, NamesAre
  <1>5. ir_message' \in Messages /\ ir_message'[ByteNames[q + 1]] = new
    BY <1>1, <1>3, <1>4
  <1>6. \A n \in 1 .. q : ir_message'[ByteNames[n]] = ir_message[ByteNames[n]]
    <2> SUFFICES ASSUME NEW n \in 1 .. q
                 PROVE  ir_message'[ByteNames[n]] = ir_message[ByteNames[n]]
      OBVIOUS
    <2>1. n \in 1 .. 4 /\ n # q + 1
      BY <1>1
    <2>2. /\ ByteNames[n] # ByteNames[q + 1]
          /\ ByteNames[n] \in {"addr", "addr_inverted", "cmd", "cmd_inverted"}
      BY <1>1, <2>1, NamesAre
    <2> QED BY <1>3, <2>2
  <1>7. Follows(new, ByteOf(bs, q + 1), rx.byte_bit_count + 1, q + 1 \in glitched)
    BY <1>2, UnderWay
  <1> QED BY <1>1, <1>2, <1>5, <1>6, <1>7

LEMMA ParseByteKeeps ==
    ASSUME DecoderInv, NEW dur, ParseByte(dur), gap' \in Gaps
    PROVE  DecoderInv'
  <1> DEFINE q == Stored
             bs == Append(bits, BitOf(dur))
  <1>1. /\ ByteBits \in Nat \ {0} /\ MessageBits = 4 * ByteBits /\ q \in 0 .. 3
        /\ ZeroByte \in Bytes
    BY Position, ByteTypes
  <1>2. /\ IsBit(dur) /\ Counted(rx.bit_count, dur) = (q + 1) * ByteBits
        /\ Completed(dur) = q + 1 /\ q + 1 < 4
        /\ Len(bs) = (q + 1) * ByteBits /\ bs \in Seq({0, 1})
    BY Completing DEF ParseByte
  <1>3. /\ rx' = [bit_count |-> (q + 1) * ByteBits, byte_bit_count |-> 0,
                  current_byte |-> ZeroByte]
        /\ bits' = bs /\ glitched' = glitched /\ HistoryOf(dur)
        /\ ir_cmd_buffer' = ir_cmd_buffer /\ StoreByte(dur)
    BY <1>2 DEF ParseByte, EmptyRx, HistoryOf
  <1>4. /\ (q + 1) * ByteBits \in 0 .. MessageBits - 1
        /\ ((q + 1) * ByteBits) \div ByteBits = q + 1 /\ ((q + 1) * ByteBits) % ByteBits = 0
    <2> HIDE DEF q
    <2>1. /\ (q + 1) * ByteBits + 0 = (q + 1) * ByteBits /\ (q + 1) * ByteBits \in Nat
      BY <1>1
    <2>2. /\ ((q + 1) * ByteBits + 0) \div ByteBits = q + 1
          /\ ((q + 1) * ByteBits + 0) % ByteBits = 0
      BY <1>1, ModIs, DivIs
    <2>3. (q + 1) * ByteBits < 4 * ByteBits
      <3>1. q = 0 \/ q = 1 \/ q = 2
        BY <1>1, <1>2
      <3> QED BY <1>1, <3>1
    <2> QED BY <1>1, <2>1, <2>2, <2>3
  <1>5. Stored' = q + 1
    BY <1>3, <1>4 DEF Stored
  <1>6. /\ ir_message' \in Messages
        /\ Follows(ir_message'[ByteNames[q + 1]], ByteOf(bs, q + 1), ByteBits,
                   q + 1 \in glitched)
        /\ \A n \in 1 .. q : ir_message'[ByteNames[n]] = ir_message[ByteNames[n]]
    BY <1>3, ByteStored DEF ParseByte
  <1>7. IrTypeOK'
    <2>1. rx' \in [bit_count : 0 .. MessageBits - 1, byte_bit_count : 0 .. ByteBits - 1,
                   current_byte : Bytes]
      BY <1>1, <1>3, <1>4
    <2>2. bits' \in Seq({0, 1}) /\ Len(bits') < MessageBits
      BY <1>1, <1>2, <1>3, <1>4
    <2>3. /\ glitched \subseteq 1 .. 4 /\ ir_cmd_buffer \in Seq(Bytes)
          /\ Len(ir_cmd_buffer) <= IrBufferSize
      BY DEF DecoderInv, IrTypeOK
    <2> QED BY <1>3, <1>6, <2>1, <2>2, <2>3 DEF IrTypeOK
  <1>8. CountersAgree'
    BY <1>2, <1>3, <1>4 DEF CountersAgree
  <1>9. Follows(ZeroByte, ByteOf(bits', Stored' + 1), 0, Stored' + 1 \in glitched')
    BY FreshFollows, Zenon
  <1>10. \A n \in 1 .. Stored' :
            Follows(ir_message'[ByteNames[n]], ByteOf(bits', n), ByteBits, n \in glitched')
    <2> SUFFICES ASSUME NEW n \in 1 .. q + 1
                 PROVE  Follows(ir_message'[ByteNames[n]], ByteOf(bits', n), ByteBits,
                                n \in glitched')
      BY <1>5
    <2>1. CASE n = q + 1
      BY <1>3, <1>6, <2>1
    <2>2. CASE n \in 1 .. q
      BY <1>3, <1>6, <2>2, CompleteKept
    <2> QED BY <1>1, <2>1, <2>2
  <1> QED BY <1>3, <1>7, <1>8, <1>9, <1>10 DEF DecoderInv

(* What a complete message is, and whether it passes the checksum.         *)
LEMMA MessageIs ==
    ASSUME DecoderInv, ParseMessage(Duration(gap'))
    PROVE  /\ LastBitComes
           /\ Complementary /\ ChecksumOk(ir_message')
                 => ir_message'.cmd = ByteOf(AllBits, 3)
           /\ Complementary /\ glitched \cap {3, 4} = {}
                 => ChecksumOk(ir_message') /\ ir_message'.cmd = ByteOf(AllBits, 3)
  <1> DEFINE dur == Duration(gap')
             c == ByteOf(AllBits, 3)
             d == ByteOf(AllBits, 4)
             cmd == ir_message'.cmd
             inverted == ir_message'.cmd_inverted
  <1>1. /\ ByteBits \in Nat \ {0} /\ MessageBits = 4 * ByteBits
        /\ Stored \in 0 .. 3 /\ BitOf(dur) \in {0, 1} /\ bits \in Seq({0, 1})
        /\ Len(bits) \in Nat
    BY Position, ByteTypes
  <1>2. /\ Counted(rx.byte_bit_count, dur) = ByteBits /\ Completed(dur) = 4
        /\ StoreByte(dur) /\ bits' = <<>>
    BY DEF ParseMessage
  <1>3. /\ IsBit(dur) /\ Stored + 1 = 4
        /\ Len(AllBits) = 4 * ByteBits /\ AllBits \in Seq({0, 1})
    <2>1. /\ IsBit(dur) /\ Completed(dur) = Stored + 1
          /\ Len(AllBits) = (Stored + 1) * ByteBits /\ AllBits \in Seq({0, 1})
      BY <1>2, Completing DEF AllBits
    <2> QED BY <1>2, <2>1
  <1>4. LastBitComes
    <2>1. Len(AllBits) = Len(bits) + 1
      BY <1>1 DEF AllBits
    <2> QED BY <1>1, <1>2, <1>3, <2>1 DEF LastBitComes
  <1>5. Stored = 3
    BY <1>1, <1>3
  <1>6. /\ ir_message' \in Messages
        /\ Follows(inverted, d, ByteBits, 4 \in glitched)
        /\ ir_message'[ByteNames[3]] = ir_message[ByteNames[3]]
    <2>1. /\ ir_message' \in Messages
          /\ Follows(ir_message'[ByteNames[Stored + 1]], ByteOf(AllBits, Stored + 1),
                     ByteBits, Stored + 1 \in glitched)
          /\ \A n \in 1 .. Stored : ir_message'[ByteNames[n]] = ir_message[ByteNames[n]]
      BY <1>2, ByteStored DEF AllBits
    <2>2. ir_message'[ByteNames[4]] = inverted
      BY NamesAre
    <2> QED BY <1>3, <1>5, <2>1, <2>2
  <1>7. cmd \in Bytes /\ inverted \in Bytes
    <2>1. Messages = [{"addr", "addr_inverted", "cmd", "cmd_inverted"} -> Bytes]
      BY NamesAre DEF Messages
    <2> QED BY <1>6, <2>1
  <1>8. Follows(cmd, c, ByteBits, 3 \in glitched)
    <2>1. Follows(ir_message[ByteNames[3]], ByteOf(bits, 3), ByteBits, 3 \in glitched)
      BY <1>5 DEF DecoderInv
    <2>2. ByteOf(AllBits, 3) = ByteOf(bits, 3)
      <3>1. 3 * ByteBits <= Len(bits)
        BY <1>1, <1>3 DEF AllBits
      <3> QED BY <1>1, <3>1, ByteOfAppended DEF AllBits
    <2>3. ir_message[ByteNames[3]] = cmd
      BY <1>6, NamesAre
    <2> QED BY <2>1, <2>2, <2>3
  <1>9. c \in Bytes /\ d \in Bytes
    <2>1. 4 * ByteBits <= Len(AllBits)
      BY <1>1, <1>3
    <2> QED BY <1>3, <2>1, ByteOfAppended
  <1>10. Complementary => \A i \in 1 .. ByteBits : c[i] # d[i]
    BY DEF Complementary
  <1>11. ChecksumOk(ir_message') <=> \A i \in 1 .. ByteBits : cmd[i] # inverted[i]
    BY DEF ChecksumOk
  <1> DEFINE bad3 == 3 \in glitched
             bad4 == 4 \in glitched
  <1>12. bad3 \in BOOLEAN /\ bad4 \in BOOLEAN
    OBVIOUS
  <1>13. Follows(cmd, c, ByteBits, bad3) /\ Follows(inverted, d, ByteBits, bad4)
    BY <1>6, <1>8
  <1> HIDE DEF c, d, cmd, inverted, bad3, bad4
  <1>14. Complementary /\ ChecksumOk(ir_message') => cmd = c
    BY <1>7, <1>9, <1>10, <1>11, <1>12, <1>13, NothingIsForged
  <1>15. ~bad3 /\ ~bad4 => cmd = c /\ inverted = d
    BY <1>7, <1>9, <1>12, <1>13, CompleteIs
  <1>16. glitched \cap {3, 4} = {} => ~bad3 /\ ~bad4
    BY DEF bad3, bad4
  <1> QED BY <1>4, <1>10, <1>11, <1>14, <1>15, <1>16 DEF c, cmd

LEMMA PutType ==
    ASSUME NEW q \in Seq(Bytes), NEW e \in Bytes, Len(q) <= IrBufferSize
    PROVE  /\ BufferPut(q, e, IrBufferSize) \in Seq(Bytes)
           /\ Len(BufferPut(q, e, IrBufferSize)) <= IrBufferSize
  <1>1. IrBufferSize \in Nat \ {0}
    BY IrConstants
  <1>2. CASE Len(q) = IrBufferSize
    <2>1. BufferPut(q, e, IrBufferSize) = Append(Tail(q), e)
      BY <1>2 DEF BufferPut
    <2>2. Tail(q) \in Seq(Bytes) /\ Len(Tail(q)) = IrBufferSize - 1
      BY <1>1, <1>2, HeadTailProperties
    <2> QED BY <1>1, <2>1, <2>2
  <1>3. CASE Len(q) # IrBufferSize
    <2>1. BufferPut(q, e, IrBufferSize) = Append(q, e)
      BY <1>3 DEF BufferPut
    <2> QED BY <1>1, <1>3, <2>1
  <1> QED BY <1>2, <1>3

LEMMA ParseMessageKeeps ==
    ASSUME DecoderInv, NEW dur, ParseMessage(dur), gap' \in Gaps
    PROVE  DecoderInv'
  <1>1. ir_message' \in Messages
    BY ByteStored DEF ParseMessage
  <1>2. ir_message'.cmd \in Bytes
    <2>1. Messages = [{"addr", "addr_inverted", "cmd", "cmd_inverted"} -> Bytes]
      BY NamesAre DEF Messages
    <2> QED BY <1>1, <2>1
  <1>3. ir_cmd_buffer \in Seq(Bytes) /\ Len(ir_cmd_buffer) <= IrBufferSize
    BY DEF DecoderInv, IrTypeOK
  <1>4. ir_cmd_buffer' \in Seq(Bytes) /\ Len(ir_cmd_buffer') <= IrBufferSize
    <2>1. CASE ChecksumOk(ir_message')
      BY <1>2, <1>3, <2>1, PutType DEF ParseMessage
    <2>2. CASE ~ChecksumOk(ir_message')
      BY <1>3, <2>2 DEF ParseMessage
    <2> QED BY <2>1, <2>2
  <1>5. rx' = EmptyRx /\ bits' = <<>> /\ glitched' = {}
    BY DEF ParseMessage
  <1> QED BY <1>1, <1>4, <1>5, EmptyKeeps

LEMMA ParseLeaderKeeps ==
    ASSUME DecoderInv, ParseLeader, gap' \in Gaps
    PROVE  DecoderInv'
  <1>1. /\ rx' = EmptyRx /\ bits' = <<>> /\ glitched' = {} /\ ir_cmd_buffer' = ir_cmd_buffer
        /\ ir_message' = EmptyMessage
    BY DEF ParseLeader
  <1>2. EmptyMessage \in Messages
    BY ByteTypes DEF EmptyMessage, Messages
  <1>3. ir_cmd_buffer \in Seq(Bytes) /\ Len(ir_cmd_buffer) <= IrBufferSize
    BY DEF DecoderInv, IrTypeOK
  <1> QED BY <1>1, <1>2, <1>3, EmptyKeeps

(* Steps that leave the decoder alone.                                     *)
LEMMA DecoderKept ==
    ASSUME DecoderInv, UNCHANGED <<rx, ir_message, gap, bits, glitched>>,
           ir_cmd_buffer' \in Seq(Bytes), Len(ir_cmd_buffer') <= IrBufferSize
    PROVE  DecoderInv'
  <1>1. /\ rx' = rx /\ ir_message' = ir_message /\ gap' = gap /\ bits' = bits
        /\ glitched' = glitched /\ Stored' = Stored
    BY DEF Stored
  <1>2. IrTypeOK' /\ CountersAgree'
    BY <1>1 DEF DecoderInv, IrTypeOK, CountersAgree
  <1> QED BY <1>1, <1>2 DEF DecoderInv

LEMMA GetCmdKeeps ==
    ASSUME DecoderInv, GetCmd
    PROVE  DecoderInv'
  <1>1. /\ ir_cmd_buffer \in Seq(Bytes) /\ Len(ir_cmd_buffer) <= IrBufferSize
        /\ IrBufferSize \in Nat
    BY IrConstants DEF DecoderInv, IrTypeOK
  <1>2. ir_cmd_buffer # <<>> /\ ir_cmd_buffer' = Tail(ir_cmd_buffer)
    BY DEF GetCmd
  <1>3. Tail(ir_cmd_buffer) \in Seq(Bytes) /\ Len(Tail(ir_cmd_buffer)) = Len(ir_cmd_buffer) - 1
    BY <1>1, <1>2, HeadTailProperties
  <1>4. ir_cmd_buffer' \in Seq(Bytes) /\ Len(ir_cmd_buffer') <= IrBufferSize
    BY <1>1, <1>2, <1>3
  <1> QED BY <1>4, DecoderKept DEF GetCmd

(* Every step is an edge, a command taken, or nothing.                     *)
LEMMA EdgeCases ==
    ASSUME [IrNext]_irVars
    PROVE  \/ gap' \in Gaps /\ IsLeader(Duration(gap')) /\ ParseLeader
           \/ gap' \in Gaps /\ (ParseBit(Duration(gap')) \/ ParseByte(Duration(gap')))
           \/ gap' \in Gaps /\ ParseMessage(Duration(gap'))
           \/ GetCmd
           \/ UNCHANGED irVars
  BY DEF IrNext, Edge

LEMMA DecoderStep ==
    ASSUME DecoderInv, [IrNext]_irVars
    PROVE  DecoderInv'
  <1>1. ASSUME UNCHANGED irVars
        PROVE  DecoderInv'
    <2>1. ir_cmd_buffer \in Seq(Bytes) /\ Len(ir_cmd_buffer) <= IrBufferSize
      BY DEF DecoderInv, IrTypeOK
    <2> QED BY <1>1, <2>1, DecoderKept DEF irVars
  <1> QED BY <1>1, EdgeCases, ParseLeaderKeeps, ParseBitKeeps, ParseByteKeeps,
             ParseMessageKeeps, GetCmdKeeps

-----------------------------------------------------------------------------
(* The counters and the bits stay in step, and each byte follows the bits  *)
(* received for it (ir_remote_ta1.c:68-120).                               *)
THEOREM DecoderCorrect == IrSpec => []DecoderInv
  <1>1. IrInit => DecoderInv
    BY IrInitInv
  <1>2. DecoderInv /\ [IrNext]_irVars => DecoderInv'
    BY DecoderStep
  <1> QED BY <1>1, <1>2, PTL DEF IrSpec

(* Every variable keeps its type; bit_count never reaches the 32 that      *)
(* ir_parse tests for (ir_remote_ta1.c:77).                                *)
THEOREM DecoderTypeCorrect == IrSpec => []IrTypeOK
  <1>1. DecoderInv => IrTypeOK
    BY DEF DecoderInv
  <1> QED BY <1>1, DecoderCorrect, PTL

(* The two counters and the bits received never drift apart, so that a     *)
(* byte is never put in the place of another (ir_remote_ta1.c:83-119).     *)
THEOREM CountersCorrect == IrSpec => []CountersAgree
  <1>1. DecoderInv => CountersAgree
    BY DEF DecoderInv
  <1> QED BY <1>1, DecoderCorrect, PTL

(* Only the step that receives the last bit of a message stores a command. *)
LEMMA OnlyMessagesStore ==
    ASSUME DecoderInv, [IrNext]_irVars, ~ParseMessage(Duration(gap'))
    PROVE  /\ ~LastBitComes
           /\ ir_cmd_buffer' = ir_cmd_buffer \/ GetCmd
  <1>1. /\ ByteBits \in Nat \ {0} /\ MessageBits = 4 * ByteBits
        /\ bits \in Seq({0, 1}) /\ BitOf(Duration(gap')) \in {0, 1}
    BY Position, ByteTypes
  <1>2. CASE IsLeader(Duration(gap')) /\ ParseLeader
    BY <1>2 DEF ParseLeader, LastBitComes, IsBit, IsOne, IsZero
  <1>3. bits' = <<>> /\ (bits' = bits \/ bits' = Append(bits, BitOf(Duration(gap'))))
           => ~LastBitComes
    <2>1. Len(bits) = MessageBits - 1 => Len(bits) # 0
      BY <1>1
    <2>2. Append(bits, BitOf(Duration(gap'))) # <<>>
      <3> DEFINE b == BitOf(Duration(gap'))
      <3>1. bits \in Seq({0, 1}) /\ b \in {0, 1}
        BY <1>1
      <3> HIDE DEF b
      <3>2. Len(Append(bits, b)) = Len(bits) + 1 /\ Len(bits) \in Nat
        BY ONLY <3>1
      <3>3. Len(Append(bits, b)) # 0
        BY ONLY <3>2
      <3>4. Append(bits, b) # <<>>
        BY ONLY <3>3
      <3> QED BY <3>4 DEF b
    <2> QED BY <2>1, <2>2 DEF LastBitComes
  <1>4. CASE ParseBit(Duration(gap')) \/ ParseByte(Duration(gap'))
    BY <1>3, <1>4 DEF ParseBit, ParseByte, HistoryOf, LastBitComes
  <1>5. CASE GetCmd
    BY <1>3, <1>5 DEF GetCmd, LastBitComes
  <1>6. CASE UNCHANGED irVars
    BY <1>3, <1>6 DEF irVars, LastBitComes
  <1> QED BY <1>2, <1>4, <1>5, <1>6, EdgeCases

(* However many edges are no bits, a frame of a remote never becomes       *)
(* another command that passes the checksum: one of two complementary      *)
(* bytes starts with a one and loses it when it is glitched, and no byte   *)
(* gains one (ir_remote_ta1.c:77-91, 109-111).                             *)
THEOREM GlitchesCorrect == IrSpec => GlitchesForgeNothing
  <1> DEFINE Step ==
          /\ ir_cmd_buffer' # ir_cmd_buffer /\ ~GetCmd => LastBitComes
          /\ LastBitComes /\ Complementary => ir_cmd_buffer' \in
               {ir_cmd_buffer, BufferPut(ir_cmd_buffer, ByteOf(AllBits, 3), IrBufferSize)}
  <1>1. ASSUME DecoderInv, [IrNext]_irVars
        PROVE  Step
    <2>1. CASE ParseMessage(Duration(gap'))
      <3>1. ir_cmd_buffer' = IF ChecksumOk(ir_message')
                             THEN BufferPut(ir_cmd_buffer, ir_message'.cmd, IrBufferSize)
                             ELSE ir_cmd_buffer
        BY <2>1 DEF ParseMessage
      <3>2. /\ LastBitComes
            /\ Complementary /\ ChecksumOk(ir_message')
                  => ir_message'.cmd = ByteOf(AllBits, 3)
        BY <1>1, <2>1, MessageIs
      <3> QED BY <3>1, <3>2
    <2>2. CASE ~ParseMessage(Duration(gap'))
      BY <1>1, <2>2, OnlyMessagesStore
    <2> QED BY <2>1, <2>2
  <1>2. DecoderInv /\ [IrNext]_irVars => [Step]_irVars
    BY <1>1
  <1> QED BY <1>2, DecoderCorrect, PTL DEF IrSpec, GlitchesForgeNothing

(* A frame whose command bytes are clean is decoded, whatever was received *)
(* before its leader (ir_remote_ta1.c:70-76, 94-119, 232).                 *)
THEOREM CleanFrameCorrect == IrSpec => CleanFrameIsStored
  <1> DEFINE Step ==
          LastBitComes /\ Complementary /\ glitched \cap {3, 4} = {}
             => ir_cmd_buffer' = BufferPut(ir_cmd_buffer, ByteOf(AllBits, 3), IrBufferSize)
  <1>1. ASSUME DecoderInv, [IrNext]_irVars
        PROVE  Step
    <2>1. CASE ParseMessage(Duration(gap'))
      BY <1>1, <2>1, MessageIs DEF ParseMessage
    <2>2. CASE ~ParseMessage(Duration(gap'))
      BY <1>1, <2>2, OnlyMessagesStore
    <2> QED BY <2>1, <2>2
  <1>2. DecoderInv /\ [IrNext]_irVars => [Step]_irVars
    BY <1>1
  <1> QED BY <1>2, DecoderCorrect, PTL DEF IrSpec, CleanFrameIsStored
=============================================================================
