---------------------------- MODULE Timer_proofs ----------------------------
(***************************************************************************)
(* Proofs about app/timer.c and drivers/millis.c, for every word size,     *)
(* every timeout and however long the program runs: the counter may wrap   *)
(* any number of times.                                                    *)
(***************************************************************************)
EXTENDS Timer, TLAPS

(* The half milliseconds that isr_watchdog has counted: all, or all but    *)
(* the one whose flag is raised.                                           *)
Ticks == now - (IF wdtifg THEN 1 ELSE 0)

(* The counter is the ticks modulo its range; while millis() runs it does  *)
(* not change, and what was read of it is still true.                      *)
ClockInv ==
    /\ Ticks \in Nat
    /\ watchdog_interrupt_cnt = Ticks % Counter
    /\ wdtie <=> pc \in {"idle", "disable"}
    /\ begun <= now /\ from <= now
    /\ ~wdtie => Ticks \in {begun, begun - 1}
    /\ pc = "high" => read = watchdog_interrupt_cnt % Word
    /\ pc = "enable" => read = watchdog_interrupt_cnt

(* A timer is started as not timed out, and only a running one is asked.   *)
CallInv ==
    /\ pc = "idle" => call = NoCall
    /\ call \in Starts => ~timed_out
    /\ call = Poll => timer # TIMER_CLEARED

(* The ticks f that timer_start read are as true as from, or one behind.   *)
StartedAt(f) == f \in {from, from - 1} /\ f <= Ticks /\ timer = (f % Counter) \div 2 + armed

DeadlineInv == timer # TIMER_CLEARED => \E f \in Nat : StartedAt(f)

(* The inductive invariant. *)
Inv ==
    /\ TypeOK
    /\ ClockInv
    /\ CallInv
    /\ DeadlineInv
    /\ NeverEarly

-----------------------------------------------------------------------------
LEMMA CallsDiffer == NoCall # Poll /\ NoCall \notin Starts /\ Poll \notin Starts
  BY DEF NoCall, Poll, Starts

LEMMA CounterType == Counter \in Nat /\ Counter > 1
  BY WordAssumption DEF Counter

LEMMA DivMod ==
    ASSUME NEW n \in Nat, NEW w \in Nat, w > 0
    PROVE  /\ n = (n \div w) * w + (n % w)
           /\ n \div w \in Nat /\ n % w \in 0 .. w - 1
  OBVIOUS

(* Quotient and remainder are unique. *)
LEMMA ModIs ==
    ASSUME NEW w \in Nat, w > 0, NEW q \in Nat, NEW r \in 0 .. w - 1
    PROVE  (q * w + r) % w = r /\ (q * w + r) \div w = q
  OBVIOUS

(* One tick more. *)
LEMMA ModStep ==
    ASSUME NEW w \in Nat, w > 0, NEW n \in Nat
    PROVE  ((n % w) + 1) % w = (n + 1) % w
  <1> DEFINE q == n \div w
             r == n % w
  <1>1. n = q * w + r /\ q \in Nat /\ r \in 0 .. w - 1
    BY DivMod
  <1> HIDE DEF q, r
  <1>2. CASE r + 1 < w
    <2>1. n + 1 = q * w + (r + 1) /\ r + 1 \in 0 .. w - 1
      BY <1>1, <1>2
    <2>2. (n + 1) % w = r + 1
      BY <1>1, <2>1, ModIs
    <2>3. (r + 1) % w = r + 1
      BY <2>1
    <2> QED BY <2>2, <2>3 DEF r
  <1>3. CASE r + 1 = w
    <2>1. n + 1 = (q + 1) * w + 0
      BY <1>1, <1>3
    <2>2. (n + 1) % w = 0
      BY <1>1, <2>1, ModIs
    <2>3. (r + 1) % w = 0
      BY <1>3
    <2> QED BY <2>2, <2>3 DEF r
  <1> QED BY <1>1, <1>2, <1>3

(* The counter moves no further than the time. *)
LEMMA ModDifference ==
    ASSUME NEW w \in Nat, w > 0, NEW f \in Nat, NEW t \in Nat, f <= t
    PROVE  (t % w) - (f % w) <= t - f
  <1>1. /\ f = (f \div w) * w + (f % w) /\ f \div w \in Nat /\ f % w \in 0 .. w - 1
        /\ t = (t \div w) * w + (t % w) /\ t \div w \in Nat /\ t % w \in 0 .. w - 1
    BY DivMod
  <1>2. f \div w <= t \div w
    BY <1>1
  <1>3. (f \div w) * w <= (t \div w) * w
    BY <1>1, <1>2
  <1> QED BY <1>1, <1>3

(* Within a turn it moves as far. *)
LEMMA ModSameTurn ==
    ASSUME NEW w \in Nat, w > 0, NEW f \in Nat, NEW b \in Nat, f <= b,
           b \div w = f \div w, f % w # 0,
           NEW g \in Nat, g \in {f, f - 1}, NEW t \in Nat, t \in {b, b - 1}, g <= t
    PROVE  (t % w) - (g % w) = t - g
  <1> DEFINE q == f \div w
  <1>1. /\ f = q * w + (f % w) /\ q \in Nat /\ f % w \in 1 .. w - 1
        /\ b = q * w + (b % w) /\ b % w \in 0 .. w - 1
    BY DivMod
  <1> HIDE DEF q
  <1>2. g - q * w \in 0 .. w - 1 /\ t - q * w \in 0 .. w - 1
    BY <1>1
  <1>3. g = q * w + (g - q * w) /\ t = q * w + (t - q * w)
    BY <1>1
  <1>4. g % w = g - q * w /\ t % w = t - q * w
    BY <1>1, <1>2, <1>3, ModIs
  <1> QED BY <1>1, <1>4

-----------------------------------------------------------------------------
LEMMA InitInv == Init => Inv
  <1> SUFFICES ASSUME Init
               PROVE  Inv
    OBVIOUS
  <1>1. 0 % Counter = 0
    BY CounterType
  <1>2. TypeOK
    <2>1. 0 \in 0 .. Counter - 1 /\ 0 \in 0 .. MaxTime
      BY CounterType, TimeAssumption
    <2> QED BY <2>1 DEF Init, TypeOK, TIMER_CLEARED
  <1>3. call \notin Starts /\ call # Poll
    BY CallsDiffer DEF Init
  <1> QED BY <1>1, <1>2, <1>3
          DEF Init, Inv, ClockInv, CallInv, DeadlineInv, NeverEarly, Ticks

(* timer_start, timer_timeout and timer_clear, up to millis(). *)
LEMMA UserInv == Inv /\ (Start \/ Timeout \/ Clear) => Inv'
  <1> SUFFICES ASSUME Inv, Start \/ Timeout \/ Clear
               PROVE  Inv'
    OBVIOUS
  <1>1. /\ pc = "idle" /\ pc' \in {"idle", "disable"}
        /\ UNCHANGED <<watchdog_interrupt_cnt, wdtifg, now, wdtie, read, begun, from, armed>>
        /\ timed_out' \in {FALSE, timed_out}
        /\ timer' \in {TIMER_CLEARED, timer}
    BY DEF Start, Timeout, Clear, clock, history
  <1>2. \/ call' \in Starts /\ ~timed_out'
        \/ call' = Poll /\ timer # TIMER_CLEARED /\ timer' = timer
        \/ call' = NoCall
    BY DEF Start, Timeout, Clear, Inv, CallInv
  <1>3. TypeOK'
    <2>1. 0 \in 0 .. Counter - 1
      BY CounterType
    <2>2. call' \in Starts \cup {Poll, NoCall}
      BY <1>2
    <2>3. timer' \in 0 .. Counter - 1 /\ timed_out' \in BOOLEAN
      BY <1>1, <2>1 DEF Inv, TypeOK, TIMER_CLEARED
    <2> QED BY <1>1, <2>2, <2>3 DEF Inv, TypeOK
  <1>4. ClockInv'
    BY <1>1 DEF Inv, ClockInv, Ticks
  <1>5. CallInv'
    <2>1. pc' = "idle" => call' = NoCall
      BY DEF Start, Timeout, Clear, Inv, CallInv
    <2> QED BY <1>2, <2>1, CallsDiffer DEF CallInv
  <1>6. DeadlineInv'
    BY <1>1 DEF Inv, DeadlineInv, StartedAt, Ticks
  <1>7. NeverEarly'
    BY <1>1 DEF Inv, NeverEarly
  <1> QED BY <1>3, <1>4, <1>5, <1>6, <1>7 DEF Inv

(* millis(), up to its last statement *)
LEMMA ReadInv == Inv /\ (Disable \/ ReadLow \/ ReadHigh) => Inv'
  <1> SUFFICES ASSUME Inv, Disable \/ ReadLow \/ ReadHigh
               PROVE  Inv'
    OBVIOUS
  <1>1. /\ pc \in {"disable", "low", "high"} /\ pc' \in {"low", "high", "enable"}
        /\ UNCHANGED <<watchdog_interrupt_cnt, wdtifg, now, call, timer, timed_out, from, armed>>
    BY DEF Disable, ReadLow, ReadHigh, clock, history
  <1>2. /\ watchdog_interrupt_cnt \in 0 .. Counter - 1 /\ now \in 0 .. MaxTime
        /\ read \in 0 .. Counter - 1 /\ wdtifg \in BOOLEAN /\ begun \in 0 .. MaxTime
        /\ Ticks \in Nat
    BY DEF Inv, TypeOK, ClockInv
  <1>3. ~wdtie' /\ begun' \in 0 .. MaxTime /\ begun' <= now /\ Ticks \in {begun', begun' - 1}
    <2>1. CASE Disable
      BY <1>2, <2>1, TimeAssumption DEF Disable, Ticks
    <2>2. CASE ReadLow \/ ReadHigh
      BY <1>1, <1>2, <2>2 DEF ReadLow, ReadHigh, Inv, ClockInv
    <2> QED BY <2>1, <2>2
  <1>4. /\ read' \in 0 .. Counter - 1
        /\ pc' = "high" => read' = watchdog_interrupt_cnt % Word
        /\ pc' = "enable" => read' = watchdog_interrupt_cnt
    <2> DEFINE c == watchdog_interrupt_cnt
    <2>1. c = (c \div Word) * Word + (c % Word) /\ c % Word \in 0 .. Word - 1 /\ c \div Word \in Nat
      BY <1>2, CounterType, WordAssumption, DivMod
    <2>2. c % Word <= c
      BY <1>2, <2>1, CounterType, WordAssumption
    <2> HIDE DEF c
    <2>3. CASE Disable
      BY <1>2, <2>3 DEF Disable
    <2>4. CASE ReadLow
      BY <1>2, <2>1, <2>2, <2>4, CounterType DEF ReadLow, c
    <2>5. CASE ReadHigh
      <3>1. read = c % Word /\ read' = (c \div Word) * Word + read /\ pc' = "enable"
        BY <2>5 DEF ReadHigh, Inv, ClockInv, c
      <3> QED BY <1>2, <2>1, <3>1 DEF c
    <2> QED BY <2>3, <2>4, <2>5
  <1>5. TypeOK'
    <2>1. wdtie' \in BOOLEAN
      BY DEF Disable, ReadLow, ReadHigh, Inv, TypeOK
    <2> QED BY <1>1, <1>3, <1>4, <2>1 DEF Inv, TypeOK
  <1>6. ClockInv'
    BY <1>1, <1>3, <1>4 DEF Inv, ClockInv, Ticks
  <1>7. CallInv' /\ DeadlineInv' /\ NeverEarly'
    BY <1>1 DEF Inv, CallInv, DeadlineInv, StartedAt, Ticks, NeverEarly
  <1> QED BY <1>5, <1>6, <1>7 DEF Inv

(* What millis() returns is half the ticks of this turn. *)
LEMMA MillisIs ==
    Inv /\ pc = "enable" => /\ Millis = (Ticks % Counter) \div 2
                           /\ Ticks \in Nat /\ Ticks % Counter \in 0 .. Counter - 1
                           /\ Ticks \in {begun, begun - 1} /\ Ticks <= now
  <1> SUFFICES ASSUME Inv, pc = "enable"
               PROVE  /\ Millis = (Ticks % Counter) \div 2
                      /\ Ticks \in Nat /\ Ticks % Counter \in 0 .. Counter - 1
                      /\ Ticks \in {begun, begun - 1} /\ Ticks <= now
    OBVIOUS
  <1>1. read = Ticks % Counter /\ Ticks \in Nat /\ Ticks \in {begun, begun - 1}
    BY DEF Inv, ClockInv
  <1>2. Ticks <= now
    BY DEF Inv, TypeOK, Ticks
  <1> QED BY <1>1, <1>2 DEF Millis, Inv, TypeOK

(* A poll finds the timer over only when it is. *)
LEMMA PollIsTrue ==
    Inv /\ pc = "enable" /\ call = Poll /\ TimedOut(Millis, timer) => now - from >= 2 * armed
  <1> SUFFICES ASSUME Inv, pc = "enable", call = Poll, Millis > timer
               PROVE  now - from >= 2 * armed
    BY DEF TimedOut
  <1>1. PICK f \in Nat : StartedAt(f)
    BY DEF Inv, CallInv, DeadlineInv
  <1>2. /\ Millis = (Ticks % Counter) \div 2 /\ Ticks \in Nat /\ Ticks <= now
        /\ Ticks % Counter \in Nat
    BY MillisIs, CounterType
  <1>3. f % Counter \in Nat /\ (Ticks % Counter) - (f % Counter) <= Ticks - f
    <2>1. Counter > 0 /\ f <= Ticks
      BY <1>1, CounterType DEF StartedAt
    <2>2. f % Counter \in Nat
      BY <2>1, CounterType
    <2> QED BY <1>2, <2>1, <2>2, CounterType, ModDifference
  <1>4. armed \in Nat /\ from \in Nat /\ now \in Nat
    BY TimeoutsAssumption, CounterType, TimeAssumption DEF Inv, TypeOK
  <1>5. Ticks % Counter >= (f % Counter) + 2 * armed + 1
    BY <1>1, <1>2, <1>3, <1>4 DEF StartedAt
  <1> QED BY <1>1, <1>2, <1>3, <1>4, <1>5 DEF StartedAt

(* timer_start's deadline does not wrap, because no timeout is longer than *)
(* half a turn of the counter.                                             *)
LEMMA DeadlineFits ==
    Inv /\ pc = "enable" /\ call \in Starts =>
        /\ (Millis + call.timeout_ms) % Counter = Millis + call.timeout_ms
        /\ Millis + call.timeout_ms \in 0 .. Counter - 1
        /\ call.timeout_ms \in Timeouts
  <1> SUFFICES ASSUME Inv, pc = "enable", call \in Starts
               PROVE  /\ (Millis + call.timeout_ms) % Counter = Millis + call.timeout_ms
                      /\ Millis + call.timeout_ms \in 0 .. Counter - 1
                      /\ call.timeout_ms \in Timeouts
    OBVIOUS
  <1>1. call.timeout_ms \in Timeouts /\ call.timeout_ms \in 1 .. Counter \div 2
    BY TimeoutsAssumption DEF Starts
  <1>2. Millis \in 0 .. (Counter - 1) \div 2
    BY MillisIs, CounterType
  <1>3. Millis + call.timeout_ms \in 0 .. Counter - 1
    BY <1>1, <1>2, CounterType
  <1> QED BY <1>1, <1>3, CounterType

(* The end of millis(), and of its caller *)
LEMMA EnableInv == Inv /\ Enable => Inv'
  <1> SUFFICES ASSUME Inv, Enable
               PROVE  Inv'
    OBVIOUS
  <1>1. /\ pc = "enable" /\ pc' = "idle" /\ wdtie' = TRUE /\ call' = NoCall /\ read' = 0
        /\ UNCHANGED <<watchdog_interrupt_cnt, wdtifg, now, begun>>
    BY DEF Enable, clock
  <1>2. ClockInv'
    <2>1. from' \in {from, begun}
      BY DEF Enable, history
    <2> QED BY <1>1, <2>1 DEF Inv, ClockInv, Ticks
  <1>3. CallInv'
    BY <1>1, CallsDiffer DEF CallInv
  <1>4. CASE call \in Starts
    <2>1. /\ timer' = Millis + call.timeout_ms /\ timer' \in 0 .. Counter - 1
          /\ from' = begun /\ armed' = call.timeout_ms /\ armed' \in Timeouts
          /\ UNCHANGED timed_out
      BY <1>1, <1>4, CallsDiffer, DeadlineFits DEF Enable
    <2>2. TypeOK'
      <3>1. 0 \in 0 .. Counter - 1
        BY CounterType
      <3> QED BY <1>1, <2>1, <3>1 DEF Inv, TypeOK
    <2>3. DeadlineInv'
      <3>1. Millis = (Ticks % Counter) \div 2 /\ Ticks \in Nat /\ Ticks \in {begun, begun - 1}
        BY <1>1, MillisIs
      <3>2. Ticks' = Ticks
        BY <1>1 DEF Ticks
      <3>3. StartedAt(Ticks)'
        BY <2>1, <3>1, <3>2 DEF StartedAt
      <3> QED BY <3>1, <3>2, <3>3 DEF DeadlineInv
    <2>4. NeverEarly'
      BY <1>4, <2>1 DEF Inv, CallInv, NeverEarly
    <2> QED BY <1>2, <1>3, <2>2, <2>3, <2>4 DEF Inv
  <1>5. CASE call = Poll
    <2>1. /\ UNCHANGED <<timer, from, armed>>
          /\ timed_out' = TimedOut(Millis, timer)
      BY <1>5, CallsDiffer DEF Enable, history
    <2>2. TypeOK'
      <3>1. 0 \in 0 .. Counter - 1
        BY CounterType
      <3>2. TimedOut(Millis, timer) \in BOOLEAN
        BY DEF TimedOut
      <3> QED BY <1>1, <2>1, <3>1, <3>2 DEF Inv, TypeOK
    <2>3. DeadlineInv'
      BY <1>1, <2>1 DEF Inv, DeadlineInv, StartedAt, Ticks
    <2>4. NeverEarly'
      BY <1>1, <1>5, <2>1, PollIsTrue DEF NeverEarly
    <2> QED BY <1>2, <1>3, <2>2, <2>3, <2>4 DEF Inv
  <1> QED BY <1>4, <1>5 DEF Enable

-----------------------------------------------------------------------------
(* Time passes; a flag that is raised is a tick not counted yet. *)
LEMMA HalfMillisecondInv == Inv /\ HalfMillisecond => Inv'
  <1> SUFFICES ASSUME Inv, HalfMillisecond
               PROVE  Inv'
    OBVIOUS
  <1>1. /\ now' = now + 1 /\ now < MaxTime /\ ~wdtifg /\ wdtifg' = TRUE
        /\ UNCHANGED <<watchdog_interrupt_cnt, wdtie, pc, call, read, timer, timed_out,
                       begun, from, armed>>
    BY DEF HalfMillisecond, history
  <1>2. now \in Nat /\ begun \in Nat /\ from \in Nat /\ MaxTime \in Nat
    BY TimeAssumption DEF Inv, TypeOK
  <1>3. Ticks' = Ticks
    BY <1>1, <1>2 DEF Ticks
  <1>4. TypeOK'
    <2>1. now' \in 0 .. MaxTime
      BY <1>1, <1>2
    <2> QED BY <1>1, <2>1 DEF Inv, TypeOK
  <1>5. ClockInv'
    BY <1>1, <1>2, <1>3 DEF Inv, ClockInv
  <1>6. CallInv' /\ DeadlineInv'
    BY <1>1, <1>3 DEF Inv, CallInv, DeadlineInv, StartedAt
  <1>7. NeverEarly'
    <2>1. armed \in Nat
      BY TimeoutsAssumption, CounterType DEF Inv, TypeOK
    <2> QED BY <1>1, <1>2, <2>1 DEF Inv, NeverEarly
  <1> QED BY <1>4, <1>5, <1>6, <1>7 DEF Inv

LEMMA IsrInv == Inv /\ Isr => Inv'
  <1> SUFFICES ASSUME Inv, Isr
               PROVE  Inv'
    OBVIOUS
  <1>1. /\ wdtie /\ wdtifg /\ wdtifg' = FALSE
        /\ watchdog_interrupt_cnt' = (watchdog_interrupt_cnt + 1) % Counter
        /\ UNCHANGED <<wdtie, pc, call, read, timer, timed_out, now, begun, from, armed>>
    BY DEF Isr, history
  <1>2. now \in Nat /\ Ticks \in Nat /\ watchdog_interrupt_cnt = Ticks % Counter /\ pc # "enable"
        /\ pc # "high"
    BY <1>1 DEF Inv, TypeOK, ClockInv
  <1>3. Ticks' = Ticks + 1
    BY <1>1, <1>2 DEF Ticks
  <1>4. watchdog_interrupt_cnt' = Ticks' % Counter /\ watchdog_interrupt_cnt' \in 0 .. Counter - 1
    <2>1. Counter > 0 /\ Ticks + 1 \in Nat
      BY <1>2, CounterType
    <2>2. ((Ticks % Counter) + 1) % Counter = (Ticks + 1) % Counter
      BY <1>2, <2>1, CounterType, ModStep
    <2>3. (Ticks + 1) % Counter \in 0 .. Counter - 1
      BY <2>1, CounterType, DivMod
    <2> QED BY <1>1, <1>2, <1>3, <2>2, <2>3
  <1>5. TypeOK'
    BY <1>1, <1>4 DEF Inv, TypeOK
  <1>6. ClockInv'
    BY <1>1, <1>2, <1>3, <1>4 DEF Inv, ClockInv
  <1>7. CallInv' /\ NeverEarly'
    BY <1>1 DEF Inv, CallInv, NeverEarly
  <1>8. DeadlineInv'
    BY <1>1, <1>2, <1>3 DEF Inv, DeadlineInv, StartedAt
  <1> QED BY <1>5, <1>6, <1>7, <1>8 DEF Inv

-----------------------------------------------------------------------------
(* The counter is true, whatever the interrupt does between the steps of   *)
(* millis() and however often it wraps, and so is every deadline.          *)
THEOREM InvCorrect == Spec => []Inv
  <1>1. Inv /\ [Next]_vars => Inv'
    <2> SUFFICES ASSUME Inv, [Next]_vars
                 PROVE  Inv'
      OBVIOUS
    <2>1. CASE Start \/ Timeout \/ Clear
      BY <2>1, UserInv
    <2>2. CASE MillisStep
      BY <2>2, ReadInv, EnableInv DEF MillisStep
    <2>3. CASE HalfMillisecond
      BY <2>3, HalfMillisecondInv
    <2>4. CASE Isr
      BY <2>4, IsrInv
    <2>5. CASE UNCHANGED vars
      BY <2>5 DEF vars, Inv, TypeOK, ClockInv, CallInv, DeadlineInv, StartedAt, Ticks, NeverEarly
    <2> QED BY <2>1, <2>2, <2>3, <2>4, <2>5 DEF Next
  <1> QED BY InitInv, <1>1, PTL DEF Spec

(* A timer never times out before its timeout is over in true time. *)
THEOREM NeverEarlyCorrect == Spec => []NeverEarly
  <1>1. Inv => NeverEarly
    BY DEF Inv
  <1> QED BY InvCorrect, <1>1, PTL

(* A poll that begins three ticks of the watchdog after the timeout, in    *)
(* the turn of the counter in which the timer was started, finds it over.  *)
THEOREM OnTimeCorrect == Spec => OnTime
  <1>1. Inv /\ [Next]_vars =>
            [Answers /\ begun - from >= 2 * armed + 3 /\ SameTurn => timed_out']_vars
    <2> SUFFICES ASSUME Inv, [Next]_vars, Answers, begun - from >= 2 * armed + 3, SameTurn
                 PROVE  timed_out'
      OBVIOUS
    <2>1. Enable
      BY CallsDiffer DEF Next, vars, MillisStep, Answers, Start, Timeout, Clear, Disable, ReadLow,
                         ReadHigh, HalfMillisecond, Isr
    <2>2. timed_out' = (Millis > timer)
      BY <2>1, CallsDiffer DEF Enable, Answers, TimedOut
    <2>3. PICK f \in Nat : StartedAt(f)
      BY DEF Inv, CallInv, DeadlineInv, Answers
    <2>4. /\ Millis = (Ticks % Counter) \div 2 /\ Ticks \in Nat
          /\ Ticks \in {begun, begun - 1} /\ Ticks % Counter \in Nat
      BY MillisIs, CounterType DEF Answers
    <2>5. armed \in Nat /\ from \in Nat /\ begun \in Nat
      BY TimeoutsAssumption, CounterType, TimeAssumption DEF Inv, TypeOK
    <2>6. (Ticks % Counter) - (f % Counter) = Ticks - f
      <3>1. Counter > 0 /\ from <= begun /\ f \in {from, from - 1} /\ f <= Ticks
        BY <2>3, <2>5, CounterType DEF StartedAt
      <3>2. begun \div Counter = from \div Counter /\ from % Counter # 0
        BY DEF SameTurn
      <3> QED BY <2>4, <2>5, <3>1, <3>2, CounterType, ModSameTurn
    <2>7. Ticks - f >= 2 * armed + 2
      BY <2>3, <2>4, <2>5 DEF StartedAt
    <2>8. f % Counter \in Nat /\ timer = (f % Counter) \div 2 + armed
      BY <2>3, CounterType DEF StartedAt
    <2>9. Millis > timer
      BY <2>3, <2>4, <2>5, <2>6, <2>7, <2>8
    <2> QED BY <2>2, <2>9
  <1> QED BY InvCorrect, <1>1, PTL DEF Spec, OnTime
=============================================================================
