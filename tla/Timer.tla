-------------------------------- MODULE Timer --------------------------------
(***************************************************************************)
(* app/timer.c on top of drivers/millis.c.  The watchdog interrupt counts  *)
(* half milliseconds in 32 bits; millis() switches that interrupt off,     *)
(* reads the counter in two words (the processor has 16 bits), halves it   *)
(* and switches the interrupt on again.  A timer is an absolute deadline   *)
(* that its user polls.  Time is in ticks of the watchdog, which the code  *)
(* takes for 0.5 ms; they have 8192 cycles of 16 MHz, 0.512 ms.            *)
(***************************************************************************)
EXTENDS Naturals

CONSTANTS
    Word,           \* values of a machine word, 2^16 in the code
    Timeouts,       \* the timeout_ms arguments
    MaxTime         \* bound on the half milliseconds of a behaviour

Counter == Word * Word          \* values of a uint32_t

(* The longest timeout of the state machine is a few seconds.              *)
ASSUME WordAssumption == Word \in Nat /\ Word > 1
ASSUME TimeoutsAssumption == Timeouts \subseteq 1 .. Counter \div 2
ASSUME TimeAssumption == MaxTime \in Nat

VARIABLES
    watchdog_interrupt_cnt,
    wdtie,          \* IE1.WDTIE: the watchdog interrupt is enabled
    wdtifg,         \* its flag: half a millisecond is over
    pc,             \* where millis() is
    call,           \* who called it: timer_start(timeout) or timer_timeout
    read,           \* the counter as far as it was read
    timer,          \* the timer_t
    timed_out,      \* what timer_timeout returned last
    now,            \* the half milliseconds since reset
    begun,          \* history: when millis() was entered last
    from, armed     \* history: begin and timeout of the last timer_start

vars == <<watchdog_interrupt_cnt, wdtie, wdtifg, pc, call, read, timer,
          timed_out, now, begun, from, armed>>

TIMER_CLEARED == 0
NoCall == [name |-> "none", timeout_ms |-> 0]
Starts == {[name |-> "start", timeout_ms |-> t] : t \in Timeouts}
Poll == [name |-> "timeout", timeout_ms |-> 0]

TypeOK ==
    /\ watchdog_interrupt_cnt \in 0 .. Counter - 1
    /\ wdtie \in BOOLEAN /\ wdtifg \in BOOLEAN
    /\ pc \in {"idle", "disable", "low", "high", "enable"}
    /\ call \in Starts \cup {Poll, NoCall}
    /\ read \in 0 .. Counter - 1
    /\ timer \in 0 .. Counter - 1
    /\ timed_out \in BOOLEAN
    /\ now \in 0 .. MaxTime
    /\ begun \in 0 .. MaxTime /\ from \in 0 .. MaxTime
    /\ armed \in Timeouts \cup {0}

Init ==
    /\ watchdog_interrupt_cnt = 0
    /\ wdtie = TRUE /\ wdtifg = FALSE
    /\ pc = "idle"
    /\ call = NoCall
    /\ read = 0
    /\ timer = TIMER_CLEARED
    /\ timed_out = FALSE
    /\ now = 0 /\ begun = 0 /\ from = 0 /\ armed = 0

clock == <<watchdog_interrupt_cnt, wdtifg, now>>
history == <<from, armed>>

-----------------------------------------------------------------------------
(* The user, which is the state machine. *)
Start ==
    /\ pc = "idle"
    /\ call' \in Starts
    /\ pc' = "disable"
    /\ timed_out' = FALSE
    /\ UNCHANGED <<clock, wdtie, read, timer, begun, history>>

(* A cleared timer never times out, and the clock is not read.             *)
Timeout ==
    /\ pc = "idle"
    /\ IF timer = TIMER_CLEARED
       THEN timed_out' = FALSE /\ UNCHANGED <<pc, call>>
       ELSE pc' = "disable" /\ call' = Poll /\ UNCHANGED timed_out
    /\ UNCHANGED <<clock, wdtie, read, timer, begun, history>>

Clear ==
    /\ pc = "idle"
    /\ timer' = TIMER_CLEARED
    /\ timed_out' = FALSE
    /\ UNCHANGED <<clock, wdtie, pc, call, read, begun, history>>

(* millis() *)

(* Mutant: the interrupt stays enabled while the counter is read. *)
Disable_Not ==
    /\ pc = "disable"
    /\ pc' = "low"
    /\ begun' = now
    /\ UNCHANGED <<clock, wdtie, call, read, timer, timed_out, history>>

(* "Disable interrupts while retrieving the counter" *)
Disable ==
    /\ pc = "disable"
    /\ wdtie' = FALSE
    /\ pc' = "low"
    /\ begun' = now
    /\ UNCHANGED <<clock, call, read, timer, timed_out, history>>

(* Mutant: the low word keeps the bits of the high one. *)
ReadLow_Whole ==
    /\ pc = "low"
    /\ read' = watchdog_interrupt_cnt
    /\ pc' = "high"
    /\ UNCHANGED <<clock, wdtie, call, timer, timed_out, begun, history>>

ReadLow ==
    /\ pc = "low"
    /\ read' = watchdog_interrupt_cnt % Word
    /\ pc' = "high"
    /\ UNCHANGED <<clock, wdtie, call, timer, timed_out, begun, history>>

ReadHigh ==
    /\ pc = "high"
    /\ read' = (watchdog_interrupt_cnt \div Word) * Word + read
    /\ pc' = "enable"
    /\ UNCHANGED <<clock, wdtie, call, timer, timed_out, begun, history>>

(* "Divide by two because the watchdog timer triggers every 0.5 ms" *)
Millis == read \div 2

(* Mutant: a timer is over in its last millisecond already. *)
TimedOut_Reached(ms, deadline) == ms >= deadline

TimedOut(ms, deadline) == ms > deadline

(* millis() returns to timer_start or timer_timeout. *)
Enable ==
    /\ pc = "enable"
    /\ wdtie' = TRUE
    /\ pc' = "idle"
    /\ call' = NoCall
    /\ read' = 0
    /\ \/ /\ call \in Starts
          /\ timer' = (Millis + call.timeout_ms) % Counter
          /\ from' = begun
          /\ armed' = call.timeout_ms
          /\ UNCHANGED timed_out
       \/ /\ call = Poll
          /\ timed_out' = TimedOut(Millis, timer)
          /\ UNCHANGED <<timer, history>>
    /\ UNCHANGED <<clock, begun>>

-----------------------------------------------------------------------------
(* The watchdog: every half millisecond it raises its flag.  The handlers  *)
(* and critical sections of this program are far shorter than that, so the *)
(* flag has always been served when it is raised again.                    *)
HalfMillisecond ==
    /\ now < MaxTime
    /\ ~wdtifg
    /\ now' = now + 1
    /\ wdtifg' = TRUE
    /\ UNCHANGED <<watchdog_interrupt_cnt, wdtie, pc, call, read, timer, timed_out,
                   begun, history>>

(* isr_watchdog *)
Isr ==
    /\ wdtie /\ wdtifg
    /\ wdtifg' = FALSE
    /\ watchdog_interrupt_cnt' = (watchdog_interrupt_cnt + 1) % Counter
    /\ UNCHANGED <<wdtie, pc, call, read, timer, timed_out, now, begun, history>>

MillisStep == Disable \/ ReadLow \/ ReadHigh \/ Enable

Next == Start \/ Timeout \/ Clear \/ MillisStep \/ HalfMillisecond \/ Isr

Spec == Init /\ [][Next]_vars

-----------------------------------------------------------------------------
(* A timer never times out before its timeout is over, in true time,       *)
(* although millis() rounds down and its counter may be half a millisecond *)
(* behind or has wrapped meanwhile (timer.c:7-18, millis.c:12-20).         *)
NeverEarly == timed_out => now - from >= 2 * armed

(* The step in which timer_timeout answers for a timer that runs.          *)
Answers == pc = "enable" /\ call = Poll /\ pc' = "idle"

(* The counter read at begun has not wrapped since the one read at from,   *)
(* which may be one behind the time.                                       *)
SameTurn == begun \div Counter = from \div Counter /\ from % Counter # 0

(* And it does time out: a poll that begins three ticks of the watchdog    *)
(* after the timeout, counted in ticks itself, finds it over.  Two come    *)
(* from the rounding and the strict comparison, one from an interrupt that *)
(* is still pending (timer.c:17, millis.c:15-17).  A tick has 0.512 ms, so *)
(* that a timeout of a second is over after 1.024 s and at most 1.536 ms   *)
(* (mcu_init.c:7, 33).  Not so once the counter has wrapped:               *)
(* deadlines do not wrap with it, and millis() starts again from zero.     *)
OnTime == [][Answers /\ begun - from >= 2 * armed + 3 /\ SameTurn => timed_out']_vars
=============================================================================
