# A verification of the RoboMsp430 firmware in TLA+

The firmware drives a two-wheeled robot on an MSP430G2553: it waits for a key
of an infrared remote, is driven by hand or explores on its own, and turns away
from walls that three laser range sensors see. It has no operating system: one
main loop, five interrupt handlers, and drivers that poll. This directory
models its core logic and its drivers in TLA+, checks small instances with TLC
and proves what matters most with TLAPS.

## 1. The system

| Part | State it keeps | Operations | Talks to |
|---|---|---|---|
| state machine (`app/state_machine.c`, `state_*.c`) | state, posted event, state timer, last walls and command, move and speed, `handling_wall`, input history | the main loop: `process_input`, `process_event`, the enter functions | calls wall, remote, timers and drive; nothing calls it |
| wall detection (`app/wall.c`) | none | `wall_get`, `wall_at_*` | reads the range sensors |
| range sensors (`drivers/vl53l0x.c`) | measuring status, last values; the devices' own state | initialisation, `vl53l0x_read_range_multiple`, an interrupt | I2C; the pin interrupt of the front sensor |
| I2C master (`drivers/i2c.c`) | hardware registers | `i2c_read`, `i2c_write` | polls the bus |
| drive (`app/drive.c`, `drivers/tb6612fng.c`) | pins | `drive_set`, `drive_stop` | the motor driver's pins and the PWM |
| PWM (`drivers/pwm_both_timers.c`) | compare base, phase, speed | set the duty; a compare interrupt | shares timer A1 with the infrared receiver |
| infrared remote (`drivers/ir_remote_ta1.c`) | decoder, ring buffer of commands | a capture interrupt decodes; the main loop fetches | shares a ring buffer between interrupt and main loop |
| UART (`drivers/uart.c`) | ring buffer of characters | `_putchar`; a transmit interrupt | shares a ring buffer between interrupt and main loop |
| ring buffer (`common/ring_buffer.c`) | storage, head, tail, full flag | put, get, peek, count | remote, UART, input history |
| timers (`app/timer.c`, `drivers/millis.c`) | deadlines; a counter of half milliseconds | start, poll, clear; the watchdog interrupt | the state machine polls |
| start-up (`main.c`, `mcu_init.c`, `drivers/io.c`) | pin registers | pins, serial line, motors, sensors, remote, one after the other | runs the initialisation of the range sensors with interrupts on |
| random numbers (`common/random.c`) | the state of the generator | `rand_simple` | chooses a direction when no wall is near |

The hard parts are the interleavings of the main loop with the interrupts (a
command, a character, a measurement or half a millisecond may come between any
two instructions), hardware that goes on while the program looks elsewhere,
counters that wrap, exchanges with a sensor that fail half-way, loops without a
timeout, resets that find the sensors and the motor driver still powered, and
flags that survive the situation they were set for. `PROJECT.json`
lists these hazards at their lines, each with the properties that watch it.

## 2. Modules

    Buffers          a bounded queue that drops its oldest element (one operator)
    DropOldestFifo   the abstract ring buffer
    RingBuffer       common/ring_buffer.c, implements DropOldestFifo
    Wall             app/wall.c, operators
    RandSimple       common/random.c, as the values its callers see
    StateExplore     the tables and the decision of app/state_explore.c, operators
    StateMachine     the main loop and the enter functions; extends StateExplore
    PwmTables        the speed table of drivers/pwm_both_timers.c
    Pwm              drivers/pwm_both_timers.c; extends PwmTables
    Drive            app/drive.c and drivers/tb6612fng.c; extends PwmTables
    Steering         composes StateExplore (with Wall) and Drive
    Robot            composes StateMachine and Drive
    Spads            the selection of SPADs in drivers/vl53l0x.c, operators
    Vl53l0x          drivers/vl53l0x.c with the three devices and the interrupt;
                     extends Spads
    Startup          main.c, mcu_init.c, the pins of drivers/io.c and resets,
                     around Vl53l0x
    I2c              drivers/i2c.c with the bus
    UartChannel      the abstract UART
    Uart             drivers/uart.c with the transmitter, implements UartChannel
    IrRemote         drivers/ir_remote_ta1.c
    Timer            app/timer.c and drivers/millis.c
    TimerA1          the counter that Pwm and IrRemote share
    *_proofs         theorems about the module of that name; TimerA1_proofs is
                     about Pwm and IrRemote, which share that timer
    MC*              instances for TLC

Definitions keep the names of the code where TLA+ allows it; the `map` of
`PROJECT.json` gives the lines of each. A definition whose name ends in an
underscore and a word (`Advance_NoWrap`) is a mutant: the definition before or
after it as a plausible mistake would have it. It is not part of the model; it
is there to show that a property notices.

**How state corresponds.** A variable is a C variable or a register of that
name. Three groups are different: `pc` and its like say between which two
statements a function is; variables marked *history* in their declaration
record something for a property and are never read by an action of the code;
the variables of devices (sensors, transmitter, motor driver, bus) stand for
hardware as the drivers use it, and are marked external in the map.

**StateMachine.** One loop is three actions: `Sense` (`wall_get`),
`ProcessInput` (fetch a command, save the history, select an event) and
`ProcessEvent` (table row and enter function in one step, since no
interrupt touches their data). `IrReceive` and `Tick` come between any two.
The timer is kept relative to now: cleared, over, or the time that remains.
This is exact as long as the clock does not wrap; the wrap is the subject of
Timer. A wall is one of those `wall_get` can produce from the readings, or none
for a failed read. The direction taken when no wall is near is one that
RandSimple says the generator yields: its two bits depend on the lowest ten of
the state, whose whole period RandSimple computes.

**Robot.** The same loop, but a change of what the state machine asks of the
motors becomes the list of register writes of Drive, executed one by one before
the loop goes on, while keys and the clock come in between. `motors` of
StateMachine is what was asked last; the pins and duties are what the wheels do.

**RingBuffer.** Each call is one step: the users call put and get with the
other side's interrupt disabled or from one side only, which Uart checks for
the UART. The other modules use `Buffers`, the queue RingBuffer is shown to
implement.

**Uart.** Every access to the buffer, the interrupt enable and the hardware is
a step; the interrupt handler, once begun, finishes before `_putchar` goes on,
the transmitter never waits. The oldest stored character is the one under way
until the interrupt takes it out, so the refinement to UartChannel counts it as
sent when the shift register has taken it.

**IrRemote.** One action per edge, with the true time since the last one; the
code sees it modulo the range of its timer. A byte is its bits, the least
significant one first, so that `>>= 1` and `|= 0x80` move them down and let one
in at the end. It has two bits in the run; the theorems are about any number.

**Vl53l0x.** One action per exchange that a device or the interrupt can tell
apart; groups of writes that only configure are part of the next one. Of the
register values the model keeps the page a sensor is on (register 0xFF), what
starts a measurement or a fetch from the non-volatile memory, and what clears a
result. A group that fails may have been cut short anywhere: the sensor may
have its address or not, be on another page, measure or not, and a failing read
may have replaced one of two bytes. A register read on the wrong page has any
value. Values are the number of the round they were measured in, because the
properties are about what belongs together.

**Startup.** `boot` is the function `test_state_machine` is in, `writes` the pin
registers that function still has to write, `port` the pins of the motor driver
and of the sensors' XSHUT inputs. `wall_init` runs the initialisation of
Vl53l0x, the main loop calls `vl53l0x_read_range_multiple` over and over. A
reset of the processor may come at any time: it clears the variables and makes
every pin an input, but keeps the level registers (PxOUT) and the sensors,
which have a power supply of their own. While its XSHUT pin is an input, a
sensor in standby may wake up (the breakout board pulls the pin up). Inputs of
the motor driver that nobody drives are low (it pulls them down).

**I2c.** Each iteration of a polling loop is a step. The bus may answer,
refuse or do nothing at any time, and shift the next byte in while the last
one is still to be fetched; the byte too many that a device may send before the
stop condition reaches it is a value of its own. `RetryCount` is small, so a
wait may run out however alive the device is. After a timeout no further call is
made: what the bus is in then is not determined by this code.

**Timer.** Time is in ticks of the watchdog. `millis` reads the counter in two
words with the watchdog interrupt disabled; the true time is kept beside the counter, which wraps
within a run.

**Pwm.** The counter of timer A1 runs in steps of `Unit` ticks. The interrupt
is held up by others for at most `MaxLatency`.

**Drive.** A command is a list of six register writes, executed one by one.
**Steering** makes the decision of `state_explore_run` from three readings and
hands its command to Drive: the properties span three source files.

## 3. What the runs check

Passing runs:

| Run | Shows | Bounds |
|---|---|---|
| `state_machine` | The timer runs exactly while exploring; the motors do what the state says, and after OK stand still until MANUAL; no event is lost; avoiding a wall is finished. | three keys that stand for OK, arrows and speeds; a near and a far reading; two commands buffered; history of one; moves of 0 and 1 ms, so that timeouts come before, with and after everything else |
| `robot` | When no register is left to write, the wheels do what the state wants; OK takes effect, moves and the handling of walls end. | three keys pressed, of OK, an arrow and a speed |
| `ring_buffer` | The head/tail/full encoding implements the queue; the count is zero exactly when it is empty. | three slots, three elements: every index wraps, every fill level occurs |
| `range_sensors` | From power-on and from a reset at any later moment: only the sensor just woken answers the default address; no wheel turns before the main loop begins, and then every motor pin is driven; SPADs are enabled as calibrated, as long as there are enough of the type asked for; the main loop begins, whatever fails; values handed out belong to one round. Until an exchange fails: sensors are started only when idle, every round is handed out once and in order, fresh values keep coming. | one reset; two faults anywhere, the initialisation included; rounds modulo four; a map of five SPADs in two rows of three, which like the 44 of the sensor do not fill the last row, and every good map, count and type of it |
| `uart` | Every character once and in order; no get from the empty buffer and no stored character without something that will send it; CR before LF; nothing is stuck. | three slots; three characters, one the line feed |
| `infrared` | Counters and bits stay in step; clean frames are decoded; glitches forge nothing. | two-bit bytes; gaps that are glitch, zero, one and leader, and a pause of more than a turn of the timer that measures like a one |
| `timer` | Never early, even when the counter has wrapped; over at the latest three ticks of the watchdog after the timeout, unless it has. | words of 4 values, so that the high word changes often and the counter wraps after 8 of 20 ms; timeouts of 1 and 3 ms |
| `pwm` | No compare is missed, phases have the length of the table, pulses go on. | a counter of 2000 in steps of 100 ticks; the longest phase is 1600 |
| `steering` | Commands do what they say; no wheel passes through a third direction; the robot turns away from near walls, and backs out of a dead end. | every command after every command; one reading per class of the thresholds (near, far, none) and sensor |
| `i2c` | Successful transfers are complete and free the bus; every transfer returns, within a number of iterations bounded by its size. | two retries; up to three bytes: a first, a middle and a last |

Every property of a passing run is broken by a mutant of a mapped definition,
listed in `PROJECT.json`. The type invariants of I2c and IrRemote are stated there
and proved (section 4), and no run spends time on them.

Runs that find a violation, each of what a comment or header of the repository
says:

| Run | What happens |
|---|---|
| `range_sensors_late_hang` | After a failed read of a side sensor, the next call polls the front sensor, which measures nothing, forever. |
| `i2c_timeout` | A wait for a byte that runs out returns OK, because the retries are counted below zero before they are tested. |

**Other disagreements**, met while modelling and kept as notes here rather than
as runs of their own:

- A failed initialisation of the sensors is only traced by `wall_init`
  (`wall.c:176`) and the main loop begins (`StartsUp`); if the sensors can be
  started, the first `wall_get` then waits forever for an interrupt that was
  never configured. (`FreshForever` without its exception for faults.)
- `status_multiple` is MEASURING before the sensors are started
  (`vl53l0x.c:744`); if the start of the front sensor fails, old values are
  handed out forever.
- A start cut short leaves the sensor on the register page it was writing
  (`vl53l0x.c:642`). If it is a side sensor, its result is then read on that
  page, and the value handed out is whatever register is there.
  (`ValuesOfOneRound` without its exception for such a value.)
- The end of the SPAD map is tested before the count (`vl53l0x.c:326`), so a
  complete selection whose last SPAD is the last of the map is refused with
  ERROR_SPAD. (`SpadsAsCalibrated` makes an exception for it.)
- "We should also only enable either only aperture or only non-aperture SPADs"
  (`vl53l0x.c:184-185`, likewise 320-322), but the loop that selects them starts
  at the first aperture SPAD when these are asked for (333) and does not stop
  there when the others are. A memory that asks for more non-aperture SPADs than
  its map has good ones contradicts itself; the code enables aperture ones in
  their place and succeeds, where too few aperture ones give ERROR_SPAD (347).
  (`SpadsAsCalibrated` excepts it. The smallest case asks for one non-aperture
  SPAD and has one good SPAD, an aperture one.)
- A tick of the watchdog is taken for 0.5 ms (`millis.c:15`) but has 8192 cycles
  of 16 MHz, 0.512 ms (`mcu_init.c:7`, `33`), so that every timeout is 2.4 %
  longer than its name says. Timer counts ticks: `NeverEarly` holds in real time
  all the more, the three ticks of `OnTime` are 1.536 ms, and they come on top of
  those 2.4 %.
- P1.0, a direction pin of the right wheel, has no entry in the table of pins
  (`io.c:110`). It becomes an output in `ir_remote_init_ta1`, just before the
  main loop; until then it is an input, which is harmless as long as the PWM
  pin is low (`MotorsReady`).
- `handling_wall` survives leaving EXPLORE (`state_explore.c:152`), so the first
  wall of the next exploration is ignored until the move times out; MovesEnd
  says that it is no longer than that.
- `ring_buffer_count` is one too high once the head has wrapped below the tail;
  the program only asks whether it is zero (`CountTellsEmpty`).
- Between walls at both sides with nothing in front `wall_get` drops the ranges
  (`wall.c:67`), so the robot may turn towards the nearer one; `TurnsAway`
  excludes this gap.
- A register address that a device does not acknowledge goes unnoticed in a
  read (`i2c.c:99`): the restart clears the flag before it is looked at.
- The texts printed on entering EXPLORE do not fit into the transmit buffer of
  16, so the enter function busy-waits although `state_explore.c:143` forbids
  it. `CharactersGetOut` says that the wait ends.
- A pause longer than one turn of the infrared timer (32.8 ms) is measured
  modulo the turn (`ir_remote_ta1.c:232`).
- `timer.h:9` gives 25 days as the longest timeout. The clock starts again from
  zero after 2^31 of its milliseconds (25.4 days) and deadlines do not
  (`timer.c:9`), so that a timer whose deadline lies beyond that moment never ends, however short it is. (`OnTime`
  without `SameTurn`.)

**Fairness.** The main loop, `_putchar`, the I2C loops and the interrupt
handlers are weakly fair: the processor never sleeps, no handler blocks, and
interrupts are disabled only for a few instructions. The clock and the
transmitter are hardware that never stops. A sensor finishes a measurement it
has started, and its memory delivers the word it was asked for. Nothing is assumed
of the operator, of the I2C bus, of walls or of resets; in `robot` keys come finitely often, since commands are looked at
first and an endless burst (a remote sends one frame in 108 ms, the loop is
faster) would starve everything else.

**Deadlock.** The program never stops, and TLC checks that; except in the runs
of `I2c`, whose behaviours end after a timeout.

## 4. What is proved

`RingBuffer_proofs`, for every buffer size from 1 to 255 and every element set:

- `InvCorrect`: the indices stay in range, and the full flag is set only while
  head and tail meet (`FullFlagCorrect`). The two together are the inductive
  invariant: without the second, a get could leave a full flag behind that no
  longer belongs to the indices.
- `Refinement`: the encoding implements `DropOldestFifo`. The lemmas follow the
  code: what a get takes off, that a put into a buffer with room appends, that a
  put into a full one is a get and a put, and where the n-th newest element lies.
- `CountCorrect`: `ring_buffer_count` is zero exactly for the empty buffer
  (`CountTellsEmpty`).

`Robot_proofs`, about StateMachine and then about Robot, for every set of keys
and readings, all durations and all buffer sizes: the type invariant
(`TypeCorrect`), every safety property of the `state_machine` run
(`TimerCorrect`, `ExploreMotorsCorrect`, `ManualMotorsCorrect`,
`EventsCorrect`, `AvoidanceCorrect`) and two more: `WaitCorrect`, that the robot
waits for its first key without a timer, an event or a turning wheel, and
`MotionCorrect`, that the motors change for a reason.

None of them is inductive alone: that the motors stand still after OK depends on
the posted event still being there when the table is asked, which depends on the
states it can be posted in, which depends on STOP never being reached. The
inductive invariant `Inv` therefore joins the safety properties, `IdleInWait`
among them, with two facts that are of no interest by themselves: STOP is not
reached (`NeverInStop`), and a posted event is the next one taken unless a
command comes first (`PostedGoesFirst`). The proof that a step keeps it has one
case for each action and, for `ProcessEvent`, one for each of its disjuncts.

The robot as a whole follows by two simulations. `RobotIsStateMachine`: writing
registers one by one stutters in the state machine, so all of the above holds of
the robot. `RobotIsDrive`: the state machine calls the drive only when the call
before has returned and with commands the drive knows, so all that
Steering_proofs says of the drive holds of the robot, too. `WheelsCorrect`
(`WheelsFollowState`) is the two together: `ExploreMotorsCorrect` and
`ManualMotorsCorrect` say what was asked for, `DriveInv` that the pins show it.

`Steering_proofs`:

- `DriveInvCorrect`: what remains to be written is the end of the command under
  way, and each pin already shows this command or still the one before. Without
  it neither of the next two says anything about a command half written.
- `DirectionCorrect` (`NoStrayDirection`) and `CommandCorrect` (`DoesAsAsked`),
  for every sequence of commands; the latter compares speeds across the two
  timers' units.
- `SteeringIsDriving` and `SteeringCorrect` (`TurnsAway`), for every set of
  readings, where TLC takes one reading of each class: the ranges are compared
  with the thresholds only, and the proof says so. `DecidedFromRanges` connects
  the command under way with the ranges it was decided from.

`Uart_proofs`, for every buffer size from 1 to 255 and every set of characters:

- `InvCorrect`: the inductive invariant. The interrupt is disabled exactly from
  the look at the buffer to the return; what was seen of the buffer is still true
  when the character is put; UCA0TXBUF holds the oldest stored character; a
  raised flag belongs to a stored character until that one is taken out.
- `InterruptCorrect`: the interrupt never takes a character out of the empty
  buffer. This alone is not inductive: that the flag is not left raised over an
  empty buffer depends on `_putchar` starting a transmission only when none is
  under way.
- `WakeupCorrect` (`NoCharacterStuck`), the converse: while characters are stored
  one is in UCA0TXBUF, or the interrupt is due or running, or `_putchar` is about
  to start. Above the invariant this needs that what `_putchar` saw of the buffer
  is still true when it decides not to start.
- `Refinement`: putting appends to the characters not yet on the wire
  (`PutAccepts`), the shift register takes the oldest of them
  (`LoadShiftEmits`), and every other step leaves them alone (`OthersStutter`).
- `CrCorrect`: each line feed follows its carriage return on the wire, because it
  does so among the characters still to be sent (`CrComesFirst`).

`I2c_proofs`, for every number of bytes and retries:

- `InvCorrect`: at each of the polling loops the bus is in the state the driver
  takes it to be in (`BusAsExpected`): who is addressed, how many bytes are
  stored or acknowledged, what the receive and transmit registers hold, whether
  a start or a stop is pending, for a read and a write and for a refusal at any
  moment. `WhereTheCallIs` ties the index and the direction to the step of the
  call. `OneByteAhead` (the device sends a byte only when the one before was
  fetched) and `ShiftIsSending` hold even after a wait ran out and keep the
  types then.
- `CompleteCorrect` (`TransfersAreComplete`), `FreesBusCorrect`
  (`SuccessFreesBus`) and `TypeCorrect` follow.
- `TimeCorrect` (`ReturnsInTime`): every iteration lowers `IterationsLeft`, the
  waits a call may still come to times `RetryCount + 1` plus the retries of the
  one it is in, and the bus never changes it (`WaitsAreCounted`, `WaitingCounts`,
  `WaitOutweighsRetries`). So a call of n bytes ends within
  `(n + 6) * (RetryCount + 1)` iterations. This is the part of `CallReturns` that
  needs no fairness, with the number that `CallReturns` leaves open.

After a wait that ran out the invariant says only that types and places of the
call are kept: what the bus is in is then not determined by the code.

`Timer_proofs`, for every size of the words, every length of a behaviour and
timeouts of up to one turn of the counter (the longest in the program is 5 s, a
turn is 25.4 days):

- `InvCorrect`: the counter is the true time modulo its turn, also between the
  two words `millis` reads, a call reads the time between its beginning and now,
  and a deadline is the start plus the timeout (modulo the turn). The
  lemmas are about remainders: `ModDifference` says what the difference of two
  counter values tells about the two times.
- `NeverEarlyCorrect` (`NeverEarly`), through any number of wraps, and
  `OnTimeCorrect` (`OnTime`).

`TimerA1_proofs`, first about Pwm, for every length of the counter's turn above
twice the longest phase, every unit of time that divides the table and the turn,
down to the single tick of the hardware, and every latency of the interrupt below
the shortest phase:

- `InvCorrect`: while the flag is down the compare lies ahead and within the
  phase, and when it is up it lies back by just the time the interrupt is late;
  either way the time the phase has lasted is known (`CompareInv`). That a new
  compare lies ahead when the interrupt writes it needs `ChannelInv`: on an
  enabled channel the speed is not STOP, whose phase of one tick would be over
  at once.
- `CompareCorrect` (`NoCompareMissed`) and `PhasesCorrect` (`PhasesAsTable`).

Then about IrRemote, for every number of bits in a byte, every set of pauses and
every buffer size:

- `DecoderCorrect`: the byte under way holds the bits received for it, in order,
  with only the zeros of glitches between them, or the first of them was shifted
  out (`Follows`). The same holds of the complete bytes in their places. Without
  it the counters would say where a byte is and nothing about what is in it.
- `GlitchesCorrect` (`GlitchesForgeNothing`). That a corrupted command does not
  pass is a matter of counting ones: a shift never adds one that was not received
  (`OnesShifted`), two complementary bytes have as many ones as a byte has bits
  (`OnesOfComplements`), and one of them starts with a one, which is the first to
  be shifted out. So the checksum fails unless neither lost a bit
  (`NothingIsForged`). The run, with its bytes of two bits, cannot show this for
  the eight of the code.
- `CleanFrameCorrect` (`CleanFrameIsStored`), `CountersCorrect` (`CountersAgree`)
  and `DecoderTypeCorrect` (`IrTypeOK`); from the last follows that `bit_count`
  never reaches the 32 that `ir_parse` tests for.

`Startup_proofs`, about Startup and the driver of Vl53l0x that it composes, for
every number of resets, failed exchanges and rounds and every map of SPADs:

- `InvCorrect`: the inductive invariant follows the robot from reset to the loop.
  First, the register writes that are left are the end of the function under way
  (`WritesAreRest`), so the pins are known write by write (`PortAsWritten`,
  `PortSettled`). Then the sensors are held in standby, addressed and configured
  in turn, and whoever gives up leaves them as they were (`BootInv`,
  `HeldInStandby`, `AddressesInTurn`, `ConfiguredInTurn`). In the loop a sensor
  is idle or busy with the round under way (`SensorsInStep`), what was read of it
  is of that round or of the one before (`ValuesInStep`), and no round was skipped
  (`RoundsInOrder`). The first of these and the last hold until an exchange
  fails; `ValuesInStep` holds after any number of failures.
- `SpadsCorrect` (`SpadsAsCalibrated`): with enough good SPADs of the type asked
  for, the loop enables exactly the first of them; too few aperture ones are
  refused. That the loop enables the first good ones from its offset on
  (`SelectionIs`) is an induction over its index, made with the least element of
  a set of natural numbers (`Smallest`, `Induction`, then `FirstStep` and
  `EnabledIs`), since the loop is a recursive function. That it then never gets
  to the other type is a matter of counting (`SelectionOfType`). The case left
  out, too few non-aperture ones, is among the disagreements of section 3.
- `AddressCorrect` (`OneSensorAnswers`), `MotorsCorrect` (`MotorsReady`),
  `StartCorrect` (`StartedWhenIdle`), `RoundCorrect` (`ValuesOfOneRound`),
  `OrderCorrect` (`FreshRoundsInOrder`) and `TypeCorrect` (`StartupTypeOK`).

Each action has a lemma that it keeps the invariant (`...Keeps`). What many of
them have in common is stated once: `DriverPorts` (the driver changes no pin but
the one that wakes a sensor), `InitGoesOn` and `InitGivesUp` (a step of the
initialisation), `LoopKeeps` (a step of the loop), `DeviceKeeps` (a step of a
sensor).

The assumptions are the named ASSUMEs on the constants and nothing else.

With TLC stay liveness and what else needs fairness, and the period of
RandSimple.

## 5. What is not modelled

- The configuration values written to clocks, serial line, timers and sensors
  (tuning, VCSEL, timing) are data without control. `mcu_init` halts if the
  factory calibration of the clock was erased; `StartsUp` is about a processor
  that has it.
- `assert_handler.c`: every `ASSERT` of the program is commented out.
- Trace and name functions: formatting.
- `pwm.c` and `ir_remote.c` are superseded; the linker discards them.
- `state_stop.c`: STOP cannot be reached (no row of the table leads to it;
  the proofs use this), and its enter function is empty; the two helpers in it,
  like `input_history_last_detected_walls`, have no caller.
- That the random choices recur is not shown; the values the generator yields
  are (`RandSimple`).
- The test functions of `main.c` and `test/` exercise single drivers by hand.
- The modules are not composed into one: Robot keeps the abstract sensors and
  the abstract remote of StateMachine, Startup the abstract bus of Vl53l0x.
  The product of their states is out of TLC's reach, and each interface is
  narrow: a command buffer, three ranges, a result code.

## 6. Plan

1. Done: the modules above, from reset to the wheels.
2. Done: proofs of the state machine, the drive, the robot, the ring buffer, the
   UART, the I2C master, the timers, the PWM, the infrared remote, the start-up
   and the range sensors.
3. One further step would join them: that the commands IrRemote stores are the
   keys that StateMachine receives, and the ranges of Vl53l0x the ones it senses.
