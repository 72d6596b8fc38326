------------------------------ MODULE Vl53l0x ------------------------------
(***************************************************************************)
(* drivers/vl53l0x.c as the robot uses it: three range sensors on one I2C  *)
(* bus, initialised one after the other, started together, read together,  *)
(* with the data-ready interrupt of the front sensor only.  wall_get calls *)
(* vl53l0x_read_range_multiple over and over.  One action is a group of    *)
(* I2C exchanges that a sensor or the interrupt can tell apart; each group *)
(* may fail anywhere within, MaxFaults times.                              *)
(***************************************************************************)
EXTENDS Spads, Sequences

CONSTANTS
    MaxFaults,      \* bound on failed I2C exchanges and unusable SPAD maps
    MaxRounds       \* rounds of measurements are numbered modulo this

ASSUME BoundsAssumption == MaxFaults \in Nat /\ MaxRounds \in Nat \ {0, 1}

VARIABLES
    pc,             \* where the initialisation or the call is
    idx,            \* the sensor it works on, an index of ReadOrder
    spads,          \* history: the SPADs just selected, and from what
    blocking,       \* the start under way is the one the first call waits for
    status_multiple,
    latest_ranges,  \* per sensor: the round its value was measured in
    returned,       \* what the last call handed to wall_get
    sensor,         \* the devices
    configured,     \* the sensors vl53l0x_init got through
    isr_enabled,    \* the front sensor's pin interrupt is configured
    irq,            \* its interrupt flag in the port register
    round,          \* the round started last
    faults          \* faults so far

vars == <<pc, idx, spads, blocking, status_multiple, latest_ranges, returned, sensor,
          configured, isr_enabled, irq, round, faults>>

(* The order in which vl53l0x_init, start and read go through the sensors. *)
ReadOrder == <<"FRONT", "FRONT_LEFT", "FRONT_RIGHT">>
Sensors == {"FRONT", "FRONT_LEFT", "FRONT_RIGHT"}
Current == ReadOrder[idx]

Rounds == 0 .. MaxRounds - 1
OUT_OF_RANGE == MaxRounds       \* nothing measured yet
TORN == MaxRounds + 1           \* one of the two bytes was replaced
OFF_PAGE == MaxRounds + 2       \* not the result but a register of another page
Values == 0 .. MaxRounds + 2

(* A device in hardware standby answers no address.  Register 0xFF selects *)
(* one of its pages of registers; results are on the main one.             *)
Devices == [address : {"standby", "default", "own"}, main_page : BOOLEAN,
            fetching : BOOLEAN, measuring : BOOLEAN, ready : BOOLEAN,
            started : Rounds, sample : Rounds]

InitPcs == {"address", "booted", "config", "strobe", "select", "tune", "vhv", "phase"}

NoSpads == [selected |-> {}, ok |-> TRUE,
            info |-> [count |-> 0, aperture |-> FALSE, good |-> {}]]

TypeOK ==
    /\ pc \in InitPcs \cup {"idle", "begin", "start", "wait", "poll", "read", "clear"}
    /\ idx \in 1 .. 3
    /\ spads \in [selected : SUBSET SpadIndices, ok : BOOLEAN, info : SpadInfos]
    /\ blocking \in BOOLEAN
    /\ status_multiple \in {"NOT_STARTED", "MEASURING", "DONE"}
    /\ latest_ranges \in [Sensors -> Values]
    /\ returned \in [ok : BOOLEAN, fresh : BOOLEAN, ranges : [Sensors -> Values]]
    /\ sensor \in [Sensors -> Devices]
    /\ configured \subseteq Sensors
    /\ isr_enabled \in BOOLEAN
    /\ irq \in BOOLEAN
    /\ round \in Rounds
    /\ faults \in 0 .. MaxFaults

-----------------------------------------------------------------------------
NothingMeasured == [s \in Sensors |-> OUT_OF_RANGE]
NothingReturned == [ok |-> FALSE, fresh |-> FALSE, ranges |-> NothingMeasured]

(* A device held in standby by its XSHUT pin forgets everything. *)
InStandby == [address |-> "standby", main_page |-> TRUE, fetching |-> FALSE,
              measuring |-> FALSE, ready |-> FALSE, started |-> 0, sample |-> 0]

(* The variables of the driver as the loader sets them, and the pin        *)
(* interrupt disabled.                                                     *)
RamInit ==
    /\ pc = "address"
    /\ idx = 1
    /\ spads = NoSpads
    /\ blocking = FALSE
    /\ status_multiple = "NOT_STARTED"
    /\ latest_ranges = NothingMeasured
    /\ returned = NothingReturned
    /\ configured = {}
    /\ isr_enabled = FALSE
    /\ irq = FALSE

(* Before vl53l0x_init: every sensor is held in standby by io_init. *)
Init ==
    /\ RamInit
    /\ sensor = [s \in Sensors |-> InStandby]
    /\ round = 0
    /\ faults = 0

-----------------------------------------------------------------------------
(* vl53l0x_init: an address for every sensor, then the configuration of    *)
(* each.  wall_init drops the error: a failure leaves the rest undone, and *)
(* the main loop starts all the same.                                      *)

OnPage(dev, is_main) == [dev EXCEPT !.main_page = is_main]
Measuring(dev) == [OnPage(dev, TRUE) EXCEPT !.measuring = TRUE, !.started = round]

(* Mutant: the interrupt of the sensor is not cleared. *)
Cleared_Not(dev) == dev

(* A write to another page does not clear it. *)
Cleared(dev) == IF dev.main_page THEN [dev EXCEPT !.ready = FALSE] ELSE dev

(* vl53l0x_set_hardware_standby(idx, false), and the time to boot. *)
WakeSensor ==
    /\ pc = "address"
    /\ sensor' = [sensor EXCEPT ![Current].address = IF @ = "standby" THEN "default" ELSE @]
    /\ pc' = "booted"
    /\ UNCHANGED <<idx, spads, blocking, status_multiple, latest_ranges, returned,
                   configured, isr_enabled, irq, round, faults>>

(* device_is_booted and vl53l0x_configure_address; the next sensor or the  *)
(* next loop.                                                              *)
SetAddress ==
    /\ pc = "booted"
    /\ sensor[Current].address = "default"
    /\ sensor' = [sensor EXCEPT ![Current].address = "own"]
    /\ pc' = IF idx < 3 THEN "address" ELSE "config"
    /\ idx' = IF idx < 3 THEN idx + 1 ELSE 1
    /\ UNCHANGED <<spads, blocking, status_multiple, latest_ranges, returned, configured,
                   isr_enabled, irq, round, faults>>

(* vl53l0x_data_init; then the page of the non-volatile memory is selected *)
(* and a word requested.                                                   *)
OpenNvm ==
    /\ pc = "config"
    /\ sensor' = [sensor EXCEPT ![Current] = [OnPage(@, FALSE) EXCEPT !.fetching = TRUE]]
    /\ pc' = "strobe"
    /\ UNCHANGED <<idx, spads, blocking, status_multiple, latest_ranges, returned,
                   configured, isr_enabled, irq, round, faults>>

(* The end of vl53l0x_read_strobe, the way back to the main page, and the  *)
(* selection of SPADs.                                                     *)
SelectSpads ==
    /\ pc = "strobe"
    /\ ~sensor[Current].fetching
    /\ sensor' = [sensor EXCEPT ![Current] = OnPage(@, TRUE)]
    /\ \E outcome \in SpadOutcomes :
          /\ outcome.ok \/ faults < MaxFaults
          /\ spads' = outcome
    /\ pc' = "select"
    /\ UNCHANGED <<idx, blocking, status_multiple, latest_ranges, returned,
                   configured, isr_enabled, irq, round, faults>>

WriteSpads ==
    /\ pc = "select"
    /\ spads.ok
    /\ pc' = "tune"
    /\ spads' = NoSpads
    /\ UNCHANGED <<idx, blocking, status_multiple, latest_ranges, returned, sensor,
                   configured, isr_enabled, irq, round, faults>>

(* VL53L0X_RESULT_ERROR_SPAD, a fault like a failed exchange: the          *)
(* initialisation gives up.                                                *)
RefuseSpads ==
    /\ pc = "select"
    /\ ~spads.ok
    /\ faults' = faults + 1
    /\ pc' = "idle"
    /\ idx' = 1
    /\ spads' = NoSpads
    /\ UNCHANGED <<blocking, status_multiple, latest_ranges, returned, sensor,
                   configured, isr_enabled, irq, round>>

(* The tuning settings (which end on the main page), the interrupt and the *)
(* sequence of the sensor, and the start of the first of the two reference *)
(* calibrations, which end like a measurement.                             *)
StartVhvCalibration ==
    /\ pc = "tune"
    /\ sensor' = [sensor EXCEPT ![Current] = Measuring(Cleared(@))]
    /\ pc' = "vhv"
    /\ UNCHANGED <<idx, spads, blocking, status_multiple, latest_ranges, returned,
                   configured, isr_enabled, irq, round, faults>>

(* Mutant: the second calibration is not started. *)
StartPhaseCalibration_ClearsOnly ==
    /\ pc = "vhv"
    /\ sensor[Current].ready
    /\ sensor' = [sensor EXCEPT ![Current] = Cleared(@)]
    /\ pc' = "phase"
    /\ UNCHANGED <<idx, spads, blocking, status_multiple, latest_ranges, returned,
                   configured, isr_enabled, irq, round, faults>>

(* vl53l0x_perform_single_ref_calibration: the end of one, the start of    *)
(* the other.                                                              *)
StartPhaseCalibration ==
    /\ pc = "vhv"
    /\ sensor[Current].ready
    /\ sensor' = [sensor EXCEPT ![Current] = Measuring(Cleared(@))]
    /\ pc' = "phase"
    /\ UNCHANGED <<idx, spads, blocking, status_multiple, latest_ranges, returned,
                   configured, isr_enabled, irq, round, faults>>

(* Mutant: a flag raised by the calibration stays set. *)
EnableFrontInterrupt_KeepsFlag ==
    /\ isr_enabled' = (isr_enabled \/ Current = "FRONT")
    /\ UNCHANGED irq

(* vl53l0x_configure_front_sensor_interrupt: "clear the interrupt here,    *)
(* because even if interrupt is disabled, the flag is still set" (io.c).   *)
EnableFrontInterrupt ==
    /\ isr_enabled' = (isr_enabled \/ Current = "FRONT")
    /\ irq' = (irq /\ Current # "FRONT")

FinishConfig ==
    /\ pc = "phase"
    /\ sensor[Current].ready
    /\ sensor' = [sensor EXCEPT ![Current] = Cleared(@)]
    /\ configured' = configured \cup {Current}
    /\ EnableFrontInterrupt
    /\ pc' = IF idx < 3 THEN "config" ELSE "idle"
    /\ idx' = IF idx < 3 THEN idx + 1 ELSE 1
    /\ UNCHANGED <<spads, blocking, status_multiple, latest_ranges, returned, round, faults>>

(* What a group of exchanges cut short may have done to its sensor. *)
HalfConfigured(dev) ==
    CASE pc = "booted" -> {dev, [dev EXCEPT !.address = "own"]}
      [] pc = "config" -> {dev, OnPage(dev, FALSE), [OnPage(dev, FALSE) EXCEPT !.fetching = TRUE]}
      [] pc = "strobe" -> {dev} \cup (IF dev.fetching THEN {} ELSE {OnPage(dev, TRUE)})
      [] pc = "select" -> {dev, OnPage(dev, FALSE)}
      [] pc = "tune"   -> {dev, OnPage(dev, FALSE), Cleared(dev), Measuring(Cleared(dev))}
      [] pc = "vhv"    -> {dev} \cup (IF dev.ready THEN {Cleared(dev), Measuring(Cleared(dev))} ELSE {})
      [] pc = "phase"  -> {dev} \cup (IF dev.ready THEN {Cleared(dev)} ELSE {})

(* An exchange fails, and the initialisation gives up. *)
BootFails ==
    /\ pc \in InitPcs \ {"address"}
    /\ pc = "select" => spads.ok
    /\ faults < MaxFaults
    /\ faults' = faults + 1
    /\ \E dev \in HalfConfigured(sensor[Current]) : sensor' = [sensor EXCEPT ![Current] = dev]
    /\ pc' = "idle"
    /\ idx' = 1
    /\ spads' = NoSpads
    /\ UNCHANGED <<blocking, status_multiple, latest_ranges, returned, configured,
                   isr_enabled, irq, round>>

-----------------------------------------------------------------------------
(* vl53l0x_read_range_multiple, called by wall_get *)

Return(ok, fresh) ==
    /\ pc' = "idle"
    /\ returned' = [ok |-> ok, fresh |-> fresh,
                    ranges |-> IF ok THEN latest_ranges ELSE returned.ranges]

(* Mutant: the error is dropped and the values handed out. *)
Fail_Ignored ==
    /\ faults < MaxFaults
    /\ faults' = faults + 1
    /\ Return(TRUE, FALSE)

(* Any I2C exchange may fail; the error is returned at once. *)
Fail ==
    /\ faults < MaxFaults
    /\ faults' = faults + 1
    /\ Return(FALSE, FALSE)

(* Measuring: hand out the cached values. *)
CallCached ==
    /\ pc = "idle"
    /\ status_multiple = "MEASURING"
    /\ UNCHANGED latest_ranges
    /\ Return(TRUE, FALSE)
    /\ UNCHANGED <<idx, blocking, status_multiple, sensor, spads, configured, isr_enabled,
                   irq, round, faults>>

(* Mutant: the next round is started before the last one was read. *)
CallWork_SkipsRead ==
    /\ pc = "idle"
    /\ status_multiple # "MEASURING"
    /\ blocking' = (status_multiple = "NOT_STARTED")
    /\ pc' = "begin"
    /\ idx' = 1
    /\ UNCHANGED <<status_multiple, latest_ranges, returned, sensor, spads, configured,
                   isr_enabled, irq, round, faults>>

(* Not started: start; done: read the three sensors.  is_sysrange_done is  *)
(* true without an exchange for every sensor but the front one.            *)
CallWork ==
    /\ pc = "idle"
    /\ status_multiple # "MEASURING"
    /\ blocking' = (status_multiple = "NOT_STARTED")
    /\ pc' = IF status_multiple = "NOT_STARTED" THEN "begin" ELSE "poll"
    /\ idx' = 1
    /\ UNCHANGED <<status_multiple, latest_ranges, returned, sensor, spads, configured,
                   isr_enabled, irq, round, faults>>

(* vl53l0x_start_measuring_multiple; both callers see another status than  *)
(* MEASURING, so ERROR_MEASURE_ONGOING does not occur.                     *)
BeginStart ==
    /\ pc = "begin"
    /\ pc' = "start"
    /\ idx' = 1
    /\ status_multiple' = "MEASURING"
    /\ round' = (round + 1) % MaxRounds
    /\ UNCHANGED <<blocking, latest_ranges, returned, sensor, spads, configured,
                   isr_enabled, irq, faults>>

(* The next sensor; after the last one the first call waits, any other     *)
(* call is done.                                                           *)
AfterStart ==
    \/ /\ idx < 3
       /\ idx' = idx + 1
       /\ UNCHANGED <<pc, returned>>
    \/ /\ idx = 3 /\ blocking
       /\ pc' = "wait"
       /\ UNCHANGED <<idx, returned>>
    \/ /\ idx = 3 /\ ~blocking
       /\ Return(TRUE, TRUE)
       /\ UNCHANGED idx

(* Mutant: the status is set after a sensor was started, not before.       *)
StartSensor_MarksAfter ==
    /\ pc = "start"
    /\ sensor[Current].address = "own"
    /\ sensor' = [sensor EXCEPT ![Current] = Measuring(@)]
    /\ AfterStart
    /\ status_multiple' = "MEASURING"
    /\ UNCHANGED <<blocking, latest_ranges, spads, configured, isr_enabled, irq, round, faults>>

(* vl53l0x_start_sysrange on the current sensor; whatever page it was left *)
(* on, it is back on the main one.                                         *)
StartSensor ==
    /\ pc = "start"
    /\ sensor[Current].address = "own"
    /\ sensor' = [sensor EXCEPT ![Current] = Measuring(@)]
    /\ AfterStart
    /\ UNCHANGED <<blocking, status_multiple, latest_ranges, spads, configured,
                   isr_enabled, irq, round, faults>>

(* A sensor that never got its address does not acknowledge. *)
StartNacked ==
    /\ pc = "start"
    /\ sensor[Current].address # "own"
    /\ Return(FALSE, FALSE)
    /\ UNCHANGED <<idx, blocking, status_multiple, latest_ranges, sensor, spads, configured,
                   isr_enabled, irq, round, faults>>

(* A start cut short may leave the sensor on another page, or back on the  *)
(* main one without a measurement, or measuring.                           *)
StartFails ==
    /\ pc = "start"
    /\ sensor[Current].address = "own"
    /\ Fail
    /\ \E dev \in {sensor[Current], OnPage(sensor[Current], FALSE),
                   OnPage(sensor[Current], TRUE), Measuring(sensor[Current])} :
          sensor' = [sensor EXCEPT ![Current] = dev]
    /\ UNCHANGED <<idx, blocking, status_multiple, latest_ranges, spads, configured,
                   isr_enabled, irq, round>>

(* What the interrupt status register may say: on another page anything.   *)
MaySayReady == sensor[Current].ready \/ ~sensor[Current].main_page
MaySayNotReady == ~sensor[Current].ready \/ ~sensor[Current].main_page

(* The loops that poll without a timeout: one more round of them.          *)
WaitingFor ==
    \/ pc = "strobe" /\ sensor[Current].fetching
    \/ pc \in {"vhv", "phase", "poll"} /\ MaySayNotReady
    \/ pc = "wait" /\ status_multiple # "DONE"

Spin == WaitingFor /\ UNCHANGED vars

(* "Block here the first time" *)
WaitFirst ==
    /\ pc = "wait"
    /\ status_multiple = "DONE"
    /\ blocking' = FALSE
    /\ pc' = "poll"
    /\ idx' = 1
    /\ UNCHANGED <<status_multiple, latest_ranges, returned, sensor,
                   spads, configured, isr_enabled, irq, round, faults>>

(* vl53l0x_pollwait_sysrange: loops until the sensor has a result. *)
PollWait ==
    /\ pc = "poll"
    /\ MaySayReady
    /\ pc' = "read"
    /\ UNCHANGED <<idx, blocking, status_multiple, latest_ranges, returned, sensor,
                   spads, configured, isr_enabled, irq, round, faults>>

ReadRange ==
    /\ pc = "read"
    /\ latest_ranges' = [latest_ranges EXCEPT ![Current] =
          IF sensor[Current].main_page THEN sensor[Current].sample ELSE OFF_PAGE]
    /\ pc' = "clear"
    /\ UNCHANGED <<idx, blocking, status_multiple, returned, sensor, spads, configured,
                   isr_enabled, irq, round, faults>>

(* Mutant: the index runs past the last sensor. *)
ClearRange_NoReset ==
    /\ pc = "clear"
    /\ sensor' = [sensor EXCEPT ![Current] = Cleared(@)]
    /\ idx' = idx + 1
    /\ pc' = IF idx < 3 THEN "poll" ELSE "begin"
    /\ UNCHANGED <<blocking, status_multiple, latest_ranges, returned, spads, configured,
                   isr_enabled, irq, round, faults>>

(* The two writes of REG_SYSTEM_INTERRUPT_CLEAR; then the next sensor.     *)
ClearRange ==
    /\ pc = "clear"
    /\ sensor' = [sensor EXCEPT ![Current] = Cleared(@)]
    /\ idx' = IF idx < 3 THEN idx + 1 ELSE 1
    /\ pc' = IF idx < 3 THEN "poll" ELSE "begin"
    /\ UNCHANGED <<blocking, status_multiple, latest_ranges, returned, spads, configured,
                   isr_enabled, irq, round, faults>>

(* A failure while reading: i2c_read stores byte by byte, and the clear    *)
(* may have reached the sensor.                                            *)
ReadFails ==
    /\ pc \in {"poll", "read", "clear"}
    /\ latest_ranges' \in {latest_ranges} \cup
          (IF pc = "read" THEN {[latest_ranges EXCEPT ![Current] = TORN]} ELSE {})
    /\ sensor' \in {sensor} \cup
          (IF pc = "clear" THEN {[sensor EXCEPT ![Current] = Cleared(@)]} ELSE {})
    /\ Fail
    /\ UNCHANGED <<idx, blocking, status_multiple, spads, configured, isr_enabled, irq, round>>

-----------------------------------------------------------------------------
(* The devices and the interrupt *)

Finished(dev) ==
    [dev EXCEPT !.measuring = FALSE, !.ready = TRUE, !.sample = dev.started]

(* A measurement ends.  The pin of the front sensor falls only if it was   *)
(* high, that is if no older result is pending.                            *)
SensorDone(s) ==
    /\ sensor[s].measuring
    /\ sensor' = [sensor EXCEPT ![s] = Finished(@)]
    /\ irq' = (irq \/ (s = "FRONT" /\ ~sensor[s].ready))
    /\ UNCHANGED <<pc, idx, blocking, status_multiple, latest_ranges, returned,
                   spads, configured, isr_enabled, round, faults>>

(* The word requested from the non-volatile memory is there. *)
NvmDone(s) ==
    /\ sensor[s].fetching
    /\ sensor' = [sensor EXCEPT ![s].fetching = FALSE]
    /\ UNCHANGED <<pc, idx, blocking, status_multiple, latest_ranges, returned,
                   spads, configured, isr_enabled, irq, round, faults>>

(* front_measurement_done_isr, run by io_isr, which clears the flag.       *)
FrontIsr ==
    /\ irq
    /\ isr_enabled
    /\ irq' = FALSE
    /\ status_multiple' = "DONE"
    /\ UNCHANGED <<pc, idx, blocking, latest_ranges, returned, sensor, spads, configured,
                   isr_enabled, round, faults>>

-----------------------------------------------------------------------------
Driver ==
    \/ WakeSensor \/ SetAddress \/ OpenNvm \/ SelectSpads \/ WriteSpads \/ RefuseSpads
    \/ StartVhvCalibration \/ StartPhaseCalibration \/ FinishConfig
    \/ CallCached \/ CallWork \/ BeginStart \/ StartSensor
    \/ StartNacked \/ Spin \/ WaitFirst \/ PollWait \/ ReadRange \/ ClearRange

Failure == BootFails \/ StartFails \/ ReadFails

Device(s) == SensorDone(s) \/ NvmDone(s)

Next == Driver \/ Failure \/ FrontIsr \/ \E s \in Sensors : Device(s)

Spec == Init /\ [][Next]_vars

(* The processor keeps running, interrupts are served, and a sensor        *)
(* finishes what it started.                                               *)
Fairness ==
    /\ WF_vars(Driver)
    /\ WF_vars(FrontIsr)
    /\ \A s \in Sensors : WF_vars(SensorDone(s)) /\ WF_vars(NvmDone(s))

FairSpec == Spec /\ Fairness

-----------------------------------------------------------------------------
(* Once the sensors are initialised, the measurements handed out belong to *)
(* one round: none is older than another, none is half read, even after    *)
(* failed exchanges (vl53l0x.c:806-842).  (A start cut short may leave a   *)
(* sensor whose register is read on the wrong page; a calibration cut      *)
(* short would leave a result of its own to be read.)                      *)
ValuesOfOneRound ==
    configured = Sensors /\ returned.ok => \A s, t \in Sensors :
        /\ returned.ranges[s] # TORN
        /\ OFF_PAGE \in {returned.ranges[s], returned.ranges[t]}
              \/ returned.ranges[s] = returned.ranges[t]

(* If there are as many good SPADs of the type asked for as the memory     *)
(* asks for, the first ones of them are enabled and no others, and the     *)
(* selection is refused only if the last of them is the last SPAD of the   *)
(* sensor, which the code reads past before it looks at the count.  If     *)
(* there are too few aperture SPADs it is refused (vl53l0x.c:289-349).     *)
(* With too few of the other type the code contradicts its comment that    *)
(* only one type is enabled (184-185): the loop goes on to aperture ones.  *)
SpadsAsCalibrated ==
    pc = "select" =>
        LET info == spads.info
            usable == OfType(info)
            wanted == {i \in usable : Cardinality({j \in usable : j < i}) < info.count}
        IN /\ Cardinality(usable) >= info.count =>
                 /\ spads.selected = wanted
                 /\ spads.ok <=> (SPAD_MAX_COUNT - 1 \in wanted =>
                                     SPAD_MAX_COUNT % SPAD_ROW_SIZE = 0)
           /\ info.aperture /\ Cardinality(usable) < info.count => ~spads.ok

(* What the driver promises while no exchange has failed yet.              *)
NoFault == faults = 0

(* A sensor is started only when it is idle and its last result was read,  *)
(* so that no result is lost and the next one raises the interrupt         *)
(* (vl53l0x.c:739-768, 827-830).                                           *)
StartedWhenIdle ==
    NoFault /\ pc = "start" => \A i \in idx .. 3 :
        ~sensor[ReadOrder[i]].measuring /\ ~sensor[ReadOrder[i]].ready

(* No measurement is skipped and none is handed out twice as fresh         *)
(* (vl53l0x.c:827-834).                                                    *)
FreshRoundsInOrder ==
    [][NoFault' /\ pc # "idle" /\ pc' = "idle" /\ returned'.ok =>
        \/ returned.ranges = NothingMeasured
        \/ returned'.ranges["FRONT"] = (returned.ranges["FRONT"] + 1) % MaxRounds]_vars

(* Fresh values keep coming (vl53l0x.h:46-51). *)
FreshForever == []<>(~NoFault \/ (pc = "idle" /\ returned.ok /\ returned.fresh))

(* Every call returns once the initialisation succeeded, even if a fault   *)
(* comes later: "The flow is continuous (never blocks)"                    *)
(* (state_machine.c:27; vl53l0x.c:797-842).                                *)
CallReturnsOnceConfigured == (configured = Sensors /\ pc # "idle") ~> pc = "idle"
=============================================================================
