------------------------------ MODULE Startup ------------------------------
(***************************************************************************)
(* From reset to the main loop: main.c (test_state_machine), mcu_init.c,   *)
(* io_init of drivers/io.c, the initialisation of the range sensors and    *)
(* ir_remote_init_ta1, around the driver of the sensors, with resets of    *)
(* the processor at any time.  A reset makes every pin an input but keeps  *)
(* the level registers, and the sensors and the motor driver keep their    *)
(* power.                                                                  *)
(***************************************************************************)
EXTENDS Vl53l0x

CONSTANT MaxResets      \* bound on resets after power-on

ASSUME ResetsAssumption == MaxResets \in Nat

VARIABLES
    boot,       \* the function main is in
    writes,     \* the pin registers that function has still to write
    port,       \* the pins
    resets      \* resets so far

bootVars == <<boot, writes, port, resets>>
allVars == <<vars, bootVars>>

(* What test_state_machine calls, in this order.                           *)
BootOrder == <<"mcu_init", "trace_init", "drive_init", "wall_init",
               "ir_remote_init_ta1", "state_machine_run">>
Running == boot = "state_machine_run"

(* The pins of the motor driver and of the sensors' XSHUT inputs, in the   *)
(* order of io_e, which is that of io_init.                                *)
Pins == <<"RIGHT_CC_1", "RIGHT_CC_2", "LEFT_CC_2", "XSHUT_FRONT_RIGHT",
          "XSHUT_FRONT_LEFT", "LEFT_CC_1", "PWM_RIGHT", "XSHUT_FRONT", "PWM_LEFT">>
MotorPins == {"RIGHT_CC_1", "RIGHT_CC_2", "LEFT_CC_1", "LEFT_CC_2", "PWM_LEFT", "PWM_RIGHT"}
PinNames == {Pins[i] : i \in DOMAIN Pins}
Xshut == [s \in Sensors |-> CASE s = "FRONT"       -> "XSHUT_FRONT"
                              [] s = "FRONT_LEFT"  -> "XSHUT_FRONT_LEFT"
                              [] s = "FRONT_RIGHT" -> "XSHUT_FRONT_RIGHT"]

(* io_initial_configs.  P1.0 (RIGHT_CC_1) has no entry: its configuration  *)
(* is all zeros, a GPIO input with a low level.                            *)
InitialConfig(p) == [alt |-> p = "PWM_LEFT", output |-> p # "RIGHT_CC_1", out |-> "LOW"]

PinWrite(p, reg, val) == [pin |-> p, reg |-> reg, val |-> val]

(* Mutant: the direction is written in place of the level. *)
Configure_NoLevel(p) ==
    LET config == InitialConfig(p)
    IN <<PinWrite(p, "alt", config.alt), PinWrite(p, "output", config.output),
         PinWrite(p, "output", config.output)>>

(* io_configure: select, direction, level (and resistor, off in all of     *)
(* these pins and after reset).                                            *)
Configure(p) ==
    LET config == InitialConfig(p)
    IN <<PinWrite(p, "alt", config.alt), PinWrite(p, "output", config.output),
         PinWrite(p, "out", config.out)>>

(* The n-th write is one of the three of its pin. *)
PinOfWrite(n) == Pins[1 + ((n - 1) \div 3)]
StepOfWrite(n) == 1 + ((n - 1) % 3)

(* Mutant: the sensors' pins are left as they are. *)
IoInit_NoXshut ==
    SelectSeq([n \in 1 .. 3 * Len(Pins) |-> Configure(PinOfWrite(n))[StepOfWrite(n)]],
              LAMBDA w : w.pin \in MotorPins)

(* io_init: the pins one after the other. *)
IoInit == [n \in 1 .. 3 * Len(Pins) |-> Configure(PinOfWrite(n))[StepOfWrite(n)]]

(* Mutant: P1.0 stays the input io_init made it. *)
IrRemoteInit_NoDirection == <<PinWrite("RIGHT_CC_1", "out", "LOW")>>

(* "P1DIR |= BIT0; P1OUT &= ~BIT0" in ir_remote_init_ta1.                  *)
IrRemoteInit == <<PinWrite("RIGHT_CC_1", "output", TRUE), PinWrite("RIGHT_CC_1", "out", "LOW")>>

WritesIn(function) ==
    CASE function = "mcu_init"           -> IoInit
      [] function = "ir_remote_init_ta1" -> IrRemoteInit
      [] OTHER                           -> <<>>

StartupTypeOK ==
    /\ TypeOK
    /\ boot \in {BootOrder[i] : i \in DOMAIN BootOrder}
    /\ Len(writes) <= Len(IoInit)
    /\ port \in [PinNames -> [alt : BOOLEAN, output : BOOLEAN, out : {"LOW", "HIGH", "KEPT"}]]
    /\ resets \in 0 .. MaxResets

-----------------------------------------------------------------------------
(* What a sensor does when its pin is left floating: the breakout board    *)
(* pulls it up, so that a sensor in standby may boot.                      *)
Floating(dev) ==
    {dev} \cup (IF dev.address = "standby" THEN {[dev EXCEPT !.address = "default"]} ELSE {})

(* Power on: the level registers hold anything. *)
StartupInit ==
    /\ RamInit
    /\ sensor \in [Sensors -> Floating(InStandby)]
    /\ round = 0
    /\ faults = 0
    /\ boot = "mcu_init"
    /\ writes = IoInit
    /\ port = [p \in PinNames |-> [alt |-> FALSE, output |-> FALSE, out |-> "KEPT"]]
    /\ resets = 0

(* A reset at any time: every pin becomes an input and keeps its level     *)
(* register, in which the main loop has left anything for the motors.      *)
Reset ==
    /\ resets < MaxResets
    /\ resets' = resets + 1
    /\ pc' = "address" /\ idx' = 1
    /\ spads' = NoSpads
    /\ blocking' = FALSE
    /\ status_multiple' = "NOT_STARTED"
    /\ latest_ranges' = NothingMeasured
    /\ returned' = NothingReturned
    /\ configured' = {} /\ isr_enabled' = FALSE /\ irq' = FALSE
    /\ sensor' \in {f \in [Sensors -> UNION {Floating(sensor[s]) : s \in Sensors}] :
                       \A s \in Sensors : f[s] \in Floating(sensor[s])}
    /\ boot' = "mcu_init"
    /\ writes' = IoInit
    /\ port' = [p \in PinNames |-> [alt |-> FALSE, output |-> FALSE,
                   out |-> IF Running /\ p \in MotorPins THEN "KEPT" ELSE port[p].out]]
    /\ UNCHANGED <<round, faults>>

DrivenLow(p) == p.output /\ p.out = "LOW"

(* One register write of io_init or ir_remote_init_ta1.  A sensor whose    *)
(* XSHUT pin is driven low goes to standby.                                *)
WriteRegister ==
    /\ writes # <<>>
    /\ writes' = Tail(writes)
    /\ LET w == Head(writes)
       IN port' = [port EXCEPT ![w.pin] = [@ EXCEPT ![w.reg] = w.val]]
    /\ sensor' = [s \in Sensors |-> IF DrivenLow(port'[Xshut[s]]) /\ boot = "mcu_init"
                                     THEN InStandby ELSE sensor[s]]
    /\ UNCHANGED <<pc, idx, spads, blocking, status_multiple, latest_ranges, returned,
                   configured, isr_enabled, irq, round, faults, boot, resets>>

(* main goes on to the next function.  trace_init and drive_init set up    *)
(* the serial line and the timers and leave these pins alone.              *)
NextFunction ==
    /\ writes = <<>>
    /\ boot = "wall_init" => pc = "idle"
    /\ \E i \in 1 .. Len(BootOrder) - 1 :
          /\ boot = BootOrder[i]
          /\ boot' = BootOrder[i + 1]
          /\ writes' = WritesIn(BootOrder[i + 1])
    /\ UNCHANGED <<vars, port, resets>>

(* The driver of the sensors runs within wall_init and, called by          *)
(* wall_get, in the main loop.                                             *)
SensorsAreUsed == Running \/ (boot = "wall_init" /\ pc # "idle")

CallDriver ==
    /\ SensorsAreUsed
    /\ Driver
    /\ port' = IF pc = "address" THEN [port EXCEPT ![Xshut[Current]].out = "HIGH"] ELSE port
    /\ UNCHANGED <<boot, writes, resets>>

DriverFails == SensorsAreUsed /\ Failure /\ UNCHANGED bootVars

Interrupt == FrontIsr /\ UNCHANGED bootVars
DeviceStep(s) == Device(s) /\ UNCHANGED bootVars

StartupNext ==
    \/ Reset \/ WriteRegister \/ NextFunction
    \/ CallDriver \/ DriverFails \/ Interrupt
    \/ \E s \in Sensors : DeviceStep(s)

(* As in Vl53l0x; nothing is assumed of resets. *)
StartupFairness ==
    /\ WF_allVars(WriteRegister \/ NextFunction \/ CallDriver)
    /\ WF_allVars(Interrupt)
    /\ \A s \in Sensors : WF_allVars(DeviceStep(s))

StartupSpec == StartupInit /\ [][StartupNext]_allVars /\ StartupFairness

-----------------------------------------------------------------------------
(* When the driver asks the default address who is there, exactly the      *)
(* sensor it has just woken answers: after every reset the others are in   *)
(* standby or have an address of their own (vl53l0x.c:554-556, 578-582).   *)
OneSensorAnswers ==
    pc = "booted" => {s \in Sensors : sensor[s].address = "default"} = {Current}

MayBeHigh(p) == port[p].output /\ port[p].out # "LOW"

(* The left PWM pin is driven by its timer, stopped until drive_set, once  *)
(* that is selected.  A wheel turns while its PWM input is high and its    *)
(* two direction inputs, which the motor driver pulls low, differ.         *)
MayTurn(pwm, cc1, cc2) ==
    /\ MayBeHigh(pwm) /\ ~port[pwm].alt
    /\ MayBeHigh(cc1) \/ MayBeHigh(cc2)

(* Whatever levels a reset has left in the registers, no wheel turns while *)
(* the robot starts, and when the main loop begins every pin of the motor  *)
(* driver is driven (io.c:95-111, 157-163, ir_remote_ta1.c:129-130).       *)
MotorsReady ==
    IF Running
    THEN \A p \in MotorPins : port[p].output
    ELSE /\ ~MayTurn("PWM_RIGHT", "RIGHT_CC_1", "RIGHT_CC_2")
         /\ ~MayTurn("PWM_LEFT", "LEFT_CC_1", "LEFT_CC_2")

(* However the initialisation of the sensors goes, the main loop begins    *)
(* (wall.c:174-181, main.c:379-391).                                       *)
StartsUp == ~Running ~> Running
=============================================================================
