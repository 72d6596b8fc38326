-------------------------------- MODULE Drive --------------------------------
(***************************************************************************)
(* app/drive.c on drivers/tb6612fng.c: a drive command becomes four writes *)
(* to the direction pins of the motor driver and two PWM settings, one     *)
(* after the other, while the wheels are turning.                          *)
(***************************************************************************)
EXTENDS PwmTables, Sequences, Integers

VARIABLES
    asked,          \* the drive command under way or done last
    before,         \* history: the one before it, until it is done
    writes,         \* the register writes that remain
    cc,             \* the direction pins cc1, cc2 of a wheel
    pwm             \* the PWM speed set for a wheel; "STOP" until the first

driveVars == <<asked, before, writes, cc, pwm>>

DriveSpeeds == {"SLOW", "MEDIUM", "FAST", "MAX"}
Stop == [dir |-> "STOP", speed |-> "SLOW"]

(* drive_primary_speeds[], left wheel first. *)
PrimarySpeeds ==
    [FORWARD |->
        [SLOW   |-> <<"QUARTER", "QUARTER">>,
         MEDIUM |-> <<"QUARTER_PLUS", "QUARTER_PLUS">>,
         FAST   |-> <<"HALF", "HALF">>,
         MAX    |-> <<"MAX", "MAX">>],
     ROTATE_LEFT |->
        [SLOW   |-> <<"QUARTER", "QUARTER">>,
         MEDIUM |-> <<"HALF", "HALF">>,
         FAST   |-> <<"HALF_PLUS", "HALF_PLUS">>,
         MAX    |-> <<"MAX", "MAX">>],
     ARCTURN_SHARP_LEFT |->
        [SLOW   |-> <<"EIGHTH", "QUARTER">>,
         MEDIUM |-> <<"EIGHTH", "HALF">>,
         FAST   |-> <<"QUARTER", "HALF_PLUS">>,
         MAX    |-> <<"EIGHTH_PLUS", "MAX">>],
     ARCTURN_MID_LEFT |->
        [SLOW   |-> <<"EIGHTH_PLUS", "QUARTER">>,
         MEDIUM |-> <<"QUARTER", "HALF">>,
         FAST   |-> <<"QUARTER_PLUS", "HALF_PLUS">>,
         MAX    |-> <<"HALF", "MAX">>],
     ARCTURN_WIDE_LEFT |->
        [SLOW   |-> <<"EIGHTH_PLUS", "QUARTER">>,
         MEDIUM |-> <<"QUARTER_PLUS", "HALF">>,
         FAST   |-> <<"HALF", "HALF_PLUS">>,
         MAX    |-> <<"HALF_PLUS", "MAX">>]]

(* drive_primary_direction: the right turns and REVERSE use the table of   *)
(* their counterpart.                                                      *)
Primary(dir) ==
    CASE dir = "REVERSE"             -> "FORWARD"
      [] dir = "ROTATE_RIGHT"        -> "ROTATE_LEFT"
      [] dir = "ARCTURN_SHARP_RIGHT" -> "ARCTURN_SHARP_LEFT"
      [] dir = "ARCTURN_MID_RIGHT"   -> "ARCTURN_MID_LEFT"
      [] dir = "ARCTURN_WIDE_RIGHT"  -> "ARCTURN_WIDE_LEFT"
      [] OTHER                       -> dir

RightTurns == {"ROTATE_RIGHT", "ARCTURN_SHARP_RIGHT", "ARCTURN_MID_RIGHT",
               "ARCTURN_WIDE_RIGHT"}
LeftTurns == {"ROTATE_LEFT", "ARCTURN_SHARP_LEFT", "ARCTURN_MID_LEFT",
              "ARCTURN_WIDE_LEFT"}
DriveDirections == {"FORWARD", "REVERSE"} \cup LeftTurns \cup RightTurns
DriveCommands == [dir : DriveDirections, speed : DriveSpeeds] \cup {Stop}

(* Mutant: a direction is forgotten in the condition of the swap. *)
IsMirrored_NoWide(dir) == dir \in RightTurns \ {"ARCTURN_WIDE_RIGHT"}

IsMirrored(dir) == dir \in RightTurns

SpeedOfWheel(command, wheel) ==
    LET speeds == PrimarySpeeds[Primary(command.dir)][command.speed]
    IN  IF (wheel = "LEFT") = IsMirrored(command.dir) THEN speeds[2] ELSE speeds[1]

GoesForward(dir, wheel) ==
    /\ dir # "REVERSE"
    /\ ~(dir = "ROTATE_LEFT" /\ wheel = "LEFT")
    /\ ~(dir = "ROTATE_RIGHT" /\ wheel = "RIGHT")

-----------------------------------------------------------------------------
(* A write to one direction pin, or a call of pwm_both_timers_set_duty.    *)
PinWrite(wheel, pin, high) == [wheel |-> wheel, what |-> pin, value |-> high]
PwmWrite(wheel, speed) == [wheel |-> wheel, what |-> "pwm", value |-> speed]

Writes ==
    {PinWrite(w, pin, high) : w \in Wheels, pin \in {"cc1", "cc2"}, high \in BOOLEAN}
    \cup {PwmWrite(w, speed) : w \in Wheels, speed \in PwmSpeeds}

(* Mutant: the two direction pins are mixed up. *)
ModeWrites_Swapped(wheel, mode) ==
    <<PinWrite(wheel, "cc1", mode = "REVERSE"), PinWrite(wheel, "cc2", mode = "FORWARD")>>

(* tb6612fng_set_mode *)
ModeWrites(wheel, mode) ==
    <<PinWrite(wheel, "cc1", mode = "FORWARD"), PinWrite(wheel, "cc2", mode = "REVERSE")>>

ModeOfWheel(dir, wheel) == IF GoesForward(dir, wheel) THEN "FORWARD" ELSE "REVERSE"

(* Mutant: the stop leaves the direction pins alone. *)
WritesOf_StopKeepsMode(command) ==
    IF command = Stop
    THEN <<PwmWrite("LEFT", "STOP"), PwmWrite("RIGHT", "STOP")>>
    ELSE ModeWrites("LEFT", ModeOfWheel(command.dir, "LEFT"))
         \o ModeWrites("RIGHT", ModeOfWheel(command.dir, "RIGHT"))
         \o <<PwmWrite("LEFT", SpeedOfWheel(command, "LEFT")),
              PwmWrite("RIGHT", SpeedOfWheel(command, "RIGHT"))>>

(* drive_set and drive_stop: the modes first, then the speeds. *)
WritesOf(command) ==
    IF command = Stop
    THEN ModeWrites("LEFT", "STOP") \o ModeWrites("RIGHT", "STOP")
         \o <<PwmWrite("LEFT", "STOP"), PwmWrite("RIGHT", "STOP")>>
    ELSE ModeWrites("LEFT", ModeOfWheel(command.dir, "LEFT"))
         \o ModeWrites("RIGHT", ModeOfWheel(command.dir, "RIGHT"))
         \o <<PwmWrite("LEFT", SpeedOfWheel(command, "LEFT")),
              PwmWrite("RIGHT", SpeedOfWheel(command, "RIGHT"))>>

TypeOK ==
    /\ asked \in DriveCommands
    /\ before \in DriveCommands
    /\ writes \in Seq(Writes) /\ Len(writes) <= 6
    /\ cc \in [Wheels -> [cc1 : BOOLEAN, cc2 : BOOLEAN]]
    /\ pwm \in [Wheels -> PwmSpeeds]

(* io_init has set the direction pins low, ir_remote_init_ta1 the one it   *)
(* leaves out (cc1 of the right wheel is P1.0).                            *)
Init ==
    /\ asked = Stop
    /\ before = Stop
    /\ writes = <<>>
    /\ cc = [w \in Wheels |-> [cc1 |-> FALSE, cc2 |-> FALSE]]
    /\ pwm = [w \in Wheels |-> "STOP"]

(* drive_set or drive_stop is called. *)
Call(command) ==
    /\ writes = <<>>
    /\ asked' = command
    /\ before' = asked
    /\ writes' = WritesOf(command)
    /\ UNCHANGED <<cc, pwm>>

(* The next write.  pwm_both_timers_set_duty_cycle ignores STOP. *)
Write ==
    /\ writes # <<>>
    /\ LET w == Head(writes)
       IN  \/ /\ w.what = "cc1"
              /\ cc' = [cc EXCEPT ![w.wheel].cc1 = w.value]
              /\ UNCHANGED pwm
           \/ /\ w.what = "cc2"
              /\ cc' = [cc EXCEPT ![w.wheel].cc2 = w.value]
              /\ UNCHANGED pwm
           \/ /\ w.what = "pwm"
              /\ pwm' = IF w.value = "STOP" THEN pwm ELSE [pwm EXCEPT ![w.wheel] = w.value]
              /\ UNCHANGED cc
    /\ writes' = Tail(writes)
    /\ before' = IF writes' = <<>> THEN asked ELSE before
    /\ UNCHANGED asked

Next == Write \/ \E command \in DriveCommands : Call(command)

Spec == Init /\ [][Next]_driveVars

-----------------------------------------------------------------------------
(* The motor driver: a wheel turns when exactly one of its pins is high.   *)
Sense(pins) ==
    CASE pins.cc1 /\ ~pins.cc2 -> 1
      [] ~pins.cc1 /\ pins.cc2 -> -1
      [] OTHER                 -> 0

(* What a wheel does, in parts per thousand of its full speed. *)
Motion(wheel) ==
    Sense(cc[wheel]) *
        (IF wheel = "LEFT" THEN LeftDuty(pwm["LEFT"])
         ELSE IF pwm["RIGHT"] = "STOP" THEN 0 ELSE RightDuty(pwm["RIGHT"]))

(* The two timers make a duty in two ways; they differ by at most this.    *)
Tolerance == 4
Near(a, b) == a - b \in -Tolerance .. Tolerance

TurnsLeft == Motion("LEFT") < Motion("RIGHT")
TurnsRight == Motion("LEFT") > Motion("RIGHT")

(* Done, a drive command makes the robot do what its name says: straight   *)
(* with both wheels at one speed, turning to its own side, on the spot for *)
(* the rotations and forwards for the arcs, still for a stop, although the *)
(* wheels have their tables in different units (drive.c:18-66, 69-119,     *)
(* pwm_both_timers.c:54-63).                                               *)
DoesAsAsked ==
    writes = <<>> =>
        LET left == Motion("LEFT")
            right == Motion("RIGHT")
        IN  /\ asked = Stop => left = 0 /\ right = 0
            /\ asked.dir = "FORWARD" => left > 0 /\ Near(left, right)
            /\ asked.dir = "REVERSE" => left < 0 /\ Near(left, right)
            /\ asked.dir \in {"ROTATE_LEFT", "ROTATE_RIGHT"} =>
                    Near(left, -right) /\ (left < 0 <=> asked.dir = "ROTATE_LEFT")
            /\ asked.dir \in LeftTurns \ {"ROTATE_LEFT"} => left > 0 /\ TurnsLeft
            /\ asked.dir \in RightTurns \ {"ROTATE_RIGHT"} => right > 0 /\ TurnsRight

(* While a command is being written no wheel turns in a direction that     *)
(* neither this command nor the one before asks for: the pins of a wheel   *)
(* change one by one, but never by way of the other direction              *)
(* (tb6612fng.c:15-31, drive.c:107-118).                                   *)
ModeOf(command, wheel) ==
    IF command = Stop THEN 0 ELSE IF GoesForward(command.dir, wheel) THEN 1 ELSE -1

NoStrayDirection ==
    \A w \in Wheels : Sense(cc[w]) \in {0, ModeOf(asked, w), ModeOf(before, w)}
=============================================================================
