-------------------------------- MODULE Robot --------------------------------
(***************************************************************************)
(* The state machine on its motors: a drive command of StateMachine is     *)
(* written out by Drive, register by register, before the main loop goes   *)
(* on, while the clock runs and keys arrive.  The operator presses MaxKeys *)
(* keys: a remote sends one frame per 108 ms, far slower than the main     *)
(* loop, and an endless burst would keep internal events, timeouts and     *)
(* walls waiting because commands come first in process_input.             *)
(***************************************************************************)
EXTENDS StateMachine

CONSTANT MaxKeys    \* bound on the keys pressed

ASSUME KeysAssumption == MaxKeys \in Nat

VARIABLES
    keys,           \* keys pressed so far
    before,         \* of Drive: the command before the last one
    writes,         \* of Drive: the register writes that remain
    cc,             \* of Drive: the direction pins of the wheels
    pwm             \* of Drive: the PWM speeds set for the wheels

driveVars == <<before, writes, cc, pwm>>
robotVars == <<vars, keys, driveVars>>

(* motors, as Drive writes it. *)
Asked == IF motors = Stopped THEN [dir |-> "STOP", speed |-> "SLOW"] ELSE motors

D == INSTANCE Drive WITH asked <- Asked

RobotInit == Init /\ D!Init /\ keys = 0

(* drive_set or drive_stop within the step; a call that repeats the last   *)
(* command only writes what is there already.                              *)
DriveCalled ==
    IF motors' # motors THEN D!Call(Asked') ELSE UNCHANGED driveVars

LoopStep == writes = <<>> /\ MainLoop /\ DriveCalled /\ UNCHANGED keys
WriteStep == UNCHANGED <<vars, keys>> /\ D!Write
ClockStep == Tick /\ UNCHANGED <<keys, driveVars>>
KeyStep == keys < MaxKeys /\ IrReceive /\ keys' = keys + 1 /\ UNCHANGED driveVars

RobotNext == LoopStep \/ WriteStep \/ ClockStep \/ KeyStep

(* The main loop and the watchdog interrupt never stop. *)
RobotSpec ==
    /\ RobotInit /\ [][RobotNext]_robotVars
    /\ WF_robotVars(LoopStep \/ WriteStep)
    /\ WF_robotVars(ClockStep)

-----------------------------------------------------------------------------
WheelTurns(wheel) == D!Sense(cc[wheel])
StandsStill == \A w \in {"LEFT", "RIGHT"} : WheelTurns(w) = 0
Turn(dir) == \A w \in {"LEFT", "RIGHT"} :
    WheelTurns(w) = IF D!GoesForward(dir, w) THEN 1 ELSE -1

(* Whenever no call is under way the wheels do what the state wants: they  *)
(* stand still until the first key, they run the move decided in EXPLORE,  *)
(* stand still from OK until MANUAL is entered, and in MANUAL run the      *)
(* direction asked for or nothing (state_machine.c:152-191,                *)
(* state_explore.c:122-196, state_manual.c:16-63, drive.c:69-127).         *)
WheelsFollowState ==
    writes = <<>> =>
        /\ state = "WAIT" => StandsStill
        /\ state = "EXPLORE" => IF OkPending THEN StandsStill ELSE Turn(MoveDir(explore.state))
        /\ state = "MANUAL" => StandsStill \/ Turn(manual.curr_dir)

(* An OK key takes effect: exploring, the robot comes to a halt and is     *)
(* then driven by hand; driven by hand, it explores                        *)
(* (state_machine.c:46, 54, 82-91, state_explore.c:190-192).               *)
OkTakesEffect ==
    /\ (internal_event = "OK" /\ state = "EXPLORE") ~> (state = "MANUAL" /\ StandsStill)
    /\ (internal_event = "OK" /\ state = "MANUAL") ~> (state = "EXPLORE")

(* A move ends: exploring, a passed deadline always leads to a new move or *)
(* out of EXPLORE, and a wall is not handled forever                       *)
(* (state_machine.c:143-145, state_explore.c:171-175).                     *)
MovesEnd ==
    /\ timer = TIMER_PASSED ~> timer # TIMER_PASSED
    /\ (explore.handling_wall /\ state = "EXPLORE")
        ~> (~explore.handling_wall \/ state # "EXPLORE")
=============================================================================
