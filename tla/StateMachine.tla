---------------------------- MODULE StateMachine ----------------------------
(***************************************************************************)
(* app/state_machine.c with the enter functions of app/state_wait.c,       *)
(* app/state_explore.c, app/state_stop.c and app/state_manual.c.           *)
(*                                                                         *)
(* The main loop repeats three steps: read the walls (Sense), pick the     *)
(* next event (ProcessInput), and run its transition (ProcessEvent).       *)
(* Between them the infrared interrupt may store a command (IrReceive) and *)
(* the millisecond clock may advance (Tick).                               *)
(***************************************************************************)
EXTENDS StateExplore, Buffers, Integers

CONSTANTS
    Commands,       \* the command bytes the remote may send
    RangesRead,     \* the millimetre values a sensor may report
    IrBufferSize,   \* IR_CMD_BUFFER_ELEM_CNT, 10 in the code
    HistorySize     \* INPUT_HISTORY_BUFFER_SIZE, 6 in the code

IrCommands == {"UP", "DOWN", "LEFT", "RIGHT", "OK", "STAR", "HASH", "0", "1",
               "2", "3", "4", "5", "6", "7", "8", "9", "NONE", "UNKNOWN"}

ASSUME CommandsAssumption == Commands \subseteq IrCommands
ASSUME RangesAssumption == RangesRead \subseteq Nat
ASSUME SizesAssumption == IrBufferSize \in Nat \ {0} /\ HistorySize \in Nat \ {0}

VARIABLES
    pc,             \* the step of the main loop that runs next
    state,          \* state_machine_data.state
    internal_event, \* state_machine_data.internal_event
    timer,          \* the state timer, relative to now (see below)
    next_event,     \* the event picked by process_input
    wall,           \* common.wall
    cmd,            \* common.cmd
    explore,        \* state_explore_data
    manual,         \* state_manual_data
    input_history,  \* the ring buffer of inputs, oldest first
    motors,         \* what drive_set or drive_stop asked for last
    ir_cmd_buffer   \* the ring buffer of commands, oldest first

vars == <<pc, state, internal_event, timer, next_event, wall, cmd, explore,
          manual, input_history, motors, ir_cmd_buffer>>

States == {"WAIT", "EXPLORE", "STOP", "MANUAL"}
Events == {"NONE", "COMMAND", "TIMEOUT", "WALL", "OK"}
Speeds == {"SLOW", "MEDIUM", "FAST", "MAX"}
Directions == {"FORWARD", "REVERSE", "ROTATE_LEFT", "ROTATE_RIGHT",
               "ARCTURN_SHARP_LEFT", "ARCTURN_SHARP_RIGHT"}

-----------------------------------------------------------------------------
(* timer_t relative to millis(): cleared, past its deadline, or 2 more     *)
(* than the milliseconds to its deadline (timer_timeout asks for strictly  *)
(* later).  The wrap of the clock is the subject of module Timer.          *)
TIMER_CLEARED == 0
TIMER_PASSED == 1
TimerStart(ms) == ms + 2
TimerTimeout(t) == t = TIMER_PASSED
TimerValues == 0 .. TimerStart(IF StraightMs > TurnMs THEN StraightMs ELSE TurnMs)

Stopped == [dir |-> "STOPPED", speed |-> "SLOW"]
DriveSet(dir, speed) == [dir |-> dir, speed |-> speed]
IsMoving == motors # Stopped

(* Mutant: the row for the OK key in MANUAL is missing. *)
Transitions_NoOkInManual == {
    <<"WAIT",    "NONE",    "WAIT">>,
    <<"WAIT",    "COMMAND", "MANUAL">>,
    <<"EXPLORE", "NONE",    "EXPLORE">>,
    <<"EXPLORE", "TIMEOUT", "EXPLORE">>,
    <<"EXPLORE", "COMMAND", "EXPLORE">>,
    <<"EXPLORE", "WALL",    "EXPLORE">>,
    <<"EXPLORE", "OK",      "MANUAL">>,
    <<"MANUAL",  "COMMAND", "MANUAL">>,
    <<"MANUAL",  "NONE",    "MANUAL">> }

(* state_transitions[] *)
Transitions == {
    <<"WAIT",    "NONE",    "WAIT">>,
    <<"WAIT",    "COMMAND", "MANUAL">>,
    <<"EXPLORE", "NONE",    "EXPLORE">>,
    <<"EXPLORE", "TIMEOUT", "EXPLORE">>,
    <<"EXPLORE", "COMMAND", "EXPLORE">>,
    <<"EXPLORE", "WALL",    "EXPLORE">>,
    <<"EXPLORE", "OK",      "MANUAL">>,
    <<"STOP",    "TIMEOUT", "STOP">>,
    <<"STOP",    "NONE",    "STOP">>,
    <<"STOP",    "COMMAND", "STOP">>,
    <<"MANUAL",  "COMMAND", "MANUAL">>,
    <<"MANUAL",  "NONE",    "MANUAL">>,
    <<"MANUAL",  "OK",      "EXPLORE">> }

HasTransition(from, event) == \E to \in States : <<from, event, to>> \in Transitions
GoesTo(to) == <<state, next_event, to>> \in Transitions

(* Every wall wall_get may return: a failed read, or some three readings. *)
WallsSeen == {NoWall} \cup
    {WallGet(r) : r \in [{"front", "front_left", "front_right"} -> RangesRead]}

TypeOK ==
    /\ pc \in {"sense", "input", "dispatch"}
    /\ state \in States
    /\ internal_event \in {"NONE", "OK"}
    /\ timer \in TimerValues
    /\ next_event \in Events
    /\ wall \in WallsSeen
    /\ cmd \in Commands \cup {"NONE"}
    /\ explore \in [state : ExploreStates, curr_speed : Speeds, handling_wall : BOOLEAN]
    /\ manual \in [curr_dir : Directions, curr_speed : Speeds]
    /\ input_history \in Seq(WallsSeen) /\ Len(input_history) <= HistorySize
    /\ motors \in [dir : Directions, speed : Speeds] \cup {Stopped}
    /\ ir_cmd_buffer \in Seq(Commands) /\ Len(ir_cmd_buffer) <= IrBufferSize

-----------------------------------------------------------------------------
Init ==
    /\ pc = "sense"
    /\ state = "WAIT"
    /\ internal_event = "NONE"
    /\ timer = TIMER_CLEARED
    /\ next_event = "NONE"
    /\ wall = NoWall
    /\ cmd = "NONE"
    /\ explore = [state |-> "FORWARD", curr_speed |-> "FAST", handling_wall |-> FALSE]
    /\ manual = [curr_dir |-> "FORWARD", curr_speed |-> "MEDIUM"]
    /\ input_history = <<>>
    /\ motors = Stopped
    /\ ir_cmd_buffer = <<>>

-----------------------------------------------------------------------------
(* process_input *)

(* wall_get: may take a while, the interrupts keep running. *)
Sense ==
    /\ pc = "sense"
    /\ pc' = "input"
    /\ wall' \in WallsSeen
    /\ UNCHANGED <<state, internal_event, timer, next_event, cmd, explore,
                   manual, input_history, motors, ir_cmd_buffer>>

(* input_history_save: walls only, and never the same wall twice running. *)
HistorySave(history, w) ==
    IF w.positions = "NONE" \/ (history # <<>> /\ history[Len(history)] = w)
    THEN history
    ELSE BufferPut(history, w, HistorySize)

(* take_internal_event, or leave it. *)
TakeInternalEvent ==
    /\ next_event' = internal_event
    /\ internal_event' = "NONE"

(* Mutant: a wall in sight is looked at before events and the timer. *)
SelectEvent_WallFirst(command) ==
    \/ /\ command # "NONE"
       /\ next_event' = "COMMAND"
       /\ UNCHANGED <<internal_event, timer>>
    \/ /\ command = "NONE"
       /\ WallDetected(wall)
       /\ next_event' = "WALL"
       /\ UNCHANGED <<internal_event, timer>>
    \/ /\ command = "NONE"
       /\ ~WallDetected(wall)
       /\ internal_event # "NONE"
       /\ TakeInternalEvent
       /\ UNCHANGED timer
    \/ /\ command = "NONE"
       /\ ~WallDetected(wall)
       /\ internal_event = "NONE"
       /\ timer' = IF TimerTimeout(timer) THEN TIMER_CLEARED ELSE timer
       /\ next_event' = IF TimerTimeout(timer) THEN "TIMEOUT" ELSE "NONE"
       /\ UNCHANGED internal_event

(* The order in which process_input looks for an event. *)
SelectEvent(command) ==
    \/ /\ command # "NONE"
       /\ next_event' = "COMMAND"
       /\ UNCHANGED <<internal_event, timer>>
    \/ /\ command = "NONE"
       /\ internal_event # "NONE"
       /\ TakeInternalEvent
       /\ UNCHANGED timer
    \/ /\ command = "NONE"
       /\ internal_event = "NONE"
       /\ TimerTimeout(timer)
       /\ timer' = TIMER_CLEARED
       /\ next_event' = "TIMEOUT"
       /\ UNCHANGED internal_event
    \/ /\ command = "NONE"
       /\ internal_event = "NONE"
       /\ ~TimerTimeout(timer)
       /\ next_event' = IF WallDetected(wall) THEN "WALL" ELSE "NONE"
       /\ UNCHANGED <<internal_event, timer>>

(* ir_remote_get_cmd_ta1, input_history_save and the choice of the event. *)
ProcessInput ==
    /\ pc = "input"
    /\ pc' = "dispatch"
    /\ cmd' = IF ir_cmd_buffer = <<>> THEN "NONE" ELSE Head(ir_cmd_buffer)
    /\ ir_cmd_buffer' = IF ir_cmd_buffer = <<>> THEN <<>> ELSE Tail(ir_cmd_buffer)
    /\ input_history' = HistorySave(input_history, wall)
    /\ SelectEvent(cmd')
    /\ UNCHANGED <<state, wall, explore, manual, motors>>

-----------------------------------------------------------------------------
(* process_event: the enter function of the state the table leads to.      *)

(* state_machine_post_internal_event: a pending event is kept. *)
PostInternalEvent(event) ==
    internal_event' = IF internal_event = "NONE" THEN event ELSE internal_event

(* state_explore_run: choose by the wall seen, start the timer and drive. *)
ExploreRun(handling) ==
    \E s \in NextExploreStates(wall) :
        /\ explore' = [explore EXCEPT !.state = s, !.handling_wall = handling]
        /\ timer' = TimerStart(MoveDuration(s))
        /\ motors' = DriveSet(MoveDir(s), explore.curr_speed)

(* state_explore_enter, coming from MANUAL: handling_wall is left alone. *)
HandlingOnEntry == explore.handling_wall

ExploreFromManual ==
    /\ state = "MANUAL"
    /\ GoesTo("EXPLORE")
    /\ ExploreRun(HandlingOnEntry)
    /\ UNCHANGED <<internal_event, manual>>

(* Mutant: every wall event chooses a new move. *)
ExploreWall_Always ==
    /\ state = "EXPLORE"
    /\ next_event = "WALL"
    /\ ExploreRun(TRUE)
    /\ UNCHANGED <<internal_event, manual>>

(* state_explore_enter, staying in EXPLORE. *)
ExploreWall ==
    /\ state = "EXPLORE"
    /\ next_event = "WALL"
    /\ IF explore.handling_wall THEN UNCHANGED <<explore, timer, motors>>
                                ELSE ExploreRun(TRUE)
    /\ UNCHANGED <<internal_event, manual>>

ExploreTimeout ==
    /\ state = "EXPLORE"
    /\ next_event = "TIMEOUT"
    /\ ExploreRun(FALSE)
    /\ UNCHANGED <<internal_event, manual>>

SpeedKeys == {"1", "2", "3", "4"}
SpeedOf(key) == CASE key = "1" -> "SLOW" [] key = "2" -> "MEDIUM"
                  [] key = "3" -> "FAST" [] OTHER -> "MAX"

ExploreSpeed ==
    IF cmd \in SpeedKeys THEN [explore EXCEPT !.curr_speed = SpeedOf(cmd)] ELSE explore

(* Mutant: a speed key sets the motors at once, pending OK or not. *)
ExploreCommand_DrivesAtOnce ==
    /\ state = "EXPLORE"
    /\ next_event = "COMMAND"
    /\ explore' = ExploreSpeed
    /\ IF cmd = "OK" THEN motors' = Stopped /\ PostInternalEvent("OK")
       ELSE IF cmd \in SpeedKeys
       THEN motors' = DriveSet(MoveDir(explore.state), SpeedOf(cmd)) /\ UNCHANGED internal_event
       ELSE UNCHANGED <<motors, internal_event>>
    /\ UNCHANGED <<timer, manual>>

ExploreCommand ==
    /\ state = "EXPLORE"
    /\ next_event = "COMMAND"
    /\ explore' = ExploreSpeed
    /\ IF cmd = "OK" THEN motors' = Stopped /\ PostInternalEvent("OK")
                     ELSE UNCHANGED <<motors, internal_event>>
    /\ UNCHANGED <<timer, manual>>

(* state_manual_enter for a command. *)
ArrowKeys == {"UP", "DOWN", "LEFT", "RIGHT"}
DirectionOf(key) ==
    CASE key = "UP"   -> "FORWARD"
      [] key = "DOWN" -> "REVERSE"
      [] key = "LEFT" -> "ARCTURN_SHARP_LEFT"
      [] OTHER        -> "ARCTURN_SHARP_RIGHT"

(* Mutant: the direction driven is not remembered. *)
ManualDrive_ForgetsDir ==
    /\ cmd \in ArrowKeys \cup SpeedKeys
    /\ manual' = IF cmd \in SpeedKeys THEN [manual EXCEPT !.curr_speed = SpeedOf(cmd)]
                                      ELSE manual
    /\ motors' = DriveSet(IF cmd \in ArrowKeys THEN DirectionOf(cmd) ELSE manual.curr_dir,
                          manual'.curr_speed)
    /\ UNCHANGED internal_event

ManualDrive ==
    /\ cmd \in ArrowKeys \cup SpeedKeys
    /\ manual' = IF cmd \in ArrowKeys
                 THEN [manual EXCEPT !.curr_dir = DirectionOf(cmd)]
                 ELSE [manual EXCEPT !.curr_speed = SpeedOf(cmd)]
    /\ motors' = DriveSet(manual'.curr_dir, manual'.curr_speed)
    /\ UNCHANGED internal_event

ManualStop ==
    /\ cmd \in {"0", "OK"}
    /\ motors' = Stopped
    /\ IF cmd = "OK" THEN PostInternalEvent("OK") ELSE UNCHANGED internal_event
    /\ UNCHANGED manual

ManualIgnore ==
    /\ cmd \notin ArrowKeys \cup SpeedKeys \cup {"0", "OK"}
    /\ UNCHANGED <<manual, motors, internal_event>>

(* Mutant: the timer survives a change of state. *)
ClearTimerOnChange_Never(to) == timer' = timer

(* state_enter clears the timer when the state changes. *)
ClearTimerOnChange(to) == timer' = IF state # to THEN TIMER_CLEARED ELSE timer

(* Entering MANUAL, from WAIT or MANUAL with the command that caused it. *)
ManualCommand ==
    /\ next_event = "COMMAND"
    /\ GoesTo("MANUAL")
    /\ ClearTimerOnChange("MANUAL")
    /\ ManualDrive \/ ManualStop \/ ManualIgnore
    /\ UNCHANGED explore

(* Entering MANUAL from EXPLORE: the event is no command, so no key acts. *)
ManualFromExplore ==
    /\ state = "EXPLORE"
    /\ GoesTo("MANUAL")
    /\ ClearTimerOnChange("MANUAL")
    /\ UNCHANGED <<internal_event, explore, manual, motors>>

(* state_wait_enter and state_stop_enter do nothing, nor does any state on *)
(* NONE, and an event without a transition is ignored.                     *)
NothingToDo ==
    /\ ~\E to \in {"EXPLORE", "MANUAL"} : GoesTo(to) /\ next_event # "NONE"
    /\ UNCHANGED <<internal_event, timer, explore, manual, motors>>

(* The first matching row of the table, of which there is at most one.     *)
ChangeState ==
    \/ \E to \in States : GoesTo(to) /\ state' = to
    \/ ~HasTransition(state, next_event) /\ UNCHANGED state

ProcessEvent ==
    /\ pc = "dispatch"
    /\ pc' = "sense"
    /\ ChangeState
    /\ \/ ExploreFromManual
       \/ ExploreWall
       \/ ExploreTimeout
       \/ ExploreCommand
       \/ ManualCommand
       \/ ManualFromExplore
       \/ NothingToDo
    /\ UNCHANGED <<next_event, wall, cmd, input_history, ir_cmd_buffer>>

-----------------------------------------------------------------------------
(* The interrupts. *)

(* The infrared ISR stores a decoded command (ir_parse). *)
IrReceive ==
    /\ \E c \in Commands : ir_cmd_buffer' = BufferPut(ir_cmd_buffer, c, IrBufferSize)
    /\ UNCHANGED <<pc, state, internal_event, timer, next_event, wall, cmd,
                   explore, manual, input_history, motors>>

(* One millisecond passes; it is visible only to a running timer. *)
Tick ==
    /\ timer > TIMER_PASSED
    /\ timer' = timer - 1
    /\ UNCHANGED <<pc, state, internal_event, next_event, wall, cmd, explore,
                   manual, input_history, motors, ir_cmd_buffer>>

MainLoop == Sense \/ ProcessInput \/ ProcessEvent

Next == MainLoop \/ IrReceive \/ Tick

Spec == Init /\ [][Next]_vars
-----------------------------------------------------------------------------
(* Safety. *)

Dispatching(event) == pc = "dispatch" /\ next_event = event

(* An OK key that has not been acted on yet: posted, or just taken. *)
OkPending == internal_event = "OK" \/ Dispatching("OK")

(* While waiting for the first command the robot stands still, and no      *)
(* timer or internal event is left that could make it leave WAIT           *)
(* (state_machine.c:152-174).                                              *)
IdleInWait ==
    state = "WAIT" => ~IsMoving /\ timer = TIMER_CLEARED /\ ~OkPending

(* The state timer runs exactly while exploring, so that no move lasts     *)
(* forever and no timeout of an old move fires in MANUAL; the one gap is   *)
(* the timeout that is about to choose the next move                       *)
(* (state_machine.c:96-97, 143-145; state_explore.c:125).                  *)
TimerRunsInExplore ==
    timer # TIMER_CLEARED \/ Dispatching("TIMEOUT") <=> state = "EXPLORE"

(* Exploring, the motors run the move that was decided; once OK is pressed *)
(* they stay stopped until MANUAL is entered, whatever keys, walls and     *)
(* timeouts come first (state_explore.c:122-127, 190-192).                 *)
MotorsFollowExplore ==
    state = "EXPLORE" =>
        IF OkPending THEN ~IsMoving ELSE motors.dir = MoveDir(explore.state)

(* In MANUAL the motors are stopped or run the direction and speed last    *)
(* asked for; nothing of the exploration lingers (state_manual.c:16-63).   *)
MotorsFollowManual ==
    state = "MANUAL" =>
        motors \in {Stopped, DriveSet(manual.curr_dir, manual.curr_speed)}

(* Only a wall may be ignored for want of a transition: a command, a       *)
(* timeout or an OK is never taken and then dropped (state_machine.c:41-55,*)
(* 118-128).                                                               *)
NoEventLost ==
    pc = "dispatch" /\ next_event # "WALL" => HasTransition(state, next_event)

-----------------------------------------------------------------------------
(* Action properties. *)

(* Walls alone never cut a wall-avoiding move short: while a wall is being *)
(* handled the same move goes on and its deadline stays; only its timeout  *)
(* or leaving EXPLORE ends the handling (state_explore.c:162-175).         *)
AvoidanceIsFinished ==
    [][explore.handling_wall /\ state = "EXPLORE" /\ state' = "EXPLORE" =>
        IF explore'.handling_wall
        THEN explore'.state = explore.state /\ timer' <= timer
        ELSE Dispatching("TIMEOUT")]_vars

(* The robot only starts or changes its motion for a reason: in MANUAL a   *)
(* key, in EXPLORE the choice of a move; the change of state itself, the   *)
(* sensors and the clock never do (state_manual.c:12-14).                  *)
MotionHasCause ==
    [][motors' # motors /\ motors' # Stopped =>
        \/ state' = "MANUAL" /\ cmd \in ArrowKeys \cup SpeedKeys
        \/ state' = "EXPLORE" /\ timer' = TimerStart(MoveDuration(explore'.state))]_vars
=============================================================================
