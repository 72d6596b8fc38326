------------------------------ MODULE Steering ------------------------------
(***************************************************************************)
(* From the sensors to the wheels: the readings become a wall (Wall), the  *)
(* wall an explore state (StateExplore), and its move a drive command that *)
(* is written out (Drive).  A decision is one of state_explore_run; the    *)
(* state machine around it is module StateMachine.                         *)
(***************************************************************************)
EXTENDS StateExplore, Drive

CONSTANT Readings   \* the millimetre values a sensor may report

ASSUME ReadingsAssumption == Readings \subseteq Nat

VARIABLE
    ranges          \* the readings the latest command was decided from

vars == <<driveVars, ranges>>

Sides == {"front", "front_left", "front_right"}
NoDecision == <<>>

SteeringInit == Init /\ ranges = NoDecision

(* wall_get, next_explore_state, start_explore_move. *)
Decide ==
    /\ ranges' \in [Sides -> Readings]
    /\ \E s \in NextExploreStates(WallGet(ranges')), speed \in DriveSpeeds :
            Call([dir |-> MoveDir(s), speed |-> speed])

(* Any other command: of the operator in MANUAL, or the stop of an OK key. *)
Command ==
    /\ ranges' = NoDecision
    /\ \E command \in DriveCommands : Call(command)

WriteStep == Write /\ UNCHANGED ranges

SteeringNext == Decide \/ Command \/ WriteStep

SteeringSpec == SteeringInit /\ [][SteeringNext]_vars

-----------------------------------------------------------------------------
Close(side) == ranges[side] < RANGE_MID
Seen(side) == ranges[side] < RANGE_DETECT_THRESHOLD
Driving == ranges # NoDecision /\ writes = <<>>

(* A gap: something is seen at both sides and nothing in front.            *)
InGap == Seen("front_left") /\ Seen("front_right") /\ ~Seen("front")

(* The wheels take the robot away from a near wall: it never drives        *)
(* straight or turns towards a side where a wall is near, unless both      *)
(* sides are or it is in a gap, it never goes straight ahead into a near   *)
(* wall in front, and it backs out of near walls on three sides            *)
(* (wall.c:59-169, state_explore.c:62-120).                                *)
TurnsAway ==
    Driving /\ ~InGap =>
        /\ Close("front_left") /\ ~Close("front_right") => TurnsRight
        /\ Close("front_right") /\ ~Close("front_left") => TurnsLeft
        /\ Close("front") => TurnsLeft \/ TurnsRight \/ Motion("LEFT") < 0
        /\ (\A side \in Sides : Close(side)) => Motion("LEFT") < 0 /\ Motion("RIGHT") < 0
=============================================================================
