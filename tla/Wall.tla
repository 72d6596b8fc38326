-------------------------------- MODULE Wall --------------------------------
(***************************************************************************)
(* app/wall.c: turns the three front range readings (millimetres, from     *)
(* the front, front-left and front-right sensor) into a wall position and  *)
(* one distance class per side, and answers where a wall is.               *)
(***************************************************************************)
EXTENDS Naturals

RANGE_DETECT_THRESHOLD == 600
RANGE_CLOSE == 100
RANGE_MID == 500
INVALID_RANGE == 65535

WallPositions == {"NONE", "FRONT_LEFT", "FRONT", "FRONT_RIGHT",
                  "FRONT_AND_FRONT_LEFT", "FRONT_AND_FRONT_RIGHT",
                  "LEFT_RIGHT", "FRONT_ALL"}
WallRanges == {"NONE", "CLOSE", "MID", "FAR"}

WallRecords == [positions : WallPositions, range_front : WallRanges,
                range_left : WallRanges, range_right : WallRanges]

(* What wall_get returns when the sensors cannot be read. *)
NoWall == [positions |-> "NONE", range_front |-> "NONE",
           range_left |-> "NONE", range_right |-> "NONE"]

IsDetected(mm) == mm < RANGE_DETECT_THRESHOLD

Position(front, left, right) ==
    CASE left /\ front /\ right    -> "FRONT_ALL"
      [] left /\ ~front /\ right   -> "LEFT_RIGHT"
      [] left /\ front /\ ~right   -> "FRONT_AND_FRONT_LEFT"
      [] left /\ ~front /\ ~right  -> "FRONT_LEFT"
      [] ~left /\ front /\ right   -> "FRONT_AND_FRONT_RIGHT"
      [] ~left /\ ~front /\ right  -> "FRONT_RIGHT"
      [] ~left /\ front /\ ~right  -> "FRONT"
      [] OTHER                     -> "NONE"

RangeClass(mm) ==
    IF mm < RANGE_CLOSE THEN "CLOSE" ELSE IF mm < RANGE_MID THEN "MID" ELSE "FAR"

(* The distance kept for a side: the branch of LEFT_RIGHT keeps none.      *)
KeptRange(mm, pos) ==
    IF IsDetected(mm) /\ pos # "LEFT_RIGHT" THEN mm ELSE INVALID_RANGE

(* wall_get after a successful read; ranges maps a sensor to millimetres. *)
WallGet(ranges) ==
    LET pos == Position(IsDetected(ranges.front), IsDetected(ranges.front_left),
                        IsDetected(ranges.front_right))
    IN  [positions   |-> pos,
         range_front |-> RangeClass(KeptRange(ranges.front, pos)),
         range_left  |-> RangeClass(KeptRange(ranges.front_left, pos)),
         range_right |-> RangeClass(KeptRange(ranges.front_right, pos))]

WallDetected(wall) == wall.positions # "NONE"

IsNear(range) == range \notin {"FAR", "NONE"}

(* Mutant: a position is forgotten. *)
WallAtLeft_NotBoth(wall) ==
    /\ IsNear(wall.range_left)
    /\ wall.positions \in {"FRONT_LEFT", "FRONT_ALL"}

WallAtLeft(wall) ==
    /\ IsNear(wall.range_left)
    /\ wall.positions \in {"FRONT_LEFT", "FRONT_AND_FRONT_LEFT", "FRONT_ALL"}

WallAtRight(wall) ==
    /\ IsNear(wall.range_right)
    /\ wall.positions \in {"FRONT_RIGHT", "FRONT_AND_FRONT_RIGHT", "FRONT_ALL"}

WallAtFront(wall) ==
    /\ IsNear(wall.range_front)
    /\ wall.positions \in {"FRONT", "FRONT_ALL", "FRONT_AND_FRONT_RIGHT",
                           "FRONT_AND_FRONT_LEFT"}
=============================================================================
