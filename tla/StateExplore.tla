---------------------------- MODULE StateExplore ----------------------------
(***************************************************************************)
(* The tables and the decision of app/state_explore.c.  Each explore state *)
(* is a single move, so move_idx is 0 in every state and is left out.      *)
(***************************************************************************)
EXTENDS Wall, RandSimple

CONSTANTS
    StraightMs,     \* duration of FORWARD and REVERSE, 2800 in the code
    TurnMs          \* duration of the four turns, 2850 in the code

ASSUME DurationsAssumption == StraightMs \in Nat /\ TurnMs \in Nat

ExploreStates == {"REVERSE", "FORWARD", "ROTATE_LEFT", "ROTATE_RIGHT",
                  "ARCTURN_LEFT", "ARCTURN_RIGHT"}

(* explore_states[]: the drive direction and the duration of the move. *)
MoveDir(s) ==
    CASE s = "ARCTURN_LEFT"  -> "ARCTURN_SHARP_LEFT"
      [] s = "ARCTURN_RIGHT" -> "ARCTURN_SHARP_RIGHT"
      [] OTHER               -> s

MoveDuration(s) == IF s \in {"REVERSE", "FORWARD"} THEN StraightMs ELSE TurnMs

(* Mutant: the wall in front is asked for before those on three sides. *)
NextExploreState_FrontFirst(wall, dir) ==
    LET front == WallAtFront(wall)
        left  == WallAtLeft(wall)
        right == WallAtRight(wall)
    IN  CASE front            -> IF dir % 2 = 1 THEN "ARCTURN_LEFT" ELSE "ARCTURN_RIGHT"
          [] ~front /\ left   -> "ARCTURN_RIGHT"
          [] ~front /\ ~left /\ right -> "ARCTURN_LEFT"
          [] OTHER            -> "FORWARD"

(* next_explore_state for the wall seen and two bits of rand_simple().  A  *)
(* wall that is detected but not near on any side falls through to the     *)
(* random choice among FORWARD, ARCTURN_LEFT and ARCTURN_RIGHT.            *)
NextExploreState(wall, dir) ==
    LET front == WallAtFront(wall)
        left  == WallAtLeft(wall)
        right == WallAtRight(wall)
    IN  CASE front /\ left /\ right   -> "REVERSE"
          [] front /\ left /\ ~right  -> "ROTATE_RIGHT"
          [] front /\ ~left /\ right  -> "ROTATE_LEFT"
          [] front /\ ~left /\ ~right -> IF dir % 2 = 1 THEN "ARCTURN_LEFT" ELSE "ARCTURN_RIGHT"
          [] ~front /\ left           -> "ARCTURN_RIGHT"
          [] ~front /\ ~left /\ right -> "ARCTURN_LEFT"
          [] OTHER -> CASE dir = 1 -> "ARCTURN_LEFT"
                        [] dir = 2 -> "ARCTURN_RIGHT"
                        [] OTHER   -> "FORWARD"

NextExploreStates(wall) == {NextExploreState(wall, dir) : dir \in RandomDirs}
=============================================================================
