---------------------------- MODULE Robot_proofs ----------------------------
(***************************************************************************)
(* Proofs about the main state machine, and about the whole robot: it      *)
(* behaves like its state machine and like its drive, and so the wheels do *)
(* what the state wants.  All of this for every set of keys, every set of  *)
(* sensor readings, all durations and all buffer sizes.                    *)
(***************************************************************************)
EXTENDS Robot, SequenceTheorems, TLAPS

(* The state machine never gets to STOP: no row of the table leads there.  *)
NeverInStop == state # "STOP"

(* A posted event is the next one taken unless a command came first.       *)
PostedGoesFirst ==
    pc = "dispatch" /\ internal_event # "NONE" => next_event = "COMMAND"

(* The inductive invariant: the checked invariants and these two facts.    *)
Inv ==
    /\ TypeOK
    /\ NeverInStop
    /\ PostedGoesFirst
    /\ IdleInWait
    /\ TimerRunsInExplore
    /\ MotorsFollowExplore
    /\ MotorsFollowManual
    /\ NoEventLost

-----------------------------------------------------------------------------
(* The rows of the table, grouped by the state they leave. *)
LEMMA TransitionTable ==
    ASSUME NEW s, NEW e, NEW t
    PROVE  <<s, e, t>> \in Transitions <=>
             \/ s = "WAIT" /\ e = "NONE" /\ t = "WAIT"
             \/ s = "WAIT" /\ e = "COMMAND" /\ t = "MANUAL"
             \/ s = "EXPLORE" /\ e \in {"NONE", "TIMEOUT", "COMMAND", "WALL"} /\ t = "EXPLORE"
             \/ s = "EXPLORE" /\ e = "OK" /\ t = "MANUAL"
             \/ s = "STOP" /\ e \in {"TIMEOUT", "NONE", "COMMAND"} /\ t = "STOP"
             \/ s = "MANUAL" /\ e \in {"COMMAND", "NONE"} /\ t = "MANUAL"
             \/ s = "MANUAL" /\ e = "OK" /\ t = "EXPLORE"
  BY DEF Transitions

(* What the table means for the states the machine can be in. *)
LEMMA WhichTransition ==
    ASSUME NEW s \in States, NEW e \in Events, s # "STOP"
    PROVE  HasTransition(s, e) <=>
             \/ s = "EXPLORE"
             \/ s = "WAIT" /\ e \in {"NONE", "COMMAND"}
             \/ s = "MANUAL" /\ e \in {"NONE", "COMMAND", "OK"}
  BY TransitionTable DEF HasTransition, States, Events

(* A chosen move is a state of the table with a direction and a duration.  *)
LEMMA NextExploreStatesType ==
    ASSUME NEW w, NEW s \in NextExploreStates(w)
    PROVE  /\ s \in ExploreStates
           /\ MoveDir(s) \in Directions
           /\ TimerStart(MoveDuration(s)) \in TimerValues
           /\ TimerStart(MoveDuration(s)) > TIMER_PASSED
  <1>1. s \in ExploreStates
    BY DEF NextExploreStates, NextExploreState, ExploreStates
  <1>2. MoveDir(s) \in Directions
    BY <1>1 DEF ExploreStates, MoveDir, Directions
  <1>3. MoveDuration(s) \in {StraightMs, TurnMs}
    BY DEF MoveDuration
  <1> QED BY <1>1, <1>2, <1>3, DurationsAssumption
          DEF TimerStart, TimerValues, TIMER_PASSED

(* Driving is never the same as standing still. *)
LEMMA DrivingIsNotStopped ==
    ASSUME NEW d \in Directions, NEW v \in Speeds
    PROVE  DriveSet(d, v) # Stopped /\ DriveSet(d, v).dir = d
           /\ DriveSet(d, v) \in [dir : Directions, speed : Speeds]
  <1>1. d # "STOPPED"
    BY DEF Directions
  <1> QED BY <1>1 DEF DriveSet, Stopped

(* The buffers keep their type and their bound. *)
LEMMA BufferPutType ==
    ASSUME NEW S, NEW q \in Seq(S), NEW e \in S, NEW size \in Nat \ {0}, Len(q) <= size
    PROVE  /\ BufferPut(q, e, size) \in Seq(S)
           /\ Len(BufferPut(q, e, size)) <= size
  <1>1. CASE Len(q) = size
    <2>1. q # <<>> /\ Tail(q) \in Seq(S) /\ Len(Tail(q)) = size - 1
      BY <1>1
    <2> QED BY <1>1, <2>1 DEF BufferPut
  <1>2. CASE Len(q) # size
    BY <1>2 DEF BufferPut
  <1> QED BY <1>1, <1>2

LEMMA HistorySaveType ==
    ASSUME NEW h \in Seq(WallsSeen), Len(h) <= HistorySize, NEW w \in WallsSeen
    PROVE  HistorySave(h, w) \in Seq(WallsSeen) /\ Len(HistorySave(h, w)) <= HistorySize
  BY BufferPutType, SizesAssumption DEF HistorySave

(* Speed and arrow keys. *)
LEMMA KeyTypes ==
    /\ \A key \in SpeedKeys : SpeedOf(key) \in Speeds
    /\ \A key \in ArrowKeys : DirectionOf(key) \in Directions
  BY DEF SpeedKeys, SpeedOf, Speeds, ArrowKeys, DirectionOf, Directions

-----------------------------------------------------------------------------
LEMMA InitInv == Init => Inv
  <1> SUFFICES ASSUME Init
               PROVE  Inv
    OBVIOUS
  <1>1. TypeOK
    BY DurationsAssumption, SizesAssumption
    DEF Init, TypeOK, States, TimerValues, TimerStart, TIMER_CLEARED, Events, WallsSeen,
        ExploreStates, Speeds, Directions
  <1> QED BY <1>1
          DEF Init, Inv, NeverInStop, PostedGoesFirst, IdleInWait, TimerRunsInExplore,
              MotorsFollowExplore, MotorsFollowManual, NoEventLost, IsMoving,
              OkPending, Dispatching, TIMER_CLEARED

(* wall_get *)
LEMMA SenseInv == Inv /\ Sense => Inv'
  <1> SUFFICES ASSUME Inv, Sense
               PROVE  Inv'
    OBVIOUS
  <1>1. TypeOK'
    BY DEF Inv, Sense, TypeOK
  <1> QED BY <1>1
          DEF Inv, Sense, NeverInStop, PostedGoesFirst, IdleInWait, TimerRunsInExplore,
              MotorsFollowExplore, MotorsFollowManual, NoEventLost, IsMoving,
              OkPending, Dispatching

(* The choice of the event *)
LEMMA ProcessInputInv == Inv /\ ProcessInput => Inv'
  <1> SUFFICES ASSUME Inv, ProcessInput
               PROVE  Inv'
    OBVIOUS
  <1> USE DEF Inv
  <1>1. /\ pc = "input" /\ pc' = "dispatch"
        /\ UNCHANGED <<state, wall, explore, manual, motors>>
        /\ SelectEvent(cmd')
    BY DEF ProcessInput
  <1>2. /\ cmd' \in Commands \cup {"NONE"}
        /\ ir_cmd_buffer' \in Seq(Commands)
        /\ Len(ir_cmd_buffer') <= IrBufferSize
    <2>1. CASE ir_cmd_buffer = <<>>
      BY <2>1 DEF ProcessInput, TypeOK
    <2>2. CASE ir_cmd_buffer # <<>>
      <3>1. /\ Head(ir_cmd_buffer) \in Commands
            /\ Tail(ir_cmd_buffer) \in Seq(Commands)
            /\ Len(Tail(ir_cmd_buffer)) = Len(ir_cmd_buffer) - 1
        BY <2>2, HeadTailProperties DEF TypeOK
      <3>2. Len(ir_cmd_buffer) \in Nat
        BY DEF TypeOK
      <3> QED BY <2>2, <3>1, <3>2, SizesAssumption DEF ProcessInput, TypeOK
    <2> QED BY <2>1, <2>2
  <1>3. /\ input_history' \in Seq(WallsSeen)
        /\ Len(input_history') <= HistorySize
    BY HistorySaveType DEF ProcessInput, TypeOK
  <1>4. /\ next_event' \in Events
        /\ internal_event' \in {"NONE", "OK"}
        /\ timer' \in TimerValues
    BY <1>1, DurationsAssumption
    DEF SelectEvent, TakeInternalEvent, TypeOK, Events, TimerValues, TimerStart, TIMER_CLEARED
  <1>5. TypeOK'
    BY <1>1, <1>2, <1>3, <1>4 DEF TypeOK
  <1>6. PostedGoesFirst'
    BY <1>1 DEF SelectEvent, TakeInternalEvent, PostedGoesFirst
  <1>7. OkPending' <=> OkPending
    BY <1>1 DEF SelectEvent, TakeInternalEvent, OkPending, Dispatching, TypeOK
  <1>8. (timer' # TIMER_CLEARED \/ Dispatching("TIMEOUT")') <=> timer # TIMER_CLEARED
    BY <1>1 DEF SelectEvent, TakeInternalEvent, Dispatching, TypeOK,
                TimerTimeout, TIMER_CLEARED, TIMER_PASSED
  <1>9. TimerRunsInExplore'
    BY <1>1, <1>8 DEF TimerRunsInExplore, Dispatching
  <1>10. IdleInWait'
    <2>1. state = "WAIT" => timer = TIMER_CLEARED /\ timer' = TIMER_CLEARED
      BY <1>1, <1>8, <1>9 DEF TimerRunsInExplore, IdleInWait
    <2> QED BY <1>1, <1>7, <2>1 DEF IdleInWait, IsMoving
  <1>11. MotorsFollowExplore' /\ MotorsFollowManual' /\ NeverInStop'
    BY <1>1, <1>7 DEF MotorsFollowExplore, MotorsFollowManual, NeverInStop, IsMoving
  <1>12. NoEventLost'
    <2>1. state # "EXPLORE" => ~Dispatching("TIMEOUT")'
      BY <1>1, <1>9 DEF TimerRunsInExplore
    <2>2. state = "WAIT" => ~Dispatching("OK")'
      BY <1>1, <1>10 DEF IdleInWait, OkPending
    <2> SUFFICES ASSUME next_event' # "WALL"
                 PROVE  HasTransition(state', next_event')
      BY DEF NoEventLost
    <2>3. state' \in States /\ state' # "STOP"
      BY <1>1 DEF TypeOK, NeverInStop
    <2> QED BY <1>1, <1>4, <2>1, <2>2, <2>3, WhichTransition DEF Dispatching, States, Events
  <1> QED BY <1>5, <1>6, <1>9, <1>10, <1>11, <1>12

(* The transition *)
LEMMA ProcessEventInv == Inv /\ ProcessEvent => Inv'
  <1> SUFFICES ASSUME Inv, ProcessEvent
               PROVE  Inv'
    OBVIOUS
  <1> USE DEF Inv
  <1>1. /\ pc = "dispatch" /\ pc' = "sense"
        /\ ChangeState
        /\ UNCHANGED <<next_event, wall, cmd, input_history, ir_cmd_buffer>>
    BY DEF ProcessEvent
  <1>2. /\ \A to \in States : GoesTo(to) => state' = to
        /\ ~HasTransition(state, next_event) => state' = state
        /\ state' \in States
    <2>1. \A to, other \in States : GoesTo(to) /\ GoesTo(other) => to = other
      BY TransitionTable DEF GoesTo
    <2>2. HasTransition(state, next_event) <=> \E to \in States : GoesTo(to)
      BY DEF HasTransition, GoesTo
    <2>3. CASE \E to \in States : GoesTo(to) /\ state' = to
      BY <2>1, <2>2, <2>3
    <2>4. CASE ~HasTransition(state, next_event) /\ UNCHANGED state
      BY <2>2, <2>4 DEF TypeOK
    <2> QED BY <1>1, <2>3, <2>4 DEF ChangeState
  <1>3. PostedGoesFirst' /\ NoEventLost' /\ \A e : ~Dispatching(e)'
    BY <1>1 DEF PostedGoesFirst, NoEventLost, Dispatching
  <1>4. SUFFICES /\ explore' \in [state : ExploreStates, curr_speed : Speeds,
                                  handling_wall : BOOLEAN]
                 /\ manual' \in [curr_dir : Directions, curr_speed : Speeds]
                 /\ internal_event' \in {"NONE", "OK"}
                 /\ timer' \in TimerValues
                 /\ motors' \in [dir : Directions, speed : Speeds] \cup {Stopped}
                 /\ state' \in {"WAIT", "EXPLORE", "MANUAL"}
                 /\ state' = "WAIT" => /\ motors' = Stopped
                                       /\ timer' = TIMER_CLEARED
                                       /\ internal_event' # "OK"
                 /\ timer' # TIMER_CLEARED <=> state' = "EXPLORE"
                 /\ state' = "EXPLORE" => IF internal_event' = "OK" THEN motors' = Stopped
                                          ELSE motors'.dir = MoveDir(explore'.state)
                 /\ state' = "MANUAL" =>
                      motors' \in {Stopped, DriveSet(manual'.curr_dir, manual'.curr_speed)}
    BY <1>1, <1>2, <1>3, <1>4
    DEF TypeOK, NeverInStop, IdleInWait, TimerRunsInExplore, MotorsFollowExplore,
        MotorsFollowManual, OkPending, IsMoving
  <1>5. ASSUME NEW handling \in BOOLEAN, ExploreRun(handling)
        PROVE  /\ explore' \in [state : ExploreStates, curr_speed : Speeds,
                                handling_wall : BOOLEAN]
               /\ timer' \in TimerValues /\ timer' # TIMER_CLEARED
               /\ motors' \in [dir : Directions, speed : Speeds]
               /\ motors'.dir = MoveDir(explore'.state)
    <2>1. PICK s \in NextExploreStates(wall) :
            /\ explore' = [explore EXCEPT !.state = s, !.handling_wall = handling]
            /\ timer' = TimerStart(MoveDuration(s))
            /\ motors' = DriveSet(MoveDir(s), explore.curr_speed)
      BY <1>5 DEF ExploreRun
    <2>2. explore.curr_speed \in Speeds
      BY DEF TypeOK
    <2>3. /\ s \in ExploreStates /\ MoveDir(s) \in Directions
          /\ timer' \in TimerValues /\ timer' > TIMER_PASSED
      BY <2>1, NextExploreStatesType
    <2>4. /\ explore' \in [state : ExploreStates, curr_speed : Speeds,
                            handling_wall : BOOLEAN]
          /\ explore'.state = s
      BY <2>1, <2>3 DEF TypeOK
    <2>5. /\ motors' \in [dir : Directions, speed : Speeds]
          /\ motors'.dir = MoveDir(s)
      BY <2>1, <2>2, <2>3, DrivingIsNotStopped
    <2>6. timer' # TIMER_CLEARED
      BY <2>3 DEF TIMER_CLEARED, TIMER_PASSED, TimerValues
    <2> QED BY <2>3, <2>4, <2>5, <2>6
  <1>6. CASE ExploreFromManual
    <2>1. next_event = "OK" /\ state' = "EXPLORE" /\ internal_event = "NONE"
      BY <1>1, <1>2, <1>6, TransitionTable
      DEF ExploreFromManual, GoesTo, States, PostedGoesFirst, TypeOK
    <2> QED BY <1>5, <1>6, <2>1 DEF ExploreFromManual, HandlingOnEntry, TypeOK
  <1>7. CASE ExploreWall
    <2>1. state' = "EXPLORE" /\ internal_event = "NONE"
      BY <1>1, <1>2, <1>7, TransitionTable
      DEF ExploreWall, GoesTo, States, PostedGoesFirst, TypeOK
    <2>2. CASE explore.handling_wall
      BY <1>1, <1>7, <2>1, <2>2
      DEF ExploreWall, TypeOK, TimerRunsInExplore, MotorsFollowExplore, Dispatching,
          OkPending
    <2>3. CASE ~explore.handling_wall
      BY <1>5, <1>7, <2>1, <2>3 DEF ExploreWall, TypeOK
    <2> QED BY <2>2, <2>3
  <1>8. CASE ExploreTimeout
    <2>1. state' = "EXPLORE" /\ internal_event = "NONE"
      BY <1>1, <1>2, <1>8, TransitionTable
      DEF ExploreTimeout, GoesTo, States, PostedGoesFirst, TypeOK
    <2> QED BY <1>5, <1>8, <2>1 DEF ExploreTimeout, TypeOK
  <1>9. CASE ExploreCommand
    <2>1. state' = "EXPLORE"
      BY <1>2, <1>9, TransitionTable DEF ExploreCommand, GoesTo, States
    <2>2. /\ explore' \in [state : ExploreStates, curr_speed : Speeds, handling_wall : BOOLEAN]
          /\ explore'.state = explore.state
      BY <1>9, KeyTypes DEF ExploreCommand, ExploreSpeed, TypeOK
    <2>3. timer # TIMER_CLEARED /\ timer \in TimerValues
      BY <1>9 DEF ExploreCommand, TimerRunsInExplore, Dispatching, TypeOK
    <2>4. CASE cmd = "OK"
      BY <1>9, <2>1, <2>2, <2>3, <2>4 DEF ExploreCommand, PostInternalEvent, TypeOK
    <2>5. CASE cmd # "OK"
      BY <1>1, <1>9, <2>1, <2>2, <2>3, <2>5
      DEF ExploreCommand, TypeOK, MotorsFollowExplore, OkPending, Dispatching, IsMoving
    <2> QED BY <2>4, <2>5
  <1>10. CASE ManualCommand
    <2>1. state' = "MANUAL" /\ state \in {"WAIT", "MANUAL"}
      BY <1>2, <1>10, TransitionTable DEF ManualCommand, GoesTo, States
    <2>2. timer' = TIMER_CLEARED
      BY <1>1, <1>10, <2>1
      DEF ManualCommand, ClearTimerOnChange, TimerRunsInExplore, IdleInWait
    <2>3. timer' \in TimerValues
      BY <2>2, DurationsAssumption DEF TimerValues, TimerStart, TIMER_CLEARED
    <2>4. explore' \in [state : ExploreStates, curr_speed : Speeds, handling_wall : BOOLEAN]
      BY <1>10 DEF ManualCommand, TypeOK
    <2>5. CASE ManualDrive
      <3>1. manual' \in [curr_dir : Directions, curr_speed : Speeds]
        BY <2>5, KeyTypes DEF ManualDrive, TypeOK
      <3>2. motors' = DriveSet(manual'.curr_dir, manual'.curr_speed)
        BY <2>5 DEF ManualDrive
      <3> QED BY <2>1, <2>2, <2>3, <2>4, <2>5, <3>1, <3>2, DrivingIsNotStopped
              DEF ManualDrive, TypeOK
    <2>6. CASE ManualStop
      BY <2>1, <2>2, <2>3, <2>4, <2>6 DEF ManualStop, PostInternalEvent, TypeOK
    <2>7. CASE ManualIgnore
      BY <2>1, <2>2, <2>3, <2>4, <2>7
      DEF ManualIgnore, TypeOK, IdleInWait, MotorsFollowManual, IsMoving
    <2> QED BY <1>10, <2>5, <2>6, <2>7 DEF ManualCommand
  <1>11. CASE ManualFromExplore
    <2>1. state' = "MANUAL" /\ next_event = "OK"
      BY <1>2, <1>11, TransitionTable DEF ManualFromExplore, GoesTo, States
    <2>2. motors = Stopped
      BY <1>1, <1>11, <2>1
      DEF ManualFromExplore, MotorsFollowExplore, OkPending, Dispatching, IsMoving
    <2>3. timer' = TIMER_CLEARED /\ timer' \in TimerValues
      BY <1>11, DurationsAssumption
      DEF ManualFromExplore, ClearTimerOnChange, TimerValues, TimerStart, TIMER_CLEARED
    <2> QED BY <1>11, <2>1, <2>2, <2>3 DEF ManualFromExplore, TypeOK
  <1>12. CASE NothingToDo
    <2>1. state' = state /\ next_event # "TIMEOUT" /\ next_event # "OK"
      <3>1. next_event \in Events /\ state \in States /\ state # "STOP"
        BY DEF TypeOK, NeverInStop
      <3>2. next_event = "NONE" \/ ~HasTransition(state, next_event)
        BY <1>12, <3>1, TransitionTable, WhichTransition
        DEF NothingToDo, GoesTo, States, Events
      <3>3. next_event # "TIMEOUT" /\ next_event # "OK"
        BY <1>1, <3>2 DEF NoEventLost
      <3>4. next_event = "NONE" => GoesTo(state)
        BY <3>1, TransitionTable DEF GoesTo, States
      <3> QED BY <1>2, <3>1, <3>2, <3>3, <3>4
    <2> QED BY <1>1, <1>12, <2>1
            DEF NothingToDo, TypeOK, NeverInStop, States, IdleInWait, TimerRunsInExplore,
                MotorsFollowExplore, MotorsFollowManual, OkPending, Dispatching, IsMoving
  <1> QED BY <1>6, <1>7, <1>8, <1>9, <1>10, <1>11, <1>12 DEF ProcessEvent

(* The infrared interrupt *)
LEMMA IrReceiveInv == Inv /\ IrReceive => Inv'
  <1> SUFFICES ASSUME Inv, IrReceive
               PROVE  Inv'
    OBVIOUS
  <1>1. /\ ir_cmd_buffer' \in Seq(Commands)
        /\ Len(ir_cmd_buffer') <= IrBufferSize
    BY BufferPutType, SizesAssumption DEF Inv, IrReceive, TypeOK
  <1> QED BY <1>1
          DEF Inv, IrReceive, TypeOK, NeverInStop, PostedGoesFirst, IdleInWait,
              TimerRunsInExplore, MotorsFollowExplore, MotorsFollowManual, NoEventLost,
              IsMoving, OkPending, Dispatching

(* The clock *)
LEMMA TickInv == Inv /\ Tick => Inv'
  <1> SUFFICES ASSUME Inv, Tick
               PROVE  Inv'
    OBVIOUS
  <1>1. timer' \in TimerValues /\ timer # TIMER_CLEARED /\ timer' # TIMER_CLEARED
    BY DurationsAssumption
    DEF Inv, TypeOK, Tick, TimerValues, TimerStart, TIMER_CLEARED, TIMER_PASSED
  <1> QED BY <1>1
          DEF Inv, Tick, TypeOK, NeverInStop, PostedGoesFirst, IdleInWait,
              TimerRunsInExplore, MotorsFollowExplore, MotorsFollowManual, NoEventLost,
              IsMoving, OkPending, Dispatching

LEMMA StutterInv == Inv /\ UNCHANGED vars => Inv'
  BY DEF Inv, vars, TypeOK, NeverInStop, PostedGoesFirst, IdleInWait,
         TimerRunsInExplore, MotorsFollowExplore, MotorsFollowManual, NoEventLost,
         IsMoving, OkPending, Dispatching

(* Every invariant of the state machine holds in every reachable state,    *)
(* whatever keys are pressed, whatever the sensors report and whenever the *)
(* interrupts fire.                                                        *)
THEOREM InvCorrect == Spec => []Inv
  <1>1. Inv /\ [Next]_vars => Inv'
    BY SenseInv, ProcessInputInv, ProcessEventInv, IrReceiveInv, TickInv, StutterInv
    DEF Next, MainLoop
  <1> QED BY <1>1, InitInv, PTL DEF Spec

(* Type correctness. *)
THEOREM TypeCorrect == Spec => []TypeOK
  <1>1. Inv => TypeOK
    BY DEF Inv
  <1> QED BY <1>1, InvCorrect, PTL

(* In WAIT the robot stands still (state_machine.c:152-174). *)
THEOREM WaitCorrect == Spec => []IdleInWait
  <1>1. Inv => IdleInWait
    BY DEF Inv
  <1> QED BY <1>1, InvCorrect, PTL

(* The timer runs exactly while exploring (state_machine.c:96-97).         *)
THEOREM TimerCorrect == Spec => []TimerRunsInExplore
  <1>1. Inv => TimerRunsInExplore
    BY DEF Inv
  <1> QED BY <1>1, InvCorrect, PTL

(* Exploring, the motors run the decided move and stop for good on OK      *)
(* (state_explore.c:122-127, 190-192).                                     *)
THEOREM ExploreMotorsCorrect == Spec => []MotorsFollowExplore
  <1>1. Inv => MotorsFollowExplore
    BY DEF Inv
  <1> QED BY <1>1, InvCorrect, PTL

(* In MANUAL the motors do what was asked last (state_manual.c:16-63).     *)
THEOREM ManualMotorsCorrect == Spec => []MotorsFollowManual
  <1>1. Inv => MotorsFollowManual
    BY DEF Inv
  <1> QED BY <1>1, InvCorrect, PTL

(* No command, timeout or OK is dropped (state_machine.c:118-128).         *)
THEOREM EventsCorrect == Spec => []NoEventLost
  <1>1. Inv => NoEventLost
    BY DEF Inv
  <1> QED BY <1>1, InvCorrect, PTL

-----------------------------------------------------------------------------
(* Action properties. *)

(* Where a dispatched event leads. *)
LEMMA WhereTo ==
    ASSUME TypeOK, ProcessEvent
    PROVE  /\ \A to \in States : GoesTo(to) => state' = to
           /\ pc = "dispatch"
  <1>1. ChangeState /\ pc = "dispatch"
    BY DEF ProcessEvent
  <1>2. \A to, other \in States : GoesTo(to) /\ GoesTo(other) => to = other
    BY TransitionTable DEF GoesTo
  <1>3. HasTransition(state, next_event) <=> \E to \in States : GoesTo(to)
    BY DEF HasTransition, GoesTo
  <1> QED BY <1>1, <1>2, <1>3 DEF ChangeState

(* While a wall is being handled the same move goes on to its timeout      *)
(* (state_explore.c:162-175).                                              *)
THEOREM AvoidanceCorrect == Spec => AvoidanceIsFinished
  <1> DEFINE A == explore.handling_wall /\ state = "EXPLORE" /\ state' = "EXPLORE" =>
                    IF explore'.handling_wall
                    THEN explore'.state = explore.state /\ timer' <= timer
                    ELSE Dispatching("TIMEOUT")
  <1>1. Inv /\ [Next]_vars => [A]_vars
    <2> SUFFICES ASSUME Inv, [Next]_vars, explore.handling_wall,
                        state = "EXPLORE", state' = "EXPLORE"
                 PROVE  \/ explore'.handling_wall /\ explore'.state = explore.state
                           /\ timer' <= timer
                        \/ ~explore'.handling_wall /\ Dispatching("TIMEOUT")
      OBVIOUS
    <2>0. /\ TypeOK
          /\ timer \in Nat
          /\ explore \in [state : ExploreStates, curr_speed : Speeds, handling_wall : BOOLEAN]
      BY DurationsAssumption DEF Inv, TypeOK, TimerValues, TimerStart
    <2>1. CASE Sense
      BY <2>0, <2>1 DEF Sense
    <2>2. CASE ProcessInput
      <3>1. explore' = explore /\ timer' \in {timer, 0}
        BY <2>2 DEF ProcessInput, SelectEvent, TIMER_CLEARED
      <3> QED BY <2>0, <3>1
    <2>3. CASE ProcessEvent
      <3>1. pc = "dispatch" /\ (GoesTo("MANUAL") => state' = "MANUAL")
        BY <2>0, <2>3, WhereTo DEF States
      <3>2. CASE ExploreWall
        BY <2>0, <3>2 DEF ExploreWall
      <3>3. CASE ExploreTimeout
        <4>1. ~explore'.handling_wall
          BY <2>0, <3>3 DEF ExploreTimeout, ExploreRun
        <4> QED BY <3>1, <3>3, <4>1 DEF ExploreTimeout, Dispatching
      <3>4. CASE ExploreCommand
        BY <2>0, <3>4 DEF ExploreCommand, ExploreSpeed
      <3>5. CASE NothingToDo
        BY <2>0, <3>5 DEF NothingToDo
      <3> QED BY <2>3, <3>1, <3>2, <3>3, <3>4, <3>5
              DEF ProcessEvent, ExploreFromManual, ManualCommand, ManualFromExplore
    <2>4. CASE IrReceive
      BY <2>0, <2>4 DEF IrReceive
    <2>5. CASE Tick
      BY <2>0, <2>5 DEF Tick
    <2>6. CASE UNCHANGED vars
      BY <2>0, <2>6 DEF vars
    <2> QED BY <2>1, <2>2, <2>3, <2>4, <2>5, <2>6 DEF Next, MainLoop
  <1> QED BY <1>1, InvCorrect, PTL DEF Spec, AvoidanceIsFinished

(* The motors are set in motion only by a key in MANUAL or by the choice   *)
(* of a move in EXPLORE (state_manual.c:12-14).                            *)
THEOREM MotionCorrect == Spec => MotionHasCause
  <1> DEFINE A == motors' # motors /\ motors' # Stopped =>
                    \/ state' = "MANUAL" /\ cmd \in ArrowKeys \cup SpeedKeys
                    \/ /\ state' = "EXPLORE"
                       /\ timer' = TimerStart(MoveDuration(explore'.state))
  <1>1. Inv /\ [Next]_vars => [A]_vars
    <2> SUFFICES ASSUME Inv, [Next]_vars, motors' # motors, motors' # Stopped
                 PROVE  \/ state' = "MANUAL" /\ cmd \in ArrowKeys \cup SpeedKeys
                        \/ /\ state' = "EXPLORE"
                           /\ timer' = TimerStart(MoveDuration(explore'.state))
      OBVIOUS
    <2>0. TypeOK
      BY DEF Inv
    <2>1. ProcessEvent
      BY DEF Next, MainLoop, Sense, ProcessInput, IrReceive, Tick, vars
    <2>2. /\ pc = "dispatch"
          /\ \A to \in {"EXPLORE", "MANUAL"} : GoesTo(to) => state' = to
      BY <2>0, <2>1, WhereTo DEF States
    <2>3. ASSUME NEW handling \in BOOLEAN, ExploreRun(handling)
          PROVE  timer' = TimerStart(MoveDuration(explore'.state))
      BY <2>0, <2>3 DEF ExploreRun, TypeOK
    <2>4. CASE ExploreFromManual
      BY <2>0, <2>2, <2>3, <2>4 DEF ExploreFromManual, HandlingOnEntry, TypeOK
    <2>5. CASE ExploreWall
      BY <2>2, <2>3, <2>5, TransitionTable DEF ExploreWall, GoesTo
    <2>6. CASE ExploreTimeout
      BY <2>2, <2>3, <2>6, TransitionTable DEF ExploreTimeout, GoesTo
    <2>7. CASE ManualCommand
      BY <2>2, <2>7 DEF ManualCommand, ManualDrive, ManualStop, ManualIgnore
    <2> QED BY <2>1, <2>4, <2>5, <2>6, <2>7
            DEF ProcessEvent, ExploreCommand, ManualFromExplore, NothingToDo
  <1> QED BY <1>1, InvCorrect, PTL DEF Spec, MotionHasCause

-----------------------------------------------------------------------------
(* The theorems about Drive; no decision is taken by Steering here.        *)
DP == INSTANCE Steering_proofs
          WITH asked <- Asked, ranges <- <<>>, Readings <- RangesRead

-----------------------------------------------------------------------------
(* Writing registers, counting keys and fairness add nothing to what the   *)
(* state machine may do, so that all theorems about it hold of the robot.  *)
THEOREM RobotIsStateMachine == RobotSpec => Spec
  <1>1. RobotInit => Init
    BY DEF RobotInit
  <1>2. [RobotNext]_robotVars => [Next]_vars
    BY DEF RobotNext, LoopStep, WriteStep, ClockStep, KeyStep, robotVars, Next
  <1> QED BY <1>1, <1>2, PTL DEF RobotSpec, Spec

(* What the motors are asked for is a command of the drive. *)
LEMMA AskedType ==
    Inv => /\ Asked \in DP!DriveCommands
           /\ motors = Stopped <=> Asked = DP!Stop
           /\ motors # Stopped => Asked = motors
  <1> SUFFICES ASSUME Inv
               PROVE  /\ Asked \in DP!DriveCommands
                      /\ motors = Stopped <=> Asked = DP!Stop
                      /\ motors # Stopped => Asked = motors
    OBVIOUS
  <1>1. motors \in [dir : Directions, speed : Speeds] \cup {Stopped}
    BY DEF Inv, TypeOK
  <1>2. CASE motors = Stopped
    BY <1>2 DEF Asked, DP!DriveCommands, DP!Stop
  <1>3. CASE motors # Stopped
    <2>1. Asked = motors /\ motors.dir \in Directions /\ motors.speed \in Speeds
          /\ motors \in [dir : Directions, speed : Speeds]
      BY <1>1, <1>3 DEF Asked
    <2>2. Directions \subseteq DP!DriveDirections /\ Speeds = DP!DriveSpeeds
      BY DEF Directions, DP!DriveDirections, DP!LeftTurns, DP!RightTurns, Speeds,
             DP!DriveSpeeds
    <2>3. Asked # DP!Stop
      BY <2>1 DEF Directions, DP!Stop
    <2> QED BY <1>3, <2>1, <2>2, <2>3 DEF DP!DriveCommands
  <1> QED BY <1>2, <1>3

LEMMA AskedIsCommand == Inv => Asked \in DP!DriveCommands
  BY AskedType

(* The state machine calls the drive only when it is done with the command *)
(* before, and with commands it knows (state_machine.c:147-174,            *)
(* drive.c:69-127).                                                        *)
THEOREM RobotIsDrive == RobotSpec => DP!Spec
  <1>1. RobotInit => DP!Init
    BY DEF RobotInit, D!Init, DP!Init, D!Stop, DP!Stop, D!Wheels, DP!Wheels
  <1>2. Inv' /\ [RobotNext]_robotVars => [DP!Next]_DP!driveVars
    <2> SUFFICES ASSUME Inv', [RobotNext]_robotVars
                 PROVE  [DP!Next]_DP!driveVars
      OBVIOUS
    <2>1. CASE LoopStep /\ motors' # motors
      <3>1. D!Call(Asked')
        BY <2>1 DEF LoopStep, DriveCalled
      <3>2. DP!Call(Asked')
        BY <3>1
        DEF D!Call, DP!Call, D!WritesOf, DP!WritesOf, D!Stop, DP!Stop, D!ModeWrites,
            DP!ModeWrites, D!ModeOfWheel, DP!ModeOfWheel, D!GoesForward, DP!GoesForward,
            D!SpeedOfWheel, DP!SpeedOfWheel, D!PwmWrite, DP!PwmWrite, D!PinWrite, DP!PinWrite,
            D!PrimarySpeeds, DP!PrimarySpeeds, D!Primary, DP!Primary, D!IsMirrored,
            DP!IsMirrored, D!RightTurns, DP!RightTurns
      <3>3. (Asked \in DP!DriveCommands)'
        BY AskedIsCommand, PTL
      <3> QED BY <3>2, <3>3 DEF DP!Next
    <2>2. CASE WriteStep
      BY <2>2 DEF WriteStep, D!Write, DP!Write, DP!Next
    <2>3. CASE UNCHANGED <<motors, driveVars>>
      BY <2>3 DEF driveVars, DP!driveVars, Asked
    <2>4. LoopStep /\ motors' = motors => UNCHANGED <<motors, driveVars>>
      BY DEF LoopStep, DriveCalled
    <2>5. ClockStep \/ KeyStep \/ UNCHANGED robotVars => UNCHANGED <<motors, driveVars>>
      BY DEF ClockStep, KeyStep, Tick, IrReceive, robotVars, vars
    <2> QED BY <2>1, <2>2, <2>3, <2>4, <2>5 DEF RobotNext
  <1>3. RobotSpec => []Inv
    BY RobotIsStateMachine, InvCorrect, PTL
  <1> QED BY <1>1, <1>2, <1>3, PTL DEF RobotSpec, DP!Spec

-----------------------------------------------------------------------------
(* The drive's inductive invariant holds on the robot.                     *)
LEMMA DriveInvOnRobot == RobotSpec => []DP!DriveInv
  <1>1. DP!Spec => []DP!DriveInv
    BY DP!DriveInvCorrect, DurationsAssumption, RangesAssumption
  <1> QED BY <1>1, RobotIsDrive, PTL

(* The sense of a wheel, no call under way, is that of the last command.   *)
LEMMA WheelsAsAsked ==
    ASSUME Inv, DP!DriveInv, writes = <<>>
    PROVE  /\ motors = Stopped => StandsStill
           /\ motors # Stopped => Turn(motors.dir)
  <1>1. \A w \in {"LEFT", "RIGHT"} : DP!Sense(cc[w]) = DP!ModeOf(Asked, w)
    BY DP!SenseOfCommand, DurationsAssumption, RangesAssumption DEF DP!Wheels
  <1>2. \A w \in {"LEFT", "RIGHT"} : WheelTurns(w) = DP!ModeOf(Asked, w)
    BY <1>1 DEF WheelTurns, D!Sense, DP!Sense
  <1>3. CASE motors = Stopped
    BY <1>2, <1>3, AskedType DEF StandsStill, DP!ModeOf
  <1>4. CASE motors # Stopped
    <2>1. Asked = motors /\ Asked # DP!Stop
      BY <1>4, AskedType
    <2> QED BY <1>2, <1>4, <2>1 DEF Turn, DP!ModeOf, D!GoesForward, DP!GoesForward
  <1> QED BY <1>3, <1>4

(* Whenever no call is under way the wheels do what the state wants: from  *)
(* the keys and the walls, by way of the state machine, its events and its *)
(* timer, to the pins of the motor driver (state_machine.c:152-191,        *)
(* state_explore.c:122-196, state_manual.c:16-63, drive.c:69-127).         *)
THEOREM WheelsCorrect == RobotSpec => []WheelsFollowState
  <1>1. Inv /\ DP!DriveInv => WheelsFollowState
    <2> SUFFICES ASSUME Inv, DP!DriveInv, writes = <<>>
                 PROVE  WheelsFollowState
      BY DEF WheelsFollowState
    <2>1. motors = Stopped => StandsStill
      BY WheelsAsAsked
    <2>2. motors # Stopped => Turn(motors.dir)
      BY WheelsAsAsked
    <2>3. state = "WAIT" => motors = Stopped
      BY DEF Inv, IdleInWait, IsMoving
    <2>4. state = "EXPLORE" =>
             IF OkPending THEN motors = Stopped
             ELSE motors # Stopped /\ motors.dir = MoveDir(explore.state)
      <3>1. MoveDir(explore.state) # "STOPPED"
        BY DEF Inv, TypeOK, ExploreStates, MoveDir
      <3> QED BY <3>1 DEF Inv, MotorsFollowExplore, IsMoving, Stopped
    <2>5. state = "MANUAL" => motors = Stopped \/ motors.dir = manual.curr_dir
      BY DEF Inv, MotorsFollowManual, DriveSet
    <2> QED BY <2>1, <2>2, <2>3, <2>4, <2>5 DEF WheelsFollowState
  <1>2. RobotSpec => []Inv
    BY RobotIsStateMachine, InvCorrect, PTL
  <1> QED BY <1>1, <1>2, DriveInvOnRobot, PTL
=============================================================================
