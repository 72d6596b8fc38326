CONSTANTS
    Commands = {"OK", "LEFT", "1"}
    RangesRead = {300, 700}
    IrBufferSize = 2
    HistorySize = 1
    StraightMs = 0
    TurnMs = 1
SPECIFICATION Spec
INVARIANTS TypeOK TimerRunsInExplore MotorsFollowExplore
    MotorsFollowManual NoEventLost
PROPERTY AvoidanceIsFinished
