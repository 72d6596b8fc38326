CONSTANTS
    Commands = {"OK", "UP", "1"}
    RangesRead = {300, 700}
    IrBufferSize = 1
    HistorySize = 1
    StraightMs = 0
    TurnMs = 0
    MaxKeys = 3
SPECIFICATION RobotSpec
INVARIANT WheelsFollowState
PROPERTIES OkTakesEffect MovesEnd
