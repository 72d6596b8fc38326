CONSTANTS
    RetryCount = 2
    MaxBytes = 3
SPECIFICATION Spec
INVARIANTS TransfersAreComplete SuccessFreesBus
PROPERTIES CallReturns ReturnsInTime
CHECK_DEADLOCK FALSE
