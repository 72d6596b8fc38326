CONSTANTS
    RetryCount = 2
    MaxBytes = 2
SPECIFICATION Spec
INVARIANT OkMeansRead
CHECK_DEADLOCK FALSE
