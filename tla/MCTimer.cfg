CONSTANTS
    Word = 4
    Timeouts = {1, 3}
    MaxTime = 40
SPECIFICATION Spec
INVARIANT NeverEarly
PROPERTY OnTime
