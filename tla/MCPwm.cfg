CONSTANTS
    TimerRange = 2000
    Unit = 100
    MaxLatency = 100
SPECIFICATION Spec
INVARIANT NoCompareMissed
PROPERTIES PhasesAsTable PulsesGoOn
