CONSTANTS
    SPAD_ROW_SIZE = 3
    SPAD_MAP_ROW_COUNT = 2
    SPAD_MAX_COUNT = 5
    SPAD_APERTURE_START_INDEX = 2
    MaxFaults = 2
    MaxRounds = 4
    MaxResets = 1
SPECIFICATION StartupSpec
INVARIANTS StartupTypeOK ValuesOfOneRound StartedWhenIdle SpadsAsCalibrated OneSensorAnswers MotorsReady
PROPERTIES FreshRoundsInOrder FreshForever StartsUp
