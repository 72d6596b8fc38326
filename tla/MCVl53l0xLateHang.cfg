CONSTANTS
    SPAD_ROW_SIZE = 3
    SPAD_MAP_ROW_COUNT = 2
    SPAD_MAX_COUNT = 5
    SPAD_APERTURE_START_INDEX = 2
    MaxFaults = 1
    MaxRounds = 2
SPECIFICATION FairSpec
PROPERTY CallReturnsOnceConfigured
