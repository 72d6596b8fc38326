CONSTANTS
    Readings = {499, 599, 600}
    StraightMs = 2800
    TurnMs = 2850
SPECIFICATION SteeringSpec
INVARIANTS DoesAsAsked NoStrayDirection TurnsAway
