CONSTANTS
    MaxJoins = 2
    MaxPresses = 6
SPECIFICATION Spec
INVARIANTS
    TypeOK
    ProgramIsHeard
    SilentOffAir
    AdaptorsHeld
CHECK_DEADLOCK FALSE
