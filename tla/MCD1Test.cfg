CONSTANTS
    MaxStarts = 3
    MaxPresses = 4
SPECIFICATION Spec
INVARIANTS
    TypeOK
    SessionsHeld
    ScreenIsTrue
CHECK_DEADLOCK FALSE
