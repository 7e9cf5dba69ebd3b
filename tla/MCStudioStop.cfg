CONSTANTS
    None = None
    Camera = {camA, camB}
    MaxJoins = 1
    MaxPresses = 4
SPECIFICATION Spec
SYMMETRY Symmetry
INVARIANT StopTakesOffAir
CHECK_DEADLOCK FALSE
