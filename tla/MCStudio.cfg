CONSTANTS
    None = None
    Camera = {camA, camB}
    MaxJoins = 2
    MaxPresses = 6
SPECIFICATION MCSpec
SYMMETRY Symmetry
INVARIANTS
    TypeOK
    StudioShowsProgram
    LastCutWins
    OffAirUnlessLive
    NoCutOfferedWhenShown
    NoRoomLeftOpen
CHECK_DEADLOCK FALSE
