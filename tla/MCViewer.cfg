CONSTANT
    MaxPresses = 5
SPECIFICATION Spec
INVARIANTS
    TypeOK
    ShowsProgramTrack
    SoundMatchesButton
    SceneIsProgram
    SceneIsOfChannel
    NoRoomLeftOpen
CHECK_DEADLOCK FALSE
