CONSTANTS
    Code = {c1, c2}
    MaxStarts = 2
    MaxPresses = 5
SPECIFICATION Spec
INVARIANTS
    TypeOK
    SourceReleased
    ConnectedIsOn
    ShownIsPublished
CHECK_DEADLOCK FALSE
