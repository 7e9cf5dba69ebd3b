CONSTANTS
    Camera = {camA, camB}
    None = None
    Full = 4
    Least = 1
    NewX = 2
    NewWidth = 1
    MaxPresses = 5
SPECIFICATION Spec
INVARIANTS
    TypeOK
    EditorShowsSelected
    EditsKept
    LayersStacked
    PreviewIsSource
    ChangesCanBeCut
SYMMETRY Symmetry
CHECK_DEADLOCK FALSE
