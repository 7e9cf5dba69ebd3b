CONSTANTS
    camA = camA
    camB = camB
    trkA = trkA
    trkB = trkB
    trkA2 = trkA2
    None = None
    Camera = {camA, camB}
    Track = {trkA, trkB}
    Owner <- OneEach
    MixTrack = {}
    MaxSelect = 3
    RetryTicks = 1
    MaxLost = 0
SPECIFICATION Spec
INVARIANT CutStartsWithKeyframe
