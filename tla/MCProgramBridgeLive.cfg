CONSTANTS
    camA = camA
    camB = camB
    trkA = trkA
    trkB = trkB
    trkA2 = trkA2
    None = None
    Camera = {camA, camB}
    Track = {trkA}
    Owner <- OneEachA
    MixTrack = {mix1}
    MaxSelect = 2
    RetryTicks = 3
    MaxLost = 1
SPECIFICATION FairSpec
INVARIANT MuteFollowsStarted
PROPERTY CutCompletes
