CONSTANTS
    sndA = sndA
    sndB = sndB
    trkA = trkA
    trkB = trkB
    trkA2 = trkA2
    None = None
    Sender = {sndA, sndB}
    Track = {trkA, trkB}
    Owner <- OneEach
    SeqMod = 3
    TsMod = 4
    FirstTs = {0, 3}
    MaxAdvance = 1
    MaxNumbered = 4
SPECIFICATION Spec
INVARIANTS TypeOK NumbersContiguous TrackOrder TimestampsContinuous
