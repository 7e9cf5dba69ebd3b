CONSTANTS
    sndA = sndA
    sndB = sndB
    trkA = trkA
    trkB = trkB
    trkA2 = trkA2
    None = None
    Sender = {sndA}
    Track = {trkA, trkA2}
    Owner <- Reconnecting
    SeqMod = 3
    TsMod = 4
    FirstTs = {0, 3}
    MaxAdvance = 1
    MaxNumbered = 4
SPECIFICATION Spec
INVARIANT ClockSurvivesReconnect
