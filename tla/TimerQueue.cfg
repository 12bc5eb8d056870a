\* Any mixture of three timers; the wall clock may be set back once.
CONSTANTS
    Timers = {i1, i2, i3}
    MaxDelay = 2
    MaxLate = 3
    MaxClockSteps = 1
SPECIFICATION FairSpec
INVARIANTS
    TypeOK
    ArmedInTime
    NoneLeftExpired
PROPERTIES
    OnlyTimerFires
