\* Two timers: the timerfd is not set again for the later one.
CONSTANTS
    Timers = {i1, i2}
    MaxDelay = 2
    MaxLate = 1
    MaxClockSteps = 0
SPECIFICATION FairSpec
PROPERTIES
    TimersFire
