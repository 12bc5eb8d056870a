\* Full buffers, backlogs, rolled files, a full disk, a stop and a FATAL line.
CONSTANTS
    SmallBuffer = 160
    MaxNumericSize = 32
    Numbers <- MCNumbers
    Statements <- MCStatements
    LargeBuffer = 240
    MaxBuffersToWriteSize = 2
    RollSize = 250
    CheckEveryN = 3
    MaxLines = 7
    MaxFaults = 1
SPECIFICATION FairSpec
INVARIANTS
    TypeOK
    LinesLegible
    LinesConserved
    StopWritesSwapped
    SpareBuffersReady
PROPERTIES
    LinesReachDisk
    StopReturns
