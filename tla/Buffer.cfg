\* Every operation, as long as makeSpace need not move bytes.
CONSTANTS
    CheapPrepend = 2
    InitialSize = 3
    ExtraSize = 3
    Kinds = {"int8", "int16", "int32"}
    Compaction = FALSE
    MaxBytes = 5
    MaxChunk = 4
SPECIFICATION Spec
CHECK_DEADLOCK FALSE
INVARIANTS
    TypeOK
PROPERTIES
    ImplementsByteQueue
