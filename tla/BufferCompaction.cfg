\* makeSpace moves the readable bytes to the front.
CONSTANTS
    CheapPrepend = 2
    InitialSize = 3
    ExtraSize = 3
    Kinds = {"int8"}
    Compaction = TRUE
    MaxBytes = 8
    MaxChunk = 4
SPECIFICATION Spec
CHECK_DEADLOCK FALSE
PROPERTIES
    SpaceKeepsReadable
