\* A request that comes in two messages.
CONSTANTS
    Methods = {"GET"}
    BodyLength = 2
    Fragments = TRUE
    MaxRequests = 1
SPECIFICATION Spec
CHECK_DEADLOCK FALSE
INVARIANTS
    IncompleteIsContinued
