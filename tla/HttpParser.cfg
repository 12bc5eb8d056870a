\* Messages of one or more whole requests.
CONSTANTS
    Methods = {"GET", "GET404", "GET500", "HEAD", "POST"}
    BodyLength = 2
    Fragments = FALSE
    MaxRequests = 3
SPECIFICATION Spec
CHECK_DEADLOCK FALSE
INVARIANTS
    TypeOK
    AnsweredInOrder
    ShutAsAnnounced
