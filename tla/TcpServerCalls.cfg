\* The whole interface, from the loop, from timers and from another thread.
CONSTANTS
    Conns = {c1}
    Pools <- OneOrNone
    HighWaterMark = 1
    MaxRequests = 2
    MaxBytes = 2
    MaxMessage = 2
    MaxCalls = 2
    AppMoves = {"stay", "shutdown", "forceClose"}
    CallerSets <- AllCallers
SPECIFICATION Spec
INVARIANTS
    StreamInOrder
    NoDanglingChannel
