\* The calls the HTTP server makes, one connection in depth, on the base
\* loop or on an io loop.
CONSTANTS
    Conns = {c1}
    Pools <- OneOrNone
    HighWaterMark = 1
    MaxRequests = 2
    MaxBytes = 3
    MaxMessage = 2
    MaxCalls = 0
    AppMoves = {"stay", "shutdown"}
    CallerSets <- HttpCallers
SPECIFICATION FairSpec
INVARIANTS
    TypeOK
    ClosedOnce
    ClosedStaysClosed
    NoUseAfterDestroy
    FinAfterData
    PausedIsResumed
PROPERTIES
    ResetIsCleanedUp
    ShutdownCompletes
