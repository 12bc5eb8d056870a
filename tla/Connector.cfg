\* Attempts, retries, hand-overs, restarts and stops on a loop with other timers.
CONSTANTS
    Fds = {1, 2, 3}
    InitRetryDelay = 2
    MaxRetryDelay = 7
    MaxStarts = 2
    MaxStops = 2
SPECIFICATION FairSpec
INVARIANTS
    TypeOK
    NoDanglingChannel
    DescriptorsOwned
    StopEndsAttempt
PROPERTIES
    
    RetriesUntilConnected
