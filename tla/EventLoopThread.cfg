\* An io thread from start to destruction, its loop called by its owner, by
\* another thread and by callbacks and functors.
CONSTANTS
    Threads = {t1, t2}
    Owner = t1
    Functors = {f1, f2, f3}
SPECIFICATION ThreadFairSpec
INVARIANTS
    ThreadTypeOK
    NoThreadLeftBehind
    NoLostWeakup
PROPERTIES
    JoinReturns
    ImplementsFunctorQueue
    BatchFixedAtSwap
    FunctorsAreRun
    QuitStopsRunningLoop
