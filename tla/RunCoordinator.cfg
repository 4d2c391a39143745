CONSTANTS
    Callers = {c1, c2, c3, c4}
SPECIFICATION Spec
INVARIANTS
    MutualExclusion
    LockedIffHeld
    QueueIsExact
PROPERTIES
    NoBarging
    EveryWaiterRuns
    ImplementsFifoLock
