CONSTANTS
    MaxUpdates = 3
    MaxCrashes = 2
    BatchLimit = 2
SPECIFICATION Spec
INVARIANTS
    AtMostOnce
    SwitchIsAccountedFor
PROPERTIES
    NoReplayAfterDrain
    NoCommandSkipped
    EveryUpdateConsumed
