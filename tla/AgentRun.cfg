CONSTANTS
    c1 = c1
    c2 = c2
    Runners <- MCRunners
    Crews <- MCCrews
    Slots <- MCSlots
    MaxFaults = 2
    MaxDeaths = 1
    MaxToolCalls = 2
    MaxTurn = 2
    MaxSearches = 1
    MaxPages = 1
SPECIFICATION Spec
CHECK_DEADLOCK FALSE
INVARIANTS
    KnownFaultsAreSurvived
    SecondPaymentNeedsFault
    ChargesAreReported
PROPERTY
    EveryRunEnds
