SPECIFICATION MCSpec
CONSTANTS
    deposit = deposit
    Null = Null
    Torn = Torn
    Flows = {deposit}
    Amount <- MCAmount
    MonthLength = 2
    Window = 1
    MaxTime = 3
    MaxRuns = 2
    MaxFaults = 1
    Missing = Missing
    Half = Half
    DayLength = 2
    Retention = 3
    Limit = 2
    LastTick = 5
    MaxReviews = 3
    MaxStops = 1
INVARIANTS
    PnlIsFlowNeutral
    SummaryHasSnapshot
    RecentReviewsAreListed
PROPERTIES
    CashflowsAreImmutable
CHECK_DEADLOCK FALSE
