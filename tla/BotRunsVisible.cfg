CONSTANTS
    cronReview = cronReview
    httpReview = httpReview
    cronAccounting = cronAccounting
    httpAccounting = httpAccounting
    unwind1 = unwind1
    Reviews <- MCReviews
    Accountings <- MCAccountings
    Unwinds <- MCUnwinds
    CanWait <- MCCanWait
    MaxActions = 2
    MaxWaves = 2
    MaxRuns = 4
SPECIFICATION SafeSpec
PROPERTIES
    SnapshotStaysVisible
