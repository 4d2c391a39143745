CONSTANTS
    Payers = {p1, p2}
    Charges = {c1}
    Limit = 3
    Ceiling = 2
    MaxDays = 2
    MaxCrashes = 1
SPECIFICATION SafeSpec
SYMMETRY PayersAreAlike
INVARIANTS
    CapHoldsUnlessOverlap
    OvershootIsBounded
    CounterCoversReleased
    RestartRemembers
