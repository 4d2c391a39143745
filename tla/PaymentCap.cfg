CONSTANTS
    Payers = {p1, p2}
    Charges = {}
    Limit = 3
    Ceiling = 2
    MaxDays = 1
    MaxCrashes = 0
SPECIFICATION SafeSpec
INVARIANTS
    DailyCap
