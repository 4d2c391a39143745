CONSTANTS
    Null = Null
    algo = algo
    usdc = usdc
    lp = lp
    farm = farm
    k1 = k1
    k2 = k2
    row1 = row1
    row2 = row2
    Native = algo
    Torn = Torn
    Calls <- MCCalls
    Desk <- MCDesk
    MaxAmount = 2
    MaxCalls = 3
    MaxCrashes = 1
SPECIFICATION Spec
INVARIANTS
    ConfirmedMeansLanded
    LandedIsReported
    EscrowIsSafe
    DepositIsCovered
    QuotedWithinSpendable
    ClaimsAsPlanned
