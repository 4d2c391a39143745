CONSTANTS
    Null = Null
    algo = algo
    usdc = usdc
    lst = lst
    xalgo = xalgo
    lend = lend
    pool = pool
    stake = stake
    dual = dual
    farm = farm
    plain = plain
    debt = debt
    hot = hot
    Plans <- MCPlans
    Desk <- MCDesk
    Positions <- MCPositions
    Starts <- MCStarts
    Catalogs <- MCCatalogs
    Preparations = {"prepare"}
    Liquid = {algo}
    XAlgo = xalgo
    Cash = {algo, usdc}
    MaxWaves = 5
    MaxRuns = 2
    MaxLate = 1
SPECIFICATION Spec
CHECK_DEADLOCK FALSE
INVARIANTS
    EachActionOnce
    DependentsWait
    StatusTellsTruth
    FlatMeansFlat
    StuckHasCause
PROPERTY
    NeverForfeits
