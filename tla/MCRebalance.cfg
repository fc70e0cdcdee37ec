CONSTANTS
    a = a
    b = b
    c = c
    Ticker = {a, b, c}
    Sector <- Sectors
    NameLimit = 4
    HalfLimit = 2
    Budget = 5
    Band = 3
    MinTrade = 2
    Holding <- Values
    MaxRounds = 1
SPECIFICATION RebalanceSpec
INVARIANTS PlanFitsBudget LimitsAreKept ReversalNeedsAReason
CHECK_DEADLOCK FALSE
