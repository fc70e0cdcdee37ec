SPECIFICATION WalkForwardSpec
CONSTANTS
    MonthLength = 2
    MonthsPerYear = 2
    Horizon = 9
    Start = 3
    End = 7
    TailDays = 2
    HistoryMonths = 2
    MinTraining = 1
    MaxImports = 1
CHECK_DEADLOCK FALSE
INVARIANTS
    WalkForwardOrder
    HoldingPeriodsTile
    FrozenInputs
    SelectionOfTheYear
