SPECIFICATION PointInTimeSpec
CONSTANTS
    Date <- Days
    Period <- Periods
    PeriodType = {"FY", "FQ"}
    MaxFiles = 2
CHECK_DEADLOCK FALSE
INVARIANTS
    NewestPeriodWins
PROPERTY PastIsClosed
