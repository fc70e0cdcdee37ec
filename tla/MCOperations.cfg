CONSTANTS
    Op = {o1, o2}
    Case = {c1, c2}
    Parallel = 1
    Point <- Points
    WeeklyCap = 1
    MonthlyCap = 2
    Date <- Dates
    Initial <- DeployedBefore
    Earlier = Earlier
    NoRow = NoRow
SPECIFICATION OpsSpec
INVARIANTS OneRowPerRun WeeklyStartsFromDeployed WhatFailuresLeave
PROPERTIES CutoffNeverFalls CapHoldsWithoutOverlap EveryOperationEnds
CHECK_DEADLOCK FALSE
