CONSTANTS
    Job = {research, backtest, operation}
    Inline = {operation}
    MaxReports = 1
    MaxFaults = 1
    MaxRestarts = 1
SPECIFICATION JobsSpec
INVARIANTS SucceededHasResult NoSilentDeath
PROPERTIES ImplementsJobContract EveryJobSettles
CHECK_DEADLOCK FALSE
