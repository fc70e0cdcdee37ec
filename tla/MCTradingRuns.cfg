SPECIFICATION RunsSpec
CONSTANTS
    a = a
    b = b
    p = p
    q = q
    None = None
    Runner = {p, q}
    Ticker = {a, b}
    LastDay = 2
    Config <- Configs
    InitialLogs <- Logs
    HoldingDays = 1
    MaxEntries = 1
    RecursionLimit = 14
    MaxRuns = 2
    MaxFailures = 1
SYMMETRY Alike
CHECK_DEADLOCK FALSE
INVARIANTS
    AgendaIsFollowed
    LessonsAreKnown
    LogKeepsDecisions
