CONSTANTS
    r1 = r1
    r2 = r2
    c1 = c1
    c2 = c2
    None = None
    Run = {r1, r2}
    Call = {c1, c2}
    Config <- Configs
    Today = 2
    Asked = {1, 2}
    MaxStaleDays = 1
    LookBack = 1
    TTL = 0
    MaxTime = 1
    MaxTurns = 1
    Apart = TRUE
    KeySets <- Keys
    MaxStops = 1
SPECIFICATION VendorsSpec
INVARIANTS VerdictIsJustified VendorsAreChosen BarsAreDue
SYMMETRY Alike
CHECK_DEADLOCK FALSE
