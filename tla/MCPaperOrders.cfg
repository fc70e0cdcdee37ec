CONSTANTS
    PreviewId = {p1, p2}
    Call = {c1, c2}
    MaxBatch = 2
    TTL = 1
    MaxClock = 2
    MaxRestarts = 1
SPECIFICATION FairSpec
INVARIANTS AtMostOnce ReceiptsTruthful
PROPERTIES PreviewKeptUntilPlaced CallReturns ImplementsOrderApproval
CHECK_DEADLOCK FALSE
