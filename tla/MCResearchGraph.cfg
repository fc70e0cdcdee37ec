CONSTANTS
    r1 = r1
    r2 = r2
    m1 = m1
    m2 = m2
    Variants <- Pairs
    Run = {r1, r2}
    Analyst = {fundamental}
    SupportingModel = {m1, m2}
    MaxFingerprint = 1
    None = None
SPECIFICATION ResearchSpec
INVARIANTS DivergenceNeedsRace ProvenanceUnlessRaced VerdictIsComplete
SYMMETRY Alike
CHECK_DEADLOCK FALSE
