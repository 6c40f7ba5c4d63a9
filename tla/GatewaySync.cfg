SPECIFICATION Spec
CONSTANTS
    w1 = w1
    w2 = w2
    g1 = g1
    g2 = g2
    Nobody = Nobody
    NoGroup = NoGroup
    Workers <- TwoWorkers
    Groups <- OneGroup
    MaxVersion = 2
    RunAttempts = 2
    ItemAttempts = 2
    MinBaseline = 1
    Confirmations = 2
    MaxRuns = 2
    MaxRefreshes = 0
    MaxDeferrals = 0
    MaxGlitches = 1
SYMMETRY Symmetry
CHECK_DEADLOCK FALSE
INVARIANTS
    TypeOK
    CompletedCovers
    BadListClosesNothing
PROPERTIES
    DetailsNeverRegress
