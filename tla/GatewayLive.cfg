SPECIFICATION FairSpec
CONSTANTS
    w1 = w1
    w2 = w2
    g1 = g1
    g2 = g2
    Nobody = Nobody
    NoGroup = NoGroup
    Workers <- OneWorker
    Groups <- OneGroup
    MaxVersion = 1
    RunAttempts = 2
    ItemAttempts = 2
    MinBaseline = 1
    Confirmations = 2
    MaxRuns = 2
    MaxRefreshes = 1
    MaxDeferrals = 1
    MaxGlitches = 1
CHECK_DEADLOCK FALSE
PROPERTIES
    WorkEnds
