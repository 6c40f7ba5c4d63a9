SPECIFICATION OneOpenSpec
CONSTANTS
    w1 = w1
    w2 = w2
    t1 = t1
    t2 = t2
    t3 = t3
    j1 = j1
    j2 = j2
    NoJob = NoJob
    Nobody = Nobody
    NoToken = NoToken
    Workers <- OneWorker
    Tokens <- TwoTokens
    Jobs = {j1, j2}
    DryRuns = {j2}
    RunJobs = {j1}
    MaxSafeAttempts = 2
CHECK_DEADLOCK FALSE
INVARIANTS
    TypeOK
    OneMessage
    AcceptedSent
PROPERTIES
    EndedStays
    LaneReopens
