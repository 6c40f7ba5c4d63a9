SPECIFICATION Spec
CONSTANTS
    liveA = liveA
    dryA = dryA
    a = a
    Campaigns = {a}
    Once = {}
    Runs = {liveA, dryA}
    CampaignOf <- LiveAndDry
    LiveRuns = {liveA}
    Groups = {g1, g2}
    Changing = {}
    Workers = {w1}
    Operators = {o1}
    Nobody = Nobody
    MaxBuffered = 2
    MaxAttempts = 1
    MaxRevision = 0
    MaxTrouble = 1
SYMMETRY AnyGroup
INVARIANTS
    TypeOK

    
CHECK_DEADLOCK FALSE
