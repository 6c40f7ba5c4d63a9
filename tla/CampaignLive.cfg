SPECIFICATION FairSpec
CONSTANTS
    liveA = liveA
    dryA = dryA
    a = a
    Campaigns = {a}
    Once = {a}
    Runs = {liveA}
    CampaignOf <- JustLive
    LiveRuns = {liveA}
    Groups = {g1}
    Changing = {g1}
    Workers = {w1}
    Operators = {o1}
    Nobody = Nobody
    MaxBuffered = 2
    MaxAttempts = 2
    MaxRevision = 1
    MaxTrouble = 1
INVARIANTS
    NoLifecycleDrift
    
PROPERTIES
    StartsInItsWindow
    
    KeepsPromise
CHECK_DEADLOCK FALSE
