SPECIFICATION FairSpec
CONSTANTS
    e1 = e1
    e2 = e2
    w1 = w1
    w2 = w2
    Nobody = Nobody
    Events <- OneEvent
    Workers <- OneWorker
    Compaction = {TRUE, FALSE}
    MaxDeliveries = 2
    MaxAttempts = 2
    InboxCapacity = 1
    SpoolCapacity = 1
    MaxSequence = 2
    MaxGenerations = 2
    MaxRivals = 1
    MaxFaults = 1
INVARIANTS
    TypeOK
    LedgersMatch
    ReadyMeansCaughtUp
    ProjectedOnce
PROPERTIES
    AckedByOwner
    SpoolSettles
    RecoveryEnds
CHECK_DEADLOCK FALSE
