SPECIFICATION FairSpec
CONSTANTS
    d1 = d1
    d2 = d2
    NoLease = NoLease
    Dispatchers <- OneDispatcher
    MaxIngressAttempts = 2
    MaxAttempts = 2
    MaxAcks = 0
CHECK_DEADLOCK FALSE
INVARIANTS
    EarlierAttemptsClosed
    EvidenceDiesOnlyAfterSafeRejection
PROPERTIES
    LaneFrees
