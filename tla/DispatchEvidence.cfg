SPECIFICATION Spec
CONSTANTS
    d1 = d1
    d2 = d2
    NoLease = NoLease
    Dispatchers <- TwoDispatchers
    MaxIngressAttempts = 2
    MaxAttempts = 1
    MaxAcks = 3
CHECK_DEADLOCK FALSE
SYMMETRY DispatcherSymmetry
INVARIANTS
    SubmissionsCounted
    
PROPERTIES
    TransportNeverRegresses
