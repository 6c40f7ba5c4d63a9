CONSTANTS
    c1 = c1
    c2 = c2
    Commands = {c1, c2}
    Images = {}
    CommandGen <- GenBoth
    MaxGen = 2
    MaxRetained = 2
    Capacity = 1
    Acks = {"sent", "read"}
    MaxCrashes = 1
    MaxDisables = 1
SPECIFICATION Spec
INVARIANTS
    TypeOK
    SentOnceUnlessRecovered
    RejectedTextNeverSent
    EvidenceInOrder
    OneOutcomeReported
PROPERTY EvidenceNeverLost
CHECK_DEADLOCK FALSE
