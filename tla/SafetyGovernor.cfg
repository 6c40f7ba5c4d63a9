\* One session with two permits. Two failures in a row open a circuit, of one kind.
SPECIFICATION FairSpec
CONSTANTS
    p1 = p1
    p2 = p2
    s1 = s1
    s2 = s2
    Shared = Shared
    NoSession = NoSession
    Nobody = Nobody
    Stale = Stale
    Sessions <- OneSession
    Permits <- TwoPermits
    Failures <- OneFailure
    TripAt = 2
INVARIANTS
    OneProbe
    OutcomesCountOnce
PROPERTIES
    HalfOpenEnds
