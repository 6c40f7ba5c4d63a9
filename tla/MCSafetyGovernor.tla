-------------------------- MODULE MCSafetyGovernor --------------------------
(* Instances of SafetyGovernor for TLC. *)
EXTENDS SafetyGovernor

CONSTANTS p1, p2, s1, s2

OneSession == {s1}

TwoSessions == {s1, s2}

TwoPermits == {p1, p2}

OneFailure == {"TRANSIENT_FAILURE"}

BothFailures == {"TRANSIENT_FAILURE", "AMBIGUOUS"}
=============================================================================
