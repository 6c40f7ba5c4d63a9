-------------------------- MODULE MCEventPipeline --------------------------
(* Instances of EventPipeline for TLC. *)
EXTENDS EventPipeline, TLC

CONSTANTS e1, e2, w1, w2

OneEvent == {e1}

TwoEvents == {e1, e2}

OneWorker == {w1}

TwoWorkers == {w1, w2}

\* Events are interchangeable, and so are workers.
Symmetry == Permutations(TwoEvents) \cup Permutations(TwoWorkers)
=============================================================================
