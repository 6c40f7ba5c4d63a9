--------------------------- MODULE MCGatewaySync ---------------------------
(* Instances of GatewaySync for TLC. *)
EXTENDS GatewaySync, TLC

CONSTANTS w1, w2, g1, g2

OneWorker == {w1}

TwoWorkers == {w1, w2}

OneGroup == {g1}

TwoGroups == {g1, g2}

\* Workers are interchangeable, and so are groups.
Symmetry == Permutations(TwoWorkers) \cup Permutations(TwoGroups)
=============================================================================
