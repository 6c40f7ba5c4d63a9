------------------------ MODULE MCConnectorDispatch ------------------------
(* Instances of ConnectorDispatch for TLC. *)
EXTENDS ConnectorDispatch, TLC

CONSTANTS d1, d2

TwoDispatchers == {d1, d2}

OneDispatcher == {d1}

\* Dispatchers are interchangeable.
DispatcherSymmetry == Permutations(TwoDispatchers)
=============================================================================
