-------------------------- MODULE MCConnectorPlugin --------------------------
(* Instances of ConnectorPlugin for TLC.                                   *)
EXTENDS ConnectorPlugin

CONSTANTS c1, c2

\* One command of the first binding generation; or a second of the next one.
GenFirst == [c \in Commands |-> 1]
GenBoth  == [c \in Commands |-> IF c = c1 THEN 1 ELSE 2]
=============================================================================
