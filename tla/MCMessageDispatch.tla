------------------------- MODULE MCMessageDispatch -------------------------
(***************************************************************************)
(* Instances of MessageDispatch for TLC. In OneOpenSpec all jobs but one    *)
(* have ended in FAILED before their request, a state Spec reaches by       *)
(* ClaimDue, MarkProcessing, Fail and Complete.                             *)
(***************************************************************************)
EXTENDS MessageDispatch

CONSTANTS w1, w2, t1, t2, t3, j1, j2

TwoWorkers == {w1, w2}

OneWorker == {w1}

TwoTokens == {t1, t2}

ThreeTokens == {t1, t2, t3}

InitOneOpen ==
    /\ \E open \in Jobs :
          job = [j \in Jobs |->
                    [status |-> IF j = open THEN "SCHEDULED" ELSE "FAILED", cancel |-> FALSE,
                     started |-> FALSE, lease |-> "none", token |-> NoToken, attempts |-> 0]]
    /\ queue = [j \in Jobs |-> NoRow]
    /\ publishing = {} /\ lane = NoLane /\ run = "RUNNING"
    /\ worker = [w \in Workers |-> Idle]
    /\ wire = {} /\ effects = {}

OneOpenSpec == InitOneOpen /\ [][Next]_vars /\ Fairness
=============================================================================
