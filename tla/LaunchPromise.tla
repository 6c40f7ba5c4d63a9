---------------------------- MODULE LaunchPromise ----------------------------
(***************************************************************************)
(* What a LIVE launch promises its operator, without leases, schedules,    *)
(* preflights, ticks or tables: one launch at a time, one message of it at *)
(* a time, messages only while the launch is sending, a message that was   *)
(* settled or withdrawn never again, and an end after which nothing is in  *)
(* flight. CampaignRun is shown to implement it.                           *)
(***************************************************************************)
EXTENDS Naturals

CONSTANTS
    Launches,   \* the LIVE launches
    Groups      \* whom each of them writes to

VARIABLES
    phase,      \* [Launches -> Phases]
    mail        \* [Launches -> [Groups -> Mail]]

Phases == {"absent", "preparing", "waiting", "sending", "stopping", "ended"}
Settled == {"accepted", "delivered", "failed", "unclear"}
Mail == {"none", "queued", "inFlight", "withdrawn"} \cup Settled

Init ==
    /\ phase = [l \in Launches |-> "absent"]
    /\ mail = [l \in Launches |-> [g \in Groups |-> "none"]]

Open(l, g) == mail[l][g] \in {"queued", "inFlight"}
InFlight(l) == \E g \in Groups : mail[l][g] = "inFlight"
Quiet(l) == \A g \in Groups : ~Open(l, g)
Enters(l, new) == phase' = [phase EXCEPT ![l] = new]
Becomes(l, g, new) == mail' = [mail EXCEPT ![l][g] = new] /\ UNCHANGED phase

\* A launch is accepted only when every other one has ended or was never made.
Launch(l) ==
    /\ phase[l] = "absent" /\ \A k \in Launches : phase[k] \in {"absent", "ended"}
    /\ Enters(l, "preparing") /\ UNCHANGED mail

\* Prepared, started, held, paused and resumed, in whatever order.
Moves(l) ==
    /\ phase[l] \in {"preparing", "waiting", "sending"}
    /\ \E new \in {"waiting", "sending"} : Enters(l, new)
    /\ UNCHANGED mail

\* A launch ends by itself only when none of its messages is open any more.
Ends(l) ==
    /\ phase[l] \in {"preparing", "sending"} /\ Quiet(l)
    /\ Enters(l, "ended") /\ UNCHANGED mail

\* A cancellation takes back everything that is not in flight, at once.
Cancel(l) ==
    /\ phase[l] \in {"preparing", "waiting", "sending"}
    /\ Enters(l, IF InFlight(l) THEN "stopping" ELSE "ended")
    /\ mail' = [mail EXCEPT ![l] = [g \in Groups |-> IF @[g] = "queued" THEN "withdrawn" ELSE @[g]]]

Stopped(l) == phase[l] = "stopping" /\ ~InFlight(l) /\ Enters(l, "ended") /\ UNCHANGED mail

Queue(l, g) == phase[l] = "sending" /\ Quiet(l) /\ mail[l][g] = "none" /\ Becomes(l, g, "queued")
Send(l, g) == phase[l] = "sending" /\ mail[l][g] = "queued" /\ Becomes(l, g, "inFlight")
PutBack(l, g) == mail[l][g] = "inFlight" /\ Becomes(l, g, "queued")
Answer(l, g) == mail[l][g] = "inFlight" /\ \E new \in {"accepted", "failed", "unclear"} : Becomes(l, g, new)
\* Evidence improves on what is accepted or unclear, at any time; nothing improves on the rest.
Evidence(l, g) ==
    mail[l][g] \in {"accepted", "unclear"} /\ \E new \in {"accepted", "delivered", "failed"} : Becomes(l, g, new)
\* Its worker fails before it asks OpenWA.
GivenUp(l, g) == mail[l][g] = "queued" /\ Becomes(l, g, "failed")

Next ==
    \E l \in Launches :
        \/ Launch(l) \/ Moves(l) \/ Ends(l) \/ Cancel(l) \/ Stopped(l)
        \/ \E g \in Groups : \/ Queue(l, g) \/ Send(l, g) \/ PutBack(l, g) \/ GivenUp(l, g)
                             \/ Answer(l, g) \/ Evidence(l, g)

Spec == Init /\ [][Next]_<<phase, mail>>

\* Nothing is prepared or sends for ever, and what is being stopped stops.
Progress ==
    \A l \in Launches :
        /\ phase[l] = "preparing" ~> phase[l] # "preparing"
        /\ phase[l] = "sending" ~> phase[l] # "sending"
        /\ phase[l] = "stopping" ~> phase[l] = "ended"

\* What a launch promises.
Kept == Spec /\ Progress
=============================================================================
