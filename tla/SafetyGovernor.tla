--------------------------- MODULE SafetyGovernor ---------------------------
(***************************************************************************)
(* The OpenWA safety governor of one upstream: the circuits of its scopes, *)
(* the permits of messages and operations, the lane of a session and the   *)
(* recovery lease that lets one request probe a half-open scope.           *)
(*   integrations/openwa/safety/openwa-safety.repository.ts                *)
(*   integrations/openwa/openwa.client.ts: the permit of an operation      *)
(*   modules/messages/message-job-processor.service.ts: that of a message  *)
(* A reservation and an outcome lock the rows of their scopes, and so each *)
(* is one step. Buckets, rate modes and streaks of successes only delay;   *)
(* they are left out. A clock is a lease or a cooldown that ends at any    *)
(* moment.                                                                 *)
(***************************************************************************)
EXTENDS Naturals, Sequences

CONSTANTS
    Shared,     \* the WORKSPACE and UPSTREAM rows, whose circuits always move together
    Sessions,   \* SESSION rows
    Permits,    \* permit tokens; one that is not heard of again stands for a new one
    NoSession,  \* session_id = '' of an operation
    Nobody,     \* no lease row
    Stale,      \* the row of a permit that is not heard of again
    Failures,   \* bound: the failures that occur, each with a streak of its own
    TripAt      \* consecutive failures that open a circuit

ASSUME GovernorAssumption ==
    /\ Shared \notin Sessions /\ NoSession \notin Sessions
    /\ {Nobody, Stale} \cap Permits = {} /\ Nobody # Stale
    /\ Failures \subseteq {"AMBIGUOUS", "TRANSIENT_FAILURE"}
    /\ TripAt \in Nat \ {0}

VARIABLES
    scope,      \* circuit_state, cooldown_until > now(), manual_blocked_at of a scope
    streak,     \* its consecutive ambiguous and transient outcomes
    paused,     \* sessions with outbound_paused_at
    lane,       \* ACTIVE_SESSION rows of openwa_safety_leases; a stale one, taken over alike, is none
    recovery,   \* RECOVERY rows
    permit      \* what became of each permit

vars == <<scope, streak, paused, lane, recovery, permit>>

-----------------------------------------------------------------------------
Scopes == Sessions \cup {Shared}
ScopeRecord == [circuit : {"CLOSED", "OPEN", "HALF_OPEN"}, cooling : BOOLEAN, blocked : BOOLEAN]
Harmful == Failures \cup {"RATE_LIMITED", "SESSION_RESTRICTED"}
Outcomes == Harmful \cup {"SUCCESS", "SAFE_REJECTION"}
OperationOutcomes == Outcomes \ {"AMBIGUOUS", "SESSION_RESTRICTED"}

\* live: lease_expires_at > now(), which all rows of a permit share; via: the scopes that were
\* half open when its request started; outcomes: what was recorded, the harmful ones alike.
PermitRecord ==
    [status : {"free", "held", "started", "over"}, kind : {"message", "operation"},
     session : Sessions \cup {NoSession}, live : BOOLEAN, via : SUBSET Scopes, outcomes : Seq({"SUCCESS", "SAFE_REJECTION", "HARM"})]

Unused == [status |-> "free", kind |-> "message", session |-> NoSession, live |-> FALSE,
           via |-> {}, outcomes |-> <<>>]

Init ==
    /\ scope = [x \in Scopes |-> [circuit |-> "CLOSED", cooling |-> FALSE, blocked |-> FALSE]]
    /\ streak = [x \in Scopes |-> [f \in Failures |-> 0]]
    /\ paused = {}
    /\ lane = [s \in Sessions |-> Nobody] /\ recovery = [x \in Scopes |-> Nobody]
    /\ permit = [p \in Permits |-> Unused]

\* The scopes a request of s is admitted by, and whose circuits its outcome moves.
Of(s) == {Shared} \cup ({s} \cap Sessions)
Live(row) == row \in Permits /\ permit[row].live
HalfOpen(scopes) == {x \in DOMAIN scopes : scopes[x].circuit = "HALF_OPEN"}

\* transitionExpiredCircuits
Recovered(S) ==
    [x \in Scopes |-> IF x \in S /\ scope[x].circuit = "OPEN" /\ ~scope[x].cooling
                      THEN [scope[x] EXCEPT !.circuit = "HALF_OPEN"] ELSE scope[x]]

\* circuitDecision and the query for a probe in flight.
Admitted(s) ==
    \A x \in Of(s) : ~scope[x].blocked /\ ~scope[x].cooling /\ ~Live(recovery[x])

\* The leases with the rows of p gone, or left to nobody's token.
Without(rows, p, left) == [x \in DOMAIN rows |-> IF rows[x] = p THEN left ELSE rows[x]]

\* A token that is not held by a live lease any more is not heard of again.
Fresh(p) == ~permit[p].live

Granted(p, kind, s, status, via) ==
    permit' = [permit EXCEPT ![p] = [status |-> status, kind |-> kind, session |-> s, live |-> TRUE,
                                     via |-> via, outcomes |-> <<>>]]

\* Left half open, the scopes of s take p as their probe.
Probed(p, probed) == [x \in Scopes |-> IF x \in probed THEN p ELSE Without(recovery, p, Stale)[x]]

-----------------------------------------------------------------------------
(* Reservation.                                                            *)

\* As a plausible slip writes it: a row that is left over is never replaced.
ReplaceableMutant(probed) == \A x \in probed : recovery[x] = Nobody

\* ON CONFLICT DO UPDATE: the row of a probe that ran out is taken over.
Replaceable(probed) == \A x \in probed : ~Live(recovery[x])

ReserveMessage(p, s) ==
    LET seen == Recovered(Of(s))
        probed == HalfOpen(seen) \cap Of(s)
    IN  /\ Fresh(p) /\ Admitted(s) /\ s \notin paused /\ ~Live(lane[s]) /\ Replaceable(probed)
        /\ scope' = seen
        /\ lane' = [Without(lane, p, Nobody) EXCEPT ![s] = p]
        /\ recovery' = Probed(p, probed)
        /\ Granted(p, "message", s, "held", {})
        /\ UNCHANGED <<streak, paused>>

\* The request follows at once. A plain INSERT: a row left over by a probe that ran out makes
\* the reservation fail, and with it the transition is rolled back.
ReserveOperation(p, s) ==
    LET seen == Recovered(Of(s))
        probed == HalfOpen(seen) \cap Of(s)
    IN  /\ Fresh(p) /\ Admitted(s) /\ \A x \in probed : recovery[x] = Nobody
        /\ scope' = seen
        /\ lane' = Without(lane, p, Nobody)
        /\ recovery' = Probed(p, probed)
        /\ Granted(p, "operation", s, "started", probed)
        /\ UNCHANGED <<streak, paused>>

\* A reservation that is refused, or a snapshot, leaves only the transition behind.
Notice(s) ==
    /\ scope' = Recovered(Of(s)) /\ scope' # scope
    /\ UNCHANGED <<streak, paused, lane, recovery, permit>>

-----------------------------------------------------------------------------
(* The fence, and the end of a permit.                                     *)

\* commitMessageStart, as far as the governor decides.
Fence(p) ==
    LET s == permit[p].session IN
    /\ permit[p].live /\ lane[s] = p /\ s \notin paused
    /\ \A x \in Of(s) :
          /\ ~scope[x].blocked /\ ~scope[x].cooling /\ scope[x].circuit # "OPEN"
          /\ scope[x].circuit = "HALF_OPEN" => recovery[x] = p

Commit(p) ==
    /\ permit[p].status = "held" /\ Fence(p)
    /\ permit' = [permit EXCEPT ![p].status = "started",
                                ![p].via = HalfOpen(scope) \cap Of(permit[p].session)]
    /\ UNCHANGED <<scope, streak, paused, lane, recovery>>

\* As a plausible slip writes it: the rows of the scopes are deleted, whosever they are.
ReleaseMutant(p) ==
    /\ lane' = [s \in Sessions |-> IF s = permit[p].session THEN Nobody ELSE lane[s]]
    /\ recovery' = [x \in Scopes |-> IF x \in Of(permit[p].session) THEN Nobody ELSE recovery[x]]

\* releaseWithClient: by token.
Release(p) ==
    /\ lane' = Without(lane, p, Nobody)
    /\ recovery' = Without(recovery, p, Nobody)

\* The fence refuses, or the job is not to be sent any more.
Withdraw(p) ==
    /\ permit[p].status = "held"
    /\ Release(p)
    /\ permit' = [permit EXCEPT ![p] = Unused]
    /\ UNCHANGED <<scope, streak, paused>>

\* As a plausible slip writes it: whatever is recorded is counted.
CountsMutant(p, outcome) == TRUE

\* The receipt takes the outcome: the first one, or a harmful one in place of a success.
Counts(p, outcome) ==
    LET o == permit[p].outcomes IN
    o = <<>> \/ (o[Len(o)] = "SUCCESS" /\ outcome \in Harmful)

Recorded(outcome) == IF outcome \in Harmful THEN "HARM" ELSE outcome

\* One more outcome of a kind that trips.
Tripped(x, outcome) ==
    scope[x].circuit = "HALF_OPEN" \/ (outcome \in Failures /\ streak[x][outcome] + 1 >= TripAt)

Moved(row, x, outcome) ==
    CASE outcome = "SUCCESS" -> [row EXCEPT !.circuit = IF @ = "HALF_OPEN" THEN "CLOSED" ELSE @]
      [] outcome = "RATE_LIMITED" -> [row EXCEPT !.circuit = IF @ = "HALF_OPEN" THEN "OPEN" ELSE @,
                                                 !.cooling = TRUE]
      [] outcome \in Failures -> IF Tripped(x, outcome) THEN [row EXCEPT !.circuit = "OPEN", !.cooling = TRUE]
                                 ELSE row
      [] outcome = "SESSION_RESTRICTED" -> [row EXCEPT !.blocked = @ \/ x \in Sessions]
      [] OTHER -> row

Counted(x, outcome) ==
    [f \in Failures |-> IF outcome = "SUCCESS" THEN 0
                        ELSE IF f = outcome /\ streak[x][f] + 1 < TripAt THEN streak[x][f] + 1
                        ELSE streak[x][f]]

\* recordOutcomeWithClient. The answer ends the permit; for a message, evidence may follow.
RecordOutcome(p, outcome) ==
    LET S == IF Counts(p, outcome) THEN Of(permit[p].session) ELSE {}
        o == permit[p].outcomes
        taken == IF S = {} THEN o ELSE Append(o, Recorded(outcome))
    IN
    /\ \/ permit[p].status = "started"
       \/ permit[p].kind = "message" /\ permit[p].outcomes # <<>>
    /\ permit[p].kind = "operation" => outcome \in OperationOutcomes
    /\ scope' = [x \in Scopes |-> IF x \in S THEN Moved(scope[x], x, outcome) ELSE scope[x]]
    /\ streak' = [x \in Scopes |-> IF x \in S THEN Counted(x, outcome) ELSE streak[x]]
    /\ Release(p)
    /\ permit' = [permit EXCEPT ![p] =
          IF permit[p].kind = "operation" THEN Unused
          ELSE [permit[p] EXCEPT !.status = "over", !.live = FALSE, !.via = {}, !.outcomes = taken]]
    /\ UNCHANGED paused

-----------------------------------------------------------------------------
(* The operator, and time.                                                 *)

\* mutateSession: block and resume; sends paused and resumed.
BlockSession(s) ==
    /\ scope' = [scope EXCEPT ![s].blocked = ~@]
    /\ UNCHANGED <<streak, paused, lane, recovery, permit>>
Pause(s) ==
    /\ paused' = IF s \in paused THEN paused \ {s} ELSE paused \cup {s}
    /\ UNCHANGED <<scope, streak, lane, recovery, permit>>

\* mutateWorkspace, asked for in the name of session s.
BlockWorkspace(s) ==
    /\ scope' = [Recovered(Of(s)) EXCEPT ![Shared].blocked = ~@]
    /\ UNCHANGED <<streak, paused, lane, recovery, permit>>

LeaseExpires(p) ==
    /\ permit[p].live /\ permit' = [permit EXCEPT ![p].live = FALSE]
    /\ UNCHANGED <<scope, streak, paused, lane, recovery>>

CooldownEnds(x) ==
    /\ scope[x].cooling /\ scope' = [scope EXCEPT ![x].cooling = FALSE]
    /\ UNCHANGED <<streak, paused, lane, recovery, permit>>

-----------------------------------------------------------------------------
Next ==
    \/ \E p \in Permits, s \in Sessions : ReserveMessage(p, s)
    \/ \E p \in Permits, s \in Sessions \cup {NoSession} : ReserveOperation(p, s)
    \/ \E s \in Sessions \cup {NoSession} : Notice(s)
    \/ \E p \in Permits : Commit(p) \/ Withdraw(p) \/ LeaseExpires(p)
    \/ \E p \in Permits, outcome \in Outcomes : RecordOutcome(p, outcome)
    \/ \E s \in Sessions : Pause(s) \/ BlockSession(s) \/ BlockWorkspace(s)
    \/ \E x \in Scopes : CooldownEnds(x)

Spec == Init /\ [][Next]_vars

Decisive == Outcomes \ {"SAFE_REJECTION", "SESSION_RESTRICTED"}
Answers(s) ==
    \E p \in Permits, outcome \in Decisive :
        permit[p].status = "started" /\ permit[p].kind = "message" /\ permit[p].session = s /\ RecordOutcome(p, outcome)

\* Leases and cooldowns run out. Of a session that keeps having messages, the one that was
\* deferred comes back when the lease or the cooldown it was told of is over, and not every one
\* ends in a withdrawal, a safe rejection or silence.
Fairness ==
    /\ \A p \in Permits : WF_vars(LeaseExpires(p))
    /\ \A x \in Scopes : WF_vars(CooldownEnds(x))
    /\ \A s \in Sessions :
          /\ SF_vars(\E p \in Permits : ReserveMessage(p, s))
          /\ SF_vars(\E p \in Permits : permit[p].session = s /\ Commit(p))
          /\ SF_vars(Answers(s))
FairSpec == Spec /\ Fairness

-----------------------------------------------------------------------------
(* What the runs check.                                                    *)

\* Every variable keeps the shape of its columns.
TypeOK ==
    /\ scope \in [Scopes -> ScopeRecord]
    /\ streak \in [Scopes -> [Failures -> 0 .. TripAt - 1]]
    /\ paused \subseteq Sessions
    /\ lane \in [Sessions -> Permits \cup {Nobody}]
    /\ recovery \in [Scopes -> Permits \cup {Nobody, Stale}]
    /\ permit \in [Permits -> PermitRecord]

Running(p) == permit[p].status = "started" /\ permit[p].live

\* ADR 021: one recovery lease may probe a half-open scope, and one message owns the lane of a
\* session, across expired leases, holders that come back late, and their releases.
OneProbe ==
    \A p, q \in Permits : (Running(p) /\ Running(q) /\ p # q) =>
        /\ permit[p].via \cap permit[q].via = {}
        /\ (permit[p].kind = "message" /\ permit[q].kind = "message") => permit[p].session # permit[q].session

\* ADR 021: "duplicate outcome callbacks have one effect": a permit counts once, and a second
\* time only when a success turns out to be a failure.
OutcomesCountOnce ==
    \A p \in Permits : LET o == permit[p].outcomes IN
        Len(o) > 1 => o = <<"SUCCESS", "HARM">>

\* Some session of the scope may send as far as the operator is concerned.
Open(x) ==
    /\ ~scope[Shared].blocked
    /\ \E s \in Sessions : x \in Of(s) /\ ~scope[s].blocked /\ s \notin paused

\* A circuit does not stay half open for ever, whatever becomes of its probes and their leases.
HalfOpenEnds ==
    \A x \in Scopes : scope[x].circuit = "HALF_OPEN" ~> (scope[x].circuit # "HALF_OPEN" \/ ~Open(x))
=============================================================================
