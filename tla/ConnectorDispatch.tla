-------------------------- MODULE ConnectorDispatch --------------------------
(***************************************************************************)
(* One live message job in connector-required mode: the durable connector  *)
(* command each attempt carries, the dispatchers that submit it to ingress *)
(* under a lease, the deadlines that settle it, and the evidence of the    *)
(* connector projected in any order onto the attempt and onto the job.     *)
(*   modules/messages/openwa-connector-command.repository.ts               *)
(*   modules/messages/openwa-connector-command-dispatcher.service.ts       *)
(*   modules/messages/message-delivery-evidence.service.ts                 *)
(*   integrations/openwa/openwa-connector-ingress.client.ts                *)
(* The connector is reduced to what ConnectorPlugin shows it promises: one *)
(* numbered chain of evidence per command, with one outcome.               *)
(***************************************************************************)
EXTENDS DeliveryStatus

CONSTANTS
    Dispatchers,        \* concurrent executions of dispatch(); each draws its own lease id
    NoLease,            \* ingress_lease_id IS NULL
    MaxIngressAttempts, \* OPENWA_CONNECTOR_MAX_INGRESS_ATTEMPTS
    MaxAttempts,        \* bound on attempt_count
    MaxAcks             \* bound on acknowledgements of one command

ASSUME BoundsAssumption ==
    MaxIngressAttempts \in Nat \ {0} /\ MaxAttempts \in Nat /\ MaxAcks \in Nat
ASSUME LeaseAssumption == NoLease \notin Dispatchers

VARIABLES
    status,     \* message_jobs.status
    started,    \* message_jobs.current_upstream_started_at IS NOT NULL
    messageId,  \* message_jobs.openwa_message_id: the attempt whose message it names, or 0
    attempts,   \* message_attempts of the job, by attempt_number
    disp,       \* what each dispatcher is doing
    plugin,     \* per attempt: the evidence chain of the connector and the WhatsApp effect
    inbox       \* per attempt: evidence rows recorded, and evidence webhooks that went DEAD

vars == <<status, started, messageId, attempts, disp, plugin, inbox>>

-----------------------------------------------------------------------------
FailureKind == {"NONE", "AMBIGUOUS_RETRYABLE", "RATE_LIMITED_SAFE", "DEFINITIVE"}
Answer == {"ACCEPTED", "AMBIGUOUS_RETRYABLE", "RATE_LIMITED_SAFE", "DEFINITIVE"}
Numbers == 1 .. MaxAttempts
EvidenceNumbers == 1 .. 3 + MaxAcks

AttemptRecord ==
    [state : TransportState, deliveries : 0 .. MaxIngressAttempts, kind : FailureKind,
     lease : Dispatchers \cup {NoLease}, leaseLive : BOOLEAN, expired : BOOLEAN,
     lastSeq : {0} \cup EvidenceNumbers, unsent : BOOLEAN, receipt : SafetyOutcome \cup {"NONE"}]
DispatcherRecord ==
    [phase : {"idle", "claimed", "answered"}, n : {0} \cup Numbers,
     delivery : 0 .. MaxIngressAttempts, answer : Answer \cup {"NONE"}]

PluginRecord == [log : Seq(EvidenceKind), effect : BOOLEAN]
InboxRecord == [recorded : SUBSET EvidenceNumbers, dead : SUBSET EvidenceNumbers]

Idle == [phase |-> "idle", n |-> 0, delivery |-> 0, answer |-> "NONE"]

\* "unsent" holds once an attempt is closed with the explanation
\* 'Connector command expired before ingress accepted it'.
NewAttempt ==
    [state |-> "DISPATCH_STARTED", deliveries |-> 0, kind |-> "NONE", lease |-> NoLease,
     leaseLive |-> FALSE, expired |-> FALSE, lastSeq |-> 0, unsent |-> FALSE, receipt |-> "NONE"]

Init ==
    /\ status = "SCHEDULED" /\ started = FALSE /\ messageId = 0
    /\ attempts = <<>> /\ plugin = <<>> /\ inbox = <<>>
    /\ disp = [d \in Dispatchers |-> Idle]

Row(n) == attempts[n]
Released(row) == [row EXCEPT !.lease = NoLease, !.leaseLive = FALSE]

\* Every way of closing an attempt releases its lease and records an outcome for its permit.
Closed(row, state, kind, outcome) ==
    [Released(row) EXCEPT !.state = state, !.kind = kind,
                          !.receipt = RecordedReceipt(row.receipt, outcome)]

Write(n, row) == attempts' = [attempts EXCEPT ![n] = row]

\* UPDATE message_jobs ... WHERE id = $1 AND status = 'PROCESSING'
FromProcessing(new) == IF status = "PROCESSING" THEN new ELSE status

-----------------------------------------------------------------------------
(* The job up to the commit fence (MessageDispatch has the details).       *)

ClaimDueJob ==
    /\ status = "SCHEDULED" /\ status' = "QUEUED"
    /\ UNCHANGED <<started, messageId, attempts, disp, plugin, inbox>>

\* resetQueued, recoverStaleQueued
RequeueJob ==
    /\ status = "QUEUED" /\ status' = "SCHEDULED"
    /\ UNCHANGED <<started, messageId, attempts, disp, plugin, inbox>>

MarkProcessing ==
    /\ status = "QUEUED" /\ status' = "PROCESSING"
    /\ UNCHANGED <<started, messageId, attempts, disp, plugin, inbox>>

\* An unhealthy binding, a busy media relay, a deferring governor or a rejecting fence.
DeferProcessing ==
    /\ status = "PROCESSING" /\ ~started /\ status' = "SCHEDULED"
    /\ UNCHANGED <<started, messageId, attempts, disp, plugin, inbox>>

\* An error before the commit: updateResult('FAILED') writes the row of attempt_count.
FailBeforeStart ==
    /\ status = "PROCESSING" /\ ~started /\ status' = "FAILED"
    /\ attempts' = IF attempts = <<>> THEN attempts
                   ELSE [attempts EXCEPT ![Len(attempts)].state = "FAILED_DEFINITIVE"]
    /\ UNCHANGED <<started, messageId, disp, plugin, inbox>>

CommitMessageStart ==
    /\ status = "PROCESSING" /\ ~started
    /\ Len(attempts) < MaxAttempts
    /\ started' = TRUE
    /\ attempts' = Append(attempts, NewAttempt)
    /\ plugin' = Append(plugin, [log |-> <<>>, effect |-> FALSE])
    /\ inbox' = Append(inbox, [recorded |-> {}, dead |-> {}])
    /\ UNCHANGED <<status, messageId, disp>>

-----------------------------------------------------------------------------
(* The dispatcher.                                                         *)

\* As a plausible slip writes it: the delivery is counted when it is answered.
ClaimedRowMutant(row, d) == [row EXCEPT !.lease = d, !.leaseLive = TRUE]

ClaimedRow(row, d) ==
    [row EXCEPT !.lease = d, !.leaseLive = TRUE, !.deliveries = @ + 1]

Claimable(row) ==
    /\ row.state = "DISPATCH_STARTED" /\ ~row.expired
    /\ row.deliveries < MaxIngressAttempts
    /\ row.lease = NoLease \/ ~row.leaseLive

ClaimCommand(d, n) ==
    /\ disp[d].phase = "idle"
    /\ Claimable(Row(n))
    /\ Write(n, ClaimedRow(Row(n), d))
    /\ disp' = [disp EXCEPT ![d] = [phase |-> "claimed", n |-> n,
                                    delivery |-> ClaimedRow(Row(n), d).deliveries,
                                    answer |-> "NONE"]]
    /\ UNCHANGED <<status, started, messageId, plugin, inbox>>

\* As a plausible slip writes it: the lease alone entitles a dispatcher to write.
OwnedMutant(d) == Row(disp[d].n).lease = d

\* WHERE attempt_id = $1 AND ingress_lease_id = $2 AND transport_state = 'DISPATCH_STARTED'
Owned(d) == Row(disp[d].n).lease = d /\ Row(disp[d].n).state = "DISPATCH_STARTED"

Finish(d) == disp' = [disp EXCEPT ![d] = Idle]

\* The row a dispatcher writes back, or the row as it is when the lease was lost.
WriteBack(d, row) == Write(disp[d].n, IF Owned(d) THEN row ELSE Row(disp[d].n))

DeferredRow(row) == [Released(row) EXCEPT !.deliveries = IF @ > 0 THEN @ - 1 ELSE 0]

DeferForDispatchReadiness(d) ==
    /\ disp[d].phase = "claimed"
    /\ WriteBack(d, DeferredRow(Row(disp[d].n)))
    /\ Finish(d)
    /\ UNCHANGED <<status, started, messageId, plugin, inbox>>

\* The connector journals a command the first time it sees it (ConnectorPlugin).
Received(p) == IF p.log = <<>> THEN [p EXCEPT !.log = <<"COMMAND_RECEIVED">>] ELSE p

\* submit(): an ambiguous answer may or may not mean that the command arrived; a rate
\* limited or refused request did not.
Submit(d, answer, arrived) ==
    /\ disp[d].phase = "claimed"
    /\ answer = "ACCEPTED" => arrived
    /\ answer \in {"RATE_LIMITED_SAFE", "DEFINITIVE"} => ~arrived
    /\ plugin' = IF arrived THEN [plugin EXCEPT ![disp[d].n] = Received(@)] ELSE plugin
    /\ disp' = [disp EXCEPT ![d].phase = "answered", ![d].answer = answer]
    /\ UNCHANGED <<status, started, messageId, attempts, inbox>>

AcceptedRow(row) == [Released(row) EXCEPT !.state = "INGRESS_ACCEPTED", !.kind = "NONE"]

MarkAccepted(d) ==
    /\ disp[d].phase = "answered" /\ disp[d].answer = "ACCEPTED"
    /\ WriteBack(d, AcceptedRow(Row(disp[d].n)))
    /\ Finish(d)
    /\ UNCHANGED <<status, started, messageId, plugin, inbox>>

\* retryOrSettle: the last delivery, or an expired command. Before that, a retry delay that
\* would pass the deadline settles the command as well, so the two actions after Reschedule
\* do not wait for exhaustion.
Exhausted(d) == disp[d].delivery >= MaxIngressAttempts \/ Row(disp[d].n).expired

RescheduledRow(row, kind) == [Released(row) EXCEPT !.kind = kind]

Reschedule(d) ==
    /\ disp[d].phase = "answered" /\ ~Exhausted(d)
    /\ disp[d].answer \in {"AMBIGUOUS_RETRYABLE", "RATE_LIMITED_SAFE"}
    /\ WriteBack(d, RescheduledRow(Row(disp[d].n), disp[d].answer))
    /\ Finish(d)
    /\ UNCHANGED <<status, started, messageId, plugin, inbox>>

\* As a plausible slip writes it: the attempt given up stays open.
RejectedRowMutant(row) == Closed(row, row.state, "RATE_LIMITED_SAFE", "RATE_LIMITED")

RejectedRow(row) == Closed(row, "FAILED_DEFINITIVE", "RATE_LIMITED_SAFE", "RATE_LIMITED")

RescheduleSafeRejection(d) ==
    /\ disp[d].phase = "answered" /\ disp[d].answer = "RATE_LIMITED_SAFE"
    /\ WriteBack(d, RejectedRow(Row(disp[d].n)))
    /\ status' = IF Owned(d) THEN FromProcessing("SCHEDULED") ELSE status
    /\ started' = IF Owned(d) /\ status = "PROCESSING" THEN FALSE ELSE started
    /\ Finish(d)
    /\ UNCHANGED <<messageId, plugin, inbox>>

\* settle(): definitive refusal, or exhaustion without an answer that proves anything.
SettledRow(row, failed) ==
    IF failed THEN Closed(row, "FAILED_DEFINITIVE", "DEFINITIVE", "SAFE_REJECTION")
              ELSE Closed(row, "INDETERMINATE", "AMBIGUOUS_RETRYABLE", "AMBIGUOUS")

Settle(d) ==
    LET failed == disp[d].answer = "DEFINITIVE" IN
    /\ disp[d].phase = "answered" /\ disp[d].answer \in {"DEFINITIVE", "AMBIGUOUS_RETRYABLE"}
    /\ WriteBack(d, SettledRow(Row(disp[d].n), failed))
    /\ status' = IF Owned(d) THEN FromProcessing(IF failed THEN "FAILED" ELSE "UNKNOWN") ELSE status
    /\ Finish(d)
    /\ UNCHANGED <<started, messageId, plugin, inbox>>

\* The process running the dispatcher stops; the lease it took stays behind. The request
\* may have been on its way.
DispatcherDies(d) ==
    /\ disp[d].phase # "idle"
    /\ \/ UNCHANGED plugin
       \/ (disp[d].phase = "claimed" /\ plugin' = [plugin EXCEPT ![disp[d].n] = Received(@)])
    /\ Finish(d)
    /\ UNCHANGED <<status, started, messageId, attempts, inbox>>

-----------------------------------------------------------------------------
(* Time, and the deadlines of the scheduler tick run().                    *)

LeaseExpires(n) ==
    /\ Row(n).leaseLive
    /\ Write(n, [Row(n) EXCEPT !.leaseLive = FALSE])
    /\ UNCHANGED <<status, started, messageId, disp, plugin, inbox>>

CommandExpires(n) ==
    /\ ~Row(n).expired
    /\ Write(n, [Row(n) EXCEPT !.expired = TRUE])
    /\ UNCHANGED <<status, started, messageId, disp, plugin, inbox>>

\* As a plausible slip writes it: a lease left by a dead dispatcher blocks the deadline.
ExpirableMutant(row) == row.state = "DISPATCH_STARTED" /\ row.expired /\ row.lease = NoLease

Expirable(row) ==
    /\ row.state = "DISPATCH_STARTED" /\ row.expired
    /\ row.lease = NoLease \/ ~row.leaseLive

ExpiredRow(row, failed) ==
    IF failed THEN [Closed(row, "FAILED_DEFINITIVE", row.kind, "SAFE_REJECTION") EXCEPT !.unsent = TRUE]
              ELSE Closed(row, "INDETERMINATE", row.kind, "AMBIGUOUS")

SettleExpired(n) ==
    LET failed == Row(n).deliveries = 0 \/ Row(n).kind = "RATE_LIMITED_SAFE" IN
    /\ Expirable(Row(n))
    /\ Write(n, ExpiredRow(Row(n), failed))
    /\ status' = FromProcessing(IF failed THEN "FAILED" ELSE "UNKNOWN")
    /\ UNCHANGED <<started, messageId, disp, plugin, inbox>>

AwaitsEvidence(row) == row.state \in {"INGRESS_ACCEPTED", "SEND_STARTED"}

SettleEvidenceTimeout(n) ==
    /\ AwaitsEvidence(Row(n))
    /\ Write(n, Closed(Row(n), "INDETERMINATE", Row(n).kind, "AMBIGUOUS"))
    /\ status' = FromProcessing("UNKNOWN")
    /\ UNCHANGED <<started, messageId, disp, plugin, inbox>>

-----------------------------------------------------------------------------
(* The connector: the chain of evidence of a command, and its effect.      *)

Log(n) == plugin[n].log
Emits(n, kind) == plugin' = [plugin EXCEPT ![n].log = Append(@, kind)]
Reported(n) == {Log(n)[i] : i \in 1 .. Len(Log(n))}

\* Acknowledgements after which one of this kind is not reported any more.
Outdates == [ACK_SENT |-> {"ACK_SENT", "ACK_DELIVERED", "ACK_READ"},
             ACK_DELIVERED |-> {"ACK_DELIVERED", "ACK_READ"},
             ACK_READ |-> {"ACK_READ"},
             ACK_FAILED |-> {"ACK_FAILED", "ACK_DELIVERED", "ACK_READ"}]

PluginRejects(n) ==
    /\ Log(n) = <<"COMMAND_RECEIVED">>
    /\ Emits(n, "SEND_REJECTED")
    /\ UNCHANGED <<status, started, messageId, attempts, disp, inbox>>

PluginStarts(n) ==
    /\ Log(n) = <<"COMMAND_RECEIVED">> /\ ~Row(n).expired
    /\ Emits(n, "SEND_STARTED")
    /\ UNCHANGED <<status, started, messageId, attempts, disp, inbox>>

PluginSends(n) ==
    /\ Log(n) = <<"COMMAND_RECEIVED", "SEND_STARTED">> /\ ~plugin[n].effect
    /\ plugin' = [plugin EXCEPT ![n].effect = TRUE]
    /\ UNCHANGED <<status, started, messageId, attempts, disp, inbox>>

PluginReports(n, kind) ==
    /\ Log(n) = <<"COMMAND_RECEIVED", "SEND_STARTED">>
    /\ kind = "SEND_ACCEPTED" => plugin[n].effect
    /\ Emits(n, kind)
    /\ UNCHANGED <<status, started, messageId, attempts, disp, inbox>>

PluginAcknowledges(n, kind) ==
    /\ Len(Log(n)) >= 3 /\ Log(n)[3] = "SEND_ACCEPTED"
    /\ Len(Log(n)) < 3 + MaxAcks
    /\ Reported(n) \cap Outdates[kind] = {}
    /\ Emits(n, kind)
    /\ UNCHANGED <<status, started, messageId, attempts, disp, inbox>>

-----------------------------------------------------------------------------
(* Evidence webhooks, in any order.                                        *)

Undelivered(n) == (1 .. Len(Log(n))) \ (inbox[n].recorded \cup inbox[n].dead)

Fresh(n, i) == i > Row(n).lastSeq

Chain(n, i) == IF Fresh(n, i) THEN ConnectorJobStatusTransitions(status, Log(n)[i]) ELSE <<>>

NamesMessage(kind) == kind \in {"SEND_ACCEPTED", "ACK_SENT", "ACK_DELIVERED", "ACK_READ", "ACK_FAILED"}

\* projectInTransaction commits: no conflicting message id, and the trigger accepts the chain.
Projectable(n, i) ==
    /\ NamesMessage(Log(n)[i]) => messageId \in {0, n}
    /\ ChainAllowed(status, Chain(n, i))

ProjectedRow(row, i, kind, class) ==
    LET outcome == SafetyOutcomeFromConnectorEvidence(kind, class) IN
    [row EXCEPT !.state = NextTransportState(@, TransportStateFromEvidence[kind]),
                !.lastSeq = i,
                !.receipt = IF outcome = "NONE" THEN @ ELSE RecordedReceipt(@, outcome)]

ProjectEvidence(n, i, class) ==
    /\ i \in Undelivered(n)
    /\ Projectable(n, i)
    /\ class # "NONE" => Log(n)[i] \in {"SEND_REJECTED", "ACK_FAILED"}
    /\ status' = ChainResult(status, Chain(n, i))
    /\ messageId' = IF NamesMessage(Log(n)[i]) /\ messageId = 0 THEN n ELSE messageId
    /\ Write(n, IF Fresh(n, i) THEN ProjectedRow(Row(n), i, Log(n)[i], class) ELSE Row(n))
    /\ inbox' = [inbox EXCEPT ![n].recorded = @ \cup {i}]
    /\ UNCHANGED <<started, disp, plugin>>

\* A projection that keeps failing uses up the attempts of its webhook event.
EvidenceGoesDead(n, i) ==
    /\ i \in Undelivered(n)
    /\ ~Projectable(n, i)
    /\ inbox' = [inbox EXCEPT ![n].dead = @ \cup {i}]
    /\ UNCHANGED <<status, started, messageId, attempts, disp, plugin>>

\* OpenWA's own webhook about the message the job is bound to.
ProjectEvent(incoming) ==
    /\ messageId # 0 /\ plugin[messageId].effect
    /\ AllowedTransition(status, NextProjectedMessageStatus(status, incoming))
    /\ status' = NextProjectedMessageStatus(status, incoming)
    /\ UNCHANGED <<started, messageId, attempts, disp, plugin, inbox>>

-----------------------------------------------------------------------------
Present == 1 .. Len(attempts)

JobStep == ClaimDueJob \/ RequeueJob \/ MarkProcessing \/ DeferProcessing \/ FailBeforeStart
           \/ CommitMessageStart
DispatcherStep(d) ==
    \/ \E n \in Present : ClaimCommand(d, n)
    \/ DeferForDispatchReadiness(d)
    \/ \E answer \in Answer, arrived \in BOOLEAN : Submit(d, answer, arrived)
    \/ MarkAccepted(d) \/ Reschedule(d) \/ RescheduleSafeRejection(d) \/ Settle(d)
    \/ DispatcherDies(d)
DeadlineStep(n) == LeaseExpires(n) \/ CommandExpires(n) \/ SettleExpired(n) \/ SettleEvidenceTimeout(n)
PluginStep(n) ==
    \/ PluginRejects(n) \/ PluginStarts(n) \/ PluginSends(n)
    \/ \E kind \in {"SEND_ACCEPTED", "SEND_INDETERMINATE"} : PluginReports(n, kind)
    \/ \E kind \in DOMAIN Outdates : PluginAcknowledges(n, kind)
EvidenceStep(n) ==
    \/ \E i \in 1 .. Len(Log(n)), class \in ErrorClass : ProjectEvidence(n, i, class)
    \/ \E i \in 1 .. Len(Log(n)) : EvidenceGoesDead(n, i)

Next ==
    \/ JobStep
    \/ \E d \in Dispatchers : DispatcherStep(d)
    \/ \E n \in Present : DeadlineStep(n) \/ PluginStep(n) \/ EvidenceStep(n)
    \/ \E incoming \in {"SENT", "DELIVERED", "READ", "FAILED"} : ProjectEvent(incoming)

Spec == Init /\ [][Next]_vars

\* The scheduler runs its tick, and time passes; nothing else is owed to the job.
FairSpec ==
    /\ Spec
    /\ \A n \in Numbers :
          /\ WF_vars(n \in Present /\ LeaseExpires(n))
          /\ WF_vars(n \in Present /\ CommandExpires(n))
          /\ WF_vars(n \in Present /\ SettleExpired(n))
          /\ WF_vars(n \in Present /\ SettleEvidenceTimeout(n))
    /\ WF_vars(status = "PROCESSING" /\ ~started /\ DeferProcessing)

-----------------------------------------------------------------------------
(* Properties.                                                             *)

\* The columns, the dispatchers' local state and the connector's chain are well formed; a busy
\* dispatcher works on an attempt that exists (claimDue, commitMessageStart).
TypeOK ==
    /\ status \in JobStatus /\ started \in BOOLEAN /\ messageId \in {0} \cup Numbers
    /\ attempts \in Seq(AttemptRecord) /\ Len(attempts) <= MaxAttempts
    /\ plugin \in Seq(PluginRecord) /\ Len(plugin) = Len(attempts)
    /\ inbox \in Seq(InboxRecord) /\ Len(inbox) = Len(attempts)
    /\ disp \in [Dispatchers -> DispatcherRecord]
    /\ \A d \in Dispatchers : disp[d].phase # "idle" => disp[d].n \in Present
    /\ \A n \in Present : Len(Log(n)) <= 3 + MaxAcks

\* A new attempt starts only when every earlier one is closed as definitively failed, and a
\* job that is taken up again carries no attempt whose outcome is open or uncertain
\* (commitMessageStart, rescheduleSafeRejection, settle).
EarlierAttemptsClosed ==
    /\ \A n \in Present : n < Len(attempts) => attempts[n].state = "FAILED_DEFINITIVE"
    /\ (~started \/ status \in {"SCHEDULED", "QUEUED"})
          => \A n \in Present : attempts[n].state = "FAILED_DEFINITIVE"

\* Dispatchers, deadlines and evidence in any order never move the transport state of an
\* attempt backwards (nextTransportState, settle, settleExpired, settleEvidenceTimeout).
TransportNeverRegresses ==
    [][\A n \in Present : Progress[attempts'[n].state] >= Progress[attempts[n].state]]_vars

\* A command the connector holds has been counted as delivered at least once, so that
\* settleExpired never takes it for one that was not submitted (claimDue,
\* deferForDispatchReadiness).
SubmissionsCounted ==
    \A n \in Present :
        (Log(n) # <<>> /\ attempts[n].state = "DISPATCH_STARTED") => attempts[n].deliveries > 0

\* Evidence that the connector sent the message resolves the job, however late and in whatever
\* order it arrives: it stays neither PROCESSING nor UNKNOWN (projectInTransaction).
SendEvidenceResolves ==
    \A n \in Present : \A i \in inbox[n].recorded :
        NamesMessage(Log(n)[i]) => status \in {"ACCEPTED", "SENT", "DELIVERED", "READ", "FAILED"}

\* Evidence is refused for good only after a command the connector already held was given up
\* as rate limited (rescheduleSafeRejection); otherwise the trigger accepts every projection.
EvidenceDiesOnlyAfterSafeRejection ==
    (\E n \in Present : inbox[n].dead # {})
        => \E n \in Present : /\ attempts[n].kind = "RATE_LIMITED_SAFE" /\ Log(n) # <<>>
                              /\ attempts[n].state = "FAILED_DEFINITIVE"

\* A job leaves PROCESSING, and with it the dispatch lane of its session becomes free,
\* whatever happens to the dispatchers, the connector and the evidence.
LaneFrees == status = "PROCESSING" ~> status # "PROCESSING"

=============================================================================
