--------------------------- MODULE DeliveryStatus ---------------------------
(***************************************************************************)
(* The pure functions that reduce delivery evidence to the status of a     *)
(* message job and to the transport state of one attempt, and the database *)
(* trigger every status update passes through.                             *)
(*   modules/messages/message-delivery-evidence.service.ts                 *)
(*   modules/messages/message-status-projection.service.ts                 *)
(*   migrations/080_late_connector_acceptance_reconciliation.sql           *)
(***************************************************************************)
EXTENDS Naturals, Sequences

JobStatus == {"SCHEDULED", "QUEUED", "PROCESSING", "ACCEPTED", "SENT", "DELIVERED", "READ",
              "FAILED", "UNKNOWN", "CANCELLED", "DRY_RUN_COMPLETED"}
TransportState == {"DISPATCH_STARTED", "INGRESS_ACCEPTED", "SEND_STARTED", "SEND_ACCEPTED",
                   "SENT", "DELIVERED", "READ", "FAILED_DEFINITIVE", "INDETERMINATE"}
EvidenceKind == {"COMMAND_RECEIVED", "SEND_STARTED", "SEND_ACCEPTED", "SEND_REJECTED",
                 "SEND_INDETERMINATE", "ACK_SENT", "ACK_DELIVERED", "ACK_READ", "ACK_FAILED"}

-----------------------------------------------------------------------------
(* One attempt: the transport state.                                       *)

TransportRanks == [DISPATCH_STARTED |-> 5, INGRESS_ACCEPTED |-> 10, SEND_STARTED |-> 15,
                   SEND_ACCEPTED |-> 20, SENT |-> 30, DELIVERED |-> 40, READ |-> 50]

TransportStateFromEvidence ==
    [COMMAND_RECEIVED |-> "INGRESS_ACCEPTED", SEND_STARTED |-> "SEND_STARTED",
     SEND_ACCEPTED |-> "SEND_ACCEPTED", SEND_REJECTED |-> "FAILED_DEFINITIVE",
     SEND_INDETERMINATE |-> "INDETERMINATE", ACK_SENT |-> "SENT",
     ACK_DELIVERED |-> "DELIVERED", ACK_READ |-> "READ", ACK_FAILED |-> "FAILED_DEFINITIVE"]

\* States in which the send has not been seen to end.
OpenTransport == {"DISPATCH_STARTED", "INGRESS_ACCEPTED", "SEND_STARTED"}

NextTransportState(current, incoming) ==
    IF current = incoming \/ current \in {"READ", "FAILED_DEFINITIVE"} THEN current
    ELSE IF incoming = "INDETERMINATE"
         THEN IF current \in OpenTransport THEN incoming ELSE current
    ELSE IF current = "INDETERMINATE"
         THEN IF incoming \in OpenTransport THEN current ELSE incoming
    ELSE IF incoming = "FAILED_DEFINITIVE"
         THEN IF current \in OpenTransport \cup {"SEND_ACCEPTED", "SENT"} THEN incoming ELSE current
    ELSE IF TransportRanks[incoming] > TransportRanks[current] THEN incoming ELSE current

-----------------------------------------------------------------------------
(* The job: its status.                                                    *)

DeliveryRank(status) ==
    CASE status = "ACCEPTED" -> 10 [] status = "SENT" -> 20
      [] status = "DELIVERED" -> 30 [] status = "READ" -> 40 [] OTHER -> 0

NextProjectedMessageStatus(current, incoming) ==
    IF current \in {"FAILED", "CANCELLED", "DRY_RUN_COMPLETED"} THEN current
    ELSE IF incoming = "FAILED"
         THEN IF current \in {"SCHEDULED", "QUEUED", "PROCESSING", "ACCEPTED", "SENT", "UNKNOWN"}
              THEN "FAILED" ELSE current
         ELSE IF DeliveryRank(incoming) > DeliveryRank(current) THEN incoming ELSE current

\* One status update, or none when the projection leaves the status alone.
Step(current, next) == IF next = current THEN <<>> ELSE <<next>>

\* As a plausible slip writes it: acceptance is news only for a job still in PROCESSING.
ConnectorJobStatusTransitionsMutant(current, kind) ==
    CASE kind = "SEND_ACCEPTED" ->
           IF current = "PROCESSING" THEN <<"ACCEPTED">> ELSE <<>>
      [] kind = "SEND_INDETERMINATE" ->
           IF current = "PROCESSING" THEN <<"UNKNOWN">> ELSE <<>>
      [] kind \in {"SEND_REJECTED", "ACK_FAILED"} ->
           Step(current, NextProjectedMessageStatus(current, "FAILED"))
      [] OTHER -> <<>>

\* The status updates one piece of connector evidence causes, in order.
ConnectorJobStatusTransitions(current, kind) ==
    CASE kind = "SEND_ACCEPTED" ->
           Step(current, NextProjectedMessageStatus(current, "ACCEPTED"))
      [] kind = "SEND_INDETERMINATE" ->
           IF current = "PROCESSING" THEN <<"UNKNOWN">> ELSE <<>>
      [] kind \in {"SEND_REJECTED", "ACK_FAILED"} ->
           Step(current, NextProjectedMessageStatus(current, "FAILED"))
      [] kind \in {"ACK_SENT", "ACK_DELIVERED", "ACK_READ"} ->
           LET incoming == TransportStateFromEvidence[kind]
               cursor == IF current = "PROCESSING" THEN "ACCEPTED" ELSE current
           IN  Step(current, cursor) \o Step(cursor, NextProjectedMessageStatus(cursor, incoming))
      [] OTHER -> <<>>

\* The trigger as it was before migration 080.
AllowedTransitionsMutant ==
    [SCHEDULED |-> {"QUEUED", "CANCELLED"},
     QUEUED |-> {"SCHEDULED", "PROCESSING", "CANCELLED"},
     PROCESSING |-> {"SCHEDULED", "ACCEPTED", "FAILED", "UNKNOWN", "DRY_RUN_COMPLETED", "CANCELLED"},
     ACCEPTED |-> {"SENT", "DELIVERED", "READ", "FAILED"}, SENT |-> {"DELIVERED", "READ", "FAILED"},
     DELIVERED |-> {"READ"}, UNKNOWN |-> {"SENT", "DELIVERED", "READ", "FAILED"},
     READ |-> {}, FAILED |-> {}, CANCELLED |-> {}, DRY_RUN_COMPLETED |-> {}]

AllowedTransitions ==
    [SCHEDULED |-> {"QUEUED", "CANCELLED"},
     QUEUED |-> {"SCHEDULED", "PROCESSING", "CANCELLED"},
     PROCESSING |-> {"SCHEDULED", "ACCEPTED", "FAILED", "UNKNOWN", "DRY_RUN_COMPLETED", "CANCELLED"},
     ACCEPTED |-> {"SENT", "DELIVERED", "READ", "FAILED"}, SENT |-> {"DELIVERED", "READ", "FAILED"},
     DELIVERED |-> {"READ"}, UNKNOWN |-> {"ACCEPTED", "SENT", "DELIVERED", "READ", "FAILED"},
     READ |-> {}, FAILED |-> {}, CANCELLED |-> {}, DRY_RUN_COMPLETED |-> {}]

\* enforce_message_job_status_transition: an update the trigger lets through.
AllowedTransition(old, new) == old = new \/ new \in AllowedTransitions[old]

\* A chain of updates succeeds only if the trigger accepts each of them; otherwise the
\* transaction that issued them rolls back.
ChainAllowed(current, chain) ==
    \A i \in 1 .. Len(chain) :
        AllowedTransition(IF i = 1 THEN current ELSE chain[i - 1], chain[i])

ChainResult(current, chain) == IF chain = <<>> THEN current ELSE chain[Len(chain)]

-----------------------------------------------------------------------------
(* The safety governor's view of the evidence.                             *)

SafetyOutcome == {"SUCCESS", "AMBIGUOUS", "RATE_LIMITED", "SESSION_RESTRICTED",
                  "TRANSIENT_FAILURE", "SAFE_REJECTION"}
ErrorClass == {"NONE", "RATE_LIMITED", "SESSION_RESTRICTED", "AMBIGUOUS", "TRANSIENT_FAILURE"}

\* "NONE" when the evidence says nothing about the outcome.
SafetyOutcomeFromConnectorEvidence(kind, errorClass) ==
    CASE kind \in {"SEND_ACCEPTED", "ACK_SENT", "ACK_DELIVERED", "ACK_READ"} -> "SUCCESS"
      [] kind = "SEND_INDETERMINATE" -> "AMBIGUOUS"
      [] kind \in {"SEND_REJECTED", "ACK_FAILED"} ->
           IF errorClass # "NONE" THEN errorClass
           ELSE IF kind = "ACK_FAILED" THEN "TRANSIENT_FAILURE" ELSE "SAFE_REJECTION"
      [] OTHER -> "NONE"

\* recordOutcomeWithClient: the receipt of a permit is written once, and afterwards only a
\* success may still turn into a failure.
RecordedReceipt(receipt, outcome) ==
    IF \/ receipt = "NONE"
       \/ (receipt = "SUCCESS" /\ outcome \in {"RATE_LIMITED", "AMBIGUOUS", "TRANSIENT_FAILURE",
                                               "SESSION_RESTRICTED"})
    THEN outcome ELSE receipt

-----------------------------------------------------------------------------
(* Orders the properties are stated with.                                  *)

\* A total order on transport states that nothing may descend.
Progress == [DISPATCH_STARTED |-> 0, INGRESS_ACCEPTED |-> 1, SEND_STARTED |-> 2,
             INDETERMINATE |-> 3, SEND_ACCEPTED |-> 4, SENT |-> 5, DELIVERED |-> 6, READ |-> 7,
             FAILED_DEFINITIVE |-> 8]
=============================================================================
