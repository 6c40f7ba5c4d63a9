----------------------- MODULE ConnectorDispatch_proofs -----------------------
(***************************************************************************)
(* Proofs about ConnectorDispatch, for any set of dispatchers, any limit   *)
(* of ingress attempts, any number of attempts and acknowledgements:       *)
(*   - TypeOK is an invariant;                                             *)
(*   - no step moves the transport state of an attempt backwards;          *)
(*   - a new attempt starts only over definitively failed ones;            *)
(*   - a command the connector holds has been counted as delivered;        *)
(*   - evidence that the message was sent resolves the job;                *)
(*   - evidence is refused only after a safe rejection of a held command.  *)
(***************************************************************************)
EXTENDS ConnectorDispatch, SequenceTheorems, TLAPS

USE BoundsAssumption, LeaseAssumption
USE DEF TransportState, FailureKind, Answer, SafetyOutcome, EvidenceKind, JobStatus

-----------------------------------------------------------------------------
(* Sequences and records.                                                  *)

\* Replacing one element of a sequence.
LEMMA SeqExcept ==
    ASSUME NEW S, NEW s \in Seq(S), NEW n \in 1 .. Len(s), NEW v \in S
    PROVE  /\ [s EXCEPT ![n] = v] \in Seq(S)
           /\ Len([s EXCEPT ![n] = v]) = Len(s)
           /\ [s EXCEPT ![n] = v][n] = v
           /\ \A m \in 1 .. Len(s) : m # n => [s EXCEPT ![n] = v][m] = s[m]
  OBVIOUS

\* Releasing the lease of a row keeps every other column.
LEMMA ReleasedRow ==
    ASSUME NEW row \in AttemptRecord
    PROVE  /\ Released(row) \in AttemptRecord
           /\ Released(row).state = row.state
           /\ Released(row).deliveries = row.deliveries
           /\ Released(row).receipt = row.receipt
           /\ Released(row).lease = NoLease
  BY DEF Released, AttemptRecord

\* A receipt stays a receipt.
LEMMA ReceiptType ==
    ASSUME NEW receipt \in SafetyOutcome \cup {"NONE"}, NEW outcome \in SafetyOutcome
    PROVE  RecordedReceipt(receipt, outcome) \in SafetyOutcome \cup {"NONE"}
  BY DEF RecordedReceipt

\* nextTransportState() never steps down the order of transport states.
LEMMA NextTransportStateProgress ==
    ASSUME NEW current \in TransportState, NEW incoming \in TransportState
    PROVE  /\ NextTransportState(current, incoming) \in TransportState
           /\ Progress[NextTransportState(current, incoming)] >= Progress[current]
  BY DEF NextTransportState, TransportRanks, OpenTransport, Progress

-----------------------------------------------------------------------------
(* What the updates of an attempt do to its row.                           *)

\* The row stays well formed and its transport state does not step down.
RowMoves(old, new) == new \in AttemptRecord /\ Progress[new.state] >= Progress[old.state]

\* A row that is not written.
LEMMA SameRow ==
    ASSUME NEW row \in AttemptRecord
    PROVE  RowMoves(row, row)
  BY DEF RowMoves, AttemptRecord, Progress

\* FAILED_DEFINITIVE is the top of the order.
LEMMA FailedIsTop ==
    ASSUME NEW old \in TransportState, NEW new \in TransportState
    PROVE  /\ Progress["FAILED_DEFINITIVE"] >= Progress[old]
           /\ (old = "FAILED_DEFINITIVE" /\ Progress[new] >= Progress[old]) => new = "FAILED_DEFINITIVE"
           /\ (old = "DISPATCH_STARTED") => Progress[new] >= Progress[old]
           /\ (new = "DISPATCH_STARTED" /\ Progress[new] >= Progress[old]) => old = "DISPATCH_STARTED"
  BY DEF Progress

\* claimDue()
LEMMA ClaimedRowMoves ==
    ASSUME NEW row \in AttemptRecord, NEW d \in Dispatchers, Claimable(row)
    PROVE  /\ RowMoves(row, ClaimedRow(row, d))
           /\ ClaimedRow(row, d).state = row.state
           /\ ClaimedRow(row, d).lease = d
           /\ ClaimedRow(row, d).deliveries = row.deliveries + 1
  <1> DEFINE new == ClaimedRow(row, d)
  <1>1. row.deliveries + 1 \in 0 .. MaxIngressAttempts
    BY DEF AttemptRecord, Claimable
  <1>2. new \in AttemptRecord
    BY <1>1, Zenon DEF AttemptRecord, ClaimedRow
  <1>3. new.state = row.state /\ new.lease = d /\ new.deliveries = row.deliveries + 1
    BY Zenon DEF AttemptRecord, ClaimedRow
  <1>4. row.state \in TransportState
    BY DEF AttemptRecord
  <1> HIDE DEF new
  <1>5. Progress[new.state] >= Progress[row.state]
    BY <1>3, <1>4 DEF Progress
  <1> QED
    BY <1>2, <1>3, <1>5 DEF RowMoves, new

\* deferForDispatchReadiness()
LEMMA DeferredRowMoves ==
    ASSUME NEW row \in AttemptRecord
    PROVE  /\ RowMoves(row, DeferredRow(row))
           /\ DeferredRow(row).state = row.state /\ DeferredRow(row).lease = NoLease
           /\ DeferredRow(row).deliveries = IF row.deliveries > 0 THEN row.deliveries - 1 ELSE 0
  BY ReleasedRow DEF DeferredRow, RowMoves, AttemptRecord, Progress

\* reschedule()
LEMMA RescheduledRowMoves ==
    ASSUME NEW row \in AttemptRecord, NEW kind \in FailureKind
    PROVE  LET new == RescheduledRow(row, kind) IN
           /\ RowMoves(row, new)
           /\ new.state = row.state /\ new.deliveries = row.deliveries /\ new.lease = NoLease
  BY ReleasedRow DEF RescheduledRow, RowMoves, AttemptRecord, Progress

\* markAccepted()
LEMMA AcceptedRowMoves ==
    ASSUME NEW row \in AttemptRecord, row.state = "DISPATCH_STARTED"
    PROVE  RowMoves(row, AcceptedRow(row)) /\ AcceptedRow(row).state = "INGRESS_ACCEPTED"
  <1> DEFINE r == Released(row)
             r1 == [r EXCEPT !.state = "INGRESS_ACCEPTED"]
             r2 == [r1 EXCEPT !.kind = "NONE"]
  <1>1. r \in AttemptRecord
    BY ReleasedRow
  <1> HIDE DEF r
  <1>2. r1 \in AttemptRecord /\ r1.state = "INGRESS_ACCEPTED"
    BY <1>1 DEF AttemptRecord
  <1> HIDE DEF r1
  <1>3. r2 \in AttemptRecord /\ r2.state = "INGRESS_ACCEPTED"
    BY <1>2 DEF AttemptRecord
  <1>4. r2 = AcceptedRow(row)
    BY Zenon DEF r, r1, r2, AcceptedRow
  <1> HIDE DEF r2
  <1> QED
    BY <1>3, <1>4 DEF RowMoves, Progress

\* Closing an attempt, in whatever way.
LEMMA ClosedRow ==
    ASSUME NEW row \in AttemptRecord, NEW state \in TransportState, NEW kind \in FailureKind,
           NEW outcome \in SafetyOutcome
    PROVE  Closed(row, state, kind, outcome) \in AttemptRecord
           /\ Closed(row, state, kind, outcome).state = state
  <1> DEFINE receipt == RecordedReceipt(row.receipt, outcome)
             r == Released(row)
             r1 == [r EXCEPT !.state = state]
             r2 == [r1 EXCEPT !.kind = kind]
             r3 == [r2 EXCEPT !.receipt = receipt]
  <1>1. receipt \in SafetyOutcome \cup {"NONE"}
    <2>1. row.receipt \in SafetyOutcome \cup {"NONE"}
      BY DEF AttemptRecord
    <2> QED
      BY <2>1, ReceiptType
  <1>2. r \in AttemptRecord
    BY ReleasedRow
  <1> HIDE DEF receipt, r
  <1>3. r1 \in AttemptRecord /\ r1.state = state
    BY <1>2 DEF AttemptRecord
  <1> HIDE DEF r1
  <1>4. r2 \in AttemptRecord /\ r2.state = state
    BY <1>3 DEF AttemptRecord
  <1> HIDE DEF r2
  <1>5. r3 \in AttemptRecord /\ r3.state = state
    BY <1>1, <1>4 DEF AttemptRecord
  <1>6. r3 = Closed(row, state, kind, outcome)
    BY Zenon DEF r, r1, r2, r3, receipt, Closed
  <1> HIDE DEF r3
  <1> QED
    BY <1>5, <1>6

\* settleEvidenceTimeout(), and the outcomes of settle() and settleExpired(): from a state in
\* which the send has not been seen to end, closing an attempt moves it forward.
LEMMA ClosedRowMoves ==
    ASSUME NEW row \in AttemptRecord, row.state \in OpenTransport,
           NEW state \in {"FAILED_DEFINITIVE", "INDETERMINATE"}, NEW kind \in FailureKind,
           NEW outcome \in SafetyOutcome
    PROVE  /\ RowMoves(row, Closed(row, state, kind, outcome))
           /\ Closed(row, state, kind, outcome).state = state
  <1> DEFINE new == Closed(row, state, kind, outcome)
  <1>0. state \in TransportState
    OBVIOUS
  <1>1. new \in AttemptRecord /\ new.state = state
    <2> HIDE DEF TransportState, FailureKind, SafetyOutcome
    <2> QED
      BY <1>0, ClosedRow
  <1> HIDE DEF new
  <1>2. RowMoves(row, new) /\ new.state = state
    BY <1>1 DEF RowMoves, Progress, OpenTransport
  <1> QED
    BY <1>2 DEF new

\* rescheduleSafeRejection()
LEMMA RejectedRowMoves ==
    ASSUME NEW row \in AttemptRecord, row.state = "DISPATCH_STARTED"
    PROVE  RowMoves(row, RejectedRow(row)) /\ RejectedRow(row).state = "FAILED_DEFINITIVE"
  BY ClosedRowMoves DEF RejectedRow, OpenTransport

\* settle()
LEMMA SettledRowMoves ==
    ASSUME NEW row \in AttemptRecord, row.state = "DISPATCH_STARTED", NEW failed \in BOOLEAN
    PROVE  /\ RowMoves(row, SettledRow(row, failed))
           /\ SettledRow(row, failed).state # "DISPATCH_STARTED"
  BY ClosedRowMoves DEF SettledRow, OpenTransport

\* settleExpired()
LEMMA ExpiredRowMoves ==
    ASSUME NEW row \in AttemptRecord, row.state = "DISPATCH_STARTED", NEW failed \in BOOLEAN
    PROVE  /\ RowMoves(row, ExpiredRow(row, failed))
           /\ ExpiredRow(row, failed).state # "DISPATCH_STARTED"
  <1> DEFINE closed == Closed(row, "FAILED_DEFINITIVE", row.kind, "SAFE_REJECTION")
             other == Closed(row, "INDETERMINATE", row.kind, "AMBIGUOUS")
  <1>1. row.kind \in FailureKind
    BY DEF AttemptRecord
  <1>2. RowMoves(row, closed) /\ closed.state = "FAILED_DEFINITIVE"
    BY <1>1, ClosedRowMoves DEF OpenTransport
  <1>3. RowMoves(row, other) /\ other.state = "INDETERMINATE"
    BY <1>1, ClosedRowMoves DEF OpenTransport
  <1>4. ExpiredRow(row, failed) = IF failed THEN [closed EXCEPT !.unsent = TRUE] ELSE other
    BY DEF ExpiredRow
  <1> HIDE DEF closed, other
  <1>5. RowMoves(row, [closed EXCEPT !.unsent = TRUE])
        /\ [closed EXCEPT !.unsent = TRUE].state = "FAILED_DEFINITIVE"
    BY <1>2 DEF RowMoves, AttemptRecord
  <1> QED
    BY <1>3, <1>4, <1>5

\* projectInTransaction()
LEMMA ProjectedRowMoves ==
    ASSUME NEW row \in AttemptRecord, NEW i \in EvidenceNumbers, NEW kind \in EvidenceKind,
           NEW class \in ErrorClass
    PROVE  /\ RowMoves(row, ProjectedRow(row, i, kind, class))
           /\ ProjectedRow(row, i, kind, class).lease = row.lease
           /\ ProjectedRow(row, i, kind, class).deliveries = row.deliveries
  <1> DEFINE outcome == SafetyOutcomeFromConnectorEvidence(kind, class)
             receipt == IF outcome = "NONE" THEN row.receipt ELSE RecordedReceipt(row.receipt, outcome)
             state == NextTransportState(row.state, TransportStateFromEvidence[kind])
             r1 == [row EXCEPT !.state = state]
             r2 == [r1 EXCEPT !.lastSeq = i]
             r3 == [r2 EXCEPT !.receipt = receipt]
  <1>1. row.state \in TransportState /\ row.receipt \in SafetyOutcome \cup {"NONE"}
    BY DEF AttemptRecord
  <1>2. TransportStateFromEvidence[kind] \in TransportState
    BY DEF TransportStateFromEvidence
  <1>3. state \in TransportState /\ Progress[state] >= Progress[row.state]
    BY <1>1, <1>2, NextTransportStateProgress
  <1>4. outcome \in SafetyOutcome \cup {"NONE"}
    BY DEF SafetyOutcomeFromConnectorEvidence, ErrorClass
  <1> HIDE DEF outcome, state
  <1>5. receipt \in SafetyOutcome \cup {"NONE"}
    BY <1>1, <1>4, ReceiptType
  <1> HIDE DEF receipt
  <1>6. r1 \in AttemptRecord /\ r1.state = state /\ r1.lease = row.lease /\ r1.deliveries = row.deliveries
    BY <1>3 DEF AttemptRecord
  <1> HIDE DEF r1
  <1>7. r2 \in AttemptRecord /\ r2.state = state /\ r2.lease = row.lease /\ r2.deliveries = row.deliveries
    BY <1>6 DEF AttemptRecord
  <1> HIDE DEF r2
  <1>8. r3 \in AttemptRecord /\ r3.state = state /\ r3.lease = row.lease /\ r3.deliveries = row.deliveries
    BY <1>5, <1>7 DEF AttemptRecord
  <1>9. r3 = ProjectedRow(row, i, kind, class)
    BY Zenon DEF r1, r2, r3, receipt, state, outcome, ProjectedRow
  <1> HIDE DEF r3
  <1> QED
    BY <1>3, <1>8, <1>9 DEF RowMoves

-----------------------------------------------------------------------------
(* Steps: every action keeps the types and moves attempts forward only.    *)

\* No attempt disappears and none steps back.
Forward ==
    /\ Len(attempts') >= Len(attempts)
    /\ \A n \in Present : RowMoves(attempts[n], attempts'[n])

\* Elements of the three sequences.
LEMMA Elements ==
    ASSUME TypeOK, NEW n \in Present
    PROVE  /\ Row(n) \in AttemptRecord /\ attempts[n] \in AttemptRecord
           /\ plugin[n] \in PluginRecord /\ inbox[n] \in InboxRecord
           /\ Log(n) \in Seq(EvidenceKind) /\ Len(Log(n)) \in Nat /\ Len(Log(n)) <= 3 + MaxAcks
  <1>1. plugin[n] \in PluginRecord
    BY DEF TypeOK, Present
  <1>2. plugin[n].log \in Seq(EvidenceKind)
    BY <1>1 DEF PluginRecord
  <1> QED
    BY <1>1, <1>2 DEF TypeOK, Present, Row, Log

\* A step that leaves the attempts alone.
LEMMA NoWrite ==
    ASSUME TypeOK, attempts' = attempts
    PROVE  Forward
  <1>1. \A n \in Present : RowMoves(attempts[n], attempts[n])
    BY Elements, SameRow
  <1>2. Len(attempts) \in Nat
    BY DEF TypeOK
  <1> QED
    BY <1>1, <1>2 DEF Forward

\* A step that writes one row.
LEMMA OneWrite ==
    ASSUME TypeOK, NEW n \in Present, NEW row, RowMoves(Row(n), row), Write(n, row)
    PROVE  /\ Forward
           /\ attempts' \in Seq(AttemptRecord) /\ Len(attempts') = Len(attempts) /\ Present' = Present
           /\ attempts'[n] = row
           /\ \A m \in Present : m # n => attempts'[m] = attempts[m]
  <1>1. row \in AttemptRecord /\ attempts \in Seq(AttemptRecord) /\ n \in 1 .. Len(attempts)
    BY DEF RowMoves, TypeOK, Present
  <1>2. /\ attempts' \in Seq(AttemptRecord) /\ Len(attempts') = Len(attempts) /\ attempts'[n] = row
        /\ \A m \in 1 .. Len(attempts) : m # n => attempts'[m] = attempts[m]
    BY <1>1, SeqExcept DEF Write
  <1>3. \A m \in Present : RowMoves(attempts[m], attempts'[m])
    BY <1>2, Elements, SameRow DEF Present, Row
  <1>4. Len(attempts) \in Nat
    BY <1>1
  <1> QED
    BY <1>2, <1>3, <1>4 DEF Forward, Present

\* Setting what one dispatcher does.
LEMMA DispatcherSet ==
    ASSUME TypeOK, NEW d \in Dispatchers, NEW r \in DispatcherRecord,
           r.phase # "idle" => r.n \in Present, Present' = Present,
           disp' = [disp EXCEPT ![d] = r]
    PROVE  /\ disp' \in [Dispatchers -> DispatcherRecord]
           /\ \A e \in Dispatchers : disp'[e].phase # "idle" => disp'[e].n \in Present'
           /\ disp'[d] = r /\ \A e \in Dispatchers : e # d => disp'[e] = disp[e]
  BY DEF TypeOK

\* The types after a step on one row, or on none, that leaves connector and inbox alone.
LEMMA RowsTyped ==
    ASSUME TypeOK, attempts' \in Seq(AttemptRecord), Len(attempts') = Len(attempts),
           status' \in JobStatus, started' \in BOOLEAN, messageId' \in {0} \cup Numbers,
           disp' \in [Dispatchers -> DispatcherRecord],
           \A e \in Dispatchers : disp'[e].phase # "idle" => disp'[e].n \in Present,
           UNCHANGED <<plugin, inbox>>
    PROVE  TypeOK'
  BY DEF TypeOK, Present, Log

\* An idle dispatcher.
LEMMA IdleTyped == Idle \in DispatcherRecord /\ Idle.phase = "idle"
  BY DEF Idle, DispatcherRecord

\* What TypeOK says of a busy dispatcher.
LEMMA Busy ==
    ASSUME TypeOK, NEW d \in Dispatchers, disp[d].phase # "idle"
    PROVE  /\ disp[d] \in DispatcherRecord /\ disp[d].n \in Present
           /\ Row(disp[d].n) \in AttemptRecord
  BY Elements DEF TypeOK

\* A dispatcher that writes back the row it owns and goes idle.
LEMMA WriteBackStep ==
    ASSUME TypeOK, NEW d \in Dispatchers, disp[d].phase # "idle", NEW row,
           Owned(d) => RowMoves(Row(disp[d].n), row),
           WriteBack(d, row), Finish(d), status' \in JobStatus, started' \in BOOLEAN,
           UNCHANGED <<messageId, plugin, inbox>>
    PROVE  /\ TypeOK' /\ Forward /\ Present' = Present
           /\ attempts'[disp[d].n] = IF Owned(d) THEN row ELSE Row(disp[d].n)
           /\ \A m \in Present : m # disp[d].n => attempts'[m] = attempts[m]
           /\ disp'[d] = Idle /\ \A e \in Dispatchers : e # d => disp'[e] = disp[e]
  <1> DEFINE new == IF Owned(d) THEN row ELSE Row(disp[d].n)
  <1>1. disp[d].n \in Present /\ RowMoves(Row(disp[d].n), new)
    BY Busy, SameRow
  <1>2. Write(disp[d].n, new)
    BY DEF WriteBack
  <1> HIDE DEF new
  <1>3. /\ Forward
        /\ attempts' \in Seq(AttemptRecord) /\ Len(attempts') = Len(attempts) /\ Present' = Present
        /\ attempts'[disp[d].n] = new
        /\ \A m \in Present : m # disp[d].n => attempts'[m] = attempts[m]
    BY <1>1, <1>2, OneWrite
  <1>4. /\ disp' \in [Dispatchers -> DispatcherRecord]
        /\ \A e \in Dispatchers : disp'[e].phase # "idle" => disp'[e].n \in Present'
        /\ disp'[d] = Idle /\ \A e \in Dispatchers : e # d => disp'[e] = disp[e]
    BY <1>3, IdleTyped, DispatcherSet DEF Finish
  <1>5. TypeOK'
    BY <1>3, <1>4, RowsTyped DEF TypeOK
  <1> QED
    BY <1>3, <1>4, <1>5 DEF new

\* The job is, or may be, taken up for sending.
Reopenable == ~started \/ status \in {"SCHEDULED", "QUEUED"}

\* A step that can only make the job reopenable if it was.
StaysClosed == Reopenable' => Reopenable

\* A step that keeps the types, steps no attempt back and does not reopen the job.
Quiet == TypeOK' /\ Forward /\ Len(attempts') = Len(attempts) /\ StaysClosed

\* Steps on the status of the job alone.
LEMMA StatusSteps ==
    ASSUME TypeOK, ClaimDueJob \/ RequeueJob \/ MarkProcessing \/ DeferProcessing
    PROVE  Quiet
  <1>1. Forward /\ Len(attempts') = Len(attempts)
    BY NoWrite DEF ClaimDueJob, RequeueJob, MarkProcessing, DeferProcessing
  <1>2. status' \in JobStatus
    BY DEF ClaimDueJob, RequeueJob, MarkProcessing, DeferProcessing
  <1>3. UNCHANGED <<started, messageId, attempts, disp, plugin, inbox>>
    BY DEF ClaimDueJob, RequeueJob, MarkProcessing, DeferProcessing
  <1>4. TypeOK'
    BY <1>2, <1>3 DEF TypeOK, Present, Log
  <1>5. StaysClosed
    BY DEF StaysClosed, Reopenable, ClaimDueJob, RequeueJob, MarkProcessing, DeferProcessing
  <1> QED
    BY <1>1, <1>4, <1>5 DEF Quiet

\* updateResult('FAILED') before the commit.
LEMMA FailBeforeStartStep ==
    ASSUME TypeOK, FailBeforeStart
    PROVE  Quiet
  <1>1. StaysClosed
    BY DEF StaysClosed, Reopenable, FailBeforeStart
  <1>2. CASE attempts = <<>>
    <2>1. attempts' = attempts
      BY <1>2 DEF FailBeforeStart
    <2>2. TypeOK'
      BY <2>1 DEF FailBeforeStart, TypeOK, Present, Log
    <2> QED
      BY <1>1, <2>1, <2>2, NoWrite DEF Quiet
  <1>3. CASE attempts # <<>>
    <2> DEFINE n == Len(attempts)
               row == [attempts[n] EXCEPT !.state = "FAILED_DEFINITIVE"]
    <2>1. n \in Present
      BY <1>3 DEF Present, TypeOK
    <2>2. attempts' = [attempts EXCEPT ![n] = row]
      BY <1>3 DEF FailBeforeStart
    <2>3. attempts[n] \in AttemptRecord
      BY <2>1, Elements
    <2> HIDE DEF n
    <2>4. RowMoves(Row(n), row)
      <3>1. row \in AttemptRecord /\ row.state = "FAILED_DEFINITIVE" /\ attempts[n].state \in TransportState
        BY <2>3 DEF AttemptRecord
      <3> QED
        BY <3>1, FailedIsTop DEF RowMoves, Row
    <2> HIDE DEF row
    <2>5. /\ Forward /\ attempts' \in Seq(AttemptRecord) /\ Len(attempts') = Len(attempts)
      BY <2>1, <2>2, <2>4, OneWrite DEF Write
    <2>6. TypeOK'
      BY <2>5, RowsTyped DEF FailBeforeStart, TypeOK
    <2> QED
      BY <1>1, <2>5, <2>6 DEF Quiet
  <1> QED
    BY <1>2, <1>3

\* A sequence and what is appended to it.
LEMMA SeqAppend ==
    ASSUME NEW S, NEW s \in Seq(S), NEW v \in S
    PROVE  /\ Append(s, v) \in Seq(S) /\ Len(Append(s, v)) = Len(s) + 1
           /\ Append(s, v)[Len(s) + 1] = v
           /\ \A m \in 1 .. Len(s) : Append(s, v)[m] = s[m]
  OBVIOUS

\* commitMessageStart(): the only step that adds an attempt.
LEMMA CommitStep ==
    ASSUME TypeOK, CommitMessageStart
    PROVE  /\ TypeOK' /\ Forward
           /\ Len(attempts') = Len(attempts) + 1 /\ Len(attempts) \in Nat
           /\ \A m \in Present : attempts'[m] = attempts[m] /\ plugin'[m] = plugin[m]
           /\ attempts'[Len(attempts')] = NewAttempt /\ plugin'[Len(attempts')].log = <<>>
           /\ Reopenable /\ ~Reopenable'
  <1> DEFINE p == [log |-> <<>>, effect |-> FALSE]
             b == [recorded |-> {}, dead |-> {}]
  <1>1. NewAttempt \in AttemptRecord
    BY DEF NewAttempt, AttemptRecord
  <1>2. p \in PluginRecord /\ b \in InboxRecord /\ p.log = <<>>
    BY DEF PluginRecord, InboxRecord
  <1>3. /\ attempts' = Append(attempts, NewAttempt) /\ plugin' = Append(plugin, p) /\ inbox' = Append(inbox, b)
        /\ started' = TRUE /\ UNCHANGED <<status, messageId, disp>>
        /\ status = "PROCESSING" /\ ~started /\ Len(attempts) < MaxAttempts
    BY DEF CommitMessageStart
  <1> HIDE DEF p, b
  <1>4. /\ attempts' \in Seq(AttemptRecord) /\ Len(attempts') = Len(attempts) + 1
        /\ attempts'[Len(attempts) + 1] = NewAttempt
        /\ \A m \in 1 .. Len(attempts) : attempts'[m] = attempts[m]
    BY <1>1, <1>3, SeqAppend DEF TypeOK
  <1>5. /\ plugin' \in Seq(PluginRecord) /\ Len(plugin') = Len(attempts) + 1
        /\ plugin'[Len(attempts) + 1] = p
        /\ \A m \in 1 .. Len(attempts) : plugin'[m] = plugin[m]
    BY <1>2, <1>3, SeqAppend DEF TypeOK
  <1>6. inbox' \in Seq(InboxRecord) /\ Len(inbox') = Len(attempts) + 1
    BY <1>2, <1>3, SeqAppend DEF TypeOK
  <1>7. Len(attempts) \in Nat /\ Present' = 1 .. Len(attempts) + 1 /\ Present \subseteq Present'
    BY <1>4 DEF Present, TypeOK
  <1>8. \A m \in Present' : Len(plugin'[m].log) <= 3 + MaxAcks
    <2>1. \A m \in Present : Len(plugin[m].log) <= 3 + MaxAcks
      BY DEF TypeOK, Log
    <2>2. Len(p.log) <= 3 + MaxAcks
      BY <1>2
    <2>3. \A m \in Present' : m \in 1 .. Len(attempts) \/ m = Len(attempts) + 1
      BY <1>7
    <2> QED
      BY <1>5, <2>1, <2>2, <2>3 DEF Present
  <1>9. TypeOK'
    <2>1. \A d \in Dispatchers : disp'[d].phase # "idle" => disp'[d].n \in Present'
      BY <1>3, <1>7 DEF TypeOK
    <2>2. Len(attempts') <= MaxAttempts
      BY <1>3, <1>4, <1>7
    <2> QED
      BY <1>3, <1>4, <1>5, <1>6, <1>8, <2>1, <2>2 DEF TypeOK, Log
  <1>10. Forward
    <2>1. \A m \in Present : RowMoves(attempts[m], attempts'[m])
      BY <1>4, Elements, SameRow DEF Present
    <2> QED
      BY <1>4, <1>7, <2>1 DEF Forward
  <1>11. Reopenable /\ ~Reopenable'
    BY <1>3 DEF Reopenable
  <1>12. \A m \in Present : attempts'[m] = attempts[m] /\ plugin'[m] = plugin[m]
    BY <1>4, <1>5 DEF Present
  <1>13. attempts'[Len(attempts')] = NewAttempt /\ plugin'[Len(attempts')].log = <<>>
    BY <1>2, <1>4, <1>5
  <1> QED
    BY <1>4, <1>7, <1>9, <1>10, <1>11, <1>12, <1>13

-----------------------------------------------------------------------------
(* The dispatchers.                                                        *)

\* claimDue()
LEMMA ClaimStep ==
    ASSUME TypeOK, NEW d \in Dispatchers, NEW n \in Present, ClaimCommand(d, n)
    PROVE  /\ Quiet /\ Present' = Present
           /\ attempts'[n] = ClaimedRow(Row(n), d)
           /\ \A m \in Present : m # n => attempts'[m] = attempts[m]
           /\ disp'[d].phase = "claimed" /\ disp'[d].n = n
           /\ \A e \in Dispatchers : e # d => disp'[e] = disp[e]
  <1> DEFINE row == ClaimedRow(Row(n), d)
             r == [phase |-> "claimed", n |-> n, delivery |-> row.deliveries, answer |-> "NONE"]
  <1>1. Row(n) \in AttemptRecord /\ Claimable(Row(n))
    BY Elements DEF ClaimCommand
  <1>2. RowMoves(Row(n), row)
    BY <1>1, ClaimedRowMoves
  <1>3. Write(n, row) /\ disp' = [disp EXCEPT ![d] = r] /\ UNCHANGED <<status, started, messageId, plugin, inbox>>
    BY DEF ClaimCommand
  <1>4. r \in DispatcherRecord /\ r.phase = "claimed" /\ r.n = n
    <2>1. row.deliveries \in 0 .. MaxIngressAttempts
      BY <1>2 DEF RowMoves, AttemptRecord
    <2>2. n \in Numbers
      BY DEF Present, Numbers, TypeOK
    <2> HIDE DEF row
    <2> QED
      BY <2>1, <2>2 DEF DispatcherRecord
  <1> HIDE DEF row, r
  <1>5. /\ Forward
        /\ attempts' \in Seq(AttemptRecord) /\ Len(attempts') = Len(attempts) /\ Present' = Present
        /\ attempts'[n] = row
        /\ \A m \in Present : m # n => attempts'[m] = attempts[m]
    BY <1>2, <1>3, OneWrite
  <1>6. /\ disp' \in [Dispatchers -> DispatcherRecord]
        /\ \A e \in Dispatchers : disp'[e].phase # "idle" => disp'[e].n \in Present'
        /\ disp'[d] = r /\ \A e \in Dispatchers : e # d => disp'[e] = disp[e]
    BY <1>3, <1>4, <1>5, DispatcherSet
  <1>7. TypeOK'
    BY <1>3, <1>5, <1>6, RowsTyped DEF TypeOK
  <1>8. StaysClosed
    BY <1>3 DEF StaysClosed, Reopenable
  <1> QED
    BY <1>4, <1>5, <1>6, <1>7, <1>8 DEF Quiet, row

\* The writes of a dispatcher that leave the job alone, or settle it.
LEMMA WriteBackActions ==
    ASSUME TypeOK, NEW d \in Dispatchers,
           DeferForDispatchReadiness(d) \/ MarkAccepted(d) \/ Reschedule(d) \/ Settle(d)
    PROVE  Quiet
  <1>1. disp[d].phase # "idle"
    BY DEF DeferForDispatchReadiness, MarkAccepted, Reschedule, Settle
  <1>2. /\ disp[d].n \in Present /\ Row(disp[d].n) \in AttemptRecord
        /\ Owned(d) => Row(disp[d].n).state = "DISPATCH_STARTED"
    BY <1>1, Busy DEF Owned
  <1>3. Finish(d) /\ UNCHANGED <<started, messageId, plugin, inbox>>
    BY DEF DeferForDispatchReadiness, MarkAccepted, Reschedule, Settle
  <1>4. status' \in JobStatus /\ StaysClosed
    BY <1>3 DEF DeferForDispatchReadiness, MarkAccepted, Reschedule, Settle, TypeOK, FromProcessing,
                StaysClosed, Reopenable
  <1>5. started' \in BOOLEAN
    BY <1>3 DEF TypeOK
  <1>6. PICK row : WriteBack(d, row) /\ (Owned(d) => RowMoves(Row(disp[d].n), row))
    <2>1. CASE DeferForDispatchReadiness(d)
      BY <2>1, <1>2, DeferredRowMoves DEF DeferForDispatchReadiness
    <2>2. CASE MarkAccepted(d)
      BY <2>2, <1>2, AcceptedRowMoves DEF MarkAccepted
    <2>3. CASE Reschedule(d)
      <3>1. disp[d].answer \in FailureKind
        BY <2>3 DEF Reschedule
      <3>2. RowMoves(Row(disp[d].n), RescheduledRow(Row(disp[d].n), disp[d].answer))
        BY <1>2, <3>1, RescheduledRowMoves
      <3> QED
        BY <2>3, <3>2 DEF Reschedule
    <2>4. CASE Settle(d)
      BY <2>4, <1>2, SettledRowMoves DEF Settle
    <2> QED
      BY <2>1, <2>2, <2>3, <2>4
  <1>7. TypeOK' /\ Forward /\ Present' = Present
    BY <1>1, <1>3, <1>4, <1>5, <1>6, WriteBackStep
  <1>8. Len(attempts') = Len(attempts)
    BY <1>7 DEF TypeOK, Present, Forward
  <1> QED
    BY <1>4, <1>7, <1>8 DEF Quiet

\* rescheduleSafeRejection(): the only step that reopens a job, and it closes the attempt.
LEMMA SafeRejectionStep ==
    ASSUME TypeOK, NEW d \in Dispatchers, RescheduleSafeRejection(d)
    PROVE  /\ TypeOK' /\ Forward /\ Present' = Present
           /\ StaysClosed \/ (/\ Row(disp[d].n).state = "DISPATCH_STARTED" /\ disp[d].n \in Present
                              /\ attempts'[disp[d].n].state = "FAILED_DEFINITIVE"
                              /\ \A m \in Present : m # disp[d].n => attempts'[m] = attempts[m])
  <1> DEFINE row == RejectedRow(Row(disp[d].n))
  <1>1. disp[d].phase # "idle" /\ WriteBack(d, row) /\ Finish(d) /\ UNCHANGED <<messageId, plugin, inbox>>
    BY DEF RescheduleSafeRejection
  <1>2. /\ disp[d].n \in Present /\ Row(disp[d].n) \in AttemptRecord
        /\ Owned(d) => Row(disp[d].n).state = "DISPATCH_STARTED"
    BY <1>1, Busy DEF Owned
  <1>3. Owned(d) => RowMoves(Row(disp[d].n), row) /\ row.state = "FAILED_DEFINITIVE"
    BY <1>2, RejectedRowMoves
  <1>4. status' \in JobStatus /\ started' \in BOOLEAN
    BY DEF RescheduleSafeRejection, FromProcessing, TypeOK
  <1> HIDE DEF row
  <1>5. /\ TypeOK' /\ Forward /\ Present' = Present
        /\ attempts'[disp[d].n] = IF Owned(d) THEN row ELSE Row(disp[d].n)
        /\ \A m \in Present : m # disp[d].n => attempts'[m] = attempts[m]
    BY <1>1, <1>3, <1>4, WriteBackStep
  <1>6. CASE Owned(d)
    BY <1>2, <1>3, <1>5, <1>6
  <1>7. CASE ~Owned(d)
    BY <1>5, <1>7 DEF RescheduleSafeRejection, StaysClosed, Reopenable
  <1> QED
    BY <1>5, <1>6, <1>7

\* The connector journals a command it receives.
LEMMA ReceivedTyped ==
    ASSUME TypeOK, NEW n \in Present
    PROVE  /\ Received(plugin[n]) \in PluginRecord
           /\ Len(Received(plugin[n]).log) <= 3 + MaxAcks
           /\ Received(plugin[n]).log # <<>>
  <1>1. plugin[n] \in PluginRecord /\ Len(plugin[n].log) <= 3 + MaxAcks
    BY Elements DEF Log
  <1>2. <<"COMMAND_RECEIVED">> \in Seq(EvidenceKind) /\ Len(<<"COMMAND_RECEIVED">>) = 1
    OBVIOUS
  <1>3. CASE plugin[n].log = <<>>
    <2>1. Received(plugin[n]) = [plugin[n] EXCEPT !.log = <<"COMMAND_RECEIVED">>]
      BY <1>3 DEF Received
    <2>2. Received(plugin[n]) \in PluginRecord /\ Received(plugin[n]).log = <<"COMMAND_RECEIVED">>
      BY <1>1, <1>2, <2>1 DEF PluginRecord
    <2> QED
      BY <1>2, <2>2
  <1>4. CASE plugin[n].log # <<>>
    BY <1>1, <1>4 DEF Received
  <1> QED
    BY <1>3, <1>4

\* A step on the connector's side of one attempt.
LEMMA PluginSet ==
    ASSUME TypeOK, NEW n \in Present, NEW p \in PluginRecord, Len(p.log) <= 3 + MaxAcks,
           plugin' = [plugin EXCEPT ![n] = p], attempts' = attempts
    PROVE  /\ plugin' \in Seq(PluginRecord) /\ Len(plugin') = Len(attempts')
           /\ \A m \in Present' : Len(plugin'[m].log) <= 3 + MaxAcks
           /\ plugin'[n] = p /\ \A m \in Present : m # n => plugin'[m] = plugin[m]
  <1>1. plugin \in Seq(PluginRecord) /\ Len(plugin) = Len(attempts) /\ n \in 1 .. Len(plugin)
    BY DEF TypeOK, Present
  <1>2. /\ plugin' \in Seq(PluginRecord) /\ Len(plugin') = Len(plugin) /\ plugin'[n] = p
        /\ \A m \in 1 .. Len(plugin) : m # n => plugin'[m] = plugin[m]
    BY <1>1, SeqExcept
  <1>3. Present' = 1 .. Len(plugin) /\ Present = 1 .. Len(plugin)
    BY <1>1 DEF Present
  <1>4. \A m \in Present : Len(plugin[m].log) <= 3 + MaxAcks
    BY DEF TypeOK, Log
  <1> QED
    BY <1>1, <1>2, <1>3, <1>4

\* The types after a step on the connector's side.
LEMMA PluginTyped ==
    ASSUME TypeOK, UNCHANGED <<status, started, messageId, attempts, inbox>>,
           plugin' \in Seq(PluginRecord), Len(plugin') = Len(attempts'),
           \A m \in Present' : Len(plugin'[m].log) <= 3 + MaxAcks,
           disp' \in [Dispatchers -> DispatcherRecord],
           \A e \in Dispatchers : disp'[e].phase # "idle" => disp'[e].n \in Present
    PROVE  Quiet
  <1>1. TypeOK'
    BY DEF TypeOK, Present, Log
  <1>2. Forward
    BY NoWrite
  <1> QED
    BY <1>1, <1>2 DEF Quiet, StaysClosed, Reopenable

\* submit(), and a dispatcher that dies, possibly with its request on the way.
LEMMA SubmitSteps ==
    ASSUME TypeOK, NEW d \in Dispatchers,
           \/ \E answer \in Answer, arrived \in BOOLEAN : Submit(d, answer, arrived)
           \/ DispatcherDies(d)
    PROVE  /\ Quiet /\ attempts' = attempts /\ disp[d].phase # "idle" /\ disp[d].n \in Present
           /\ disp'[d].phase # "claimed"
           /\ \A e \in Dispatchers : e # d => disp'[e] = disp[e]
           /\ plugin' # plugin => disp[d].phase = "claimed"
           /\ \A m \in Present : plugin'[m] # plugin[m] => m = disp[d].n
  <1>1. UNCHANGED <<status, started, messageId, attempts, inbox>> /\ disp[d].phase # "idle"
    BY DEF Submit, DispatcherDies
  <1>2. disp[d] \in DispatcherRecord /\ disp[d].n \in Present /\ Present' = Present
    BY <1>1, Busy DEF Present
  <1>3. \/ plugin' = plugin
        \/ disp[d].phase = "claimed" /\ plugin' = [plugin EXCEPT ![disp[d].n] = Received(plugin[disp[d].n])]
    BY DEF Submit, DispatcherDies
  <1>4. /\ plugin' \in Seq(PluginRecord) /\ Len(plugin') = Len(attempts')
        /\ \A m \in Present' : Len(plugin'[m].log) <= 3 + MaxAcks
        /\ \A m \in Present : plugin'[m] # plugin[m] => m = disp[d].n
    <2>1. CASE plugin' = plugin
      BY <1>1, <1>2, <2>1 DEF TypeOK, Log
    <2>2. CASE plugin' = [plugin EXCEPT ![disp[d].n] = Received(plugin[disp[d].n])]
      <3> DEFINE n == disp[d].n
                 p == Received(plugin[n])
      <3>1. p \in PluginRecord /\ Len(p.log) <= 3 + MaxAcks
        BY <1>2, ReceivedTyped
      <3>2. plugin' = [plugin EXCEPT ![n] = p] /\ n \in Present
        BY <1>2, <2>2
      <3> HIDE DEF n, p
      <3>3. /\ plugin' \in Seq(PluginRecord) /\ Len(plugin') = Len(attempts')
            /\ \A m \in Present' : Len(plugin'[m].log) <= 3 + MaxAcks
            /\ plugin'[n] = p /\ \A m \in Present : m # n => plugin'[m] = plugin[m]
        BY <1>1, <3>1, <3>2, PluginSet
      <3> QED
        BY <3>3 DEF n
    <2> QED
      BY <1>3, <2>1, <2>2
  <1>5. PICK r \in DispatcherRecord :
            /\ disp' = [disp EXCEPT ![d] = r] /\ r.phase # "claimed"
            /\ r.phase # "idle" => r.n \in Present
    <2>1. CASE DispatcherDies(d)
      BY <2>1, IdleTyped DEF DispatcherDies, Finish
    <2>2. ASSUME NEW answer \in Answer, NEW arrived \in BOOLEAN, Submit(d, answer, arrived)
          PROVE  \E r \in DispatcherRecord :
                    /\ disp' = [disp EXCEPT ![d] = r] /\ r.phase # "claimed"
                    /\ r.phase # "idle" => r.n \in Present
      <3> DEFINE r == [phase |-> "answered", n |-> disp[d].n, delivery |-> disp[d].delivery, answer |-> answer]
      <3>1. r \in DispatcherRecord /\ r.phase = "answered" /\ r.n = disp[d].n
        BY <1>2 DEF DispatcherRecord
      <3>2. disp' = [disp EXCEPT ![d] = r]
        <4>1. disp' = [disp EXCEPT ![d].phase = "answered", ![d].answer = answer]
          BY <2>2 DEF Submit
        <4>2. [[disp[d] EXCEPT !.phase = "answered"] EXCEPT !.answer = answer] = r
          <5> DEFINE q == [disp[d] EXCEPT !.phase = "answered"]
          <5>1. q \in DispatcherRecord /\ q = [phase |-> "answered", n |-> disp[d].n,
                          delivery |-> disp[d].delivery, answer |-> disp[d].answer]
            BY <1>2 DEF DispatcherRecord
          <5> HIDE DEF q
          <5>2. [q EXCEPT !.answer = answer] = r
            BY <5>1 DEF DispatcherRecord
          <5> QED
            BY <5>2 DEF q
        <4>3. disp \in [Dispatchers -> DispatcherRecord]
          BY DEF TypeOK
        <4> HIDE DEF r
        <4> QED
          BY <4>1, <4>2, <4>3, Zenon
      <3> HIDE DEF r
      <3> QED
        BY <1>2, <3>1, <3>2
    <2> QED
      BY <2>1, <2>2
  <1>6. /\ disp' \in [Dispatchers -> DispatcherRecord]
        /\ \A e \in Dispatchers : disp'[e].phase # "idle" => disp'[e].n \in Present'
        /\ disp'[d] = r /\ \A e \in Dispatchers : e # d => disp'[e] = disp[e]
    BY <1>2, <1>5, DispatcherSet
  <1>7. Quiet
    BY <1>1, <1>2, <1>4, <1>6, PluginTyped
  <1> QED
    BY <1>1, <1>2, <1>3, <1>4, <1>5, <1>6, <1>7

-----------------------------------------------------------------------------
(* Deadlines.                                                              *)

\* Leases and commands run out; settleExpired() and settleEvidenceTimeout().
LEMMA DeadlineSteps ==
    ASSUME TypeOK, NEW n \in Present, DeadlineStep(n)
    PROVE  /\ Quiet /\ UNCHANGED <<disp, plugin>> /\ Present' = Present
           /\ \A m \in Present : m # n => attempts'[m] = attempts[m]
           /\ attempts'[n].state = "DISPATCH_STARTED" =>
                 /\ attempts[n].state = "DISPATCH_STARTED"
                 /\ attempts'[n].lease = attempts[n].lease /\ attempts'[n].deliveries = attempts[n].deliveries
  <1>1. Row(n) \in AttemptRecord /\ Row(n).kind \in FailureKind
    BY Elements DEF AttemptRecord
  <1>2. UNCHANGED <<started, messageId, disp, plugin, inbox>>
    BY DEF DeadlineStep, LeaseExpires, CommandExpires, SettleExpired, SettleEvidenceTimeout
  <1>3. status' \in JobStatus /\ StaysClosed
    BY <1>2 DEF DeadlineStep, LeaseExpires, CommandExpires, SettleExpired, SettleEvidenceTimeout,
                FromProcessing, TypeOK, StaysClosed, Reopenable
  <1>4. PICK row : /\ Write(n, row) /\ RowMoves(Row(n), row)
                   /\ row.state = "DISPATCH_STARTED" =>
                         /\ Row(n).state = "DISPATCH_STARTED"
                         /\ row.lease = Row(n).lease /\ row.deliveries = Row(n).deliveries
    <2>1. CASE LeaseExpires(n)
      <3> DEFINE row == [Row(n) EXCEPT !.leaseLive = FALSE]
      <3>1. /\ row \in AttemptRecord /\ row.state = Row(n).state /\ row.lease = Row(n).lease
            /\ row.deliveries = Row(n).deliveries
        BY <1>1 DEF AttemptRecord
      <3>2. Write(n, row)
        BY <2>1 DEF LeaseExpires
      <3> HIDE DEF row
      <3>3. RowMoves(Row(n), row)
        BY <1>1, <3>1, SameRow DEF RowMoves
      <3> QED
        BY <3>1, <3>2, <3>3
    <2>2. CASE CommandExpires(n)
      <3> DEFINE row == [Row(n) EXCEPT !.expired = TRUE]
      <3>1. /\ row \in AttemptRecord /\ row.state = Row(n).state /\ row.lease = Row(n).lease
            /\ row.deliveries = Row(n).deliveries
        BY <1>1 DEF AttemptRecord
      <3>2. Write(n, row)
        BY <2>2 DEF CommandExpires
      <3> HIDE DEF row
      <3>3. RowMoves(Row(n), row)
        BY <1>1, <3>1, SameRow DEF RowMoves
      <3> QED
        BY <3>1, <3>2, <3>3
    <2>3. CASE SettleExpired(n)
      <3> DEFINE failed == Row(n).deliveries = 0 \/ Row(n).kind = "RATE_LIMITED_SAFE"
                 row == ExpiredRow(Row(n), failed)
      <3>1. Write(n, row) /\ Row(n).state = "DISPATCH_STARTED"
        BY <2>3 DEF SettleExpired, Expirable
      <3>2. failed \in BOOLEAN
        OBVIOUS
      <3> HIDE DEF failed
      <3>3. RowMoves(Row(n), row) /\ row.state # "DISPATCH_STARTED"
        BY <1>1, <3>1, <3>2, ExpiredRowMoves
      <3> QED
        BY <3>1, <3>3
    <2>4. CASE SettleEvidenceTimeout(n)
      <3> DEFINE row == Closed(Row(n), "INDETERMINATE", Row(n).kind, "AMBIGUOUS")
      <3>1. Write(n, row) /\ Row(n).state \in OpenTransport
        BY <2>4 DEF SettleEvidenceTimeout, AwaitsEvidence, OpenTransport
      <3>2. RowMoves(Row(n), row) /\ row.state = "INDETERMINATE"
        BY <1>1, <3>1, ClosedRowMoves
      <3> HIDE DEF row
      <3> QED
        BY <3>1, <3>2
    <2> QED
      BY <2>1, <2>2, <2>3, <2>4 DEF DeadlineStep
  <1>5. /\ Forward
        /\ attempts' \in Seq(AttemptRecord) /\ Len(attempts') = Len(attempts) /\ Present' = Present
        /\ attempts'[n] = row
        /\ \A m \in Present : m # n => attempts'[m] = attempts[m]
    BY <1>4, OneWrite
  <1>6. TypeOK'
    BY <1>2, <1>3, <1>5, RowsTyped DEF TypeOK
  <1> QED
    BY <1>2, <1>3, <1>4, <1>5, <1>6 DEF Quiet, Row

-----------------------------------------------------------------------------
(* The connector.                                                          *)

\* The connector goes on with a command it holds.
LEMMA PluginSteps ==
    ASSUME TypeOK, NEW n \in Present, PluginStep(n)
    PROVE  /\ Quiet /\ UNCHANGED <<attempts, disp>> /\ Log(n) # <<>>
           /\ \A m \in Present : m # n => plugin'[m] = plugin[m]
  <1>1. UNCHANGED <<status, started, messageId, attempts, disp, inbox>>
    BY DEF PluginStep, PluginRejects, PluginStarts, PluginSends, PluginReports, PluginAcknowledges, Emits
  <1>2. plugin[n] \in PluginRecord /\ Log(n) \in Seq(EvidenceKind) /\ Len(Log(n)) <= 3 + MaxAcks
    BY Elements
  <1>3. PICK p \in PluginRecord : plugin' = [plugin EXCEPT ![n] = p] /\ Len(p.log) <= 3 + MaxAcks
    <2>1. CASE PluginSends(n)
      <3> DEFINE p == [plugin[n] EXCEPT !.effect = TRUE]
      <3>1. p \in PluginRecord /\ p.log = plugin[n].log
        BY <1>2 DEF PluginRecord
      <3>2. plugin' = [plugin EXCEPT ![n] = p]
        BY <2>1 DEF PluginSends
      <3> HIDE DEF p
      <3> QED
        BY <1>2, <3>1, <3>2 DEF Log
    <2>2. ASSUME NEW kind \in EvidenceKind, Emits(n, kind), Len(Log(n)) < 3 + MaxAcks
          PROVE  \E p \in PluginRecord : plugin' = [plugin EXCEPT ![n] = p] /\ Len(p.log) <= 3 + MaxAcks
      <3> DEFINE log == Append(plugin[n].log, kind)
                 p == [plugin[n] EXCEPT !.log = log]
      <3>1. log \in Seq(EvidenceKind) /\ Len(log) = Len(Log(n)) + 1
        BY <1>2, SeqAppend DEF Log
      <3>2. plugin' = [plugin EXCEPT ![n] = p]
        BY <2>2 DEF Emits
      <3> HIDE DEF log
      <3>3. p \in PluginRecord /\ p.log = log
        BY <1>2, <3>1 DEF PluginRecord
      <3>4. Len(log) <= 3 + MaxAcks
        BY <1>2, <2>2, <3>1
      <3> HIDE DEF p
      <3> QED
        BY <3>2, <3>3, <3>4
    <2>3. CASE PluginRejects(n) \/ PluginStarts(n)
      <3>1. PICK kind \in EvidenceKind : Emits(n, kind) /\ Log(n) = <<"COMMAND_RECEIVED">>
        BY <2>3 DEF PluginRejects, PluginStarts
      <3>2. Len(Log(n)) < 3 + MaxAcks
        <4>1. Len(<<"COMMAND_RECEIVED">>) = 1
          OBVIOUS
        <4> QED
          BY <3>1, <4>1
      <3> QED
        BY <2>2, <3>1, <3>2
    <2>4. ASSUME NEW kind \in {"SEND_ACCEPTED", "SEND_INDETERMINATE"}, PluginReports(n, kind)
          PROVE  kind \in EvidenceKind /\ Emits(n, kind) /\ Len(Log(n)) < 3 + MaxAcks
      BY <2>4 DEF PluginReports
    <2>5. ASSUME NEW kind \in DOMAIN Outdates, PluginAcknowledges(n, kind)
          PROVE  kind \in EvidenceKind /\ Emits(n, kind) /\ Len(Log(n)) < 3 + MaxAcks
      BY <2>5 DEF PluginAcknowledges, Outdates
    <2> QED
      BY <2>1, <2>2, <2>3, <2>4, <2>5 DEF PluginStep
  <1>4. /\ plugin' \in Seq(PluginRecord) /\ Len(plugin') = Len(attempts')
        /\ \A m \in Present' : Len(plugin'[m].log) <= 3 + MaxAcks
        /\ \A m \in Present : m # n => plugin'[m] = plugin[m]
    BY <1>1, <1>3, PluginSet
  <1>5. Quiet
    BY <1>1, <1>4, PluginTyped DEF TypeOK
  <1>6. Log(n) # <<>>
    <2>1. \/ Log(n) = <<"COMMAND_RECEIVED">> \/ Log(n) = <<"COMMAND_RECEIVED", "SEND_STARTED">>
          \/ Len(Log(n)) >= 3
      BY DEF PluginStep, PluginRejects, PluginStarts, PluginSends, PluginReports, PluginAcknowledges
    <2>2. /\ Len(<<"COMMAND_RECEIVED">>) = 1 /\ Len(<<"COMMAND_RECEIVED", "SEND_STARTED">>) = 2
          /\ Len(<<>>) = 0
      OBVIOUS
    <2>3. Len(Log(n)) # 0
      BY <1>2, <2>1, <2>2
    <2> QED
      BY <2>2, <2>3
  <1> QED
    BY <1>1, <1>4, <1>5, <1>6

-----------------------------------------------------------------------------
(* Evidence.                                                               *)

\* A projected status never puts a job back before its dispatch.
LEMMA ProjectedStatus ==
    ASSUME NEW current \in JobStatus, NEW incoming \in {"ACCEPTED", "SENT", "DELIVERED", "READ", "FAILED"}
    PROVE  NextProjectedMessageStatus(current, incoming) \in {current, incoming}
  BY DEF NextProjectedMessageStatus

\* connectorJobStatusTransitions() likewise.
LEMMA ChainEnds ==
    ASSUME NEW current \in JobStatus, NEW kind \in EvidenceKind
    PROVE  LET new == ChainResult(current, ConnectorJobStatusTransitions(current, kind)) IN
           new \in JobStatus /\ (new \in {"SCHEDULED", "QUEUED"} => new = current)
  <1> DEFINE new == ChainResult(current, ConnectorJobStatusTransitions(current, kind))
  <1>1. ASSUME NEW next \in JobStatus
        PROVE  ChainResult(current, Step(current, next)) = next
    BY DEF ChainResult, Step
  <1>2. CASE kind = "SEND_ACCEPTED"
    BY <1>1, <1>2, ProjectedStatus DEF ConnectorJobStatusTransitions
  <1>3. CASE kind = "SEND_INDETERMINATE"
    BY <1>3 DEF ConnectorJobStatusTransitions, ChainResult
  <1>4. CASE kind \in {"SEND_REJECTED", "ACK_FAILED"}
    BY <1>1, <1>4, ProjectedStatus DEF ConnectorJobStatusTransitions
  <1>5. CASE kind \in {"ACK_SENT", "ACK_DELIVERED", "ACK_READ"}
    <2> DEFINE incoming == TransportStateFromEvidence[kind]
               cursor == IF current = "PROCESSING" THEN "ACCEPTED" ELSE current
               next == NextProjectedMessageStatus(cursor, incoming)
    <2>1. incoming \in {"SENT", "DELIVERED", "READ"}
      BY <1>5 DEF TransportStateFromEvidence
    <2>2. cursor \in JobStatus /\ (cursor \in {"SCHEDULED", "QUEUED"} => cursor = current)
      OBVIOUS
    <2> HIDE DEF incoming, cursor
    <2>3. next \in {cursor, incoming} /\ next \in JobStatus
      BY <2>1, <2>2, ProjectedStatus
    <2> HIDE DEF next
    <2>4. ConnectorJobStatusTransitions(current, kind) = Step(current, cursor) \o Step(cursor, next)
      BY <1>5 DEF ConnectorJobStatusTransitions, next, cursor, incoming
    <2>5. ChainResult(current, Step(current, cursor) \o Step(cursor, next)) = next
      BY <2>2, <2>3 DEF ChainResult, Step
    <2> QED
      BY <2>1, <2>2, <2>3, <2>4, <2>5
  <1>6. CASE kind \in {"COMMAND_RECEIVED", "SEND_STARTED"}
    BY <1>6 DEF ConnectorJobStatusTransitions, ChainResult
  <1> QED
    BY <1>2, <1>3, <1>4, <1>5, <1>6

\* A projection of evidence, of whatever age, or its refusal.
LEMMA EvidenceSteps ==
    ASSUME TypeOK, NEW n \in Present, EvidenceStep(n)
    PROVE  /\ Quiet /\ UNCHANGED <<disp, plugin>> /\ Present' = Present
           /\ \A m \in Present : m # n => attempts'[m] = attempts[m]
           /\ attempts'[n].lease = attempts[n].lease /\ attempts'[n].deliveries = attempts[n].deliveries
  <1>1. UNCHANGED <<started, disp, plugin>>
    BY DEF EvidenceStep, ProjectEvidence, EvidenceGoesDead
  <1>2. /\ Row(n) \in AttemptRecord /\ inbox[n] \in InboxRecord /\ Log(n) \in Seq(EvidenceKind)
        /\ Len(Log(n)) \in Nat /\ Len(Log(n)) <= 3 + MaxAcks
    BY Elements
  <1>3. \A i \in 1 .. Len(Log(n)) : i \in EvidenceNumbers /\ Log(n)[i] \in EvidenceKind
    BY <1>2 DEF EvidenceNumbers
  <1>4. n \in Numbers /\ n \in 1 .. Len(inbox) /\ inbox \in Seq(InboxRecord)
    BY DEF TypeOK, Present, Numbers
  <1>5. CASE \E i \in 1 .. Len(Log(n)) : EvidenceGoesDead(n, i)
    <2>1. PICK i \in 1 .. Len(Log(n)) : EvidenceGoesDead(n, i)
      BY <1>5
    <2> DEFINE b == [inbox[n] EXCEPT !.dead = inbox[n].dead \cup {i}]
    <2>2. b \in InboxRecord
      BY <1>2, <1>3 DEF InboxRecord
    <2>3. inbox' = [inbox EXCEPT ![n] = b] /\ UNCHANGED <<status, messageId, attempts>>
      BY <2>1 DEF EvidenceGoesDead
    <2> HIDE DEF b
    <2>4. inbox' \in Seq(InboxRecord) /\ Len(inbox') = Len(inbox)
      BY <1>4, <2>2, <2>3, SeqExcept
    <2>5. TypeOK'
      BY <1>1, <2>3, <2>4 DEF TypeOK, Present, Log
    <2>6. Forward
      BY <2>3, NoWrite
    <2> QED
      BY <1>1, <2>3, <2>5, <2>6 DEF Quiet, StaysClosed, Reopenable, Present
  <1>6. CASE \E i \in 1 .. Len(Log(n)), class \in ErrorClass : ProjectEvidence(n, i, class)
    <2>1. PICK i \in 1 .. Len(Log(n)), class \in ErrorClass : ProjectEvidence(n, i, class)
      BY <1>6
    <2> DEFINE row == IF Fresh(n, i) THEN ProjectedRow(Row(n), i, Log(n)[i], class) ELSE Row(n)
               b == [inbox[n] EXCEPT !.recorded = inbox[n].recorded \cup {i}]
    <2>2. /\ Write(n, row) /\ inbox' = [inbox EXCEPT ![n] = b]
          /\ status' = ChainResult(status, Chain(n, i))
          /\ messageId' \in {n, messageId}
      BY <2>1 DEF ProjectEvidence
    <2>3. RowMoves(Row(n), row) /\ row.lease = Row(n).lease /\ row.deliveries = Row(n).deliveries
      BY <1>2, <1>3, ProjectedRowMoves, SameRow
    <2>4. b \in InboxRecord
      BY <1>2, <1>3 DEF InboxRecord
    <2> HIDE DEF row, b
    <2>5. inbox' \in Seq(InboxRecord) /\ Len(inbox') = Len(inbox)
      BY <1>4, <2>2, <2>4, SeqExcept
    <2>6. status' \in JobStatus /\ (status' \in {"SCHEDULED", "QUEUED"} => status' = status)
      <3>1. status \in JobStatus /\ Log(n)[i] \in EvidenceKind
        BY <1>3 DEF TypeOK
      <3>2. CASE Fresh(n, i)
        BY <2>2, <3>1, <3>2, ChainEnds DEF Chain
      <3>3. CASE ~Fresh(n, i)
        <4>1. status' = status
          BY <2>2, <3>3 DEF Chain, ChainResult
        <4> QED
          BY <3>1, <4>1
      <3> QED
        BY <3>2, <3>3
    <2>7. /\ Forward
          /\ attempts' \in Seq(AttemptRecord) /\ Len(attempts') = Len(attempts) /\ Present' = Present
          /\ attempts'[n] = row
          /\ \A m \in Present : m # n => attempts'[m] = attempts[m]
      BY <2>2, <2>3, OneWrite
    <2>8. messageId' \in {0} \cup Numbers
      BY <1>4, <2>2 DEF TypeOK
    <2>9. TypeOK'
      BY <1>1, <2>5, <2>6, <2>7, <2>8 DEF TypeOK, Log
    <2>10. StaysClosed
      BY <1>1, <2>6 DEF StaysClosed, Reopenable
    <2> QED
      BY <1>1, <2>3, <2>7, <2>9, <2>10 DEF Quiet, Row
  <1> QED
    BY <1>5, <1>6 DEF EvidenceStep

\* projectEvent(): only the status of the job.
LEMMA EventSteps ==
    ASSUME TypeOK, NEW incoming \in {"SENT", "DELIVERED", "READ", "FAILED"}, ProjectEvent(incoming)
    PROVE  Quiet /\ UNCHANGED <<attempts, disp, plugin>>
  <1>1. UNCHANGED <<started, messageId, attempts, disp, plugin, inbox>>
        /\ status' = NextProjectedMessageStatus(status, incoming)
    BY DEF ProjectEvent
  <1>2. status' \in {status, incoming} /\ status \in JobStatus
    BY <1>1, ProjectedStatus DEF TypeOK
  <1>3. TypeOK'
    BY <1>1, <1>2 DEF TypeOK, Present, Log
  <1>4. Forward
    BY <1>1, NoWrite
  <1>5. StaysClosed
    BY <1>1, <1>2 DEF StaysClosed, Reopenable
  <1> QED
    BY <1>1, <1>3, <1>4, <1>5 DEF Quiet
-----------------------------------------------------------------------------
(* The theorems.                                                           *)

\* Every step is quiet, starts an attempt, or gives one up as rate limited.
LEMMA Steps ==
    ASSUME TypeOK, [Next]_vars
    PROVE  Quiet \/ CommitMessageStart \/ \E d \in Dispatchers : RescheduleSafeRejection(d)
  <1>1. CASE JobStep
    BY <1>1, StatusSteps, FailBeforeStartStep DEF JobStep
  <1>2. ASSUME NEW d \in Dispatchers, DispatcherStep(d)
        PROVE  Quiet \/ RescheduleSafeRejection(d)
    BY <1>2, ClaimStep, WriteBackActions, SubmitSteps DEF DispatcherStep
  <1>3. ASSUME NEW n \in Present, DeadlineStep(n) \/ PluginStep(n) \/ EvidenceStep(n)
        PROVE  Quiet
    BY <1>3, DeadlineSteps, PluginSteps, EvidenceSteps
  <1>4. ASSUME NEW incoming \in {"SENT", "DELIVERED", "READ", "FAILED"}, ProjectEvent(incoming)
        PROVE  Quiet
    BY <1>4, EventSteps
  <1>5. CASE UNCHANGED vars
    <2>1. TypeOK'
      BY <1>5 DEF vars, TypeOK, Present, Log
    <2>2. Forward
      BY <1>5, NoWrite DEF vars
    <2> QED
      BY <1>5, <2>1, <2>2 DEF vars, Quiet, StaysClosed, Reopenable
  <1> QED
    BY <1>1, <1>2, <1>3, <1>4, <1>5 DEF Next

\* The initial state is well formed.
LEMMA InitTyped == Init => TypeOK
  <1> SUFFICES ASSUME Init PROVE TypeOK
    OBVIOUS
  <1>1. /\ attempts \in Seq(AttemptRecord) /\ plugin \in Seq(PluginRecord) /\ inbox \in Seq(InboxRecord)
        /\ Len(attempts) = 0 /\ Len(plugin) = 0 /\ Len(inbox) = 0
    BY DEF Init
  <1>2. Present = {}
    BY <1>1 DEF Present
  <1>3. disp \in [Dispatchers -> DispatcherRecord] /\ \A d \in Dispatchers : disp[d].phase = "idle"
    BY IdleTyped DEF Init
  <1>4. status \in JobStatus /\ started \in BOOLEAN /\ messageId \in {0} \cup Numbers
    BY DEF Init
  <1> QED
    BY <1>1, <1>2, <1>3, <1>4 DEF TypeOK

\* Every step keeps the types and steps no attempt back.
LEMMA StepForward ==
    ASSUME TypeOK, [Next]_vars
    PROVE  TypeOK' /\ Forward
  BY Steps, CommitStep, SafeRejectionStep DEF Quiet

\* TypeOK is an invariant: message_attempts, the dispatchers and the connector's chains stay
\* well formed, and a dispatcher always works on an attempt that exists.
THEOREM TypeCorrect == Spec => []TypeOK
  BY InitTyped, StepForward, PTL DEF Spec

\* No interleaving of dispatchers, deadlines and evidence moves the transport state of an
\* attempt backwards.
THEOREM TransportForward == Spec => TransportNeverRegresses
  <1> DEFINE Up == \A n \in Present : Progress[attempts'[n].state] >= Progress[attempts[n].state]
  <1>1. TypeOK /\ [Next]_vars => [Up]_vars
    BY StepForward DEF Forward, RowMoves
  <1>2. [][Up]_vars <=> TransportNeverRegresses
    BY DEF TransportNeverRegresses
  <1> HIDE DEF Up
  <1> QED
    BY <1>1, <1>2, TypeCorrect, PTL DEF Spec

\* Closed attempts stay closed.
LEMMA ClosedForever ==
    ASSUME TypeOK, Forward, TypeOK', NEW n \in Present, attempts[n].state = "FAILED_DEFINITIVE"
    PROVE  attempts'[n].state = "FAILED_DEFINITIVE"
  <1>1. attempts[n].state \in TransportState /\ RowMoves(attempts[n], attempts'[n])
    BY Elements DEF AttemptRecord, Forward
  <1>2. attempts'[n].state \in TransportState
    BY <1>1 DEF RowMoves, AttemptRecord
  <1> QED
    BY <1>1, <1>2, FailedIsTop DEF RowMoves

\* EarlierAttemptsClosed is inductive relative to TypeOK. Only two steps could break it:
\* commitMessageStart() adds an attempt, but only to a job that is not started, all of whose
\* attempts are closed; rescheduleSafeRejection() reopens the job, but closes the attempt it
\* owns, which is the last because it is open.
LEMMA EarlierStep ==
    ASSUME TypeOK, EarlierAttemptsClosed, [Next]_vars
    PROVE  EarlierAttemptsClosed'
  <1>1. TypeOK' /\ Forward
    BY StepForward
  <1>2. Len(attempts) \in Nat /\ Len(attempts') \in Nat
    BY <1>1 DEF TypeOK
  <1>3. \A n \in Present : attempts[n].state = "FAILED_DEFINITIVE" => attempts'[n].state = "FAILED_DEFINITIVE"
    BY <1>1, ClosedForever
  <1>4. CASE Quiet
    <2>1. Present' = Present
      BY <1>4 DEF Quiet, Present
    <2> QED
      BY <1>3, <1>4, <2>1 DEF Quiet, StaysClosed, Reopenable, EarlierAttemptsClosed
  <1>5. CASE CommitMessageStart
    <2>1. /\ Len(attempts') = Len(attempts) + 1 /\ Reopenable /\ ~Reopenable'
          /\ \A m \in Present : attempts'[m] = attempts[m]
      BY <1>5, CommitStep
    <2>2. \A n \in Present : attempts[n].state = "FAILED_DEFINITIVE"
      BY <2>1 DEF EarlierAttemptsClosed, Reopenable
    <2>3. \A n \in Present' : n < Len(attempts') => n \in Present
      BY <1>2, <2>1 DEF Present
    <2> QED
      BY <2>1, <2>2, <2>3 DEF EarlierAttemptsClosed, Reopenable
  <1>6. ASSUME NEW d \in Dispatchers, RescheduleSafeRejection(d)
        PROVE  EarlierAttemptsClosed'
    <2>1. Present' = Present
      BY <1>6, SafeRejectionStep
    <2>2. Len(attempts') = Len(attempts)
      BY <1>2, <2>1 DEF Present
    <2>3. CASE StaysClosed
      BY <1>3, <2>1, <2>2, <2>3 DEF StaysClosed, Reopenable, EarlierAttemptsClosed
    <2>4. CASE ~StaysClosed
      <3>1. /\ Row(disp[d].n).state = "DISPATCH_STARTED" /\ disp[d].n \in Present
            /\ attempts'[disp[d].n].state = "FAILED_DEFINITIVE"
            /\ \A m \in Present : m # disp[d].n => attempts'[m] = attempts[m]
        BY <1>6, <2>4, SafeRejectionStep
      <3>2. disp[d].n = Len(attempts)
        BY <1>2, <3>1 DEF Present, Row, EarlierAttemptsClosed
      <3>3. \A m \in Present : attempts'[m].state = "FAILED_DEFINITIVE"
        BY <1>2, <1>3, <3>1, <3>2 DEF Present, EarlierAttemptsClosed
      <3> QED
        BY <2>1, <3>3 DEF EarlierAttemptsClosed
    <2> QED
      BY <2>3, <2>4
  <1> QED
    BY <1>4, <1>5, <1>6, Steps

\* A new attempt starts only over definitively failed ones, and a job taken up again carries
\* no attempt whose outcome is open or uncertain.
THEOREM NoRetryOverUncertainty == Spec => []EarlierAttemptsClosed
  <1>1. Init => EarlierAttemptsClosed
    BY DEF Init, EarlierAttemptsClosed, Present
  <1> QED
    BY <1>1, EarlierStep, TypeCorrect, PTL DEF Spec
-----------------------------------------------------------------------------
(* Counting deliveries. deferForDispatchReadiness() takes a delivery back, *)
(* so that SubmissionsCounted is not inductive: a count of one may stand   *)
(* for the submission of another dispatcher. What is invariant is that a   *)
(* dispatcher that still holds the lease and has not submitted yet can     *)
(* take its own delivery back, and leave the others counted.               *)

Claimer(d, n) == disp[d].phase = "claimed" /\ disp[d].n = n

\* A command may have reached the connector by another hand than d's.
Elsewhere(d, n) == Log(n) # <<>> \/ \E e \in Dispatchers \ {d} : Claimer(e, n)

Counted ==
    \A n \in Present : attempts[n].state = "DISPATCH_STARTED" =>
        /\ (Log(n) # <<>> \/ \E d \in Dispatchers : Claimer(d, n)) => attempts[n].deliveries >= 1
        /\ \A d \in Dispatchers :
              (Claimer(d, n) /\ attempts[n].lease = d /\ Elsewhere(d, n)) => attempts[n].deliveries >= 2

\* A row that stays undecided keeps its count, and its lease is at most released.
SteadyRow(old, new) ==
    new.state = "DISPATCH_STARTED" =>
        /\ old.state = "DISPATCH_STARTED" /\ new.deliveries = old.deliveries
        /\ new.lease \in {old.lease, NoLease}

\* A step that counts no delivery, takes none back and submits nothing.
Steady ==
    /\ Present' = Present
    /\ \A n \in Present : SteadyRow(attempts[n], attempts'[n])
    /\ \A n \in Present : Log(n)' # <<>> => Log(n) # <<>>
    /\ \A d \in Dispatchers : disp'[d].phase = "claimed" => disp'[d] = disp[d]

\* Such a step keeps the count.
LEMMA SteadyCounts ==
    ASSUME TypeOK, Counted, Steady
    PROVE  Counted'
  <1> SUFFICES ASSUME NEW n \in Present', attempts'[n].state = "DISPATCH_STARTED"
               PROVE  /\ (Log(n)' # <<>> \/ \E d \in Dispatchers : Claimer(d, n)')
                            => attempts'[n].deliveries >= 1
                      /\ \A d \in Dispatchers :
                           (Claimer(d, n)' /\ attempts'[n].lease = d /\ Elsewhere(d, n)')
                              => attempts'[n].deliveries >= 2
    BY DEF Counted
  <1>1. /\ n \in Present /\ attempts[n].state = "DISPATCH_STARTED"
        /\ attempts'[n].deliveries = attempts[n].deliveries
        /\ attempts'[n].lease \in {attempts[n].lease, NoLease}
        /\ Log(n)' # <<>> => Log(n) # <<>>
    BY DEF Steady, SteadyRow
  <1>2. \A d \in Dispatchers : Claimer(d, n)' => Claimer(d, n)
    BY DEF Steady, Claimer
  <1>3. \A d \in Dispatchers : Elsewhere(d, n)' => Elsewhere(d, n)
    BY <1>1, <1>2 DEF Elsewhere
  <1>4. \A d \in Dispatchers : attempts'[n].lease = d => attempts[n].lease = d
    BY <1>1
  <1> QED
    BY <1>1, <1>2, <1>3, <1>4 DEF Counted

\* Steps on one row, or on none, that leave dispatchers and connector alone.
LEMMA SteadyWrites ==
    ASSUME TypeOK, Present' = Present, UNCHANGED <<disp, plugin>>, NEW n \in Present,
           \A m \in Present : m # n => attempts'[m] = attempts[m],
           SteadyRow(attempts[n], attempts'[n])
    PROVE  Steady
  <1>1. \A m \in Present : SteadyRow(attempts[m], attempts'[m])
    BY DEF SteadyRow
  <1> QED
    BY <1>1 DEF Steady, Log

\* Steps that leave attempts, dispatchers and connector alone.
LEMMA SteadyStutter ==
    ASSUME TypeOK, UNCHANGED <<attempts, disp, plugin>>
    PROVE  Steady
  BY DEF Steady, SteadyRow, Log, Present

\* updateResult('FAILED') before the commit.
LEMMA SteadyFailure ==
    ASSUME TypeOK, FailBeforeStart
    PROVE  Steady
  <1>1. CASE attempts = <<>>
    BY <1>1, SteadyStutter DEF FailBeforeStart
  <1>2. CASE attempts # <<>>
    <2> DEFINE n == Len(attempts)
    <2>1. n \in Present /\ attempts \in Seq(AttemptRecord)
      BY <1>2 DEF Present, TypeOK
    <2>2. attempts[n] \in AttemptRecord
      BY <2>1, Elements
    <2>3. attempts' = [attempts EXCEPT ![n].state = "FAILED_DEFINITIVE"] /\ UNCHANGED <<disp, plugin>>
      BY <1>2 DEF FailBeforeStart
    <2>4. Present' = Present /\ \A m \in Present : m # n => attempts'[m] = attempts[m]
      BY <2>1, <2>3 DEF Present
    <2>5. attempts'[n].state = "FAILED_DEFINITIVE"
      BY <2>1, <2>2, <2>3 DEF Present, AttemptRecord
    <2> QED
      BY <2>1, <2>3, <2>4, <2>5, SteadyWrites DEF SteadyRow
  <1> QED
    BY <1>1, <1>2

\* markAccepted(), reschedule(), settle() and rescheduleSafeRejection().
LEMMA SteadyWriteBacks ==
    ASSUME TypeOK, NEW d \in Dispatchers,
           MarkAccepted(d) \/ Reschedule(d) \/ Settle(d) \/ RescheduleSafeRejection(d)
    PROVE  Steady
  <1> DEFINE n == disp[d].n
  <1>1. disp[d].phase # "idle" /\ Finish(d) /\ UNCHANGED <<messageId, plugin, inbox>>
    BY DEF MarkAccepted, Reschedule, Settle, RescheduleSafeRejection
  <1>2. /\ n \in Present /\ Row(n) \in AttemptRecord
        /\ Owned(d) => Row(n).state = "DISPATCH_STARTED"
    BY <1>1, Busy DEF Owned
  <1>3. status' \in JobStatus /\ started' \in BOOLEAN
    BY DEF MarkAccepted, Reschedule, Settle, RescheduleSafeRejection, FromProcessing, TypeOK
  <1>4. PICK row : WriteBack(d, row) /\ (Owned(d) => RowMoves(Row(n), row) /\ SteadyRow(Row(n), row))
    <2>1. CASE MarkAccepted(d)
      BY <2>1, <1>2, AcceptedRowMoves DEF MarkAccepted, SteadyRow
    <2>2. CASE Reschedule(d)
      <3>1. disp[d].answer \in FailureKind
        BY <2>2 DEF Reschedule
      <3> DEFINE row == RescheduledRow(Row(n), disp[d].answer)
      <3>2. /\ RowMoves(Row(n), row)
            /\ row.state = Row(n).state /\ row.deliveries = Row(n).deliveries /\ row.lease = NoLease
        BY <1>2, <3>1, RescheduledRowMoves
      <3>3. WriteBack(d, row)
        BY <2>2 DEF Reschedule
      <3> HIDE DEF row
      <3> QED
        BY <3>2, <3>3 DEF SteadyRow
    <2>3. CASE Settle(d)
      BY <2>3, <1>2, SettledRowMoves DEF Settle, SteadyRow
    <2>4. CASE RescheduleSafeRejection(d)
      BY <2>4, <1>2, RejectedRowMoves DEF RescheduleSafeRejection, SteadyRow
    <2> QED
      BY <2>1, <2>2, <2>3, <2>4
  <1>5. /\ Present' = Present
        /\ attempts'[n] = IF Owned(d) THEN row ELSE Row(n)
        /\ \A m \in Present : m # n => attempts'[m] = attempts[m]
        /\ disp'[d] = Idle /\ \A e \in Dispatchers : e # d => disp'[e] = disp[e]
    BY <1>1, <1>3, <1>4, WriteBackStep
  <1>6. SteadyRow(attempts[n], attempts'[n])
    BY <1>4, <1>5 DEF SteadyRow, Row
  <1>7. \A m \in Present : SteadyRow(attempts[m], attempts'[m])
    BY <1>5, <1>6 DEF SteadyRow
  <1> QED
    BY <1>1, <1>5, <1>7, IdleTyped DEF Steady, Log

\* claimDue(): the claim adds a delivery, so it may be taken back again.
LEMMA ClaimCounts ==
    ASSUME TypeOK, Counted, NEW d \in Dispatchers, NEW n \in Present, ClaimCommand(d, n)
    PROVE  Counted'
  <1>1. /\ Present' = Present /\ attempts'[n] = ClaimedRow(Row(n), d)
        /\ \A m \in Present : m # n => attempts'[m] = attempts[m]
        /\ disp'[d].phase = "claimed" /\ disp'[d].n = n
        /\ \A e \in Dispatchers : e # d => disp'[e] = disp[e]
    BY ClaimStep
  <1>2. Row(n) \in AttemptRecord /\ Claimable(Row(n)) /\ plugin' = plugin /\ disp[d].phase = "idle"
    BY Elements DEF ClaimCommand
  <1>3. /\ attempts'[n].lease = d /\ attempts'[n].deliveries = attempts[n].deliveries + 1
        /\ attempts[n].deliveries \in Nat /\ attempts[n].state = "DISPATCH_STARTED"
    BY <1>1, <1>2, ClaimedRowMoves DEF Row, AttemptRecord, Claimable
  <1>4. \A e \in Dispatchers, m \in Present : e # d => (Claimer(e, m)' <=> Claimer(e, m))
    BY <1>1 DEF Claimer
  <1>5. \A m \in Present : m # n => ~Claimer(d, m)'
    BY <1>1 DEF Claimer
  <1>6. \A m \in Present : Log(m)' = Log(m)
    BY <1>2 DEF Log
  <1> SUFFICES ASSUME NEW m \in Present, attempts'[m].state = "DISPATCH_STARTED"
               PROVE  /\ (Log(m)' # <<>> \/ \E e \in Dispatchers : Claimer(e, m)')
                            => attempts'[m].deliveries >= 1
                      /\ \A e \in Dispatchers :
                           (Claimer(e, m)' /\ attempts'[m].lease = e /\ Elsewhere(e, m)')
                              => attempts'[m].deliveries >= 2
    BY <1>1 DEF Counted
  <1>7. CASE m = n
    <2>1. attempts'[n].deliveries >= 1
      BY <1>3
    <2>2. ASSUME Elsewhere(d, n)' PROVE attempts'[n].deliveries >= 2
      <3>1. Log(n) # <<>> \/ \E e \in Dispatchers : Claimer(e, n)
        BY <1>4, <1>6, <2>2 DEF Elsewhere
      <3>2. attempts[n].deliveries >= 1
        BY <1>3, <3>1 DEF Counted
      <3> QED
        BY <1>3, <3>2
    <2> QED
      BY <1>3, <1>7, <2>1, <2>2
  <1>8. CASE m # n
    <2>1. attempts'[m] = attempts[m] /\ Log(m)' = Log(m)
      BY <1>1, <1>6, <1>8
    <2>2. \A e \in Dispatchers : Claimer(e, m)' => Claimer(e, m)
      BY <1>4, <1>5, <1>8
    <2>3. \A e \in Dispatchers : Elsewhere(e, m)' => Elsewhere(e, m)
      BY <2>1, <2>2 DEF Elsewhere
    <2> QED
      BY <2>1, <2>2, <2>3 DEF Counted
  <1> QED
    BY <1>7, <1>8

\* deferForDispatchReadiness(): the holder of the lease takes back the delivery it did not make.
LEMMA DeferCounts ==
    ASSUME TypeOK, Counted, NEW d \in Dispatchers, DeferForDispatchReadiness(d)
    PROVE  Counted'
  <1>0. PICK n \in Present : n = disp[d].n
    BY Busy DEF DeferForDispatchReadiness
  <1>1. /\ disp[d].phase = "claimed" /\ WriteBack(d, DeferredRow(Row(n))) /\ Finish(d)
        /\ UNCHANGED <<status, started, messageId, plugin, inbox>>
    BY <1>0 DEF DeferForDispatchReadiness
  <1>2. n \in Present /\ Row(n) \in AttemptRecord
    BY <1>0, <1>1, Busy
  <1>3. /\ RowMoves(Row(n), DeferredRow(Row(n)))
        /\ DeferredRow(Row(n)).state = Row(n).state /\ DeferredRow(Row(n)).lease = NoLease
        /\ DeferredRow(Row(n)).deliveries = IF Row(n).deliveries > 0 THEN Row(n).deliveries - 1 ELSE 0
    BY <1>2, DeferredRowMoves
  <1>4. status' \in JobStatus /\ started' \in BOOLEAN
    BY <1>1 DEF TypeOK
  <1>5. /\ Present' = Present
        /\ attempts'[n] = IF Owned(d) THEN DeferredRow(Row(n)) ELSE Row(n)
        /\ \A m \in Present : m # n => attempts'[m] = attempts[m]
        /\ disp'[d] = Idle /\ \A e \in Dispatchers : e # d => disp'[e] = disp[e]
    BY <1>0, <1>1, <1>3, <1>4, WriteBackStep
  <1>6. \A e \in Dispatchers, m \in Present : Claimer(e, m)' => e # d /\ Claimer(e, m)
    BY <1>5, IdleTyped DEF Claimer
  <1>7. \A m \in Present : Log(m)' = Log(m)
    BY <1>1 DEF Log
  <1>8. CASE ~Owned(d)
    <2>1. \A m \in Present : attempts'[m] = attempts[m]
      BY <1>5, <1>8 DEF Row
    <2>2. \A e \in Dispatchers : disp'[e].phase = "claimed" => disp'[e] = disp[e]
      BY <1>5, IdleTyped
    <2> QED
      BY <1>5, <1>7, <2>1, <2>2, SteadyCounts DEF Steady, SteadyRow
  <1>9. CASE Owned(d)
    <2> SUFFICES ASSUME NEW m \in Present, attempts'[m].state = "DISPATCH_STARTED"
                 PROVE  /\ (Log(m)' # <<>> \/ \E e \in Dispatchers : Claimer(e, m)')
                              => attempts'[m].deliveries >= 1
                        /\ \A e \in Dispatchers :
                             (Claimer(e, m)' /\ attempts'[m].lease = e /\ Elsewhere(e, m)')
                                => attempts'[m].deliveries >= 2
      BY <1>5 DEF Counted
    <2>1. CASE m = n
      <3>1. attempts[n].state = "DISPATCH_STARTED" /\ attempts[n].lease = d /\ Claimer(d, n)
        BY <1>0, <1>1, <1>9 DEF Owned, Row, Claimer
      <3>2. attempts'[n].lease = NoLease
        BY <1>3, <1>5, <1>9
      <3>3. ASSUME Log(n)' # <<>> \/ \E e \in Dispatchers : Claimer(e, n)'
            PROVE  attempts'[n].deliveries >= 1
        <4>1. Elsewhere(d, n)
          <5>1. CASE Log(n)' # <<>>
            BY <1>2, <1>7, <5>1 DEF Elsewhere
          <5>2. ASSUME NEW e \in Dispatchers, Claimer(e, n)' PROVE Elsewhere(d, n)
            <6>1. e # d /\ Claimer(e, n)
              BY <1>2, <1>6, <5>2
            <6> QED
              BY <6>1 DEF Elsewhere
          <5> QED
            BY <3>3, <5>1, <5>2
        <4>2. attempts[n].deliveries >= 2 /\ attempts[n].deliveries \in Nat
          BY <1>2, <3>1, <4>1 DEF Counted, Row, AttemptRecord
        <4>3. attempts'[n].deliveries = attempts[n].deliveries - 1
          BY <1>3, <1>5, <1>9, <4>2 DEF Row
        <4> QED
          BY <4>2, <4>3
      <3> QED
        BY <2>1, <3>2, <3>3
    <2>2. CASE m # n
      <3>1. attempts'[m] = attempts[m] /\ Log(m)' = Log(m)
        BY <1>5, <1>7, <2>2
      <3>2. \A e \in Dispatchers : Claimer(e, m)' => Claimer(e, m)
        BY <1>6
      <3>3. \A e \in Dispatchers : Elsewhere(e, m)' => Elsewhere(e, m)
        BY <3>1, <3>2 DEF Elsewhere
      <3> QED
        BY <3>1, <3>2, <3>3 DEF Counted
    <2> QED
      BY <2>1, <2>2
  <1> QED
    BY <1>8, <1>9

\* submit(), or a dispatcher that dies: a command that may arrive was counted when claimed, and
\* once more by a dispatcher that took the lease over since.
LEMMA SubmitCounts ==
    ASSUME TypeOK, Counted, NEW d \in Dispatchers,
           \/ \E answer \in Answer, arrived \in BOOLEAN : Submit(d, answer, arrived)
           \/ DispatcherDies(d)
    PROVE  Counted'
  <1>1. /\ attempts' = attempts /\ disp[d].n \in Present
        /\ disp'[d].phase # "claimed"
        /\ \A e \in Dispatchers : e # d => disp'[e] = disp[e]
        /\ plugin' # plugin => disp[d].phase = "claimed"
        /\ \A m \in Present : plugin'[m] # plugin[m] => m = disp[d].n
    BY SubmitSteps
  <1>2. Present' = Present
    BY <1>1 DEF Present
  <1> SUFFICES ASSUME NEW m \in Present, attempts[m].state = "DISPATCH_STARTED"
               PROVE  /\ (Log(m)' # <<>> \/ \E e \in Dispatchers : Claimer(e, m)')
                            => attempts[m].deliveries >= 1
                      /\ \A e \in Dispatchers :
                           (Claimer(e, m)' /\ attempts[m].lease = e /\ Elsewhere(e, m)')
                              => attempts[m].deliveries >= 2
    BY <1>1, <1>2 DEF Counted
  <1>3. \A e \in Dispatchers : Claimer(e, m)' => e # d /\ Claimer(e, m)
    BY <1>1 DEF Claimer
  <1>4. Log(m)' # <<>> => Log(m) # <<>> \/ Claimer(d, m)
    BY <1>1 DEF Log, Claimer
  <1>5. \A e \in Dispatchers : (e # d /\ Elsewhere(e, m)') => Elsewhere(e, m)
    BY <1>3, <1>4 DEF Elsewhere
  <1> QED
    BY <1>3, <1>4, <1>5 DEF Counted

\* commitMessageStart(): nobody has claimed the new command yet.
LEMMA CommitCounts ==
    ASSUME TypeOK, Counted, CommitMessageStart
    PROVE  Counted'
  <1>1. /\ Len(attempts') = Len(attempts) + 1 /\ Len(attempts) \in Nat
        /\ \A m \in Present : attempts'[m] = attempts[m] /\ plugin'[m] = plugin[m]
        /\ plugin'[Len(attempts')].log = <<>> /\ disp' = disp
    BY CommitStep DEF CommitMessageStart
  <1>2. \A m : \A e \in Dispatchers : Claimer(e, m)' <=> Claimer(e, m)
    BY <1>1 DEF Claimer
  <1> SUFFICES ASSUME NEW m \in Present', attempts'[m].state = "DISPATCH_STARTED"
               PROVE  /\ (Log(m)' # <<>> \/ \E e \in Dispatchers : Claimer(e, m)')
                            => attempts'[m].deliveries >= 1
                      /\ \A e \in Dispatchers :
                           (Claimer(e, m)' /\ attempts'[m].lease = e /\ Elsewhere(e, m)')
                              => attempts'[m].deliveries >= 2
    BY DEF Counted
  <1>3. CASE m \in Present
    <2>1. attempts'[m] = attempts[m] /\ Log(m)' = Log(m)
      BY <1>1, <1>3 DEF Log
    <2>2. \A e \in Dispatchers : Elsewhere(e, m)' => Elsewhere(e, m)
      BY <1>2, <2>1 DEF Elsewhere
    <2> QED
      BY <1>2, <1>3, <2>1, <2>2 DEF Counted
  <1>4. CASE m \notin Present
    <2>1. m = Len(attempts')
      BY <1>1, <1>4 DEF Present
    <2>2. Log(m)' = <<>>
      BY <1>1, <2>1 DEF Log
    <2>3. \A e \in Dispatchers : ~Claimer(e, m)
      BY <1>4 DEF Claimer, TypeOK
    <2> QED
      BY <1>2, <2>2, <2>3
  <1> QED
    BY <1>3, <1>4

\* Every step keeps the count.
LEMMA CountedStep ==
    ASSUME TypeOK, Counted, [Next]_vars
    PROVE  Counted'
  <1>1. CASE JobStep
    <2>1. CASE ClaimDueJob \/ RequeueJob \/ MarkProcessing \/ DeferProcessing
      BY <2>1, SteadyStutter, SteadyCounts DEF ClaimDueJob, RequeueJob, MarkProcessing, DeferProcessing
    <2> QED
      BY <1>1, <2>1, SteadyFailure, SteadyCounts, CommitCounts DEF JobStep
  <1>2. ASSUME NEW d \in Dispatchers, DispatcherStep(d)
        PROVE  Counted'
    BY <1>2, ClaimCounts, DeferCounts, SubmitCounts, SteadyWriteBacks, SteadyCounts DEF DispatcherStep
  <1>3. ASSUME NEW n \in Present, DeadlineStep(n)
        PROVE  Counted'
    <2>1. SteadyRow(attempts[n], attempts'[n])
      BY <1>3, DeadlineSteps DEF SteadyRow
    <2> QED
      BY <1>3, <2>1, DeadlineSteps, SteadyWrites, SteadyCounts
  <1>4. ASSUME NEW n \in Present, PluginStep(n)
        PROVE  Counted'
    <2>1. /\ UNCHANGED <<attempts, disp>> /\ Log(n) # <<>>
          /\ \A m \in Present : m # n => plugin'[m] = plugin[m]
      BY <1>4, PluginSteps
    <2>2. \A m \in Present : Log(m)' # <<>> => Log(m) # <<>>
      BY <2>1 DEF Log
    <2> QED
      BY <2>1, <2>2, SteadyCounts DEF Steady, SteadyRow, Present
  <1>5. ASSUME NEW n \in Present, EvidenceStep(n)
        PROVE  Counted'
    <2>1. /\ Quiet /\ UNCHANGED <<disp, plugin>> /\ Present' = Present
          /\ \A m \in Present : m # n => attempts'[m] = attempts[m]
          /\ attempts'[n].lease = attempts[n].lease /\ attempts'[n].deliveries = attempts[n].deliveries
      BY <1>5, EvidenceSteps
    <2>2. attempts[n].state \in TransportState /\ RowMoves(attempts[n], attempts'[n])
      BY <2>1, Elements DEF Quiet, Forward, AttemptRecord
    <2>3. attempts'[n].state = "DISPATCH_STARTED" => attempts[n].state = "DISPATCH_STARTED"
      BY <2>2, FailedIsTop DEF RowMoves, AttemptRecord
    <2>4. SteadyRow(attempts[n], attempts'[n])
      BY <2>1, <2>3 DEF SteadyRow
    <2> QED
      BY <2>1, <2>4, SteadyWrites, SteadyCounts
  <1>6. ASSUME NEW incoming \in {"SENT", "DELIVERED", "READ", "FAILED"}, ProjectEvent(incoming)
        PROVE  Counted'
    BY <1>6, EventSteps, SteadyStutter, SteadyCounts
  <1>7. CASE UNCHANGED vars
    BY <1>7, SteadyStutter, SteadyCounts DEF vars
  <1> QED
    BY <1>1, <1>2, <1>3, <1>4, <1>5, <1>6, <1>7 DEF Next

\* A command the connector holds while its attempt is undecided has been counted, so that
\* settleExpired() never takes it for one that was not submitted.
THEOREM HeldCommandsCounted == Spec => []SubmissionsCounted
  <1>1. Init => Counted
    <2> SUFFICES ASSUME Init PROVE Present = {}
      BY DEF Counted
    <2> QED
      BY DEF Init, Present
  <1>2. TypeOK /\ Counted => SubmissionsCounted
    <2> SUFFICES ASSUME TypeOK, Counted, NEW n \in Present, Log(n) # <<>>,
                        attempts[n].state = "DISPATCH_STARTED"
                 PROVE  attempts[n].deliveries > 0
      BY DEF SubmissionsCounted
    <2>1. attempts[n].deliveries \in Nat
      BY Elements DEF AttemptRecord
    <2>2. attempts[n].deliveries >= 1
      BY DEF Counted
    <2> QED
      BY <2>1, <2>2
  <1> QED
    BY <1>1, <1>2, CountedStep, TypeCorrect, PTL DEF Spec

-----------------------------------------------------------------------------
(* What evidence makes of the status of the job.                           *)

\* The statuses of a job whose message was sent, or failed; and all that a
\* message with a connector command ever has.
Resolved == {"ACCEPTED", "SENT", "DELIVERED", "READ", "FAILED"}
Live == Resolved \cup {"SCHEDULED", "QUEUED", "PROCESSING", "UNKNOWN"}

\* What the trigger allows a job that is not put back.
LEMMA AllowedUpdates ==
    /\ AllowedTransitions["PROCESSING"] =
         {"SCHEDULED", "ACCEPTED", "FAILED", "UNKNOWN", "DRY_RUN_COMPLETED", "CANCELLED"}
    /\ AllowedTransitions["UNKNOWN"] = Resolved
    /\ AllowedTransitions["ACCEPTED"] = {"SENT", "DELIVERED", "READ", "FAILED"}
    /\ AllowedTransitions["SENT"] = {"DELIVERED", "READ", "FAILED"}
    /\ AllowedTransitions["DELIVERED"] = {"READ"}
  BY DEF AllowedTransitions, Resolved

\* A projection resolves a job, and the trigger lets it through unless the job
\* was put back before its dispatch.
LEMMA ProjectionResolves ==
    ASSUME NEW current \in Live, NEW incoming \in Resolved, NEW new,
           new = NextProjectedMessageStatus(current, incoming)
    PROVE  /\ new \in Resolved
           /\ current # "PROCESSING" /\ current \notin {"SCHEDULED", "QUEUED"}
                => AllowedTransition(current, new)
           /\ current = "PROCESSING" => new = incoming
  <1>1. CASE incoming = "FAILED"
    <2>1. new = IF current \in {"SCHEDULED", "QUEUED", "PROCESSING", "ACCEPTED", "SENT", "UNKNOWN"}
                THEN "FAILED" ELSE current
      BY <1>1 DEF NextProjectedMessageStatus
    <2> QED
      BY <1>1, <2>1, AllowedUpdates DEF Live, Resolved, AllowedTransition
  <1>2. CASE incoming # "FAILED"
    <2>1. /\ DeliveryRank("ACCEPTED") = 10 /\ DeliveryRank("SENT") = 20
          /\ DeliveryRank("DELIVERED") = 30 /\ DeliveryRank("READ") = 40
          /\ current \in {"SCHEDULED", "QUEUED", "PROCESSING", "UNKNOWN"} => DeliveryRank(current) = 0
      BY DEF DeliveryRank
    <2>2. CASE current = "FAILED"
      <3>1. new = "FAILED"
        BY <2>2 DEF NextProjectedMessageStatus
      <3> QED
        BY <2>2, <3>1 DEF Resolved, AllowedTransition
    <2>3. CASE current # "FAILED"
      <3>1. new = IF DeliveryRank(incoming) > DeliveryRank(current) THEN incoming ELSE current
        BY <1>2, <2>3 DEF NextProjectedMessageStatus, Live, Resolved
      <3>2. incoming \in {"ACCEPTED", "SENT", "DELIVERED", "READ"}
        BY <1>2 DEF Resolved
      <3>3. CASE current \in {"SCHEDULED", "QUEUED", "PROCESSING", "UNKNOWN"}
        <4>1. new = incoming
          BY <2>1, <3>1, <3>2, <3>3
        <4> QED
          BY <3>3, <4>1, AllowedUpdates DEF AllowedTransition
      <3>4. CASE current \in {"ACCEPTED", "SENT", "DELIVERED", "READ"}
        <4>1. \/ new = current
              \/ current = "ACCEPTED" /\ new \in {"SENT", "DELIVERED", "READ"}
              \/ current = "SENT" /\ new \in {"DELIVERED", "READ"}
              \/ current = "DELIVERED" /\ new = "READ"
          BY <2>1, <3>1, <3>2, <3>4
        <4> QED
          BY <3>4, <4>1, AllowedUpdates DEF Resolved, AllowedTransition
      <3> QED
        BY <2>3, <3>3, <3>4 DEF Live, Resolved
    <2> QED
      BY <2>2, <2>3
  <1> QED
    BY <1>1, <1>2

\* A chain of one update, and of two.
LEMMA ChainOfOne ==
    ASSUME NEW current, NEW next
    PROVE  /\ ChainResult(current, Step(current, next)) = next
           /\ AllowedTransition(current, next) => ChainAllowed(current, Step(current, next))
  BY DEF ChainResult, ChainAllowed, Step

LEMMA ChainOfTwo ==
    ASSUME NEW current \in JobStatus, NEW cursor \in JobStatus, NEW next \in JobStatus
    PROVE  LET chain == Step(current, cursor) \o Step(cursor, next) IN
           /\ ChainResult(current, chain) = next
           /\ AllowedTransition(current, cursor) /\ AllowedTransition(cursor, next)
                => ChainAllowed(current, chain)
  <1> DEFINE chain == Step(current, cursor) \o Step(cursor, next)
  <1>1. CASE cursor = current
    <2>1. chain = Step(current, next)
      BY <1>1 DEF Step
    <2> QED
      BY <1>1, <2>1, ChainOfOne
  <1>2. CASE cursor # current /\ next = cursor
    <2>1. chain = Step(current, next)
      BY <1>2 DEF Step
    <2> QED
      BY <1>2, <2>1, ChainOfOne
  <1>3. CASE cursor # current /\ next # cursor
    <2>1. chain = <<cursor>> \o <<next>>
      BY <1>3 DEF Step
    <2>2. Len(chain) = 2 /\ chain[1] = cursor /\ chain[2] = next /\ chain # <<>>
      <3> DEFINE a == <<cursor>>
                 b == <<next>>
      <3>1. a \in Seq(JobStatus) /\ b \in Seq(JobStatus) /\ Len(a) = 1 /\ Len(b) = 1
            /\ a[1] = cursor /\ b[1] = next
        OBVIOUS
      <3> HIDE DEF a, b
      <3>c. /\ Len(a \o b) = Len(a) + Len(b)
            /\ \A i \in 1 .. Len(a) + Len(b) :
                 (a \o b)[i] = IF i <= Len(a) THEN a[i] ELSE b[i - Len(a)]
        BY <3>1, ConcatProperties, Zenon
      <3>2. Len(a \o b) = 2 /\ (a \o b)[1] = cursor /\ (a \o b)[2] = next
        BY <3>1, <3>c
      <3> QED
        BY <2>1, <3>2 DEF a, b
    <2> HIDE DEF chain
    <2>3. ChainResult(current, chain) = next
      BY <2>2 DEF ChainResult
    <2>4. AllowedTransition(current, cursor) /\ AllowedTransition(cursor, next)
            => ChainAllowed(current, chain)
      BY <2>2 DEF ChainAllowed
    <2> QED
      BY <2>3, <2>4 DEF chain
  <1> QED
    BY <1>1, <1>2, <1>3

\* connectorJobStatusTransitions(): evidence that names the message resolves the
\* job, none takes a resolution back, and the trigger refuses a chain only for a
\* job that was put back before its dispatch.
LEMMA ChainResolves ==
    ASSUME NEW current \in Live, NEW kind \in EvidenceKind
    PROVE  LET chain == ConnectorJobStatusTransitions(current, kind)
               new == ChainResult(current, chain) IN
           /\ new \in Live
           /\ current \in Resolved \/ NamesMessage(kind) => new \in Resolved
           /\ current \notin {"SCHEDULED", "QUEUED"} => ChainAllowed(current, chain)
  <1> DEFINE chain == ConnectorJobStatusTransitions(current, kind)
             new == ChainResult(current, chain)
  <1>1. CASE kind \in {"SEND_ACCEPTED", "SEND_REJECTED", "ACK_FAILED"}
    <2> DEFINE incoming == IF kind = "SEND_ACCEPTED" THEN "ACCEPTED" ELSE "FAILED"
               next == NextProjectedMessageStatus(current, incoming)
    <2>1. chain = Step(current, next)
      BY <1>1 DEF ConnectorJobStatusTransitions
    <2>2. incoming \in Resolved
      BY DEF Resolved
    <2>a. incoming \in {"ACCEPTED", "FAILED"}
      OBVIOUS
    <2> HIDE DEF incoming
    <2>3. /\ next \in Resolved
          /\ current \notin {"SCHEDULED", "QUEUED"} => AllowedTransition(current, next)
      BY <2>2, <2>a, ProjectionResolves, AllowedUpdates DEF AllowedTransition
    <2> HIDE DEF next, chain
    <2>4. new = next
      BY <2>1, ChainOfOne
    <2>5. current \notin {"SCHEDULED", "QUEUED"} => ChainAllowed(current, chain)
      BY <2>1, <2>3, ChainOfOne
    <2> QED
      BY <2>3, <2>4, <2>5 DEF Live, chain
  <1>2. CASE kind \in {"ACK_SENT", "ACK_DELIVERED", "ACK_READ"}
    <2> DEFINE incoming == TransportStateFromEvidence[kind]
               cursor == IF current = "PROCESSING" THEN "ACCEPTED" ELSE current
               next == NextProjectedMessageStatus(cursor, incoming)
    <2>1. chain = Step(current, cursor) \o Step(cursor, next)
      BY <1>2 DEF ConnectorJobStatusTransitions
    <2>2. incoming \in Resolved
      BY <1>2 DEF TransportStateFromEvidence, Resolved
    <2>3. /\ cursor \in Live /\ AllowedTransition(current, cursor) /\ cursor # "PROCESSING"
          /\ current \notin {"SCHEDULED", "QUEUED"} => cursor \notin {"SCHEDULED", "QUEUED"}
      BY AllowedUpdates DEF Live, Resolved, AllowedTransition
    <2> HIDE DEF incoming, cursor
    <2>4. /\ next \in Resolved
          /\ cursor \notin {"SCHEDULED", "QUEUED"} => AllowedTransition(cursor, next)
      BY <2>2, <2>3, ProjectionResolves
    <2>t. current \in JobStatus /\ cursor \in JobStatus /\ next \in JobStatus
      BY <2>3, <2>4 DEF Live, Resolved
    <2> HIDE DEF next, chain
    <2>5. new = next
      BY <2>1, <2>t, ChainOfTwo
    <2>6. current \notin {"SCHEDULED", "QUEUED"} => ChainAllowed(current, chain)
      BY <2>1, <2>3, <2>4, <2>t, ChainOfTwo
    <2> QED
      BY <2>4, <2>5, <2>6 DEF Live, chain
  <1>3. CASE kind = "SEND_INDETERMINATE"
    <2>1. CASE current = "PROCESSING"
      <3>1. chain = Step(current, "UNKNOWN") /\ AllowedTransition(current, "UNKNOWN")
        BY <1>3, <2>1 DEF ConnectorJobStatusTransitions, Step, AllowedTransition, AllowedTransitions
      <3> HIDE DEF chain
      <3>2. new = "UNKNOWN" /\ ChainAllowed(current, chain)
        BY <3>1, ChainOfOne
      <3> QED
        BY <1>3, <2>1, <3>2 DEF Live, Resolved, NamesMessage, chain
    <2>2. CASE current # "PROCESSING"
      <3>1. chain = <<>>
        BY <1>3, <2>2 DEF ConnectorJobStatusTransitions
      <3> QED
        BY <1>3, <3>1 DEF ChainResult, ChainAllowed, NamesMessage
    <2> QED
      BY <2>1, <2>2
  <1>4. CASE kind \in {"COMMAND_RECEIVED", "SEND_STARTED"}
    <2>1. chain = <<>>
      BY <1>4 DEF ConnectorJobStatusTransitions
    <2> QED
      BY <1>4, <2>1 DEF ChainResult, ChainAllowed, NamesMessage
  <1> QED
    BY <1>1, <1>2, <1>3, <1>4

-----------------------------------------------------------------------------
(* Evidence and the job. What the connector reports of a message follows   *)
(* one another, so that evidence passed over as stale lies before evidence *)
(* that was projected: if it names the message, so did the later one, and  *)
(* the job is resolved. A projection is refused only for a job put back    *)
(* before its dispatch, or one that names the message of another attempt,  *)
(* and both take an attempt given up as rate limited.                      *)

\* A chain of evidence names the message from some element on.
NamedFrom(log) ==
    \A i, j \in 1 .. Len(log) : i < j /\ NamesMessage(log[i]) => NamesMessage(log[j])

\* Evidence recorded lies in the chain, the attempt's position among it, and what names the
\* message resolved the job.
Heard(n) ==
    /\ NamedFrom(Log(n))
    /\ inbox[n].recorded \subseteq 1 .. Len(Log(n))
    /\ attempts[n].lastSeq # 0 => attempts[n].lastSeq \in inbox[n].recorded
    /\ \A i \in inbox[n].recorded : NamesMessage(Log(n)[i]) => status \in Resolved

\* The message the job names is one the connector holds a command for.
Bound == messageId # 0 => messageId \in Present /\ Log(messageId) # <<>>

\* Attempts are given up for another one only as rate limited.
Limited ==
    \A n \in Present : (n < Len(attempts) \/ Reopenable) => attempts[n].kind = "RATE_LIMITED_SAFE"

GivenUp(n) ==
    /\ attempts[n].kind = "RATE_LIMITED_SAFE" /\ Log(n) # <<>>
    /\ attempts[n].state = "FAILED_DEFINITIVE"

Refused == (\E n \in Present : inbox[n].dead # {}) => \E n \in Present : GivenUp(n)

Settled == status \in Live /\ (\A n \in Present : Heard(n)) /\ Bound /\ Limited /\ Refused

-----------------------------------------------------------------------------
(* What a step that records no evidence leaves as it is.                   *)

\* The position in the chain stays, and so does the kind of failure of a closed attempt.
RowKeeps(old, new) ==
    new.lastSeq = old.lastSeq /\ (old.state = "FAILED_DEFINITIVE" => new.kind = old.kind)

\* A chain of evidence is only added to.
Longer(old, new) ==
    /\ Len(new) >= Len(old) /\ \A i \in 1 .. Len(old) : new[i] = old[i]
    /\ NamedFrom(old) => NamedFrom(new)

StatusKeeps ==
    /\ status \in Live => status' \in Live
    /\ status \in Resolved => status' \in Resolved

Calm ==
    /\ Present' = Present /\ UNCHANGED <<inbox, messageId>> /\ StatusKeeps
    /\ \A n \in Present : RowKeeps(attempts[n], attempts'[n]) /\ Longer(Log(n), Log(n)')

\* The rows the code writes keep their position.
LEMMA PositionKept ==
    ASSUME NEW row \in AttemptRecord
    PROVE  /\ \A d \in Dispatchers : ClaimedRow(row, d).lastSeq = row.lastSeq
           /\ DeferredRow(row).lastSeq = row.lastSeq
           /\ AcceptedRow(row).lastSeq = row.lastSeq
           /\ \A kind \in FailureKind : RescheduledRow(row, kind).lastSeq = row.lastSeq
  BY DEF ClaimedRow, DeferredRow, AcceptedRow, RescheduledRow, Released, AttemptRecord

\* Closing an attempt names the kind of its failure.
LEMMA ClosedKeeps ==
    ASSUME NEW row \in AttemptRecord, NEW state \in TransportState, NEW kind \in FailureKind,
           NEW outcome \in SafetyOutcome
    PROVE  /\ Closed(row, state, kind, outcome).lastSeq = row.lastSeq
           /\ Closed(row, state, kind, outcome).kind = kind
  BY DEF Closed, Released, AttemptRecord

\* settle() and settleExpired()
LEMMA SettledKeeps ==
    ASSUME NEW row \in AttemptRecord, NEW failed \in BOOLEAN
    PROVE  /\ SettledRow(row, failed).lastSeq = row.lastSeq
           /\ ExpiredRow(row, failed).lastSeq = row.lastSeq
           /\ RejectedRow(row).lastSeq = row.lastSeq
           /\ RejectedRow(row).kind = "RATE_LIMITED_SAFE"
  <1>1. row.kind \in FailureKind
    BY DEF AttemptRecord
  <1>2. SettledRow(row, failed).lastSeq = row.lastSeq
    BY ClosedKeeps DEF SettledRow
  <1>3. RejectedRow(row).lastSeq = row.lastSeq /\ RejectedRow(row).kind = "RATE_LIMITED_SAFE"
    BY ClosedKeeps DEF RejectedRow
  <1>4. ExpiredRow(row, failed).lastSeq = row.lastSeq
    <2> DEFINE closed == Closed(row, "FAILED_DEFINITIVE", row.kind, "SAFE_REJECTION")
               other == Closed(row, "INDETERMINATE", row.kind, "AMBIGUOUS")
    <2>0. closed.lastSeq = row.lastSeq /\ other.lastSeq = row.lastSeq
      BY <1>1, ClosedKeeps
    <2>a. closed \in AttemptRecord
      <3> HIDE DEF TransportState, FailureKind, SafetyOutcome
      <3>1. "FAILED_DEFINITIVE" \in TransportState /\ "SAFE_REJECTION" \in SafetyOutcome
        BY DEF TransportState, SafetyOutcome
      <3> QED
        BY <1>1, <3>1, ClosedRow
    <2>1. closed.lastSeq = row.lastSeq /\ other.lastSeq = row.lastSeq /\ closed \in AttemptRecord
      BY <2>0, <2>a
    <2>2. ExpiredRow(row, failed) = IF failed THEN [closed EXCEPT !.unsent = TRUE] ELSE other
      BY DEF ExpiredRow
    <2> HIDE DEF closed, other
    <2>3. [closed EXCEPT !.unsent = TRUE].lastSeq = closed.lastSeq
      BY <2>1 DEF AttemptRecord
    <2> QED
      BY <2>1, <2>2, <2>3
  <1> QED
    BY <1>2, <1>3, <1>4

\* Evidence added to a chain.
LEMMA AppendLonger ==
    ASSUME NEW log \in Seq(EvidenceKind), NEW kind \in EvidenceKind,
           NamesMessage(kind) \/ \A i \in 1 .. Len(log) : ~NamesMessage(log[i])
    PROVE  Longer(log, Append(log, kind))
  <1> DEFINE new == Append(log, kind)
  <1>1. /\ new \in Seq(EvidenceKind) /\ Len(new) = Len(log) + 1 /\ Len(log) \in Nat
        /\ new[Len(log) + 1] = kind
        /\ \A i \in 1 .. Len(log) : new[i] = log[i]
    BY SeqAppend
  <1> HIDE DEF new
  <1>2. ASSUME NamedFrom(log), NEW i \in 1 .. Len(new), NEW j \in 1 .. Len(new),
               i < j, NamesMessage(new[i])
        PROVE  NamesMessage(new[j])
    <2>1. i \in 1 .. Len(log) /\ NamesMessage(log[i])
      BY <1>1, <1>2
    <2>2. CASE j \in 1 .. Len(log)
      BY <1>1, <1>2, <2>1, <2>2 DEF NamedFrom
    <2>3. CASE j = Len(log) + 1
      BY <1>1, <2>1, <2>3
    <2> QED
      BY <1>1, <2>2, <2>3
  <1> QED
    BY <1>1, <1>2 DEF Longer, NamedFrom, new

\* A chain that is left alone, and one that begins.
LEMMA SameLonger ==
    ASSUME NEW log \in Seq(EvidenceKind)
    PROVE  Longer(log, log)
  BY DEF Longer

LEMMA FirstLonger == Longer(<<>>, <<"COMMAND_RECEIVED">>)
  <1> DEFINE new == <<"COMMAND_RECEIVED">>
  <1>1. Len(new) = 1 /\ Len(<<>>) = 0
    OBVIOUS
  <1> HIDE DEF new
  <1>2. NamedFrom(new)
    BY <1>1 DEF NamedFrom
  <1> QED
    BY <1>1, <1>2 DEF Longer, new

\* Steps that leave the attempts, or the connector, alone.
LEMMA CalmLogs ==
    ASSUME TypeOK, plugin' = plugin
    PROVE  \A n \in Present : Longer(Log(n), Log(n)') /\ Log(n)' = Log(n)
  <1>1. \A n \in Present : Log(n)' = Log(n)
    BY DEF Log
  <1>2. \A n \in Present : Longer(Log(n), Log(n))
    BY Elements, SameLonger
  <1> QED
    BY <1>1, <1>2

LEMMA CalmWrite ==
    ASSUME TypeOK, Present' = Present, UNCHANGED <<inbox, messageId, plugin>>, StatusKeeps,
           NEW n \in Present, RowKeeps(attempts[n], attempts'[n]),
           \A m \in Present : m # n => attempts'[m] = attempts[m]
    PROVE  Calm
  BY CalmLogs DEF Calm, RowKeeps

LEMMA CalmStutter ==
    ASSUME TypeOK, UNCHANGED <<attempts, inbox, messageId, plugin>>, StatusKeeps
    PROVE  Calm
  <1>1. Present' = Present
    BY DEF Present
  <1>2. \A n \in Present : RowKeeps(attempts[n], attempts'[n])
    BY DEF RowKeeps
  <1> QED
    BY <1>1, <1>2, CalmLogs DEF Calm

-----------------------------------------------------------------------------
(* The steps that record no evidence.                                      *)

\* UPDATE message_jobs ... WHERE status = 'PROCESSING'
LEMMA FromProcessingKeeps ==
    ASSUME NEW new \in Live, status' \in {status, FromProcessing(new)}
    PROVE  StatusKeeps
  BY DEF FromProcessing, StatusKeeps, Live, Resolved

\* Steps on the status of the job alone.
LEMMA StatusCalm ==
    ASSUME TypeOK, ClaimDueJob \/ RequeueJob \/ MarkProcessing \/ DeferProcessing
    PROVE  Calm
  <1>1. UNCHANGED <<attempts, inbox, messageId, plugin>>
    BY DEF ClaimDueJob, RequeueJob, MarkProcessing, DeferProcessing
  <1>2. StatusKeeps
    BY DEF ClaimDueJob, RequeueJob, MarkProcessing, DeferProcessing, StatusKeeps, Live, Resolved
  <1> QED
    BY <1>1, <1>2, CalmStutter

\* updateResult('FAILED') before the commit closes the last attempt whatever it was, and
\* leaves the kind of its failure alone.
LEMMA FailureCalm ==
    ASSUME TypeOK, FailBeforeStart
    PROVE  Calm
  <1>1. UNCHANGED <<inbox, messageId, plugin>> /\ StatusKeeps
    BY DEF FailBeforeStart, StatusKeeps, Live, Resolved
  <1>2. CASE attempts = <<>>
    BY <1>1, <1>2, CalmStutter DEF FailBeforeStart
  <1>3. CASE attempts # <<>>
    <2> DEFINE n == Len(attempts)
               row == [attempts[n] EXCEPT !.state = "FAILED_DEFINITIVE"]
    <2>1. n \in Present /\ n \in 1 .. Len(attempts)
      BY <1>3 DEF Present, TypeOK
    <2>2. attempts' = [attempts EXCEPT ![n] = row]
      BY <1>3 DEF FailBeforeStart
    <2>3. attempts[n] \in AttemptRecord /\ attempts \in Seq(AttemptRecord)
      BY <2>1, Elements DEF TypeOK
    <2> HIDE DEF n
    <2>4. row \in AttemptRecord /\ row.lastSeq = attempts[n].lastSeq /\ row.kind = attempts[n].kind
      BY <2>3 DEF AttemptRecord
    <2> HIDE DEF row
    <2>5. /\ Present' = Present /\ attempts'[n] = row
          /\ \A m \in Present : m # n => attempts'[m] = attempts[m]
      BY <2>1, <2>2, <2>3, <2>4, SeqExcept DEF Present
    <2> QED
      BY <1>1, <2>1, <2>4, <2>5, CalmWrite DEF RowKeeps
  <1> QED
    BY <1>2, <1>3

\* claimDue()
LEMMA ClaimCalm ==
    ASSUME TypeOK, NEW d \in Dispatchers, NEW n \in Present, ClaimCommand(d, n)
    PROVE  Calm
  <1>1. /\ Present' = Present /\ attempts'[n] = ClaimedRow(Row(n), d)
        /\ \A m \in Present : m # n => attempts'[m] = attempts[m]
    BY ClaimStep
  <1>2. /\ UNCHANGED <<status, inbox, messageId, plugin>> /\ Row(n) \in AttemptRecord
        /\ Row(n).state = "DISPATCH_STARTED"
    BY Elements DEF ClaimCommand, Claimable
  <1>3. RowKeeps(attempts[n], attempts'[n])
    BY <1>1, <1>2, PositionKept DEF RowKeeps, Row
  <1> QED
    BY <1>1, <1>2, <1>3, CalmWrite DEF StatusKeeps

\* The writes of a dispatcher under its lease.
LEMMA WriteBackCalm ==
    ASSUME TypeOK, NEW d \in Dispatchers,
           \/ DeferForDispatchReadiness(d) \/ MarkAccepted(d) \/ Reschedule(d) \/ Settle(d)
           \/ RescheduleSafeRejection(d)
    PROVE  Calm
  <1>1. disp[d].phase # "idle" /\ Finish(d) /\ UNCHANGED <<messageId, plugin, inbox>>
    BY DEF DeferForDispatchReadiness, MarkAccepted, Reschedule, Settle, RescheduleSafeRejection
  <1> DEFINE n == disp[d].n
  <1>2. /\ n \in Present /\ Row(n) \in AttemptRecord
        /\ Owned(d) => Row(n).state = "DISPATCH_STARTED"
    BY <1>1, Busy DEF Owned
  <1>3. status' \in JobStatus /\ started' \in BOOLEAN
    BY DEF DeferForDispatchReadiness, MarkAccepted, Reschedule, Settle, RescheduleSafeRejection,
           FromProcessing, TypeOK
  <1>4. StatusKeeps
    <2>1. \E new \in Live : status' \in {status, FromProcessing(new)}
      BY DEF DeferForDispatchReadiness, MarkAccepted, Reschedule, Settle, RescheduleSafeRejection,
             Live, Resolved
    <2> QED
      BY <2>1, FromProcessingKeeps
  <1>5. PICK row : /\ WriteBack(d, row)
                   /\ Owned(d) => RowMoves(Row(n), row) /\ row.lastSeq = Row(n).lastSeq
    <2>1. CASE DeferForDispatchReadiness(d)
      BY <2>1, <1>2, DeferredRowMoves, PositionKept DEF DeferForDispatchReadiness
    <2>2. CASE MarkAccepted(d)
      BY <2>2, <1>2, AcceptedRowMoves, PositionKept DEF MarkAccepted
    <2>3. CASE Reschedule(d)
      <3>1. disp[d].answer \in FailureKind
        BY <2>3 DEF Reschedule
      <3>2. RowMoves(Row(n), RescheduledRow(Row(n), disp[d].answer))
        BY <1>2, <3>1, RescheduledRowMoves
      <3>3. RescheduledRow(Row(n), disp[d].answer).lastSeq = Row(n).lastSeq
        BY <1>2, <3>1, PositionKept
      <3> QED
        BY <2>3, <3>2, <3>3 DEF Reschedule
    <2>4. CASE Settle(d)
      <3> DEFINE failed == disp[d].answer = "DEFINITIVE"
      <3>1. WriteBack(d, SettledRow(Row(n), failed)) /\ failed \in BOOLEAN
        BY <2>4 DEF Settle
      <3> HIDE DEF failed
      <3> QED
        BY <3>1, <1>2, SettledRowMoves, SettledKeeps
    <2>5. CASE RescheduleSafeRejection(d)
      BY <2>5, <1>2, RejectedRowMoves, SettledKeeps DEF RescheduleSafeRejection
    <2> QED
      BY <2>1, <2>2, <2>3, <2>4, <2>5
  <1>6. /\ Present' = Present
        /\ attempts'[n] = IF Owned(d) THEN row ELSE Row(n)
        /\ \A m \in Present : m # n => attempts'[m] = attempts[m]
    BY <1>1, <1>3, <1>5, WriteBackStep
  <1>7. RowKeeps(attempts[n], attempts'[n])
    BY <1>2, <1>5, <1>6 DEF RowKeeps, Row
  <1> HIDE DEF n
  <1> QED
    BY <1>1, <1>2, <1>4, <1>6, <1>7, CalmWrite

\* submit(), or a dispatcher that dies: the chain of the command begins, or goes on.
LEMMA SubmitCalm ==
    ASSUME TypeOK, NEW d \in Dispatchers,
           \/ \E answer \in Answer, arrived \in BOOLEAN : Submit(d, answer, arrived)
           \/ DispatcherDies(d)
    PROVE  Calm
  <1>0. PICK n \in Present : n = disp[d].n
    BY SubmitSteps
  <1>1. /\ UNCHANGED <<status, messageId, attempts, inbox>>
        /\ plugin' = plugin \/ plugin' = [plugin EXCEPT ![n] = Received(plugin[n])]
    BY <1>0 DEF Submit, DispatcherDies
  <1>2. /\ n \in Present /\ Present' = Present
        /\ \A m \in Present : plugin'[m] # plugin[m] => m = n
    BY <1>0, <1>1, SubmitSteps DEF Present
  <1>3. StatusKeeps /\ \A m \in Present : RowKeeps(attempts[m], attempts'[m])
    BY <1>1 DEF StatusKeeps, RowKeeps
  <1>4. plugin[n] \in PluginRecord /\ Log(n) \in Seq(EvidenceKind)
        /\ n \in 1 .. Len(plugin) /\ plugin \in Seq(PluginRecord)
    BY <1>2, Elements DEF TypeOK, Present
  <1>5. Longer(Log(n), Log(n)')
    <2>1. CASE plugin' = plugin
      BY <1>4, <2>1, SameLonger DEF Log
    <2>2. CASE plugin' = [plugin EXCEPT ![n] = Received(plugin[n])]
      <3> DEFINE p == Received(plugin[n])
      <3>1. p \in PluginRecord
        BY <1>2, ReceivedTyped
      <3>2. p.log = Log(n) \/ (Log(n) = <<>> /\ p.log = <<"COMMAND_RECEIVED">>)
        BY <1>4 DEF Received, Log, PluginRecord
      <3> HIDE DEF p
      <3>3. plugin' = [plugin EXCEPT ![n] = p]
        BY <2>2 DEF p
      <3>4. Log(n)' = p.log
        BY <1>4, <3>1, <3>3, SeqExcept DEF Log
      <3> QED
        BY <1>4, <3>2, <3>4, SameLonger, FirstLonger
    <2> QED
      BY <1>1, <2>1, <2>2
  <1>6. \A m \in Present : m # n => Longer(Log(m), Log(m)')
    <2> SUFFICES ASSUME NEW m \in Present, m # n PROVE Longer(Log(m), Log(m)')
      OBVIOUS
    <2>1. Log(m)' = Log(m) /\ Log(m) \in Seq(EvidenceKind)
      BY <1>2, Elements DEF Log
    <2> QED
      BY <2>1, SameLonger
  <1> QED
    BY <1>1, <1>2, <1>3, <1>5, <1>6 DEF Calm

\* Leases and commands run out; settleExpired() and settleEvidenceTimeout().
LEMMA DeadlineCalm ==
    ASSUME TypeOK, NEW n \in Present, DeadlineStep(n)
    PROVE  Calm
  <1>1. /\ UNCHANGED <<messageId, plugin, inbox>> /\ Row(n) \in AttemptRecord
        /\ attempts \in Seq(AttemptRecord) /\ n \in 1 .. Len(attempts)
    BY Elements DEF TypeOK, Present, DeadlineStep, LeaseExpires, CommandExpires, SettleExpired,
                    SettleEvidenceTimeout
  <1>2. StatusKeeps
    <2>1. \E new \in Live : status' \in {status, FromProcessing(new)}
      BY DEF DeadlineStep, LeaseExpires, CommandExpires, SettleExpired, SettleEvidenceTimeout,
             Live, Resolved
    <2> QED
      BY <2>1, FromProcessingKeeps
  <1>3. PICK row \in AttemptRecord : Write(n, row) /\ RowKeeps(Row(n), row)
    <2>1. CASE LeaseExpires(n)
      <3> DEFINE row == [Row(n) EXCEPT !.leaseLive = FALSE]
      <3>1. row \in AttemptRecord /\ row.lastSeq = Row(n).lastSeq /\ row.kind = Row(n).kind
        BY <1>1 DEF AttemptRecord
      <3>2. Write(n, row)
        BY <2>1 DEF LeaseExpires
      <3> HIDE DEF row
      <3> QED
        BY <3>1, <3>2 DEF RowKeeps
    <2>2. CASE CommandExpires(n)
      <3> DEFINE row == [Row(n) EXCEPT !.expired = TRUE]
      <3>1. row \in AttemptRecord /\ row.lastSeq = Row(n).lastSeq /\ row.kind = Row(n).kind
        BY <1>1 DEF AttemptRecord
      <3>2. Write(n, row)
        BY <2>2 DEF CommandExpires
      <3> HIDE DEF row
      <3> QED
        BY <3>1, <3>2 DEF RowKeeps
    <2>3. CASE SettleExpired(n)
      <3> DEFINE failed == Row(n).deliveries = 0 \/ Row(n).kind = "RATE_LIMITED_SAFE"
                 row == ExpiredRow(Row(n), failed)
      <3>1. Write(n, row) /\ Row(n).state = "DISPATCH_STARTED"
        BY <2>3 DEF SettleExpired, Expirable
      <3>2. failed \in BOOLEAN
        OBVIOUS
      <3> HIDE DEF failed
      <3>3. row \in AttemptRecord /\ row.lastSeq = Row(n).lastSeq
        BY <1>1, <3>1, <3>2, ExpiredRowMoves, SettledKeeps DEF RowMoves
      <3> HIDE DEF row
      <3> QED
        BY <3>1, <3>3 DEF RowKeeps
    <2>4. CASE SettleEvidenceTimeout(n)
      <3> DEFINE row == Closed(Row(n), "INDETERMINATE", Row(n).kind, "AMBIGUOUS")
      <3>1. Write(n, row) /\ Row(n).state \in OpenTransport /\ Row(n).kind \in FailureKind
        BY <1>1, <2>4 DEF SettleEvidenceTimeout, AwaitsEvidence, OpenTransport, AttemptRecord
      <3>2. row \in AttemptRecord
        BY <1>1, <3>1, ClosedRowMoves DEF RowMoves
      <3>3. row.lastSeq = Row(n).lastSeq
        BY <1>1, <3>1, ClosedKeeps
      <3> HIDE DEF row
      <3> QED
        BY <3>1, <3>2, <3>3 DEF RowKeeps, OpenTransport
    <2> QED
      BY <2>1, <2>2, <2>3, <2>4 DEF DeadlineStep
  <1>4. /\ Present' = Present /\ attempts'[n] = row
        /\ \A m \in Present : m # n => attempts'[m] = attempts[m]
    BY <1>1, <1>3, SeqExcept DEF Write, Present
  <1> QED
    BY <1>1, <1>2, <1>3, <1>4, CalmWrite DEF Row

\* The connector adds evidence to the chain of a command: the first that names the message, or
\* an acknowledgement of it.
LEMMA PluginCalm ==
    ASSUME TypeOK, NEW n \in Present, PluginStep(n)
    PROVE  Calm
  <1>1. UNCHANGED <<status, messageId, attempts, inbox>>
    BY DEF PluginStep, PluginRejects, PluginStarts, PluginSends, PluginReports, PluginAcknowledges, Emits
  <1>2. /\ Present' = Present /\ StatusKeeps
        /\ \A m \in Present : RowKeeps(attempts[m], attempts'[m])
    BY <1>1 DEF StatusKeeps, RowKeeps, Present
  <1>3. /\ plugin[n] \in PluginRecord /\ Log(n) \in Seq(EvidenceKind)
        /\ plugin \in Seq(PluginRecord) /\ n \in 1 .. Len(plugin)
    BY Elements DEF TypeOK, Present
  <1>4. Longer(Log(n), Log(n)')
    <2>1. CASE PluginSends(n)
      <3> DEFINE p == [plugin[n] EXCEPT !.effect = TRUE]
      <3>1. p \in PluginRecord /\ p.log = Log(n)
        BY <1>3 DEF PluginRecord, Log
      <3>2. plugin' = [plugin EXCEPT ![n] = p]
        BY <2>1 DEF PluginSends
      <3> HIDE DEF p
      <3>3. Log(n)' = Log(n)
        BY <1>3, <3>1, <3>2, SeqExcept DEF Log
      <3> QED
        BY <1>3, <3>3, SameLonger
    <2>2. ASSUME NEW kind \in EvidenceKind, Emits(n, kind),
                 NamesMessage(kind) \/ \A i \in 1 .. Len(Log(n)) : ~NamesMessage(Log(n)[i])
          PROVE  Longer(Log(n), Log(n)')
      <3> DEFINE log == Append(plugin[n].log, kind)
                 p == [plugin[n] EXCEPT !.log = log]
      <3>1. log \in Seq(EvidenceKind)
        BY <1>3, SeqAppend DEF Log
      <3>2. plugin' = [plugin EXCEPT ![n] = p]
        BY <2>2 DEF Emits
      <3> HIDE DEF log
      <3>3. p \in PluginRecord /\ p.log = log
        BY <1>3, <3>1 DEF PluginRecord
      <3> HIDE DEF p
      <3>4. Log(n)' = Append(Log(n), kind)
        BY <1>3, <3>2, <3>3, SeqExcept DEF Log, log
      <3> QED
        BY <1>3, <2>2, <3>4, AppendLonger
    <2>3. Log(n) = <<"COMMAND_RECEIVED">> => \A i \in 1 .. Len(Log(n)) : ~NamesMessage(Log(n)[i])
      <3> DEFINE s == <<"COMMAND_RECEIVED">>
      <3>1. Len(s) = 1 /\ s[1] = "COMMAND_RECEIVED"
        OBVIOUS
      <3> HIDE DEF s
      <3>2. \A i \in 1 .. Len(s) : ~NamesMessage(s[i])
        BY <3>1 DEF NamesMessage
      <3> QED
        BY <3>2 DEF s
    <2>4. Log(n) = <<"COMMAND_RECEIVED", "SEND_STARTED">>
             => \A i \in 1 .. Len(Log(n)) : ~NamesMessage(Log(n)[i])
      <3> DEFINE s == <<"COMMAND_RECEIVED", "SEND_STARTED">>
      <3>1. Len(s) = 2 /\ s[1] = "COMMAND_RECEIVED" /\ s[2] = "SEND_STARTED"
        OBVIOUS
      <3> HIDE DEF s
      <3>2. \A i \in 1 .. Len(s) : ~NamesMessage(s[i])
        BY <3>1 DEF NamesMessage
      <3> QED
        BY <3>2 DEF s
    <2>5. CASE PluginRejects(n) \/ PluginStarts(n)
      BY <2>2, <2>3, <2>5 DEF PluginRejects, PluginStarts
    <2>6. ASSUME NEW kind \in {"SEND_ACCEPTED", "SEND_INDETERMINATE"}, PluginReports(n, kind)
          PROVE  Longer(Log(n), Log(n)')
      BY <2>2, <2>4, <2>6 DEF PluginReports
    <2>7. ASSUME NEW kind \in DOMAIN Outdates, PluginAcknowledges(n, kind)
          PROVE  Longer(Log(n), Log(n)')
      BY <2>2, <2>7 DEF PluginAcknowledges, Outdates, NamesMessage
    <2> QED
      BY <2>1, <2>5, <2>6, <2>7 DEF PluginStep
  <1>5. \A m \in Present : m # n => Longer(Log(m), Log(m)')
    <2> SUFFICES ASSUME NEW m \in Present, m # n PROVE Longer(Log(m), Log(m)')
      OBVIOUS
    <2>1. Log(m)' = Log(m) /\ Log(m) \in Seq(EvidenceKind)
      BY PluginSteps, Elements DEF Log
    <2> QED
      BY <2>1, SameLonger
  <1> QED
    BY <1>1, <1>2, <1>4, <1>5 DEF Calm

\* projectEvent()
LEMMA EventCalm ==
    ASSUME TypeOK, NEW incoming \in {"SENT", "DELIVERED", "READ", "FAILED"}, ProjectEvent(incoming)
    PROVE  Calm
  <1>1. /\ UNCHANGED <<messageId, attempts, plugin, inbox>>
        /\ status' = NextProjectedMessageStatus(status, incoming)
    BY DEF ProjectEvent
  <1>2. incoming \in Resolved
    BY DEF Resolved
  <1>3. status \in Live => status' \in Resolved
    BY <1>1, <1>2, ProjectionResolves
  <1>4. StatusKeeps
    BY <1>3 DEF StatusKeeps, Live
  <1> QED
    BY <1>1, <1>4, CalmStutter

-----------------------------------------------------------------------------
(* The invariant is kept.                                                  *)

\* Attempts given up stay given up.
LEMMA GivenUpForever ==
    ASSUME TypeOK, TypeOK', Forward, NEW n \in Present, GivenUp(n),
           attempts[n].state = "FAILED_DEFINITIVE" => attempts'[n].kind = attempts[n].kind,
           Longer(Log(n), Log(n)')
    PROVE  GivenUp(n)'
  <1>1. attempts'[n].state = "FAILED_DEFINITIVE" /\ attempts'[n].kind = "RATE_LIMITED_SAFE"
    BY ClosedForever DEF GivenUp
  <1>2. Log(n) # <<>> /\ Log(n) \in Seq(EvidenceKind)
    BY Elements DEF GivenUp
  <1>3. Log(n)' # <<>>
    <2>1. Len(Log(n)) >= 1 /\ Len(<<>>) = 0
      BY <1>2
    <2> QED
      BY <2>1 DEF Longer
  <1> QED
    BY <1>1, <1>3 DEF GivenUp

\* The kinds of failure of the attempts given up for another one.
LEMMA LimitedKept ==
    ASSUME TypeOK, EarlierAttemptsClosed, Limited, Present' = Present, StaysClosed,
           Len(attempts') = Len(attempts),
           \A n \in Present :
              attempts[n].state = "FAILED_DEFINITIVE" => attempts'[n].kind = attempts[n].kind
    PROVE  Limited'
  <1> SUFFICES ASSUME NEW n \in Present, n < Len(attempts) \/ Reopenable'
               PROVE  attempts'[n].kind = "RATE_LIMITED_SAFE"
    BY DEF Limited
  <1>1. n < Len(attempts) \/ Reopenable
    BY DEF StaysClosed
  <1>2. attempts[n].kind = "RATE_LIMITED_SAFE" /\ attempts[n].state = "FAILED_DEFINITIVE"
    BY <1>1 DEF Limited, EarlierAttemptsClosed, Reopenable
  <1> QED
    BY <1>2

\* A calm step.
LEMMA CalmSettled ==
    ASSUME TypeOK, TypeOK', Forward, Settled, Calm, Limited'
    PROVE  Settled'
  <1>1. Present' = Present /\ messageId' = messageId /\ inbox' = inbox
    BY DEF Calm
  <1>2. \A n \in Present : Longer(Log(n), Log(n)') /\ RowKeeps(attempts[n], attempts'[n])
    BY DEF Calm
  <1>3. ASSUME NEW n \in Present
        PROVE  Heard(n)'
    <2>1. /\ Heard(n) /\ Longer(Log(n), Log(n)') /\ attempts'[n].lastSeq = attempts[n].lastSeq
          /\ Log(n) \in Seq(EvidenceKind) /\ Len(Log(n)) \in Nat
          /\ Log(n)' \in Seq(EvidenceKind) /\ Len(Log(n)') \in Nat
      <3>1. plugin'[n] \in PluginRecord
        BY <1>1 DEF TypeOK, Present
      <3> QED
        BY <1>2, <3>1, Elements DEF Settled, RowKeeps, Log, PluginRecord
    <2>2. NamedFrom(Log(n)')
      BY <2>1 DEF Heard, Longer
    <2>3. inbox[n].recorded \subseteq 1 .. Len(Log(n)')
      BY <2>1 DEF Heard, Longer
    <2>4. ASSUME NEW i \in inbox[n].recorded, NamesMessage(Log(n)'[i])
          PROVE  status' \in Resolved
      <3>1. i \in 1 .. Len(Log(n)) /\ Log(n)'[i] = Log(n)[i]
        BY <2>1 DEF Heard, Longer
      <3>2. status \in Resolved
        BY <2>1, <2>4, <3>1 DEF Heard
      <3> QED
        BY <3>2 DEF Calm, StatusKeeps
    <2>5. NamedFrom(Log(n))'
      BY <2>2 DEF NamedFrom
    <2> QED
      BY <1>1, <2>1, <2>3, <2>4, <2>5 DEF Heard
  <1>4. Bound'
    <2> SUFFICES ASSUME messageId # 0 PROVE messageId \in Present /\ plugin'[messageId].log # <<>>
      BY <1>1 DEF Bound, Log
    <2>1. messageId \in Present /\ Log(messageId) # <<>>
      BY DEF Settled, Bound
    <2>2. Log(messageId) \in Seq(EvidenceKind) /\ Longer(plugin[messageId].log, plugin'[messageId].log)
      <3>1. PICK m \in Present : m = messageId
        BY <2>1
      <3>2. Longer(Log(m), Log(m)') /\ Log(m) \in Seq(EvidenceKind)
        BY <1>2, Elements
      <3> QED
        BY <3>1, <3>2 DEF Log
    <2>3. Len(plugin[messageId].log) >= 1 /\ Len(<<>>) = 0
      BY <2>1, <2>2 DEF Log
    <2> QED
      BY <2>1, <2>2, <2>3 DEF Longer
  <1>5. Refused'
    <2> SUFFICES ASSUME \E n \in Present : inbox[n].dead # {} PROVE \E n \in Present : GivenUp(n)'
      BY <1>1 DEF Refused
    <2>1. PICK n \in Present : GivenUp(n)
      BY DEF Settled, Refused
    <2>2. GivenUp(n)'
      BY <1>2, <2>1, GivenUpForever DEF RowKeeps
    <2> QED
      BY <2>2
  <1>6. status' \in Live
    BY DEF Settled, Calm, StatusKeeps
  <1> QED
    BY <1>1, <1>3, <1>4, <1>5, <1>6 DEF Settled

\* commitMessageStart(): over attempts given up as rate limited, an attempt nobody has heard of.
LEMMA CommitSettled ==
    ASSUME TypeOK, EarlierAttemptsClosed, Settled, CommitMessageStart
    PROVE  Settled'
  <1>1. /\ Len(attempts') = Len(attempts) + 1 /\ Len(attempts) \in Nat
        /\ \A m \in Present : attempts'[m] = attempts[m] /\ plugin'[m] = plugin[m]
        /\ attempts'[Len(attempts')] = NewAttempt /\ plugin'[Len(attempts')].log = <<>>
        /\ Reopenable /\ ~Reopenable'
    BY CommitStep
  <1>2. /\ UNCHANGED <<status, messageId>>
        /\ \A m \in Present : inbox'[m] = inbox[m]
        /\ inbox'[Len(attempts')] = [recorded |-> {}, dead |-> {}]
    <2> DEFINE b == [recorded |-> {}, dead |-> {}]
    <2>1. b \in InboxRecord
      BY DEF InboxRecord
    <2>2. inbox' = Append(inbox, b) /\ UNCHANGED <<status, messageId>>
      BY DEF CommitMessageStart
    <2> HIDE DEF b
    <2>3. /\ inbox'[Len(inbox) + 1] = b
          /\ \A m \in 1 .. Len(inbox) : inbox'[m] = inbox[m]
      BY <2>1, <2>2, SeqAppend DEF TypeOK
    <2> QED
      BY <1>1, <2>2, <2>3 DEF TypeOK, Present, b
  <1>3. \A n \in Present' : n \in Present \/ n = Len(attempts')
    BY <1>1 DEF Present
  <1>4. Present \subseteq Present'
    BY <1>1 DEF Present
  <1>5. ASSUME NEW n \in Present'
        PROVE  Heard(n)'
    <2>1. CASE n \in Present
      <3>1. /\ Log(n)' = Log(n) /\ attempts'[n] = attempts[n] /\ inbox'[n] = inbox[n]
            /\ Heard(n) /\ status' = status
        BY <1>1, <1>2, <2>1 DEF Log, Settled
      <3>2. NamedFrom(Log(n))'
        BY <3>1 DEF Heard, NamedFrom
      <3> QED
        BY <3>1, <3>2 DEF Heard
    <2>2. CASE n = Len(attempts')
      <3>1. Log(n)' = <<>> /\ attempts'[n].lastSeq = 0 /\ inbox'[n].recorded = {}
        BY <1>1, <1>2, <2>2 DEF Log, NewAttempt
      <3>2. Len(Log(n)') = 0
        BY <3>1
      <3>3. NamedFrom(Log(n))'
        BY <3>2 DEF NamedFrom
      <3> QED
        BY <3>1, <3>3 DEF Heard
    <2> QED
      BY <1>3, <2>1, <2>2
  <1>6. Bound'
    <2> SUFFICES ASSUME messageId # 0 PROVE messageId \in Present' /\ plugin'[messageId].log # <<>>
      BY <1>2 DEF Bound, Log
    <2>1. messageId \in Present /\ plugin[messageId].log # <<>>
      BY DEF Settled, Bound, Log
    <2> QED
      BY <1>1, <1>4, <2>1
  <1>7. Limited'
    <2> SUFFICES ASSUME NEW n \in Present', n < Len(attempts')
                 PROVE  attempts'[n].kind = "RATE_LIMITED_SAFE"
      BY <1>1 DEF Limited
    <2>1. n \in Present
      BY <1>1, <1>3 DEF Present
    <2>2. attempts[n].kind = "RATE_LIMITED_SAFE"
      BY <1>1, <2>1 DEF Settled, Limited
    <2> QED
      BY <1>1, <2>1, <2>2
  <1>8. Refused'
    <2> SUFFICES ASSUME NEW n \in Present', inbox'[n].dead # {} PROVE \E m \in Present' : GivenUp(m)'
      BY DEF Refused
    <2>1. n \in Present /\ inbox[n].dead # {}
      BY <1>2, <1>3
    <2>2. PICK m \in Present : GivenUp(m)
      BY <2>1 DEF Settled, Refused
    <2>3. GivenUp(m)'
      BY <1>1, <2>2 DEF GivenUp, Log
    <2> QED
      BY <1>4, <2>3
  <1> QED
    BY <1>2, <1>5, <1>6, <1>7, <1>8 DEF Settled

\* projectInTransaction(): evidence passed over as stale lies before the attempt's position; if
\* it names the message, the evidence at that position named it too.
LEMMA EvidenceSettled ==
    ASSUME TypeOK, EarlierAttemptsClosed, Settled, NEW n \in Present,
           NEW i \in 1 .. Len(Log(n)), NEW class \in ErrorClass, ProjectEvidence(n, i, class)
    PROVE  Settled'
  <1> DEFINE row == IF Fresh(n, i) THEN ProjectedRow(Row(n), i, Log(n)[i], class) ELSE Row(n)
             b == [inbox[n] EXCEPT !.recorded = inbox[n].recorded \cup {i}]
  <1>1. /\ Quiet /\ UNCHANGED <<disp, plugin>> /\ Present' = Present
        /\ \A m \in Present : m # n => attempts'[m] = attempts[m]
    BY EvidenceSteps DEF EvidenceStep
  <1>2. /\ Row(n) \in AttemptRecord /\ inbox[n] \in InboxRecord /\ Log(n) \in Seq(EvidenceKind)
        /\ Len(Log(n)) \in Nat /\ Log(n)[i] \in EvidenceKind
        /\ attempts \in Seq(AttemptRecord) /\ n \in 1 .. Len(attempts)
        /\ inbox \in Seq(InboxRecord) /\ n \in 1 .. Len(inbox)
    BY Elements DEF TypeOK, Present
  <1>3. /\ Write(n, row) /\ inbox' = [inbox EXCEPT ![n] = b]
        /\ status' = ChainResult(status, Chain(n, i))
        /\ messageId' = messageId \/ messageId' = n
    BY DEF ProjectEvidence
  <1>4. row.kind = Row(n).kind /\ row.lastSeq = IF Fresh(n, i) THEN i ELSE Row(n).lastSeq
    BY <1>2 DEF ProjectedRow, AttemptRecord
  <1>5. row \in AttemptRecord
    <2>1. i \in EvidenceNumbers
      BY <1>2, Elements DEF EvidenceNumbers
    <2> QED
      BY <1>2, <2>1, ProjectedRowMoves DEF RowMoves
  <1>6. b \in InboxRecord /\ b.recorded = inbox[n].recorded \cup {i} /\ b.dead = inbox[n].dead
    <2>1. i \in EvidenceNumbers
      BY <1>2, Elements DEF EvidenceNumbers
    <2> QED
      BY <1>2, <2>1 DEF InboxRecord
  <1> HIDE DEF row, b
  <1>7. attempts'[n] = row
    BY <1>2, <1>3, <1>5, SeqExcept DEF Write
  <1>8. inbox'[n] = b /\ \A m \in 1 .. Len(inbox) : m # n => inbox'[m] = inbox[m]
    BY <1>2, <1>3, <1>6, SeqExcept
  <1>9. \A m \in Present : /\ inbox'[m].dead = inbox[m].dead
                           /\ attempts'[m].kind = attempts[m].kind
    BY <1>1, <1>4, <1>6, <1>7, <1>8 DEF Row, TypeOK, Present
  <1>10. \A m \in Present : Log(m)' = Log(m)
    BY <1>1 DEF Log
  <1>11. /\ status' \in Live /\ (status \in Resolved => status' \in Resolved)
         /\ NamesMessage(Log(n)[i]) => status' \in Resolved
    <2>1. status \in Live /\ Heard(n)
      BY DEF Settled
    <2>2. CASE Fresh(n, i)
      BY <1>2, <1>3, <2>1, <2>2, ChainResolves DEF Chain
    <2>3. CASE ~Fresh(n, i)
      <3>1. status' = status
        BY <1>3, <2>3 DEF Chain, ChainResult
      <3> DEFINE k == attempts[n].lastSeq
      <3>2. k # 0 /\ k \in inbox[n].recorded /\ k \in 1 .. Len(Log(n)) /\ i <= k
        <4>1. k \in {0} \cup EvidenceNumbers
          BY <1>2 DEF Row, AttemptRecord
        <4>2. i <= k /\ k # 0
          BY <1>2, <2>3, <4>1 DEF Fresh, Row, EvidenceNumbers
        <4> QED
          BY <2>1, <4>2 DEF Heard
      <3> HIDE DEF k
      <3>3. NamesMessage(Log(n)[i]) => NamesMessage(Log(n)[k])
        <4>1. CASE i = k
          BY <4>1
        <4>2. CASE i < k
          BY <2>1, <3>2, <4>2 DEF Heard, NamedFrom
        <4> QED
          BY <1>2, <3>2, <4>1, <4>2
      <3>4. NamesMessage(Log(n)[k]) => status \in Resolved
        BY <2>1, <3>2 DEF Heard
      <3> QED
        BY <2>1, <3>1, <3>3, <3>4
    <2> QED
      BY <2>2, <2>3
  <1>12. ASSUME NEW m \in Present
         PROVE  Heard(m)'
    <2>1. Heard(m) /\ Log(m)' = Log(m)
      BY <1>10 DEF Settled
    <2>2. NamedFrom(Log(m))'
      BY <2>1 DEF Heard, NamedFrom
    <2>3. CASE m # n
      <3>1. attempts'[m] = attempts[m] /\ inbox'[m] = inbox[m]
        BY <1>1, <1>8, <2>3 DEF TypeOK, Present
      <3> QED
        BY <1>11, <2>1, <2>2, <3>1 DEF Heard
    <2>4. CASE m = n
      <3>1. inbox'[n].recorded = inbox[n].recorded \cup {i}
        BY <1>6, <1>8
      <3>2. attempts'[n].lastSeq \in {i, attempts[n].lastSeq}
        BY <1>4, <1>7 DEF Row
      <3>3. attempts'[n].lastSeq # 0 => attempts'[n].lastSeq \in inbox'[n].recorded
        BY <2>1, <2>4, <3>1, <3>2 DEF Heard
      <3>4. \A k \in inbox'[n].recorded : NamesMessage(Log(n)[k]) => status' \in Resolved
        BY <1>11, <2>1, <2>4, <3>1 DEF Heard
      <3>5. inbox'[n].recorded \subseteq 1 .. Len(Log(n))
        BY <2>1, <2>4, <3>1 DEF Heard
      <3> QED
        BY <2>1, <2>2, <2>4, <3>3, <3>4, <3>5 DEF Heard
    <2> QED
      BY <2>3, <2>4
  <1>13. Bound'
    <2>1. Len(Log(n)) # 0 /\ Len(<<>>) = 0
      BY <1>2
    <2>2. n \in Present /\ plugin[n].log # <<>>
      BY <2>1 DEF Log
    <2>3. messageId # 0 => messageId \in Present /\ plugin[messageId].log # <<>>
      BY DEF Settled, Bound, Log
    <2> QED
      BY <1>1, <1>3, <2>2, <2>3 DEF Bound, Log
  <1>14. Limited'
    BY <1>1, <1>9, LimitedKept DEF Quiet, Settled
  <1>15. Refused'
    <2> SUFFICES ASSUME \E m \in Present : inbox[m].dead # {} PROVE \E m \in Present : GivenUp(m)'
      BY <1>1, <1>9 DEF Refused
    <2>1. PICK m \in Present : GivenUp(m)
      BY DEF Settled, Refused
    <2>2. Longer(Log(m), Log(m)')
      BY <1>10, Elements, SameLonger
    <2>3. GivenUp(m)'
      BY <1>1, <1>9, <2>1, <2>2, GivenUpForever DEF Quiet
    <2> QED
      BY <2>3
  <1> QED
    BY <1>1, <1>11, <1>12, <1>13, <1>14, <1>15 DEF Settled

\* Evidence is refused only with an attempt given up as rate limited: the refused one, of a job
\* put back, or the earlier one of two that both named their message.
LEMMA RefusalTakesOneGivenUp ==
    ASSUME TypeOK, EarlierAttemptsClosed, Settled, NEW n \in Present,
           NEW i \in 1 .. Len(Log(n)), ~Projectable(n, i)
    PROVE  \E m \in Present : GivenUp(m)
  <1>1. /\ Log(n) \in Seq(EvidenceKind) /\ Log(n)[i] \in EvidenceKind /\ Log(n) # <<>>
        /\ Len(attempts) \in Nat
    <2>1. Log(n) \in Seq(EvidenceKind) /\ Len(Log(n)) \in Nat /\ Len(<<>>) = 0
      BY Elements
    <2> QED
      BY <2>1 DEF TypeOK
  <1>2. ASSUME NEW m \in Present, m < Len(attempts) \/ Reopenable, Log(m) # <<>>
        PROVE  GivenUp(m)
    BY <1>2 DEF Settled, Limited, EarlierAttemptsClosed, Reopenable, GivenUp
  <1>3. CASE ~ChainAllowed(status, Chain(n, i))
    <2>1. Fresh(n, i)
      BY <1>3 DEF Chain, ChainAllowed
    <2>2. status \in {"SCHEDULED", "QUEUED"}
      BY <1>1, <1>3, <2>1, ChainResolves DEF Chain, Settled
    <2> QED
      BY <1>1, <1>2, <2>2 DEF Reopenable
  <1>4. CASE messageId \notin {0, n}
    <2>1. messageId \in Present /\ Log(messageId) # <<>> /\ messageId # n
      BY <1>4 DEF Settled, Bound
    <2>2. n < Len(attempts) \/ messageId < Len(attempts)
      BY <1>1, <2>1 DEF Present
    <2> QED
      BY <1>1, <1>2, <2>1, <2>2
  <1> QED
    BY <1>3, <1>4 DEF Projectable

LEMMA RefusalSettled ==
    ASSUME TypeOK, EarlierAttemptsClosed, Settled, NEW n \in Present,
           NEW i \in 1 .. Len(Log(n)), EvidenceGoesDead(n, i)
    PROVE  Settled'
  <1> DEFINE b == [inbox[n] EXCEPT !.dead = inbox[n].dead \cup {i}]
  <1>1. /\ UNCHANGED <<status, started, messageId, attempts, plugin>> /\ inbox' = [inbox EXCEPT ![n] = b]
        /\ ~Projectable(n, i)
    BY DEF EvidenceGoesDead
  <1>2. inbox[n] \in InboxRecord /\ inbox \in Seq(InboxRecord) /\ n \in 1 .. Len(inbox) /\ i \in EvidenceNumbers
    BY Elements DEF TypeOK, Present, EvidenceNumbers
  <1>3. b \in InboxRecord /\ b.recorded = inbox[n].recorded
    BY <1>2 DEF InboxRecord
  <1> HIDE DEF b
  <1>4. inbox'[n] = b /\ \A m \in 1 .. Len(inbox) : m # n => inbox'[m] = inbox[m]
    BY <1>1, <1>2, <1>3, SeqExcept
  <1>5. \A m \in Present : inbox'[m].recorded = inbox[m].recorded
    BY <1>3, <1>4 DEF TypeOK, Present
  <1>6. Present' = Present /\ \A m : Log(m)' = Log(m)
    BY <1>1 DEF Present, Log
  <1>7. ASSUME NEW m \in Present
        PROVE  Heard(m)'
    <2>1. Heard(m) /\ Log(m)' = Log(m)
      BY <1>6 DEF Settled
    <2>2. NamedFrom(Log(m))'
      BY <2>1 DEF Heard, NamedFrom
    <2> QED
      BY <1>1, <1>5, <2>1, <2>2 DEF Heard
  <1>8. Bound' /\ Limited'
    BY <1>1, <1>6 DEF Settled, Bound, Limited, Reopenable, Log
  <1>9. PICK m \in Present : GivenUp(m)
    BY <1>1, RefusalTakesOneGivenUp
  <1>10. GivenUp(m)'
    BY <1>1, <1>9 DEF GivenUp, Log
  <1> QED
    BY <1>1, <1>6, <1>7, <1>8, <1>10 DEF Settled, Refused

\* Every step keeps it.
LEMMA SettledStep ==
    ASSUME TypeOK, EarlierAttemptsClosed, Settled, [Next]_vars
    PROVE  Settled'
  <1>0. TypeOK' /\ Forward
    BY StepForward
  <1>1. ASSUME Calm, Quiet
        PROVE  Settled'
    <2>1. Limited'
      BY <1>1, LimitedKept DEF Calm, RowKeeps, Quiet, Settled
    <2> QED
      BY <1>0, <1>1, <2>1, CalmSettled
  <1>2. ASSUME NEW d \in Dispatchers, RescheduleSafeRejection(d)
        PROVE  Settled'
    <2>1. Calm /\ Present' = Present /\ Len(attempts) \in Nat /\ Len(attempts') \in Nat
      BY <1>0, <1>2, WriteBackCalm, SafeRejectionStep DEF TypeOK
    <2>2. Len(attempts') = Len(attempts)
      BY <2>1 DEF Present
    <2>3. Limited'
      <3>1. CASE StaysClosed
        BY <2>1, <2>2, <3>1, LimitedKept DEF Calm, RowKeeps, Settled
      <3>2. CASE ~StaysClosed
        <4>1. PICK n \in Present : n = disp[d].n
          BY <1>2, <3>2, SafeRejectionStep
        <4>2. /\ Row(n).state = "DISPATCH_STARTED"
              /\ \A m \in Present : m # n => attempts'[m] = attempts[m]
          BY <1>2, <3>2, <4>1, SafeRejectionStep
        <4>3. n = Len(attempts)
          BY <2>1, <4>2 DEF Present, Row, EarlierAttemptsClosed
        <4>4. Owned(d)
          BY <1>2, <3>2 DEF RescheduleSafeRejection, StaysClosed, Reopenable
        <4>5. attempts'[n].kind = "RATE_LIMITED_SAFE"
          <5>1. Row(n) \in AttemptRecord /\ attempts \in Seq(AttemptRecord) /\ n \in 1 .. Len(attempts)
            BY Elements DEF TypeOK, Present
          <5> DEFINE row == RejectedRow(Row(n))
          <5>2. row \in AttemptRecord /\ row.kind = "RATE_LIMITED_SAFE"
            BY <4>2, <5>1, RejectedRowMoves, SettledKeeps DEF RowMoves
          <5>3. Write(n, row)
            BY <1>2, <4>1, <4>4 DEF RescheduleSafeRejection, WriteBack
          <5> HIDE DEF row
          <5> QED
            BY <5>1, <5>2, <5>3, SeqExcept DEF Write
        <4>6. \A m \in Present : m # n => attempts'[m].kind = "RATE_LIMITED_SAFE"
          BY <2>1, <4>2, <4>3 DEF Present, Settled, Limited
        <4> QED
          BY <2>1, <4>5, <4>6 DEF Limited
      <3> QED
        BY <3>1, <3>2
    <2> QED
      BY <1>0, <2>1, <2>3, CalmSettled
  <1>3. CASE JobStep
    <2>1. CASE CommitMessageStart
      BY <2>1, CommitSettled
    <2>2. CASE ClaimDueJob \/ RequeueJob \/ MarkProcessing \/ DeferProcessing
      BY <1>1, <2>2, StatusCalm, StatusSteps
    <2>3. CASE FailBeforeStart
      BY <1>1, <2>3, FailureCalm, FailBeforeStartStep
    <2> QED
      BY <1>3, <2>1, <2>2, <2>3 DEF JobStep
  <1>4. ASSUME NEW d \in Dispatchers, DispatcherStep(d)
        PROVE  Settled'
    <2>1. ASSUME NEW n \in Present, ClaimCommand(d, n)
          PROVE  Settled'
      BY <1>1, <2>1, ClaimCalm, ClaimStep
    <2>2. CASE DeferForDispatchReadiness(d) \/ MarkAccepted(d) \/ Reschedule(d) \/ Settle(d)
      BY <1>1, <2>2, WriteBackCalm, WriteBackActions
    <2>3. CASE (\E answer \in Answer, arrived \in BOOLEAN : Submit(d, answer, arrived)) \/ DispatcherDies(d)
      BY <1>1, <2>3, SubmitCalm, SubmitSteps
    <2> QED
      BY <1>2, <1>4, <2>1, <2>2, <2>3 DEF DispatcherStep
  <1>5. ASSUME NEW n \in Present, DeadlineStep(n)
        PROVE  Settled'
    BY <1>1, <1>5, DeadlineCalm, DeadlineSteps
  <1>6. ASSUME NEW n \in Present, PluginStep(n)
        PROVE  Settled'
    BY <1>1, <1>6, PluginCalm, PluginSteps
  <1>7. ASSUME NEW n \in Present, EvidenceStep(n)
        PROVE  Settled'
    BY <1>7, EvidenceSettled, RefusalSettled DEF EvidenceStep
  <1>8. ASSUME NEW incoming \in {"SENT", "DELIVERED", "READ", "FAILED"}, ProjectEvent(incoming)
        PROVE  Settled'
    BY <1>1, <1>8, EventCalm, EventSteps
  <1>9. CASE UNCHANGED vars
    <2>1. Calm
      BY <1>9, CalmStutter DEF vars, StatusKeeps
    <2>2. Quiet
      BY <1>0, <1>9 DEF vars, Quiet, StaysClosed, Reopenable
    <2> QED
      BY <1>1, <2>1, <2>2
  <1> QED
    BY <1>3, <1>4, <1>5, <1>6, <1>7, <1>8, <1>9 DEF Next

LEMMA InitSettled == Init => Settled
  <1> SUFFICES ASSUME Init PROVE Settled
    OBVIOUS
  <1>1. Present = {} /\ messageId = 0 /\ status = "SCHEDULED"
    BY DEF Init, Present
  <1> QED
    BY <1>1 DEF Settled, Bound, Limited, Refused, Live

LEMMA SettledAlways == Spec => []Settled
  BY InitSettled, SettledStep, TypeCorrect, NoRetryOverUncertainty, PTL DEF Spec

\* Evidence that the message was sent resolves the job, in whatever order it is projected and
\* whatever dispatchers and deadlines do in between.
THEOREM SentMessagesResolve == Spec => []SendEvidenceResolves
  <1>1. Settled => SendEvidenceResolves
    BY DEF Settled, Heard, Resolved, SendEvidenceResolves
  <1> QED
    BY <1>1, SettledAlways, PTL

\* Evidence is refused for good only after a command the connector already held was given up
\* as rate limited.
THEOREM RefusalsAreExplained == Spec => []EvidenceDiesOnlyAfterSafeRejection
  <1>1. Settled => EvidenceDiesOnlyAfterSafeRejection
    BY DEF Settled, Refused, GivenUp, EvidenceDiesOnlyAfterSafeRejection
  <1> QED
    BY <1>1, SettledAlways, PTL
=============================================================================
