------------------------ MODULE EventPipeline_proofs ------------------------
(***************************************************************************)
(* Proofs about EventPipeline, for any events, any workers and any limits: *)
(*   - TypeOK, LedgersMatch, ReadyMeansCaughtUp and ProjectedOnce are      *)
(*     invariants, and no step violates AckedByOwner.                      *)
(* Each follows from an invariant of its own over TypeOK: the two ledgers  *)
(* count finite sets (InboxLedger, SpoolLedger); a projected event is in a *)
(* state no worker claims (ProjectionKept); what is to be acknowledged is  *)
(* durable first (DurableFirst); and no event below a watermark can come,  *)
(* nor a fence be regained without a new start (Watermarks).               *)
(***************************************************************************)
EXTENDS EventPipeline, FiniteSetTheorems, TLAPS

USE PipelineAssumption

-----------------------------------------------------------------------------
(* Types.                                                                  *)

Lease == [by : Claimants, live : BOOLEAN]
Row == [state : {"none", "stored", "dead"}, sequence : 0 .. MaxSequence, lease : Lease,
        tries : 0 .. MaxDeliveries, waiting : BOOLEAN, expired : BOOLEAN]
SpoolStates == {"none", "PENDING", "RETRY", "PROCESSING", "PROCESSED", "DEAD", "RECEIPT"}
SpoolRow == [state : SpoolStates,
             tries : 0 .. MaxAttempts,
             lease : [holder : Workers \cup {Nobody}, live : BOOLEAN]]

InboxType == /\ inbox \in [Events -> Row]
             /\ \A e \in Events : inbox[e].state # "stored" => inbox[e].lease = NoLease
SpoolType == /\ spool \in [Events -> SpoolRow]
             /\ \A e \in Events : spool[e].state = "PROCESSING" <=> spool[e].lease.holder # Nobody
Phases == {"off", "recover", "capture", "drain", "recheck", "count", "ready", "poll", "batch",
           "failed"}
ConsumerRecord == [phase : Phases, gen : 0 .. MaxGenerations, recovering : BOOLEAN,
                   mark : 0 .. MaxSequence, batch : SUBSET Events, accepted : SUBSET Events,
                   retry : SUBSET Events, dead : SUBSET Events]
ConsumerType == consumer \in ConsumerRecord
WorkerType == worker \in [Workers -> SUBSET Events] /\ \A w \in Workers : Cardinality(worker[w]) <= 1
RestType ==
  /\ receipts \subseteq Events /\ sequence \in 0 .. MaxSequence
  /\ device \in [gen : 0 .. MaxGenerations, active : BOOLEAN] /\ owner \in Claimants
  /\ readiness \in [state : {"RECOVERING", "READY", "DEGRADED"}, mark : 0 .. MaxSequence]

LEMMA TypeParts == TypeOK <=> InboxType /\ SpoolType /\ ConsumerType /\ WorkerType /\ RestType
BY DEF TypeOK, InboxType, SpoolType, ConsumerType, ConsumerRecord, Phases, WorkerType, RestType, Row, SpoolRow, SpoolStates, Lease

\* Rows that are not stored carry no lease; what a step makes of rows are rows.
GoodRow(r) == r \in Row /\ (r.state # "stored" => r.lease = NoLease)

LEMMA AbsentGood == GoodRow(Absent)
BY DEF GoodRow, Absent, Row, Lease, NoLease, Claimants

\* Whoever rewrites rows of the inbox to good rows keeps its type.
LEMMA InboxRewritten ==
  ASSUME InboxType, NEW f(_), \A e \in Events : GoodRow(f(e)),
         inbox' = [e \in Events |-> f(e)]
  PROVE  InboxType'
BY DEF InboxType, GoodRow

LEMMA RemovedGood == ASSUME InboxType, NEW S PROVE inbox' = Removed(S) => InboxType'
<1>1. \A e \in Events : GoodRow(IF e \in S THEN Absent ELSE inbox[e])
  BY AbsentGood DEF GoodRow, InboxType
<1>2. QED BY <1>1 DEF Removed, InboxType, GoodRow

LEMMA ReleasedGood == ASSUME InboxType, NEW S PROVE inbox' = ReleasedOf(S) => InboxType'
<1>1. \A e \in Events : GoodRow(IF inbox[e].lease.by \in S THEN [inbox[e] EXCEPT !.lease = NoLease]
                                                           ELSE inbox[e])
  BY DEF GoodRow, InboxType, NoLease, Row, Lease, Claimants
<1>2. QED BY <1>1 DEF ReleasedOf, InboxType, GoodRow

LEMMA LeasedGood ==
  ASSUME InboxType, NEW claimant \in Claimants, NEW S, \A e \in S : inbox[e].state = "stored"
  PROVE  inbox' = Leased(S, claimant) => InboxType'
<1> DEFINE l == [by |-> claimant, live |-> TRUE]
           g(e) == IF e \in S THEN [inbox[e] EXCEPT !.lease = l, !.tries = Tried(@)] ELSE inbox[e]
<1>1. ASSUME NEW e \in Events PROVE GoodRow(g(e))
  <2>1. l \in Lease BY DEF Lease
  <2>2. inbox[e] \in Row /\ Tried(inbox[e].tries) \in 0 .. MaxDeliveries
    BY DEF InboxType, Row, Tried
  <2>3. CASE e \in S
    <3>1. inbox[e].state = "stored" BY <2>3
    <3>2. g(e) = [inbox[e] EXCEPT !.lease = l, !.tries = Tried(@)] BY <2>3
    <3> HIDE DEF l
    <3>3. QED BY <2>1, <2>2, <3>1, <3>2 DEF Row, GoodRow
  <2>4. CASE e \notin S BY <2>4, <2>2 DEF GoodRow, InboxType
  <2>5. QED BY <2>3, <2>4
<1>2. QED BY <1>1 DEF Leased, InboxType, GoodRow

\* A refused row is a row.
LEMMA NackedGood ==
  ASSUME NEW r \in Row, NEW dead
  PROVE  GoodRow(NackedRow(r, dead))
BY DEF NackedRow, GoodRow, Row, Lease, NoLease, Claimants

\* A row of the spool without attempts and without a holder.
LEMMA FreshRow ==
  ASSUME NEW s \in SpoolStates
  PROVE  /\ [Forgotten EXCEPT !.state = s] \in SpoolRow
         /\ [Forgotten EXCEPT !.state = s].lease = Unlocked
         /\ [Forgotten EXCEPT !.state = s].state = s
         /\ Unlocked.holder = Nobody /\ ~Unlocked.live
<1>1. [Forgotten EXCEPT !.state = s] = [state |-> s, tries |-> 0, lease |-> Unlocked]
  BY DEF Forgotten
<1>2. 0 \in 0 .. MaxAttempts /\ Unlocked \in [holder : Workers \cup {Nobody}, live : BOOLEAN]
  BY DEF Unlocked
<1>3. QED BY <1>1, <1>2 DEF SpoolRow, Unlocked

\* A step of the consumer that leaves its record as it was but for these.
LEMMA PhaseType ==
  ASSUME ConsumerType
  PROVE  /\ \A p \in Phases : Goes(p) => ConsumerType'
         /\ Fails => ConsumerType'
<1>1. ASSUME NEW p \in Phases, Goes(p)
      PROVE  ConsumerType'
  BY <1>1 DEF ConsumerType, ConsumerRecord, Goes
<1>2. ASSUME Fails PROVE ConsumerType'
  <2>1. consumer' = [phase |-> "failed", gen |-> consumer.gen, recovering |-> TRUE, mark |-> 0,
                     batch |-> {}, accepted |-> {}, retry |-> {}, dead |-> {}]
    BY <1>2 DEF Fails, Off
  <2>2. consumer.gen \in 0 .. MaxGenerations /\ 0 \in 0 .. MaxSequence /\ "failed" \in Phases
    BY DEF ConsumerType, ConsumerRecord, Phases
  <2>3. QED BY <2>1, <2>2 DEF ConsumerType, ConsumerRecord
<1>3. QED BY <1>1, <1>2

-----------------------------------------------------------------------------
(* The greatest sequence among rows.                                       *)

\* A nonempty set of numbers up to n has a greatest element.
LEMMA GreatestExists ==
  ASSUME NEW n \in Nat, NEW T \in SUBSET (0 .. n), T # {}
  PROVE  \E m \in T : \A k \in T : k <= m
<1> DEFINE D == {i \in 0 .. n : n - i \in T}
<1>1. PICK t \in T : TRUE OBVIOUS
<1>2. n - t \in D BY <1>1
<1>3. D \subseteq Nat /\ D # {}
  <2>1. D # {} BY <1>2
  <2>2. D \subseteq Nat OBVIOUS
  <2>3. QED BY <2>1, <2>2
<1>4. PICK d \in D : \A y \in D : ~(<<y, d>> \in OpToRel(<, Nat))
  BY <1>3, NatLessThanWellFounded, WFMin
<1>5. \A y \in D : d <= y
  <2>1. ASSUME NEW y \in D, y < d PROVE FALSE
    <3>1. <<y, d>> \in OpToRel(<, Nat) BY <2>1, <1>3 DEF OpToRel
    <3>2. QED BY <3>1, <1>4
  <2>2. QED BY <2>1
<1>6. ASSUME NEW k \in T PROVE k <= n - d
  <2>1. n - k \in D OBVIOUS
  <2>2. QED BY <2>1, <1>5
<1>7. QED BY <1>6

\* The watermark is the sequence of a row, and the greatest of them, or 0.
LEMMA LatestIs ==
  ASSUME InboxType, NEW S \in SUBSET Events
  PROVE  /\ Latest(S) \in 0 .. MaxSequence
         /\ S # {} => /\ \E e \in S : Latest(S) = inbox[e].sequence
                      /\ \A e \in S : inbox[e].sequence <= Latest(S)
         /\ S = {} => Latest(S) = 0
<1>1. CASE S = {} BY <1>1 DEF Latest
<1>2. CASE S # {}
  <2> DEFINE T == {inbox[e].sequence : e \in S}
  <2>1. T \in SUBSET (0 .. MaxSequence) /\ T # {} BY <1>2 DEF InboxType, Row
  <2>2. MaxSequence \in Nat OBVIOUS
  <2>3. PICK m \in T : \A k \in T : k <= m BY <2>1, <2>2, GreatestExists
  <2>4. \A e \in S : inbox[e].sequence <= m BY <2>3
  <2>5. Latest(S) \in T /\ \A e \in S : inbox[e].sequence <= Latest(S)
    BY <1>2, <2>4 DEF Latest
  <2>6. QED BY <1>2, <2>1, <2>5
<1>3. QED BY <1>1, <1>2

-----------------------------------------------------------------------------
(* The actions, grouped by the part of the state they write; the event and *)
(* the worker they are about, if any, are parameters.                      *)

InboxStep(e) ==
  RemoveExpired \/ (e \in Events /\ (Insert(e) \/ Expire(e) \/ LeaseExpires(e) \/ Available(e)))
OwnerStep(e) == \/ Pair \/ RivalPairs \/ Revoke \/ TokenExpires \/ CleanupInactive
                \/ e \in Events /\ (RivalClaims(e) \/ RivalAcks(e))
LoopStep == \/ Start \/ Stop \/ RequestFails \/ Authorised \/ Capture \/ Count \/ MarkReady
            \/ MarkDegraded \/ ClaimNothing
BatchStep(e) ==
  \/ Claim \/ AckBatch \/ NackBatch
  \/ e \in Events /\ (AcceptDuplicate(e) \/ AcceptNew(e) \/ AcceptFails(e) \/ Poison(e))
SpoolStep(w, e) ==
  \/ RecoverProcessing
  \/ e \in Events /\ (SpoolLeaseExpires(e) \/ Compact(e) \/ Forget(e))
  \/ w \in Workers /\ WorkerStops(w)
  \/ e \in Events /\ w \in Workers /\ (WorkerClaim(w, e) \/ Project(w, e) \/ ProjectFails(w, e))

LEMMA NextGroups ==
  ASSUME Next
  PROVE  \E e, w : \/ InboxStep(e) \/ OwnerStep(e) \/ LoopStep \/ BatchStep(e) \/ SpoolStep(w, e)
                   \/ e \in Events /\ ReceiptExpires(e)
BY DEF Next, Consume, Work, InboxStep, OwnerStep, LoopStep, BatchStep, SpoolStep

-----------------------------------------------------------------------------
(* Type correctness, by the part of the state a step writes.               *)

LEMMA TypeInit == Init => TypeOK
<1> SUFFICES ASSUME Init PROVE TypeOK OBVIOUS
<1>1. InboxType BY AbsentGood DEF Init, InboxType, GoodRow, Absent
<1>2. SpoolType BY DEF Init, SpoolType, SpoolRow, SpoolStates, Forgotten, Unlocked
<1>3. Off \in ConsumerRecord
  <2>1. 0 \in 0 .. MaxGenerations /\ 0 \in 0 .. MaxSequence /\ "off" \in Phases BY DEF Phases
  <2>2. QED BY <2>1 DEF Off, ConsumerRecord
<1>4. ConsumerType BY <1>3 DEF Init, ConsumerType
<1>5. WorkerType BY FS_EmptySet DEF Init, WorkerType
<1>6. RestType BY DEF Init, RestType, Claimants, NoOne
<1>7. QED BY <1>1, <1>2, <1>4, <1>5, <1>6, TypeParts

\* The inbox on its own: admission, expiry, leases and back-off that run out.
LEMMA TypeInbox ==
  ASSUME TypeOK, NEW e, InboxStep(e)
  PROVE  InboxType' /\ sequence' \in 0 .. MaxSequence
<1>0. InboxType /\ sequence \in 0 .. MaxSequence BY TypeParts DEF RestType
<1> DEFINE r == inbox[e]
<1>1. e \in Events => r \in Row /\ (r.state # "stored" => r.lease = NoLease) BY <1>0 DEF InboxType
<1>2. CASE e \in Events /\ Insert(e)
  <2> DEFINE n == [Absent EXCEPT !.state = "stored", !.sequence = sequence + 1]
  <2>1. sequence + 1 \in 0 .. MaxSequence BY <1>0, <1>2 DEF Insert
  <2>2. n \in Row /\ n.state = "stored" BY <2>1, AbsentGood DEF GoodRow, Row, Absent
  <2>3. inbox' = [inbox EXCEPT ![e] = n] /\ sequence' = sequence + 1 BY <1>2 DEF Insert
  <2> HIDE DEF n
  <2>4. QED BY <2>1, <2>2, <2>3, <1>0 DEF InboxType
<1>3. CASE e \in Events /\ Expire(e)
  <2>1. inbox' = [inbox EXCEPT ![e] = [r EXCEPT !.expired = TRUE]] /\ sequence' = sequence
    BY <1>3 DEF Expire
  <2>2. GoodRow([r EXCEPT !.expired = TRUE]) BY <1>1, <1>3 DEF GoodRow, Row
  <2>3. QED BY <2>1, <2>2, <1>0 DEF InboxType, GoodRow
<1>4. CASE RemoveExpired
  <2>1. QED BY <1>4, <1>0, RemovedGood DEF RemoveExpired
<1>5. CASE e \in Events /\ LeaseExpires(e)
  <2>1. inbox' = [inbox EXCEPT ![e] = [r EXCEPT !.lease = [r.lease EXCEPT !.live = FALSE]]]
        /\ sequence' = sequence
    BY <1>5 DEF LeaseExpires
  <2>2. r.state = "stored" BY <1>1, <1>5 DEF LeaseExpires, NoLease
  <2>3. GoodRow([r EXCEPT !.lease = [r.lease EXCEPT !.live = FALSE]])
    BY <1>1, <1>5, <2>2 DEF GoodRow, Row, Lease
  <2>4. QED BY <2>1, <2>3, <1>0 DEF InboxType, GoodRow
<1>6. CASE e \in Events /\ Available(e)
  <2>1. inbox' = [inbox EXCEPT ![e] = [r EXCEPT !.waiting = FALSE]] /\ sequence' = sequence
    BY <1>6 DEF Available
  <2>2. GoodRow([r EXCEPT !.waiting = FALSE]) BY <1>1, <1>6 DEF GoodRow, Row
  <2>3. QED BY <2>1, <2>2, <1>0 DEF InboxType, GoodRow
<1>7. QED BY <1>2, <1>3, <1>4, <1>5, <1>6 DEF InboxStep

\* Pairings, revocation, cleanup, and the rival's claims and acknowledgements.
LEMMA TypeOwner ==
  ASSUME TypeOK, NEW e, OwnerStep(e)
  PROVE  InboxType' /\ RestType'
<1>0. InboxType /\ RestType BY TypeParts
<1>1. CASE Pair
  <2>1. InboxType' BY <1>1, <1>0, ReleasedGood DEF Pair
  <2>2. device.gen \in 0 .. MaxGenerations /\ device.gen + 1 \in 1 .. MaxGenerations
    BY <1>1, <1>0 DEF Pair, RestType
  <2>3. QED BY <2>1, <2>2, <1>1, <1>0 DEF Pair, RestType, Claimants, Generations
<1>2. CASE RivalPairs
  BY <1>2, <1>0, ReleasedGood DEF RivalPairs, RestType, Claimants
<1>3. CASE Revoke
  BY <1>3, <1>0, ReleasedGood DEF Revoke, RestType
<1>4. CASE TokenExpires
  BY <1>4, <1>0 DEF TokenExpires, RestType, inboxVars, InboxType
<1>5. CASE CleanupInactive
  BY <1>5, <1>0, ReleasedGood DEF CleanupInactive, RestType, Claimants
<1>6. CASE e \in Events /\ RivalClaims(e)
  <2>1. inbox[e].state = "stored" /\ Rival \in Claimants /\ inbox' = Leased({e}, Rival)
    BY <1>6 DEF RivalClaims, Claimable, Live, Claimants
  <2>2. InboxType' BY <2>1, <1>0, LeasedGood
  <2>3. QED BY <2>2, <1>6, <1>0 DEF RivalClaims, RestType, deviceVars
<1>7. CASE e \in Events /\ RivalAcks(e)
  <2>1. InboxType' BY <1>7, <1>0, RemovedGood DEF RivalAcks, Acknowledge
  <2>2. Acknowledges({e}, Rival) \subseteq Events BY <1>7 DEF Acknowledges
  <2>3. QED BY <2>1, <2>2, <1>7, <1>0 DEF RivalAcks, Acknowledge, RestType, deviceVars
<1>8. QED BY <1>1, <1>2, <1>3, <1>4, <1>5, <1>6, <1>7 DEF OwnerStep

\* The requests of the consumer that only move it on.
LEMMA TypeLoop ==
  ASSUME TypeOK, LoopStep
  PROVE  ConsumerType' /\ RestType' /\ UNCHANGED <<inboxVars, spoolVars>>
<1>0. InboxType /\ ConsumerType /\ RestType BY TypeParts
<1>1. \A p \in {"recover", "capture", "count", "ready", "drain", "recheck"} : Goes(p) => ConsumerType'
  BY <1>0, PhaseType DEF Phases
<1>2. Fails => ConsumerType' BY <1>0, PhaseType
<1>3. 0 \in 0 .. MaxSequence /\ 0 \in 0 .. MaxGenerations OBVIOUS
<1>4. Off \in ConsumerRecord BY <1>3 DEF Off, ConsumerRecord, Phases
<1>5. ASSUME ConsumerOnly PROVE UNCHANGED <<inboxVars, spoolVars, deviceVars>>
  BY <1>5 DEF ConsumerOnly
<1>6. ASSUME UNCHANGED <<inboxVars, spoolVars, deviceVars>>,
             readiness' = readiness \/ readiness' \in [state : {"RECOVERING", "READY", "DEGRADED"}, mark : 0 .. MaxSequence]
      PROVE  RestType'
  BY <1>6, <1>0 DEF RestType, inboxVars, deviceVars
<1>7. CASE Start
  <2>1. PICK g \in 1 .. device.gen : consumer' = [Off EXCEPT !.phase = "recover", !.gen = g]
    BY <1>7 DEF Start
  <2>2. g \in 0 .. MaxGenerations BY <1>0 DEF RestType
  <2>3. ConsumerType' BY <2>1, <2>2, <1>4 DEF ConsumerType, ConsumerRecord, Phases
  <2>4. QED BY <2>3, <1>7, <1>3, <1>5, <1>6 DEF Start
<1>8. CASE Stop
  BY <1>8, <1>4, <1>5, <1>6 DEF Stop, ConsumerType
<1>9. CASE RequestFails
  BY <1>9, <1>2, <1>5, <1>6 DEF RequestFails
<1>10. CASE Authorised
  BY <1>10, <1>1, <1>5, <1>6 DEF Authorised
<1>11. CASE Capture
  <2>1. Mine \in SUBSET Events BY DEF Mine
  <2>2. Latest(Mine) \in 0 .. MaxSequence BY <2>1, <1>0, LatestIs
  <2> DEFINE p == IF Mine = {} THEN "ready" ELSE "drain"
  <2>3. consumer' = [consumer EXCEPT !.mark = Latest(Mine), !.phase = p] /\ p \in Phases
    BY <1>11 DEF Capture, Phases
  <2> HIDE DEF p
  <2>4. ConsumerType' BY <2>2, <2>3, <1>0 DEF ConsumerType, ConsumerRecord
  <2>5. QED BY <2>4, <1>11, <1>5, <1>6 DEF Capture
<1>12. CASE Count
  BY <1>12, <1>1, <1>5, <1>6 DEF Count
<1>13. CASE MarkReady
  <2>1. CASE /\ readiness' = [state |-> "READY", mark |-> consumer.mark]
             /\ consumer' = [consumer EXCEPT !.phase = "poll", !.recovering = FALSE, !.mark = 0]
    <3>1. consumer.mark \in 0 .. MaxSequence BY <1>0 DEF ConsumerType, ConsumerRecord
    <3>2. "poll" \in Phases BY DEF Phases
    <3>3. ConsumerType' BY <2>1, <3>2, <1>0, <1>3 DEF ConsumerType, ConsumerRecord
    <3>4. QED BY <2>1, <3>1, <3>3, <1>13, <1>5, <1>6 DEF MarkReady
  <2>2. CASE Fails /\ UNCHANGED readiness
    BY <2>2, <1>2, <1>13, <1>5, <1>6 DEF MarkReady
  <2>3. QED BY <2>1, <2>2, <1>13 DEF MarkReady
<1>14. CASE MarkDegraded
  BY <1>14, <1>1, <1>3, <1>5, <1>6 DEF MarkDegraded
<1>15. CASE ClaimNothing
  BY <1>15, <1>1, <1>5, <1>6 DEF ClaimNothing
<1>16. QED
  BY <1>7, <1>8, <1>9, <1>10, <1>11, <1>12, <1>13, <1>14, <1>15 DEF LoopStep

\* The batch: claimed, taken event by event, acknowledged and refused.
LEMMA TypeBatch ==
  ASSUME TypeOK, NEW e, BatchStep(e)
  PROVE  InboxType' /\ SpoolType' /\ ConsumerType' /\ RestType' /\ UNCHANGED worker
<1>0. InboxType /\ SpoolType /\ ConsumerType /\ RestType BY TypeParts
<1>1. Fails => ConsumerType' BY <1>0, PhaseType
<1>2. consumer.gen \in Claimants BY <1>0 DEF ConsumerType, ConsumerRecord, Claimants, Generations, NoOne
<1>3. Again \in Phases /\ "batch" \in Phases /\ consumer.phase \in Phases
  BY <1>0 DEF Again, Phases, ConsumerType, ConsumerRecord
<1>4. CASE Claim
  <2> DEFINE S == Claimable(Reach)
  <2>1. S \subseteq Events /\ \A x \in S : inbox[x].state = "stored" BY DEF Claimable, Live
  <2>2. InboxType' BY <2>1, <1>4, <1>0, <1>2, LeasedGood DEF Claim
  <2> HIDE DEF S
  <2>3. ASSUME consumer' = [consumer EXCEPT !.phase = "batch", !.batch = S] PROVE ConsumerType'
    BY <2>1, <2>3, <1>0, <1>3 DEF ConsumerType, ConsumerRecord
  <2>4. ConsumerType' BY <2>3, <1>1, <1>4 DEF Claim, S
  <2>5. QED BY <2>2, <2>4, <1>4, <1>0 DEF Claim, RestType, SpoolType, deviceVars, spoolVars
<1>5. CASE AckBatch
  <2>1. Acknowledges(consumer.accepted, consumer.gen) \subseteq Events
    BY <1>0 DEF Acknowledges, ConsumerType, ConsumerRecord
  <2>2. InboxType' /\ RestType'
    BY <2>1, <1>5, <1>0, RemovedGood DEF AckBatch, Acknowledge, RestType, deviceVars
  <2> DEFINE p == IF Refused = {} THEN Again ELSE consumer.phase
  <2>3. p \in Phases /\ Refused \in SUBSET Events
    BY <1>3, <1>0 DEF Refused, ConsumerType, ConsumerRecord
  <2> HIDE DEF p
  <2>4. ASSUME consumer' = [consumer EXCEPT !.accepted = {}, !.batch = Refused, !.phase = p]
        PROVE  ConsumerType'
    BY <2>3, <2>4, <1>0 DEF ConsumerType, ConsumerRecord
  <2>5. ConsumerType' BY <2>4, <1>1, <1>5 DEF AckBatch, p
  <2>6. QED BY <2>2, <2>5, <1>5, <1>0 DEF AckBatch, SpoolType, spoolVars
<1>6. CASE NackBatch
  <2> DEFINE rows == Acknowledges(Refused, consumer.gen)
             g(x) == IF x \in rows THEN NackedRow(inbox[x], x \in consumer.dead) ELSE inbox[x]
  <2>1. \A x \in Events : GoodRow(g(x)) BY <1>0, NackedGood DEF InboxType, GoodRow
  <2>2. inbox' = [x \in Events |-> g(x)] BY <1>6 DEF NackBatch
  <2>3. InboxType' BY <2>1, <2>2 DEF InboxType, GoodRow
  <2>4. ASSUME consumer' = [consumer EXCEPT !.retry = {}, !.dead = {}, !.batch = {}, !.phase = Again]
        PROVE  ConsumerType'
    BY <2>4, <1>3, <1>0 DEF ConsumerType, ConsumerRecord
  <2>5. ConsumerType' BY <2>4, <1>1, <1>6 DEF NackBatch
  <2>6. QED BY <2>3, <2>5, <1>6, <1>0 DEF NackBatch, SpoolType, spoolVars, RestType, deviceVars
<1>7. CASE e \in Events /\ (AcceptDuplicate(e) \/ AcceptNew(e) \/ AcceptFails(e) \/ Poison(e))
  <2>1. Accepts(e) => ConsumerType' BY <1>0, <1>7 DEF Accepts, ConsumerType, ConsumerRecord
  <2>2. Retries(e) => ConsumerType' BY <1>0, <1>7 DEF Retries, ConsumerType, ConsumerRecord
  <2>3. consumer' = [consumer EXCEPT !.dead = @ \cup {e}] => ConsumerType'
    BY <1>0, <1>7 DEF ConsumerType, ConsumerRecord
  <2>4. ConsumerType'
    BY <2>1, <2>2, <2>3, <1>7 DEF AcceptDuplicate, AcceptNew, AcceptFails, Poison
  <2>5. InboxType' /\ RestType' /\ UNCHANGED worker
    BY <1>7, <1>0 DEF AcceptDuplicate, AcceptNew, AcceptFails, Poison, ConsumerOnly, InboxType,
                      RestType, inboxVars, deviceVars, spoolVars
  <2>6. CASE AcceptNew(e)
    <3> DEFINE n == [Forgotten EXCEPT !.state = "PENDING"]
    <3>1. n \in SpoolRow /\ n.lease = Unlocked /\ n.state = "PENDING" /\ Unlocked.holder = Nobody
      BY FreshRow DEF SpoolStates
    <3>2. spool' = [spool EXCEPT ![e] = n] BY <2>6 DEF AcceptNew
    <3> HIDE DEF n
    <3>3. QED BY <3>1, <3>2, <2>4, <2>5, <1>0, <1>7 DEF SpoolType
  <2>7. CASE ~AcceptNew(e)
    BY <2>4, <2>5, <2>7, <1>7, <1>0 DEF AcceptDuplicate, AcceptFails, Poison, ConsumerOnly,
                                        SpoolType, spoolVars
  <2>8. QED BY <2>6, <2>7
<1>8. QED BY <1>4, <1>5, <1>6, <1>7 DEF BatchStep

\* An attempt that ended is a row without a holder.
LEMMA AttemptedRow ==
  ASSUME NEW r \in SpoolRow
  PROVE  /\ Attempted(r) \in SpoolRow /\ Attempted(r).lease = Unlocked
         /\ Attempted(r).state \in {"DEAD", "RETRY"}
<1> DEFINE s == IF r.tries >= MaxAttempts THEN "DEAD" ELSE "RETRY"
<1>1. Attempted(r) = [r EXCEPT !.lease = Unlocked, !.state = s] BY DEF Attempted
<1>2. s \in SpoolStates /\ s \in {"DEAD", "RETRY"} BY DEF SpoolStates
<1>3. Unlocked \in [holder : Workers \cup {Nobody}, live : BOOLEAN] BY DEF Unlocked
<1> HIDE DEF s
<1>4. QED BY <1>1, <1>2, <1>3 DEF SpoolRow

\* The workers and retention.
LEMMA TypeSpool ==
  ASSUME TypeOK, NEW e, NEW w, SpoolStep(w, e)
  PROVE  SpoolType' /\ WorkerType' /\ UNCHANGED <<inboxVars, deviceVars, consumer, readiness>>
<1>0. SpoolType /\ WorkerType BY TypeParts
<1>1. UNCHANGED <<inboxVars, deviceVars, consumer, readiness>>
  BY DEF SpoolStep, WorkerClaim, Project, ProjectFails, WorkerStops, SpoolLeaseExpires, RecoverProcessing,
         Compact, Forget, SpoolOnly
<1>2. /\ worker' = [worker EXCEPT ![w] = {}] => WorkerType'
      /\ e \in Events /\ worker' = [worker EXCEPT ![w] = {e}] => WorkerType'
  <2>1. Cardinality({}) = 0 /\ Cardinality({e}) = 1 BY FS_EmptySet, FS_Singleton
  <2>2. QED BY <2>1, <1>0 DEF WorkerType
<1>3. worker' = worker => WorkerType' BY <1>0 DEF WorkerType
<1>4. spool' = spool => SpoolType' BY <1>0 DEF SpoolType
<1>5. ASSUME NEW n \in SpoolRow, n.state = "PROCESSING" <=> n.lease.holder # Nobody,
             spool' = [spool EXCEPT ![e] = n]
      PROVE  SpoolType'
  BY <1>5, <1>0 DEF SpoolType
<1>6. Unlocked.holder = Nobody BY DEF Unlocked
<1>7. CASE e \in Events /\ w \in Workers /\ WorkerClaim(w, e)
  <2> DEFINE l == [holder |-> w, live |-> TRUE]
             n == [state |-> "PROCESSING", tries |-> spool[e].tries + 1, lease |-> l]
  <2>1. spool[e].tries + 1 \in 0 .. MaxAttempts BY <1>7, <1>0 DEF WorkerClaim, SpoolType, SpoolRow
  <2>2. n \in SpoolRow BY <1>7, <2>1 DEF SpoolRow, SpoolStates
  <2>3. n.state = "PROCESSING" /\ n.lease.holder # Nobody BY <1>7
  <2>4. spool' = [spool EXCEPT ![e] = n] /\ worker' = [worker EXCEPT ![w] = {e}]
    BY <1>7 DEF WorkerClaim
  <2> HIDE DEF n
  <2>5. QED BY <1>7, <2>2, <2>3, <2>4, <1>1, <1>2, <1>5
<1>8. CASE e \in Events /\ w \in Workers /\ Project(w, e)
  <2>1. worker' = [worker EXCEPT ![w] = {}] BY <1>8 DEF Project
  <2>2. CASE Holds(w, e)
    <3>1. PICK compact \in Compaction : Processed(e, compact) BY <2>2, <1>8 DEF Project
    <3> DEFINE s == IF compact THEN "RECEIPT" ELSE "PROCESSED"
               n == [Forgotten EXCEPT !.state = s]
    <3>2. s \in SpoolStates /\ s # "PROCESSING" BY DEF SpoolStates
    <3>3. n \in SpoolRow /\ n.lease = Unlocked /\ n.state = s BY <3>2, FreshRow
    <3>4. spool' = [spool EXCEPT ![e] = n] BY <3>1 DEF Processed
    <3> HIDE DEF n, s
    <3>5. QED BY <3>2, <3>3, <3>4, <2>1, <1>1, <1>2, <1>5, <1>6
  <2>3. CASE ~Holds(w, e) BY <2>1, <2>3, <1>8, <1>1, <1>2, <1>4 DEF Project
  <2>4. QED BY <2>2, <2>3
<1>9. CASE e \in Events /\ w \in Workers /\ ProjectFails(w, e)
  <2>1. worker' = [worker EXCEPT ![w] = {}] BY <1>9 DEF ProjectFails
  <2>2. spool' = spool \/ spool' = [spool EXCEPT ![e] = Attempted(spool[e])]
    BY <1>9 DEF ProjectFails
  <2>3. spool[e] \in SpoolRow BY <1>0, <1>9 DEF SpoolType
  <2>4. QED BY <2>1, <2>2, <2>3, AttemptedRow, <1>1, <1>2, <1>4, <1>5, <1>6
<1>10. CASE w \in Workers /\ WorkerStops(w)
  BY <1>10, <1>1, <1>2, <1>4 DEF WorkerStops
<1>11. CASE e \in Events /\ SpoolLeaseExpires(e)
  <2> DEFINE n == [spool[e] EXCEPT !.lease = [spool[e].lease EXCEPT !.live = FALSE]]
  <2>1. n \in SpoolRow /\ n.lease.holder = spool[e].lease.holder /\ n.state = spool[e].state
    BY <1>0, <1>11 DEF SpoolType, SpoolRow
  <2>2. spool' = [spool EXCEPT ![e] = n] /\ worker' = worker BY <1>11 DEF SpoolLeaseExpires
  <2>3. spool[e].state = "PROCESSING" <=> spool[e].lease.holder # Nobody BY <1>0, <1>11 DEF SpoolType
  <2> HIDE DEF n
  <2>4. QED BY <2>1, <2>2, <2>3, <1>1, <1>3, <1>5
<1>12. CASE RecoverProcessing
  <2>1. \A x \in Events : /\ Attempted(spool[x]) \in SpoolRow
                          /\ Attempted(spool[x]).lease = Unlocked
                          /\ Attempted(spool[x]).state \in {"DEAD", "RETRY"}
    BY <1>0, AttemptedRow DEF SpoolType
  <2>2. SpoolType' BY <2>1, <1>12, <1>0, <1>6 DEF RecoverProcessing, SpoolType
  <2>3. QED BY <2>2, <1>12, <1>1, <1>3 DEF RecoverProcessing
<1>13. CASE e \in Events /\ Compact(e)
  <2> DEFINE n == [spool[e] EXCEPT !.state = "RECEIPT"]
  <2>1. n \in SpoolRow /\ n.lease = spool[e].lease /\ n.state = "RECEIPT"
    BY <1>0, <1>13 DEF SpoolType, SpoolRow, SpoolStates
  <2>2. spool' = [spool EXCEPT ![e] = n] /\ worker' = worker BY <1>13 DEF Compact
  <2>3. spool[e].lease.holder = Nobody BY <1>13, <1>0 DEF SpoolType, Compact
  <2> HIDE DEF n
  <2>4. QED BY <2>1, <2>2, <2>3, <1>1, <1>3, <1>5
<1>14. CASE e \in Events /\ Forget(e)
  <2> DEFINE n == [Forgotten EXCEPT !.state = "none"]
  <2>1. n = Forgotten BY DEF Forgotten
  <2>2. n \in SpoolRow /\ n.lease = Unlocked /\ n.state = "none" BY FreshRow DEF SpoolStates
  <2>3. spool' = [spool EXCEPT ![e] = n] /\ worker' = worker BY <1>14, <2>1 DEF Forget
  <2> HIDE DEF n
  <2>4. QED BY <2>2, <2>3, <1>1, <1>3, <1>5, <1>6
<1>15. QED BY <1>7, <1>8, <1>9, <1>10, <1>11, <1>12, <1>13, <1>14 DEF SpoolStep

\* Every step keeps the types.
LEMMA TypeNext == TypeOK /\ [Next]_vars => TypeOK'
<1> SUFFICES ASSUME TypeOK, [Next]_vars PROVE TypeOK' OBVIOUS
<1>0. InboxType /\ SpoolType /\ ConsumerType /\ WorkerType /\ RestType BY TypeParts
<1>1. ASSUME NEW e, InboxStep(e) PROVE TypeOK'
  <2>1. InboxType' /\ sequence' \in 0 .. MaxSequence BY <1>1, TypeInbox
  <2>2. UNCHANGED <<receipts, device, owner, consumer, readiness, spool, worker>>
    BY <1>1 DEF InboxStep, Insert, Expire, RemoveExpired, LeaseExpires, Available, deviceVars, spoolVars
  <2>3. SpoolType' /\ ConsumerType' /\ WorkerType' /\ RestType'
    BY <2>1, <2>2, <1>0 DEF SpoolType, ConsumerType, WorkerType, RestType
  <2>4. QED BY <2>1, <2>3, TypeParts, PTL
<1>2. ASSUME NEW e, OwnerStep(e) PROVE TypeOK'
  <2>1. InboxType' /\ RestType' BY <1>2, TypeOwner
  <2>2. UNCHANGED <<consumer, spool, worker>>
    BY <1>2 DEF OwnerStep, Pair, RivalPairs, Revoke, TokenExpires, CleanupInactive, RivalClaims,
                RivalAcks, spoolVars
  <2>3. SpoolType' /\ ConsumerType' /\ WorkerType' BY <2>2, <1>0 DEF SpoolType, ConsumerType, WorkerType
  <2>4. QED BY <2>1, <2>3, TypeParts, PTL
<1>3. ASSUME LoopStep PROVE TypeOK'
  <2>1. ConsumerType' /\ RestType' /\ UNCHANGED <<inboxVars, spoolVars>> BY <1>3, TypeLoop
  <2>2. SpoolType' /\ InboxType' /\ WorkerType'
    BY <2>1, <1>0 DEF SpoolType, InboxType, WorkerType, inboxVars, spoolVars
  <2>3. QED BY <2>1, <2>2, TypeParts, PTL
<1>4. ASSUME NEW e, BatchStep(e) PROVE TypeOK'
  <2>1. InboxType' /\ SpoolType' /\ ConsumerType' /\ RestType' /\ UNCHANGED worker BY <1>4, TypeBatch
  <2>2. WorkerType' BY <2>1, <1>0 DEF WorkerType
  <2>3. QED BY <2>1, <2>2, TypeParts, PTL
<1>5. ASSUME NEW e, NEW w, SpoolStep(w, e) PROVE TypeOK'
  <2>1. SpoolType' /\ WorkerType' /\ UNCHANGED <<inboxVars, deviceVars, consumer, readiness>>
    BY <1>5, TypeSpool
  <2>2. InboxType' /\ ConsumerType' /\ RestType'
    BY <2>1, <1>0 DEF InboxType, ConsumerType, RestType, inboxVars, deviceVars
  <2>3. QED BY <2>1, <2>2, TypeParts, PTL
<1>6. ASSUME NEW e \in Events, ReceiptExpires(e) PROVE TypeOK'
  <2>1. InboxType' /\ SpoolType' /\ ConsumerType' /\ WorkerType' /\ RestType'
    BY <1>6, <1>0 DEF ReceiptExpires, deviceVars, spoolVars, InboxType, SpoolType, ConsumerType,
                      WorkerType, RestType
  <2>2. QED BY <2>1, TypeParts, PTL
<1>7. ASSUME UNCHANGED vars PROVE TypeOK'
  <2>1. InboxType' /\ SpoolType' /\ ConsumerType' /\ WorkerType' /\ RestType'
    BY <1>7, <1>0 DEF vars, inboxVars, deviceVars, spoolVars, InboxType, SpoolType, ConsumerType,
                      WorkerType, RestType
  <2>2. QED BY <2>1, TypeParts, PTL
<1>8. QED BY <1>1, <1>2, <1>3, <1>4, <1>5, <1>6, <1>7, NextGroups

\* Rows, leases, ledgers and the two loops are well formed, for any number of events, workers,
\* pairings and faults: a delivery count never passes its limit, an attempt is never begun
\* beyond MaxAttempts, only stored rows carry a lease, and a spooled event has a holder exactly
\* while it is being processed (claim, nack, claimForProcessing, markFailed, removeExpired).
THEOREM TypeCorrect == Spec => []TypeOK
<1>1. QED BY TypeInit, TypeNext, PTL DEF Spec

-----------------------------------------------------------------------------
(* The ledgers.                                                            *)

Rows == {e \in Events : inbox[e].state # "none"}
Counted == {"PENDING", "RETRY", "PROCESSING", "DEAD"}
Spooled == {e \in Events : spool[e].state \in Counted}

\* What makes LedgersMatch inductive: the sets counted are finite, whatever Events is, and the
\* rows that expiry removes are rows.
InboxLedger == /\ IsFiniteSet(Rows) /\ stored = Cardinality(Rows) /\ stored <= InboxCapacity
               /\ \A e \in Events : inbox[e].expired => inbox[e].state # "none"
SpoolLedger == IsFiniteSet(Spooled) /\ used = Cardinality(Spooled) /\ used <= SpoolCapacity

LEMMA LedgerParts == InboxLedger /\ SpoolLedger => LedgersMatch
BY DEF InboxLedger, SpoolLedger, LedgersMatch, Rows, Spooled, Counted

\* Counting a set that gains an element, or loses a subset.
LEMMA CountMore ==
  ASSUME NEW S, IsFiniteSet(S), NEW x, x \notin S
  PROVE  IsFiniteSet(S \cup {x}) /\ Cardinality(S \cup {x}) = Cardinality(S) + 1
BY FS_AddElement

LEMMA CountLess ==
  ASSUME NEW S, IsFiniteSet(S), NEW T \in SUBSET S
  PROVE  /\ IsFiniteSet(S \ T) /\ Cardinality(S \ T) = Cardinality(S) - Cardinality(T)
         /\ Cardinality(T) \in Nat /\ Cardinality(S) \in Nat /\ Cardinality(S \ T) \in Nat
<1>1. S \cap T = T OBVIOUS
<1>2. IsFiniteSet(S \ T) /\ Cardinality(S \ T) = Cardinality(S) - Cardinality(T)
  BY <1>1, FS_Difference
<1>3. IsFiniteSet(T) BY FS_Subset
<1>4. QED BY <1>2, <1>3, FS_CardinalityType

\* A step that neither makes nor removes a row, and expires none but rows.
LEMMA InboxLedgerKept ==
  ASSUME InboxLedger, UNCHANGED stored,
         \A e \in Events : /\ inbox'[e].state = "none" <=> inbox[e].state = "none"
                           /\ inbox'[e].expired => inbox[e].expired \/ inbox[e].state # "none"
  PROVE  InboxLedger'
<1>1. Rows' = Rows BY DEF Rows
<1>2. QED BY <1>1 DEF InboxLedger

\* A step that removes rows and takes them from the ledger.
LEMMA InboxLedgerLess ==
  ASSUME InboxLedger, InboxType, NEW gone \in SUBSET Rows,
         inbox' = Removed(gone), stored' = stored - Cardinality(gone)
  PROVE  InboxLedger'
<1>1. Rows' = Rows \ gone BY DEF Rows, Removed, Absent
<1>2. IsFiniteSet(Rows') /\ Cardinality(Rows') = Cardinality(Rows) - Cardinality(gone)
      /\ Cardinality(gone) \in Nat /\ Cardinality(Rows) \in Nat
  BY <1>1, CountLess DEF InboxLedger
<1>3. \A e \in Events : inbox'[e].expired => inbox'[e].state # "none"
  BY DEF Removed, Absent, InboxLedger
<1>4. QED BY <1>2, <1>3 DEF InboxLedger

\* The spool likewise.
LEMMA SpoolLedgerKept ==
  ASSUME SpoolLedger, UNCHANGED used,
         \A e \in Events : spool'[e].state \in Counted <=> spool[e].state \in Counted
  PROVE  SpoolLedger'
<1>1. Spooled' = Spooled BY DEF Spooled
<1>2. QED BY <1>1 DEF SpoolLedger

LEMMA AckedRows ==
  ASSUME InboxLedger, InboxType, NEW S \in SUBSET Events, NEW claimant, Acknowledge(S, claimant)
  PROVE  InboxLedger'
<1>1. Acknowledges(S, claimant) \in SUBSET Rows BY DEF Acknowledges, Rows
<1>2. QED BY <1>1, InboxLedgerLess DEF Acknowledge

LEMMA LedgerInit == Init => InboxLedger /\ SpoolLedger
<1> SUFFICES ASSUME Init PROVE InboxLedger /\ SpoolLedger OBVIOUS
<1>1. Rows = {} /\ Spooled = {} BY DEF Init, Rows, Spooled, Counted, Absent, Forgotten
<1>2. QED BY <1>1, FS_EmptySet DEF Init, InboxLedger, SpoolLedger, Absent

\* The ledger of the inbox.
LEMMA InboxLedgerNext == TypeOK /\ InboxLedger /\ [Next]_vars => InboxLedger'
<1> SUFFICES ASSUME TypeOK, InboxLedger, [Next]_vars PROVE InboxLedger' OBVIOUS
<1>0. InboxType /\ ConsumerType BY TypeParts
<1>1. ASSUME NEW S, inbox' = ReleasedOf(S), stored' = stored PROVE InboxLedger'
  <2>1. \A e \in Events : inbox'[e].state = inbox[e].state /\ inbox'[e].expired = inbox[e].expired
    BY <1>1, <1>0 DEF ReleasedOf, InboxType, Row
  <2>2. QED BY <2>1, <1>1, InboxLedgerKept
<1>2. ASSUME NEW S, NEW claimant, inbox' = Leased(S, claimant), stored' = stored PROVE InboxLedger'
  <2>1. \A e \in Events : inbox'[e].state = inbox[e].state /\ inbox'[e].expired = inbox[e].expired
    BY <1>2, <1>0 DEF Leased, InboxType, Row
  <2>2. QED BY <2>1, <1>2, InboxLedgerKept
<1>3. ASSUME UNCHANGED <<inbox, stored>> PROVE InboxLedger'
  BY <1>3, InboxLedgerKept
<1>4. ASSUME NEW e, InboxStep(e) PROVE InboxLedger'
  <2>1. CASE e \in Events /\ Insert(e)
    <3>1. Rows' = Rows \cup {e} /\ e \notin Rows /\ stored' = stored + 1 /\ stored < InboxCapacity
      BY <2>1, <1>0 DEF Insert, Rows, Absent, InboxType
    <3>2. IsFiniteSet(Rows') /\ Cardinality(Rows') = Cardinality(Rows) + 1
      BY <3>1, CountMore DEF InboxLedger
    <3>3. \A x \in Events : inbox'[x].expired => inbox'[x].state # "none"
      BY <2>1, <1>0 DEF Insert, Absent, InboxType, InboxLedger
    <3>4. Cardinality(Rows) \in Nat BY FS_CardinalityType DEF InboxLedger
    <3>5. QED BY <3>1, <3>2, <3>3, <3>4 DEF InboxLedger
  <2>2. CASE e \in Events /\ Expire(e)
    <3>1. inbox' = [inbox EXCEPT ![e] = [inbox[e] EXCEPT !.expired = TRUE]] /\ stored' = stored
          /\ inbox[e].state # "none"
      BY <2>2 DEF Expire
    <3>2. QED BY <3>1, <1>0, InboxLedgerKept DEF InboxType, Row
  <2>3. CASE RemoveExpired
    <3> DEFINE gone == {x \in Events : inbox[x].expired}
    <3>1. gone \in SUBSET Rows BY DEF InboxLedger, Rows
    <3>2. inbox' = Removed(gone) /\ stored' = stored - Cardinality(gone) BY <2>3 DEF RemoveExpired
    <3>3. QED BY <3>1, <3>2, <1>0, InboxLedgerLess
  <2>4. CASE e \in Events /\ LeaseExpires(e)
    <3>1. inbox' = [inbox EXCEPT ![e] = [inbox[e] EXCEPT !.lease = [inbox[e].lease EXCEPT !.live = FALSE]]]
          /\ stored' = stored
      BY <2>4 DEF LeaseExpires
    <3>2. QED BY <3>1, <1>0, InboxLedgerKept DEF InboxType, Row
  <2>5. CASE e \in Events /\ Available(e)
    <3>1. inbox' = [inbox EXCEPT ![e] = [inbox[e] EXCEPT !.waiting = FALSE]] /\ stored' = stored
      BY <2>5 DEF Available
    <3>2. QED BY <3>1, <1>0, InboxLedgerKept DEF InboxType, Row
  <2>6. QED BY <1>4, <2>1, <2>2, <2>3, <2>4, <2>5 DEF InboxStep
<1>5. ASSUME NEW e, OwnerStep(e) PROVE InboxLedger'
  <2>1. CASE TokenExpires BY <2>1, <1>3 DEF TokenExpires, inboxVars
  <2>2. CASE Pair \/ RivalPairs \/ Revoke \/ CleanupInactive
    BY <2>2, <1>1 DEF Pair, RivalPairs, Revoke, CleanupInactive
  <2>3. CASE RivalClaims(e) BY <2>3, <1>2 DEF RivalClaims
  <2>4. CASE e \in Events /\ RivalAcks(e) BY <2>4, <1>0, AckedRows DEF RivalAcks
  <2>5. QED BY <1>5, <2>1, <2>2, <2>3, <2>4 DEF OwnerStep
<1>6. ASSUME LoopStep PROVE InboxLedger'
  BY <1>6, TypeLoop, <1>3 DEF inboxVars
<1>7. ASSUME NEW e, BatchStep(e) PROVE InboxLedger'
  <2>1. CASE Claim BY <2>1, <1>2 DEF Claim
  <2>2. CASE AckBatch
    BY <2>2, <1>0, AckedRows DEF AckBatch, ConsumerType, ConsumerRecord
  <2>3. CASE NackBatch
    <3>2. \A x \in Acknowledges(Refused, consumer.gen) : inbox[x].state = "stored" BY DEF Acknowledges
    <3>3. \A x \in Events : \A d : inbox[x].state = "stored" =>
              /\ NackedRow(inbox[x], d).state # "none"
              /\ NackedRow(inbox[x], d).expired = inbox[x].expired
      BY <1>0 DEF NackedRow, InboxType, Row
    <3>4. QED BY <2>3, <3>2, <3>3, <1>0, InboxLedgerKept DEF NackBatch, InboxType
  <2>4. CASE e \in Events /\ (AcceptDuplicate(e) \/ AcceptNew(e) \/ AcceptFails(e) \/ Poison(e))
    BY <2>4, <1>3 DEF AcceptDuplicate, AcceptNew, AcceptFails, Poison, ConsumerOnly, inboxVars
  <2>5. QED BY <1>7, <2>1, <2>2, <2>3, <2>4 DEF BatchStep
<1>8. ASSUME NEW e, NEW w, SpoolStep(w, e) PROVE InboxLedger'
  BY <1>8, TypeSpool, <1>3 DEF inboxVars
<1>9. ASSUME NEW e \in Events, ReceiptExpires(e) PROVE InboxLedger'
  BY <1>9, <1>3 DEF ReceiptExpires
<1>10. ASSUME UNCHANGED vars PROVE InboxLedger'
  BY <1>10, <1>3 DEF vars, inboxVars
<1>11. QED BY <1>4, <1>5, <1>6, <1>7, <1>8, <1>9, <1>10, NextGroups

\* A row of the spool that leaves the states that count is taken from the ledger.
LEMMA SpoolLedgerLess ==
  ASSUME SpoolLedger, SpoolType, NEW e \in Events, spool[e].state \in Counted,
         NEW n, n.state \notin Counted, spool' = [spool EXCEPT ![e] = n], used' = used - 1
  PROVE  SpoolLedger'
<1>1. Spooled' = Spooled \ {e} /\ e \in Spooled BY DEF Spooled, SpoolType
<1>2. Cardinality({e}) = 1 BY FS_Singleton
<1>3. {e} \in SUBSET Spooled BY <1>1
<1>4. IsFiniteSet(Spooled') /\ Cardinality(Spooled') = Cardinality(Spooled) - 1
      /\ Cardinality(Spooled) \in Nat
  BY <1>1, <1>2, <1>3, CountLess DEF SpoolLedger
<1>5. QED BY <1>4 DEF SpoolLedger

\* One row is rewritten within the states that count, or within the others.
LEMMA SpoolLedgerRow ==
  ASSUME SpoolLedger, SpoolType, NEW e, NEW n, n.state \in Counted <=> spool[e].state \in Counted,
         spool' = [spool EXCEPT ![e] = n], used' = used
  PROVE  SpoolLedger'
<1>1. \A x \in Events : spool'[x].state \in Counted <=> spool[x].state \in Counted BY DEF SpoolType
<1>2. QED BY <1>1, SpoolLedgerKept

\* The ledger of the spool.
LEMMA SpoolLedgerNext == TypeOK /\ SpoolLedger /\ [Next]_vars => SpoolLedger'
<1> SUFFICES ASSUME TypeOK, SpoolLedger, [Next]_vars PROVE SpoolLedger' OBVIOUS
<1>0. SpoolType BY TypeParts
<1>1. ASSUME UNCHANGED <<spool, used>> PROVE SpoolLedger'
  BY <1>1, SpoolLedgerKept
<1>2. ASSUME NEW e, InboxStep(e) \/ OwnerStep(e) \/ LoopStep \/ (e \in Events /\ ReceiptExpires(e))
      PROVE  SpoolLedger'
  <2>1. UNCHANGED <<spool, used>>
    BY <1>2 DEF InboxStep, Insert, Expire, RemoveExpired, LeaseExpires, Available, OwnerStep, Pair,
      RivalPairs, Revoke, TokenExpires, CleanupInactive, RivalClaims, RivalAcks, LoopStep, Start,
      Stop, RequestFails, Authorised, Capture, Count, MarkReady, MarkDegraded, ClaimNothing,
      ConsumerOnly, ReceiptExpires, spoolVars
  <2>2. QED BY <2>1, <1>1
<1>3. ASSUME NEW e, BatchStep(e) PROVE SpoolLedger'
  <2>1. CASE e \in Events /\ AcceptNew(e)
    <3> DEFINE n == [Forgotten EXCEPT !.state = "PENDING"]
    <3>1. n.state \in Counted BY FreshRow DEF SpoolStates, Counted
    <3>2. spool' = [spool EXCEPT ![e] = n] /\ used' = used + 1 /\ used < SpoolCapacity
          /\ spool[e].state = "none"
      BY <2>1 DEF AcceptNew, HasRoom, Remembered
    <3> HIDE DEF n
    <3>3. Spooled' = Spooled \cup {e} /\ e \notin Spooled
      BY <2>1, <3>1, <3>2, <1>0 DEF Spooled, Counted, SpoolType
    <3>4. IsFiniteSet(Spooled') /\ Cardinality(Spooled') = Cardinality(Spooled) + 1
          /\ Cardinality(Spooled) \in Nat
      BY <3>3, CountMore, FS_CardinalityType DEF SpoolLedger
    <3>5. QED BY <3>2, <3>4 DEF SpoolLedger
  <2>2. CASE ~(e \in Events /\ AcceptNew(e))
    BY <2>2, <1>3, <1>1 DEF BatchStep, Claim, AckBatch, NackBatch, AcceptDuplicate, AcceptFails,
                            Poison, ConsumerOnly, spoolVars
  <2>3. QED BY <2>1, <2>2
<1>4. ASSUME NEW e, NEW w, SpoolStep(w, e) PROVE SpoolLedger'
  <2>1. \A x \in Events : Attempted(spool[x]).state \in Counted
    BY <1>0, AttemptedRow DEF SpoolType, Counted
  <2>2. CASE e \in Events /\ WorkerClaim(w, e)
    <3> DEFINE n == [state |-> "PROCESSING", tries |-> spool[e].tries + 1,
                     lease |-> [holder |-> w, live |-> TRUE]]
    <3>1. spool' = [spool EXCEPT ![e] = n] /\ used' = used /\ spool[e].state \in Counted
      BY <2>2 DEF WorkerClaim, Counted
    <3>2. n.state \in Counted BY DEF Counted
    <3> HIDE DEF n
    <3>3. QED BY <3>1, <3>2, <1>0, SpoolLedgerRow
  <2>3. CASE e \in Events /\ Project(w, e)
    <3>1. CASE Holds(w, e)
      <4>1. PICK compact \in Compaction : Processed(e, compact) BY <3>1, <2>3 DEF Project
      <4> DEFINE s == IF compact THEN "RECEIPT" ELSE "PROCESSED"
                 n == [Forgotten EXCEPT !.state = s]
      <4>2. s \in SpoolStates /\ s \notin Counted BY DEF SpoolStates, Counted
      <4>3. n.state \notin Counted BY <4>2, FreshRow
      <4>4. spool' = [spool EXCEPT ![e] = n] /\ used' = used - 1 BY <4>1 DEF Processed
      <4>5. spool[e].state \in Counted BY <3>1 DEF Holds, Counted
      <4> HIDE DEF n, s
      <4>6. QED BY <2>3, <4>3, <4>4, <4>5, <1>0, SpoolLedgerLess
    <3>2. CASE ~Holds(w, e) BY <3>2, <2>3, <1>1 DEF Project
    <3>3. QED BY <3>1, <3>2
  <2>4. CASE e \in Events /\ ProjectFails(w, e)
    <3>1. CASE Holds(w, e)
      <4>1. spool' = [spool EXCEPT ![e] = Attempted(spool[e])] /\ used' = used
        BY <3>1, <2>4 DEF ProjectFails
      <4>2. spool[e].state \in Counted BY <3>1 DEF Holds, Counted
      <4>3. QED BY <4>1, <4>2, <2>1, <2>4, <1>0, SpoolLedgerRow
    <3>2. CASE ~Holds(w, e) BY <3>2, <2>4, <1>1 DEF ProjectFails
    <3>3. QED BY <3>1, <3>2
  <2>5. CASE WorkerStops(w) BY <2>5, <1>1 DEF WorkerStops
  <2>6. CASE e \in Events /\ SpoolLeaseExpires(e)
    <3> DEFINE n == [spool[e] EXCEPT !.lease = [spool[e].lease EXCEPT !.live = FALSE]]
    <3>1. spool' = [spool EXCEPT ![e] = n] /\ used' = used BY <2>6 DEF SpoolLeaseExpires
    <3>2. n.state = spool[e].state BY <2>6, <1>0 DEF SpoolType, SpoolRow
    <3> HIDE DEF n
    <3>3. QED BY <3>1, <3>2, <1>0, SpoolLedgerRow
  <2>7. CASE RecoverProcessing
    <3>1. \A x \in Events : spool'[x].state \in Counted <=> spool[x].state \in Counted
      BY <2>7, <2>1 DEF RecoverProcessing, Overdue, Counted
    <3>2. QED BY <3>1, <2>7, SpoolLedgerKept DEF RecoverProcessing
  <2>8. CASE e \in Events /\ Compact(e)
    <3> DEFINE n == [spool[e] EXCEPT !.state = "RECEIPT"]
    <3>1. spool' = [spool EXCEPT ![e] = n] /\ used' = used /\ spool[e].state = "PROCESSED"
      BY <2>8 DEF Compact
    <3>2. n.state = "RECEIPT" BY <2>8, <1>0 DEF SpoolType, SpoolRow
    <3> HIDE DEF n
    <3>3. QED BY <3>1, <3>2, <1>0, SpoolLedgerRow DEF Counted
  <2>9. CASE e \in Events /\ Forget(e)
    <3>1. spool' = [spool EXCEPT ![e] = Forgotten] /\ used' = used
          /\ spool[e].state \in {"PROCESSED", "RECEIPT"}
      BY <2>9 DEF Forget
    <3>2. Forgotten.state = "none" BY DEF Forgotten
    <3>3. QED BY <3>1, <3>2, <1>0, SpoolLedgerRow DEF Counted
  <2>10. QED
    BY <1>4, <2>2, <2>3, <2>4, <2>5, <2>6, <2>7, <2>8, <2>9 DEF SpoolStep
<1>5. ASSUME UNCHANGED vars PROVE SpoolLedger'
  BY <1>5, <1>1 DEF vars, spoolVars
<1>6. QED BY <1>2, <1>3, <1>4, <1>5, NextGroups

\* Both usage ledgers count exactly the rows they stand for, dead ones included, and stay within
\* their limits (insert, acknowledge, removeExpired, accept, markProcessedInTransaction).
THEOREM LedgersAreExact == Spec => []LedgersMatch
<1>1. Init => TypeOK /\ InboxLedger /\ SpoolLedger BY TypeInit, LedgerInit
<1>2. TypeOK /\ InboxLedger /\ SpoolLedger /\ [Next]_vars => (TypeOK /\ InboxLedger /\ SpoolLedger)'
  BY TypeNext, InboxLedgerNext, SpoolLedgerNext
<1>3. QED BY <1>1, <1>2, LedgerParts, PTL DEF Spec

-----------------------------------------------------------------------------
(* Projections.                                                            *)

\* A committed projection left the event in a state no worker claims, as long as the event is
\* remembered.
ProjectionKept ==
  /\ projected \in [Events -> {0, 1}]
  /\ \A e \in Events : projected[e] = 1 => spool[e].state \in {"PROCESSED", "RECEIPT"}

LEMMA ProjectionNext == TypeOK /\ ProjectionKept /\ [Next]_vars => ProjectionKept'
<1> SUFFICES ASSUME TypeOK, ProjectionKept, [Next]_vars PROVE ProjectionKept' OBVIOUS
<1>0. SpoolType BY TypeParts
<1>1. ASSUME UNCHANGED projected,
             \A e \in Events : projected[e] = 1 => spool'[e].state \in {"PROCESSED", "RECEIPT"}
      PROVE  ProjectionKept'
  BY <1>1 DEF ProjectionKept
<1>2. ASSUME UNCHANGED <<spool, projected>> PROVE ProjectionKept'
  BY <1>2 DEF ProjectionKept
<1>3. ASSUME NEW e, NEW n, UNCHANGED projected, spool' = [spool EXCEPT ![e] = n],
             n.state = "RECEIPT" \/ spool[e].state \notin {"PROCESSED", "RECEIPT"}
      PROVE  ProjectionKept'
  BY <1>3, <1>0 DEF ProjectionKept, SpoolType
<1>4. ASSUME NEW e, InboxStep(e) \/ OwnerStep(e) \/ LoopStep \/ (e \in Events /\ ReceiptExpires(e))
      PROVE  ProjectionKept'
  <2>1. UNCHANGED <<spool, projected>>
    BY <1>4 DEF InboxStep, Insert, Expire, RemoveExpired, LeaseExpires, Available, OwnerStep, Pair,
      RivalPairs, Revoke, TokenExpires, CleanupInactive, RivalClaims, RivalAcks, LoopStep, Start,
      Stop, RequestFails, Authorised, Capture, Count, MarkReady, MarkDegraded, ClaimNothing,
      ConsumerOnly, ReceiptExpires, spoolVars
  <2>2. QED BY <2>1, <1>2
<1>5. ASSUME NEW e, BatchStep(e) PROVE ProjectionKept'
  <2>1. CASE AcceptNew(e)
    <3> DEFINE n == [Forgotten EXCEPT !.state = "PENDING"]
    <3>1. spool' = [spool EXCEPT ![e] = n] /\ UNCHANGED projected /\ spool[e].state = "none"
      BY <2>1 DEF AcceptNew, Remembered
    <3> HIDE DEF n
    <3>2. QED BY <3>1, <1>3
  <2>2. CASE ~AcceptNew(e)
    BY <2>2, <1>5, <1>2 DEF BatchStep, Claim, AckBatch, NackBatch, AcceptDuplicate, AcceptFails,
                            Poison, ConsumerOnly, spoolVars
  <2>3. QED BY <2>1, <2>2
<1>6. ASSUME NEW e, NEW w, SpoolStep(w, e) PROVE ProjectionKept'
  <2>1. CASE WorkerClaim(w, e)
    <3> DEFINE n == [state |-> "PROCESSING", tries |-> spool[e].tries + 1,
                     lease |-> [holder |-> w, live |-> TRUE]]
    <3>1. spool' = [spool EXCEPT ![e] = n] /\ UNCHANGED projected
          /\ spool[e].state \notin {"PROCESSED", "RECEIPT"}
      BY <2>1 DEF WorkerClaim
    <3> HIDE DEF n
    <3>2. QED BY <3>1, <1>3
  <2>2. CASE e \in Events /\ Project(w, e) /\ Holds(w, e)
    <3>1. PICK compact \in Compaction : Processed(e, compact) BY <2>2 DEF Project
    <3> DEFINE s == IF compact THEN "RECEIPT" ELSE "PROCESSED"
               n == [Forgotten EXCEPT !.state = s]
    <3>2. s \in SpoolStates /\ s \in {"PROCESSED", "RECEIPT"} BY DEF SpoolStates
    <3>3. n.state \in {"PROCESSED", "RECEIPT"} BY <3>2, FreshRow
    <3>4. spool' = [spool EXCEPT ![e] = n] /\ projected' = [projected EXCEPT ![e] = @ + 1]
      BY <3>1 DEF Processed
    <3>5. projected[e] = 0 BY <2>2 DEF Holds, ProjectionKept
    <3>6. projected' = [projected EXCEPT ![e] = 1] BY <3>4, <3>5
    <3> HIDE DEF n, s
    <3>7. QED BY <2>2, <3>3, <3>4, <3>6, <1>0 DEF ProjectionKept, SpoolType
  <2>3. CASE Project(w, e) /\ ~Holds(w, e) BY <2>3, <1>2 DEF Project
  <2>4. CASE ProjectFails(w, e)
    <3>1. CASE Holds(w, e) BY <3>1, <2>4, <1>3 DEF ProjectFails, Holds
    <3>2. CASE ~Holds(w, e) BY <3>2, <2>4, <1>2 DEF ProjectFails
    <3>3. QED BY <3>1, <3>2
  <2>5. CASE WorkerStops(w) BY <2>5, <1>2 DEF WorkerStops
  <2>6. CASE e \in Events /\ SpoolLeaseExpires(e)
    <3>1. spool[e].state \notin {"PROCESSED", "RECEIPT"} \/ spool'[e].state = spool[e].state
      BY <2>6, <1>0 DEF SpoolLeaseExpires, SpoolType, SpoolRow
    <3>2. \A x \in Events \ {e} : spool'[x] = spool[x] BY <2>6, <1>0 DEF SpoolLeaseExpires, SpoolType
    <3>3. QED BY <2>6, <3>1, <3>2, <1>1 DEF SpoolLeaseExpires, ProjectionKept
  <2>7. CASE RecoverProcessing
    BY <2>7, <1>1 DEF RecoverProcessing, Overdue, ProjectionKept
  <2>8. CASE e \in Events /\ Compact(e)
    <3> DEFINE n == [spool[e] EXCEPT !.state = "RECEIPT"]
    <3>1. spool' = [spool EXCEPT ![e] = n] /\ UNCHANGED projected BY <2>8 DEF Compact
    <3>2. n.state = "RECEIPT" BY <2>8, <1>0 DEF SpoolType, SpoolRow
    <3> HIDE DEF n
    <3>3. QED BY <3>1, <3>2, <1>3
  <2>9. CASE e \in Events /\ Forget(e)
    BY <2>9, <1>0 DEF Forget, ProjectionKept, SpoolType
  <2>10. QED
    BY <1>6, <2>1, <2>2, <2>3, <2>4, <2>5, <2>6, <2>7, <2>8, <2>9 DEF SpoolStep
<1>7. ASSUME UNCHANGED vars PROVE ProjectionKept'
  BY <1>7, <1>2 DEF vars, spoolVars
<1>8. QED BY <1>4, <1>5, <1>6, <1>7, NextGroups

\* As long as the Runtime remembers an event, its projection is committed at most once, by
\* whatever worker, through redelivery, expired leases, crashes and compaction (process).
THEOREM ProjectedAtMostOnce == Spec => []ProjectedOnce
<1>1. Init => TypeOK /\ ProjectionKept BY TypeInit DEF Init, ProjectionKept
<1>2. TypeOK /\ ProjectionKept /\ [Next]_vars => (TypeOK /\ ProjectionKept)'
  BY TypeNext, ProjectionNext
<1>3. ProjectionKept => ProjectedOnce BY DEF ProjectionKept, ProjectedOnce
<1>4. QED BY <1>1, <1>2, <1>3, PTL DEF Spec

-----------------------------------------------------------------------------
(* Acknowledgements.                                                       *)

\* What the consumer will acknowledge, and what is remembered, is durable at the Runtime; what
\* the rival holds under a lease is durable there.
DurableFirst ==
  /\ taken \in [runtime : SUBSET Events, rival : SUBSET Events]
  /\ consumer.accepted \subseteq taken.runtime
  /\ \A e \in Events : Remembered(e) => e \in taken.runtime
  /\ \A e \in Events : inbox[e].lease.by = Rival => e \in taken.rival

\* A step that makes nobody hold more, by what it may leave of the state.
LEMMA DurableKept ==
  ASSUME DurableFirst, UNCHANGED taken,
         consumer'.accepted \subseteq consumer.accepted
           \/ \E e \in Events : Remembered(e) /\ consumer'.accepted = consumer.accepted \cup {e},
         \A e \in Events : Remembered(e)' => Remembered(e),
         \A e \in Events : inbox'[e].lease.by = Rival => inbox[e].lease.by = Rival
  PROVE  DurableFirst'
BY DEF DurableFirst

LEMMA LeaseNotRival ==
  ASSUME InboxType, NEW S
  PROVE  /\ inbox' = Removed(S) => \A e \in Events : inbox'[e].lease.by = Rival => inbox[e].lease.by = Rival
         /\ inbox' = ReleasedOf(S) => \A e \in Events : inbox'[e].lease.by = Rival => inbox[e].lease.by = Rival
         /\ \A g \in Nat : inbox' = Leased(S, g) =>
                \A e \in Events : inbox'[e].lease.by = Rival => inbox[e].lease.by = Rival
<1>0. \A e \in Events : inbox[e] \in Row BY DEF InboxType
<1>1. inbox' = Removed(S) => \A e \in Events : inbox'[e].lease.by = Rival => inbox[e].lease.by = Rival
  BY DEF Removed, Absent, NoLease, NoOne, Rival
<1>2. inbox' = ReleasedOf(S) => \A e \in Events : inbox'[e].lease.by = Rival => inbox[e].lease.by = Rival
  BY <1>0 DEF ReleasedOf, NoLease, NoOne, Rival, Row
<1>3. ASSUME NEW g \in Nat, inbox' = Leased(S, g), NEW e \in Events, inbox'[e].lease.by = Rival
      PROVE  inbox[e].lease.by = Rival
  <2>1. CASE e \in S
    <3> DEFINE l == [by |-> g, live |-> TRUE]
    <3>1. inbox'[e] = [inbox[e] EXCEPT !.lease = l, !.tries = Tried(@)]
      BY <1>3, <2>1 DEF Leased
    <3>2. l.by # Rival BY DEF Rival
    <3> HIDE DEF l
    <3>3. QED BY <3>1, <3>2, <1>0, <1>3 DEF Row
  <2>2. CASE e \notin S BY <1>3, <2>2 DEF Leased
  <2>3. QED BY <2>1, <2>2
<1>4. QED BY <1>1, <1>2, <1>3

LEMMA DurableInit == Init => DurableFirst
BY DEF Init, DurableFirst, Off, Remembered, Forgotten, Absent, NoLease, NoOne, Rival

LEMMA DurableNext == TypeOK /\ DurableFirst /\ [Next]_vars => DurableFirst'
<1> SUFFICES ASSUME TypeOK, DurableFirst, [Next]_vars PROVE DurableFirst' OBVIOUS
<1>0. InboxType /\ SpoolType /\ ConsumerType BY TypeParts
<1>1. ASSUME UNCHANGED <<taken, consumer, spool>>,
             \A x \in Events : inbox'[x].lease.by = Rival => inbox[x].lease.by = Rival
      PROVE  DurableFirst'
  BY <1>1, DurableKept DEF Remembered
<1>2. ASSUME UNCHANGED <<taken, inbox, spool>>, consumer'.accepted \subseteq consumer.accepted
      PROVE  DurableFirst'
  BY <1>2, DurableKept DEF Remembered
<1>3. ASSUME NEW e, InboxStep(e) PROVE DurableFirst'
  <2>1. UNCHANGED <<taken, consumer, spool>>
    BY <1>3 DEF InboxStep, Insert, Expire, RemoveExpired, LeaseExpires, Available, spoolVars
  <2>2. CASE RemoveExpired BY <2>1, <2>2, <1>0, <1>1, LeaseNotRival DEF RemoveExpired
  <2>3. CASE e \in Events /\ Insert(e)
    BY <2>1, <2>3, <1>0, <1>1 DEF Insert, InboxType, Absent, NoLease, NoOne, Rival
  <2>4. CASE e \in Events /\ (Expire(e) \/ LeaseExpires(e) \/ Available(e))
    <3>1. inbox[e] \in Row BY <2>4, <1>0 DEF InboxType
    <3>2. inbox'[e].lease.by = inbox[e].lease.by
      BY <2>4, <3>1, <1>0 DEF Expire, LeaseExpires, Available, InboxType, Row, Lease
    <3>3. \A x \in Events \ {e} : inbox'[x] = inbox[x]
      BY <2>4, <1>0 DEF Expire, LeaseExpires, Available, InboxType
    <3>4. QED BY <2>1, <3>2, <3>3, <1>1
  <2>5. QED BY <1>3, <2>2, <2>3, <2>4 DEF InboxStep
<1>4. ASSUME NEW e, OwnerStep(e) PROVE DurableFirst'
  <2>1. CASE TokenExpires BY <2>1, <1>1 DEF TokenExpires, inboxVars, spoolVars
  <2>2. CASE Pair \/ RivalPairs \/ Revoke \/ CleanupInactive
    BY <2>2, <1>0, <1>1, LeaseNotRival DEF Pair, RivalPairs, Revoke, CleanupInactive, spoolVars
  <2>3. CASE e \in Events /\ RivalClaims(e)
    BY <2>3, <1>0 DEF RivalClaims, Leased, DurableFirst, spoolVars, Remembered, InboxType
  <2>4. CASE RivalAcks(e)
    BY <2>4, <1>0, <1>1, LeaseNotRival DEF RivalAcks, Acknowledge, spoolVars
  <2>5. QED BY <1>4, <2>1, <2>2, <2>3, <2>4 DEF OwnerStep
<1>5. ASSUME LoopStep PROVE DurableFirst'
  <2>1. UNCHANGED <<taken, inbox, spool>>
    BY <1>5 DEF LoopStep, Start, Stop, RequestFails, Authorised, Capture, Count, MarkReady,
                MarkDegraded, ClaimNothing, ConsumerOnly, inboxVars, spoolVars
  <2>2. consumer'.accepted \subseteq consumer.accepted
    <3>1. \A p : Goes(p) => consumer'.accepted = consumer.accepted
      BY <1>0 DEF Goes, ConsumerType, ConsumerRecord
    <3>2. Fails \/ Start \/ Stop => consumer'.accepted = {}
      <4>1. \A p, g : [Off EXCEPT !.phase = p, !.gen = g].accepted = {} BY DEF Off
      <4>2. Off.accepted = {} BY DEF Off
      <4>3. QED BY <4>1, <4>2 DEF Fails, Start, Stop
    <3>3. Capture \/ consumer' = [consumer EXCEPT !.phase = "poll", !.recovering = FALSE, !.mark = 0]
            => consumer'.accepted = consumer.accepted
      BY <1>0 DEF Capture, ConsumerType, ConsumerRecord
    <3>4. QED
      BY <1>5, <3>1, <3>2, <3>3 DEF LoopStep, RequestFails, Authorised, Count, MarkReady,
                                    MarkDegraded, ClaimNothing
  <2>3. QED BY <2>1, <2>2, <1>2
<1>6. ASSUME NEW e, BatchStep(e) PROVE DurableFirst'
  <2>1. Fails => consumer'.accepted = {} BY DEF Fails, Off
  <2>2. consumer.gen \in Nat BY <1>0 DEF ConsumerType, ConsumerRecord
  <2>3. CASE Claim
    <3> DEFINE S == Claimable(Reach)
    <3>0. consumer' = [consumer EXCEPT !.phase = "batch", !.batch = S] \/ Fails
      BY <2>3 DEF Claim
    <3> HIDE DEF S
    <3>1. consumer'.accepted \subseteq consumer.accepted
      BY <2>1, <3>0, <1>0 DEF ConsumerType, ConsumerRecord
    <3>2. QED BY <3>1, <2>2, <2>3, <1>0, DurableKept, LeaseNotRival DEF Claim, Remembered, spoolVars
  <2>4. CASE AckBatch
    <3> DEFINE p == IF Refused = {} THEN Again ELSE consumer.phase
    <3>0. \/ consumer' = [consumer EXCEPT !.accepted = {}, !.batch = Refused, !.phase = p]
          \/ Fails
      BY <2>4 DEF AckBatch
    <3> HIDE DEF p
    <3>1. consumer'.accepted \subseteq consumer.accepted
      BY <2>1, <3>0, <1>0 DEF ConsumerType, ConsumerRecord
    <3>2. inbox' = Removed(Acknowledges(consumer.accepted, consumer.gen)) /\ UNCHANGED <<taken, spool>>
      BY <2>4 DEF AckBatch, Acknowledge, spoolVars
    <3>3. QED BY <3>1, <3>2, <1>0, DurableKept, LeaseNotRival DEF Remembered
  <2>5. CASE NackBatch
    <3>1. consumer'.accepted \subseteq consumer.accepted
      BY <2>1, <2>2, <2>5, <1>0 DEF NackBatch, ConsumerType, ConsumerRecord
    <3>2. \A x \in Events : \A d : NackedRow(inbox[x], d).lease.by # Rival
      BY <1>0 DEF NackedRow, InboxType, Row, NoLease, NoOne, Rival
    <3>3. \A x \in Events : inbox'[x].lease.by = Rival => inbox[x].lease.by = Rival
      BY <2>5, <3>2 DEF NackBatch
    <3>4. UNCHANGED <<taken, spool>> BY <2>5 DEF NackBatch, spoolVars
    <3>5. QED BY <3>1, <3>3, <3>4, DurableKept DEF Remembered
  <2>6. CASE e \in Events /\ AcceptDuplicate(e)
    <3>1. Remembered(e) /\ consumer'.accepted = consumer.accepted \cup {e} /\ UNCHANGED <<taken, inbox, spool>>
      BY <2>6, <1>0 DEF AcceptDuplicate, Accepts, ConsumerOnly, ConsumerType, ConsumerRecord,
                        inboxVars, spoolVars
    <3>2. QED BY <2>6, <3>1, DurableKept DEF Remembered
  <2>7. CASE e \in Events /\ AcceptNew(e)
    <3>1. consumer'.accepted \subseteq consumer.accepted \cup {e}
      BY <2>7, <1>0 DEF AcceptNew, Accepts, Retries, ConsumerType, ConsumerRecord
    <3>2. taken' = [taken EXCEPT !.runtime = @ \cup {e}] /\ inbox' = inbox
      BY <2>7 DEF AcceptNew, inboxVars
    <3>3. \A x \in Events \ {e} : spool'[x] = spool[x] BY <2>7, <1>0 DEF AcceptNew, SpoolType
    <3>4. QED BY <2>7, <3>1, <3>2, <3>3 DEF DurableFirst, Remembered
  <2>8. CASE AcceptFails(e) \/ Poison(e)
    <3>1. consumer'.accepted = consumer.accepted /\ UNCHANGED <<taken, inbox, spool>>
      BY <2>8, <1>0 DEF AcceptFails, Poison, Retries, ConsumerOnly, ConsumerType, ConsumerRecord,
                        inboxVars, spoolVars
    <3>2. QED BY <3>1, <1>2
  <2>9. QED BY <1>6, <2>3, <2>4, <2>5, <2>6, <2>7, <2>8 DEF BatchStep
<1>7. ASSUME NEW e, NEW w, SpoolStep(w, e) PROVE DurableFirst'
  <2>1. UNCHANGED <<taken, inbox, consumer>>
    BY <1>7 DEF SpoolStep, WorkerClaim, Project, ProjectFails, WorkerStops, SpoolLeaseExpires,
                RecoverProcessing, Compact, Forget, SpoolOnly, inboxVars
  <2>2. \A x \in Events : Remembered(x)' => Remembered(x)
    <3>1. \A x \in Events \ {e} : RecoverProcessing \/ spool'[x] = spool[x]
      BY <1>7, <1>0 DEF SpoolStep, WorkerClaim, Project, Processed, ProjectFails, WorkerStops,
                        SpoolLeaseExpires, Compact, Forget, SpoolType
    <3>2. RecoverProcessing => \A x \in Events : Remembered(x)' => Remembered(x)
      BY DEF RecoverProcessing, Overdue, Remembered
    <3>3. e \in Events /\ ~RecoverProcessing /\ Remembered(e)' => Remembered(e)
      BY <1>7, <1>0 DEF SpoolStep, WorkerClaim, Project, Holds, ProjectFails, WorkerStops,
                        SpoolLeaseExpires, Compact, Forget, SpoolType, SpoolRow, Remembered
    <3>4. QED BY <3>1, <3>2, <3>3 DEF Remembered
  <2>3. QED BY <2>1, <2>2, DurableKept
<1>8. ASSUME NEW e \in Events, ReceiptExpires(e) PROVE DurableFirst'
  BY <1>8, <1>1 DEF ReceiptExpires, spoolVars
<1>9. ASSUME UNCHANGED vars PROVE DurableFirst'
  BY <1>9, <1>1 DEF vars, inboxVars, spoolVars
<1>10. QED BY <1>3, <1>4, <1>5, <1>6, <1>7, <1>8, <1>9, NextGroups

\* A receipt is written for what its owner holds durably.
LEMMA AckedStep ==
  ASSUME TypeOK, DurableFirst, Next, NEW x \in Events, x \in receipts' \ receipts
  PROVE  x \in (IF owner = Rival THEN taken.rival ELSE taken.runtime)
<1>0. ConsumerType BY TypeParts
<1>1. PICK e, w : \/ InboxStep(e) \/ OwnerStep(e) \/ LoopStep \/ BatchStep(e) \/ SpoolStep(w, e)
                  \/ e \in Events /\ ReceiptExpires(e)
  BY NextGroups
<1>2. RivalAcks(e) \/ AckBatch
  BY <1>1 DEF InboxStep, Insert, Expire, RemoveExpired, LeaseExpires, Available, OwnerStep, Pair,
      RivalPairs, Revoke, TokenExpires, CleanupInactive, RivalClaims, LoopStep, Start,
      Stop, RequestFails, Authorised, Capture, Count, MarkReady, MarkDegraded, ClaimNothing,
      ConsumerOnly, ReceiptExpires, inboxVars, BatchStep, Claim, NackBatch, AcceptDuplicate,
      AcceptNew, AcceptFails, Poison, SpoolStep, WorkerClaim, Project, ProjectFails, WorkerStops,
      SpoolLeaseExpires, RecoverProcessing, Compact, Forget, SpoolOnly
<1>3. CASE RivalAcks(e)
  BY <1>3 DEF RivalAcks, Acknowledge, Acknowledges, DurableFirst
<1>4. CASE AckBatch
  <2>1. x \in consumer.accepted /\ Owning(consumer.gen)
    BY <1>4 DEF AckBatch, Acknowledge, Acknowledges
  <2>2. consumer.gen # Rival BY <1>0 DEF ConsumerType, ConsumerRecord, Rival
  <2>3. owner # Rival BY <2>1, <2>2 DEF Owning, Fenced
  <2>4. QED BY <2>1, <2>3 DEF DurableFirst
<1>5. QED BY <1>2, <1>3, <1>4

\* An event leaves the inbox by acknowledgement only once the device that owns the session then
\* has it durably: a receipt from before a crash, an expired lease or another pairing never
\* removes a row its present owner still needs (acknowledge, pair, revoke).
THEOREM AcknowledgedByItsOwner == Spec => AckedByOwner
<1>1. Init => TypeOK /\ DurableFirst BY TypeInit, DurableInit
<1>2. TypeOK /\ DurableFirst /\ [Next]_vars => (TypeOK /\ DurableFirst)'
  BY TypeNext, DurableNext
<1>3. TypeOK /\ DurableFirst /\ [Next]_vars =>
        [\A e \in Events : e \in receipts' \ receipts =>
            e \in (IF owner = Rival THEN taken.rival ELSE taken.runtime)]_vars
  BY AckedStep
<1>4. QED BY <1>1, <1>2, <1>3, PTL DEF Spec, AckedByOwner

-----------------------------------------------------------------------------
(* Readiness.                                                              *)

\* No event up to m may still be claimed.
CaughtUp(m) == \A e \in Events : Live(e) => inbox[e].sequence > m

\* What the consumer is about to say, and what the Runtime says, holds as long as the session is
\* owned; nothing older can come, since sequences are drawn in order; and a consumer never holds
\* a generation that a later pairing will give.
Watermarks ==
  /\ device.active => device.gen > 0
  /\ consumer.gen <= device.gen
  /\ consumer.mark <= sequence /\ readiness.mark <= sequence
  /\ \A e \in Events : inbox[e].sequence <= sequence
  /\ consumer.phase = "ready" /\ Fenced(consumer.gen) => CaughtUp(consumer.mark)
  /\ readiness.state = "READY" /\ Fenced(consumer.gen) => CaughtUp(readiness.mark)

\* A row that may be claimed after a step could be before, or is newer than all.
Newer(e) == /\ Live(e)' => \/ Live(e) /\ inbox'[e].sequence = inbox[e].sequence
                           \/ inbox'[e].sequence > sequence
            /\ inbox'[e].sequence <= sequence'

\* Rewriting rows without touching what Live says.
SameRow(r, q) == r.sequence = q.sequence /\ (r.state = "stored" => q.state = "stored") /\ (~r.expired => ~q.expired)

LEMMA NewerRows ==
  ASSUME TypeOK, Watermarks, NEW S
  PROVE  /\ inbox' = Removed(S) /\ sequence' = sequence => \A e \in Events : Newer(e)
         /\ inbox' = ReleasedOf(S) /\ sequence' = sequence => \A e \in Events : Newer(e)
         /\ \A g : inbox' = Leased(S, g) /\ sequence' = sequence => \A e \in Events : Newer(e)
<1>0. InboxType /\ sequence \in Nat BY TypeParts DEF RestType
<1>1. \A e \in Events : inbox[e] \in Row /\ inbox[e].sequence <= sequence BY <1>0 DEF InboxType, Watermarks
<1>2. ASSUME inbox' = Removed(S), sequence' = sequence, NEW e \in Events PROVE Newer(e)
  BY <1>0, <1>1, <1>2 DEF Removed, Absent, Newer, Live, Row
<1>3. ASSUME inbox' = ReleasedOf(S), sequence' = sequence, NEW e \in Events PROVE Newer(e)
  <2>1. SameRow(inbox'[e], inbox[e]) BY <1>1, <1>3 DEF ReleasedOf, SameRow, Row
  <2>2. QED BY <1>0, <1>1, <1>3, <2>1 DEF SameRow, Newer, Live
<1>4. ASSUME NEW g, inbox' = Leased(S, g), sequence' = sequence, NEW e \in Events PROVE Newer(e)
  <2> DEFINE l == [by |-> g, live |-> TRUE]
  <2>1. inbox'[e] = IF e \in S THEN [inbox[e] EXCEPT !.lease = l, !.tries = Tried(@)] ELSE inbox[e]
    BY <1>4 DEF Leased
  <2> HIDE DEF l
  <2>2. SameRow(inbox'[e], inbox[e]) BY <1>1, <2>1 DEF SameRow, Row
  <2>3. QED BY <1>0, <1>1, <1>4, <2>2 DEF SameRow, Newer, Live
<1>5. QED BY <1>2, <1>3, <1>4

\* A step that keeps the consumer's record and its readiness, and gives it no fence.
LEMMA WatermarksKept ==
  ASSUME TypeOK, TypeOK', Watermarks, UNCHANGED <<consumer, readiness>>,
         \A e \in Events : Newer(e),
         sequence <= sequence', device'.gen >= device.gen, device'.active => device'.gen > 0,
         Fenced(consumer.gen)' => Fenced(consumer.gen)
  PROVE  Watermarks'
<1>0. /\ sequence \in Nat /\ sequence' \in Nat /\ device.gen \in Nat /\ device'.gen \in Nat
      /\ consumer.gen \in Nat /\ consumer.mark \in Nat /\ readiness.mark \in Nat
      /\ \A e \in Events : inbox[e].sequence \in Nat /\ inbox'[e].sequence \in Nat
  BY DEF TypeOK
<1>1. ASSUME NEW m \in Nat, m <= sequence, CaughtUp(m) PROVE CaughtUp(m)'
  BY <1>0, <1>1 DEF CaughtUp, Newer
<1>2. QED BY <1>0, <1>1 DEF Watermarks, Newer

\* A step of the consumer under the generation it has: it does not become ready to say, or
\* what it will say holds; it says nothing new, or not that it is ready, or what holds.
LEMMA WatermarksMoved ==
  ASSUME TypeOK, TypeOK', Watermarks, UNCHANGED <<device, owner, sequence>>,
         \A e \in Events : Newer(e),
         consumer'.gen = consumer.gen,
         consumer'.mark <= sequence, readiness'.mark <= sequence,
         \/ consumer'.phase # "ready"
         \/ Fenced(consumer.gen) => CaughtUp(consumer.mark)',
         \/ readiness' = readiness
         \/ readiness'.state # "READY"
         \/ consumer.phase = "ready" /\ readiness'.mark = consumer.mark
  PROVE  Watermarks'
<1>0. /\ sequence \in Nat /\ consumer.mark \in Nat /\ readiness.mark \in Nat
      /\ consumer'.mark \in Nat /\ readiness'.mark \in Nat
      /\ \A e \in Events : inbox[e].sequence \in Nat /\ inbox'[e].sequence \in Nat
  BY DEF TypeOK
<1>1. ASSUME NEW m \in Nat, m <= sequence, CaughtUp(m) PROVE CaughtUp(m)'
  BY <1>0, <1>1 DEF CaughtUp, Newer
<1>2. Fenced(consumer.gen)' <=> Fenced(consumer.gen) BY DEF Fenced
<1>3. consumer'.phase = "ready" /\ Fenced(consumer.gen) => CaughtUp(consumer.mark)'
  OBVIOUS
<1>4. readiness'.state = "READY" /\ Fenced(consumer.gen) => CaughtUp(readiness.mark)'
  BY <1>0, <1>1 DEF Watermarks, CaughtUp
<1>5. QED BY <1>0, <1>2, <1>3, <1>4 DEF Watermarks, Newer, CaughtUp, Live

LEMMA WatermarksInit == Init => Watermarks
BY DEF Init, Watermarks, Off, Absent

LEMMA WatermarksNext == TypeOK /\ Watermarks /\ [Next]_vars => Watermarks'
<1> SUFFICES ASSUME TypeOK, Watermarks, [Next]_vars PROVE Watermarks' OBVIOUS
<1>0. TypeOK' BY TypeNext
<1>1. /\ InboxType /\ ConsumerType /\ RestType
      /\ sequence \in Nat /\ device.gen \in Nat /\ consumer.gen \in Nat /\ consumer.mark \in Nat
      /\ \A e \in Events : inbox[e] \in Row /\ inbox[e].sequence \in Nat
  BY TypeParts DEF RestType, ConsumerType, ConsumerRecord, InboxType, Row
<1>2. ASSUME UNCHANGED <<inbox, sequence>> PROVE \A e \in Events : Newer(e)
  BY <1>1, <1>2 DEF Newer, Live, Watermarks
<1>3. ASSUME NEW e \in Events, NEW n, SameRow(n, inbox[e]), inbox' = [inbox EXCEPT ![e] = n],
             sequence' = sequence
      PROVE  \A x \in Events : Newer(x)
  BY <1>1, <1>3 DEF Newer, Live, Watermarks, SameRow, InboxType
<1>4. ASSUME NEW e, InboxStep(e) PROVE Watermarks'
  <2>1. UNCHANGED <<device, owner, consumer, readiness>>
    BY <1>4 DEF InboxStep, Insert, Expire, RemoveExpired, LeaseExpires, Available, deviceVars
  <2>2. (\A x \in Events : Newer(x)) /\ sequence <= sequence'
    <3>1. CASE RemoveExpired BY <3>1, <1>1, NewerRows DEF RemoveExpired
    <3>2. CASE e \in Events /\ Insert(e)
      BY <3>2, <1>1 DEF Insert, Newer, Live, InboxType, Watermarks, Absent
    <3>3. CASE e \in Events /\ Expire(e)
      <4> DEFINE n == [inbox[e] EXCEPT !.expired = TRUE]
      <4>1. SameRow(n, inbox[e]) BY <3>3, <1>1 DEF SameRow, Row
      <4>2. inbox' = [inbox EXCEPT ![e] = n] /\ sequence' = sequence BY <3>3 DEF Expire
      <4>3. sequence <= sequence' BY <4>2, <1>1
      <4> HIDE DEF n
      <4>4. QED BY <4>3, <3>3, <4>1, <4>2, <1>1, <1>3
    <3>4. CASE e \in Events /\ LeaseExpires(e)
      <4> DEFINE n == [inbox[e] EXCEPT !.lease = [inbox[e].lease EXCEPT !.live = FALSE]]
      <4>1. SameRow(n, inbox[e]) BY <3>4, <1>1 DEF SameRow, Row
      <4>2. inbox' = [inbox EXCEPT ![e] = n] /\ sequence' = sequence BY <3>4 DEF LeaseExpires
      <4>3. sequence <= sequence' BY <4>2, <1>1
      <4> HIDE DEF n
      <4>4. QED BY <4>3, <3>4, <4>1, <4>2, <1>1, <1>3
    <3>5. CASE e \in Events /\ Available(e)
      <4> DEFINE n == [inbox[e] EXCEPT !.waiting = FALSE]
      <4>1. SameRow(n, inbox[e]) BY <3>5, <1>1 DEF SameRow, Row
      <4>2. inbox' = [inbox EXCEPT ![e] = n] /\ sequence' = sequence BY <3>5 DEF Available
      <4>3. sequence <= sequence' BY <4>2, <1>1
      <4> HIDE DEF n
      <4>4. QED BY <4>3, <3>5, <4>1, <4>2, <1>1, <1>3
    <3>6. QED BY <1>4, <3>1, <3>2, <3>3, <3>4, <3>5 DEF InboxStep
  <2>3. Fenced(consumer.gen)' => Fenced(consumer.gen) BY <2>1 DEF Fenced
  <2>4. QED BY <2>1, <2>2, <2>3, <1>0, <1>1, WatermarksKept DEF Watermarks
<1>5. ASSUME NEW e, OwnerStep(e) PROVE Watermarks'
  <2>1. UNCHANGED <<consumer, readiness, sequence>>
    BY <1>5 DEF OwnerStep, Pair, RivalPairs, Revoke, TokenExpires, CleanupInactive, RivalClaims,
                RivalAcks, Acknowledge, inboxVars
  <2>2. \A x \in Events : Newer(x)
    <3>1. CASE TokenExpires BY <3>1, <1>2 DEF TokenExpires, inboxVars
    <3>2. CASE Pair \/ RivalPairs \/ Revoke \/ CleanupInactive
      BY <2>1, <3>2, NewerRows DEF Pair, RivalPairs, Revoke, CleanupInactive
    <3>3. CASE RivalClaims(e) BY <2>1, <3>3, NewerRows DEF RivalClaims
    <3>4. CASE RivalAcks(e) BY <2>1, <3>4, NewerRows DEF RivalAcks, Acknowledge
    <3>5. QED BY <1>5, <3>1, <3>2, <3>3, <3>4 DEF OwnerStep
  <2>3. /\ Fenced(consumer.gen)' => Fenced(consumer.gen)
        /\ device'.gen >= device.gen /\ (device'.active => device'.gen > 0)
    <3>1. CASE Pair
      <4>1. device' = [gen |-> device.gen + 1, active |-> TRUE] BY <3>1 DEF Pair
      <4>2. consumer'.gen <= device.gen BY <2>1 DEF Watermarks
      <4>3. QED BY <4>1, <4>2, <1>1, <2>1 DEF Fenced
    <3>2. CASE Revoke \/ TokenExpires
      BY <3>2, <2>1, <1>1 DEF Revoke, TokenExpires, Fenced, RestType, Watermarks
    <3>3. CASE RivalPairs \/ CleanupInactive
      <4>1. device' = device /\ (owner' \in {Rival, NoOne} \/ owner' = owner)
        BY <3>3 DEF RivalPairs, CleanupInactive
      <4>2. consumer.gen # Rival BY <1>1 DEF Rival
      <4>3. consumer.gen = 0 => ~(device.gen = 0 /\ device.active) BY DEF Watermarks
      <4>4. QED BY <4>1, <4>2, <4>3, <2>1, <1>1 DEF Fenced, NoOne, Watermarks
    <3>4. CASE RivalClaims(e) \/ RivalAcks(e)
      BY <3>4, <2>1, <1>1 DEF RivalClaims, RivalAcks, deviceVars, Fenced, Watermarks
    <3>5. QED BY <1>5, <3>1, <3>2, <3>3, <3>4 DEF OwnerStep
  <2>4. QED BY <2>1, <2>2, <2>3, <1>0, <1>1, WatermarksKept
<1>6. ASSUME LoopStep PROVE Watermarks'
  <2>1. UNCHANGED <<inbox, sequence, device, owner>> /\ \A x \in Events : Newer(x)
    <3>1. UNCHANGED <<inbox, sequence, device, owner>>
      BY <1>6 DEF LoopStep, Start, Stop, RequestFails, Authorised, Capture, Count, MarkReady,
                  MarkDegraded, ClaimNothing, ConsumerOnly, inboxVars, deviceVars
    <3>2. QED BY <3>1, <1>2
  <2>2. ASSUME NEW p, Goes(p) PROVE consumer'.gen = consumer.gen /\ consumer'.mark = consumer.mark
                                    /\ consumer'.phase = p
    BY <2>2, <1>1 DEF Goes, ConsumerType, ConsumerRecord
  <2>3. ASSUME Fails PROVE consumer'.gen = consumer.gen /\ consumer'.mark = 0 /\ consumer'.phase = "failed"
    BY <2>3 DEF Fails, Off
  <2>4. CASE Start
    <3>1. PICK g \in 1 .. device.gen : consumer' = [Off EXCEPT !.phase = "recover", !.gen = g]
      BY <2>4 DEF Start
    <3>2. consumer'.gen = g /\ consumer'.mark = 0 /\ consumer'.phase = "recover" BY <3>1 DEF Off
    <3>3. readiness'.state = "RECOVERING" /\ readiness'.mark = 0 BY <2>4 DEF Start
    <3>4. QED BY <2>1, <3>2, <3>3, <1>1 DEF Watermarks
  <2>5. CASE Stop
    <3>1. consumer'.gen = 0 /\ consumer'.mark = 0 /\ consumer'.phase = "off" /\ readiness' = readiness
      BY <2>5 DEF Stop, Off
    <3>2. ~Fenced(consumer.gen)' BY <2>1, <3>1 DEF Fenced, Watermarks
    <3>3. QED BY <2>1, <3>1, <3>2, <1>1 DEF Watermarks
  <2>6. CASE RequestFails
    BY <2>1, <2>3, <2>6, <1>0, <1>1, WatermarksMoved DEF RequestFails, Watermarks
  <2>7. CASE Authorised
    BY <2>1, <2>2, <2>7, <1>0, <1>1, WatermarksMoved DEF Authorised, Watermarks
  <2>8. CASE Capture
    <3>1. Mine \in SUBSET Events BY DEF Mine
    <3>2. Latest(Mine) \in Nat /\ Latest(Mine) <= sequence
      BY <3>1, <1>1, LatestIs DEF Watermarks
    <3> DEFINE p == IF Mine = {} THEN "ready" ELSE "drain"
    <3>3. consumer' = [consumer EXCEPT !.mark = Latest(Mine), !.phase = p] /\ readiness' = readiness
      BY <2>8 DEF Capture
    <3>4. consumer'.gen = consumer.gen /\ consumer'.mark = Latest(Mine) /\ consumer'.phase = p
      BY <3>3, <1>1 DEF ConsumerType, ConsumerRecord
    <3>5. consumer'.phase = "ready" /\ Fenced(consumer.gen) => \A x \in Events : ~Live(x)
      BY <3>4 DEF Mine
    <3>6. consumer'.phase = "ready" /\ Fenced(consumer.gen) => CaughtUp(consumer.mark)'
      BY <3>5, <2>1 DEF CaughtUp, Live
    <3>7. QED BY <2>1, <3>2, <3>3, <3>4, <3>6, <1>0, <1>1, WatermarksMoved DEF Watermarks
  <2>9. CASE Count
    <3> DEFINE p == IF Remaining(consumer.mark) = {} THEN "ready" ELSE "drain"
    <3>1. Goes(p) /\ readiness' = readiness BY <2>9 DEF Count
    <3>2. consumer'.gen = consumer.gen /\ consumer'.mark = consumer.mark /\ consumer'.phase = p
      BY <2>2, <3>1
    <3>3. p = "ready" /\ Fenced(consumer.gen) => CaughtUp(consumer.mark)
      BY <1>1 DEF Remaining, Mine, CaughtUp
    <3> HIDE DEF p
    <3>4. consumer'.phase = "ready" /\ Fenced(consumer.gen) => CaughtUp(consumer.mark)'
      BY <2>1, <3>2, <3>3 DEF CaughtUp, Live
    <3>5. QED BY <2>1, <3>1, <3>2, <3>4, <1>0, <1>1, WatermarksMoved DEF Watermarks
  <2>10. CASE MarkReady
    <3>1. CASE /\ readiness' = [state |-> "READY", mark |-> consumer.mark]
               /\ consumer' = [consumer EXCEPT !.phase = "poll", !.recovering = FALSE, !.mark = 0]
      <4>1. consumer'.gen = consumer.gen /\ consumer'.mark = 0 /\ consumer'.phase = "poll"
        BY <3>1, <1>1 DEF ConsumerType, ConsumerRecord
      <4>2. readiness'.mark = consumer.mark /\ consumer.phase = "ready" BY <3>1, <2>10 DEF MarkReady
      <4>3. QED BY <2>1, <4>1, <4>2, <1>0, <1>1, WatermarksMoved DEF Watermarks
    <3>2. CASE Fails /\ readiness' = readiness
      BY <2>1, <2>3, <3>2, <1>0, <1>1, WatermarksMoved DEF Watermarks
    <3>3. QED BY <2>10, <3>1, <3>2 DEF MarkReady
  <2>11. CASE MarkDegraded
    <3>1. readiness' = readiness \/ (readiness'.state = "DEGRADED" /\ readiness'.mark = 0)
      BY <2>11 DEF MarkDegraded
    <3>2. Goes("recover") BY <2>11 DEF MarkDegraded
    <3>3. QED BY <2>1, <2>2, <3>1, <3>2, <1>0, <1>1, WatermarksMoved DEF Watermarks
  <2>12. CASE ClaimNothing
    BY <2>1, <2>2, <2>12, <1>0, <1>1, WatermarksMoved DEF ClaimNothing, Watermarks
  <2>13. QED
    BY <1>6, <2>4, <2>5, <2>6, <2>7, <2>8, <2>9, <2>10, <2>11, <2>12 DEF LoopStep
<1>7. ASSUME NEW e, BatchStep(e) PROVE Watermarks'
  <2>1. UNCHANGED <<sequence, device, owner, readiness>>
    BY <1>7 DEF BatchStep, Claim, AckBatch, NackBatch, Acknowledge, AcceptDuplicate, AcceptNew,
                AcceptFails, Poison, ConsumerOnly, inboxVars, deviceVars
  <2>2. ASSUME Fails PROVE consumer'.gen = consumer.gen /\ consumer'.mark = 0 /\ consumer'.phase = "failed"
    BY <2>2 DEF Fails, Off
  <2>3. \A x \in Events : Newer(x)
    <3>1. CASE Claim BY <2>1, <3>1, NewerRows DEF Claim
    <3>2. CASE AckBatch BY <2>1, <3>2, NewerRows DEF AckBatch, Acknowledge
    <3>3. CASE NackBatch
      <4>1. \A x \in Events : \A d : SameRow(NackedRow(inbox[x], d), inbox[x]) \/ inbox[x].state # "stored"
        BY <1>1 DEF SameRow, NackedRow, Row
      <4>2. \A x \in Acknowledges(Refused, consumer.gen) : inbox[x].state = "stored"
        BY DEF Acknowledges
      <4>3. \A x \in Events : SameRow(inbox'[x], inbox[x])
        BY <3>3, <4>1, <4>2 DEF NackBatch, SameRow
      <4>4. QED BY <4>3, <2>1, <1>1 DEF SameRow, Newer, Live, Watermarks
    <3>4. CASE AcceptDuplicate(e) \/ AcceptNew(e) \/ AcceptFails(e) \/ Poison(e)
      BY <3>4, <1>2 DEF AcceptDuplicate, AcceptNew, AcceptFails, Poison, ConsumerOnly, inboxVars
    <3>5. QED BY <1>7, <3>1, <3>2, <3>3, <3>4 DEF BatchStep
  <2>4. /\ consumer'.gen = consumer.gen /\ consumer'.mark \in {0, consumer.mark}
        /\ consumer'.phase # "ready" \/ (consumer'.phase = consumer.phase /\ consumer'.mark = consumer.mark)
    <3>1. CASE Claim
      <4> DEFINE S == Claimable(Reach)
      <4>1. consumer' = [consumer EXCEPT !.phase = "batch", !.batch = S] \/ Fails BY <3>1 DEF Claim
      <4> HIDE DEF S
      <4>2. QED BY <4>1, <2>2, <1>1 DEF ConsumerType, ConsumerRecord
    <3>2. CASE AckBatch
      <4> DEFINE p == IF Refused = {} THEN Again ELSE consumer.phase
      <4>1. \/ consumer' = [consumer EXCEPT !.accepted = {}, !.batch = Refused, !.phase = p]
            \/ Fails
        BY <3>2 DEF AckBatch
      <4>2. p # "ready" BY <3>2 DEF AckBatch, Again
      <4> HIDE DEF p
      <4>3. QED BY <4>1, <4>2, <2>2, <1>1 DEF ConsumerType, ConsumerRecord
    <3>3. CASE NackBatch
      <4>1. \/ consumer' = [consumer EXCEPT !.retry = {}, !.dead = {}, !.batch = {}, !.phase = Again]
            \/ Fails
        BY <3>3 DEF NackBatch
      <4>2. Again # "ready" BY DEF Again
      <4>3. QED BY <4>1, <4>2, <2>2, <1>1 DEF ConsumerType, ConsumerRecord
    <3>4. CASE AcceptDuplicate(e) \/ AcceptNew(e) \/ AcceptFails(e) \/ Poison(e)
      BY <3>4, <1>1 DEF AcceptDuplicate, AcceptNew, AcceptFails, Poison, Accepts, Retries,
                        ConsumerType, ConsumerRecord
    <3>5. QED BY <1>7, <3>1, <3>2, <3>3, <3>4 DEF BatchStep
  <2>5. consumer'.phase # "ready" \/ (Fenced(consumer.gen) => CaughtUp(consumer.mark)')
    <3>1. SUFFICES ASSUME consumer'.phase = "ready", Fenced(consumer.gen)
                   PROVE  CaughtUp(consumer.mark)'
      OBVIOUS
    <3>2. CaughtUp(consumer.mark) /\ consumer.mark <= sequence /\ consumer'.mark = consumer.mark
      BY <2>4, <3>1 DEF Watermarks
    <3>3. ASSUME NEW x \in Events, Live(x)' PROVE inbox'[x].sequence > consumer'.mark
      <4>1. inbox'[x].sequence \in Nat BY <1>0 DEF TypeOK
      <4>2. QED BY <2>3, <3>2, <3>3, <4>1, <1>1 DEF Newer, CaughtUp
    <3>4. QED BY <3>3 DEF CaughtUp
  <2>6. QED BY <2>1, <2>3, <2>4, <2>5, <1>0, <1>1, WatermarksMoved DEF Watermarks
<1>8. ASSUME NEW e, NEW w, SpoolStep(w, e) PROVE Watermarks'
  <2>1. UNCHANGED <<inboxVars, deviceVars, consumer, readiness>> BY <1>8, TypeSpool
  <2>2. QED BY <2>1, <1>0, <1>1, <1>2, WatermarksKept DEF inboxVars, deviceVars, Fenced, Watermarks
<1>9. ASSUME NEW e \in Events, ReceiptExpires(e) PROVE Watermarks'
  BY <1>9, <1>0, <1>1, <1>2, WatermarksKept DEF ReceiptExpires, deviceVars, Fenced, Watermarks
<1>10. ASSUME UNCHANGED vars PROVE Watermarks'
  BY <1>10, <1>0, <1>1, <1>2, WatermarksKept DEF vars, inboxVars, deviceVars, Fenced, Watermarks
<1>11. QED BY <1>4, <1>5, <1>6, <1>7, <1>8, <1>9, <1>10, NextGroups

\* While the Runtime says it has recovered up to a watermark and still owns the session, no event
\* up to it waits in the inbox, whatever was leased, refused, backed off or interrupted during
\* the recovery (recover, recovery, markReady, markDegraded).
THEOREM ReadyIsCaughtUp == Spec => []ReadyMeansCaughtUp
<1>1. Init => TypeOK /\ Watermarks BY TypeInit, WatermarksInit
<1>2. TypeOK /\ Watermarks /\ [Next]_vars => (TypeOK /\ Watermarks)' BY TypeNext, WatermarksNext
<1>3. Watermarks => ReadyMeansCaughtUp BY DEF Watermarks, CaughtUp, ReadyMeansCaughtUp
<1>4. QED BY <1>1, <1>2, <1>3, PTL DEF Spec

=============================================================================
