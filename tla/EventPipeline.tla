--------------------------- MODULE EventPipeline ---------------------------
(***************************************************************************)
(* The way of a webhook event: from OpenWA into the Event Inbox, under a   *)
(* lease to the device that owns the session, into the Runtime's own       *)
(* spool, and through a worker into a projection.                          *)
(*                                                                         *)
(* One session, one Runtime installation in detail, and a rival device     *)
(* that may be paired with the session in its place.  A claimant is a      *)
(* token generation of the Runtime's device, or Rival; a generation stands *)
(* for its number and its expiry, both of which authenticate() compares.   *)
(* A lease id is drawn by one claim and its receipts are held by one       *)
(* batch, so a lease is its claimant, and the batch says who remembers it. *)
(* Every repository call is one transaction; the sequence of the inbox is  *)
(* drawn under the lock of its usage row, so it commits in order.          *)
(***************************************************************************)
EXTENDS Integers, FiniteSets

CONSTANTS Events, Workers, Nobody,
          Compaction,      \* settings of the compaction flag over time
          MaxDeliveries,   \* EVENT_INBOX_MAX_DELIVERY_ATTEMPTS
          MaxAttempts,     \* attempts of a spooled event (5 in the code)
          InboxCapacity,   \* EVENT_INBOX_MAX_STORED_EVENTS
          SpoolCapacity,   \* RUNTIME_WEBHOOK_SPOOL_MAX_EVENTS
          MaxSequence,     \* bound: events ever stored in the inbox
          MaxGenerations,  \* bound: pairings of the Runtime's device
          MaxRivals,       \* bound: pairings of another device
          MaxFaults        \* bound: crashes, lost answers, failed statements

ASSUME PipelineAssumption ==
  /\ Nobody \notin Workers
  /\ Compaction \subseteq BOOLEAN
  /\ {MaxDeliveries, MaxAttempts, InboxCapacity, SpoolCapacity} \subseteq Nat \ {0}
  /\ {MaxSequence, MaxGenerations, MaxRivals, MaxFaults} \subseteq Nat

NoOne == 0
Rival == -1
Generations == 1 .. MaxGenerations
Claimants == {NoOne, Rival} \cup Generations

VARIABLES
  inbox,      \* event_inbox_events
  receipts,   \* event_inbox_receipts that have not expired
  sequence,   \* the last event_sequence drawn
  stored,     \* event_inbox_usage
  device,     \* the Runtime's row in event_inbox_devices
  owner,      \* event_inbox_session_owners
  consumer,   \* the Runtime's consumer loop
  readiness,  \* runtime_dispatch_readiness
  spool,      \* webhook_events and webhook_event_receipts
  used,       \* runtime_webhook_spool_usage
  worker,     \* what each worker is processing
  taken,      \* events the Runtime, and the rival, ever made durable (history)
  projected,  \* projections committed while the event is remembered (history)
  spent       \* how much of each bound is used

inboxVars == <<inbox, receipts, sequence, stored>>
deviceVars == <<device, owner>>
spoolVars == <<spool, used, worker, projected>>
vars == <<inboxVars, deviceVars, consumer, readiness, spoolVars, taken, spent>>

NoLease == [by |-> NoOne, live |-> FALSE]

Absent == [state |-> "none", sequence |-> 0, lease |-> NoLease, tries |-> 0,
           waiting |-> FALSE, expired |-> FALSE]

Unlocked == [holder |-> Nobody, live |-> FALSE]

Forgotten == [state |-> "none", tries |-> 0, lease |-> Unlocked]

\* "mark": the watermark of the recovery under way.
Off == [phase |-> "off", gen |-> 0, recovering |-> TRUE, mark |-> 0,
        batch |-> {}, accepted |-> {}, retry |-> {}, dead |-> {}]

Init ==
  /\ inbox = [e \in Events |-> Absent]
  /\ receipts = {} /\ sequence = 0 /\ stored = 0
  /\ device = [gen |-> 0, active |-> FALSE] /\ owner = NoOne
  /\ consumer = Off
  /\ readiness = [state |-> "RECOVERING", mark |-> 0]
  /\ spool = [e \in Events |-> Forgotten] /\ used = 0
  /\ worker = [w \in Workers |-> {}]
  /\ taken = [runtime |-> {}, rival |-> {}]
  /\ projected = [e \in Events |-> 0]
  /\ spent = [rivals |-> 0, faults |-> 0]

Fault(n) == /\ spent.faults + n <= MaxFaults
            /\ spent' = [spent EXCEPT !.faults = @ + n]

-----------------------------------------------------------------------------
(* The inbox: admission, expiry, and who owns the session.                 *)

Removed(S) == [e \in Events |-> IF e \in S THEN Absent ELSE inbox[e]]

\* A receipt, or a row in any state, makes the event a duplicate.
Insert(e) ==
  /\ e \notin receipts /\ inbox[e].state = "none"
  /\ stored < InboxCapacity /\ sequence < MaxSequence
  /\ inbox' = [inbox EXCEPT ![e] = [Absent EXCEPT !.state = "stored",
                                                  !.sequence = sequence + 1]]
  /\ sequence' = sequence + 1
  /\ stored' = stored + 1
  /\ UNCHANGED <<receipts, deviceVars, consumer, readiness, spoolVars, taken, spent>>

Expire(e) ==
  /\ inbox[e].state # "none" /\ ~inbox[e].expired
  /\ inbox' = [inbox EXCEPT ![e].expired = TRUE]
  /\ UNCHANGED <<receipts, sequence, stored, deviceVars, consumer, readiness, spoolVars,
                 taken, spent>>

\* Variant: dead events had left the usage when they died.
RemoveExpiredLive ==
  LET gone == {e \in Events : inbox[e].expired} IN
  /\ gone # {}
  /\ inbox' = Removed(gone)
  /\ stored' = stored - Cardinality({e \in gone : inbox[e].state = "stored"})
  /\ UNCHANGED <<receipts, sequence, deviceVars, consumer, readiness, spoolVars, taken, spent>>

RemoveExpired ==
  LET gone == {e \in Events : inbox[e].expired} IN
  /\ gone # {}
  /\ inbox' = Removed(gone)
  /\ stored' = stored - Cardinality(gone)
  /\ UNCHANGED <<receipts, sequence, deviceVars, consumer, readiness, spoolVars, taken, spent>>

ReceiptExpires(e) ==
  /\ e \in receipts
  /\ receipts' = receipts \ {e}
  /\ UNCHANGED <<inbox, sequence, stored, deviceVars, consumer, readiness, spoolVars, taken,
                 spent>>

LeaseExpires(e) ==
  /\ inbox[e].lease.live
  /\ inbox' = [inbox EXCEPT ![e].lease.live = FALSE]
  /\ UNCHANGED <<receipts, sequence, stored, deviceVars, consumer, readiness, spoolVars,
                 taken, spent>>

\* The back-off of a retry has passed.
Available(e) ==
  /\ inbox[e].waiting
  /\ inbox' = [inbox EXCEPT ![e].waiting = FALSE]
  /\ UNCHANGED <<receipts, sequence, stored, deviceVars, consumer, readiness, spoolVars,
                 taken, spent>>

ReleasedOf(S) ==
  [e \in Events |-> IF inbox[e].lease.by \in S
                    THEN [inbox[e] EXCEPT !.lease = NoLease] ELSE inbox[e]]

\* Pairing takes the session over and releases every lease on its events.
Pair ==
  /\ device.gen < MaxGenerations
  /\ device' = [gen |-> device.gen + 1, active |-> TRUE]
  /\ owner' = device.gen + 1
  /\ inbox' = ReleasedOf(Claimants)
  /\ UNCHANGED <<receipts, sequence, stored, consumer, readiness, spoolVars, taken, spent>>

RivalPairs ==
  /\ spent.rivals < MaxRivals /\ owner # Rival
  /\ owner' = Rival
  /\ inbox' = ReleasedOf(Claimants)
  /\ spent' = [spent EXCEPT !.rivals = @ + 1]
  /\ UNCHANGED <<receipts, sequence, stored, device, consumer, readiness, spoolVars, taken>>

\* Only the current generation's token revokes the device.
Revoke ==
  /\ device.active
  /\ device' = [device EXCEPT !.active = FALSE]
  /\ inbox' = ReleasedOf(Generations)
  /\ UNCHANGED <<receipts, sequence, stored, owner, consumer, readiness, spoolVars, taken, spent>>

TokenExpires ==
  /\ device.active
  /\ device' = [device EXCEPT !.active = FALSE]
  /\ UNCHANGED <<inboxVars, owner, consumer, readiness, spoolVars, taken, spent>>

Inactive == {g \in Generations : ~device.active \/ g # device.gen}

CleanupInactive ==
  /\ inbox' = ReleasedOf(Inactive)
  /\ owner' = IF owner \in Inactive THEN NoOne ELSE owner
  /\ UNCHANGED <<receipts, sequence, stored, device, consumer, readiness, spoolVars, taken, spent>>

\* The fence of every call: the device is active and owns the session.
Fenced(g) == owner = g /\ device.gen = g /\ device.active

-----------------------------------------------------------------------------
(* Claims and acknowledgements.                                            *)

Live(e) == inbox[e].state = "stored" /\ ~inbox[e].expired

Claimable(mark) == {e \in Events : /\ Live(e) /\ ~inbox[e].waiting /\ ~inbox[e].lease.live
                                   /\ inbox[e].sequence <= mark}

\* The count of deliveries is compared with the limit only.
Tried(n) == IF n < MaxDeliveries THEN n + 1 ELSE n

Leased(S, claimant) ==
  [e \in Events |-> IF e \in S THEN [inbox[e] EXCEPT !.lease = [by |-> claimant, live |-> TRUE],
                                                     !.tries = Tried(@)]
                               ELSE inbox[e]]

Owning(claimant) == IF claimant = Rival THEN owner = Rival ELSE Fenced(claimant)

\* Variant: a receipt is honoured whoever holds the lease now.
AcknowledgesAny(S, claimant) == {e \in S : inbox[e].state = "stored"}

\* The rows an acknowledgement selects: still leased by that claim, even if the
\* lease ran out, and still owned.
Acknowledges(S, claimant) ==
  {e \in S : Owning(claimant) /\ inbox[e].state = "stored" /\ inbox[e].lease.by = claimant}

Acknowledge(S, claimant) ==
  LET gone == Acknowledges(S, claimant) IN
  /\ inbox' = Removed(gone)
  /\ receipts' = receipts \cup gone
  /\ stored' = stored - Cardinality(gone)
  /\ UNCHANGED sequence

\* A refused event waits for another delivery, or is dead.
NackedRow(row, dead) ==
  IF dead \/ row.tries >= MaxDeliveries
  THEN [row EXCEPT !.state = "dead", !.lease = NoLease]
  ELSE [row EXCEPT !.waiting = TRUE, !.lease = NoLease]

RivalClaims(e) ==
  /\ owner = Rival
  /\ e \in Claimable(sequence)
  /\ inbox' = Leased({e}, Rival)
  /\ taken' = [taken EXCEPT !.rival = @ \cup {e}]
  /\ UNCHANGED <<receipts, sequence, stored, deviceVars, consumer, readiness, spoolVars, spent>>

RivalAcks(e) ==
  /\ owner = Rival
  /\ inbox[e].lease.by = Rival
  /\ Acknowledge({e}, Rival)
  /\ UNCHANGED <<deviceVars, consumer, readiness, spoolVars, taken, spent>>

-----------------------------------------------------------------------------
(* The consumer: recovery up to a watermark, then polling.                 *)

ConsumerOnly == UNCHANGED <<inboxVars, deviceVars, spoolVars, taken>>

Mine == {e \in Events : Fenced(consumer.gen) /\ Live(e)}

Latest(S) == IF S = {} THEN 0
             ELSE CHOOSE n \in {inbox[e].sequence : e \in S} :
                    \A e \in S : inbox[e].sequence <= n

Goes(phase) == consumer' = [consumer EXCEPT !.phase = phase]

Fails == consumer' = [Off EXCEPT !.phase = "failed", !.gen = consumer.gen]

\* The process starts with the token it was last given.
Start ==
  /\ consumer.phase = "off" /\ device.gen > 0
  /\ \E g \in 1 .. device.gen : consumer' = [Off EXCEPT !.phase = "recover", !.gen = g]
  /\ readiness' = [state |-> "RECOVERING", mark |-> 0]
  /\ UNCHANGED spent
  /\ ConsumerOnly

Stop ==
  /\ consumer.phase # "off"
  /\ consumer' = Off
  /\ Fault(1)
  /\ UNCHANGED readiness
  /\ ConsumerOnly

Open == consumer.batch \ (consumer.accepted \cup consumer.retry \cup consumer.dead)

Requesting == \/ consumer.phase \in {"recover", "capture", "drain", "recheck", "count", "poll"}
              \/ consumer.phase = "batch" /\ Open = {}

\* A request is refused, or it does not get through.
RequestFails ==
  /\ Requesting
  /\ IF Fenced(consumer.gen) THEN Fault(1) ELSE UNCHANGED spent
  /\ Fails
  /\ UNCHANGED readiness
  /\ ConsumerOnly

\* A recovery request is authorised first and answered by a later statement.
Authorised ==
  /\ Fenced(consumer.gen)
  /\ \/ consumer.phase = "recover" /\ Goes("capture")
     \/ consumer.phase = "recheck" /\ Goes("count")
  /\ UNCHANGED <<readiness, spent>>
  /\ ConsumerOnly

Capture ==
  /\ consumer.phase = "capture"
  /\ consumer' = [consumer EXCEPT !.mark = Latest(Mine),
                                  !.phase = IF Mine = {} THEN "ready" ELSE "drain"]
  /\ UNCHANGED <<readiness, spent>>
  /\ ConsumerOnly

\* Variant: rows that nobody may claim any more remain as well.
RemainingExpired(mark) ==
  {e \in Events : Fenced(consumer.gen) /\ inbox[e].state = "stored" /\ inbox[e].sequence <= mark}

Remaining(mark) == {e \in Mine : inbox[e].sequence <= mark}

Count ==
  /\ consumer.phase = "count"
  /\ Goes(IF Remaining(consumer.mark) = {} THEN "ready" ELSE "drain")
  /\ UNCHANGED <<readiness, spent>>
  /\ ConsumerOnly

MarkReady ==
  /\ consumer.phase = "ready"
  /\ \/ /\ readiness' = [state |-> "READY", mark |-> consumer.mark]
        /\ consumer' = [consumer EXCEPT !.phase = "poll", !.recovering = FALSE, !.mark = 0]
        /\ UNCHANGED spent
     \/ Fails /\ Fault(1) /\ UNCHANGED readiness
  /\ ConsumerOnly

\* The failure may itself fail to be recorded.
MarkDegraded ==
  /\ consumer.phase = "failed"
  /\ Goes("recover")
  /\ \/ readiness' = [state |-> "DEGRADED", mark |-> 0] /\ UNCHANGED spent
     \/ Fault(1) /\ UNCHANGED readiness
  /\ ConsumerOnly

Reach == IF consumer.recovering THEN consumer.mark ELSE sequence

\* Variant: nothing to claim means that nothing remains.
ClaimNothingIsEnough ==
  /\ consumer.phase = "drain"
  /\ ~Fenced(consumer.gen) \/ Claimable(Reach) = {}
  /\ Goes("ready")
  /\ UNCHANGED <<readiness, spent>>
  /\ ConsumerOnly

\* Nothing to claim does not mean that nothing remains.
ClaimNothing ==
  /\ consumer.phase = "drain"
  /\ ~Fenced(consumer.gen) \/ Claimable(Reach) = {}
  /\ Goes("recheck")
  /\ UNCHANGED <<readiness, spent>>
  /\ ConsumerOnly

\* A claim takes all it may; batches are larger than these instances.
Claim ==
  LET S == Claimable(Reach) IN
  /\ consumer.phase \in {"drain", "poll"}
  /\ Fenced(consumer.gen) /\ S # {}
  /\ inbox' = Leased(S, consumer.gen)
  /\ \/ consumer' = [consumer EXCEPT !.phase = "batch", !.batch = S] /\ UNCHANGED spent
     \/ Fails /\ Fault(1)
  /\ UNCHANGED <<receipts, sequence, stored, deviceVars, readiness, spoolVars, taken>>

\* Variant: the receipt that compaction leaves is not consulted.
RememberedRow(e) == spool[e].state \notin {"none", "RECEIPT"}

Remembered(e) == spool[e].state # "none"

Accepts(e) == consumer' = [consumer EXCEPT !.accepted = @ \cup {e}]

Retries(e) == consumer' = [consumer EXCEPT !.retry = @ \cup {e}]

AcceptDuplicate(e) ==
  /\ e \in Open /\ Remembered(e)
  /\ Accepts(e)
  /\ UNCHANGED <<readiness, spent>>
  /\ ConsumerOnly

HasRoom == used < SpoolCapacity

\* The event is spooled; the publication of its job may still fail.
AcceptNew(e) ==
  /\ e \in Open /\ ~Remembered(e) /\ HasRoom
  /\ spool' = [spool EXCEPT ![e] = [Forgotten EXCEPT !.state = "PENDING"]]
  /\ used' = used + 1
  /\ taken' = [taken EXCEPT !.runtime = @ \cup {e}]
  /\ \/ Accepts(e) /\ UNCHANGED spent
     \/ Retries(e) /\ Fault(1)
  /\ UNCHANGED <<inboxVars, deviceVars, readiness, worker, projected>>

\* The spool is full, or the database fails.
AcceptFails(e) ==
  /\ e \in Open
  /\ IF ~Remembered(e) /\ ~HasRoom THEN UNCHANGED spent ELSE Fault(1)
  /\ Retries(e)
  /\ UNCHANGED readiness
  /\ ConsumerOnly

\* The event is malformed, or its session is not allowed here.
Poison(e) ==
  /\ e \in Open /\ ~Remembered(e)
  /\ consumer' = [consumer EXCEPT !.dead = @ \cup {e}]
  /\ UNCHANGED <<readiness, spent>>
  /\ ConsumerOnly

Again == IF consumer.recovering THEN "drain" ELSE "poll"

Refused == consumer.retry \cup consumer.dead

\* Outside the fence the request is denied, or changes nothing.
AckBatch ==
  /\ consumer.phase = "batch" /\ Open = {} /\ consumer.accepted # {}
  /\ Acknowledge(consumer.accepted, consumer.gen)
  /\ \/ /\ consumer' = [consumer EXCEPT !.accepted = {}, !.batch = Refused,
                                        !.phase = IF Refused = {} THEN Again ELSE @]
        /\ UNCHANGED spent
     \/ Fails /\ Fault(1)
  /\ UNCHANGED <<deviceVars, readiness, spoolVars, taken>>

NackBatch ==
  /\ consumer.phase = "batch" /\ Open = {} /\ consumer.accepted = {}
  /\ LET rows == Acknowledges(Refused, consumer.gen) IN
       inbox' = [e \in Events |-> IF e \in rows THEN NackedRow(inbox[e], e \in consumer.dead)
                                  ELSE inbox[e]]
  /\ \/ /\ consumer' = [consumer EXCEPT !.retry = {}, !.dead = {}, !.batch = {},
                                        !.phase = Again]
        /\ UNCHANGED spent
     \/ Fails /\ Fault(1)
  /\ UNCHANGED <<receipts, sequence, stored, deviceVars, readiness, spoolVars, taken>>

Consume ==
  \/ RequestFails \/ Authorised \/ Capture \/ Count \/ MarkReady \/ MarkDegraded
  \/ ClaimNothing \/ Claim \/ AckBatch \/ NackBatch
  \/ \E e \in Events : AcceptDuplicate(e) \/ AcceptNew(e) \/ AcceptFails(e) \/ Poison(e)

-----------------------------------------------------------------------------
(* The spool: workers, their leases, retention.                            *)

SpoolOnly == UNCHANGED <<inboxVars, deviceVars, consumer, readiness, taken>>

Holds(w, e) == /\ spool[e].state = "PROCESSING"
               /\ spool[e].lease = [holder |-> w, live |-> TRUE]

WorkerClaim(w, e) ==
  /\ worker[w] = {}
  /\ spool[e].state \in {"PENDING", "RETRY"} /\ spool[e].tries < MaxAttempts
  /\ spool' = [spool EXCEPT ![e] = [state |-> "PROCESSING", tries |-> @.tries + 1,
                                    lease |-> [holder |-> w, live |-> TRUE]]]
  /\ worker' = [worker EXCEPT ![w] = {e}]
  /\ UNCHANGED <<used, projected, spent>>
  /\ SpoolOnly

Processed(e, compact) ==
  /\ spool' = [spool EXCEPT ![e] = [Forgotten EXCEPT
                 !.state = IF compact THEN "RECEIPT" ELSE "PROCESSED"]]
  /\ used' = used - 1
  /\ projected' = [projected EXCEPT ![e] = @ + 1]

\* Projection and completion are one transaction, which locks the row under
\* its lease first; a worker without the lease leaves the event alone.
Project(w, e) ==
  /\ worker[w] = {e}
  /\ IF Holds(w, e) THEN \E compact \in Compaction : Processed(e, compact)
     ELSE UNCHANGED <<spool, used, projected>>
  /\ worker' = [worker EXCEPT ![w] = {}]
  /\ UNCHANGED spent
  /\ SpoolOnly

\* Variant: the lease is not given back.
AttemptedLocked(row) ==
  [row EXCEPT !.state = IF row.tries >= MaxAttempts THEN "DEAD" ELSE "RETRY"]

\* Variant: an attempt too many is left for a claim that refuses it.
AttemptedOnceMore(row) ==
  [row EXCEPT !.lease = Unlocked, !.state = IF row.tries > MaxAttempts THEN "DEAD" ELSE "RETRY"]

Attempted(row) ==
  [row EXCEPT !.lease = Unlocked, !.state = IF row.tries >= MaxAttempts THEN "DEAD" ELSE "RETRY"]

ProjectFails(w, e) ==
  /\ worker[w] = {e}
  /\ spool' = IF Holds(w, e) THEN [spool EXCEPT ![e] = Attempted(@)] ELSE spool
  /\ worker' = [worker EXCEPT ![w] = {}]
  /\ UNCHANGED <<used, projected, spent>>
  /\ SpoolOnly

WorkerStops(w) ==
  /\ worker[w] # {}
  /\ worker' = [worker EXCEPT ![w] = {}]
  /\ Fault(1)
  /\ UNCHANGED <<spool, used, projected>>
  /\ SpoolOnly

SpoolLeaseExpires(e) ==
  /\ spool[e].lease.live
  /\ spool' = [spool EXCEPT ![e].lease.live = FALSE]
  /\ UNCHANGED <<used, worker, projected, spent>>
  /\ SpoolOnly

Overdue(e) == spool[e].state = "PROCESSING" /\ ~spool[e].lease.live

RecoverProcessing ==
  /\ \E e \in Events : Overdue(e)
  /\ spool' = [e \in Events |-> IF Overdue(e) THEN Attempted(spool[e]) ELSE spool[e]]
  /\ UNCHANGED <<used, worker, projected, spent>>
  /\ SpoolOnly

Compact(e) ==
  /\ TRUE \in Compaction /\ spool[e].state = "PROCESSED"
  /\ spool' = [spool EXCEPT ![e].state = "RECEIPT"]
  /\ UNCHANGED <<used, worker, projected, spent>>
  /\ SpoolOnly

\* Retention ends: the event is not known any more.
Forget(e) ==
  /\ spool[e].state \in {"PROCESSED", "RECEIPT"}
  /\ spool' = [spool EXCEPT ![e] = Forgotten]
  /\ projected' = [projected EXCEPT ![e] = 0]
  /\ UNCHANGED <<used, worker, spent>>
  /\ SpoolOnly

-----------------------------------------------------------------------------
Work(w) == \E e \in Events : Project(w, e) \/ ProjectFails(w, e)

Next ==
  \/ RemoveExpired \/ Pair \/ RivalPairs \/ Revoke \/ TokenExpires \/ CleanupInactive
  \/ Start \/ Stop \/ Consume \/ RecoverProcessing
  \/ \E e \in Events :
       \/ Insert(e) \/ Expire(e) \/ ReceiptExpires(e) \/ LeaseExpires(e) \/ Available(e)
       \/ RivalClaims(e) \/ RivalAcks(e)
       \/ SpoolLeaseExpires(e) \/ Compact(e) \/ Forget(e)
  \/ \E w \in Workers : WorkerStops(w) \/ Work(w) \/ \E e \in Events : WorkerClaim(w, e)

Spec == Init /\ [][Next]_vars

Fairness ==
  /\ WF_vars(Start) /\ WF_vars(Consume)
  /\ WF_vars(RecoverProcessing)
  /\ \A e \in Events :
       /\ WF_vars(Available(e))
       /\ WF_vars(e \notin consumer.batch /\ LeaseExpires(e))
       /\ WF_vars(spool[e].lease.holder # Nobody /\ worker[spool[e].lease.holder] # {e}
                    /\ SpoolLeaseExpires(e))
       /\ WF_vars(\E w \in Workers : WorkerClaim(w, e))
  /\ \A w \in Workers : WF_vars(Work(w))

FairSpec == Spec /\ Fairness

-----------------------------------------------------------------------------
(* Properties.                                                             *)

\* Rows, leases, ledgers and the two loops are well formed.
TypeOK ==
  /\ inbox \in [Events -> [state : {"none", "stored", "dead"}, sequence : 0 .. MaxSequence,
                           lease : [by : Claimants, live : BOOLEAN], tries : 0 .. MaxDeliveries,
                           waiting : BOOLEAN, expired : BOOLEAN]]
  /\ receipts \subseteq Events /\ sequence \in 0 .. MaxSequence
  /\ device \in [gen : 0 .. MaxGenerations, active : BOOLEAN] /\ owner \in Claimants
  /\ consumer \in [phase : {"off", "recover", "capture", "drain", "recheck", "count", "ready",
                            "poll", "batch", "failed"},
                   gen : 0 .. MaxGenerations, recovering : BOOLEAN, mark : 0 .. MaxSequence,
                   batch : SUBSET Events, accepted : SUBSET Events, retry : SUBSET Events,
                   dead : SUBSET Events]
  /\ readiness \in [state : {"RECOVERING", "READY", "DEGRADED"}, mark : 0 .. MaxSequence]
  /\ spool \in [Events -> [state : {"none", "PENDING", "RETRY", "PROCESSING", "PROCESSED",
                                    "DEAD", "RECEIPT"},
                           tries : 0 .. MaxAttempts,
                           lease : [holder : Workers \cup {Nobody}, live : BOOLEAN]]]
  /\ \A e \in Events : /\ inbox[e].state # "stored" => inbox[e].lease = NoLease
                       /\ spool[e].state = "PROCESSING" <=> spool[e].lease.holder # Nobody
  /\ worker \in [Workers -> SUBSET Events] /\ \A w \in Workers : Cardinality(worker[w]) <= 1

\* Both usage ledgers count exactly the rows they stand for, dead ones included, and
\* stay within their limits, so admission neither starves nor overfills, and no release
\* underflows (insert, acknowledge, removeExpired, markProcessedInTransaction).
LedgersMatch ==
  /\ stored = Cardinality({e \in Events : inbox[e].state # "none"})
  /\ used = Cardinality({e \in Events : spool[e].state \in {"PENDING", "RETRY", "PROCESSING", "DEAD"}})
  /\ stored <= InboxCapacity /\ used <= SpoolCapacity

\* An event leaves the inbox by acknowledgement only once the device that owns the
\* session then has it durably: a receipt from before a crash, an expired lease or another
\* pairing never removes a row its present owner still needs (acknowledge, pair, revoke).
AckedByOwner ==
  [][\A e \in Events :
       e \in receipts' \ receipts =>
         e \in (IF owner = Rival THEN taken.rival ELSE taken.runtime)]_vars

\* While the Runtime says it has recovered up to a watermark and still owns the session, no
\* event up to it waits in the inbox, whatever was leased, refused, backed off or interrupted
\* during the recovery (recover, recovery, markReady, markDegraded).
ReadyMeansCaughtUp ==
  readiness.state = "READY" /\ Fenced(consumer.gen) =>
    \A e \in Events : Live(e) => inbox[e].sequence > readiness.mark

\* As long as the Runtime remembers an event, its projection is committed at most once, by
\* whatever worker, through redelivery, expired leases and compaction (process).
ProjectedOnce == \A e \in Events : projected[e] <= 1

\* A spooled event is processed or dead in the end (claimForProcessing, markFailed,
\* recoverExpiredProcessing).
SpoolSettles ==
  \A e \in Events : spool[e].state \in {"PENDING", "RETRY", "PROCESSING"}
                      ~> spool[e].state \notin {"PENDING", "RETRY", "PROCESSING"}

\* A consumer that keeps its session becomes ready (recover).
RecoveryEnds ==
  readiness.state # "READY" /\ Fenced(consumer.gen)
    ~> readiness.state = "READY" \/ ~Fenced(consumer.gen)
=============================================================================
