------------------------ MODULE MessageDispatch_proofs ------------------------
(***************************************************************************)
(* Proofs about MessageDispatch, for any sets of jobs, workers and tokens  *)
(* and any retry limit, the overlooked row locks included:                 *)
(*   - TypeOK, OneMessage, OneActiveJob and AcceptedSent are invariants;   *)
(*   - no step revives a job that has ended.                               *)
(* Most actions only move rows and workers without touching the start of a *)
(* send (Harmless); claiming, starting and writing a result are treated    *)
(* one by one.                                                             *)
(***************************************************************************)
EXTENDS MessageDispatch, TLAPS

USE NullsAssumption, KindsAssumption, RetryAssumption

-----------------------------------------------------------------------------
(* The inductive invariant.                                                *)

Flying(w) == worker[w].pc \in {"posting", "answered"}
Refused(w) == worker[w].pc = "answered" /\ worker[w].answer \in {"SAFE", "DEFINITIVE"}
Confirmed(w) == worker[w].pc = "answered" /\ worker[w].answer = "ACCEPTED"
Sent == wire \cup effects

\* A job whose send has not started has an attempt left.
AttemptsLeft == \A j \in Jobs : ~job[j].started => job[j].attempts < MaxSafeAttempts
\* A worker waiting for OpenWA holds the attempt its job is at.
FlightStarted ==
    \A w \in Workers : Flying(w) =>
        /\ job[worker[w].job].started
        /\ worker[w].attempt = job[worker[w].job].attempts
\* Two workers do not wait for the answer to one job.
OneFlight ==
    \A v, w \in Workers : (Flying(v) /\ Flying(w) /\ worker[v].job = worker[w].job) => v = w
\* What was sent or may be belongs to the attempt its job is at.
SentCurrent == \A p \in Sent : job[p[1]].started /\ p[2] = job[p[1]].attempts
\* A request OpenWA refused is not sent, and one it accepted is.
RefusedUnsent == \A w \in Workers : Refused(w) => Request(w) \notin Sent
ConfirmedSent == \A w \in Workers : Confirmed(w) => Request(w) \in effects
\* A request takes effect once.
OnceOnly == wire \cap effects = {}

Inv ==
    /\ TypeOK
    /\ AttemptsLeft /\ FlightStarted /\ OneFlight
    /\ SentCurrent /\ RefusedUnsent /\ ConfirmedSent /\ OnceOnly
    /\ OneActiveJob /\ AcceptedSent

\* EndedStays, of one step.
EndedKept == \A j \in Jobs : Ended(j) => job'[j].status = job[j].status

-----------------------------------------------------------------------------
(* Rows.                                                                   *)

ActiveStatus == {"QUEUED", "PROCESSING"}
OpenStatus == {"SCHEDULED", "QUEUED", "PROCESSING"}

\* A row keeps its start and its attempts, is not brought to be processed, and not revived.
RowKept(old, new) ==
    /\ new \in JobRecord
    /\ new.started = old.started /\ new.attempts = old.attempts
    /\ new.status \in ActiveStatus => old.status \in ActiveStatus
    /\ old.status \notin OpenStatus => new.status = old.status
    /\ new.status = "ACCEPTED" => old.status = "ACCEPTED"

\* A row that is not written.
LEMMA SameRow ==
    ASSUME NEW row \in JobRecord
    PROVE  RowKept(row, row)
  BY DEF RowKept

\* An open row gets another status than ACCEPTED, and is not brought to be processed.
LEMMA StatusSet ==
    ASSUME NEW row \in JobRecord, NEW status \in JobStatus,
           status \in ActiveStatus => row.status \in ActiveStatus,
           row.status \in OpenStatus, status # "ACCEPTED"
    PROVE  RowKept(row, [row EXCEPT !.status = status])
  BY DEF RowKept, JobRecord

\* A row gets another lease.
LEMMA LeaseSet ==
    ASSUME NEW row \in JobRecord, NEW lease \in {"none", "live", "expired"}
    PROVE  RowKept(row, [row EXCEPT !.lease = lease])
  BY DEF RowKept, JobRecord

\* A row gets another permit.
LEMMA TokenSet ==
    ASSUME NEW row \in JobRecord, NEW t \in Tokens \cup {NoToken}
    PROVE  RowKept(row, [row EXCEPT !.token = t])
  BY DEF RowKept, JobRecord

\* The cancellation of a row is requested.
LEMMA CancelSet ==
    ASSUME NEW row \in JobRecord, NEW c \in BOOLEAN
    PROVE  RowKept(row, [row EXCEPT !.cancel = c])
  BY DEF RowKept, JobRecord

\* Writes to a row compose.
LEMMA KeptTwice ==
    ASSUME NEW a, NEW b, NEW c, RowKept(a, b), RowKept(b, c)
    PROVE  RowKept(a, c)
  BY DEF RowKept, ActiveStatus, OpenStatus

\* A row that is open is put back to SCHEDULED or, from there, to any other end than ACCEPTED.
LEMMA ReopenedRow ==
    ASSUME NEW row \in JobRecord, row.status \in OpenStatus
    PROVE  RowKept(row, Reopened(row)) /\ Reopened(row).status = "SCHEDULED"
  <1> DEFINE r1 == [row EXCEPT !.status = "SCHEDULED"]
             r2 == [r1 EXCEPT !.lease = "none"]
             r3 == [r2 EXCEPT !.token = NoToken]
  <1>1. RowKept(row, r1) /\ r1 \in JobRecord /\ r1.status = "SCHEDULED"
    BY StatusSet DEF ActiveStatus, JobStatus, RowKept, JobRecord
  <1> HIDE DEF r1
  <1>2. RowKept(r1, r2) /\ r2 \in JobRecord /\ r2.status = "SCHEDULED"
    BY <1>1, LeaseSet DEF RowKept, JobRecord
  <1> HIDE DEF r2
  <1>3. RowKept(r2, r3) /\ r3 \in JobRecord /\ r3.status = "SCHEDULED"
    BY <1>2, TokenSet DEF RowKept, JobRecord
  <1>4. r3 = Reopened(row)
    BY Zenon DEF r1, r2, r3, Reopened
  <1> HIDE DEF r3
  <1>5. RowKept(row, r3)
    BY <1>1, <1>2, <1>3, KeptTwice
  <1> QED
    BY <1>3, <1>4, <1>5

\* The end of a row that is PROCESSING.
LEMMA EndedRow ==
    ASSUME NEW row \in JobRecord, NEW status \in JobStatus \ OpenStatus, row.status = "PROCESSING",
           status # "ACCEPTED"
    PROVE  RowKept(row, [row EXCEPT !.status = status, !.lease = "none"])
  <1> DEFINE r1 == [row EXCEPT !.status = status]
             r2 == [r1 EXCEPT !.lease = "none"]
  <1>1. RowKept(row, r1) /\ r1 \in JobRecord
    BY StatusSet DEF ActiveStatus, OpenStatus, RowKept
  <1> HIDE DEF r1
  <1>2. RowKept(r1, r2)
    BY <1>1, LeaseSet
  <1>3. r2 = [row EXCEPT !.status = status, !.lease = "none"]
    BY Zenon DEF r1, r2
  <1> QED
    BY <1>1, <1>2, <1>3, KeptTwice

-----------------------------------------------------------------------------
(* Steps that leave the start of a send alone.                             *)

JobsKept == job' \in [Jobs -> JobRecord] /\ \A j \in Jobs : RowKept(job[j], job'[j])

WorkersTyped ==
    /\ worker' \in [Workers -> WorkerRecord]
    /\ \A w \in Workers : worker'[w].pc # "idle" => worker'[w].job \in Jobs

\* No worker comes to wait for an answer, and no answer is invented.
WorkersQuiet ==
    /\ WorkersTyped
    /\ \A w \in Workers : Flying(w)' =>
          /\ Flying(w) /\ Request(w)' = Request(w)
          /\ worker'[w].job = worker[w].job /\ worker'[w].attempt = worker[w].attempt
    /\ \A w \in Workers : Refused(w)' => (Refused(w) \/ Request(w) \notin Sent')
    /\ \A w \in Workers : Confirmed(w)' => (Confirmed(w) \/ Request(w) \in effects)

\* The rest of the state has its type.
RestTyped ==
    /\ queue' \in [Jobs -> QueueRecord]
    /\ publishing' \subseteq Jobs
    /\ lane' \in LaneRecord
    /\ run' \in {"RUNNING", "PAUSED", "CANCELLING", "CANCELLED"}
    /\ wire' \subseteq Jobs \X (1 .. MaxSafeAttempts)
    /\ effects' \subseteq Jobs \X (1 .. MaxSafeAttempts)

NothingSent == Sent' \subseteq Sent /\ effects \subseteq effects' /\ OnceOnly'

\* The job of a request.
LEMMA SentJobs ==
    ASSUME TypeOK, NEW p \in Sent
    PROVE  p[1] \in Jobs /\ p[2] \in 1 .. MaxSafeAttempts
  BY DEF TypeOK, Sent

\* The job of a worker that waits for an answer.
LEMMA FlyingJobs ==
    ASSUME TypeOK, NEW w \in Workers, Flying(w)
    PROVE  worker[w].job \in Jobs
  BY DEF TypeOK, Flying

\* The parts of the invariant about sends, when no job starts or is put back to its start.
LEMMA FlightKept ==
    ASSUME Inv, \A j \in Jobs : job'[j].started = job[j].started /\ job'[j].attempts = job[j].attempts,
           WorkersQuiet, NothingSent
    PROVE  /\ AttemptsLeft' /\ FlightStarted' /\ OneFlight'
           /\ SentCurrent' /\ RefusedUnsent' /\ ConfirmedSent' /\ OnceOnly'
  <1>1. AttemptsLeft'
    BY DEF Inv, AttemptsLeft
  <1>2. FlightStarted'
    <2> SUFFICES ASSUME NEW w \in Workers, Flying(w)'
                 PROVE  /\ job'[worker'[w].job].started
                        /\ worker'[w].attempt = job'[worker'[w].job].attempts
      BY DEF FlightStarted
    <2>1. /\ Flying(w) /\ worker'[w].job = worker[w].job /\ worker'[w].attempt = worker[w].attempt
          /\ worker[w].job \in Jobs
      BY FlyingJobs DEF WorkersQuiet, Inv
    <2> QED
      BY <2>1 DEF Inv, FlightStarted
  <1>3. OneFlight'
    BY DEF Inv, OneFlight, WorkersQuiet
  <1>4. SentCurrent'
    <2> SUFFICES ASSUME NEW p \in Sent'
                 PROVE  job'[p[1]].started /\ p[2] = job'[p[1]].attempts
      BY DEF SentCurrent
    <2>1. p \in Sent /\ p[1] \in Jobs
      BY SentJobs DEF NothingSent, Inv
    <2> QED
      BY <2>1 DEF Inv, SentCurrent
  <1>5. RefusedUnsent'
    <2> SUFFICES ASSUME NEW w \in Workers, Refused(w)'
                 PROVE  Request(w)' \notin Sent'
      BY DEF RefusedUnsent
    <2>1. Request(w)' = Request(w)
      BY DEF WorkersQuiet, Flying, Refused
    <2>2. CASE Refused(w)
      BY <2>1, <2>2 DEF Inv, RefusedUnsent, NothingSent
    <2>3. CASE Request(w) \notin Sent'
      BY <2>1, <2>3
    <2> QED
      BY <2>2, <2>3 DEF WorkersQuiet
  <1>6. ConfirmedSent'
    <2> SUFFICES ASSUME NEW w \in Workers, Confirmed(w)'
                 PROVE  Request(w)' \in effects'
      BY DEF ConfirmedSent
    <2>1. Request(w)' = Request(w)
      BY DEF WorkersQuiet, Flying, Confirmed
    <2>2. Request(w) \in effects
      BY DEF WorkersQuiet, Inv, ConfirmedSent
    <2> QED
      BY <2>1, <2>2 DEF NothingSent
  <1> QED
    BY <1>1, <1>2, <1>3, <1>4, <1>5, <1>6 DEF NothingSent

\* No job becomes active.
LEMMA ActiveKept ==
    ASSUME OneActiveJob, \A j \in Jobs : Active(j)' => Active(j)
    PROVE  OneActiveJob'
  BY DEF OneActiveJob, Live

\* No job becomes accepted.
LEMMA AcceptedKept ==
    ASSUME AcceptedSent, effects \subseteq effects',
           \A j \in Jobs : job'[j].status = "ACCEPTED" => job[j].status = "ACCEPTED"
    PROVE  AcceptedSent'
  BY DEF AcceptedSent

\* A step that starts, repeats, sends and accepts nothing keeps the invariant.
LEMMA Harmless ==
    ASSUME Inv, JobsKept, WorkersQuiet, RestTyped, NothingSent
    PROVE  Inv' /\ EndedKept
  <1>1. TypeOK'
    BY DEF TypeOK, JobsKept, WorkersQuiet, WorkersTyped, RestTyped
  <1>2. \A j \in Jobs : RowKept(job[j], job'[j])
    BY DEF JobsKept
  <1>3. /\ AttemptsLeft' /\ FlightStarted' /\ OneFlight'
        /\ SentCurrent' /\ RefusedUnsent' /\ ConfirmedSent' /\ OnceOnly'
    BY <1>2, FlightKept DEF RowKept
  <1>4. OneActiveJob'
    BY <1>2, ActiveKept DEF Inv, Active, RowKept, ActiveStatus
  <1>5. AcceptedSent'
    BY <1>2, AcceptedKept DEF Inv, RowKept, NothingSent
  <1>6. EndedKept
    BY <1>2 DEF EndedKept, Ended, RowKept, OpenStatus
  <1> QED
    BY <1>1, <1>3, <1>4, <1>5, <1>6 DEF Inv

\* What a step that does not touch the requests has to show of them.
LEMMA NoSend ==
    ASSUME Inv, UNCHANGED <<wire, effects>>
    PROVE  NothingSent /\ Sent' = Sent
  BY DEF NothingSent, Sent, OnceOnly, Inv

\* Nothing is written to the jobs.
LEMMA NoWrite ==
    ASSUME TypeOK, job' = job
    PROVE  JobsKept
  BY SameRow DEF JobsKept, TypeOK

\* One row is written.
LEMMA OneWrite ==
    ASSUME TypeOK, NEW j \in Jobs, NEW row, RowKept(job[j], row), job' = [job EXCEPT ![j] = row]
    PROVE  JobsKept
  <1>1. job \in [Jobs -> JobRecord] /\ row \in JobRecord
    BY DEF TypeOK, RowKept
  <1>2. \A i \in Jobs : RowKept(job[i], job[i])
    BY <1>1, SameRow
  <1> QED
    BY <1>1, <1>2 DEF JobsKept

\* No worker moves.
LEMMA NoMove ==
    ASSUME TypeOK, worker' = worker
    PROVE  WorkersQuiet
  BY DEF TypeOK, WorkersQuiet, WorkersTyped, Flying, Refused, Confirmed, Request

\* One worker moves to where it does not wait for an answer.
LEMMA OneMove ==
    ASSUME TypeOK, NEW w \in Workers, NEW r \in WorkerRecord, worker' = [worker EXCEPT ![w] = r],
           r.pc \notin {"posting", "answered"}, r.pc # "idle" => r.job \in Jobs
    PROVE  WorkersQuiet
  <1>1. /\ worker' \in [Workers -> WorkerRecord] /\ worker'[w] = r
        /\ \A v \in Workers : v # w => worker'[v] = worker[v]
    BY DEF TypeOK
  <1>2. WorkersTyped
    BY <1>1 DEF WorkersTyped, TypeOK
  <1>3. \A v \in Workers : Flying(v)' => worker'[v] = worker[v]
    BY <1>1 DEF Flying
  <1> QED
    BY <1>2, <1>3 DEF WorkersQuiet, Flying, Refused, Confirmed, Request

\* Rows and workers.
LEMMA Elements ==
    ASSUME TypeOK
    PROVE  /\ \A j \in Jobs : job[j] \in JobRecord
           /\ \A w \in Workers : worker[w] \in WorkerRecord
           /\ \A w \in Workers : worker[w].pc # "idle" => worker[w].job \in Jobs
  BY DEF TypeOK

\* What stays as it is has its type.
LEMMA RestSame ==
    ASSUME TypeOK
    PROVE  /\ queue \in [Jobs -> QueueRecord] /\ publishing \subseteq Jobs /\ lane \in LaneRecord
           /\ run \in {"RUNNING", "PAUSED", "CANCELLING", "CANCELLED"}
           /\ wire \subseteq Jobs \X (1 .. MaxSafeAttempts)
           /\ effects \subseteq Jobs \X (1 .. MaxSafeAttempts)
  BY DEF TypeOK

\* A worker goes on to a point at which it does not wait for an answer.
LEMMA GoneOn ==
    ASSUME TypeOK, NEW w \in Workers, worker[w].pc # "idle",
           NEW pc \in Phase \ {"idle", "posting", "answered"}, Goto(w, pc)
    PROVE  WorkersQuiet
  <1> DEFINE r == [worker[w] EXCEPT !.pc = pc]
  <1>1. worker[w] \in WorkerRecord /\ worker[w].job \in Jobs
    BY Elements
  <1>2. r \in WorkerRecord /\ r.pc = pc /\ r.job = worker[w].job
    BY <1>1 DEF WorkerRecord
  <1>3. worker' = [worker EXCEPT ![w] = r]
    BY DEF Goto
  <1> HIDE DEF r
  <1> QED
    BY <1>1, <1>2, <1>3, OneMove

\* A worker lets go of its row.
LEMMA GoneIdle ==
    ASSUME TypeOK, NEW w \in Workers, worker' = [worker EXCEPT ![w] = Idle]
    PROVE  WorkersQuiet
  <1>1. Idle \in WorkerRecord /\ Idle.pc = "idle"
    BY DEF Idle, WorkerRecord, Phase
  <1> QED
    BY <1>1, OneMove

\* The queue row publish() inserts.
LEMMA FreshRow ==
    NoRow \in QueueRecord /\ [NoRow EXCEPT !.present = TRUE] \in QueueRecord
  BY DEF NoRow, QueueRecord

\* updateResult(), of anything but an acceptance
LEMMA UpdatedRow ==
    ASSUME TypeOK, NEW j \in Jobs, NEW status \in JobStatus \ OpenStatus, status # "ACCEPTED"
    PROVE  RowKept(job[j], Updated(j, status))
  BY Elements, SameRow, EndedRow DEF Updated

\* releaseWithClient()
LEMMA Released ==
    ASSUME TypeOK, NEW t \in Tokens \cup {NoToken}
    PROVE  /\ ReleasedLane(t) \in LaneRecord
           /\ \A j \in Jobs : RowKept(job[j], ReleasedRow(job[j], t))
  <1>1. ReleasedLane(t) \in LaneRecord
    BY RestSame DEF ReleasedLane, LaneRecord, NoLane
  <1>2. \A j \in Jobs : RowKept(job[j], ReleasedRow(job[j], t))
    BY Elements, SameRow, TokenSet DEF ReleasedRow
  <1> QED
    BY <1>1, <1>2

-----------------------------------------------------------------------------
(* The tick and time.                                                      *)

\* claimDue()
LEMMA ClaimDueKeeps ==
    ASSUME Inv, NEW claimed \in SUBSET Jobs, ClaimDue(claimed)
    PROVE  Inv' /\ EndedKept
  <1> DEFINE queued(j) == [job[j] EXCEPT !.status = "QUEUED"]
  <1>1. TypeOK /\ \A j \in Jobs : job[j] \in JobRecord
    BY Elements DEF Inv
  <1>2. \A j \in Jobs : /\ queued(j) \in JobRecord /\ queued(j).status = "QUEUED"
                        /\ queued(j).started = job[j].started /\ queued(j).attempts = job[j].attempts
    BY <1>1 DEF JobRecord, JobStatus
  <1>3. \A j \in Jobs : job'[j] = IF j \in claimed THEN queued(j) ELSE job[j]
    BY DEF ClaimDue
  <1>4. job' \in [Jobs -> JobRecord]
    BY <1>1, <1>2 DEF ClaimDue
  <1>5. \A j \in claimed : job[j].status = "SCHEDULED"
    BY DEF ClaimDue
  <1> HIDE DEF queued
  <1>6. TypeOK'
    BY <1>1, <1>4 DEF TypeOK, ClaimDue
  <1>7. \A j \in Jobs : job'[j].started = job[j].started /\ job'[j].attempts = job[j].attempts
    BY <1>2, <1>3
  <1>8. WorkersQuiet /\ NothingSent
    BY <1>1, NoMove, NoSend DEF ClaimDue
  <1>9. OneActiveJob'
    <2> SUFFICES ASSUME NEW i \in Live, NEW k \in Live, Active(i)', Active(k)'
                 PROVE  i = k
      BY DEF OneActiveJob, Live
    <2>1. i \in Jobs /\ k \in Jobs
      BY DEF Live
    <2>2. CASE claimed \cap Live = {}
      BY <2>1, <2>2, <1>3 DEF Active, Inv, OneActiveJob
    <2>3. CASE claimed \cap Live # {}
      <3>1. \A j \in Live : ~Active(j)
        BY <2>3 DEF ClaimDue, LaneOpen
      <3>2. i \in claimed /\ k \in claimed
        BY <3>1, <2>1, <1>3 DEF Active
      <3> QED
        BY <3>2 DEF ClaimDue
    <2> QED
      BY <2>2, <2>3
  <1>10. AcceptedSent'
    BY <1>2, <1>3, AcceptedKept DEF Inv, ClaimDue
  <1>11. EndedKept
    BY <1>3, <1>5 DEF EndedKept, Ended
  <1> QED
    BY <1>6, <1>7, <1>8, <1>9, <1>10, <1>11, FlightKept DEF Inv

\* The scheduler tick.
LEMMA TickKeeps ==
    ASSUME Inv, TickStep
    PROVE  Inv' /\ EndedKept
  <1>1. TypeOK /\ (\A j \in Jobs : job[j] \in JobRecord)
    BY Elements DEF Inv
  <1>2. ASSUME NEW j \in Jobs, RecoverStaleQueued(j) PROVE Inv' /\ EndedKept
    <2>1. RowKept(job[j], [job[j] EXCEPT !.status = "SCHEDULED"])
      BY <1>1, <1>2, StatusSet DEF RecoverStaleQueued, StaleQueued, ActiveStatus, OpenStatus, JobStatus
    <2>2. job' = [job EXCEPT ![j] = [job[j] EXCEPT !.status = "SCHEDULED"]]
      BY <1>2 DEF RecoverStaleQueued
    <2>3. JobsKept
      BY <1>1, <2>1, <2>2, OneWrite
    <2> QED
      BY <1>1, <1>2, <2>3, NoMove, NoSend, RestSame, Harmless DEF RecoverStaleQueued, RestTyped
  <1>3. ASSUME NEW j \in Jobs, RecoverExpired(j) PROVE Inv' /\ EndedKept
    <2>1. RowKept(job[j], Reopened(job[j]))
      BY <1>1, <1>3, ReopenedRow DEF RecoverExpired, Unstarted, OpenStatus
    <2>2. JobsKept
      BY <1>1, <1>3, <2>1, OneWrite DEF RecoverExpired
    <2> QED
      BY <1>1, <1>3, <2>2, NoMove, NoSend, RestSame, Harmless DEF RecoverExpired, RestTyped
  <1>4. ASSUME NEW j \in Jobs, MarkExpiredUnknown(j) PROVE Inv' /\ EndedKept
    <2>1. RowKept(job[j], Reopened(job[j])) /\ Reopened(job[j]).status = "SCHEDULED"
      BY <1>1, <1>4, ReopenedRow DEF MarkExpiredUnknown, OpenStatus
    <2>2. RowKept(Reopened(job[j]), [Reopened(job[j]) EXCEPT !.status = "UNKNOWN"])
      BY <2>1, StatusSet DEF RowKept, ActiveStatus, OpenStatus, JobStatus
    <2>3. RowKept(job[j], [Reopened(job[j]) EXCEPT !.status = "UNKNOWN"])
      BY <2>1, <2>2, KeptTwice
    <2>4. JobsKept
      BY <1>1, <1>4, <2>3, OneWrite DEF MarkExpiredUnknown
    <2> QED
      BY <1>1, <1>4, <2>4, NoMove, NoSend, RestSame, Harmless DEF MarkExpiredUnknown, RestTyped
  <1>5. ASSUME NEW j \in Jobs, Publish(j) PROVE Inv' /\ EndedKept
    <2>1. RestTyped
      BY <1>1, <1>5, FreshRow, RestSame DEF Publish, RestTyped
    <2> QED
      BY <1>1, <1>5, <2>1, NoMove, NoSend, NoWrite, Harmless DEF Publish
  <1>6. ASSUME NEW j \in Jobs, PublishFails(j) PROVE Inv' /\ EndedKept
    <2> DEFINE status == IF job[j].status = "QUEUED" THEN "SCHEDULED" ELSE job[j].status
    <2>1. RowKept(job[j], [job[j] EXCEPT !.status = status])
      <3>1. CASE job[j].status = "QUEUED"
        BY <1>1, <3>1, StatusSet DEF ActiveStatus, OpenStatus, JobStatus
      <3>2. CASE job[j].status # "QUEUED"
        BY <1>1, <3>2, SameRow DEF JobRecord
      <3> QED
        BY <3>1, <3>2
    <2>2. job' = [job EXCEPT ![j] = [job[j] EXCEPT !.status = status]]
      BY <1>6 DEF PublishFails
    <2> HIDE DEF status
    <2>3. JobsKept
      BY <1>1, <2>1, <2>2, OneWrite
    <2>4. RestTyped
      BY <1>1, <1>6, RestSame DEF PublishFails, RestTyped
    <2> QED
      BY <1>1, <1>6, <2>3, <2>4, NoMove, NoSend, Harmless DEF PublishFails
  <1>7. CASE SchedulerStops
    <2>1. RestTyped
      BY <1>1, <1>7, RestSame DEF SchedulerStops, RestTyped
    <2> QED
      BY <1>1, <1>7, <2>1, NoMove, NoSend, NoWrite, Harmless DEF SchedulerStops
  <1> QED
    BY <1>2, <1>3, <1>4, <1>5, <1>6, <1>7, ClaimDueKeeps DEF TickStep

\* Leases run out.
LEMMA TimeKeeps ==
    ASSUME Inv, TimeStep
    PROVE  Inv' /\ EndedKept
  <1>1. TypeOK /\ (\A j \in Jobs : job[j] \in JobRecord)
    BY Elements DEF Inv
  <1>2. ASSUME NEW j \in Jobs, QueueLeaseExpires(j) PROVE Inv' /\ EndedKept
    <2>1. RestTyped
      BY <1>1, <1>2, RestSame DEF QueueLeaseExpires, RestTyped, QueueRecord
    <2> QED
      BY <1>1, <1>2, <2>1, NoMove, NoSend, NoWrite, Harmless DEF QueueLeaseExpires
  <1>3. ASSUME NEW j \in Jobs, LeaseExpires(j) PROVE Inv' /\ EndedKept
    <2>1. job' = [job EXCEPT ![j] = [job[j] EXCEPT !.lease = "expired"]]
      BY <1>3 DEF LeaseExpires
    <2>2. RowKept(job[j], [job[j] EXCEPT !.lease = "expired"])
      BY <1>1, LeaseSet
    <2>3. JobsKept
      BY <1>1, <2>1, <2>2, OneWrite
    <2> QED
      BY <1>1, <1>3, <2>3, NoMove, NoSend, RestSame, Harmless DEF LeaseExpires, RestTyped
  <1>4. CASE LaneExpires
    <2>1. RestTyped
      BY <1>1, <1>4, RestSame DEF LaneExpires, RestTyped, LaneRecord
    <2> QED
      BY <1>1, <1>4, <2>1, NoMove, NoSend, NoWrite, Harmless DEF LaneExpires
  <1> QED
    BY <1>2, <1>3, <1>4 DEF TimeStep

-----------------------------------------------------------------------------
(* The queue.                                                              *)

\* The queue transport, and the end of a process.
LEMMA QueueStepKeeps ==
    ASSUME Inv, NEW w \in Workers,
           \/ \E j \in Jobs : QueueClaim(w, j)
           \/ Renew(w) \/ QueueRelease(w) \/ Complete(w) \/ Crash(w)
    PROVE  Inv' /\ EndedKept
  <1>1. TypeOK /\ worker[w] \in WorkerRecord /\ (worker[w].pc # "idle" => worker[w].job \in Jobs)
    BY Elements DEF Inv
  <1>2. ASSUME NEW j \in Jobs, QueueClaim(w, j) PROVE Inv' /\ EndedKept
    <2> DEFINE r1 == [worker[w] EXCEPT !.pc = "claimed"]
               r2 == [r1 EXCEPT !.job = j]
    <2>1. r1 \in WorkerRecord /\ r1.pc = "claimed"
      BY <1>1 DEF WorkerRecord, Phase
    <2> HIDE DEF r1
    <2>2. r2 \in WorkerRecord /\ r2.pc = "claimed" /\ r2.job = j
      BY <2>1 DEF WorkerRecord
    <2>3. worker' = [worker EXCEPT ![w] = r2]
      BY <1>2, Zenon DEF QueueClaim, r1, r2
    <2> HIDE DEF r2
    <2>4. WorkersQuiet
      BY <1>1, <2>2, <2>3, OneMove
    <2> DEFINE q1 == [queue EXCEPT ![j].owner = w]
               q2 == [q1 EXCEPT ![j].live = TRUE]
    <2>5. q1 \in [Jobs -> QueueRecord]
      BY <1>1, RestSame DEF QueueRecord
    <2> HIDE DEF q1
    <2>6. q2 \in [Jobs -> QueueRecord]
      BY <2>5 DEF QueueRecord
    <2>7. queue' = q2
      BY <1>2, Zenon DEF QueueClaim, q1, q2
    <2> HIDE DEF q2
    <2>8. RestTyped
      BY <1>1, <1>2, <2>6, <2>7, RestSame DEF QueueClaim, RestTyped
    <2> QED
      BY <1>1, <1>2, <2>4, <2>8, NoSend, NoWrite, Harmless DEF QueueClaim
  <1>3. CASE Renew(w)
    <2>1. RestTyped
      BY <1>1, <1>3, RestSame DEF Renew, RestTyped, QueueRecord
    <2> QED
      BY <1>1, <1>3, <2>1, NoMove, NoSend, NoWrite, Harmless DEF Renew
  <1>4. CASE QueueRelease(w)
    <2>1. RestTyped
      BY <1>1, <1>4, FreshRow, RestSame DEF QueueRelease, RestTyped
    <2> QED
      BY <1>1, <1>4, <2>1, GoneIdle, NoSend, NoWrite, Harmless DEF QueueRelease
  <1>5. CASE Complete(w)
    <2>1. RestTyped
      BY <1>1, <1>5, FreshRow, RestSame DEF Complete, RestTyped
    <2> QED
      BY <1>1, <1>5, <2>1, GoneIdle, NoSend, NoWrite, Harmless DEF Complete
  <1>6. CASE Crash(w)
    BY <1>1, <1>6, RestSame, GoneIdle, NoSend, NoWrite, Harmless DEF Crash, RestTyped
  <1> QED
    BY <1>2, <1>3, <1>4, <1>5, <1>6

-----------------------------------------------------------------------------
(* A worker before the commit fence.                                       *)

\* process(), up to the commit fence.
LEMMA PrepareStepKeeps ==
    ASSUME Inv, NEW w \in Workers,
           \/ MarkProcessing(w) \/ DryRun(w) \/ Fail(w) \/ SkipLostLease(w) \/ Defer(w)
           \/ CommitRejected(w)
    PROVE  Inv' /\ EndedKept
  <1>1. /\ TypeOK /\ worker[w] \in WorkerRecord /\ (worker[w].pc # "idle" => worker[w].job \in Jobs)
        /\ \A j \in Jobs : job[j] \in JobRecord
    BY Elements DEF Inv
  <1>2. CASE MarkProcessing(w)
    <2> DEFINE j == worker[w].job
               r1 == [job[j] EXCEPT !.status = "PROCESSING"]
               r2 == [r1 EXCEPT !.lease = "live"]
    <2>1. j \in Jobs /\ WorkersQuiet
      BY <1>1, <1>2, GoneOn DEF MarkProcessing, Phase
    <2>2. CASE job' = job
      BY <1>1, <1>2, <2>1, <2>2, RestSame, NoSend, NoWrite, Harmless DEF MarkProcessing, RestTyped
    <2>3. CASE /\ job[j].status = "QUEUED"
               /\ job' = [job EXCEPT ![j].status = "PROCESSING", ![j].lease = "live"]
      <3>1. RowKept(job[j], r1) /\ r1 \in JobRecord
        BY <1>1, <2>1, <2>3, StatusSet DEF RowKept, ActiveStatus, OpenStatus, JobStatus
      <3>2. job' = [job EXCEPT ![j] = r2]
        BY <1>1, <2>1, <2>3, Zenon DEF TypeOK
      <3> HIDE DEF r1, j
      <3>3. RowKept(r1, r2)
        BY <3>1, LeaseSet
      <3> HIDE DEF r2
      <3>4. RowKept(job[j], r2)
        BY <3>1, <3>3, KeptTwice
      <3>5. JobsKept
        BY <1>1, <2>1, <3>2, <3>4, OneWrite
      <3> QED
        BY <1>1, <1>2, <2>1, <3>5, RestSame, NoSend, Harmless DEF MarkProcessing, RestTyped
    <2> QED
      BY <1>2, <2>2, <2>3 DEF MarkProcessing
  <1>3. CASE DryRun(w)
    <2>1. worker[w].job \in Jobs /\ WorkersQuiet
      BY <1>1, <1>3, GoneOn DEF DryRun, Phase
    <2>2. JobsKept
      BY <1>1, <1>3, <2>1, UpdatedRow, OneWrite DEF DryRun, JobStatus, OpenStatus
    <2> QED
      BY <1>1, <1>3, <2>1, <2>2, RestSame, NoSend, Harmless DEF DryRun, RestTyped
  <1>4. CASE Fail(w)
    <2>1. worker[w].job \in Jobs /\ WorkersQuiet
      BY <1>1, <1>4, GoneOn DEF Fail, Phase
    <2>2. JobsKept
      BY <1>1, <1>4, <2>1, UpdatedRow, OneWrite DEF Fail, JobStatus, OpenStatus
    <2> QED
      BY <1>1, <1>4, <2>1, <2>2, RestSame, NoSend, Harmless DEF Fail, RestTyped
  <1>5. CASE SkipLostLease(w)
    <2>1. WorkersQuiet
      BY <1>1, <1>5, GoneOn DEF SkipLostLease, Phase
    <2> QED
      BY <1>1, <1>5, <2>1, RestSame, NoSend, NoWrite, Harmless DEF SkipLostLease, RestTyped
  <1>6. CASE Defer(w)
    <2> DEFINE j == worker[w].job
    <2>1. j \in Jobs /\ WorkersQuiet
      BY <1>1, <1>6, GoneOn DEF Defer, Phase
    <2>2. Unstarted(j) => RowKept(job[j], Reopened(job[j]))
      BY <1>1, <2>1, ReopenedRow DEF Unstarted, OpenStatus
    <2>3. JobsKept
      BY <1>1, <1>6, <2>1, <2>2, OneWrite, NoWrite DEF Defer
    <2> QED
      BY <1>1, <1>6, <2>1, <2>3, RestSame, NoSend, Harmless DEF Defer, RestTyped
  <1>7. CASE CommitRejected(w)
    <2> DEFINE j == worker[w].job
               t == worker[w].token
    <2>1. j \in Jobs /\ t \in Tokens \cup {NoToken} /\ WorkersQuiet
      BY <1>1, <1>7, GoneOn DEF CommitRejected, Phase, WorkerRecord
    <2>2. lane' \in LaneRecord /\ RowKept(job[j], ReleasedRow(job[j], t))
      BY <1>1, <1>7, <2>1, Released DEF CommitRejected
    <2>3. JobsKept
      BY <1>1, <1>7, <2>1, <2>2, OneWrite DEF CommitRejected
    <2> QED
      BY <1>1, <1>7, <2>1, <2>2, <2>3, RestSame, NoSend, Harmless DEF CommitRejected, RestTyped
  <1> QED
    BY <1>2, <1>3, <1>4, <1>5, <1>6, <1>7

\* reserveMessage()
LEMMA ReserveKeeps ==
    ASSUME Inv, NEW w \in Workers, NEW t \in Tokens, Reserve(w, t)
    PROVE  Inv' /\ EndedKept
  <1> DEFINE j == worker[w].job
             r1 == [worker[w] EXCEPT !.pc = "reserved"]
             r2 == [r1 EXCEPT !.token = t]
  <1>1. TypeOK /\ worker[w] \in WorkerRecord /\ j \in Jobs /\ job[j] \in JobRecord
    BY Elements DEF Inv, Reserve
  <1>2. r1 \in WorkerRecord /\ r1.pc = "reserved" /\ r1.job = j
    BY <1>1 DEF WorkerRecord, Phase
  <1>3. worker' = [worker EXCEPT ![w] = r2]
    BY Zenon DEF Reserve
  <1>4. job' = [job EXCEPT ![j] = [job[j] EXCEPT !.token = t]]
    BY DEF Reserve
  <1>5. RowKept(job[j], [job[j] EXCEPT !.token = t])
    BY <1>1, TokenSet
  <1> HIDE DEF r1, j
  <1>6. r2 \in WorkerRecord /\ r2.pc = "reserved" /\ r2.job = j
    BY <1>2 DEF WorkerRecord
  <1> HIDE DEF r2
  <1>7. WorkersQuiet
    BY <1>1, <1>3, <1>6, OneMove
  <1>8. JobsKept
    BY <1>1, <1>4, <1>5, OneWrite
  <1>9. RestTyped
    BY <1>1, RestSame DEF Reserve, RestTyped, LaneRecord
  <1> QED
    BY <1>7, <1>8, <1>9, NoSend, Harmless DEF Reserve

-----------------------------------------------------------------------------
(* The campaign run.                                                       *)

\* pause(), on the rows.
LEMMA PausedRowsKept ==
    ASSUME TypeOK
    PROVE  PausedRows \in [Jobs -> JobRecord] /\ \A j \in Jobs : RowKept(job[j], PausedRows[j])
  <1>1. \A j \in Jobs : job[j] \in JobRecord
    BY Elements
  <1>2. \A j \in PauseTakes : RowKept(job[j], Reopened(job[j]))
    BY <1>1, KindsAssumption, ReopenedRow DEF PauseTakes, Unstarted, OpenStatus
  <1>3. \A j \in Jobs : RowKept(job[j], PausedRows[j])
    BY <1>1, <1>2, SameRow DEF PausedRows
  <1>4. PausedRows \in [Jobs -> JobRecord]
    BY <1>3 DEF PausedRows, RowKept
  <1> QED
    BY <1>3, <1>4

\* cancel(), on the rows.
LEMMA CancelledRowsKept ==
    ASSUME TypeOK
    PROVE  /\ CancelledRows \in [Jobs -> JobRecord]
           /\ \A j \in Jobs : RowKept(job[j], CancelledRows[j])
  <1>1. \A j \in Jobs : job[j] \in JobRecord
    BY Elements
  <1>2. ASSUME NEW j \in Jobs, j \in CancelTakes PROVE RowKept(job[j], CancelledRow(j))
    <2> DEFINE r == Reopened(job[j])
               r1 == [r EXCEPT !.status = "CANCELLED"]
               r2 == [r1 EXCEPT !.cancel = TRUE]
    <2>1. RowKept(job[j], r) /\ r \in JobRecord /\ r.status = "SCHEDULED"
      BY <1>1, <1>2, ReopenedRow DEF CancelTakes, Unstarted, OpenStatus, RowKept
    <2> HIDE DEF r
    <2>2. RowKept(r, r1) /\ r1 \in JobRecord
      BY <2>1, StatusSet DEF RowKept, ActiveStatus, OpenStatus, JobStatus
    <2> HIDE DEF r1
    <2>3. RowKept(r1, r2)
      BY <2>2, CancelSet
    <2>4. r2 = CancelledRow(j)
      BY <1>2, Zenon DEF CancelledRow, r, r1, r2
    <2> HIDE DEF r2
    <2> QED
      BY <2>1, <2>2, <2>3, <2>4, KeptTwice
  <1>3. ASSUME NEW j \in Jobs, j \notin CancelTakes PROVE RowKept(job[j], CancelledRow(j))
    <2> DEFINE c == job[j].cancel \/ (j \in RunJobs /\ job[j].status = "PROCESSING")
    <2>1. c \in BOOLEAN
      OBVIOUS
    <2>2. CancelledRow(j) = [job[j] EXCEPT !.cancel = c]
      BY <1>3 DEF CancelledRow
    <2> HIDE DEF c
    <2> QED
      BY <1>1, <2>1, <2>2, CancelSet
  <1>4. \A j \in Jobs : RowKept(job[j], CancelledRow(j))
    BY <1>2, <1>3
  <1>5. \A j \in Jobs : CancelledRows[j] = CancelledRow(j) /\ CancelledRow(j) \in JobRecord
    BY <1>4 DEF CancelledRows, RowKept
  <1>6. CancelledRows \in [Jobs -> JobRecord]
    BY <1>5 DEF CancelledRows
  <1> QED
    BY <1>4, <1>5, <1>6

\* The lane after a pause or a cancellation.
LEMMA LaneWithoutTyped ==
    ASSUME TypeOK, NEW taken
    PROVE  LaneWithout(taken) \in LaneRecord
  BY RestSame DEF LaneWithout, NoLane, LaneRecord

\* The campaign run.
LEMMA RunKeeps ==
    ASSUME Inv, RunStep
    PROVE  Inv' /\ EndedKept
  <1>1. TypeOK
    BY DEF Inv
  <1>2. CASE Pause
    <2>1. JobsKept
      BY <1>1, <1>2, PausedRowsKept DEF Pause, JobsKept
    <2> QED
      BY <1>1, <1>2, <2>1, NoMove, NoSend, LaneWithoutTyped, RestSame, Harmless DEF Pause, RestTyped
  <1>3. CASE PauseForSession
    BY <1>1, <1>3, NoMove, NoSend, NoWrite, RestSame, Harmless DEF PauseForSession, RestTyped
  <1>4. CASE Resume
    BY <1>1, <1>4, NoMove, NoSend, NoWrite, RestSame, Harmless DEF Resume, RestTyped
  <1>5. CASE Cancel
    <2>1. JobsKept
      BY <1>1, <1>5, CancelledRowsKept DEF Cancel, JobsKept
    <2>2. RestTyped
      BY <1>1, <1>5, LaneWithoutTyped, RestSame DEF Cancel, CancelRun, RestTyped
    <2> QED
      BY <1>1, <1>5, <2>1, <2>2, NoMove, NoSend, Harmless DEF Cancel
  <1>6. CASE Finalize
    BY <1>1, <1>6, NoMove, NoSend, NoWrite, RestSame, Harmless DEF Finalize, RestTyped
  <1> QED
    BY <1>2, <1>3, <1>4, <1>5, <1>6 DEF RunStep

-----------------------------------------------------------------------------
(* The commit fence: the start of a send, recorded in rows that may have   *)
(* been paused, cancelled or recovered since the fence looked at them.     *)

\* commitMessageStart(): no request of the job was sent before.
LEMMA StartKeeps ==
    ASSUME Inv, NEW w \in Workers, Committable(w), NEW rows \in [Jobs -> JobRecord],
           \A j \in Jobs : RowKept(job[j], rows[j]), Start(w, rows),
           queue' = queue, publishing' = publishing, effects' = effects, lane' \in LaneRecord,
           run' \in {"RUNNING", "PAUSED", "CANCELLING", "CANCELLED"}
    PROVE  Inv' /\ EndedKept
  <1> DEFINE j == worker[w].job
             n == job[j].attempts + 1
             row == StartedRow(rows[j])
             wr == [worker[w] EXCEPT !.pc = "posting", !.attempt = n]
  <1>1. /\ TypeOK /\ j \in Jobs /\ worker[w] \in WorkerRecord /\ job[j] \in JobRecord
        /\ ~job[j].started /\ job[j].status = "PROCESSING"
    BY Elements DEF Inv, Committable
  <1>2. n \in 1 .. MaxSafeAttempts /\ job[j].attempts \in Nat /\ n \in 0 .. MaxSafeAttempts
    <2>1. job[j].attempts \in 0 .. MaxSafeAttempts /\ job[j].attempts < MaxSafeAttempts
      BY <1>1 DEF Inv, AttemptsLeft, JobRecord
    <2> QED
      BY <2>1
  <1>3. /\ row \in JobRecord /\ row.started /\ row.attempts = n /\ row.status = rows[j].status
    <2> DEFINE r1 == [rows[j] EXCEPT !.started = TRUE]
               r2 == [r1 EXCEPT !.attempts = n]
    <2>1. rows[j] \in JobRecord /\ rows[j].attempts = job[j].attempts
      BY <1>1 DEF RowKept
    <2>2. r1 \in JobRecord /\ r1.started /\ r1.attempts = job[j].attempts /\ r1.status = rows[j].status
      BY <2>1 DEF JobRecord
    <2>3. row = [rows[j] EXCEPT !.started = TRUE, !.attempts = rows[j].attempts + 1]
      BY DEF StartedRow
    <2>4. row = r2
      BY <2>1, <2>3, Zenon
    <2> HIDE DEF r1, row, n, j
    <2>5. r2 \in JobRecord /\ r2.started /\ r2.attempts = n /\ r2.status = r1.status
      BY <1>2, <2>2 DEF JobRecord
    <2> QED
      BY <2>2, <2>4, <2>5
  <1>4. /\ wr \in WorkerRecord /\ wr.pc = "posting" /\ wr.job = j /\ wr.attempt = n
    <2> DEFINE r1 == [worker[w] EXCEPT !.pc = "posting"]
               r2 == [r1 EXCEPT !.attempt = n]
    <2>1. r1 \in WorkerRecord /\ r1.pc = "posting" /\ r1.job = j
      BY <1>1 DEF WorkerRecord, Phase
    <2>2. wr = r2
      BY Zenon
    <2> HIDE DEF r1, wr, n, j
    <2>3. r2 \in WorkerRecord /\ r2.pc = "posting" /\ r2.job = j /\ r2.attempt = n
      BY <1>2, <2>1 DEF WorkerRecord
    <2> QED
      BY <2>2, <2>3
  <1>5. /\ job' = [rows EXCEPT ![j] = row]
        /\ worker' = [worker EXCEPT ![w] = wr]
        /\ wire' = wire \cup {<<j, n>>}
    BY Zenon DEF Start
  <1> HIDE DEF wr, row, n
  <1>6. /\ job' \in [Jobs -> JobRecord] /\ job'[j] = row
        /\ \A i \in Jobs : i # j => job'[i] = rows[i]
    BY <1>1, <1>3, <1>5
  <1>7. /\ worker' \in [Workers -> WorkerRecord] /\ worker'[w] = wr
        /\ \A v \in Workers : v # w => worker'[v] = worker[v]
    BY <1>1, <1>4, <1>5 DEF TypeOK
  <1> HIDE DEF j
  <1>8. TypeOK'
    BY <1>1, <1>2, <1>4, <1>5, <1>6, <1>7 DEF TypeOK
  <1>9. \A i \in Jobs : /\ job'[i].started = (job[i].started \/ i = j)
                        /\ i # j => job'[i].attempts = job[i].attempts
                        /\ job'[i].status = rows[i].status
    BY <1>3, <1>6 DEF RowKept, JobRecord
  <1>10. \A p \in Sent : p[1] \in Jobs /\ p[1] # j
    BY <1>1, SentJobs DEF Inv, SentCurrent
  <1>11. \A v \in Workers : Flying(v) => worker[v].job \in Jobs /\ worker[v].job # j /\ v # w
    <2> SUFFICES ASSUME NEW v \in Workers, Flying(v)
                 PROVE  worker[v].job \in Jobs /\ worker[v].job # j /\ v # w
      OBVIOUS
    <2>1. worker[v].job \in Jobs
      BY <1>1, FlyingJobs
    <2>2. job[worker[v].job].started
      BY DEF Inv, FlightStarted
    <2>3. worker[w].pc = "reserved"
      BY DEF Committable
    <2> QED
      BY <1>1, <2>1, <2>2, <2>3 DEF Flying
  <1>12. Sent' = Sent \cup {<<j, n>>}
    BY <1>5 DEF Sent
  <1>13. AttemptsLeft'
    BY <1>9 DEF Inv, AttemptsLeft
  <1>14. FlightStarted'
    <2> SUFFICES ASSUME NEW v \in Workers, Flying(v)'
                 PROVE  /\ job'[worker'[v].job].started
                        /\ worker'[v].attempt = job'[worker'[v].job].attempts
      BY DEF FlightStarted
    <2>1. CASE v = w
      BY <2>1, <1>3, <1>4, <1>6, <1>7
    <2>2. CASE v # w
      <3>1. Flying(v) /\ worker'[v] = worker[v]
        BY <2>2, <1>7 DEF Flying
      <3>2. worker[v].job \in Jobs /\ worker[v].job # j
        BY <3>1, <1>11
      <3>3. job[worker[v].job].started /\ worker[v].attempt = job[worker[v].job].attempts
        BY <3>1 DEF Inv, FlightStarted
      <3> QED
        BY <3>1, <3>2, <3>3, <1>9
    <2> QED
      BY <2>1, <2>2
  <1>15. OneFlight'
    <2> SUFFICES ASSUME NEW u \in Workers, NEW v \in Workers, Flying(u)', Flying(v)',
                        worker'[u].job = worker'[v].job
                 PROVE  u = v
      BY DEF OneFlight
    <2>1. \A x \in Workers : (x # w /\ Flying(x)') => (Flying(x) /\ worker'[x] = worker[x])
      BY <1>7 DEF Flying
    <2>2. worker'[w].job = j
      BY <1>4, <1>7
    <2> QED
      BY <2>1, <2>2, <1>11 DEF Inv, OneFlight
  <1>16. SentCurrent'
    <2> SUFFICES ASSUME NEW p \in Sent'
                 PROVE  job'[p[1]].started /\ p[2] = job'[p[1]].attempts
      BY DEF SentCurrent
    <2>1. CASE p \in Sent
      BY <2>1, <1>9, <1>10 DEF Inv, SentCurrent
    <2>2. CASE p = <<j, n>>
      BY <2>2, <1>3, <1>6
    <2> QED
      BY <2>1, <2>2, <1>12
  <1>17. RefusedUnsent'
    <2> SUFFICES ASSUME NEW v \in Workers, Refused(v)'
                 PROVE  Request(v)' \notin Sent'
      BY DEF RefusedUnsent
    <2>1. v # w
      BY <1>4, <1>7 DEF Refused
    <2>2. Refused(v) /\ Request(v)' = Request(v) /\ worker[v].job # j
      BY <2>1, <1>7, <1>11 DEF Refused, Flying, Request
    <2> QED
      BY <2>2, <1>12 DEF Inv, RefusedUnsent, Request
  <1>18. ConfirmedSent'
    <2> SUFFICES ASSUME NEW v \in Workers, Confirmed(v)'
                 PROVE  Request(v)' \in effects'
      BY DEF ConfirmedSent
    <2>1. v # w
      BY <1>4, <1>7 DEF Confirmed
    <2>2. Confirmed(v) /\ Request(v)' = Request(v)
      BY <2>1, <1>7 DEF Confirmed, Request
    <2> QED
      BY <2>2 DEF Inv, ConfirmedSent
  <1>19. OnceOnly'
    <2>1. <<j, n>> \notin effects
      BY <1>10 DEF Sent
    <2> QED
      BY <2>1, <1>5 DEF Inv, OnceOnly
  <1>20. OneActiveJob'
    BY <1>9, ActiveKept DEF Inv, Active, RowKept, ActiveStatus
  <1>21. AcceptedSent'
    BY <1>9, AcceptedKept DEF Inv, RowKept
  <1>22. EndedKept
    BY <1>9 DEF EndedKept, Ended, RowKept, OpenStatus
  <1> QED
    BY <1>8, <1>13, <1>14, <1>15, <1>16, <1>17, <1>18, <1>19, <1>20, <1>21, <1>22 DEF Inv

\* The commit fence, with and without a transaction it overlooks.
LEMMA CommitKeeps ==
    ASSUME Inv, NEW w \in Workers, Commit(w) \/ OverlookedStep(w)
    PROVE  Inv' /\ EndedKept
  <1>1. TypeOK /\ job \in [Jobs -> JobRecord] /\ (\A j \in Jobs : RowKept(job[j], job[j]))
    BY Elements, SameRow DEF Inv, TypeOK
  <1>2. CASE Commit(w)
    BY <1>1, <1>2, RestSame, StartKeeps DEF Commit
  <1>3. CASE CommitBehindPause(w)
    BY <1>1, <1>3, PausedRowsKept, LaneWithoutTyped, StartKeeps DEF CommitBehindPause
  <1>4. CASE CommitBehindCancel(w)
    BY <1>1, <1>4, CancelledRowsKept, LaneWithoutTyped, StartKeeps DEF CommitBehindCancel, CancelRun
  <1>5. CASE CommitBehindRecovery(w)
    <2> DEFINE j == worker[w].job
               rows == [job EXCEPT ![j] = Reopened(job[j])]
    <2>1. Committable(w) /\ j \in Jobs /\ job[j].status = "PROCESSING"
      BY <1>1, <1>5, Elements DEF CommitBehindRecovery, Committable
    <2>2. RowKept(job[j], Reopened(job[j])) /\ Reopened(job[j]) \in JobRecord
      BY <1>1, <2>1, Elements, ReopenedRow DEF OpenStatus, RowKept
    <2>3. rows \in [Jobs -> JobRecord] /\ (\A i \in Jobs : RowKept(job[i], rows[i]))
      BY <1>1, <2>1, <2>2
    <2>4. Start(w, rows)
      BY <1>5 DEF CommitBehindRecovery
    <2> HIDE DEF rows
    <2> QED
      BY <1>1, <1>5, <2>1, <2>3, <2>4, RestSame, StartKeeps DEF CommitBehindRecovery
  <1> QED
    BY <1>2, <1>3, <1>4, <1>5 DEF OverlookedStep

-----------------------------------------------------------------------------
(* The request and what becomes of it.                                     *)

\* OpenWA sends a message.
LEMMA TakesEffectKeeps ==
    ASSUME Inv, NEW request \in wire, TakesEffect(request)
    PROVE  Inv' /\ EndedKept
  <1>1. TypeOK /\ wire' = wire \ {request} /\ effects' = effects \cup {request}
    BY DEF Inv, TakesEffect
  <1>2. NothingSent
    BY <1>1 DEF NothingSent, Sent, OnceOnly, Inv
  <1>3. RestTyped
    BY <1>1, RestSame DEF TakesEffect, RestTyped
  <1> QED
    BY <1>1, <1>2, <1>3, NoMove, NoWrite, Harmless DEF TakesEffect

\* OpenWA answers, or seems to.
LEMMA AnsweredKeeps ==
    ASSUME Inv, NEW w \in Workers, NEW answer \in Answers, Answered(w, answer)
    PROVE  Inv' /\ EndedKept
  <1> DEFINE r1 == [worker[w] EXCEPT !.pc = "answered"]
             r2 == [r1 EXCEPT !.answer = answer]
  <1>1. /\ TypeOK /\ worker[w] \in WorkerRecord /\ worker[w].job \in Jobs /\ Flying(w)
    BY Elements DEF Inv, Answered, Flying
  <1>2. r2 \in WorkerRecord /\ r2.pc = "answered" /\ r2.answer = answer
        /\ r2.job = worker[w].job /\ r2.attempt = worker[w].attempt
    <2>1. r1 \in WorkerRecord /\ r1.pc = "answered"
          /\ r1.job = worker[w].job /\ r1.attempt = worker[w].attempt
      BY <1>1 DEF WorkerRecord, Phase
    <2> HIDE DEF r1
    <2> QED
      BY <2>1 DEF WorkerRecord
  <1>3. worker' = [worker EXCEPT ![w] = r2]
    BY Zenon DEF Answered
  <1> HIDE DEF r2
  <1>4. /\ worker' \in [Workers -> WorkerRecord] /\ worker'[w] = r2
        /\ \A v \in Workers : v # w => worker'[v] = worker[v]
    BY <1>1, <1>2, <1>3 DEF TypeOK
  <1>5. \A v \in Workers : /\ worker'[v].job = worker[v].job /\ worker'[v].attempt = worker[v].attempt
                          /\ Request(v)' = Request(v)
    BY <1>2, <1>4 DEF Request
  <1>6. wire' \subseteq wire /\ effects' = effects
    BY DEF Answered
  <1>7. NothingSent
    BY <1>6 DEF NothingSent, Sent, OnceOnly, Inv
  <1>8. WorkersTyped
    BY <1>1, <1>2, <1>4 DEF WorkersTyped, TypeOK
  <1>9. \A v \in Workers : Flying(v)' => Flying(v)
    BY <1>1, <1>4 DEF Flying
  <1>10. \A v \in Workers : Refused(v)' => (Refused(v) \/ Request(v) \notin Sent')
    <2>1. Refused(w)' => Request(w) \notin Sent'
      BY <1>2, <1>4 DEF Refused, Answered, Sent, Inv, OnceOnly
    <2> QED
      BY <2>1, <1>4 DEF Refused
  <1>11. \A v \in Workers : Confirmed(v)' => (Confirmed(v) \/ Request(v) \in effects)
    <2>1. Confirmed(w)' => Request(w) \in effects
      BY <1>2, <1>4 DEF Confirmed, Answered
    <2> QED
      BY <2>1, <1>4 DEF Confirmed
  <1>12. WorkersQuiet
    BY <1>5, <1>8, <1>9, <1>10, <1>11 DEF WorkersQuiet
  <1>13. RestTyped
    BY <1>1, <1>6, RestSame DEF Answered, RestTyped
  <1> QED
    BY <1>1, <1>7, <1>12, <1>13, NoWrite, Harmless DEF Answered

\* An acceptance is written: OpenWA has sent the message.
LEMMA AcceptanceKeeps ==
    ASSUME Inv, NEW w \in Workers, WriteResult(w), Confirmed(w), job[worker[w].job].status = "PROCESSING"
    PROVE  Inv' /\ EndedKept
  <1> DEFINE j == worker[w].job
             r1 == [job[j] EXCEPT !.status = "ACCEPTED"]
             row == [r1 EXCEPT !.lease = "none"]
  <1>1. TypeOK /\ j \in Jobs /\ job[j] \in JobRecord /\ WorkersQuiet
    BY Elements, GoneOn DEF Inv, WriteResult, Phase
  <1>2. row \in JobRecord /\ row.status = "ACCEPTED"
        /\ row.started = job[j].started /\ row.attempts = job[j].attempts
    <2>1. r1 \in JobRecord /\ r1.status = "ACCEPTED"
          /\ r1.started = job[j].started /\ r1.attempts = job[j].attempts
      BY <1>1 DEF JobRecord, JobStatus
    <2> HIDE DEF r1, j
    <2> QED
      BY <2>1 DEF JobRecord
  <1>3. row = Updated(j, "ACCEPTED")
    BY Zenon DEF Updated
  <1>4. ~Retryable(w) /\ Result(worker[w].answer) = "ACCEPTED"
    BY DEF Confirmed, Retryable, Result
  <1>5. job' = [job EXCEPT ![j] = row]
    BY <1>3, <1>4 DEF WriteResult
  <1> HIDE DEF row
  <1>6. /\ job' \in [Jobs -> JobRecord] /\ job'[j] = row
        /\ \A i \in Jobs : i # j => job'[i] = job[i]
    BY <1>1, <1>2, <1>5 DEF TypeOK
  <1>7. TypeOK'
    BY <1>1, <1>6 DEF TypeOK, WriteResult, WorkersQuiet, WorkersTyped
  <1>8. /\ AttemptsLeft' /\ FlightStarted' /\ OneFlight'
        /\ SentCurrent' /\ RefusedUnsent' /\ ConfirmedSent' /\ OnceOnly'
    <2>1. \A i \in Jobs : job'[i].started = job[i].started /\ job'[i].attempts = job[i].attempts
      BY <1>2, <1>6
    <2>2. NothingSent
      BY NoSend DEF WriteResult
    <2> QED
      BY <1>1, <2>1, <2>2, FlightKept
  <1>9. OneActiveJob'
    BY <1>2, <1>6, ActiveKept DEF Inv, Active
  <1>10. AcceptedSent'
    <2> SUFFICES ASSUME NEW i \in Jobs, job'[i].status = "ACCEPTED"
                 PROVE  \E n \in 1 .. MaxSafeAttempts : <<i, n>> \in effects'
      BY DEF AcceptedSent
    <2>1. effects' = effects
      BY DEF WriteResult
    <2>2. CASE i = j
      <3>1. Request(w) \in effects
        BY DEF Inv, ConfirmedSent
      <3>2. worker[w].attempt \in 1 .. MaxSafeAttempts
        BY <1>1, <3>1 DEF Request, TypeOK
      <3> QED
        BY <2>1, <2>2, <3>1, <3>2 DEF Request
    <2>3. CASE i # j
      BY <1>6, <2>1, <2>3 DEF Inv, AcceptedSent
    <2> QED
      BY <2>2, <2>3
  <1>11. EndedKept
    BY <1>6 DEF EndedKept, Ended
  <1> QED
    BY <1>7, <1>8, <1>9, <1>10, <1>11 DEF Inv

\* A job is put back to its start: only over a request that was refused, so that nothing of
\* its was sent, and with an attempt left.
LEMMA RetryKeeps ==
    ASSUME Inv, NEW w \in Workers, WriteResult(w), Retryable(w), job[worker[w].job].status = "PROCESSING"
    PROVE  Inv' /\ EndedKept
  <1> DEFINE j == worker[w].job
             row == RetriedRow(job[j])
  <1>1. TypeOK /\ j \in Jobs /\ job[j] \in JobRecord /\ worker[w] \in WorkerRecord /\ WorkersQuiet
    BY Elements, GoneOn DEF Inv, WriteResult, Phase
  <1>2. Flying(w) /\ Refused(w)
    BY DEF Flying, Refused, WriteResult, Retryable
  <1>3. /\ row \in JobRecord /\ row.status = "SCHEDULED" /\ ~row.started
        /\ row.attempts = job[j].attempts
    <2> DEFINE r == Reopened(job[j])
    <2>1. r \in JobRecord /\ r.status = "SCHEDULED" /\ r.attempts = job[j].attempts
      BY <1>1, ReopenedRow DEF RowKept, OpenStatus
    <2>2. row = [r EXCEPT !.started = FALSE]
      BY DEF RetriedRow
    <2> HIDE DEF r, row, j
    <2> QED
      BY <2>1, <2>2 DEF JobRecord
  <1>4. job' = [job EXCEPT ![j] = row]
    BY DEF WriteResult
  <1> HIDE DEF row
  <1>5. /\ job' \in [Jobs -> JobRecord] /\ job'[j] = row
        /\ \A i \in Jobs : i # j => job'[i] = job[i]
    BY <1>1, <1>3, <1>4 DEF TypeOK
  <1>6. TypeOK'
    BY <1>1, <1>5 DEF TypeOK, WriteResult, WorkersQuiet, WorkersTyped
  <1>7. job[j].started /\ worker[w].attempt = job[j].attempts /\ Request(w) \notin Sent
    BY <1>2 DEF Inv, FlightStarted, RefusedUnsent
  <1>8. \A p \in Sent : p[1] \in Jobs /\ p[1] # j
    <2> SUFFICES ASSUME NEW p \in Sent, p[1] = j PROVE FALSE
      BY <1>1, SentJobs
    <2>1. p[2] = worker[w].attempt
      BY <1>7 DEF Inv, SentCurrent
    <2>2. p = <<p[1], p[2]>>
      BY <1>1 DEF TypeOK, Sent
    <2> QED
      BY <1>7, <2>1, <2>2 DEF Request
  <1>9. \A v \in Workers : Flying(v)' =>
            /\ v # w /\ worker'[v] = worker[v] /\ Flying(v)
            /\ worker[v].job \in Jobs /\ worker[v].job # j
    <2> SUFFICES ASSUME NEW v \in Workers, Flying(v)'
                 PROVE  /\ v # w /\ worker'[v] = worker[v] /\ Flying(v)
                        /\ worker[v].job \in Jobs /\ worker[v].job # j
      OBVIOUS
    <2>1. worker'[w].pc = "written" /\ (v # w => worker'[v] = worker[v])
      BY <1>1 DEF WriteResult, Goto, TypeOK, WorkerRecord
    <2>2. v # w /\ worker'[v] = worker[v] /\ Flying(v)
      BY <2>1 DEF Flying
    <2>3. worker[v].job \in Jobs
      BY <1>1, <2>2, FlyingJobs
    <2> QED
      BY <1>2, <2>2, <2>3 DEF Inv, OneFlight
  <1> HIDE DEF j
  <1>10. wire' = wire /\ effects' = effects /\ Sent' = Sent
    BY DEF WriteResult, Sent
  <1>11. AttemptsLeft'
    <2>1. worker[w].attempt < MaxSafeAttempts
      BY DEF Retryable, BelowRetryLimit
    <2>2. row.attempts < MaxSafeAttempts
      BY <2>1, <1>3, <1>7
    <2> QED
      BY <2>2, <1>5 DEF Inv, AttemptsLeft
  <1>12. FlightStarted'
    <2> SUFFICES ASSUME NEW v \in Workers, Flying(v)'
                 PROVE  /\ job'[worker'[v].job].started
                        /\ worker'[v].attempt = job'[worker'[v].job].attempts
      BY DEF FlightStarted
    <2>1. /\ worker'[v] = worker[v] /\ worker[v].job \in Jobs /\ worker[v].job # j
          /\ Flying(v)
      BY <1>9
    <2>2. job[worker[v].job].started /\ worker[v].attempt = job[worker[v].job].attempts
      BY <2>1 DEF Inv, FlightStarted
    <2> QED
      BY <1>5, <2>1, <2>2
  <1>13. OneFlight'
    BY <1>9 DEF Inv, OneFlight
  <1>14. SentCurrent'
    <2> SUFFICES ASSUME NEW p \in Sent PROVE job'[p[1]].started /\ p[2] = job'[p[1]].attempts
      BY <1>10 DEF SentCurrent
    <2> QED
      BY <1>5, <1>8 DEF Inv, SentCurrent
  <1>15. RefusedUnsent'
    <2> SUFFICES ASSUME NEW v \in Workers, Refused(v)' PROVE Request(v)' \notin Sent'
      BY DEF RefusedUnsent
    <2>1. worker'[v] = worker[v]
      BY <1>9 DEF Refused, Flying
    <2> QED
      BY <1>10, <2>1 DEF Inv, RefusedUnsent, Refused, Request
  <1>16. ConfirmedSent'
    <2> SUFFICES ASSUME NEW v \in Workers, Confirmed(v)' PROVE Request(v)' \in effects'
      BY DEF ConfirmedSent
    <2>1. worker'[v] = worker[v]
      BY <1>9 DEF Confirmed, Flying
    <2> QED
      BY <1>10, <2>1 DEF Inv, ConfirmedSent, Confirmed, Request
  <1>17. OnceOnly'
    BY <1>10 DEF Inv, OnceOnly
  <1>18. OneActiveJob'
    BY <1>3, <1>5, ActiveKept DEF Inv, Active
  <1>19. AcceptedSent'
    BY <1>3, <1>5, <1>10, AcceptedKept DEF Inv
  <1>20. EndedKept
    BY <1>5 DEF EndedKept, Ended, j
  <1> QED
    BY <1>6, <1>11, <1>12, <1>13, <1>14, <1>15, <1>16, <1>17, <1>18, <1>19, <1>20 DEF Inv

\* process() writes the result.
LEMMA WriteResultKeeps ==
    ASSUME Inv, NEW w \in Workers, WriteResult(w)
    PROVE  Inv' /\ EndedKept
  <1> DEFINE j == worker[w].job
  <1>1. TypeOK /\ j \in Jobs /\ job[j] \in JobRecord /\ worker[w] \in WorkerRecord /\ WorkersQuiet
    BY Elements, GoneOn DEF Inv, WriteResult, Phase
  <1>2. CASE job[j].status = "PROCESSING" /\ Retryable(w)
    BY <1>2, RetryKeeps
  <1>3. CASE job[j].status = "PROCESSING" /\ Confirmed(w)
    BY <1>3, AcceptanceKeeps
  <1>4. CASE job[j].status # "PROCESSING"
    <2>1. job' = [job EXCEPT ![j] = job[j]]
      BY <1>4 DEF WriteResult, RetriedRow, Updated
    <2>2. JobsKept
      BY <1>1, <2>1, SameRow, OneWrite
    <2> QED
      BY <1>1, <2>2, NoSend, RestSame, Harmless DEF WriteResult, RestTyped
  <1>5. CASE job[j].status = "PROCESSING" /\ ~Retryable(w) /\ ~Confirmed(w)
    <2> DEFINE status == Result(worker[w].answer)
    <2>1. status \in JobStatus \ OpenStatus /\ status # "ACCEPTED"
      BY <1>5 DEF Result, Confirmed, WriteResult, JobStatus, OpenStatus
    <2>2. job' = [job EXCEPT ![j] = Updated(j, status)]
      BY <1>5 DEF WriteResult
    <2> HIDE DEF status
    <2>3. JobsKept
      BY <1>1, <2>1, <2>2, UpdatedRow, OneWrite
    <2> QED
      BY <1>1, <2>3, NoSend, RestSame, Harmless DEF WriteResult, RestTyped
  <1> QED
    BY <1>2, <1>3, <1>4, <1>5

\* process() cannot write the result.
LEMMA WriteFailsKeeps ==
    ASSUME Inv, NEW w \in Workers, WriteFails(w)
    PROVE  Inv' /\ EndedKept
  <1>1. /\ TypeOK /\ worker[w] \in WorkerRecord /\ worker[w].job \in Jobs
        /\ worker[w].pc = "answered"
    BY Elements DEF Inv, WriteFails
  <1>2. CASE worker[w].answer = "ACCEPTED"
    <2> DEFINE r == [worker[w] EXCEPT !.answer = "AMBIGUOUS"]
    <2>1. /\ r \in WorkerRecord /\ r.pc = "answered" /\ r.answer = "AMBIGUOUS"
          /\ r.job = worker[w].job /\ r.attempt = worker[w].attempt
      BY <1>1 DEF WorkerRecord, Answers
    <2>2. worker' = [worker EXCEPT ![w] = r]
      BY <1>2 DEF WriteFails
    <2> HIDE DEF r
    <2>3. /\ worker' \in [Workers -> WorkerRecord] /\ worker'[w] = r
          /\ \A v \in Workers : v # w => worker'[v] = worker[v]
      BY <1>1, <2>1, <2>2 DEF TypeOK
    <2>4. WorkersTyped
      BY <1>1, <2>1, <2>3 DEF WorkersTyped, TypeOK
    <2>5. \A v \in Workers : /\ worker'[v].job = worker[v].job
                             /\ worker'[v].attempt = worker[v].attempt
                             /\ worker'[v].pc = worker[v].pc
      BY <1>1, <2>1, <2>3
    <2>6. WorkersQuiet
      BY <2>1, <2>3, <2>4, <2>5 DEF WorkersQuiet, Flying, Refused, Confirmed, Request
    <2> QED
      BY <1>1, <2>6, NoSend, NoWrite, RestSame, Harmless DEF WriteFails, RestTyped
  <1>3. CASE worker[w].answer # "ACCEPTED"
    <2>1. Goto(w, "done")
      BY <1>3 DEF WriteFails, Goto
    <2>2. WorkersQuiet
      BY <1>1, <2>1, GoneOn DEF Phase
    <2> QED
      BY <1>1, <2>2, NoSend, NoWrite, RestSame, Harmless DEF WriteFails, RestTyped
  <1> QED
    BY <1>2, <1>3

\* recordSafetyOutcome()
LEMMA RecordOutcomeKeeps ==
    ASSUME Inv, NEW w \in Workers, RecordOutcome(w)
    PROVE  Inv' /\ EndedKept
  <1> DEFINE j == worker[w].job
             t == worker[w].token
  <1>1. /\ TypeOK /\ j \in Jobs /\ t \in Tokens \cup {NoToken} /\ WorkersQuiet
    <2>1. worker[w] \in WorkerRecord
      BY Elements DEF Inv
    <2> QED
      BY <2>1, Elements, GoneOn DEF Inv, RecordOutcome, Phase, WorkerRecord
  <1>2. CASE lane' = ReleasedLane(t) /\ job' = [job EXCEPT ![j] = ReleasedRow(@, t)]
    <2>1. lane' \in LaneRecord /\ RowKept(job[j], ReleasedRow(job[j], t))
      BY <1>1, <1>2, Released
    <2>2. JobsKept
      BY <1>1, <1>2, <2>1, OneWrite
    <2> QED
      BY <1>1, <2>1, <2>2, NoSend, RestSame, Harmless DEF RecordOutcome, RestTyped
  <1>3. CASE UNCHANGED <<lane, job>>
    BY <1>1, <1>3, NoSend, NoWrite, RestSame, Harmless DEF RecordOutcome, RestTyped
  <1> QED
    BY <1>2, <1>3 DEF RecordOutcome

-----------------------------------------------------------------------------
(* The invariant.                                                          *)

\* Any step of a worker.
LEMMA WorkerKeeps ==
    ASSUME Inv, NEW w \in Workers, WorkerStep(w)
    PROVE  Inv' /\ EndedKept
  <1>1. CASE \/ \E j \in Jobs : QueueClaim(w, j)
             \/ Renew(w) \/ QueueRelease(w) \/ Complete(w) \/ Crash(w)
    BY <1>1, QueueStepKeeps
  <1>2. CASE \/ MarkProcessing(w) \/ DryRun(w) \/ Fail(w) \/ SkipLostLease(w) \/ Defer(w)
             \/ CommitRejected(w)
    BY <1>2, PrepareStepKeeps
  <1>3. CASE \E t \in Tokens : Reserve(w, t)
    BY <1>3, ReserveKeeps
  <1>4. CASE Commit(w)
    BY <1>4, CommitKeeps
  <1>5. CASE \E answer \in Answers : Answered(w, answer)
    BY <1>5, AnsweredKeeps
  <1>6. CASE WriteResult(w) \/ WriteFails(w) \/ RecordOutcome(w)
    BY <1>6, WriteResultKeeps, WriteFailsKeeps, RecordOutcomeKeeps
  <1> QED
    BY <1>1, <1>2, <1>3, <1>4, <1>5, <1>6 DEF WorkerStep

\* The invariant holds at the start.
LEMMA InitInv == Init => Inv
  <1> SUFFICES ASSUME Init PROVE Inv
    OBVIOUS
  <1>1. \A j \in Jobs : job[j].status = "SCHEDULED" /\ ~job[j].started /\ job[j].attempts = 0
    BY DEF Init
  <1>2. \A w \in Workers : worker[w].pc = "idle"
    BY DEF Init, Idle
  <1>3. wire = {} /\ effects = {}
    BY DEF Init
  <1>4. TypeOK
    <2>1. job \in [Jobs -> JobRecord]
      BY DEF Init, JobRecord, JobStatus
    <2>2. queue \in [Jobs -> QueueRecord] /\ lane \in LaneRecord
      BY FreshRow DEF Init, NoLane, LaneRecord
    <2>3. worker \in [Workers -> WorkerRecord]
      <3>1. Idle \in WorkerRecord
        BY DEF Idle, WorkerRecord, Phase
      <3> QED
        BY <3>1 DEF Init
    <2> QED
      BY <1>2, <1>3, <2>1, <2>2, <2>3 DEF Init, TypeOK
  <1>5. AttemptsLeft /\ FlightStarted /\ OneFlight
    BY <1>1, <1>2 DEF AttemptsLeft, FlightStarted, OneFlight, Flying
  <1>6. SentCurrent /\ RefusedUnsent /\ ConfirmedSent /\ OnceOnly
    BY <1>2, <1>3 DEF SentCurrent, RefusedUnsent, ConfirmedSent, OnceOnly, Sent, Refused, Confirmed
  <1>7. OneActiveJob /\ AcceptedSent
    BY <1>1 DEF OneActiveJob, AcceptedSent, Active, Live
  <1> QED
    BY <1>4, <1>5, <1>6, <1>7 DEF Inv

\* Every step keeps the invariant, and the end of the jobs that have ended.
LEMMA NextInv == Inv /\ [Next]_vars => Inv' /\ (EndedKept \/ UNCHANGED vars)
  <1> SUFFICES ASSUME Inv, [Next]_vars
               PROVE  Inv' /\ (EndedKept \/ UNCHANGED vars)
    OBVIOUS
  <1>1. CASE TickStep
    BY <1>1, TickKeeps
  <1>2. CASE TimeStep
    BY <1>2, TimeKeeps
  <1>3. CASE RunStep
    BY <1>3, RunKeeps
  <1>4. CASE \E w \in Workers : WorkerStep(w)
    BY <1>4, WorkerKeeps
  <1>5. CASE \E request \in wire : TakesEffect(request)
    BY <1>5, TakesEffectKeeps
  <1>6. CASE \E w \in Workers : OverlookedStep(w)
    BY <1>6, CommitKeeps
  <1>7. CASE UNCHANGED vars
    <2>1. TypeOK /\ UNCHANGED <<job, queue, publishing, lane, run, worker, wire, effects>>
      BY <1>7 DEF vars, Inv
    <2> QED
      BY <2>1, NoMove, NoSend, NoWrite, RestSame, Harmless DEF RestTyped
  <1> QED
    BY <1>1, <1>2, <1>3, <1>4, <1>5, <1>6, <1>7 DEF Next, FencedNext

\* The inductive invariant holds in every reachable state.
THEOREM Invariance == Spec => []Inv
  BY InitInv, NextInv, PTL DEF Spec

-----------------------------------------------------------------------------
(* What follows.                                                           *)

\* Rows and local state stay well formed, and no job is attempted more often than the retry
\* limit allows (process, commitMessageStart).
THEOREM TypeCorrect == Spec => []TypeOK
  <1>1. Inv => TypeOK
    BY DEF Inv
  <1> QED
    BY <1>1, Invariance, PTL

\* At most one message goes out for a job, whatever leases expire, processes die, answers are
\* lost and statements are overtaken (commitMessageStart, rescheduleProcessing).
THEOREM MessageAtMostOnce == Spec => []OneMessage
  <1>1. Inv => OneMessage
    <2> SUFFICES ASSUME Inv, NEW p \in Sent, NEW q \in Sent, p[1] = q[1] PROVE p = q
      BY DEF OneMessage, Sent
    <2>1. p[2] = q[2]
      BY DEF Inv, SentCurrent
    <2>2. p = <<p[1], p[2]>> /\ q = <<q[1], q[2]>>
      BY DEF Inv, TypeOK, Sent
    <2> QED
      BY <2>1, <2>2
  <1> QED
    BY <1>1, Invariance, PTL

\* At most one live job of the session is on its way or being processed (claimDue).
THEOREM OneJobUnderWay == Spec => []OneActiveJob
  <1>1. Inv => OneActiveJob
    BY DEF Inv
  <1> QED
    BY <1>1, Invariance, PTL

\* A job is reported accepted only when OpenWA has sent its message (updateResult).
THEOREM AcceptanceIsReal == Spec => []AcceptedSent
  <1>1. Inv => AcceptedSent
    BY DEF Inv
  <1> QED
    BY <1>1, Invariance, PTL

\* A job that has ended stays as it ended (updateResult, deferProcessing, cancel).
THEOREM EndIsFinal == Spec => EndedStays
  <1>1. Inv /\ [Next]_vars => [\A j \in Jobs : Ended(j) => job'[j].status = job[j].status]_vars
    BY NextInv DEF EndedKept
  <1> QED
    BY <1>1, Invariance, PTL DEF Spec, EndedStays
=============================================================================
