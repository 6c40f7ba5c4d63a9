--------------------------- MODULE MessageDispatch ---------------------------
(***************************************************************************)
(* The message jobs of one session in direct mode: the scheduler tick that *)
(* claims and recovers them, the queue rows that carry them to workers,    *)
(* the safety lane of the session, the commit fence before the POST to     *)
(* OpenWA, and the pause and cancellation of the campaign run some of the  *)
(* jobs belong to.                                                         *)
(*   modules/messages/message-job.repository.ts                            *)
(*   modules/messages/message-job-processor.service.ts                     *)
(*   modules/orchestration/message-dispatch.tick.ts                        *)
(*   modules/campaigns/campaign-run-lifecycle.repository.ts                *)
(*   core/queue/postgres-queue.transport.ts                                *)
(*   integrations/openwa/safety/openwa-safety.repository.ts                *)
(* Deadlines are abstracted to leases that expire at any moment.           *)
(***************************************************************************)
EXTENDS Naturals

CONSTANTS
    Jobs,           \* message_jobs of the session
    DryRuns,        \* jobs with dry_run = true
    RunJobs,        \* jobs materialised from the campaign run
    Workers,        \* loops of the queue worker, each handling one row at a time
    NoJob,          \* a worker loop without a row
    Nobody,         \* runtime_queue_jobs.lease_owner IS NULL
    Tokens,         \* safety permit tokens (gen_random_uuid)
    NoToken,        \* safety_lease_token IS NULL
    MaxSafeAttempts \* MESSAGE_SAFE_RETRY_MAX_ATTEMPTS

ASSUME KindsAssumption == DryRuns \subseteq Jobs /\ RunJobs \subseteq Jobs
ASSUME NullsAssumption == NoJob \notin Jobs /\ Nobody \notin Workers /\ NoToken \notin Tokens
ASSUME RetryAssumption == MaxSafeAttempts \in Nat \ {0}

VARIABLES
    job,        \* message_jobs
    queue,      \* runtime_queue_jobs of the message-send queue
    publishing, \* jobs the running tick has claimed and not yet published
    lane,       \* the ACTIVE_SESSION row of openwa_safety_leases
    run,        \* campaign_runs.status
    worker,     \* what each worker loop is doing
    wire,       \* requests to OpenWA that may still take effect, as <<job, attempt>>
    effects     \* messages OpenWA has sent

vars == <<job, queue, publishing, lane, run, worker, wire, effects>>

-----------------------------------------------------------------------------
JobStatus == {"SCHEDULED", "QUEUED", "PROCESSING", "ACCEPTED", "FAILED", "UNKNOWN",
              "CANCELLED", "DRY_RUN_COMPLETED"}
JobRecord ==
    [status : JobStatus,
     cancel : BOOLEAN,                      \* cancellation_requested_at IS NOT NULL
     started : BOOLEAN,                     \* current_upstream_started_at IS NOT NULL
     lease : {"none", "live", "expired"},   \* lease_expires_at
     token : Tokens \cup {NoToken},         \* safety_lease_token
     attempts : 0 .. MaxSafeAttempts]       \* attempt_count
QueueRecord == [present : BOOLEAN, owner : Workers \cup {Nobody}, live : BOOLEAN]
LaneRecord == [token : Tokens \cup {NoToken}, live : BOOLEAN]
Answers == {"ACCEPTED", "SAFE", "DEFINITIVE", "AMBIGUOUS"}
Phase == {"idle", "claimed", "processing", "reserved", "rejected", "posting", "answered",
          "written", "done"}
WorkerRecord ==
    [pc : Phase, job : Jobs \cup {NoJob}, token : Tokens \cup {NoToken},
     attempt : 0 .. MaxSafeAttempts, answer : Answers \cup {"none"}]

NoLane == [token |-> NoToken, live |-> FALSE]
NoRow == [present |-> FALSE, owner |-> Nobody, live |-> FALSE]
Idle == [pc |-> "idle", job |-> NoJob, token |-> NoToken, attempt |-> 0, answer |-> "none"]

Init ==
    /\ job = [j \in Jobs |-> [status |-> "SCHEDULED", cancel |-> FALSE, started |-> FALSE,
                              lease |-> "none", token |-> NoToken, attempts |-> 0]]
    /\ queue = [j \in Jobs |-> NoRow]
    /\ publishing = {} /\ lane = NoLane /\ run = "RUNNING"
    /\ worker = [w \in Workers |-> Idle]
    /\ wire = {} /\ effects = {}

\* NOT EXISTS (a campaign run of the job that is not RUNNING)
Runnable(j) == j \in RunJobs => run = "RUNNING"
Live == Jobs \ DryRuns

\* deferProcessing, the first update of markExpiredProcessingUnknown, and pause.
Reopened(row) == [row EXCEPT !.status = "SCHEDULED", !.lease = "none", !.token = NoToken]

\* WHERE status = 'PROCESSING' AND current_upstream_started_at IS NULL
Unstarted(j) == job[j].status = "PROCESSING" /\ ~job[j].started

-----------------------------------------------------------------------------
(* The scheduler tick: recover, claim, publish, one after the other.       *)

\* As a plausible slip writes it: a job whose queue row exists is left to the worker.
StaleQueuedMutant(j) == job[j].status = "QUEUED" /\ ~queue[j].present

StaleQueued(j) == job[j].status = "QUEUED"

RecoverStaleQueued(j) ==
    /\ publishing = {} /\ StaleQueued(j)
    /\ job' = [job EXCEPT ![j].status = "SCHEDULED"]
    /\ UNCHANGED <<queue, publishing, lane, run, worker, wire, effects>>

RecoverExpired(j) ==
    /\ publishing = {} /\ Unstarted(j) /\ job[j].lease = "expired"
    /\ job' = [job EXCEPT ![j] = Reopened(@)]
    /\ UNCHANGED <<queue, publishing, lane, run, worker, wire, effects>>

MarkExpiredUnknown(j) ==
    /\ publishing = {} /\ job[j].status = "PROCESSING" /\ job[j].started /\ job[j].lease = "expired"
    /\ job' = [job EXCEPT ![j] = [Reopened(@) EXCEPT !.status = "UNKNOWN"]]
    /\ UNCHANGED <<queue, publishing, lane, run, worker, wire, effects>>

Active(j) == job[j].status \in {"QUEUED", "PROCESSING"}

LaneOpen == ~lane.live /\ \A j \in Live : ~Active(j)

ClaimDue(claimed) ==
    /\ publishing = {} /\ claimed # {}
    /\ \A j \in claimed : job[j].status = "SCHEDULED" /\ Runnable(j)
    /\ \A i, k \in claimed \cap Live : i = k
    /\ claimed \cap Live # {} => LaneOpen
    /\ job' = [j \in Jobs |-> IF j \in claimed THEN [job[j] EXCEPT !.status = "QUEUED"] ELSE job[j]]
    /\ publishing' = claimed
    /\ UNCHANGED <<queue, lane, run, worker, wire, effects>>

\* INSERT ... ON CONFLICT (queue_name, job_id) DO NOTHING
Publish(j) ==
    /\ j \in publishing /\ publishing' = publishing \ {j}
    /\ queue' = IF queue[j].present THEN queue
                ELSE [queue EXCEPT ![j] = [NoRow EXCEPT !.present = TRUE]]
    /\ UNCHANGED <<job, lane, run, worker, wire, effects>>

PublishFails(j) ==
    /\ j \in publishing /\ publishing' = publishing \ {j}
    /\ job' = [job EXCEPT ![j].status = IF @ = "QUEUED" THEN "SCHEDULED" ELSE @]
    /\ UNCHANGED <<queue, lane, run, worker, wire, effects>>

SchedulerStops ==
    /\ publishing # {} /\ publishing' = {}
    /\ UNCHANGED <<job, queue, lane, run, worker, wire, effects>>

-----------------------------------------------------------------------------
(* The queue worker.                                                       *)

Goto(w, pc) == worker' = [worker EXCEPT ![w].pc = pc]
Owns(w) == queue[worker[w].job].present /\ queue[worker[w].job].owner = w

QueueClaim(w, j) ==
    /\ worker[w].pc = "idle" /\ queue[j].present /\ ~queue[j].live
    /\ queue' = [queue EXCEPT ![j].owner = w, ![j].live = TRUE]
    /\ worker' = [worker EXCEPT ![w].pc = "claimed", ![w].job = j]
    /\ UNCHANGED <<job, publishing, lane, run, wire, effects>>

Renew(w) ==
    /\ worker[w].pc # "idle" /\ Owns(w)
    /\ queue' = [queue EXCEPT ![worker[w].job].live = TRUE]
    /\ UNCHANGED <<job, publishing, lane, run, worker, wire, effects>>

\* The worker is asked to stop between its claim and its work.
QueueRelease(w) ==
    /\ worker[w].pc = "claimed"
    /\ queue' = IF Owns(w) THEN [queue EXCEPT ![worker[w].job] = [NoRow EXCEPT !.present = TRUE]]
                ELSE queue
    /\ worker' = [worker EXCEPT ![w] = Idle]
    /\ UNCHANGED <<job, publishing, lane, run, wire, effects>>

Complete(w) ==
    /\ worker[w].pc = "done"
    /\ queue' = IF Owns(w) THEN [queue EXCEPT ![worker[w].job] = NoRow] ELSE queue
    /\ worker' = [worker EXCEPT ![w] = Idle]
    /\ UNCHANGED <<job, publishing, lane, run, wire, effects>>

\* The process stops, or its last statement fails; leases and requests stay behind.
Crash(w) ==
    /\ worker[w].pc # "idle"
    /\ worker' = [worker EXCEPT ![w] = Idle]
    /\ UNCHANGED <<job, queue, publishing, lane, run, wire, effects>>

-----------------------------------------------------------------------------
(* process(): from markProcessing to the commit fence.                     *)

MarkProcessing(w) ==
    LET j == worker[w].job
        taken == job[j].status = "QUEUED" /\ ~job[j].cancel /\ Runnable(j)
    IN  /\ worker[w].pc = "claimed"
        /\ job' = IF taken THEN [job EXCEPT ![j].status = "PROCESSING", ![j].lease = "live"] ELSE job
        /\ Goto(w, IF taken THEN "processing" ELSE "done")
        /\ UNCHANGED <<queue, publishing, lane, run, wire, effects>>

\* As a plausible slip writes it: the result is written whatever became of the job.
UpdatedMutant(j, status) == [job[j] EXCEPT !.status = status, !.lease = "none"]

\* updateResult: UPDATE ... WHERE status = 'PROCESSING'. Neither the lease nor the token of
\* the worker is looked at.
Updated(j, status) ==
    IF job[j].status = "PROCESSING" THEN [job[j] EXCEPT !.status = status, !.lease = "none"]
    ELSE job[j]

DryRun(w) ==
    /\ worker[w].pc = "processing" /\ worker[w].job \in DryRuns
    /\ job' = [job EXCEPT ![worker[w].job] = Updated(worker[w].job, "DRY_RUN_COMPLETED")]
    /\ Goto(w, "done")
    /\ UNCHANGED <<queue, publishing, lane, run, wire, effects>>

\* An error before the request: with a permit in hand its outcome is recorded next.
Fail(w) ==
    /\ worker[w].pc \in {"processing", "reserved"}
    /\ job' = [job EXCEPT ![worker[w].job] = Updated(worker[w].job, "FAILED")]
    /\ Goto(w, IF worker[w].pc = "reserved" THEN "written" ELSE "done")
    /\ UNCHANGED <<queue, publishing, lane, run, wire, effects>>

\* onWait while the media budget is taken: refreshProcessingLease finds the lease gone.
SkipLostLease(w) ==
    /\ worker[w].pc = "processing" /\ worker[w].job \in Live
    /\ ~(job[worker[w].job].status = "PROCESSING" /\ job[worker[w].job].lease = "live")
    /\ Goto(w, "done")
    /\ UNCHANGED <<job, queue, publishing, lane, run, wire, effects>>

\* A policy block, a deferring governor or, after the fence, its rejection.
Defer(w) ==
    LET j == worker[w].job IN
    /\ worker[w].pc \in {"processing", "rejected"} /\ j \in Live
    /\ job' = IF Unstarted(j) THEN [job EXCEPT ![j] = Reopened(@)] ELSE job
    /\ Goto(w, "done")
    /\ UNCHANGED <<queue, publishing, lane, run, wire, effects>>

UsedTokens == {lane.token} \cup {job[j].token : j \in Jobs} \cup {worker[w].token : w \in Workers}

\* reserveMessage grants; a job that is not PROCESSING or is cancelled makes it throw (Fail).
Reserve(w, t) ==
    LET j == worker[w].job IN
    /\ worker[w].pc = "processing" /\ j \in Live
    /\ ~lane.live /\ t \notin UsedTokens
    /\ job[j].status = "PROCESSING" /\ ~job[j].cancel
    /\ lane' = [token |-> t, live |-> TRUE]
    /\ job' = [job EXCEPT ![j].token = t]
    /\ worker' = [worker EXCEPT ![w].pc = "reserved", ![w].token = t]
    /\ UNCHANGED <<queue, publishing, run, wire, effects>>

\* releaseWithClient: the lane and the token of the job, if they are still this permit's.
ReleasedLane(t) == IF lane.token = t THEN NoLane ELSE lane
ReleasedRow(row, t) == IF row.token = t THEN [row EXCEPT !.token = NoToken] ELSE row

\* The WHERE of commitMessageStart, without what concerns other components.
Committable(w) ==
    LET j == worker[w].job IN
    /\ worker[w].pc = "reserved"
    /\ job[j].status = "PROCESSING" /\ job[j].token = worker[w].token
    /\ ~job[j].cancel /\ ~job[j].started /\ Runnable(j)
    /\ lane = [token |-> worker[w].token, live |-> TRUE]

StartedRow(row) == [row EXCEPT !.started = TRUE, !.attempts = @ + 1]

\* The boundary is recorded in rows, and the POST goes out.
Start(w, rows) ==
    LET j == worker[w].job IN
    /\ job' = [rows EXCEPT ![j] = StartedRow(@)]
    /\ worker' = [worker EXCEPT ![w].pc = "posting", ![w].attempt = job[j].attempts + 1]
    /\ wire' = wire \cup {<<j, job[j].attempts + 1>>}

Commit(w) ==
    /\ Committable(w) /\ Start(w, job)
    /\ UNCHANGED <<queue, publishing, lane, run, effects>>

\* The session, the group, a circuit or the job itself does not pass the fence.
CommitRejected(w) ==
    LET j == worker[w].job IN
    /\ worker[w].pc = "reserved"
    /\ lane' = ReleasedLane(worker[w].token)
    /\ job' = [job EXCEPT ![j] = ReleasedRow(@, worker[w].token)]
    /\ Goto(w, "rejected")
    /\ UNCHANGED <<queue, publishing, run, wire, effects>>

-----------------------------------------------------------------------------
(* The request, its answer and what process() writes.                      *)

Request(w) == <<worker[w].job, worker[w].attempt>>

\* OpenWA sends the message, whether or not anybody still waits for the answer.
TakesEffect(request) ==
    /\ request \in wire
    /\ wire' = wire \ {request} /\ effects' = effects \cup {request}
    /\ UNCHANGED <<job, queue, publishing, lane, run, worker>>

\* A 4xx other than 408 proves that nothing was sent (SAFE: 409 and 429); a timeout, a 5xx or
\* a broken answer proves nothing.
Answered(w, answer) ==
    /\ worker[w].pc = "posting"
    /\ answer = "ACCEPTED" => Request(w) \in effects
    /\ answer \in {"SAFE", "DEFINITIVE"} => Request(w) \in wire
    /\ wire' = IF answer \in {"SAFE", "DEFINITIVE"} THEN wire \ {Request(w)} ELSE wire
    /\ worker' = [worker EXCEPT ![w].pc = "answered", ![w].answer = answer]
    /\ UNCHANGED <<job, queue, publishing, lane, run, effects>>

\* As a plausible slip writes it: the limit is passed by one attempt.
BelowRetryLimitMutant(w) == worker[w].attempt <= MaxSafeAttempts

BelowRetryLimit(w) == worker[w].attempt < MaxSafeAttempts

\* As a plausible slip writes it: a timeout is taken for a rejection.
RetryableMutant(w) == worker[w].answer \in {"SAFE", "AMBIGUOUS"} /\ BelowRetryLimit(w)

Retryable(w) == worker[w].answer = "SAFE" /\ BelowRetryLimit(w)

\* As a plausible slip writes it: an answer that cannot be read is a success.
ResultMutant(answer) == IF answer \in {"SAFE", "DEFINITIVE"} THEN "FAILED" ELSE "ACCEPTED"

Result(answer) ==
    CASE answer = "ACCEPTED" -> "ACCEPTED" [] answer = "AMBIGUOUS" -> "UNKNOWN" [] OTHER -> "FAILED"

\* rescheduleProcessing
RetriedRow(row) ==
    IF row.status = "PROCESSING" THEN [Reopened(row) EXCEPT !.started = FALSE] ELSE row

WriteResult(w) ==
    LET j == worker[w].job IN
    /\ worker[w].pc = "answered"
    /\ job' = [job EXCEPT ![j] = IF Retryable(w) THEN RetriedRow(@)
                                 ELSE Updated(j, Result(worker[w].answer))]
    /\ Goto(w, "written")
    /\ UNCHANGED <<queue, publishing, lane, run, wire, effects>>

\* The database refuses: an acceptance that could not be written becomes an unknown outcome
\* in the catch block, and anything else leaves process() for good.
WriteFails(w) ==
    /\ worker[w].pc = "answered"
    /\ worker' = IF worker[w].answer = "ACCEPTED" THEN [worker EXCEPT ![w].answer = "AMBIGUOUS"]
                 ELSE [worker EXCEPT ![w].pc = "done"]
    /\ UNCHANGED <<job, queue, publishing, lane, run, wire, effects>>

\* recordSafetyOutcome: an error is logged, and the lane is left to expire.
RecordOutcome(w) ==
    /\ worker[w].pc = "written"
    /\ \/ /\ lane' = ReleasedLane(worker[w].token)
          /\ job' = [job EXCEPT ![worker[w].job] = ReleasedRow(@, worker[w].token)]
       \/ UNCHANGED <<lane, job>>
    /\ Goto(w, "done")
    /\ UNCHANGED <<queue, publishing, run, wire, effects>>

-----------------------------------------------------------------------------
(* Time.                                                                   *)

QueueLeaseExpires(j) ==
    /\ queue[j].live /\ queue' = [queue EXCEPT ![j].live = FALSE]
    /\ UNCHANGED <<job, publishing, lane, run, worker, wire, effects>>

LeaseExpires(j) ==
    /\ job[j].lease = "live" /\ job' = [job EXCEPT ![j].lease = "expired"]
    /\ UNCHANGED <<queue, publishing, lane, run, worker, wire, effects>>

LaneExpires ==
    /\ lane.live /\ lane' = [lane EXCEPT !.live = FALSE]
    /\ UNCHANGED <<job, queue, publishing, run, worker, wire, effects>>

-----------------------------------------------------------------------------
(* The campaign run.                                                       *)

\* DELETE FROM openwa_safety_leases WHERE lease_token IN (tokens of the rows taken back)
LaneWithout(taken) == IF lane.token \in {job[j].token : j \in taken} THEN NoLane ELSE lane

PauseTakes == {j \in RunJobs : job[j].status = "QUEUED" \/ Unstarted(j)}
PausedRows == [j \in Jobs |-> IF j \in PauseTakes THEN Reopened(job[j]) ELSE job[j]]

Pause ==
    /\ run = "RUNNING" /\ run' = "PAUSED"
    /\ job' = PausedRows /\ lane' = LaneWithout(PauseTakes)
    /\ UNCHANGED <<queue, publishing, worker, wire, effects>>

\* materializePending finds the session not sendable and touches the run only.
PauseForSession ==
    /\ run = "RUNNING" /\ run' = "PAUSED"
    /\ UNCHANGED <<job, queue, publishing, lane, worker, wire, effects>>

Resume ==
    /\ run = "PAUSED" /\ run' = "RUNNING"
    /\ UNCHANGED <<job, queue, publishing, lane, worker, wire, effects>>

CancelTakes == {j \in RunJobs : job[j].status \in {"SCHEDULED", "QUEUED"} \/ Unstarted(j)}
CancelledRow(j) ==
    IF j \in CancelTakes THEN [Reopened(job[j]) EXCEPT !.status = "CANCELLED", !.cancel = TRUE]
    ELSE [job[j] EXCEPT !.cancel = @ \/ (j \in RunJobs /\ job[j].status = "PROCESSING")]
CancelledRows == [j \in Jobs |-> CancelledRow(j)]
InFlight == \E j \in RunJobs : job[j].status = "PROCESSING"

CancelRun ==
    /\ run \in {"RUNNING", "PAUSED"}
    /\ run' = IF \E j \in RunJobs : CancelledRow(j).status = "PROCESSING" THEN "CANCELLING"
              ELSE "CANCELLED"
    /\ lane' = LaneWithout(CancelTakes)

Cancel ==
    /\ CancelRun /\ job' = CancelledRows
    /\ UNCHANGED <<queue, publishing, worker, wire, effects>>

\* As a plausible slip writes it: the run waits for jobs that nobody will take up any more.
FinalizableMutant == \A j \in RunJobs : job[j].status \notin {"SCHEDULED", "QUEUED", "PROCESSING"}

Finalizable == ~InFlight

Finalize ==
    /\ run = "CANCELLING" /\ Finalizable /\ run' = "CANCELLED"
    /\ UNCHANGED <<job, queue, publishing, lane, worker, wire, effects>>

-----------------------------------------------------------------------------
(* commitMessageStart reads its conditions from the statement's snapshot   *)
(* and then waits for the row lock of a transaction that is committing;    *)
(* PostgreSQL rechecks only the row it updates, by its id, not the other   *)
(* reference to message_jobs the conditions stand on. So a pause, a        *)
(* cancellation or a recovery that holds the lock is overlooked.           *)

CommitBehindPause(w) ==
    /\ Committable(w) /\ worker[w].job \in RunJobs
    /\ run = "RUNNING" /\ run' = "PAUSED"
    /\ Start(w, PausedRows) /\ lane' = LaneWithout(PauseTakes)
    /\ UNCHANGED <<queue, publishing, effects>>

CommitBehindCancel(w) ==
    /\ Committable(w) /\ worker[w].job \in RunJobs
    /\ CancelRun /\ Start(w, CancelledRows)
    /\ UNCHANGED <<queue, publishing, effects>>

CommitBehindRecovery(w) ==
    /\ Committable(w) /\ publishing = {} /\ job[worker[w].job].lease = "expired"
    /\ Start(w, [job EXCEPT ![worker[w].job] = Reopened(@)])
    /\ UNCHANGED <<queue, publishing, lane, run, effects>>

-----------------------------------------------------------------------------
TickStep ==
    \/ \E j \in Jobs : RecoverStaleQueued(j) \/ RecoverExpired(j) \/ MarkExpiredUnknown(j)
                       \/ Publish(j) \/ PublishFails(j)
    \/ \E claimed \in SUBSET Jobs : ClaimDue(claimed)
    \/ SchedulerStops
WorkerStep(w) ==
    \/ \E j \in Jobs : QueueClaim(w, j)
    \/ Renew(w) \/ QueueRelease(w) \/ Complete(w) \/ Crash(w)
    \/ MarkProcessing(w) \/ DryRun(w) \/ Fail(w) \/ SkipLostLease(w) \/ Defer(w)
    \/ \E t \in Tokens : Reserve(w, t)
    \/ Commit(w) \/ CommitRejected(w)
    \/ \E answer \in Answers : Answered(w, answer)
    \/ WriteResult(w) \/ WriteFails(w) \/ RecordOutcome(w)
OverlookedStep(w) == CommitBehindPause(w) \/ CommitBehindCancel(w) \/ CommitBehindRecovery(w)
TimeStep == LaneExpires \/ \E j \in Jobs : QueueLeaseExpires(j) \/ LeaseExpires(j)
RunStep == Pause \/ PauseForSession \/ Resume \/ Cancel \/ Finalize

FencedNext ==
    \/ TickStep \/ TimeStep \/ RunStep
    \/ \E w \in Workers : WorkerStep(w)
    \/ \E request \in wire : TakesEffect(request)

Next == FencedNext \/ \E w \in Workers : OverlookedStep(w)

Spec == Init /\ [][Next]_vars

\* The system as if the fence saw every concurrent transaction: what goes wrong here does not
\* go wrong because of the isolation level.
FencedSpec == Init /\ [][FencedNext]_vars

\* The tick runs again and again and its statements succeed in the end; leases run out, those
\* of a job because a worker does not wait for the media budget for ever. Workers owe nothing.
Fairness ==
    /\ WF_vars(LaneExpires) /\ WF_vars(Finalize)
    /\ \A j \in Jobs :
          /\ WF_vars(Publish(j)) /\ WF_vars(LeaseExpires(j))
          /\ SF_vars(RecoverStaleQueued(j))
          /\ SF_vars(RecoverExpired(j)) /\ SF_vars(MarkExpiredUnknown(j))

FairSpec == Spec /\ Fairness

-----------------------------------------------------------------------------
(* Properties.                                                             *)

\* Rows and local state are well formed, no job is attempted more often than the retry limit
\* allows (process, commitMessageStart), and a busy worker handles a job.
TypeOK ==
    /\ job \in [Jobs -> JobRecord]
    /\ queue \in [Jobs -> QueueRecord]
    /\ publishing \subseteq Jobs
    /\ lane \in LaneRecord
    /\ run \in {"RUNNING", "PAUSED", "CANCELLING", "CANCELLED"}
    /\ worker \in [Workers -> WorkerRecord]
    /\ \A w \in Workers : worker[w].pc # "idle" => worker[w].job \in Jobs
    /\ wire \subseteq Jobs \X (1 .. MaxSafeAttempts)
    /\ effects \subseteq Jobs \X (1 .. MaxSafeAttempts)

Ended(j) == job[j].status \notin {"SCHEDULED", "QUEUED", "PROCESSING"}

\* At most one message goes out for a job: of all the requests that were sent or still may be,
\* no two belong to the same job, whatever leases expire and whoever writes late
\* (commitMessageStart, rescheduleProcessing).
OneMessage ==
    \A p, q \in wire \cup effects : p[1] = q[1] => p = q

\* At most one live job of the session is on its way or being processed, whoever claims,
\* recovers or defers (claimDue).
OneActiveJob ==
    \A i, j \in Live : (Active(i) /\ Active(j)) => i = j

\* A job that has ended stays as it ended: no late worker, recovery, pause or cancellation
\* revives it or rewrites how it ended (updateResult, deferProcessing, cancel).
EndedStays ==
    [][\A j \in Jobs : Ended(j) => job'[j].status = job[j].status]_vars

\* A job is reported accepted only when OpenWA has sent its message, although updateResult
\* does not look at who is writing.
AcceptedSent ==
    \A j \in Jobs : job[j].status = "ACCEPTED" => \E n \in 1 .. MaxSafeAttempts : <<j, n>> \in effects

\* A job leaves QUEUED and PROCESSING whatever happens to its worker, its queue row and the
\* request, so the session does not stay closed for other jobs, and a cancelled run does not
\* wait for ever for a send in flight (claimDue, cancel, finalize).
LaneReopens ==
    /\ []<>LaneOpen
    /\ run = "CANCELLING" ~> run = "CANCELLED"

=============================================================================
