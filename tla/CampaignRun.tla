----------------------------- MODULE CampaignRun -----------------------------
(***************************************************************************)
(* The campaign runs of one session: launch, preparation under a lease,    *)
(* the schedule window, the scheduler's tick, the operator's pause, resume *)
(* and cancel, the deliveries and the message jobs they turn into.         *)
(*   modules/campaigns/campaign-run.repository.ts                          *)
(*   modules/campaigns/campaign-run-lifecycle.repository.ts                *)
(*   modules/campaigns/campaign-delivery.repository.ts                     *)
(*   modules/campaigns/campaign-run.service.ts                             *)
(*   modules/orchestration/campaign-dispatch.tick.ts                       *)
(*   migrations/079 and 080: the triggers that refuse a transition         *)
(* The transaction that applies a preflight is two steps, because its      *)
(* statements read the groups one after the other (READ COMMITTED) while   *)
(* it locks only the run. Deadlines are leases that expire at any moment.  *)
(***************************************************************************)
EXTENDS Naturals, FiniteSets

CONSTANTS
    Campaigns,
    Once,           \* campaigns with schedule_type = 'ONCE', all due at the same instant
    Runs,           \* launch keys: one run each, once launched
    CampaignOf,     \* [Runs -> Campaigns]
    LiveRuns,       \* the launches with execution_mode = 'LIVE'
    Groups,         \* the target groups of every campaign
    Changing,       \* bound: the groups whose capability changes
    Workers,        \* queue workers that prepare runs
    Operators,      \* HTTP handlers of resume
    Nobody,         \* preparation_lease_token IS NULL
    MaxBuffered,    \* materializePending(runId, 5)
    MaxAttempts,    \* preparation_attempt_count < 3
    MaxRevision,    \* bound: capability_revision
    MaxTrouble      \* bound: crashes, failures, retries and session changes together

ASSUME KindsAssumption ==
    /\ CampaignOf \in [Runs -> Campaigns] /\ Once \subseteq Campaigns /\ LiveRuns \subseteq Runs
    /\ Changing \subseteq Groups
    /\ Nobody \notin Workers \cup Operators \cup Runs /\ Workers \cap Operators = {}
ASSUME BoundsAssumption ==
    /\ MaxBuffered \in Nat \ {0} /\ MaxAttempts \in Nat \ {0}
    /\ MaxRevision \in Nat /\ MaxTrouble \in Nat
ASSUME GroupsAssumption == IsFiniteSet(Groups)

VARIABLES
    campaign,   \* campaigns.status
    deleted,    \* campaigns with deleted_at
    run,        \* campaign_runs
    snap,       \* campaign_run_targets.capability_revision
    delivery,   \* campaign_deliveries.status
    job,        \* message_jobs.status of the delivery
    cap,        \* the capability columns of gateway_groups
    sendable,   \* the session is ready, loaded and not restricted
    clock,      \* where now() is in the schedule window
    leader,     \* the scheduler: down, starting its session, or running its ticks
    began,      \* where the clock was when the session of the leader began
    proc,       \* what each worker and each resume handler is doing
    trouble     \* how much of MaxTrouble is used

vars == <<campaign, deleted, run, snap, delivery, job, cap, sendable, clock, leader, began, proc, trouble>>
world == <<cap, sendable, clock>>

-----------------------------------------------------------------------------
RunStatus == {"none", "PREPARING", "BLOCKED", "SCHEDULED", "RUNNING", "PAUSED", "CANCELLING",
              "CANCELLED", "COMPLETED", "PARTIAL_FAILED", "FAILED"}
NonTerminal == {"PREPARING", "BLOCKED", "SCHEDULED", "RUNNING", "PAUSED"}
Revision == 0 .. MaxRevision
RunRecord == [status : RunStatus, attempts : 0 .. MaxAttempts, lease : Workers \cup {Nobody},
              live : BOOLEAN]               \* preparation_lease_expires_at > now()
CapRecord == [rev : Revision, allowed : BOOLEAN, stale : BOOLEAN]   \* stale: invalidated_at
\* SENT is with ACCEPTED, READ with DELIVERED; a dry run that completed is DELIVERED too.
Outcome == {"ACCEPTED", "DELIVERED", "FAILED", "UNKNOWN", "CANCELLED"}
\* QUEUED is with SCHEDULED; STARTED is PROCESSING with current_upstream_started_at.
JobStatus == {"none", "SCHEDULED", "PROCESSING", "STARTED"} \cup Outcome
DeliveryStatus == {"none", "PENDING", "MATERIALIZED", "PROCESSING", "BLOCKED"} \cup Outcome
Pcs == {"idle", "claimed", "read", "checked"}
ProcRecord == [pc : Pcs, run : Runs \cup {Nobody}, obs : [Groups -> Revision],
               verdict : {"PASS", "BLOCK"}]
Phases == {"early", "due", "late"}

NoObservation == [g \in Groups |-> 0]
Idle == [pc |-> "idle", run |-> Nobody, obs |-> NoObservation, verdict |-> "BLOCK"]
NoRun == [status |-> "none", attempts |-> 0, lease |-> Nobody, live |-> FALSE]

Init ==
    /\ campaign = [c \in Campaigns |-> "DRAFT"] /\ deleted = {}
    /\ run = [r \in Runs |-> NoRun]
    /\ snap = [r \in Runs |-> NoObservation]
    /\ delivery = [r \in Runs |-> [g \in Groups |-> "none"]]
    /\ job = [r \in Runs |-> [g \in Groups |-> "none"]]
    /\ cap = [g \in Groups |-> [rev |-> 0, allowed |-> TRUE, stale |-> FALSE]]
    /\ sendable = TRUE /\ clock = "early"
    /\ leader = "starting" /\ began = "early"
    /\ proc = [p \in Workers \cup Operators |-> Idle]
    /\ trouble = 0

Live(r) == r \in LiveRuns
Status(r) == run[r].status
Scheduled(r) == CampaignOf[r] \in Once
\* schedule_start_deadline_at IS NOT NULL
HasDeadline(r) == Live(r) /\ Scheduled(r)
\* scheduled_at <= now()
Due(r) == Scheduled(r) => clock # "early"
RunsOf(c) == {r \in Runs : CampaignOf[r] = c}
\* A transaction of p holds the row of r FOR UPDATE.
Unlocked(r) == \A p \in DOMAIN proc : proc[p].pc = "checked" => proc[p].run # r
AllUnlocked(S) == \A r \in S : Unlocked(r)

SetStatus(rows, S, status) == [r \in Runs |-> IF r \in S THEN [rows[r] EXCEPT !.status = status] ELSE rows[r]]
Exhausted(r) == run[r].attempts >= MaxAttempts
\* What becomes of a preparation whose attempt failed.
Spent(r) == IF Exhausted(r) THEN "FAILED" ELSE "PREPARING"
\* The row takes a status and gives up its lease, or its lease and the attempt too.
Leaves(row, status) == [row EXCEPT !.status = status, !.lease = Nobody, !.live = FALSE]
GivenBack(row) ==
    [row EXCEPT !.attempts = IF @ > 0 THEN @ - 1 ELSE 0, !.lease = Nobody, !.live = FALSE]
\* UPDATE campaigns SET status = to WHERE id IN (campaigns of the LIVE runs) AND status IN (from)
Moved(S, from, to) ==
    [c \in Campaigns |->
        IF campaign[c] \in from /\ \E r \in S \cap LiveRuns : CampaignOf[r] = c THEN to
        ELSE campaign[c]]
Archived(S) == Moved(S, {"ACTIVE", "PAUSED"}, "ARCHIVED")
Trouble == trouble < MaxTrouble /\ trouble' = trouble + 1

-----------------------------------------------------------------------------
(* Launch and deletion.                                                    *)

ActiveLive(r) == Live(r) /\ Status(r) \in NonTerminal \cup {"CANCELLING"}

\* The checks of create(), in a transaction that locks the campaign.
Launchable(r) ==
    /\ campaign[CampaignOf[r]] = "DRAFT"
    /\ \A s \in RunsOf(CampaignOf[r]) \cap LiveRuns : Status(s) = "none"
    /\ Live(r) => \A s \in Runs : ~ActiveLive(s)
    /\ HasDeadline(r) => ~Due(r)

Create(r) ==
    /\ CampaignOf[r] \notin deleted /\ Status(r) = "none" /\ Launchable(r)
    /\ run' = [run EXCEPT ![r].status = "PREPARING"]
    /\ snap' = [snap EXCEPT ![r] = [g \in Groups |-> cap[g].rev]]
    /\ campaign' = Moved({r}, {"DRAFT"}, "ACTIVE")
    /\ UNCHANGED <<deleted, delivery, job, world, leader, began, proc, trouble>>

Delete(c) ==
    /\ c \notin deleted /\ campaign[c] \in {"DRAFT", "ARCHIVED"}
    /\ \A r \in RunsOf(c) : Status(r) \notin NonTerminal
    /\ deleted' = deleted \cup {c}
    /\ UNCHANGED <<campaign, run, snap, delivery, job, world, leader, began, proc, trouble>>

-----------------------------------------------------------------------------
(* prepare() and resume(): read, evaluate, check, apply.                   *)

Revisions == [g \in Groups |-> cap[g].rev]
\* evaluateCampaignPreflight: what it reads here, or any other of its checks, can block.
Passing(r) == sendable /\ (Live(r) => \A g \in Groups : cap[g].allowed /\ ~cap[g].stale)
Verdicts(r) == {"BLOCK"} \cup (IF Passing(r) THEN {"PASS"} ELSE {})

\* As a plausible slip writes it: a lease that somebody holds is taken all the same.
ClaimableMutant(r) == Status(r) = "PREPARING" /\ run[r].attempts <= MaxAttempts

Claimable(r) ==
    /\ Status(r) = "PREPARING" /\ run[r].attempts < MaxAttempts
    /\ run[r].lease = Nobody \/ ~run[r].live

\* claimPreparation, by a worker with a prepare-run row. The row is no more than a wake-up: the
\* tick publishes one for every run that listPreparing finds, as long as it finds it.
Claim(w, r) ==
    /\ proc[w].pc = "idle" /\ Claimable(r) /\ Unlocked(r)
    /\ run' = [run EXCEPT ![r].attempts = @ + 1, ![r].lease = w, ![r].live = TRUE]
    /\ proc' = [proc EXCEPT ![w] = [Idle EXCEPT !.pc = "claimed", !.run = r]]
    /\ UNCHANGED <<campaign, deleted, snap, delivery, job, world, leader, began, trouble>>

Observed(r, verdict) == [pc |-> "read", run |-> r, obs |-> Revisions, verdict |-> verdict]

\* getPreflightContext and evaluate; a run that is not PREPARING any more is left alone.
ReadInput(w) ==
    LET r == proc[w].run IN
    /\ proc[w].pc = "claimed"
    /\ IF Status(r) = "PREPARING"
       THEN \E verdict \in Verdicts(r) : proc' = [proc EXCEPT ![w] = Observed(r, verdict)]
       ELSE proc' = [proc EXCEPT ![w] = Idle]
    /\ UNCHANGED <<campaign, deleted, run, snap, delivery, job, world, leader, began, trouble>>

Owns(w) ==
    LET r == proc[w].run IN Status(r) = "PREPARING" /\ run[r].lease = w /\ run[r].live

\* failPreparationAttempt, from the catch block.
FailAttempt(w) ==
    LET r == proc[w].run
        ended == Owns(w) /\ Exhausted(r)
    IN  /\ proc[w].pc \in {"claimed", "read"} /\ Unlocked(r) /\ Trouble
        /\ run' = IF Owns(w)
                  THEN [run EXCEPT ![r] = Leaves(@, Spent(r))]
                  ELSE run
        /\ campaign' = IF ended THEN Archived({r}) ELSE campaign
        /\ proc' = [proc EXCEPT ![w] = Idle]
        /\ UNCHANGED <<deleted, snap, delivery, job, world, leader, began>>

\* applyPreflight up to the decision. What does not go on to Apply commits here.
Check(w) ==
    LET r == proc[w].run
        changed == proc[w].obs # Revisions
        missed == HasDeadline(r) /\ Due(r)
        ends == IF missed THEN "PAUSED" ELSE "BLOCKED"
    IN  /\ proc[w].pc = "read" /\ w \in Workers /\ Unlocked(r)
        /\ \/ /\ ~Owns(w)                                       \* LOST_OWNERSHIP
              /\ proc' = [proc EXCEPT ![w] = Idle] /\ UNCHANGED <<run, campaign>>
           \/ /\ Owns(w) /\ changed                             \* STALE_INPUT
              /\ run' = [run EXCEPT ![r] = GivenBack(@)]
              /\ proc' = [proc EXCEPT ![w] = Idle] /\ UNCHANGED campaign
           \/ /\ Owns(w) /\ ~changed /\ (missed \/ proc[w].verdict = "BLOCK")
              /\ run' = [run EXCEPT ![r] = Leaves(@, ends)]
              /\ campaign' = IF missed THEN Moved({r}, {"ACTIVE"}, "PAUSED") ELSE campaign
              /\ proc' = [proc EXCEPT ![w] = Idle]
           \/ /\ Owns(w) /\ ~changed /\ ~missed /\ proc[w].verdict = "PASS"
              /\ proc' = [proc EXCEPT ![w].pc = "checked"] /\ UNCHANGED <<run, campaign>>
        /\ UNCHANGED <<deleted, snap, delivery, job, world, leader, began, trouble>>

Opened(r) == [g \in Groups |-> IF delivery[r][g] = "none" THEN "PENDING" ELSE delivery[r][g]]
Begun(r) == IF Due(r) THEN "RUNNING" ELSE "SCHEDULED"

\* The rest of the transaction: the targets take the columns the groups have now.
Apply(w) ==
    LET r == proc[w].run IN
    /\ proc[w].pc = "checked" /\ w \in Workers
    /\ snap' = [snap EXCEPT ![r] = Revisions]
    /\ delivery' = [delivery EXCEPT ![r] = Opened(r)]
    /\ run' = [run EXCEPT ![r] = Leaves(@, Begun(r))]
    /\ proc' = [proc EXCEPT ![w] = Idle]
    /\ UNCHANGED <<campaign, deleted, job, world, leader, began, trouble>>

\* The process stops; its open transaction is rolled back, its lease stays.
WorkerCrash(w) ==
    /\ proc[w].pc # "idle" /\ Trouble
    /\ proc' = [proc EXCEPT ![w] = Idle]
    /\ UNCHANGED <<campaign, deleted, run, snap, delivery, job, world, leader, began>>

LeaseExpires(r) ==
    /\ run[r].live /\ run' = [run EXCEPT ![r].live = FALSE]
    /\ UNCHANGED <<campaign, deleted, snap, delivery, job, world, leader, began, proc, trouble>>

-----------------------------------------------------------------------------
(* CampaignDispatchTick.run. Its transactions come one after the other    *)
(* and again every second; between any two of them anything may commit.    *)

Ticking == leader = "ticking"

\* beginSchedulerSession: what fell due while no scheduler ran waits for the operator.
Held == {r \in LiveRuns : Status(r) \in {"PREPARING", "SCHEDULED"} /\ HasDeadline(r) /\ Due(r)}

\* As a plausible slip writes it: only what is past its deadline is held.
HoldDueMutant ==
    /\ leader = "starting" /\ AllUnlocked(Held) /\ leader' = "ticking" /\ began' = clock
    /\ run' = [r \in Runs |-> IF r \in Held /\ clock = "late" THEN Leaves(run[r], "PAUSED")
                              ELSE run[r]]
    /\ campaign' = IF clock = "late" THEN Moved(Held, {"ACTIVE"}, "PAUSED") ELSE campaign
    /\ UNCHANGED <<deleted, snap, delivery, job, world, proc, trouble>>

HoldDue ==
    /\ leader = "starting" /\ AllUnlocked(Held) /\ leader' = "ticking" /\ began' = clock
    /\ run' = [r \in Runs |-> IF r \in Held THEN Leaves(run[r], "PAUSED") ELSE run[r]]
    /\ campaign' = Moved(Held, {"ACTIVE"}, "PAUSED")
    /\ UNCHANGED <<deleted, snap, delivery, job, world, proc, trouble>>

\* As a plausible slip writes it: only a run without a lease is looked at.
AbandonedMutant == {r \in Runs : Status(r) = "PREPARING" /\ run[r].lease = Nobody /\ Exhausted(r)}

Abandoned == {r \in Runs : Status(r) = "PREPARING" /\ (IF run[r].lease = Nobody THEN Exhausted(r) ELSE ~run[r].live)}

\* As a plausible slip writes it: the campaign of a run that failed keeps its status.
RecoverMutant ==
    /\ Ticking /\ AllUnlocked(Abandoned)
    /\ run' = [r \in Runs |-> IF r \in Abandoned
                              THEN Leaves(run[r], Spent(r))
                              ELSE run[r]]
    /\ UNCHANGED <<campaign, deleted, snap, delivery, job, world, leader, began, proc, trouble>>

\* recoverExpiredPreparations
Recover ==
    /\ Ticking /\ AllUnlocked(Abandoned)
    /\ run' = [r \in Runs |-> IF r \in Abandoned
                              THEN Leaves(run[r], Spent(r))
                              ELSE run[r]]
    /\ campaign' = Archived({r \in Abandoned : Exhausted(r)})
    /\ UNCHANGED <<deleted, snap, delivery, job, world, leader, began, proc, trouble>>

Missed == {r \in LiveRuns : HasDeadline(r) /\ \/ Status(r) = "PREPARING" /\ Due(r)
                                              \/ Status(r) = "SCHEDULED" /\ clock = "late"}
Startable == {r \in Runs : Status(r) = "SCHEDULED" /\ Due(r) /\ (HasDeadline(r) => clock # "late")}

\* activateDue
Activate ==
    /\ Ticking /\ AllUnlocked(Missed \cup Startable)
    /\ run' = [r \in Runs |-> IF r \in Startable THEN [run[r] EXCEPT !.status = "RUNNING"]
                              ELSE IF r \in Missed THEN Leaves(run[r], "PAUSED")
                              ELSE run[r]]
    /\ campaign' = Moved(Missed, {"ACTIVE"}, "PAUSED")
    /\ UNCHANGED <<deleted, snap, delivery, job, world, leader, began, proc, trouble>>

\* As the trigger of 055 had it, with the jobs' trigger of 080.
FollowsMutant(status) ==
    CASE status = "PENDING" -> {"MATERIALIZED", "BLOCKED", "CANCELLED"}
      [] status = "MATERIALIZED" -> {"PROCESSING"} \cup Outcome
      [] status = "PROCESSING" -> Outcome \ {"CANCELLED"}
      [] status = "UNKNOWN" -> {"DELIVERED", "FAILED"}
      [] status = "ACCEPTED" -> {"DELIVERED", "FAILED"}
      [] OTHER -> {}

\* What the trigger of 080 lets a delivery become.
Follows(status) ==
    CASE status = "PENDING" -> {"MATERIALIZED", "BLOCKED", "CANCELLED"}
      [] status = "MATERIALIZED" -> {"PROCESSING"} \cup Outcome
      [] status = "PROCESSING" -> Outcome \ {"CANCELLED"}
      [] status = "UNKNOWN" -> {"ACCEPTED", "DELIVERED", "FAILED"}
      [] status = "ACCEPTED" -> {"DELIVERED", "FAILED"}
      [] OTHER -> {}
Permitted(from, to) == from = to \/ to \in Follows(from)

\* What reconcile() wants the delivery to be.
Target(r, g) ==
    CASE job[r][g] = "STARTED" -> "PROCESSING"
      [] job[r][g] \in {"none", "SCHEDULED"} -> delivery[r][g]
      [] OTHER -> job[r][g]
Reconcilable == \A r \in Runs, g \in Groups : Permitted(delivery[r][g], Target(r, g))

\* One UPDATE for every run; a transition the trigger refuses would end the tick here.
Reconcile ==
    /\ Ticking /\ Reconcilable
    /\ delivery' = [r \in Runs |-> [g \in Groups |-> Target(r, g)]]
    /\ UNCHANGED <<campaign, deleted, run, snap, job, world, leader, began, proc, trouble>>

InFlight(rows, r) == \E g \in Groups : rows[r][g] \in {"PROCESSING", "STARTED"}
Deliveries(r) == {delivery[r][g] : g \in Groups} \ {"none"}
Settled(r) == Deliveries(r) # {} /\ Deliveries(r) \cap {"PENDING", "MATERIALIZED", "PROCESSING"} = {}
Aggregate(r) ==
    IF Deliveries(r) \cap {"FAILED", "UNKNOWN", "BLOCKED", "CANCELLED"} # {} THEN "PARTIAL_FAILED"
    ELSE "COMPLETED"
Cancelled == {r \in Runs : Status(r) = "CANCELLING" /\ ~InFlight(job, r) /\ Unlocked(r)}

\* As a plausible slip writes it: a run that has its outcome keeps it.
FinishedMutant == {r \in Runs : Status(r) = "RUNNING" /\ Settled(r)}

Finished == {r \in Runs : Status(r) \in {"RUNNING", "COMPLETED", "PARTIAL_FAILED"} /\ Settled(r)}

\* finalize: also the late correction of an outcome.
Finalize ==
    /\ Ticking
    /\ run' = [r \in Runs |-> IF r \in Cancelled THEN [run[r] EXCEPT !.status = "CANCELLED"]
                              ELSE IF r \in Finished THEN [run[r] EXCEPT !.status = Aggregate(r)]
                              ELSE run[r]]
    /\ campaign' = Archived(Cancelled \cup Finished)
    /\ UNCHANGED <<deleted, snap, delivery, job, world, leader, began, proc, trouble>>

Unfinished(r) == {g \in Groups : job[r][g] \in {"SCHEDULED", "PROCESSING", "STARTED"}}
\* As a plausible slip writes it: the limit of one is for dry runs.
SlotsMutant(r) == (IF Live(r) THEN MaxBuffered ELSE 1) - Cardinality(Unfinished(r))

Slots(r) == (IF Live(r) THEN 1 ELSE MaxBuffered) - Cardinality(Unfinished(r))
Pending(r) == {g \in Groups : delivery[r][g] = "PENDING"}
Changed(r, g) == Live(r) /\ (snap[r][g] # cap[g].rev \/ ~cap[g].allowed)

\* materializePending, which locks the run and looks at its status again.
Materialize(r) ==
    /\ Ticking /\ Status(r) = "RUNNING" /\ Unlocked(r)
    /\ \/ /\ Live(r) /\ ~sendable
          /\ run' = [run EXCEPT ![r].status = "PAUSED"]
          /\ campaign' = Moved({r}, {"ACTIVE"}, "PAUSED")
          /\ UNCHANGED <<delivery, job>>
       \/ /\ Live(r) => sendable
          /\ Slots(r) > 0
          /\ \E S \in SUBSET Pending(r) :
                /\ Cardinality(S) = Slots(r) \/ (S = Pending(r) /\ Cardinality(S) < Slots(r))
                /\ delivery' = [delivery EXCEPT ![r] = [g \in Groups |->
                      IF g \notin S THEN @[g] ELSE IF Changed(r, g) THEN "BLOCKED" ELSE "MATERIALIZED"]]
                /\ job' = [job EXCEPT ![r] = [g \in Groups |->
                      IF g \in S /\ ~Changed(r, g) THEN "SCHEDULED" ELSE @[g]]]
          /\ UNCHANGED <<run, campaign>>
    /\ UNCHANGED <<deleted, snap, world, leader, began, proc, trouble>>

\* The process that leads stops; the next leader begins a session of its own.
SchedulerCrash ==
    /\ leader # "down" /\ Trouble /\ leader' = "down" /\ began' = "early"
    /\ UNCHANGED <<campaign, deleted, run, snap, delivery, job, world, proc>>

SchedulerLeads ==
    /\ leader = "down" /\ leader' = "starting"
    /\ UNCHANGED <<campaign, deleted, run, snap, delivery, job, world, began, proc, trouble>>

-----------------------------------------------------------------------------
(* The operator. A repeated request whose receipt is found changes nothing *)
(* and is not a step.                                                      *)

Pause(r) ==
    /\ Status(r) \in {"SCHEDULED", "RUNNING"} /\ Unlocked(r)
    /\ run' = [run EXCEPT ![r].status = "PAUSED"]
    /\ job' = [job EXCEPT ![r] = [g \in Groups |-> IF @[g] = "PROCESSING" THEN "SCHEDULED" ELSE @[g]]]
    /\ campaign' = Moved({r}, {"ACTIVE"}, "PAUSED")
    /\ UNCHANGED <<deleted, snap, delivery, world, leader, began, proc, trouble>>

\* cancel() takes back what no request to OpenWA was made for.
TakenBack(r) == [g \in Groups |-> IF job[r][g] \in {"SCHEDULED", "PROCESSING"} THEN "CANCELLED" ELSE job[r][g]]
ToCancel(r) == {g \in Groups : Opened(r)[g] = "PENDING" \/ TakenBack(r)[g] = "CANCELLED"}
\* The trigger of 080 refuses one of the rows, and the transaction is rolled back.
CancelRaises(r) == \E g \in ToCancel(r) : ~Permitted(Opened(r)[g], "CANCELLED")

Cancel(r) ==
    LET ended == ~\E g \in Groups : TakenBack(r)[g] = "STARTED" IN
    /\ Status(r) \in NonTerminal /\ Unlocked(r) /\ ~CancelRaises(r)
    /\ run' = [run EXCEPT ![r].status = IF ended THEN "CANCELLED" ELSE "CANCELLING"]
    /\ job' = [job EXCEPT ![r] = TakenBack(r)]
    /\ delivery' = [delivery EXCEPT ![r] = [g \in Groups |-> IF g \in ToCancel(r) THEN "CANCELLED" ELSE Opened(r)[g]]]
    /\ campaign' = Moved({r}, {"ACTIVE", "PAUSED"}, IF ended THEN "ARCHIVED" ELSE "PAUSED")
    /\ UNCHANGED <<deleted, snap, world, leader, began, proc, trouble>>

\* resume() of the service: the early checks, the read and the evaluation.
ResumeRead(o, r) ==
    /\ proc[o].pc = "idle" /\ Status(r) \in {"PAUSED", "BLOCKED"}
    /\ \E verdict \in Verdicts(r) : proc' = [proc EXCEPT ![o] = Observed(r, verdict)]
    /\ UNCHANGED <<campaign, deleted, run, snap, delivery, job, world, leader, began, trouble>>

\* rejectResume, or the conflict answers of resume().
ResumeRefused(o) ==
    LET r == proc[o].run
        resumable == Status(r) \in {"PAUSED", "BLOCKED"}
    IN  /\ proc[o].pc = "read" /\ o \in Operators /\ Unlocked(r)
        /\ \/ /\ resumable /\ proc[o].verdict = "BLOCK"
              /\ run' = [run EXCEPT ![r].status = "BLOCKED"]
           \/ /\ ~resumable \/ (proc[o].verdict = "PASS" /\ proc[o].obs # Revisions)
              /\ UNCHANGED <<run>>
        /\ proc' = [proc EXCEPT ![o] = Idle]
        /\ UNCHANGED <<campaign, deleted, snap, delivery, job, world, leader, began, trouble>>

ResumeCheck(o) ==
    LET r == proc[o].run IN
    /\ proc[o].pc = "read" /\ o \in Operators /\ Unlocked(r)
    /\ Status(r) \in {"PAUSED", "BLOCKED"}
    /\ proc[o].verdict = "PASS" /\ proc[o].obs = Revisions
    /\ proc' = [proc EXCEPT ![o].pc = "checked"]
    /\ UNCHANGED <<campaign, deleted, run, snap, delivery, job, world, leader, began, trouble>>

ResumeApply(o) ==
    LET r == proc[o].run IN
    /\ proc[o].pc = "checked" /\ o \in Operators
    /\ snap' = [snap EXCEPT ![r] = [g \in Groups |->
          IF delivery[r][g] \in {"none", "PENDING"} THEN cap[g].rev ELSE @[g]]]
    /\ delivery' = [delivery EXCEPT ![r] = Opened(r)]
    /\ run' = [run EXCEPT ![r].status = Begun(r)]
    /\ campaign' = Moved({r}, {"PAUSED"}, "ACTIVE")
    /\ proc' = [proc EXCEPT ![o] = Idle]
    /\ UNCHANGED <<deleted, job, world, leader, began, trouble>>

-----------------------------------------------------------------------------
(* Message jobs, as MessageDispatch and the evidence move them.            *)

JobTo(r, g, status) ==
    /\ job' = [job EXCEPT ![r][g] = status]
    /\ UNCHANGED <<campaign, deleted, run, snap, delivery, world, leader, began, proc>>

JobClaimed(r, g) ==
    /\ job[r][g] = "SCHEDULED" /\ Status(r) = "RUNNING" /\ JobTo(r, g, "PROCESSING") /\ UNCHANGED trouble
JobStarted(r, g) ==
    /\ job[r][g] = "PROCESSING" /\ Live(r) /\ Status(r) = "RUNNING" /\ JobTo(r, g, "STARTED") /\ UNCHANGED trouble
JobDryRun(r, g) ==
    /\ job[r][g] = "PROCESSING" /\ ~Live(r) /\ JobTo(r, g, "DELIVERED") /\ UNCHANGED trouble
JobAnswered(r, g) ==
    /\ job[r][g] = "STARTED" /\ UNCHANGED trouble
    /\ \E outcome \in {"ACCEPTED", "FAILED", "UNKNOWN"} : JobTo(r, g, outcome)
\* A deferral, an expired lease, or a rejection that is safe to retry.
JobPutBack(r, g) ==
    /\ job[r][g] \in {"PROCESSING", "STARTED"} /\ Trouble /\ JobTo(r, g, "SCHEDULED")
\* The worker fails before it asks OpenWA.
JobFailed(r, g) == job[r][g] = "PROCESSING" /\ Trouble /\ JobTo(r, g, "FAILED")
\* The trigger of message_jobs lets evidence resolve what is accepted or unknown.
JobEvidence(r, g) ==
    /\ job[r][g] \in {"ACCEPTED", "UNKNOWN"} /\ Trouble
    /\ \E outcome \in {"ACCEPTED", "DELIVERED", "FAILED"} \ {job[r][g]} : JobTo(r, g, outcome)

-----------------------------------------------------------------------------
(* Groups, session and time.                                               *)

Cap(g, new) ==
    /\ cap' = [cap EXCEPT ![g] = new]
    /\ UNCHANGED <<campaign, deleted, run, snap, delivery, job, sendable, clock, leader, began, proc,
                   trouble>>

\* A group event: the status stays, the revision advances.
Invalidate(g) ==
    /\ cap[g].rev < MaxRevision
    /\ Cap(g, [cap[g] EXCEPT !.rev = @ + 1, !.stale = TRUE])

\* A detail read: the revision advances when the status changes.
Refresh(g, allowed) ==
    /\ cap[g].stale \/ allowed # cap[g].allowed
    /\ allowed # cap[g].allowed => cap[g].rev < MaxRevision
    /\ Cap(g, [rev |-> IF allowed # cap[g].allowed THEN cap[g].rev + 1 ELSE cap[g].rev,
               allowed |-> allowed, stale |-> FALSE])

SessionChanges ==
    /\ sendable' = ~sendable /\ (sendable => Trouble) /\ (~sendable => UNCHANGED trouble)
    /\ UNCHANGED <<campaign, deleted, run, snap, delivery, job, cap, clock, leader, began, proc>>

\* No transaction stays open for the length of the grace window.
Time ==
    /\ Once # {}
    /\ \/ clock = "early" /\ clock' = "due"
       \/ clock = "due" /\ clock' = "late" /\ \A p \in DOMAIN proc : proc[p].pc # "checked"
    /\ UNCHANGED <<campaign, deleted, run, snap, delivery, job, cap, sendable, leader, began, proc,
                   trouble>>

-----------------------------------------------------------------------------
Worker(w) ==
    \/ \E r \in Runs : Claim(w, r)
    \/ ReadInput(w) \/ Check(w) \/ Apply(w)
TickStep ==
    \/ HoldDue \/ Recover \/ Activate \/ Reconcile \/ Finalize
    \/ SchedulerLeads \/ \E r \in Runs : Materialize(r)
JobMoves(r, g) == JobClaimed(r, g) \/ JobStarted(r, g) \/ JobDryRun(r, g) \/ JobAnswered(r, g)
Resume(o) ==
    \/ \E r \in Runs : ResumeRead(o, r)
    \/ ResumeRefused(o) \/ ResumeCheck(o) \/ ResumeApply(o)

Next ==
    \/ \E r \in Runs : Create(r) \/ LeaseExpires(r)
    \/ \E r \in Runs : Pause(r) \/ Cancel(r)
    \/ \E c \in Campaigns : Delete(c)
    \/ \E w \in Workers : Worker(w) \/ FailAttempt(w)
    \/ \E p \in Workers \cup Operators : WorkerCrash(p)
    \/ \E o \in Operators : Resume(o)
    \/ TickStep \/ SchedulerCrash
    \/ \E r \in Runs, g \in Groups : JobMoves(r, g) \/ JobPutBack(r, g) \/ JobFailed(r, g) \/ JobEvidence(r, g)
    \/ \E g \in Changing : Invalidate(g) \/ \E allowed \in BOOLEAN : Refresh(g, allowed)
    \/ SessionChanges \/ Time

Spec == Init /\ [][Next]_vars

\* The tick is rerun every second, a worker takes what is published, leases run out, and
\* a transaction that is open ends; one that waits for a row gets it (the lock queue is FIFO).
Fairness ==
    /\ WF_vars(HoldDue) /\ WF_vars(Recover) /\ WF_vars(Activate) /\ WF_vars(Reconcile)
    /\ WF_vars(Finalize) /\ WF_vars(SchedulerLeads) /\ \A r \in Runs : WF_vars(Materialize(r))
    /\ \A w \in Workers : WF_vars(Worker(w)) /\ SF_vars(Check(w))
    /\ \A r \in Runs : WF_vars(LeaseExpires(r))
    /\ \A r \in Runs, g \in Groups : WF_vars(JobMoves(r, g))
    /\ \A o \in Operators : WF_vars(ResumeApply(o))
FairSpec == Spec /\ Fairness

-----------------------------------------------------------------------------
(* What the runs check.                                                    *)

\* Every variable keeps the shape of its columns.
TypeOK ==
    /\ campaign \in [Campaigns -> {"DRAFT", "ACTIVE", "PAUSED", "ARCHIVED"}]
    /\ deleted \subseteq Campaigns
    /\ run \in [Runs -> RunRecord] /\ snap \in [Runs -> [Groups -> Revision]]
    /\ delivery \in [Runs -> [Groups -> DeliveryStatus]] /\ job \in [Runs -> [Groups -> JobStatus]]
    /\ cap \in [Groups -> CapRecord] /\ sendable \in BOOLEAN /\ clock \in Phases
    /\ leader \in {"down", "starting", "ticking"} /\ began \in Phases
    /\ proc \in [Workers \cup Operators -> ProcRecord]
    /\ trouble \in 0 .. MaxTrouble

LiveOf(c, statuses) == \E r \in RunsOf(c) \cap LiveRuns : Status(r) \in statuses

\* What auditLifecycle counts as drift never happens, whatever order launches, preparations,
\* ticks and operators commit in, except that a PAUSED campaign may belong to a run that is
\* CANCELLING; and no deleted campaign has a run that can still do something.
NoLifecycleDrift ==
    \A c \in Campaigns :
        /\ campaign[c] = "DRAFT" => ~LiveOf(c, RunStatus \ {"none"})
        /\ campaign[c] = "ACTIVE" => LiveOf(c, NonTerminal)
        /\ campaign[c] = "PAUSED" => LiveOf(c, {"PAUSED", "BLOCKED", "CANCELLING"})
        /\ campaign[c] = "ARCHIVED" => ~LiveOf(c, NonTerminal \cup {"CANCELLING"})
        /\ c \in deleted => \A r \in RunsOf(c) : Status(r) \notin NonTerminal \cup {"CANCELLING"}

\* reconcile() is one UPDATE over the deliveries of every run: a single row the trigger of 080
\* refuses would stop finalisation and materialisation of them all.
ReconcileNeverRaises == Reconcilable

\* The scheduler starts a ONCE launch inside its window only, and never one that fell due
\* before the scheduler's session began.
StartsInItsWindow ==
    [][\A r \in LiveRuns :
        (Status(r) = "SCHEDULED" /\ run'[r].status = "RUNNING" /\ Scheduled(r))
            => clock = "due" /\ began = "early"]_vars

\* The outcome of a LIVE run follows its deliveries, also when late evidence corrects one of
\* them after the run has ended.
OutcomeFollows ==
    \A r \in Runs :
        (Status(r) = "COMPLETED" /\ Settled(r) /\ Aggregate(r) = "PARTIAL_FAILED")
            ~> (Status(r) = "PARTIAL_FAILED" \/ Aggregate(r) = "COMPLETED")

\* What the operator sees of a launch, and what became of each message.
Phase(r) ==
    CASE Status(r) = "none" -> "absent"
      [] Status(r) = "PREPARING" -> "preparing"
      [] Status(r) \in {"BLOCKED", "SCHEDULED", "PAUSED"} -> "waiting"
      [] Status(r) = "RUNNING" -> "sending"
      [] Status(r) = "CANCELLING" -> "stopping"
      [] OTHER -> "ended"
MailOf(status) ==
    CASE status = "none" -> "none"
      [] status \in {"SCHEDULED", "PROCESSING"} -> "queued"
      [] status = "STARTED" -> "inFlight"
      [] status = "ACCEPTED" -> "accepted"
      [] status = "DELIVERED" -> "delivered"
      [] status = "FAILED" -> "failed"
      [] status = "UNKNOWN" -> "unclear"
      [] status = "CANCELLED" -> "withdrawn"

Promise == INSTANCE LaunchPromise WITH
    Launches <- LiveRuns,
    phase <- [r \in LiveRuns |-> Phase(r)],
    mail <- [r \in LiveRuns |-> [g \in Groups |-> MailOf(job[r][g])]]

\* The rows of a launch, its deliveries and its jobs, moved by ticks, workers, operators and
\* evidence in transactions of their own, keep the order LaunchPromise asks for: one launch and
\* one message at a time, nothing sent again, nothing sent or left open after the end.
KeepsOrder == Promise!Spec

\* And no launch is prepared, sends or stops for ever, whatever dies on the way.
KeepsPromise == Promise!Kept
=============================================================================
