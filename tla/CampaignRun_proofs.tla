-------------------------- MODULE CampaignRun_proofs --------------------------
(***************************************************************************)
(* Proofs about CampaignRun, for any campaigns, launches, groups, workers  *)
(* and operators.  The columns have their shapes and whoever is busy is    *)
(* busy with a run (Shaped), and an open transaction holds its run alone,  *)
(* in a status that nobody else changes (Locks).  Over these two:          *)
(*   - TypeOK is an invariant;                                             *)
(*   - no step violates StartsInItsWindow, for a session that began late   *)
(*     has nothing left to start (Window);                                 *)
(*   - ReconcileNeverRaises is an invariant: a delivery is never ahead of  *)
(*     its job (Paired);                                                   *)
(*   - NoLifecycleDrift is an invariant: the campaign of a LIVE run is in  *)
(*     what the status of the run asks for, and has one such run (Follow); *)
(*   - CampaignRun implements the safety part of LaunchPromise: at most    *)
(*     one launch is under way (OneActive), and every step is a step of    *)
(*     LaunchPromise, or stutters (Steps).                                 *)
(***************************************************************************)
EXTENDS CampaignRun, FiniteSetTheorems, TLAPS

USE KindsAssumption

-----------------------------------------------------------------------------
(* Types and shapes.                                                       *)

CampaignStatus == {"DRAFT", "ACTIVE", "PAUSED", "ARCHIVED"}
Procs == Workers \cup Operators

\* Whoever is busy is busy with a run.
GoodProcs == {m \in ProcRecord : m.pc # "idle" => m.run \in Runs}

Shaped ==
  /\ campaign \in [Campaigns -> CampaignStatus] /\ deleted \subseteq Campaigns
  /\ run \in [Runs -> RunRecord] /\ snap \in [Runs -> [Groups -> Revision]]
  /\ delivery \in [Runs -> [Groups -> DeliveryStatus]]
  /\ job \in [Runs -> [Groups -> JobStatus]]
  /\ cap \in [Groups -> CapRecord] /\ sendable \in BOOLEAN /\ clock \in Phases
  /\ leader \in {"down", "starting", "ticking"} /\ began \in Phases
  /\ proc \in [Procs -> GoodProcs]
  /\ trouble \in 0 .. MaxTrouble

LEMMA ShapedIsTyped == Shaped => TypeOK
<1> SUFFICES ASSUME Shaped PROVE TypeOK
  OBVIOUS
<1>1. proc \in [Workers \cup Operators -> ProcRecord]
  BY DEF Shaped, Procs, GoodProcs
<1> QED
  BY <1>1 DEF Shaped, TypeOK, CampaignStatus

\* What a row holds, and how it may be rewritten.
LEMMA RowUpdates ==
  ASSUME NEW row \in RunRecord, NEW s \in RunStatus
  PROVE  /\ [row EXCEPT !.status = s] \in RunRecord /\ [row EXCEPT !.status = s].status = s
         /\ Leaves(row, s) \in RunRecord /\ Leaves(row, s).status = s
BY DEF RunRecord, Leaves

LEMMA RowFields ==
  ASSUME NEW row \in RunRecord
  PROVE  /\ row.status \in RunStatus /\ row.attempts \in 0 .. MaxAttempts
         /\ row.lease \in Workers \cup {Nobody} /\ row.live \in BOOLEAN
BY DEF RunRecord

LEMMA RowGivenBack ==
  ASSUME NEW row \in RunRecord
  PROVE  GivenBack(row) \in RunRecord /\ GivenBack(row).status = row.status
<1> DEFINE a == IF row.attempts > 0 THEN row.attempts - 1 ELSE 0
<1>1. a \in 0 .. MaxAttempts
  BY BoundsAssumption DEF RunRecord
<1>2. GivenBack(row) = [row EXCEPT !.attempts = a, !.lease = Nobody, !.live = FALSE]
  BY DEF GivenBack
<1> QED
  BY <1>1, <1>2 DEF RunRecord

LEMMA RowClaimed ==
  ASSUME NEW row \in RunRecord, row.attempts < MaxAttempts, NEW w \in Workers
  PROVE  LET n == [row EXCEPT !.attempts = @ + 1, !.lease = w, !.live = TRUE]
         IN  n \in RunRecord /\ n.status = row.status
<1>1. row.attempts + 1 \in 0 .. MaxAttempts
  BY BoundsAssumption DEF RunRecord
<1> QED
  BY <1>1 DEF RunRecord

LEMMA Observations ==
  ASSUME Shaped
  PROVE  /\ Revisions \in [Groups -> Revision] /\ NoObservation \in [Groups -> Revision]
         /\ Idle \in GoodProcs /\ Idle.pc = "idle"
<1>1. /\ Revisions \in [Groups -> Revision] /\ NoObservation \in [Groups -> Revision]
  BY BoundsAssumption DEF Shaped, Revisions, NoObservation, Revision, CapRecord
<1> QED
  BY <1>1 DEF Idle, GoodProcs, ProcRecord, Pcs

LEMMA ObservedTyped ==
  ASSUME Shaped, NEW r \in Runs, NEW v \in Verdicts(r)
  PROVE  /\ Observed(r, v) \in GoodProcs
         /\ Observed(r, v).pc = "read" /\ Observed(r, v).run = r
<1>1. v \in {"PASS", "BLOCK"}
  BY DEF Verdicts
<1> QED
  BY <1>1, Observations DEF Observed, GoodProcs, ProcRecord, Pcs

\* What a busy process works for.
LEMMA Work ==
  ASSUME Shaped, NEW p \in Procs
  PROVE  /\ proc[p] \in GoodProcs /\ proc[p].pc \in Pcs
         /\ proc[p].pc # "idle" => proc[p].run \in Runs
BY DEF Shaped, GoodProcs, ProcRecord

LEMMA MovedTyped ==
  ASSUME Shaped, NEW S, NEW from, NEW to \in CampaignStatus
  PROVE  Moved(S, from, to) \in [Campaigns -> CampaignStatus]
BY DEF Shaped, Moved

LEMMA OpenedTyped ==
  ASSUME Shaped, NEW r \in Runs
  PROVE  Opened(r) \in [Groups -> DeliveryStatus]
BY DEF Shaped, Opened, DeliveryStatus

\* A row may be rewritten on its own, or several by what each of them was.
LEMMA Rewritten ==
  ASSUME Shaped, NEW r \in Runs, NEW s \in RunStatus
  PROVE  /\ [run EXCEPT ![r].status = s] \in [Runs -> RunRecord]
         /\ [run EXCEPT ![r] = Leaves(@, s)] \in [Runs -> RunRecord]
         /\ [run EXCEPT ![r] = GivenBack(@)] \in [Runs -> RunRecord]
<1>1. run[r] \in RunRecord
  BY DEF Shaped
<1>2. /\ [run[r] EXCEPT !.status = s] \in RunRecord /\ Leaves(run[r], s) \in RunRecord
      /\ GivenBack(run[r]) \in RunRecord
  BY <1>1, RowUpdates, RowGivenBack
<1> QED
  BY <1>2 DEF Shaped

LEMMA StatusKinds ==
  ASSUME NEW r \in Runs
  PROVE  /\ Begun(r) \in RunStatus /\ Spent(r) \in RunStatus /\ Aggregate(r) \in RunStatus
         /\ {"PAUSED", "BLOCKED", "RUNNING", "CANCELLED", "CANCELLING"} \subseteq RunStatus
BY DEF Begun, Spent, Aggregate, RunStatus

LEMMA InitShaped == Init => Shaped
<1> SUFFICES ASSUME Init PROVE Shaped
  OBVIOUS
<1> USE BoundsAssumption DEF Init
<1>1. NoRun \in RunRecord
  BY DEF NoRun, RunRecord, RunStatus
<1>2. NoObservation \in [Groups -> Revision]
  BY DEF NoObservation, Revision
<1>3. Idle \in GoodProcs
  BY <1>2 DEF Idle, GoodProcs, ProcRecord, Pcs
<1>4. cap \in [Groups -> CapRecord]
  BY DEF CapRecord, Revision
<1> QED
  BY <1>1, <1>2, <1>3, <1>4
  DEF Shaped, CampaignStatus, DeliveryStatus, JobStatus, Phases, Procs

\* What happens to one run.
LEMMA LaunchTypes ==
  ASSUME Shaped, NEW r \in Runs,
         Create(r) \/ LeaseExpires(r) \/ Pause(r) \/ Cancel(r) \/ Materialize(r)
  PROVE  Shaped'
<1> USE DEF world
<1>0. /\ run \in [Runs -> RunRecord] /\ run[r] \in RunRecord
      /\ Revisions \in [Groups -> Revision]
  BY Observations DEF Shaped
<1>1. CASE Create(r)
  <2>1. run' \in [Runs -> RunRecord]
    BY <1>1, <1>0, Rewritten DEF Create, RunStatus
  <2>2. snap' \in [Runs -> [Groups -> Revision]]
    BY <1>1, <1>0 DEF Create, Revisions, Shaped
  <2>3. campaign' \in [Campaigns -> CampaignStatus]
    BY <1>1, MovedTyped DEF Create, CampaignStatus
  <2> QED
    BY <1>1, <2>1, <2>2, <2>3 DEF Create, Shaped
<1>2. CASE LeaseExpires(r)
  <2>1. [run[r] EXCEPT !.live = FALSE] \in RunRecord
    BY <1>0 DEF RunRecord
  <2> QED
    BY <1>2, <2>1 DEF LeaseExpires, Shaped
<1>3. CASE Pause(r)
  <2>1. run' \in [Runs -> RunRecord]
    BY <1>3, Rewritten, StatusKinds DEF Pause
  <2>2. campaign' \in [Campaigns -> CampaignStatus]
    BY <1>3, MovedTyped DEF Pause, CampaignStatus
  <2>3. job' \in [Runs -> [Groups -> JobStatus]]
    BY <1>3 DEF Pause, Shaped, JobStatus
  <2> QED
    BY <1>3, <2>1, <2>2, <2>3 DEF Pause, Shaped
<1>4. CASE Cancel(r)
  <2>1. run' \in [Runs -> RunRecord]
    BY <1>4, Rewritten, StatusKinds DEF Cancel
  <2>2. campaign' \in [Campaigns -> CampaignStatus]
    BY <1>4, MovedTyped DEF Cancel, CampaignStatus
  <2>3. job' \in [Runs -> [Groups -> JobStatus]]
    BY <1>4 DEF Cancel, TakenBack, Shaped, JobStatus, Outcome
  <2>4. delivery' \in [Runs -> [Groups -> DeliveryStatus]]
    <3>1. "CANCELLED" \in DeliveryStatus
      BY DEF DeliveryStatus, Outcome
    <3> QED
      BY <1>4, <3>1, OpenedTyped DEF Cancel, Shaped
  <2> QED
    BY <1>4, <2>1, <2>2, <2>3, <2>4 DEF Cancel, Shaped
<1>5. CASE Materialize(r)
  <2>1. run' \in [Runs -> RunRecord]
    BY <1>5, <1>0, Rewritten, StatusKinds DEF Materialize
  <2>2. campaign' \in [Campaigns -> CampaignStatus]
    BY <1>5, MovedTyped DEF Materialize, CampaignStatus, Shaped
  <2>3. delivery' \in [Runs -> [Groups -> DeliveryStatus]]
    <3>1. delivery' = delivery \/ \E S \in SUBSET Pending(r) :
            delivery' = [delivery EXCEPT ![r] = [g \in Groups |->
              IF g \notin S THEN delivery[r][g] ELSE IF Changed(r, g) THEN "BLOCKED" ELSE "MATERIALIZED"]]
      BY <1>5 DEF Materialize
    <3>2. {"BLOCKED", "MATERIALIZED"} \subseteq DeliveryStatus
      BY DEF DeliveryStatus
    <3>3. ASSUME NEW S
          PROVE  [g \in Groups |-> IF g \notin S THEN delivery[r][g]
                     ELSE IF Changed(r, g) THEN "BLOCKED" ELSE "MATERIALIZED"] \in [Groups -> DeliveryStatus]
      BY <3>2 DEF Shaped
    <3>4. delivery \in [Runs -> [Groups -> DeliveryStatus]]
      BY DEF Shaped
    <3> QED
      BY <3>1, <3>3, <3>4
  <2>4. job' \in [Runs -> [Groups -> JobStatus]]
    BY <1>5 DEF Materialize, Shaped, JobStatus
  <2> QED
    BY <1>5, <2>1, <2>2, <2>3, <2>4 DEF Materialize, Shaped
<1> QED
  BY <1>1, <1>2, <1>3, <1>4, <1>5

\* The workers.
LEMMA WorkerTypes ==
  ASSUME Shaped, NEW w \in Workers, Worker(w) \/ FailAttempt(w)
  PROVE  Shaped'
<1> DEFINE q == proc[w].run
<1> USE DEF world
<1>0. /\ w \in Procs /\ proc[w] \in GoodProcs /\ (proc[w].pc # "idle" => q \in Runs)
      /\ Revisions \in [Groups -> Revision] /\ Idle \in GoodProcs
      /\ run \in [Runs -> RunRecord] /\ (q \in Runs => run[q] \in RunRecord)
  BY Work, Observations DEF Procs, Shaped
<1> HIDE DEF q
<1>1. ASSUME NEW r \in Runs, Claim(w, r) PROVE Shaped'
  <2> DEFINE n == [run[r] EXCEPT !.attempts = @ + 1, !.lease = w, !.live = TRUE]
             m == [Idle EXCEPT !.pc = "claimed", !.run = r]
  <2>1. n \in RunRecord
    BY <1>1, <1>0, RowClaimed DEF Claim, Claimable, Shaped
  <2>2. m \in GoodProcs
    BY <1>0 DEF Idle, GoodProcs, ProcRecord, Pcs
  <2>3. run' = [run EXCEPT ![r] = n] /\ proc' = [proc EXCEPT ![w] = m]
    BY <1>1 DEF Claim
  <2> HIDE DEF n, m
  <2>4. run' \in [Runs -> RunRecord] /\ proc' \in [Procs -> GoodProcs]
    BY <1>0, <2>1, <2>2, <2>3 DEF Shaped
  <2> QED
    BY <1>1, <2>4 DEF Claim, Shaped
<1>2. CASE ReadInput(w)
  <2>1. q \in Runs
    BY <1>2, <1>0 DEF ReadInput
  <2>2. PICK m \in GoodProcs : proc' = [proc EXCEPT ![w] = m]
    BY <1>2, <1>0, <2>1, ObservedTyped DEF ReadInput, q
  <2> QED
    BY <1>2, <1>0, <2>2 DEF ReadInput, Shaped
<1>3. CASE FailAttempt(w)
  <2>1. q \in Runs
    BY <1>3, <1>0 DEF FailAttempt
  <2>2. run' \in [Runs -> RunRecord]
    BY <1>3, <1>0, <2>1, Rewritten, StatusKinds DEF FailAttempt, q, Shaped
  <2>3. campaign' \in [Campaigns -> CampaignStatus]
    BY <1>3, MovedTyped DEF FailAttempt, Archived, CampaignStatus, Shaped
  <2>4. trouble' \in 0 .. MaxTrouble
    BY <1>3, BoundsAssumption DEF FailAttempt, Trouble, Shaped
  <2>5. proc' \in [Procs -> GoodProcs]
    BY <1>3, <1>0 DEF FailAttempt, Shaped
  <2> QED
    BY <1>3, <2>2, <2>3, <2>4, <2>5 DEF FailAttempt, Shaped
<1>4. CASE Check(w)
  <2>1. q \in Runs
    BY <1>4, <1>0 DEF Check
  <2>2. run' \in [Runs -> RunRecord]
    <3>1. \/ run' = run \/ run' = [run EXCEPT ![q] = GivenBack(@)]
          \/ \E s \in {"PAUSED", "BLOCKED"} : run' = [run EXCEPT ![q] = Leaves(@, s)]
      BY <1>4 DEF Check, q
    <3>2. {"PAUSED", "BLOCKED"} \subseteq RunStatus
      BY DEF RunStatus
    <3> QED
      <4>1. /\ [run EXCEPT ![q] = GivenBack(@)] \in [Runs -> RunRecord]
            /\ \A s \in RunStatus : [run EXCEPT ![q] = Leaves(@, s)] \in [Runs -> RunRecord]
        BY <2>1, <3>2, Rewritten
      <4> QED
        BY <4>1, <3>1, <3>2, <1>0
  <2>3. campaign' \in [Campaigns -> CampaignStatus]
    BY <1>4, MovedTyped DEF Check, CampaignStatus, Shaped
  <2>4. proc' \in [Procs -> GoodProcs]
    <3>1. [proc[w] EXCEPT !.pc = "checked"] \in GoodProcs
      BY <1>0, <2>1 DEF GoodProcs, ProcRecord, Pcs, q
    <3> QED
      BY <1>4, <1>0, <3>1 DEF Check, Shaped
  <2> QED
    BY <1>4, <2>2, <2>3, <2>4 DEF Check, Shaped
<1>5. CASE Apply(w)
  <2>1. q \in Runs
    BY <1>5, <1>0 DEF Apply
  <2>2. run' \in [Runs -> RunRecord]
    BY <1>5, <1>0, <2>1, Rewritten, StatusKinds DEF Apply, q
  <2>3. /\ snap' \in [Runs -> [Groups -> Revision]]
        /\ delivery' \in [Runs -> [Groups -> DeliveryStatus]]
    BY <1>5, <1>0, <2>1, OpenedTyped DEF Apply, q, Shaped
  <2>4. proc' \in [Procs -> GoodProcs]
    BY <1>5, <1>0 DEF Apply, Shaped
  <2> QED
    BY <1>5, <2>2, <2>3, <2>4 DEF Apply, Shaped
<1> QED
  BY <1>1, <1>2, <1>3, <1>4, <1>5 DEF Worker

\* The scheduler.
LEMMA TickTypes ==
  ASSUME Shaped,
         \/ HoldDue \/ Recover \/ Activate \/ Reconcile \/ Finalize
         \/ SchedulerCrash \/ SchedulerLeads
  PROVE  Shaped'
<1> USE DEF world
<1>a. run \in [Runs -> RunRecord] /\ \A s \in Runs : run[s] \in RunRecord
  BY DEF Shaped
<1>b. {"PAUSED", "CANCELLED", "RUNNING"} \subseteq RunStatus
  BY DEF RunStatus
<1>c. \A s \in Runs : Spent(s) \in RunStatus /\ Aggregate(s) \in RunStatus
  BY StatusKinds
<1>1. CASE HoldDue
  <2>1. run' \in [Runs -> RunRecord]
    BY <1>1, <1>a, <1>b, <1>c, RowUpdates DEF HoldDue
  <2>2. campaign' \in [Campaigns -> CampaignStatus]
    BY <1>1, MovedTyped DEF HoldDue, CampaignStatus
  <2> QED
    BY <1>1, <2>1, <2>2 DEF HoldDue, Shaped
<1>2. CASE Recover
  <2>1. run' \in [Runs -> RunRecord]
    BY <1>2, <1>a, <1>b, <1>c, RowUpdates DEF Recover
  <2>2. campaign' \in [Campaigns -> CampaignStatus]
    BY <1>2, MovedTyped DEF Recover, Archived, CampaignStatus
  <2> QED
    BY <1>2, <2>1, <2>2 DEF Recover, Shaped
<1>3. CASE Activate
  <2>1. run' \in [Runs -> RunRecord]
    BY <1>3, <1>a, <1>b, <1>c, RowUpdates DEF Activate
  <2>2. campaign' \in [Campaigns -> CampaignStatus]
    BY <1>3, MovedTyped DEF Activate, CampaignStatus
  <2> QED
    BY <1>3, <2>1, <2>2 DEF Activate, Shaped
<1>4. CASE Reconcile
  <2>1. \A s \in Runs, g \in Groups : Target(s, g) \in DeliveryStatus
    BY DEF Target, Shaped, DeliveryStatus, JobStatus
  <2> QED
    BY <1>4, <2>1 DEF Reconcile, Shaped
<1>5. CASE Finalize
  <2>1. run' \in [Runs -> RunRecord]
    BY <1>5, <1>a, <1>b, <1>c, RowUpdates DEF Finalize
  <2>2. campaign' \in [Campaigns -> CampaignStatus]
    BY <1>5, MovedTyped DEF Finalize, Archived, CampaignStatus
  <2> QED
    BY <1>5, <2>1, <2>2 DEF Finalize, Shaped
<1>6. CASE SchedulerCrash
  BY <1>6, BoundsAssumption DEF SchedulerCrash, Trouble, Shaped, Phases
<1>7. CASE SchedulerLeads
  BY <1>7 DEF SchedulerLeads, Shaped
<1> QED
  BY <1>1, <1>2, <1>3, <1>4, <1>5, <1>6, <1>7

\* An operator who resumes.
LEMMA ResumeTypes ==
  ASSUME Shaped, NEW o \in Operators, Resume(o)
  PROVE  Shaped'
<1> DEFINE q == proc[o].run
<1> USE DEF world
<1>0. /\ run \in [Runs -> RunRecord] /\ o \in Procs /\ proc[o] \in GoodProcs /\ (proc[o].pc # "idle" => q \in Runs)
      /\ Idle \in GoodProcs
  BY Work, Observations DEF Procs, Shaped
<1> HIDE DEF q
<1>1. ASSUME NEW r \in Runs, ResumeRead(o, r) PROVE Shaped'
  BY <1>1, <1>0, ObservedTyped DEF ResumeRead, Shaped
<1>2. CASE ResumeRefused(o)
  <2>1. run' \in [Runs -> RunRecord]
    <3>1. q \in Runs /\ "BLOCKED" \in RunStatus
      BY <1>2, <1>0 DEF ResumeRefused, RunStatus
    <3>2. run' = run \/ run' = [run EXCEPT ![q].status = "BLOCKED"]
      BY <1>2 DEF ResumeRefused, q
    <3> QED
      BY <3>1, <3>2, <1>0, Rewritten
  <2> QED
    BY <1>2, <1>0, <2>1 DEF ResumeRefused, Shaped
<1>3. CASE ResumeCheck(o)
  <2>1. [proc[o] EXCEPT !.pc = "checked"] \in GoodProcs
    BY <1>3, <1>0 DEF ResumeCheck, GoodProcs, ProcRecord, Pcs, q
  <2> QED
    BY <1>3, <1>0, <2>1 DEF ResumeCheck, Shaped
<1>4. CASE ResumeApply(o)
  <2>1. q \in Runs
    BY <1>4, <1>0 DEF ResumeApply
  <2>2. run' \in [Runs -> RunRecord]
    BY <1>4, <2>1, Rewritten, StatusKinds DEF ResumeApply, q
  <2>3. delivery' \in [Runs -> [Groups -> DeliveryStatus]]
    BY <1>4, <2>1, OpenedTyped DEF ResumeApply, q, Shaped
  <2>4. snap' \in [Runs -> [Groups -> Revision]]
    <3>1. \A g \in Groups : cap[g].rev \in Revision
      BY DEF Shaped, CapRecord
    <3> QED
      BY <1>4, <2>1, <3>1 DEF ResumeApply, q, Shaped
  <2>5. campaign' \in [Campaigns -> CampaignStatus]
    BY <1>4, MovedTyped DEF ResumeApply, CampaignStatus
  <2> QED
    BY <1>4, <1>0, <2>2, <2>3, <2>4, <2>5 DEF ResumeApply, Shaped
<1> QED
  BY <1>1, <1>2, <1>3, <1>4 DEF Resume

\* Jobs, groups, the session and time.
LEMMA JobTypes ==
  ASSUME Shaped, NEW r \in Runs, NEW g \in Groups,
         JobMoves(r, g) \/ JobPutBack(r, g) \/ JobFailed(r, g) \/ JobEvidence(r, g)
  PROVE  Shaped'
<1>1. \E s \in JobStatus : JobTo(r, g, s)
  BY DEF JobMoves, JobClaimed, JobStarted, JobDryRun, JobAnswered, JobPutBack, JobFailed,
         JobEvidence, JobStatus, Outcome
<1>2. trouble' \in 0 .. MaxTrouble
  BY BoundsAssumption
  DEF JobMoves, JobClaimed, JobStarted, JobDryRun, JobAnswered, JobPutBack, JobFailed,
      JobEvidence, Trouble, Shaped
<1> QED
  BY <1>1, <1>2 DEF JobTo, Shaped, world

LEMMA GroupTypes ==
  ASSUME Shaped, NEW g \in Groups,
         Invalidate(g) \/ \E allowed \in BOOLEAN : Refresh(g, allowed)
  PROVE  Shaped'
<1>1. cap[g] \in CapRecord
  BY DEF Shaped
<1>2. \E new \in CapRecord : Cap(g, new)
  <2>1. CASE Invalidate(g)
    <3> DEFINE rev == cap[g].rev + 1
    <3>1. rev \in Revision
      BY <1>1, <2>1, BoundsAssumption DEF Invalidate, CapRecord, Revision
    <3>2. [cap[g] EXCEPT !.rev = rev, !.stale = TRUE] \in CapRecord
      BY <1>1, <3>1 DEF CapRecord
    <3> QED
      BY <2>1, <3>2 DEF Invalidate
  <2>2. ASSUME NEW allowed \in BOOLEAN, Refresh(g, allowed)
        PROVE  \E new \in CapRecord : Cap(g, new)
    <3> DEFINE rev == IF allowed # cap[g].allowed THEN cap[g].rev + 1 ELSE cap[g].rev
    <3>1. rev \in Revision
      BY <1>1, <2>2, BoundsAssumption DEF Refresh, CapRecord, Revision
    <3>2. [rev |-> rev, allowed |-> allowed, stale |-> FALSE] \in CapRecord
      BY <3>1 DEF CapRecord
    <3> QED
      BY <2>2, <3>2 DEF Refresh
  <2> QED
    BY <2>1, <2>2
<1> QED
  BY <1>2 DEF Cap, Shaped

LEMMA RestTypes ==
  ASSUME Shaped,
         \/ \E c \in Campaigns : Delete(c)
         \/ \E p \in Procs : WorkerCrash(p)
         \/ SessionChanges \/ Time
  PROVE  Shaped'
<1> USE DEF world
<1>1. ASSUME NEW c \in Campaigns, Delete(c) PROVE Shaped'
  BY <1>1 DEF Delete, Shaped
<1>2. ASSUME NEW p \in Procs, WorkerCrash(p) PROVE Shaped'
  BY <1>2, Observations, BoundsAssumption DEF WorkerCrash, Trouble, Shaped
<1>3. CASE SessionChanges
  BY <1>3, BoundsAssumption DEF SessionChanges, Trouble, Shaped
<1>4. CASE Time
  BY <1>4 DEF Time, Shaped, Phases
<1> QED
  BY <1>1, <1>2, <1>3, <1>4

\* The next-state relation by who acts.
LEMMA NextGroups ==
  ASSUME Next
  PROVE  \/ \E r \in Runs : Create(r) \/ LeaseExpires(r) \/ Pause(r) \/ Cancel(r) \/ Materialize(r)
         \/ \E w \in Workers : Worker(w) \/ FailAttempt(w)
         \/ \E o \in Operators : Resume(o)
         \/ HoldDue \/ Recover \/ Activate \/ Reconcile \/ Finalize \/ SchedulerCrash \/ SchedulerLeads
         \/ \E r \in Runs, g \in Groups :
              JobMoves(r, g) \/ JobPutBack(r, g) \/ JobFailed(r, g) \/ JobEvidence(r, g)
         \/ \E g \in Groups : Invalidate(g) \/ \E allowed \in BOOLEAN : Refresh(g, allowed)
         \/ \E c \in Campaigns : Delete(c)
         \/ \E p \in Procs : WorkerCrash(p)
         \/ SessionChanges \/ Time
BY Zenon DEF Next, TickStep, Procs

LEMMA NextShaped ==
  ASSUME Shaped, [Next]_vars
  PROVE  Shaped'
<1>1. CASE UNCHANGED vars
  BY <1>1 DEF vars, Shaped
<1>2. CASE Next
  BY <1>2, NextGroups, LaunchTypes, WorkerTypes, ResumeTypes, TickTypes, JobTypes, GroupTypes, RestTypes
<1> QED
  BY <1>1, <1>2

-----------------------------------------------------------------------------
(* Rows that are locked, and how a status may change.                      *)

Active(status) == status \in NonTerminal \cup {"CANCELLING"}

\* A transaction that is open holds its run in the status it found, alone.
Locked(p) == proc[p].pc = "checked"
Locks ==
  \A p \in Procs : Locked(p) =>
    /\ Status(proc[p].run) \in IF p \in Workers THEN {"PREPARING"} ELSE {"PAUSED", "BLOCKED"}
    /\ \A k \in Procs : Locked(k) /\ proc[k].run = proc[p].run => k = p

\* Any other transaction changes the status of a run only when the run is unlocked, and
\* neither back to its beginning nor into a start that the tick does not make.
Advance(r) ==
  \/ run'[r].status = Status(r)
  \/ /\ Unlocked(r)
     /\ \/ Active(Status(r))
        \/ {Status(r), run'[r].status} \subseteq {"COMPLETED", "PARTIAL_FAILED"}
     /\ run'[r].status \notin {"none", "PREPARING", "SCHEDULED"}
     /\ run'[r].status = "RUNNING" => Ticking /\ r \in Startable
     /\ run'[r].status = "CANCELLING" => \E g \in Groups : job[r][g] = "STARTED"

\* The transaction of p applies its preflight.
Applies(p) ==
  /\ Locked(p) /\ run'[proc[p].run].status = Begun(proc[p].run)
  /\ \A r \in Runs \ {proc[p].run} : run'[r].status = Status(r)
  /\ proc' = [proc EXCEPT ![p] = Idle]

\* A transaction opens, or its process turns to something else.
Opens(p) ==
  /\ proc[p].pc = "read" /\ Unlocked(proc[p].run) /\ run' = run
  /\ proc' = [proc EXCEPT ![p].pc = "checked"]
  /\ Status(proc[p].run) \in IF p \in Workers THEN {"PREPARING"} ELSE {"PAUSED", "BLOCKED"}
Turns(p) == \E m \in GoodProcs : m.pc # "checked" /\ proc' = [proc EXCEPT ![p] = m]

LEMMA ProcDomain == Shaped => DOMAIN proc = Procs
BY DEF Shaped

\* A run whose status no open transaction can have found is unlocked.
LEMMA OtherStatus ==
  ASSUME Shaped, Locks, NEW r \in Runs, Status(r) \notin {"PREPARING", "PAUSED", "BLOCKED"}
  PROVE  Unlocked(r)
BY ProcDomain DEF Locks, Locked, Unlocked

LEMMA LaunchStatus ==
  ASSUME Shaped, Locks, NEW r \in Runs,
         Create(r) \/ LeaseExpires(r) \/ Pause(r) \/ Cancel(r) \/ Materialize(r)
  PROVE  proc' = proc /\ (Create(r) \/ \A k \in Runs : Advance(k))
<1>0. run \in [Runs -> RunRecord] /\ run[r] \in RunRecord
  BY DEF Shaped
<1>1. CASE Create(r)
  BY <1>1 DEF Create
<1>2. CASE LeaseExpires(r)
  <2>1. [run[r] EXCEPT !.live = FALSE].status = run[r].status
    BY <1>0 DEF RunRecord
  <2>2. \A k \in Runs : run'[k].status = Status(k)
    BY <1>0, <1>2, <2>1 DEF LeaseExpires, Status
  <2> QED
    BY <1>2, <2>2 DEF LeaseExpires, Advance
<1>3. CASE Pause(r)
  <2>1. \A k \in Runs : run'[k].status = IF k = r THEN "PAUSED" ELSE Status(k)
    BY <1>0, <1>3, RowUpdates, StatusKinds DEF Pause, Status
  <2> QED
    BY <1>3, <2>1 DEF Pause, Advance, Active, NonTerminal
<1>4. CASE Cancel(r)
  <2>1. \A k \in Runs : run'[k].status =
          IF k = r THEN IF ~\E g \in Groups : TakenBack(r)[g] = "STARTED" THEN "CANCELLED" ELSE "CANCELLING"
          ELSE Status(k)
    BY <1>0, <1>4, RowUpdates, StatusKinds DEF Cancel, Status
  <2>2. \A g \in Groups : TakenBack(r)[g] = "STARTED" => job[r][g] = "STARTED"
    BY DEF TakenBack
  <2> QED
    BY <1>4, <2>1, <2>2 DEF Cancel, Advance, Active, NonTerminal
<1>5. CASE Materialize(r)
  <2>1. \/ run' = run
        \/ \A k \in Runs : run'[k].status = IF k = r THEN "PAUSED" ELSE Status(k)
    <3>1. run' = run \/ run' = [run EXCEPT ![r].status = "PAUSED"]
      BY <1>5 DEF Materialize
    <3>2. ASSUME run' = [run EXCEPT ![r].status = "PAUSED"]
          PROVE  \A k \in Runs : run'[k].status = IF k = r THEN "PAUSED" ELSE Status(k)
      BY <1>0, <3>2, RowUpdates, StatusKinds DEF Status
    <3> QED
      BY <3>1, <3>2
  <2> QED
    BY <1>5, <2>1 DEF Materialize, Advance, Active, NonTerminal, Status
<1> QED
  BY <1>1, <1>2, <1>3, <1>4, <1>5

LEMMA TickStatus ==
  ASSUME Shaped, Locks,
         \/ HoldDue \/ Recover \/ Activate \/ Reconcile \/ Finalize
         \/ SchedulerCrash \/ SchedulerLeads
  PROVE  proc' = proc /\ \A k \in Runs : Advance(k)
<1>0. \A k \in Runs : run[k] \in RunRecord
  BY DEF Shaped
<1>1. CASE HoldDue
  <2>1. \A k \in Runs : run'[k].status = IF k \in Held THEN "PAUSED" ELSE Status(k)
    BY <1>0, <1>1, RowUpdates, StatusKinds DEF HoldDue, Status
  <2> QED
    BY <1>1, <2>1 DEF HoldDue, Held, AllUnlocked, Advance, Active, NonTerminal
<1>2. CASE Recover
  <2>1. \A k \in Runs : run'[k].status = IF k \in Abandoned THEN Spent(k) ELSE Status(k)
    BY <1>0, <1>2, RowUpdates, StatusKinds DEF Recover, Status
  <2> QED
    BY <1>2, <2>1 DEF Recover, Abandoned, AllUnlocked, Spent, Advance, Active, NonTerminal
<1>3. CASE Activate
  <2>1. \A k \in Runs : run'[k].status = IF k \in Startable THEN "RUNNING"
                                         ELSE IF k \in Missed THEN "PAUSED" ELSE Status(k)
    BY <1>0, <1>3, RowUpdates, StatusKinds DEF Activate, Status
  <2>2. \A k \in Startable : Status(k) = "SCHEDULED"
    BY DEF Startable
  <2>3. \A k \in Missed : Status(k) \in {"PREPARING", "SCHEDULED"}
    BY DEF Missed
  <2> QED
    BY <1>3, <2>1, <2>2, <2>3 DEF Activate, AllUnlocked, Advance, Active, NonTerminal
<1>4. CASE Finalize
  <2>1. \A k \in Runs : run'[k].status = IF k \in Cancelled THEN "CANCELLED"
                                         ELSE IF k \in Finished THEN Aggregate(k) ELSE Status(k)
    BY <1>0, <1>4, RowUpdates, StatusKinds DEF Finalize, Status
  <2>2. \A k \in Cancelled : Status(k) = "CANCELLING" /\ Unlocked(k)
    BY DEF Cancelled
  <2>3. \A k \in Finished : /\ Status(k) \in {"RUNNING", "COMPLETED", "PARTIAL_FAILED"}
                            /\ Unlocked(k) /\ Aggregate(k) \in {"COMPLETED", "PARTIAL_FAILED"}
    BY OtherStatus DEF Finished, Aggregate
  <2> QED
    BY <1>4, <2>1, <2>2, <2>3 DEF Finalize, Advance, Active, NonTerminal
<1>5. CASE Reconcile \/ SchedulerCrash \/ SchedulerLeads
  BY <1>5 DEF Reconcile, SchedulerCrash, SchedulerLeads, Advance, Status
<1> QED
  BY <1>1, <1>2, <1>3, <1>4, <1>5

LEMMA WorkerStatus ==
  ASSUME Shaped, Locks, NEW w \in Workers, Worker(w) \/ FailAttempt(w)
  PROVE  \/ (\A k \in Runs : Advance(k)) /\ (Opens(w) \/ Turns(w))
         \/ Applies(w)
<1> DEFINE q == proc[w].run
           Rest == (\A k \in Runs : Advance(k)) /\ (Opens(w) \/ Turns(w))
<1>0. /\ run \in [Runs -> RunRecord] /\ \A k \in Runs : run[k] \in RunRecord
      /\ w \in Procs /\ (proc[w].pc # "idle" => q \in Runs)
      /\ Idle \in GoodProcs /\ Idle.pc = "idle"
  BY Work, Observations DEF Shaped, Procs
<1>a. run' = run => \A k \in Runs : Advance(k)
  BY DEF Advance, Status
<1> HIDE DEF q
<1>1. ASSUME NEW r \in Runs, Claim(w, r) PROVE Rest
  <2>1. \A k \in Runs : run'[k].status = Status(k)
    <3>1. [run[r] EXCEPT !.attempts = @ + 1, !.lease = w, !.live = TRUE].status = run[r].status
      BY <1>0, <1>1, RowClaimed DEF Claim, Claimable
    <3> QED
      BY <1>0, <1>1, <3>1 DEF Claim, Status
  <2>2. [Idle EXCEPT !.pc = "claimed", !.run = r] \in GoodProcs
    BY Observations DEF Idle, GoodProcs, ProcRecord, Pcs
  <2>3. [Idle EXCEPT !.pc = "claimed", !.run = r].pc = "claimed"
    BY DEF Idle
  <2> QED
    BY <1>1, <2>1, <2>2, <2>3 DEF Claim, Advance, Turns
<1>2. CASE ReadInput(w)
  <2>1. q \in Runs
    BY <1>0, <1>2 DEF ReadInput
  <2>2. Turns(w)
    BY <1>0, <1>2, <2>1, ObservedTyped DEF ReadInput, Turns, q
  <2> QED
    BY <1>2, <1>a, <2>2 DEF ReadInput
<1>3. CASE FailAttempt(w)
  <2>1. q \in Runs
    BY <1>0, <1>3 DEF FailAttempt
  <2>2. run' = run \/ (Owns(w) /\ run' = [run EXCEPT ![q] = Leaves(@, Spent(q))])
    BY <1>3 DEF FailAttempt, q
  <2>3. ASSUME Owns(w), run' = [run EXCEPT ![q] = Leaves(@, Spent(q))]
        PROVE  \A k \in Runs : Advance(k)
    <3>1. \A k \in Runs : run'[k].status = IF k = q THEN Spent(q) ELSE Status(k)
      BY <1>0, <2>1, <2>3, RowUpdates, StatusKinds DEF Status
    <3>2. Status(q) = "PREPARING" /\ Unlocked(q)
      BY <1>3, <2>3 DEF Owns, FailAttempt, q
    <3> QED
      BY <3>1, <3>2 DEF Advance, Active, NonTerminal, Spent
  <2>4. Turns(w)
    BY <1>0, <1>3 DEF FailAttempt, Turns
  <2> QED
    BY <1>a, <2>2, <2>3, <2>4
<1>4. CASE Check(w)
  <2>1. q \in Runs /\ Unlocked(q)
    BY <1>0, <1>4 DEF Check, q
  <2>2. \/ run' = run /\ Turns(w)
        \/ run' = run /\ Opens(w)
        \/ Owns(w) /\ Turns(w) /\ run' = [run EXCEPT ![q] = GivenBack(@)]
        \/ Owns(w) /\ Turns(w) /\ \E s \in {"PAUSED", "BLOCKED"} : run' = [run EXCEPT ![q] = Leaves(@, s)]
    <3>1. proc' = [proc EXCEPT ![w] = Idle] => Turns(w)
      BY <1>0 DEF Turns
    <3>2. /\ proc[w].pc = "read" /\ Unlocked(proc[w].run) /\ Owns(w) /\ run' = run
          /\ proc' = [proc EXCEPT ![w].pc = "checked"]
          => Opens(w)
      BY DEF Opens, Owns
    <3> QED
      BY <1>4, <3>1, <3>2 DEF Check, q
  <2>3. Owns(w) => Status(q) = "PREPARING"
    BY DEF Owns, q
  <2>4. CASE Owns(w) /\ run' = [run EXCEPT ![q] = GivenBack(@)]
    <3>1. \A k \in Runs : run'[k].status = Status(k)
      BY <1>0, <2>1, <2>4, RowGivenBack DEF Status
    <3> QED
      BY <2>2, <2>4, <3>1, <1>a DEF Advance
  <2>5. ASSUME NEW s \in {"PAUSED", "BLOCKED"}, Owns(w), run' = [run EXCEPT ![q] = Leaves(@, s)]
        PROVE  \A k \in Runs : Advance(k)
    <3>1. \A k \in Runs : run'[k].status = IF k = q THEN s ELSE Status(k)
      BY <1>0, <2>1, <2>5, RowUpdates, StatusKinds DEF Status
    <3> QED
      BY <2>1, <2>3, <2>5, <3>1 DEF Advance, Active, NonTerminal
  <2> QED
    BY <1>a, <2>2, <2>4, <2>5
<1>5. CASE Apply(w)
  <2>1. q \in Runs
    BY <1>0, <1>5 DEF Apply
  <2>2. \A k \in Runs : run'[k].status = IF k = q THEN Begun(q) ELSE Status(k)
    BY <1>0, <1>5, <2>1, RowUpdates, StatusKinds DEF Apply, Status, q
  <2> QED
    BY <1>5, <2>1, <2>2 DEF Apply, Applies, Locked, q
<1> QED
  BY <1>1, <1>2, <1>3, <1>4, <1>5 DEF Worker

LEMMA ResumeStatus ==
  ASSUME Shaped, Locks, NEW o \in Operators, Resume(o)
  PROVE  \/ (\A k \in Runs : Advance(k)) /\ (Opens(o) \/ Turns(o))
         \/ Applies(o)
<1> DEFINE q == proc[o].run
           Rest == (\A k \in Runs : Advance(k)) /\ (Opens(o) \/ Turns(o))
<1>0. /\ run \in [Runs -> RunRecord] /\ \A k \in Runs : run[k] \in RunRecord
      /\ o \in Procs /\ (proc[o].pc # "idle" => q \in Runs)
      /\ Idle \in GoodProcs /\ Idle.pc = "idle"
  BY Work, Observations DEF Shaped, Procs
<1>a. run' = run => \A k \in Runs : Advance(k)
  BY DEF Advance, Status
<1> HIDE DEF q
<1>1. ASSUME NEW r \in Runs, ResumeRead(o, r) PROVE Rest
  BY <1>0, <1>1, <1>a, ObservedTyped DEF ResumeRead, Turns
<1>2. CASE ResumeRefused(o)
  <2>1. q \in Runs /\ Unlocked(q) /\ Turns(o)
    BY <1>0, <1>2 DEF ResumeRefused, Turns, q
  <2>2. \/ run' = run
        \/ Status(q) \in {"PAUSED", "BLOCKED"} /\ run' = [run EXCEPT ![q].status = "BLOCKED"]
    BY <1>2 DEF ResumeRefused, q
  <2>3. ASSUME Status(q) \in {"PAUSED", "BLOCKED"}, run' = [run EXCEPT ![q].status = "BLOCKED"]
        PROVE  \A k \in Runs : Advance(k)
    <3>1. \A k \in Runs : run'[k].status = IF k = q THEN "BLOCKED" ELSE Status(k)
      BY <1>0, <2>1, <2>3, RowUpdates, StatusKinds DEF Status
    <3> QED
      BY <2>1, <2>3, <3>1 DEF Advance, Active, NonTerminal
  <2> QED
    BY <1>a, <2>1, <2>2, <2>3
<1>3. CASE ResumeCheck(o)
  <2>1. o \notin Workers
    OBVIOUS
  <2> QED
    BY <1>3, <1>a, <2>1 DEF ResumeCheck, Opens
<1>4. CASE ResumeApply(o)
  <2>1. q \in Runs
    BY <1>0, <1>4 DEF ResumeApply
  <2>2. \A k \in Runs : run'[k].status = IF k = q THEN Begun(q) ELSE Status(k)
    BY <1>0, <1>4, <2>1, RowUpdates, StatusKinds DEF ResumeApply, Status, q
  <2> QED
    BY <1>4, <2>1, <2>2 DEF ResumeApply, Applies, Locked, q
<1> QED
  BY <1>1, <1>2, <1>3, <1>4 DEF Resume

LEMMA RestStatus ==
  ASSUME Shaped,
         \/ \E r \in Runs, g \in Groups :
              JobMoves(r, g) \/ JobPutBack(r, g) \/ JobFailed(r, g) \/ JobEvidence(r, g)
         \/ \E g \in Groups : Invalidate(g) \/ \E allowed \in BOOLEAN : Refresh(g, allowed)
         \/ \E c \in Campaigns : Delete(c)
         \/ \E p \in Procs : WorkerCrash(p)
         \/ SessionChanges \/ Time
         \/ UNCHANGED vars
  PROVE  run' = run /\ (proc' = proc \/ \E p \in Procs : Turns(p))
<1>1. ASSUME NEW p \in Procs, WorkerCrash(p) PROVE run' = run /\ Turns(p)
  BY <1>1, Observations DEF WorkerCrash, Turns
<1>2. ASSUME NEW r \in Runs, NEW g \in Groups,
             JobMoves(r, g) \/ JobPutBack(r, g) \/ JobFailed(r, g) \/ JobEvidence(r, g)
      PROVE  run' = run /\ proc' = proc
  BY <1>2 DEF JobMoves, JobClaimed, JobStarted, JobDryRun, JobAnswered, JobPutBack, JobFailed,
              JobEvidence, JobTo
<1> QED
  BY <1>1, <1>2 DEF Invalidate, Refresh, Cap, Delete, SessionChanges, Time, vars

\* The status of every run, and what every process is doing, after a step.
LEMMA NextStatus ==
  ASSUME Shaped, Locks, [Next]_vars
  PROVE  \/ /\ proc' = proc
            /\ (\E r \in Runs : Create(r)) \/ \A k \in Runs : Advance(k)
         \/ \E p \in Procs : /\ \A k \in Runs : Advance(k)
                             /\ Opens(p) \/ Turns(p)
         \/ \E p \in Procs : Applies(p)
<1>1. run' = run => \A k \in Runs : Advance(k)
  BY DEF Advance, Status
<1>2. CASE UNCHANGED vars
  BY <1>1, <1>2 DEF vars
<1>3. CASE Next
  BY <1>1, <1>3, NextGroups, LaunchStatus, TickStatus, WorkerStatus, ResumeStatus, RestStatus DEF Procs
<1> QED
  BY <1>2, <1>3

LEMMA InitLocks == Init => Locks
BY DEF Init, Locks, Locked, Idle, Procs

LEMMA NextLocks ==
  ASSUME Shaped, Locks, [Next]_vars
  PROVE  Locks'
<1>0. /\ DOMAIN proc = Procs /\ Shaped' /\ proc' \in [Procs -> GoodProcs] /\ proc \in [Procs -> GoodProcs]
      /\ \A p \in Procs : Locked(p) => proc[p].run \in Runs
  BY NextShaped, ProcDomain, Work DEF Shaped, Locked
<1>1. \A p \in Procs : Locked(p) => ~Unlocked(proc[p].run)
  BY <1>0 DEF Locked, Unlocked
<1>2. \A k \in Runs : Advance(k) /\ ~Unlocked(k) => run'[k].status = Status(k)
  BY DEF Advance
<1>3. CASE proc' = proc /\ \A k \in Runs : Advance(k)
  <2>1. \A p \in Procs : Locked(p) => run'[proc[p].run].status = Status(proc[p].run)
    BY <1>0, <1>1, <1>2, <1>3
  <2> QED
    BY <1>3, <2>1 DEF Locks, Locked, Status
<1>4. ASSUME NEW r \in Runs, Create(r), proc' = proc PROVE Locks'
  <2>1. \A p \in Procs : Locked(p) => proc[p].run # r
    BY <1>4 DEF Locks, Create, Locked
  <2>2. \A k \in Runs \ {r} : run'[k] = run[k]
    BY <1>4 DEF Create, Shaped
  <2>3. \A p \in Procs : Locked(p) => run'[proc[p].run].status = Status(proc[p].run)
    BY <1>0, <2>1, <2>2 DEF Status
  <2> QED
    BY <1>4, <2>3 DEF Locks, Locked, Status
<1>5. ASSUME NEW p \in Procs, Turns(p), \A k \in Runs : Advance(k) PROVE Locks'
  <2>1. \A k \in Procs : proc'[k].pc = "checked" => Locked(k) /\ proc'[k] = proc[k]
    BY <1>0, <1>5 DEF Turns, Locked
  <2>2. \A k \in Procs : Locked(k) => run'[proc[k].run].status = Status(proc[k].run)
    BY <1>0, <1>1, <1>2, <1>5
  <2> QED
    BY <2>1, <2>2 DEF Locks, Locked, Status
<1>6. ASSUME NEW p \in Procs, Opens(p) PROVE Locks'
  <2>1. proc'[p].pc = "checked" /\ proc'[p].run = proc[p].run /\ \A k \in Procs \ {p} : proc'[k] = proc[k]
    BY <1>0, <1>6 DEF Opens, GoodProcs, ProcRecord
  <2>2. \A k \in Procs : Locked(k) => proc[k].run # proc[p].run
    BY <1>1, <1>6 DEF Opens
  <2> QED
    BY <1>6, <2>1, <2>2 DEF Locks, Locked, Opens, Status
<1>7. ASSUME NEW p \in Procs, Applies(p) PROVE Locks'
  <2>1. proc'[p].pc # "checked" /\ \A k \in Procs \ {p} : proc'[k] = proc[k]
    BY <1>0, <1>7, Observations DEF Applies
  <2>2. \A k \in Procs \ {p} : Locked(k) => proc[k].run # proc[p].run
    BY <1>7 DEF Applies, Locks
  <2>3. \A k \in Procs \ {p} : Locked(k) => run'[proc[k].run].status = Status(proc[k].run)
    BY <1>0, <1>7, <2>2 DEF Applies
  <2> QED
    BY <2>1, <2>3 DEF Locks, Locked, Status
<1> QED
  BY <1>3, <1>4, <1>5, <1>6, <1>7, NextStatus

-----------------------------------------------------------------------------
(* The window of a scheduled launch.                                       *)

\* A session that began after the launches fell due has none left to start.
Window ==
  began # "early" =>
    /\ clock # "early" /\ leader = "ticking"
    /\ \A r \in LiveRuns : HasDeadline(r) => Status(r) \notin {"PREPARING", "SCHEDULED"}

LEMMA ClockMoves ==
  ASSUME [Next]_vars
  PROVE  \/ UNCHANGED <<clock, leader, began>>
         \/ HoldDue \/ SchedulerCrash \/ SchedulerLeads \/ Time
<1> USE DEF world
<1>1. ASSUME NEW r \in Runs, Create(r) \/ LeaseExpires(r) \/ Pause(r) \/ Cancel(r) \/ Materialize(r)
      PROVE  UNCHANGED <<clock, leader, began>>
  BY <1>1 DEF Create, LeaseExpires, Pause, Cancel, Materialize
<1>2. ASSUME NEW w \in Workers, Worker(w) \/ FailAttempt(w)
      PROVE  UNCHANGED <<clock, leader, began>>
  BY <1>2 DEF Worker, Claim, ReadInput, Check, Apply, FailAttempt
<1>3. ASSUME NEW o \in Operators, Resume(o)
      PROVE  UNCHANGED <<clock, leader, began>>
  BY <1>3 DEF Resume, ResumeRead, ResumeRefused, ResumeCheck, ResumeApply
<1>4. ASSUME NEW r \in Runs, NEW g \in Groups,
             JobMoves(r, g) \/ JobPutBack(r, g) \/ JobFailed(r, g) \/ JobEvidence(r, g)
      PROVE  UNCHANGED <<clock, leader, began>>
  BY <1>4 DEF JobMoves, JobClaimed, JobStarted, JobDryRun, JobAnswered, JobPutBack, JobFailed,
              JobEvidence, JobTo
<1>5. ASSUME NEW g \in Groups, Invalidate(g) \/ \E allowed \in BOOLEAN : Refresh(g, allowed)
      PROVE  UNCHANGED <<clock, leader, began>>
  BY <1>5 DEF Invalidate, Refresh, Cap
<1>6. Recover \/ Activate \/ Reconcile \/ Finalize => UNCHANGED <<clock, leader, began>>
  BY DEF Recover, Activate, Reconcile, Finalize
<1>7. (\E c \in Campaigns : Delete(c)) \/ (\E p \in Procs : WorkerCrash(p)) \/ SessionChanges
        \/ UNCHANGED vars
      => UNCHANGED <<clock, leader, began>>
  BY DEF Delete, WorkerCrash, SessionChanges, vars
<1> QED
  BY <1>1, <1>2, <1>3, <1>4, <1>5, <1>6, <1>7, NextGroups

LEMMA NextWindow ==
  ASSUME Shaped, Locks, Window, [Next]_vars
  PROVE  Window'
<1>0. LiveRuns \subseteq Runs
  OBVIOUS
<1>1. CASE HoldDue
  <2>1. ASSUME clock # "early", NEW r \in LiveRuns, HasDeadline(r)
        PROVE  run'[r].status \notin {"PREPARING", "SCHEDULED"}
    <3>1. r \in Runs /\ run[r] \in RunRecord
      BY <1>0 DEF Shaped
    <3>2. Status(r) \in {"PREPARING", "SCHEDULED"} => r \in Held
      BY <2>1 DEF Held, Due
    <3>3. r \in Held => run'[r].status = "PAUSED"
      BY <1>1, <3>1, RowUpdates, StatusKinds DEF HoldDue
    <3>4. r \notin Held => run'[r] = run[r]
      BY <1>1, <3>1 DEF HoldDue
    <3> QED
      BY <3>2, <3>3, <3>4 DEF Status
  <2> QED
    BY <1>1, <2>1 DEF HoldDue, Window, world, HasDeadline, Live, Scheduled, Status
<1>2. CASE SchedulerCrash
  BY <1>2 DEF SchedulerCrash, Window
<1>3. CASE SchedulerLeads
  BY <1>3 DEF SchedulerLeads, Window
<1>4. CASE Time
  BY <1>4 DEF Time, Window, HasDeadline, Live, Scheduled, Status
<1>5. CASE UNCHANGED <<clock, leader, began>>
  <2> SUFFICES ASSUME began # "early", NEW r \in LiveRuns, HasDeadline(r)
               PROVE  run'[r].status \notin {"PREPARING", "SCHEDULED"}
    BY <1>5 DEF Window, HasDeadline, Live, Scheduled, Status
  <2>1. clock # "early" /\ Status(r) \notin {"PREPARING", "SCHEDULED"} /\ Due(r) /\ r \in Runs
    BY DEF Window, Due
  <2>2. ASSUME NEW k \in Runs, Create(k) PROVE run'[r] = run[r]
    <3>1. k # r
      BY <2>1, <2>2 DEF Create, Launchable
    <3> QED
      BY <2>1, <2>2, <3>1 DEF Create, Shaped
  <2>3. ASSUME NEW p \in Procs, Applies(p)
        PROVE  run'[r].status \in {Status(r), "RUNNING"}
    BY <2>1, <2>3 DEF Applies, Begun
  <2> QED
    BY <2>1, <2>2, <2>3, NextStatus DEF Advance, Status
<1> QED
  BY <1>1, <1>2, <1>3, <1>4, <1>5, ClockMoves

LEMMA WindowInvariance == Spec => [](Shaped /\ Locks /\ Window)
<1>1. Init => Shaped /\ Locks /\ Window
  BY InitShaped, InitLocks DEF Init, Window
<1>2. Shaped /\ Locks /\ Window /\ [Next]_vars => (Shaped /\ Locks /\ Window)'
  BY NextShaped, NextLocks, NextWindow
<1> QED
  BY <1>1, <1>2, PTL DEF Spec

\* Every variable keeps the shape of its columns, for any number of runs, workers and operators.
THEOREM TypeCorrect == Spec => []TypeOK
BY WindowInvariance, ShapedIsTyped, PTL

\* activateDue() starts a launch with a deadline inside its window only, and beginSchedulerSession()
\* has held every launch that fell due before it.
THEOREM StartedInTime == Spec => StartsInItsWindow
<1>1. ASSUME Shaped, Locks, Window, [Next]_vars, NEW r \in LiveRuns,
             Status(r) = "SCHEDULED", run'[r].status = "RUNNING", Scheduled(r)
      PROVE  clock = "due" /\ began = "early"
  <2>1. r \in Runs /\ HasDeadline(r)
    BY <1>1 DEF HasDeadline, Live
  <2>2. ~\E k \in Runs : Create(k)
    BY <1>1, <2>1 DEF Create, Shaped, Status
  <2>3. ASSUME NEW p \in Procs, Applies(p) PROVE FALSE
    BY <1>1, <2>1, <2>3 DEF Applies, Locks, Status
  <2>4. Advance(r)
    BY <1>1, <2>1, <2>2, <2>3, NextStatus
  <2>5. r \in Startable
    BY <1>1, <2>4 DEF Advance
  <2> QED
    BY <1>1, <2>1, <2>5 DEF Startable, Due, Window, Shaped, Phases
<1>2. Shaped /\ Locks /\ Window /\ [Next]_vars =>
        \A r \in LiveRuns :
          (Status(r) = "SCHEDULED" /\ run'[r].status = "RUNNING" /\ Scheduled(r))
            => clock = "due" /\ began = "early"
  BY <1>1
<1> QED
  BY <1>2, WindowInvariance, PTL DEF Spec, StartsInItsWindow

-----------------------------------------------------------------------------
(* Deliveries and their jobs.                                              *)

\* What the job of a delivery may be: reconciliation is late, never ahead.
MayBe(status) ==
  CASE status \in {"none", "PENDING", "BLOCKED"} -> {"none"}
    [] status \in {"MATERIALIZED", "PROCESSING"} ->
         {"SCHEDULED", "PROCESSING", "STARTED"} \cup (Outcome \ {"CANCELLED"})
    [] status = "UNKNOWN" -> {"UNKNOWN", "ACCEPTED", "DELIVERED", "FAILED"}
    [] status = "ACCEPTED" -> {"ACCEPTED", "DELIVERED", "FAILED"}
    [] status = "CANCELLED" -> {"none", "CANCELLED"}
    [] OTHER -> {status}

Paired == \A r \in Runs, g \in Groups : job[r][g] \in MayBe(delivery[r][g])

\* Nothing is delivered before a preflight was applied, and a dry run never asks OpenWA.
Untouched ==
  \A r \in Runs : Status(r) \in {"none", "PREPARING"} => \A g \in Groups : delivery[r][g] = "none"
Dry ==
  \A r \in Runs \ LiveRuns :
    Status(r) # "CANCELLING" /\ \A g \in Groups : job[r][g] # "STARTED"

Mail == Paired /\ Untouched /\ Dry

\* How the delivery d and the job j of run r change to d2 and j2.
MailStep(r, d, j, d2, j2) ==
  /\ j \in MayBe(d) => j2 \in MayBe(d2)
  /\ run'[r].status \in {"none", "PREPARING"} /\ d = "none" /\ j \in MayBe(d) => d2 = "none"
  /\ j2 = "STARTED" => j = "STARTED" \/ r \in LiveRuns
MailSteps ==
  \A r \in Runs, g \in Groups :
    MailStep(r, delivery[r][g], job[r][g], delivery'[r][g], job'[r][g])

\* A job that is open belongs to a delivery that was materialized.
LEMMA OpenPair ==
  ASSUME NEW d \in DeliveryStatus, NEW j \in MayBe(d), j \in {"SCHEDULED", "PROCESSING", "STARTED"}
  PROVE  d \in {"MATERIALIZED", "PROCESSING"}
BY DEF MayBe, DeliveryStatus, Outcome

LEMMA SameMail ==
  ASSUME delivery' = delivery, job' = job
  PROVE  MailSteps
BY DEF MailSteps, MailStep

LEMMA OpenedMail ==
  ASSUME Shaped, NEW r \in Runs, NEW g \in Groups
  PROVE  /\ MayBe(Opened(r)[g]) = MayBe(delivery[r][g])
         /\ delivery[r][g] # "none" => Opened(r)[g] = delivery[r][g]
         /\ delivery[r][g] = "none" => Opened(r)[g] = "PENDING"
BY DEF Opened, MayBe

\* What reconciliation makes of a delivery suits its job, and the trigger permits it.
LEMMA TargetMail ==
  ASSUME Shaped, NEW r \in Runs, NEW g \in Groups, job[r][g] \in MayBe(delivery[r][g])
  PROVE  /\ job[r][g] \in MayBe(Target(r, g))
         /\ Permitted(delivery[r][g], Target(r, g))
         /\ delivery[r][g] = "none" => Target(r, g) = "none"
<1>1. job[r][g] \in JobStatus /\ delivery[r][g] \in DeliveryStatus
  BY DEF Shaped
<1>2. job[r][g] \in MayBe(Target(r, g))
  BY <1>1 DEF MayBe, Target, JobStatus, DeliveryStatus, Outcome
<1>3. Permitted(delivery[r][g], Target(r, g))
  BY <1>1 DEF MayBe, Target, Permitted, Follows, JobStatus, DeliveryStatus, Outcome
<1>4. delivery[r][g] = "none" => Target(r, g) = "none"
  BY DEF MayBe, Target
<1> QED
  BY <1>2, <1>3, <1>4

LEMMA LaunchMail ==
  ASSUME Shaped, NEW r \in Runs,
         Create(r) \/ LeaseExpires(r) \/ Pause(r) \/ Cancel(r) \/ Materialize(r)
  PROVE  MailSteps
<1>0. /\ run \in [Runs -> RunRecord] /\ run[r] \in RunRecord
      /\ \A g \in Groups : job[r][g] \in JobStatus /\ delivery[r][g] \in DeliveryStatus
      /\ job \in [Runs -> [Groups -> JobStatus]] /\ delivery \in [Runs -> [Groups -> DeliveryStatus]]
  BY DEF Shaped
<1>1. CASE Create(r) \/ LeaseExpires(r)
  BY <1>1, SameMail DEF Create, LeaseExpires
<1>2. CASE Pause(r)
  <2>1. /\ delivery' = delivery
        /\ \A k \in Runs, g \in Groups :
             job'[k][g] = IF k = r /\ job[k][g] = "PROCESSING" THEN "SCHEDULED" ELSE job[k][g]
    BY <1>0, <1>2 DEF Pause
  <2> QED
    BY <2>1 DEF MailSteps, MailStep, MayBe, Outcome
<1>3. CASE Cancel(r)
  <2>1. run'[r].status \in {"CANCELLED", "CANCELLING"}
    BY <1>0, <1>3, RowUpdates, StatusKinds DEF Cancel
  <2>2. \A g \in Groups :
          /\ job'[r][g] = IF job[r][g] \in {"SCHEDULED", "PROCESSING"} THEN "CANCELLED" ELSE job[r][g]
          /\ delivery'[r][g] = IF Opened(r)[g] = "PENDING" \/ job'[r][g] = "CANCELLED" THEN "CANCELLED"
                               ELSE Opened(r)[g]
    BY <1>0, <1>3 DEF Cancel, TakenBack, ToCancel
  <2>3. \A k \in Runs \ {r} : job'[k] = job[k] /\ delivery'[k] = delivery[k]
    BY <1>0, <1>3 DEF Cancel
  <2>4. \A g \in Groups : MailStep(r, delivery[r][g], job[r][g], delivery'[r][g], job'[r][g])
    <3> SUFFICES ASSUME NEW g \in Groups
                 PROVE  MailStep(r, delivery[r][g], job[r][g], delivery'[r][g], job'[r][g])
      OBVIOUS
    <3>1. job[r][g] \in MayBe(delivery[r][g]) => job'[r][g] \in MayBe(delivery'[r][g])
      <4>1. CASE job'[r][g] = "CANCELLED"
        BY <2>2, <4>1 DEF MayBe
      <4>2. CASE job'[r][g] # "CANCELLED" /\ Opened(r)[g] = "PENDING"
        BY <2>2, <4>2, OpenedMail DEF MayBe
      <4>3. CASE job'[r][g] # "CANCELLED" /\ Opened(r)[g] # "PENDING"
        <5>1. delivery'[r][g] = delivery[r][g] /\ job'[r][g] = job[r][g]
          BY <2>2, <4>3, OpenedMail
        <5> QED
          BY <5>1
      <4> QED
        BY <4>1, <4>2, <4>3
    <3> QED
      BY <2>1, <2>2, <3>1 DEF MailStep
  <2> QED
    BY <2>3, <2>4 DEF MailSteps, MailStep
<1>4. CASE Materialize(r)
  <2>1. CASE delivery' = delivery /\ job' = job
    BY <2>1, SameMail
  <2>2. ASSUME NEW S \in SUBSET Pending(r),
               delivery' = [delivery EXCEPT ![r] = [g \in Groups |->
                  IF g \notin S THEN @[g] ELSE IF Changed(r, g) THEN "BLOCKED" ELSE "MATERIALIZED"]],
               job' = [job EXCEPT ![r] = [g \in Groups |->
                  IF g \in S /\ ~Changed(r, g) THEN "SCHEDULED" ELSE @[g]]]
        PROVE  MailSteps
    <3>1. \A g \in Groups : /\ delivery'[r][g] = IF g \notin S THEN delivery[r][g]
                                  ELSE IF Changed(r, g) THEN "BLOCKED" ELSE "MATERIALIZED"
                            /\ job'[r][g] = IF g \in S /\ ~Changed(r, g) THEN "SCHEDULED" ELSE job[r][g]
      BY <1>0, <2>2
    <3>2. \A k \in Runs \ {r} : job'[k] = job[k] /\ delivery'[k] = delivery[k]
      BY <1>0, <2>2
    <3>3. \A g \in S : delivery[r][g] = "PENDING"
      BY <2>2 DEF Pending
    <3>4. \A g \in Groups : MailStep(r, delivery[r][g], job[r][g], delivery'[r][g], job'[r][g])
      BY <3>1, <3>3 DEF MailStep, MayBe
    <3> QED
      BY <3>2, <3>4 DEF MailSteps, MailStep
  <2> QED
    BY <1>4, <2>1, <2>2 DEF Materialize
<1> QED
  BY <1>1, <1>2, <1>3, <1>4

LEMMA JobMail ==
  ASSUME Shaped, NEW r \in Runs, NEW g \in Groups,
         JobMoves(r, g) \/ JobPutBack(r, g) \/ JobFailed(r, g) \/ JobEvidence(r, g)
  PROVE  MailSteps
<1> DEFINE From(s) == IF s = "PROCESSING" THEN {"SCHEDULED"}
                      ELSE IF s = "STARTED" THEN {"PROCESSING"}
                      ELSE IF s = "SCHEDULED" THEN {"PROCESSING", "STARTED"}
                      ELSE {"PROCESSING", "STARTED", "UNKNOWN", "ACCEPTED"}
<1>1. \E s \in {"SCHEDULED", "PROCESSING", "STARTED", "ACCEPTED", "DELIVERED", "FAILED", "UNKNOWN"} :
        /\ JobTo(r, g, s) /\ job[r][g] \in From(s)
        /\ job[r][g] \in {"UNKNOWN", "ACCEPTED"} => s \in {"ACCEPTED", "DELIVERED", "FAILED"}
        /\ s = "STARTED" => r \in LiveRuns
  BY DEF JobMoves, JobClaimed, JobStarted, JobDryRun, JobAnswered, JobPutBack, JobFailed,
         JobEvidence, Live, JobStatus
<1>2. PICK s \in {"SCHEDULED", "PROCESSING", "STARTED", "ACCEPTED", "DELIVERED", "FAILED", "UNKNOWN"} :
        /\ JobTo(r, g, s) /\ job[r][g] \in From(s)
        /\ job[r][g] \in {"UNKNOWN", "ACCEPTED"} => s \in {"ACCEPTED", "DELIVERED", "FAILED"}
        /\ s = "STARTED" => r \in LiveRuns
  BY <1>1
<1>3. /\ delivery' = delivery /\ run' = run
      /\ \A k \in Runs, h \in Groups : job'[k][h] = IF k = r /\ h = g THEN s ELSE job[k][h]
  BY <1>2 DEF JobTo, Shaped
<1>4. MailStep(r, delivery[r][g], job[r][g], delivery[r][g], s)
  <2>1. delivery[r][g] \in DeliveryStatus
    BY DEF Shaped
  <2>2. CASE job[r][g] \in {"SCHEDULED", "PROCESSING", "STARTED"}
    <3>1. job[r][g] \in MayBe(delivery[r][g]) => s \in MayBe(delivery[r][g])
      BY <1>2, <2>1, <2>2, OpenPair DEF MayBe, Outcome
    <3> QED
      BY <1>2, <3>1 DEF MailStep
  <2>3. CASE job[r][g] \in {"UNKNOWN", "ACCEPTED"}
    <3>1. s \in {"ACCEPTED", "DELIVERED", "FAILED"}
      BY <1>2, <2>3
    <3>2. job[r][g] \in MayBe(delivery[r][g]) => s \in MayBe(delivery[r][g])
      BY <2>1, <2>3, <3>1 DEF MayBe, Outcome, DeliveryStatus
    <3> QED
      BY <1>2, <3>2 DEF MailStep
  <2> QED
    BY <1>2, <2>2, <2>3
<1> QED
  BY <1>3, <1>4 DEF MailSteps, MailStep

LEMMA ApplyMail ==
  ASSUME Shaped, NEW p \in Procs, Apply(p) \/ ResumeApply(p)
  PROVE  MailSteps
<1> DEFINE q == proc[p].run
<1>1. q \in Runs /\ run[q] \in RunRecord /\ Begun(q) \in {"RUNNING", "SCHEDULED"}
  BY Work DEF Apply, ResumeApply, Begun, Shaped
<1>2. run'[q].status \notin {"none", "PREPARING"}
  <2>1. Begun(q) \in RunStatus /\ run \in [Runs -> RunRecord]
    BY <1>1, StatusKinds DEF Shaped
  <2>2. run' = [run EXCEPT ![q] = Leaves(@, Begun(q))] \/ run' = [run EXCEPT ![q].status = Begun(q)]
    BY DEF Apply, ResumeApply
  <2>3. run'[q] = Leaves(run[q], Begun(q)) \/ run'[q] = [run[q] EXCEPT !.status = Begun(q)]
    BY <1>1, <2>1, <2>2
  <2>4. run'[q].status = Begun(q)
    <3>1. /\ Leaves(run[q], Begun(q)).status = Begun(q)
          /\ [run[q] EXCEPT !.status = Begun(q)].status = Begun(q)
      BY <1>1, <2>1, RowUpdates
    <3> QED
      BY <2>3, <3>1
  <2> QED
    BY <1>1, <2>4
<1>3. job' = job /\ delivery' = [delivery EXCEPT ![q] = Opened(q)]
  BY DEF Apply, ResumeApply
<1>4. \A g \in Groups : MailStep(q, delivery[q][g], job[q][g], Opened(q)[g], job[q][g])
  BY <1>1, <1>2, OpenedMail DEF MailStep
<1> QED
  BY <1>1, <1>3, <1>4 DEF MailSteps, MailStep, Shaped

\* Whatever steps, deliveries and jobs change together.
LEMMA NextMail ==
  ASSUME Shaped, Locks, Mail, [Next]_vars
  PROVE  Mail'
<1>1. ASSUME NEW w \in Workers, Worker(w) \/ FailAttempt(w) PROVE MailSteps
  <2>1. \/ Apply(w) \/ (delivery' = delivery /\ job' = job)
    BY <1>1 DEF Worker, Claim, ReadInput, Check, FailAttempt
  <2> QED
    BY <2>1, SameMail, ApplyMail DEF Procs
<1>2. ASSUME NEW o \in Operators, Resume(o) PROVE MailSteps
  <2>1. \/ ResumeApply(o) \/ (delivery' = delivery /\ job' = job)
    BY <1>2 DEF Resume, ResumeRead, ResumeRefused, ResumeCheck
  <2> QED
    BY <2>1, SameMail, ApplyMail DEF Procs
<1>3. ASSUME Reconcile PROVE MailSteps
  <2>1. job' = job /\ \A r \in Runs, g \in Groups : delivery'[r][g] = Target(r, g)
    BY <1>3 DEF Reconcile
  <2>2. \A r \in Runs, g \in Groups : job[r][g] \in MayBe(delivery[r][g])
    BY DEF Mail, Paired
  <2> QED
    BY <2>1, <2>2, TargetMail DEF MailSteps, MailStep
<1>4. ASSUME \/ HoldDue \/ Recover \/ Activate \/ Finalize \/ SchedulerCrash \/ SchedulerLeads
             \/ \E c \in Campaigns : Delete(c)
             \/ \E p \in Procs : WorkerCrash(p)
             \/ SessionChanges \/ Time \/ UNCHANGED vars
             \/ \E g \in Groups : Invalidate(g) \/ \E allowed \in BOOLEAN : Refresh(g, allowed)
      PROVE  MailSteps
  <2>1. delivery' = delivery /\ job' = job
    BY <1>4 DEF HoldDue, Recover, Activate, Finalize, SchedulerCrash, SchedulerLeads, Delete,
                WorkerCrash, SessionChanges, Time, vars, Invalidate, Refresh, Cap
  <2> QED
    BY <2>1, SameMail
<1>5. MailSteps
  BY <1>1, <1>2, <1>3, <1>4, LaunchMail, JobMail, NextGroups
<1>6. Paired'
  BY <1>5 DEF Mail, Paired, MailSteps, MailStep
<1>7. \A r \in Runs : run'[r].status \in {"none", "PREPARING"} => Status(r) \in {"none", "PREPARING"}
  <2>1. ASSUME NEW r \in Runs, NEW k \in Runs, Create(k) PROVE Status(k) = "none" /\ (k # r => run'[r] = run[r])
    BY <2>1 DEF Create, Shaped
  <2>2. ASSUME NEW r \in Runs, NEW p \in Procs, Applies(p)
        PROVE  run'[r].status \in {Status(r), "RUNNING", "SCHEDULED"}
    BY <2>2 DEF Applies, Begun
  <2> QED
    BY <2>1, <2>2, NextStatus DEF Advance, Status
<1>8. Untouched'
  <2> SUFFICES ASSUME NEW r \in Runs, run'[r].status \in {"none", "PREPARING"}, NEW g \in Groups
               PROVE  delivery'[r][g] = "none"
    BY DEF Untouched, Status
  <2>1. delivery[r][g] = "none" /\ job[r][g] \in MayBe(delivery[r][g])
    BY <1>7 DEF Mail, Untouched, Paired
  <2> QED
    BY <1>5, <2>1 DEF MailSteps, MailStep
<1>9. Dry'
  <2> SUFFICES ASSUME NEW r \in Runs \ LiveRuns
               PROVE  run'[r].status # "CANCELLING" /\ \A g \in Groups : job'[r][g] # "STARTED"
    BY DEF Dry, Status
  <2>1. Status(r) # "CANCELLING" /\ \A g \in Groups : job[r][g] # "STARTED"
    BY DEF Mail, Dry
  <2>2. \A g \in Groups : job'[r][g] # "STARTED"
    BY <1>5, <2>1 DEF MailSteps, MailStep
  <2>3. ASSUME NEW k \in Runs, Create(k) PROVE run'[r].status \in {Status(r), "PREPARING"}
    BY <2>3 DEF Create, Shaped, RunRecord, Status
  <2>4. ASSUME NEW p \in Procs, Applies(p)
        PROVE  run'[r].status \in {Status(r), "RUNNING", "SCHEDULED"}
    BY <2>4 DEF Applies, Begun
  <2>5. run'[r].status # "CANCELLING"
    BY <2>1, <2>3, <2>4, NextStatus DEF Advance
  <2> QED
    BY <2>2, <2>5
<1> QED
  BY <1>6, <1>8, <1>9 DEF Mail

LEMMA InitMail == Init => Mail
BY DEF Init, Mail, Paired, Untouched, Dry, MayBe, Status, NoRun

LEMMA MailInvariance == Spec => [](Shaped /\ Locks /\ Mail)
<1>1. Init => Shaped /\ Locks /\ Mail
  BY InitShaped, InitLocks, InitMail
<1>2. Shaped /\ Locks /\ Mail /\ [Next]_vars => (Shaped /\ Locks /\ Mail)'
  BY NextShaped, NextLocks, NextMail
<1> QED
  BY <1>1, <1>2, PTL DEF Spec

\* The one UPDATE of reconcile() never asks the trigger for a transition that it refuses,
\* whatever workers, evidence, retries and operators did to the jobs in between.
THEOREM ReconcileIsPermitted == Spec => []ReconcileNeverRaises
<1>1. Shaped /\ Mail => ReconcileNeverRaises
  BY TargetMail DEF Mail, Paired, ReconcileNeverRaises, Reconcilable
<1> QED
  BY <1>1, MailInvariance, PTL

-----------------------------------------------------------------------------
(* Campaigns and the runs that they follow.                                *)

\* What the campaign of a LIVE run may be, by the status of the run.
Goes(status) ==
  CASE status \in {"PREPARING", "SCHEDULED", "RUNNING"} -> {"ACTIVE"}
    [] status = "BLOCKED" -> {"ACTIVE", "PAUSED"}
    [] status \in {"PAUSED", "CANCELLING"} -> {"PAUSED"}
    [] OTHER -> {"ARCHIVED"}

Linked ==
  \A r \in LiveRuns : Status(r) # "none" => campaign[CampaignOf[r]] \in Goes(Status(r))

\* A campaign is launched LIVE once, and is a draft until then.
OneRun ==
  \A r, s \in LiveRuns :
    CampaignOf[r] = CampaignOf[s] /\ Status(r) # "none" /\ Status(s) # "none" => r = s
Launched ==
  \A c \in Campaigns : campaign[c] # "DRAFT" => LiveOf(c, RunStatus \ {"none"})

Gone == \A c \in deleted : \A r \in RunsOf(c) : ~Active(Status(r))

Follow == Linked /\ OneRun /\ Launched /\ Gone

\* The runs step, and the campaigns of those in S that are in from are moved to "to".
Together(S, from, to) ==
  /\ campaign' = Moved(S, from, to) /\ "DRAFT" \notin from /\ to # "DRAFT"
  /\ \A r \in LiveRuns :
       /\ run'[r].status = "none" <=> Status(r) = "none"
       /\ r \in S => Status(r) # "none"
       /\ Status(r) # "none" =>
            \A x \in Goes(Status(r)) :
              (IF r \in S /\ x \in from THEN to ELSE x) \in Goes(run'[r].status)

LEMMA TogetherFollows ==
  ASSUME Shaped, Shaped', Linked, OneRun, Launched, NEW S, NEW from, NEW to, Together(S, from, to)
  PROVE  (Linked /\ OneRun /\ Launched)'
<1>0. LiveRuns \subseteq Runs /\ \A r \in Runs : CampaignOf[r] \in Campaigns
  OBVIOUS
<1>1. \A r \in LiveRuns : run'[r].status = "none" <=> Status(r) = "none"
  BY DEF Together
<1>2. OneRun'
  BY <1>1 DEF OneRun, Status
<1>3. ASSUME NEW r \in LiveRuns, Status(r) # "none"
      PROVE  campaign'[CampaignOf[r]] \in Goes(run'[r].status)
  <2> DEFINE c == CampaignOf[r]
  <2>1. c \in Campaigns
    BY <1>0
  <2>2. \A k \in S \cap LiveRuns : CampaignOf[k] = c => k = r
    BY <1>3 DEF Together, OneRun
  <2>3. campaign'[c] = IF r \in S /\ campaign[c] \in from THEN to ELSE campaign[c]
    BY <2>1, <2>2 DEF Together, Moved
  <2>4. campaign[c] \in Goes(Status(r))
    BY <1>3 DEF Linked
  <2> QED
    BY <1>3, <2>3, <2>4 DEF Together
<1>4. Linked'
  BY <1>1, <1>3 DEF Linked, Status
<1>5. Launched'
  <2> SUFFICES ASSUME NEW c \in Campaigns, campaign'[c] # "DRAFT"
               PROVE  \E r \in LiveRuns : CampaignOf[r] = c /\ run'[r].status # "none"
    <3>1. \A r \in Runs : run'[r].status \in RunStatus
      BY RowFields DEF Shaped
    <3> QED
      BY <1>0, <3>1 DEF Launched, LiveOf, RunsOf, Status
  <2>1. campaign[c] # "DRAFT"
    BY DEF Together, Moved
  <2> QED
    BY <1>0, <1>1, <2>1 DEF Launched, LiveOf, RunsOf
<1> QED
  BY <1>2, <1>4, <1>5

\* Nothing happens to any campaign.
LEMMA NoneMoved ==
  ASSUME Shaped, campaign' = campaign
  PROVE  campaign' = Moved({}, {}, "ARCHIVED")
<1>1. campaign = [c \in Campaigns |-> campaign[c]]
  BY DEF Shaped
<1> QED
  BY <1>1 DEF Moved

LEMMA SameTogether ==
  ASSUME Shaped, campaign' = campaign,
         \A r \in LiveRuns : /\ run'[r].status = "none" <=> Status(r) = "none"
                             /\ Status(r) # "none" => Goes(Status(r)) \subseteq Goes(run'[r].status)
  PROVE  Together({}, {}, "ARCHIVED")
BY NoneMoved DEF Together

LEMMA LaunchTogether ==
  ASSUME Shaped, NEW r \in Runs, LeaseExpires(r) \/ Pause(r) \/ Cancel(r) \/ Materialize(r)
  PROVE  \E S, from, to : Together(S, from, to)
<1>0. run \in [Runs -> RunRecord] /\ run[r] \in RunRecord /\ LiveRuns \subseteq Runs
  BY DEF Shaped
<1>1. CASE LeaseExpires(r)
  <2>1. [run[r] EXCEPT !.live = FALSE].status = run[r].status
    BY <1>0 DEF RunRecord
  <2>2. \A k \in Runs : run'[k].status = Status(k)
    BY <1>0, <1>1, <2>1 DEF LeaseExpires, Status
  <2> QED
    BY <1>0, <1>1, <2>2, SameTogether DEF LeaseExpires
<1>2. CASE Pause(r)
  <2>1. \A k \in Runs : run'[k].status = IF k = r THEN "PAUSED" ELSE Status(k)
    BY <1>0, <1>2, RowUpdates, StatusKinds DEF Pause, Status
  <2>2. Together({r}, {"ACTIVE"}, "PAUSED")
    BY <1>0, <1>2, <2>1 DEF Pause, Together, Goes
  <2> QED
    BY <2>2
<1>3. CASE Cancel(r)
  <2> DEFINE ended == ~\E g \in Groups : TakenBack(r)[g] = "STARTED"
             s == IF ended THEN "CANCELLED" ELSE "CANCELLING"
             to == IF ended THEN "ARCHIVED" ELSE "PAUSED"
  <2>1. \A k \in Runs : run'[k].status = IF k = r THEN s ELSE Status(k)
    BY <1>0, <1>3, RowUpdates, StatusKinds DEF Cancel, Status
  <2>2. campaign' = Moved({r}, {"ACTIVE", "PAUSED"}, to) /\ Status(r) \in NonTerminal
    BY <1>3 DEF Cancel
  <2>3. <<s, to>> \in {<<"CANCELLED", "ARCHIVED">>, <<"CANCELLING", "PAUSED">>}
    OBVIOUS
  <2> HIDE DEF ended, s, to
  <2>4. Goes(Status(r)) \subseteq {"ACTIVE", "PAUSED"} /\ to \in Goes(s) /\ s # "none" /\ to # "DRAFT"
    BY <2>2, <2>3 DEF Goes, NonTerminal
  <2>5. Together({r}, {"ACTIVE", "PAUSED"}, to)
    BY <1>0, <2>1, <2>2, <2>4 DEF Together, NonTerminal
  <2> QED
    BY <2>5
<1>4. CASE Materialize(r)
  <2>1. CASE run' = run /\ campaign' = campaign
    BY <2>1, SameTogether DEF Status
  <2>2. CASE run' = [run EXCEPT ![r].status = "PAUSED"] /\ campaign' = Moved({r}, {"ACTIVE"}, "PAUSED")
    <3>1. \A k \in Runs : run'[k].status = IF k = r THEN "PAUSED" ELSE Status(k)
      BY <1>0, <2>2, RowUpdates, StatusKinds DEF Status
    <3>2. Together({r}, {"ACTIVE"}, "PAUSED")
      BY <1>0, <1>4, <2>2, <3>1 DEF Materialize, Together, Goes
    <3> QED
      BY <3>2
  <2> QED
    BY <1>4, <2>1, <2>2 DEF Materialize
<1> QED
  BY <1>1, <1>2, <1>3, <1>4

LEMMA TickTogether ==
  ASSUME Shaped, HoldDue \/ Recover \/ Activate \/ Finalize
  PROVE  \E S, from, to : Together(S, from, to)
<1>0. (\A k \in Runs : run[k] \in RunRecord) /\ LiveRuns \subseteq Runs
  BY DEF Shaped
<1>1. CASE HoldDue
  <2>1. \A k \in Runs : run'[k].status = IF k \in Held THEN "PAUSED" ELSE Status(k)
    BY <1>0, <1>1, RowUpdates, StatusKinds DEF HoldDue, Status
  <2>2. \A k \in Held : Status(k) \in {"PREPARING", "SCHEDULED"}
    BY DEF Held
  <2>3. Together(Held, {"ACTIVE"}, "PAUSED")
    BY <1>0, <1>1, <2>1, <2>2 DEF HoldDue, Together, Goes
  <2> QED
    BY <2>3
<1>2. CASE Recover
  <2> DEFINE S == {r \in Abandoned : Exhausted(r)}
  <2>1. \A k \in Runs : run'[k].status = IF k \in Abandoned THEN Spent(k) ELSE Status(k)
    BY <1>0, <1>2, RowUpdates, StatusKinds DEF Recover, Status
  <2>2. \A k \in Abandoned : Status(k) = "PREPARING" /\ Spent(k) = IF k \in S THEN "FAILED" ELSE "PREPARING"
    BY DEF Abandoned, Spent
  <2>3. campaign' = Moved(S, {"ACTIVE", "PAUSED"}, "ARCHIVED") /\ S \subseteq Abandoned
    BY <1>2 DEF Recover, Archived
  <2> HIDE DEF S
  <2>4. Together(S, {"ACTIVE", "PAUSED"}, "ARCHIVED")
    BY <1>0, <2>1, <2>2, <2>3 DEF Together, Goes
  <2> QED
    BY <2>4
<1>3. CASE Activate
  <2>1. \A k \in Runs : run'[k].status = IF k \in Startable THEN "RUNNING"
                                         ELSE IF k \in Missed THEN "PAUSED" ELSE Status(k)
    BY <1>0, <1>3, RowUpdates, StatusKinds DEF Activate, Status
  <2>2. \A k \in Startable : Status(k) = "SCHEDULED" /\ k \notin Missed
    BY DEF Startable, Missed
  <2>3. \A k \in Missed : Status(k) \in {"PREPARING", "SCHEDULED"}
    BY DEF Missed
  <2>4. Together(Missed, {"ACTIVE"}, "PAUSED")
    BY <1>0, <1>3, <2>1, <2>2, <2>3 DEF Activate, Together, Goes
  <2> QED
    BY <2>4
<1>4. CASE Finalize
  <2>1. \A k \in Runs : run'[k].status = IF k \in Cancelled THEN "CANCELLED"
                                         ELSE IF k \in Finished THEN Aggregate(k) ELSE Status(k)
    BY <1>0, <1>4, RowUpdates, StatusKinds DEF Finalize, Status
  <2>2. \A k \in Cancelled : Status(k) = "CANCELLING"
    BY DEF Cancelled
  <2>3. \A k \in Finished : /\ Status(k) \in {"RUNNING", "COMPLETED", "PARTIAL_FAILED"}
                            /\ Aggregate(k) \in {"COMPLETED", "PARTIAL_FAILED"}
    BY DEF Finished, Aggregate
  <2>4. Together(Cancelled \cup Finished, {"ACTIVE", "PAUSED"}, "ARCHIVED")
    BY <1>0, <1>4, <2>1, <2>2, <2>3 DEF Finalize, Archived, Together, Goes
  <2> QED
    BY <2>4
<1> QED
  BY <1>1, <1>2, <1>3, <1>4

LEMMA WorkerTogether ==
  ASSUME Shaped, Locks, NEW w \in Workers, Worker(w) \/ FailAttempt(w)
  PROVE  \E S, from, to : Together(S, from, to)
<1> DEFINE q == proc[w].run
           Goal == \E S, from, to : Together(S, from, to)
<1>0. /\ run \in [Runs -> RunRecord] /\ \A k \in Runs : run[k] \in RunRecord
      /\ w \in Procs /\ (proc[w].pc # "idle" => q \in Runs) /\ LiveRuns \subseteq Runs
  BY Work DEF Shaped, Procs
<1>a. run' = run /\ campaign' = campaign => Goal
  BY SameTogether DEF Status
<1> HIDE DEF q
<1>1. ASSUME NEW r \in Runs, Claim(w, r) PROVE Goal
  <2>1. [run[r] EXCEPT !.attempts = @ + 1, !.lease = w, !.live = TRUE].status = run[r].status
    BY <1>0, <1>1, RowClaimed DEF Claim, Claimable
  <2>2. \A k \in Runs : run'[k].status = Status(k)
    BY <1>0, <1>1, <2>1 DEF Claim, Status
  <2> QED
    BY <1>0, <1>1, <2>2, SameTogether DEF Claim
<1>2. CASE ReadInput(w)
  BY <1>2, <1>a DEF ReadInput
<1>3. CASE FailAttempt(w)
  <2>1. q \in Runs
    BY <1>0, <1>3 DEF FailAttempt
  <2>2. \/ run' = run /\ campaign' = campaign
        \/ /\ Owns(w) /\ run' = [run EXCEPT ![q] = Leaves(@, Spent(q))]
           /\ campaign' = IF Exhausted(q) THEN Moved({q}, {"ACTIVE", "PAUSED"}, "ARCHIVED") ELSE campaign
    BY <1>3 DEF FailAttempt, Archived, q
  <2>3. ASSUME Owns(w), run' = [run EXCEPT ![q] = Leaves(@, Spent(q))],
               campaign' = IF Exhausted(q) THEN Moved({q}, {"ACTIVE", "PAUSED"}, "ARCHIVED") ELSE campaign
        PROVE  Goal
    <3>1. \A k \in Runs : run'[k].status = IF k = q THEN Spent(q) ELSE Status(k)
      BY <1>0, <2>1, <2>3, RowUpdates, StatusKinds DEF Status
    <3>2. Status(q) = "PREPARING"
      BY <2>3 DEF Owns, q
    <3>3. CASE Exhausted(q)
      <4>1. Together({q}, {"ACTIVE", "PAUSED"}, "ARCHIVED")
        BY <1>0, <2>3, <3>1, <3>2, <3>3 DEF Together, Goes, Spent
      <4> QED
        BY <4>1
    <3>4. CASE ~Exhausted(q)
      BY <1>0, <2>3, <3>1, <3>2, <3>4, SameTogether DEF Spent
    <3> QED
      BY <3>3, <3>4
  <2> QED
    BY <1>a, <2>2, <2>3
<1>4. CASE Check(w)
  <2>1. q \in Runs
    BY <1>0, <1>4 DEF Check
  <2>2. \/ run' = run /\ campaign' = campaign
        \/ run' = [run EXCEPT ![q] = GivenBack(@)] /\ campaign' = campaign
        \/ /\ Owns(w) /\ run' = [run EXCEPT ![q] = Leaves(@, "PAUSED")]
           /\ campaign' = Moved({q}, {"ACTIVE"}, "PAUSED")
        \/ Owns(w) /\ run' = [run EXCEPT ![q] = Leaves(@, "BLOCKED")] /\ campaign' = campaign
    BY <1>4 DEF Check, q
  <2>3. Owns(w) => Status(q) = "PREPARING"
    BY DEF Owns, q
  <2>4. ASSUME run' = [run EXCEPT ![q] = GivenBack(@)], campaign' = campaign PROVE Goal
    <3>1. \A k \in Runs : run'[k].status = Status(k)
      BY <1>0, <2>1, <2>4, RowGivenBack DEF Status
    <3> QED
      BY <1>0, <2>4, <3>1, SameTogether
  <2>5. ASSUME Status(q) = "PREPARING", run' = [run EXCEPT ![q] = Leaves(@, "PAUSED")],
               campaign' = Moved({q}, {"ACTIVE"}, "PAUSED")
        PROVE  Goal
    <3>1. \A k \in Runs : run'[k].status = IF k = q THEN "PAUSED" ELSE Status(k)
      BY <1>0, <2>1, <2>5, RowUpdates, StatusKinds DEF Status
    <3>2. Together({q}, {"ACTIVE"}, "PAUSED")
      BY <1>0, <2>5, <3>1 DEF Together, Goes
    <3> QED
      BY <3>2
  <2>6. ASSUME Status(q) = "PREPARING", run' = [run EXCEPT ![q] = Leaves(@, "BLOCKED")],
               campaign' = campaign
        PROVE  Goal
    <3>1. \A k \in Runs : run'[k].status = IF k = q THEN "BLOCKED" ELSE Status(k)
      BY <1>0, <2>1, <2>6, RowUpdates, StatusKinds DEF Status
    <3> QED
      BY <1>0, <2>6, <3>1, SameTogether DEF Goes
  <2> QED
    BY <1>a, <2>2, <2>3, <2>4, <2>5, <2>6
<1>5. CASE Apply(w)
  <2>1. q \in Runs /\ Status(q) = "PREPARING"
    BY <1>0, <1>5 DEF Apply, Locks, Locked, q
  <2>2. \A k \in Runs : run'[k].status = IF k = q THEN Begun(q) ELSE Status(k)
    BY <1>0, <1>5, <2>1, RowUpdates, StatusKinds DEF Apply, Status, q
  <2> QED
    BY <1>0, <1>5, <2>1, <2>2, SameTogether DEF Apply, Begun, Goes
<1> QED
  BY <1>1, <1>2, <1>3, <1>4, <1>5 DEF Worker

LEMMA ResumeTogether ==
  ASSUME Shaped, Locks, NEW o \in Operators, Resume(o)
  PROVE  \E S, from, to : Together(S, from, to)
<1> DEFINE q == proc[o].run
           Goal == \E S, from, to : Together(S, from, to)
<1>0. /\ run \in [Runs -> RunRecord] /\ \A k \in Runs : run[k] \in RunRecord
      /\ o \in Procs /\ (proc[o].pc # "idle" => q \in Runs) /\ LiveRuns \subseteq Runs
  BY Work DEF Shaped, Procs
<1>a. run' = run /\ campaign' = campaign => Goal
  BY SameTogether DEF Status
<1> HIDE DEF q
<1>1. CASE (\E r \in Runs : ResumeRead(o, r)) \/ ResumeCheck(o)
  BY <1>1, <1>a DEF ResumeRead, ResumeCheck
<1>2. CASE ResumeRefused(o)
  <2>1. q \in Runs /\ campaign' = campaign
    BY <1>0, <1>2 DEF ResumeRefused
  <2>2. \/ run' = run
        \/ Status(q) \in {"PAUSED", "BLOCKED"} /\ run' = [run EXCEPT ![q].status = "BLOCKED"]
    BY <1>2 DEF ResumeRefused, q
  <2>3. ASSUME Status(q) \in {"PAUSED", "BLOCKED"}, run' = [run EXCEPT ![q].status = "BLOCKED"]
        PROVE  Goal
    <3>1. \A k \in Runs : run'[k].status = IF k = q THEN "BLOCKED" ELSE Status(k)
      BY <1>0, <2>1, <2>3, RowUpdates, StatusKinds DEF Status
    <3> QED
      BY <1>0, <2>1, <2>3, <3>1, SameTogether DEF Goes
  <2> QED
    BY <1>a, <2>1, <2>2, <2>3
<1>3. CASE ResumeApply(o)
  <2>1. q \in Runs /\ Status(q) \in {"PAUSED", "BLOCKED"}
    BY <1>0, <1>3 DEF ResumeApply, Locks, Locked, q
  <2>2. \A k \in Runs : run'[k].status = IF k = q THEN Begun(q) ELSE Status(k)
    BY <1>0, <1>3, <2>1, RowUpdates, StatusKinds DEF ResumeApply, Status, q
  <2>3. Together({q}, {"PAUSED"}, "ACTIVE")
    BY <1>0, <1>3, <2>1, <2>2 DEF ResumeApply, Together, Begun, Goes, q
  <2> QED
    BY <2>3
<1> QED
  BY <1>1, <1>2, <1>3 DEF Resume

\* The launch itself makes a draft ACTIVE, and leaves it a draft when the run is a dry one.
LEMMA CreateFollows ==
  ASSUME Shaped, Shaped', Linked, OneRun, Launched, NEW r \in Runs, Create(r)
  PROVE  (Linked /\ OneRun /\ Launched)'
<1>0. LiveRuns \subseteq Runs /\ \A k \in Runs : CampaignOf[k] \in Campaigns
  OBVIOUS
<1>1. \A k \in Runs : run'[k].status = IF k = r THEN "PREPARING" ELSE Status(k)
  BY RowUpdates DEF Create, Status, Shaped, RunStatus
<1>2. CASE r \notin LiveRuns
  <2>1. \A c \in Campaigns : campaign'[c] = campaign[c]
    BY <1>2 DEF Create, Moved
  <2>2. \A k \in LiveRuns : run'[k].status = Status(k)
    BY <1>0, <1>1, <1>2
  <2> QED
    BY <1>0, <2>1, <2>2 DEF Linked, OneRun, Launched, LiveOf, RunsOf, Status
<1>3. CASE r \in LiveRuns
  <2>1. \A k \in LiveRuns : CampaignOf[k] = CampaignOf[r] => Status(k) = "none"
    BY <1>0 DEF Create, Launchable, RunsOf
  <2>2. \A c \in Campaigns : campaign'[c] = IF c = CampaignOf[r] THEN "ACTIVE" ELSE campaign[c]
    BY <1>0, <1>3 DEF Create, Launchable, Moved
  <2>3. Linked'
    BY <1>0, <1>1, <2>1, <2>2 DEF Linked, Status, Goes
  <2>4. OneRun'
    BY <1>0, <1>1, <2>1 DEF OneRun, Status
  <2>5. Launched'
    <3> SUFFICES ASSUME NEW c \in Campaigns, campaign'[c] # "DRAFT"
                 PROVE  \E k \in LiveRuns : CampaignOf[k] = c /\ run'[k].status # "none"
      <4>1. \A k \in Runs : run'[k].status \in RunStatus
        BY RowFields DEF Shaped
      <4> QED
        BY <1>0, <4>1 DEF Launched, LiveOf, RunsOf, Status
    <3>1. CASE c = CampaignOf[r]
      BY <1>0, <1>1, <1>3, <3>1
    <3>2. CASE c # CampaignOf[r]
      BY <1>0, <1>1, <2>2, <3>2 DEF Launched, LiveOf, RunsOf
    <3> QED
      BY <3>1, <3>2
  <2> QED
    BY <2>3, <2>4, <2>5
<1> QED
  BY <1>2, <1>3

LEMMA NextCampaigns ==
  ASSUME Shaped, Shaped', Locks, Linked, OneRun, Launched, [Next]_vars
  PROVE  (Linked /\ OneRun /\ Launched)'
<1>1. ASSUME run' = run, campaign' = campaign PROVE \E S, from, to : Together(S, from, to)
  BY <1>1, SameTogether DEF Status
<1>2. Reconcile \/ SchedulerCrash \/ SchedulerLeads => run' = run /\ campaign' = campaign
  BY DEF Reconcile, SchedulerCrash, SchedulerLeads
<1>3. ASSUME NEW r \in Runs, NEW g \in Groups,
             JobMoves(r, g) \/ JobPutBack(r, g) \/ JobFailed(r, g) \/ JobEvidence(r, g)
      PROVE  run' = run /\ campaign' = campaign
  BY <1>3 DEF JobMoves, JobClaimed, JobStarted, JobDryRun, JobAnswered, JobPutBack, JobFailed,
              JobEvidence, JobTo
<1>4. \/ \E g \in Groups : Invalidate(g) \/ \E allowed \in BOOLEAN : Refresh(g, allowed)
      \/ \E c \in Campaigns : Delete(c)
      \/ \E p \in Procs : WorkerCrash(p)
      \/ SessionChanges \/ Time \/ UNCHANGED vars
      => run' = run /\ campaign' = campaign
  BY DEF Invalidate, Refresh, Cap, Delete, WorkerCrash, SessionChanges, Time, vars
<1>5. (\E r \in Runs : Create(r)) \/ \E S, from, to : Together(S, from, to)
  BY <1>1, <1>2, <1>3, <1>4, NextGroups, LaunchTogether, TickTogether, WorkerTogether, ResumeTogether
<1> QED
  BY <1>5, CreateFollows, TogetherFollows

LEMMA NextGone ==
  ASSUME Shaped, Locks, Mail, Follow, [Next]_vars
  PROVE  Gone'
<1>0. LiveRuns \subseteq Runs
  OBVIOUS
<1>1. deleted' = deleted \/ \E c \in Campaigns : Delete(c)
  <2>1. ASSUME NEW w \in Workers, Worker(w) \/ FailAttempt(w) PROVE deleted' = deleted
    BY <2>1 DEF Worker, Claim, ReadInput, Check, Apply, FailAttempt
  <2>2. ASSUME NEW o \in Operators, Resume(o) PROVE deleted' = deleted
    BY <2>2 DEF Resume, ResumeRead, ResumeRefused, ResumeCheck, ResumeApply
  <2>3. ASSUME NEW r \in Runs, Create(r) \/ LeaseExpires(r) \/ Pause(r) \/ Cancel(r) \/ Materialize(r)
        PROVE  deleted' = deleted
    BY <2>3 DEF Create, LeaseExpires, Pause, Cancel, Materialize
  <2>4. ASSUME NEW r \in Runs, NEW g \in Groups,
               JobMoves(r, g) \/ JobPutBack(r, g) \/ JobFailed(r, g) \/ JobEvidence(r, g)
        PROVE  deleted' = deleted
    BY <2>4 DEF JobMoves, JobClaimed, JobStarted, JobDryRun, JobAnswered, JobPutBack, JobFailed,
                JobEvidence, JobTo
  <2>5. HoldDue \/ Recover \/ Activate \/ Reconcile \/ Finalize \/ SchedulerCrash \/ SchedulerLeads
          => deleted' = deleted
    BY DEF HoldDue, Recover, Activate, Reconcile, Finalize, SchedulerCrash, SchedulerLeads
  <2>6. \/ \E g \in Groups : Invalidate(g) \/ \E allowed \in BOOLEAN : Refresh(g, allowed)
        \/ \E p \in Procs : WorkerCrash(p)
        \/ SessionChanges \/ Time \/ UNCHANGED vars
        => deleted' = deleted
    BY DEF Invalidate, Refresh, Cap, WorkerCrash, SessionChanges, Time, vars
  <2> QED
    BY <2>1, <2>2, <2>3, <2>4, <2>5, <2>6, NextGroups
<1>2. CASE deleted' = deleted
  <2> SUFFICES ASSUME NEW c \in deleted, NEW r \in Runs, CampaignOf[r] = c
               PROVE  ~Active(run'[r].status)
    BY <1>2 DEF Gone, RunsOf, Status
  <2>1. ~Active(Status(r))
    BY DEF Follow, Gone, RunsOf
  <2>2. ASSUME NEW k \in Runs, Create(k) PROVE run'[r] = run[r]
    BY <2>2 DEF Create, Shaped
  <2>3. ASSUME NEW p \in Procs, Applies(p) PROVE run'[r].status = Status(r)
    BY <2>1, <2>3 DEF Applies, Locks, Active, NonTerminal
  <2>4. Advance(r) => ~Active(run'[r].status)
    BY <2>1 DEF Advance, Active, NonTerminal
  <2> QED
    BY <2>1, <2>2, <2>3, <2>4, NextStatus DEF Status
<1>3. ASSUME NEW c \in Campaigns, Delete(c) PROVE Gone'
  <2>1. run' = run /\ deleted' = deleted \cup {c}
    BY <1>3 DEF Delete
  <2>2. \A r \in RunsOf(c) : Status(r) # "CANCELLING"
    BY <1>3 DEF Follow, Linked, Goes, Mail, Dry, Delete, RunsOf
  <2>3. \A r \in RunsOf(c) : ~Active(Status(r))
    BY <1>3, <2>2 DEF Delete, Active
  <2> QED
    BY <2>1, <2>3 DEF Follow, Gone, RunsOf, Status
<1> QED
  BY <1>1, <1>2, <1>3

LEMMA InitFollow == Init => Follow
BY DEF Init, Follow, Linked, OneRun, Launched, Gone, Status, NoRun

CampaignInv == Shaped /\ Locks /\ Mail /\ Follow

LEMMA CampaignInvariance == Spec => []CampaignInv
<1>1. Init => CampaignInv
  BY InitShaped, InitLocks, InitMail, InitFollow DEF CampaignInv
<1>2. CampaignInv /\ [Next]_vars => CampaignInv'
  BY NextShaped, NextLocks, NextMail, NextCampaigns, NextGone DEF CampaignInv, Follow
<1> QED
  BY <1>1, <1>2, PTL DEF Spec

\* A campaign follows its LIVE run whatever order launches, preparations, ticks and operators
\* commit in, and what was deleted has no run that can still do something: auditLifecycle()
\* finds nothing to report.
THEOREM LifecycleHasNoDrift == Spec => []NoLifecycleDrift
<1>1. ASSUME CampaignInv PROVE NoLifecycleDrift
  <2> SUFFICES ASSUME NEW c \in Campaigns
               PROVE  /\ campaign[c] = "DRAFT" => ~LiveOf(c, RunStatus \ {"none"})
                      /\ campaign[c] = "ACTIVE" => LiveOf(c, NonTerminal)
                      /\ campaign[c] = "PAUSED" => LiveOf(c, {"PAUSED", "BLOCKED", "CANCELLING"})
                      /\ campaign[c] = "ARCHIVED" => ~LiveOf(c, NonTerminal \cup {"CANCELLING"})
                      /\ c \in deleted =>
                           \A r \in RunsOf(c) : Status(r) \notin NonTerminal \cup {"CANCELLING"}
    BY DEF NoLifecycleDrift
  <2>1. /\ \A r \in RunsOf(c) \cap LiveRuns : Status(r) # "none" => campaign[c] \in Goes(Status(r))
        /\ campaign[c] # "DRAFT" => LiveOf(c, RunStatus \ {"none"})
    BY <1>1 DEF CampaignInv, Follow, Linked, Launched, RunsOf
  <2>2. campaign[c] = "DRAFT" => ~LiveOf(c, RunStatus \ {"none"})
    BY <2>1 DEF LiveOf, Goes
  <2>3. campaign[c] = "ACTIVE" => LiveOf(c, NonTerminal)
    BY <2>1 DEF LiveOf, Goes, NonTerminal
  <2>4. campaign[c] = "PAUSED" => LiveOf(c, {"PAUSED", "BLOCKED", "CANCELLING"})
    BY <2>1 DEF LiveOf, Goes
  <2>5. campaign[c] = "ARCHIVED" => ~LiveOf(c, NonTerminal \cup {"CANCELLING"})
    BY <2>1 DEF LiveOf, Goes, NonTerminal
  <2>6. c \in deleted => \A r \in RunsOf(c) : Status(r) \notin NonTerminal \cup {"CANCELLING"}
    BY <1>1 DEF CampaignInv, Follow, Gone, Active
  <2> QED
    BY <2>2, <2>3, <2>4, <2>5, <2>6
<1> QED
  BY <1>1, CampaignInvariance, PTL

-----------------------------------------------------------------------------
(* The refinement of LaunchPromise.                                        *)

\* At most one launch is under way.
OneActive == \A r, s \in LiveRuns : Active(Status(r)) /\ Active(Status(s)) => r = s

LEMMA NextOneActive ==
  ASSUME Shaped, Locks, OneActive, [Next]_vars
  PROVE  OneActive'
<1>0. LiveRuns \subseteq Runs
  OBVIOUS
<1>1. ASSUME NEW k \in Runs, Create(k) PROVE OneActive'
  <2>1. \A r \in Runs \ {k} : run'[r] = run[r]
    BY <1>1 DEF Create, Shaped
  <2>2. k \in LiveRuns => \A r \in LiveRuns : ~Active(Status(r))
    BY <1>0, <1>1 DEF Create, Launchable, ActiveLive, Live, Active
  <2> QED
    BY <1>0, <2>1, <2>2 DEF OneActive, Status
<1>2. ASSUME NEW p \in Procs, Applies(p) PROVE OneActive'
  <2>1. Active(Status(proc[p].run))
    BY <1>2 DEF Applies, Locks, Active, NonTerminal
  <2>2. \A r \in LiveRuns : Active(run'[r].status) => Active(Status(r))
    BY <1>0, <1>2, <2>1 DEF Applies
  <2> QED
    BY <2>2 DEF OneActive, Status
<1>3. CASE \A r \in Runs : Advance(r)
  <2>1. \A r \in LiveRuns : Active(run'[r].status) => Active(Status(r))
    BY <1>0, <1>3 DEF Advance, Active, NonTerminal
  <2> QED
    BY <2>1 DEF OneActive, Status
<1> QED
  BY <1>1, <1>2, <1>3, NextStatus

\* The phase of a launch by the status of its run.
PhaseOf(status) ==
  CASE status = "none" -> "absent"
    [] status = "PREPARING" -> "preparing"
    [] status \in {"BLOCKED", "SCHEDULED", "PAUSED"} -> "waiting"
    [] status = "RUNNING" -> "sending"
    [] status = "CANCELLING" -> "stopping"
    [] OTHER -> "ended"

PhaseBar == [r \in LiveRuns |-> Phase(r)]
MailBar == [r \in LiveRuns |-> [g \in Groups |-> MailOf(job[r][g])]]

LEMMA PhaseIs ==
  /\ \A r \in LiveRuns : PhaseBar[r] = PhaseOf(run[r].status)
  /\ \A r \in LiveRuns : PhaseBar'[r] = PhaseOf(run'[r].status)
BY DEF PhaseBar, Phase, PhaseOf, Status

\* What the abstract state becomes.
MailSame == \A r \in LiveRuns, g \in Groups : MailOf(job'[r][g]) = MailOf(job[r][g])
PhaseMoves(l, new) ==
  \A r \in LiveRuns : PhaseOf(run'[r].status) = IF r = l THEN new ELSE PhaseOf(run[r].status)

LEMMA BarsMove ==
  /\ MailSame => MailBar' = MailBar
  /\ \A l \in LiveRuns : \A new : PhaseMoves(l, new) => PhaseBar' = [PhaseBar EXCEPT ![l] = new]
  /\ (\A r \in LiveRuns : PhaseOf(run'[r].status) = PhaseOf(run[r].status)) => PhaseBar' = PhaseBar
<1>1. MailSame => MailBar' = MailBar
  BY DEF MailSame, MailBar
<1>2. PhaseBar = [r \in LiveRuns |-> PhaseOf(run[r].status)]
  BY DEF PhaseBar, Phase, PhaseOf, Status
<1>3. PhaseBar' = [r \in LiveRuns |-> PhaseOf(run'[r].status)]
  BY DEF PhaseBar, Phase, PhaseOf, Status
<1>4. ASSUME NEW l \in LiveRuns, NEW new, PhaseMoves(l, new)
      PROVE  PhaseBar' = [PhaseBar EXCEPT ![l] = new]
  BY <1>2, <1>3, <1>4 DEF PhaseMoves
<1> QED
  BY <1>1, <1>2, <1>3, <1>4

Quiet(r) == \A g \in Groups : job[r][g] \notin {"SCHEDULED", "PROCESSING", "STARTED"}

\* How a launch may go on by itself while its messages stay what they are.
GoesOn(r) ==
  \/ PhaseOf(run'[r].status) = PhaseOf(Status(r))
  \/ /\ Status(r) \in {"PREPARING", "BLOCKED", "SCHEDULED", "PAUSED", "RUNNING"}
     /\ run'[r].status \in {"BLOCKED", "SCHEDULED", "PAUSED", "RUNNING"}
  \/ /\ Status(r) \in {"PREPARING", "RUNNING"} /\ Quiet(r)
     /\ run'[r].status \in {"FAILED", "COMPLETED", "PARTIAL_FAILED"}
  \/ /\ Status(r) = "CANCELLING" /\ \A g \in Groups : job[r][g] # "STARTED"
     /\ run'[r].status = "CANCELLED"

Steps == Promise!Next \/ (PhaseBar' = PhaseBar /\ MailBar' = MailBar)

LEMMA AllGoOn ==
  ASSUME Shaped, OneActive, MailSame, \A r \in LiveRuns : GoesOn(r)
  PROVE  Steps
<1>1. CASE \A r \in LiveRuns : PhaseOf(run'[r].status) = PhaseOf(run[r].status)
  BY <1>1, BarsMove DEF Steps
<1>2. ASSUME NEW l \in LiveRuns, PhaseOf(run'[l].status) # PhaseOf(run[l].status)
      PROVE  Promise!Next
  <2> DEFINE new == PhaseOf(run'[l].status)
  <2>1. \A r \in LiveRuns : r # l => PhaseOf(run'[r].status) = PhaseOf(run[r].status)
    BY <1>2 DEF GoesOn, OneActive, Active, NonTerminal, Status
  <2>2. PhaseBar' = [PhaseBar EXCEPT ![l] = new] /\ MailBar' = MailBar
    BY <2>1, BarsMove DEF PhaseMoves
  <2>3. PhaseBar[l] = PhaseOf(Status(l))
    BY PhaseIs DEF Status
  <2>4. \A g \in Groups : MailBar[l][g] = MailOf(job[l][g]) /\ job[l][g] \in JobStatus
    BY DEF MailBar, Shaped
  <2> HIDE DEF new
  <2>5. CASE /\ Status(l) \in {"PREPARING", "BLOCKED", "SCHEDULED", "PAUSED", "RUNNING"}
             /\ run'[l].status \in {"BLOCKED", "SCHEDULED", "PAUSED", "RUNNING"}
    <3>1. PhaseBar[l] \in {"preparing", "waiting", "sending"} /\ new \in {"waiting", "sending"}
      BY <2>3, <2>5 DEF PhaseOf, new
    <3>2. Promise!Moves(l)
      BY <2>2, <3>1 DEF Promise!Moves, Promise!Enters, PhaseBar, MailBar
    <3> QED
      BY <3>2 DEF Promise!Next
  <2>6. CASE /\ Status(l) \in {"PREPARING", "RUNNING"} /\ Quiet(l)
             /\ run'[l].status \in {"FAILED", "COMPLETED", "PARTIAL_FAILED"}
    <3>1. PhaseBar[l] \in {"preparing", "sending"} /\ new = "ended"
      BY <2>3, <2>6 DEF PhaseOf, new
    <3>2. \A g \in Groups : MailBar[l][g] \notin {"queued", "inFlight"}
      BY <2>4, <2>6 DEF Quiet, MailOf, JobStatus, Outcome
    <3>3. Promise!Ends(l)
      BY <2>2, <3>1, <3>2 DEF Promise!Ends, Promise!Enters, Promise!Quiet, Promise!Open, PhaseBar, MailBar
    <3> QED
      BY <3>3 DEF Promise!Next
  <2>7. CASE /\ Status(l) = "CANCELLING" /\ \A g \in Groups : job[l][g] # "STARTED"
             /\ run'[l].status = "CANCELLED"
    <3>1. PhaseBar[l] = "stopping" /\ new = "ended"
      BY <2>3, <2>7 DEF PhaseOf, new
    <3>2. \A g \in Groups : MailBar[l][g] # "inFlight"
      BY <2>4, <2>7 DEF MailOf, JobStatus, Outcome
    <3>3. Promise!Stopped(l)
      BY <2>2, <3>1, <3>2 DEF Promise!Stopped, Promise!Enters, Promise!InFlight, PhaseBar, MailBar
    <3> QED
      BY <3>3 DEF Promise!Next
  <2> QED
    BY <1>2, <2>5, <2>6, <2>7 DEF GoesOn, Status
<1> QED
  BY <1>1, <1>2 DEF Steps

OrderInv == Shaped /\ Locks /\ Mail /\ OneActive

LEMMA SamePhases ==
  ASSUME OrderInv, job' = job, \A r \in Runs : run'[r].status = Status(r)
  PROVE  Steps
<1>1. \A r \in LiveRuns : GoesOn(r)
  BY DEF GoesOn, Status
<1> QED
  BY <1>1, AllGoOn DEF OrderInv, MailSame

\* A run without deliveries has no open job; no more has one whose deliveries are settled.
LEMMA QuietRuns ==
  ASSUME OrderInv, NEW r \in Runs
  PROVE  /\ Status(r) \in {"none", "PREPARING"} => Quiet(r)
         /\ Settled(r) => Quiet(r)
<1>1. \A g \in Groups : delivery[r][g] \in DeliveryStatus /\ job[r][g] \in MayBe(delivery[r][g])
  BY DEF OrderInv, Shaped, Mail, Paired
<1>2. ASSUME NEW g \in Groups, job[r][g] \in {"SCHEDULED", "PROCESSING", "STARTED"}
      PROVE  delivery[r][g] \in {"MATERIALIZED", "PROCESSING"}
  BY <1>1, <1>2, OpenPair
<1>3. Status(r) \in {"none", "PREPARING"} => \A g \in Groups : delivery[r][g] = "none"
  BY DEF OrderInv, Mail, Untouched
<1>4. Settled(r) => \A g \in Groups : delivery[r][g] \notin {"MATERIALIZED", "PROCESSING"}
  BY DEF Settled, Deliveries
<1> QED
  BY <1>2, <1>3, <1>4 DEF Quiet

LEMMA CreateSteps ==
  ASSUME OrderInv, NEW r \in Runs, Create(r)
  PROVE  Steps
<1>0. LiveRuns \subseteq Runs
  OBVIOUS
<1>1. \A k \in Runs : run'[k].status = IF k = r THEN "PREPARING" ELSE Status(k)
  BY RowUpdates DEF OrderInv, Create, Status, Shaped, RunStatus
<1>2. MailBar' = MailBar
  BY BarsMove DEF Create, MailSame
<1>3. CASE r \notin LiveRuns
  BY <1>0, <1>1, <1>2, <1>3, BarsMove DEF Steps, Status
<1>4. CASE r \in LiveRuns
  <2>1. PhaseBar' = [PhaseBar EXCEPT ![r] = "preparing"]
    <3>1. PhaseMoves(r, "preparing")
      BY <1>0, <1>1 DEF PhaseMoves, PhaseOf, Status
    <3> QED
      BY <1>4, <3>1, BarsMove
  <2>2. PhaseBar[r] = "absent"
    BY <1>4, PhaseIs DEF Create, Status, PhaseOf
  <2>3. \A k \in LiveRuns : PhaseBar[k] \in {"absent", "ended"}
    <3>1. \A k \in LiveRuns : ~Active(Status(k))
      BY <1>0, <1>4 DEF Create, Launchable, ActiveLive, Live, Active
    <3> QED
      BY <3>1, PhaseIs DEF Active, NonTerminal, PhaseOf, Status
  <2>4. Promise!Launch(r)
    BY <1>2, <2>1, <2>2, <2>3 DEF Promise!Launch, Promise!Enters, PhaseBar, MailBar
  <2> QED
    BY <1>4, <2>4 DEF Promise!Next, Steps
<1> QED
  BY <1>3, <1>4

LEMMA CancelSteps ==
  ASSUME OrderInv, NEW r \in Runs, Cancel(r)
  PROVE  Steps
<1>0. LiveRuns \subseteq Runs /\ \A k \in Runs, g \in Groups : job[k][g] \in JobStatus
  BY DEF OrderInv, Shaped
<1> DEFINE ended == ~\E g \in Groups : TakenBack(r)[g] = "STARTED"
           s == IF ended THEN "CANCELLED" ELSE "CANCELLING"
<1>1. \A k \in Runs : run'[k].status = IF k = r THEN s ELSE Status(k)
  BY RowUpdates, StatusKinds DEF OrderInv, Cancel, Status, Shaped
<1>2. \A k \in Runs, g \in Groups :
        job'[k][g] = IF k = r /\ job[k][g] \in {"SCHEDULED", "PROCESSING"} THEN "CANCELLED" ELSE job[k][g]
  BY DEF OrderInv, Cancel, TakenBack, Shaped
<1>3. ended <=> ~\E g \in Groups : job[r][g] = "STARTED"
  BY DEF TakenBack
<1> HIDE DEF ended
<1>4. CASE r \notin LiveRuns
  <2>1. \A k \in LiveRuns : PhaseOf(run'[k].status) = PhaseOf(run[k].status)
    BY <1>0, <1>1, <1>4 DEF Status
  <2>2. MailSame
    BY <1>0, <1>2, <1>4 DEF MailSame
  <2> QED
    BY <2>1, <2>2, BarsMove DEF Steps
<1>5. CASE r \in LiveRuns
  <2> DEFINE new == IF ended THEN "ended" ELSE "stopping"
  <2>1. PhaseBar' = [PhaseBar EXCEPT ![r] = new]
    <3>1. PhaseMoves(r, new)
      BY <1>0, <1>1 DEF PhaseMoves, PhaseOf, Status
    <3> QED
      BY <1>5, <3>1, BarsMove
  <2>2. PhaseBar[r] \in {"preparing", "waiting", "sending"}
    BY <1>5, PhaseIs DEF Cancel, NonTerminal, Status, PhaseOf
  <2>3. \A g \in Groups : MailBar[r][g] = MailOf(job[r][g])
    BY <1>5 DEF MailBar
  <2>4. ended <=> ~\E g \in Groups : MailBar[r][g] = "inFlight"
    BY <1>0, <1>3, <2>3 DEF MailOf, JobStatus, Outcome
  <2>5. \A g \in Groups : MailOf(job'[r][g]) = IF MailBar[r][g] = "queued" THEN "withdrawn" ELSE MailBar[r][g]
    BY <1>0, <1>2, <2>3 DEF MailOf, JobStatus, Outcome
  <2>6. MailBar' = [MailBar EXCEPT ![r] = [g \in Groups |-> IF @[g] = "queued" THEN "withdrawn" ELSE @[g]]]
    <3> DEFINE row == [g \in Groups |-> IF MailBar[r][g] = "queued" THEN "withdrawn" ELSE MailBar[r][g]]
    <3>1. \A k \in LiveRuns : k # r => [g \in Groups |-> MailOf(job'[k][g])] = MailBar[k]
      BY <1>0, <1>2 DEF MailBar
    <3>2. [g \in Groups |-> MailOf(job'[r][g])] = row
      BY <2>5
    <3> HIDE DEF row
    <3>3. MailBar' = [k \in LiveRuns |-> [g \in Groups |-> MailOf(job'[k][g])]]
      BY DEF MailBar
    <3>4. MailBar' = [k \in LiveRuns |-> IF k = r THEN row ELSE MailBar[k]]
      BY <3>1, <3>2, <3>3
    <3>5. DOMAIN MailBar = LiveRuns /\ MailBar = [k \in LiveRuns |-> MailBar[k]]
      BY DEF MailBar
    <3>6. MailBar' = [MailBar EXCEPT ![r] = row]
      BY <1>5, <3>4, <3>5
    <3> QED
      BY <3>6 DEF row
  <2>7. Promise!InFlight(r) <=> ~ended
    BY <2>4 DEF Promise!InFlight, MailBar
  <2> HIDE DEF new
  <2>8. new = IF Promise!InFlight(r) THEN "stopping" ELSE "ended"
    BY <2>7 DEF new
  <2>9. Promise!Cancel(r)
    BY <2>1, <2>2, <2>6, <2>8 DEF Promise!Cancel, Promise!Enters, PhaseBar, MailBar
  <2> QED
    BY <1>5, <2>9 DEF Promise!Next, Steps
<1> QED
  BY <1>4, <1>5

\* The job of one group takes a status, and nothing else changes.
JobBecomes(r, g, s) ==
  /\ run' = run
  /\ \A k \in Runs, h \in Groups : job'[k][h] = IF k = r /\ h = g THEN s ELSE job[k][h]

LEMMA OneMailMoves ==
  ASSUME NEW r \in LiveRuns, NEW g \in Groups, NEW s, JobBecomes(r, g, s)
  PROVE  /\ MailBar' = [MailBar EXCEPT ![r][g] = MailOf(s)] /\ PhaseBar' = PhaseBar
         /\ MailBar[r][g] = MailOf(job[r][g])
<1> DEFINE row == [MailBar[r] EXCEPT ![g] = MailOf(s)]
<1>0. /\ LiveRuns \subseteq Runs
      /\ \A k \in LiveRuns : MailBar[k] = [h \in Groups |-> MailOf(job[k][h])]
  BY DEF MailBar
<1>1. \A k \in LiveRuns : k # r => [h \in Groups |-> MailOf(job'[k][h])] = MailBar[k]
  BY <1>0 DEF JobBecomes
<1>2. [h \in Groups |-> MailOf(job'[r][h])] = row
  <2>1. row = [h \in Groups |-> IF h = g THEN MailOf(s) ELSE MailOf(job[r][h])]
    BY <1>0
  <2>2. \A h \in Groups : MailOf(job'[r][h]) = IF h = g THEN MailOf(s) ELSE MailOf(job[r][h])
    BY <1>0 DEF JobBecomes
  <2> HIDE DEF row
  <2> QED
    BY <2>1, <2>2
<1> HIDE DEF row
<1>3. MailBar' = [k \in LiveRuns |-> [h \in Groups |-> MailOf(job'[k][h])]]
  BY DEF MailBar
<1>4. MailBar' = [k \in LiveRuns |-> IF k = r THEN row ELSE MailBar[k]]
  BY <1>1, <1>2, <1>3
<1>5. DOMAIN MailBar = LiveRuns /\ MailBar = [k \in LiveRuns |-> MailBar[k]]
  BY DEF MailBar
<1>6. MailBar' = [MailBar EXCEPT ![r] = row]
  BY <1>4, <1>5
<1>7. PhaseBar' = PhaseBar
  BY BarsMove DEF JobBecomes
<1> QED
  BY <1>0, <1>6, <1>7 DEF row

LEMMA JobSteps ==
  ASSUME OrderInv, NEW r \in Runs, NEW g \in Groups,
         JobMoves(r, g) \/ JobPutBack(r, g) \/ JobFailed(r, g) \/ JobEvidence(r, g)
  PROVE  Steps
<1>0. ASSUME NEW s, JobTo(r, g, s) PROVE JobBecomes(r, g, s)
  BY <1>0 DEF OrderInv, Shaped, JobTo, JobBecomes
<1>1. CASE r \notin LiveRuns
  <2>1. run' = run /\ \A k \in LiveRuns, h \in Groups : job'[k][h] = job[k][h]
    <3>1. \E s : JobTo(r, g, s)
      BY DEF JobMoves, JobClaimed, JobStarted, JobDryRun, JobAnswered, JobPutBack, JobFailed, JobEvidence
    <3> QED
      BY <1>0, <1>1, <3>1 DEF JobBecomes
  <2>2. MailSame
    BY <2>1 DEF MailSame
  <2> QED
    BY <2>1, <2>2, BarsMove DEF Steps
<1>2. CASE r \in LiveRuns
  <2> DEFINE Becomes(new) == MailBar' = [MailBar EXCEPT ![r][g] = new] /\ PhaseBar' = PhaseBar
  <2>0. /\ MailBar[r][g] = MailOf(job[r][g]) /\ PhaseBar[r] = PhaseOf(Status(r))
        /\ [MailBar EXCEPT ![r][g] = MailBar[r][g]] = MailBar
    BY <1>2, PhaseIs DEF MailBar, Status
  <2>a. \A s : JobTo(r, g, s) => Becomes(MailOf(s))
    BY <1>0, <1>2, OneMailMoves
  <2> HIDE DEF Becomes
  <2>1. CASE JobClaimed(r, g)
    <3>1. MailBar[r][g] = "queued" /\ Becomes("queued")
      BY <2>0, <2>1, <2>a DEF JobClaimed, MailOf
    <3> QED
      BY <2>0, <3>1 DEF Becomes, Steps
  <2>2. CASE JobStarted(r, g)
    <3>1. MailBar[r][g] = "queued" /\ Becomes("inFlight") /\ PhaseBar[r] = "sending"
      BY <2>0, <2>2, <2>a DEF JobStarted, MailOf, PhaseOf
    <3>2. Promise!Send(r, g)
      BY <3>1 DEF Promise!Send, Promise!Becomes, Becomes, PhaseBar, MailBar
    <3> QED
      BY <1>2, <3>2 DEF Promise!Next, Steps
  <2>3. CASE JobDryRun(r, g)
    BY <1>2, <2>3 DEF JobDryRun, Live
  <2>4. CASE JobAnswered(r, g)
    <3>1. PICK s \in {"ACCEPTED", "FAILED", "UNKNOWN"} : JobTo(r, g, s) /\ job[r][g] = "STARTED"
      BY <2>4 DEF JobAnswered
    <3>2. MailBar[r][g] = "inFlight" /\ \E new \in {"accepted", "failed", "unclear"} : Becomes(new)
      BY <2>0, <2>a, <3>1 DEF MailOf
    <3>3. Promise!Answer(r, g)
      BY <3>2 DEF Promise!Answer, Promise!Becomes, Becomes, PhaseBar, MailBar
    <3> QED
      BY <1>2, <3>3 DEF Promise!Next, Steps
  <2>5. CASE JobPutBack(r, g)
    <3>1. Becomes("queued") /\ MailBar[r][g] \in {"queued", "inFlight"}
      BY <2>0, <2>5, <2>a DEF JobPutBack, MailOf
    <3>2. CASE MailBar[r][g] = "queued"
      BY <2>0, <3>1, <3>2 DEF Becomes, Steps
    <3>3. CASE MailBar[r][g] = "inFlight"
      <4>1. Promise!PutBack(r, g)
        BY <3>1, <3>3 DEF Promise!PutBack, Promise!Becomes, Becomes, PhaseBar, MailBar
      <4> QED
        BY <1>2, <4>1 DEF Promise!Next, Steps
    <3> QED
      BY <3>1, <3>2, <3>3
  <2>6. CASE JobFailed(r, g)
    <3>1. Becomes("failed") /\ MailBar[r][g] = "queued"
      BY <2>0, <2>6, <2>a DEF JobFailed, MailOf
    <3>2. Promise!GivenUp(r, g)
      BY <3>1 DEF Promise!GivenUp, Promise!Becomes, Becomes, PhaseBar, MailBar
    <3> QED
      BY <1>2, <3>2 DEF Promise!Next, Steps
  <2>7. CASE JobEvidence(r, g)
    <3>1. PICK s \in {"ACCEPTED", "DELIVERED", "FAILED"} : JobTo(r, g, s) /\ job[r][g] \in {"ACCEPTED", "UNKNOWN"}
      BY <2>7 DEF JobEvidence
    <3>2. /\ MailBar[r][g] \in {"accepted", "unclear"}
          /\ \E new \in {"accepted", "delivered", "failed"} : Becomes(new)
      BY <2>0, <2>a, <3>1 DEF MailOf
    <3>3. Promise!Evidence(r, g)
      BY <3>2 DEF Promise!Evidence, Promise!Becomes, Becomes, PhaseBar, MailBar
    <3> QED
      BY <1>2, <3>3 DEF Promise!Next, Steps
  <2> QED
    BY <2>1, <2>2, <2>3, <2>4, <2>5, <2>6, <2>7 DEF JobMoves
<1> QED
  BY <1>1, <1>2

\* A launch has room for a message only when none of its jobs is open, and then for one.
LEMMA RoomForOne ==
  ASSUME OrderInv, NEW r \in LiveRuns, Slots(r) > 0
  PROVE  Quiet(r) /\ Slots(r) = 1
<1>1. IsFiniteSet(Unfinished(r))
  BY GroupsAssumption, FS_Subset DEF Unfinished
<1>2. Cardinality(Unfinished(r)) \in Nat
  BY <1>1, FS_CardinalityType
<1>3. Slots(r) = 1 - Cardinality(Unfinished(r))
  BY DEF Slots, Live
<1>4. Cardinality(Unfinished(r)) = 0
  BY <1>2, <1>3
<1>5. Unfinished(r) = {}
  BY <1>1, <1>4, FS_EmptySet
<1> QED
  BY <1>3, <1>4, <1>5 DEF Unfinished, Quiet

LEMMA MaterializeSteps ==
  ASSUME OrderInv, NEW r \in Runs, Materialize(r)
  PROVE  Steps
<1>0. /\ LiveRuns \subseteq Runs /\ run \in [Runs -> RunRecord] /\ run[r] \in RunRecord
      /\ job \in [Runs -> [Groups -> JobStatus]]
  BY DEF OrderInv, Shaped
<1>1. CASE run' = [run EXCEPT ![r].status = "PAUSED"] /\ job' = job
  <2>1. \A k \in Runs : run'[k].status = IF k = r THEN "PAUSED" ELSE Status(k)
    BY <1>0, <1>1, RowUpdates, StatusKinds DEF Status
  <2>2. \A k \in LiveRuns : GoesOn(k)
    BY <1>0, <2>1 DEF Materialize, GoesOn
  <2> QED
    BY <1>1, <2>2, AllGoOn DEF MailSame, OrderInv
<1>2. ASSUME run' = run, Slots(r) > 0, Status(r) = "RUNNING", NEW S \in SUBSET Pending(r),
             Cardinality(S) = Slots(r) \/ (S = Pending(r) /\ Cardinality(S) < Slots(r)),
             job' = [job EXCEPT ![r] = [g \in Groups |->
                IF g \in S /\ ~Changed(r, g) THEN "SCHEDULED" ELSE @[g]]]
      PROVE  Steps
  <2>1. \A k \in Runs, g \in Groups :
          job'[k][g] = IF k = r /\ g \in S /\ ~Changed(r, g) THEN "SCHEDULED" ELSE job[k][g]
    BY <1>0, <1>2
  <2>2. CASE r \notin LiveRuns \/ \A g \in S : Changed(r, g)
    <3>1. \A k \in LiveRuns, g \in Groups : job'[k][g] = job[k][g]
      BY <1>0, <2>1, <2>2
    <3> QED
      BY <1>2, <3>1, BarsMove DEF MailSame, Steps
  <2>3. ASSUME r \in LiveRuns, NEW g \in S, ~Changed(r, g)
        PROVE  Steps
    <3>1. Quiet(r) /\ Slots(r) = 1
      BY <1>2, <2>3, RoomForOne
    <3>2. g \in Groups /\ delivery[r][g] = "PENDING"
      BY <1>2, <2>3 DEF Pending
    <3>3. S = {g}
      <4>1. IsFiniteSet(S)
        BY <1>2, GroupsAssumption, FS_Subset DEF Pending
      <4>2. Cardinality(S) \in Nat /\ Cardinality(S) <= 1
        BY <1>2, <3>1, <4>1, FS_CardinalityType
      <4>3. Cardinality(S) # 0
        BY <2>3, <4>1, FS_EmptySet
      <4>4. \E x : S = {x}
        BY <4>1, <4>2, <4>3, FS_Singleton
      <4> QED
        BY <2>3, <4>4
    <3>4. JobBecomes(r, g, "SCHEDULED")
      BY <1>2, <2>1, <2>3, <3>3 DEF JobBecomes
    <3>5. MailBar' = [MailBar EXCEPT ![r][g] = "queued"] /\ PhaseBar' = PhaseBar
      BY <2>3, <3>2, <3>4, OneMailMoves DEF MailOf
    <3>6. MailBar[r][g] = "none"
      <4>1. job[r][g] = "none"
        BY <3>2 DEF OrderInv, Mail, Paired, MayBe
      <4> QED
        BY <2>3, <3>2, <4>1 DEF MailBar, MailOf
    <3>7. \A h \in Groups : MailBar[r][h] \notin {"queued", "inFlight"}
      BY <1>0, <2>3, <3>1 DEF MailBar, MailOf, Quiet, JobStatus, Outcome
    <3>8. PhaseBar[r] = "sending"
      BY <1>2, <2>3, PhaseIs DEF PhaseOf, Status
    <3>9. Promise!Queue(r, g)
      BY <3>5, <3>6, <3>7, <3>8
      DEF Promise!Queue, Promise!Becomes, Promise!Quiet, Promise!Open, PhaseBar, MailBar
    <3> QED
      BY <2>3, <3>2, <3>9 DEF Promise!Next, Steps
  <2> QED
    BY <2>2, <2>3
<1> QED
  BY <1>1, <1>2 DEF Materialize

LEMMA TickSteps ==
  ASSUME OrderInv, HoldDue \/ Recover \/ Activate \/ Finalize
  PROVE  Steps
<1>0. /\ \A k \in Runs : run[k] \in RunRecord
      /\ LiveRuns \subseteq Runs
  BY DEF OrderInv, Shaped
<1>1. MailSame
  BY DEF HoldDue, Recover, Activate, Finalize, MailSame
<1>2. ASSUME HoldDue, NEW r \in LiveRuns PROVE GoesOn(r)
  <2>1. run'[r].status = IF r \in Held THEN "PAUSED" ELSE Status(r)
    BY <1>0, <1>2, RowUpdates, StatusKinds DEF HoldDue, Status
  <2> QED
    BY <2>1 DEF Held, GoesOn
<1>3. ASSUME Recover, NEW r \in LiveRuns PROVE GoesOn(r)
  <2>1. run'[r].status = IF r \in Abandoned THEN Spent(r) ELSE Status(r)
    BY <1>0, <1>3, RowUpdates, StatusKinds DEF Recover, Status
  <2>2. r \in Abandoned => Status(r) = "PREPARING" /\ Quiet(r)
    BY <1>0, QuietRuns DEF Abandoned
  <2> QED
    BY <2>1, <2>2 DEF Spent, GoesOn
<1>4. ASSUME Activate, NEW r \in LiveRuns PROVE GoesOn(r)
  <2>1. run'[r].status = IF r \in Startable THEN "RUNNING"
                         ELSE IF r \in Missed THEN "PAUSED" ELSE Status(r)
    BY <1>0, <1>4, RowUpdates, StatusKinds DEF Activate, Status
  <2>2. r \in Startable \cup Missed => Status(r) \in {"PREPARING", "SCHEDULED"}
    BY DEF Startable, Missed
  <2> QED
    BY <2>1, <2>2 DEF GoesOn
<1>5. ASSUME Finalize, NEW r \in LiveRuns PROVE GoesOn(r)
  <2>1. run'[r].status = IF r \in Cancelled THEN "CANCELLED"
                         ELSE IF r \in Finished THEN Aggregate(r) ELSE Status(r)
    BY <1>0, <1>5, RowUpdates, StatusKinds DEF Finalize, Status
  <2>2. CASE r \in Cancelled
    BY <2>1, <2>2 DEF Cancelled, InFlight, GoesOn
  <2>3. CASE r \notin Cancelled /\ r \in Finished
    <3>1. /\ Status(r) \in {"RUNNING", "COMPLETED", "PARTIAL_FAILED"} /\ Quiet(r)
          /\ Aggregate(r) \in {"COMPLETED", "PARTIAL_FAILED"}
      BY <1>0, <2>3, QuietRuns DEF Finished, Aggregate
    <3> QED
      BY <2>1, <2>3, <3>1 DEF GoesOn, PhaseOf
  <2>4. CASE r \notin Cancelled /\ r \notin Finished
    BY <2>1, <2>4 DEF GoesOn
  <2> QED
    BY <2>2, <2>3, <2>4
<1> QED
  BY <1>1, <1>2, <1>3, <1>4, <1>5, AllGoOn DEF OrderInv

LEMMA WorkerSteps ==
  ASSUME OrderInv, NEW w \in Workers, Worker(w) \/ FailAttempt(w)
  PROVE  Steps
<1> DEFINE q == proc[w].run
<1>0. /\ run \in [Runs -> RunRecord] /\ \A k \in Runs : run[k] \in RunRecord
      /\ w \in Procs /\ (proc[w].pc # "idle" => q \in Runs) /\ LiveRuns \subseteq Runs
  BY Work DEF OrderInv, Shaped, Procs
<1>a. job' = job
  BY DEF Worker, Claim, ReadInput, Check, Apply, FailAttempt
<1>b. ASSUME q \in Runs, NEW s, \A k \in Runs : run'[k].status = IF k = q THEN s ELSE Status(k), GoesOn(q)
      PROVE  Steps
  <2>1. \A k \in LiveRuns : GoesOn(k)
    BY <1>0, <1>b DEF GoesOn
  <2> QED
    BY <1>a, <2>1, AllGoOn DEF OrderInv, MailSame
<1>c. run' = run => Steps
  BY <1>a, SamePhases DEF Status
<1> HIDE DEF q
<1>1. ASSUME NEW r \in Runs, Claim(w, r) PROVE Steps
  <2>1. [run[r] EXCEPT !.attempts = @ + 1, !.lease = w, !.live = TRUE].status = run[r].status
    BY <1>0, <1>1, RowClaimed DEF Claim, Claimable
  <2>2. \A k \in Runs : run'[k].status = Status(k)
    BY <1>0, <1>1, <2>1 DEF Claim, Status
  <2> QED
    BY <1>a, <2>2, SamePhases
<1>2. CASE ReadInput(w)
  BY <1>2, <1>c DEF ReadInput
<1>3. CASE FailAttempt(w)
  <2>1. q \in Runs
    BY <1>0, <1>3 DEF FailAttempt
  <2>2. run' = run \/ (Owns(w) /\ run' = [run EXCEPT ![q] = Leaves(@, Spent(q))])
    BY <1>3 DEF FailAttempt, q
  <2>3. ASSUME Owns(w), run' = [run EXCEPT ![q] = Leaves(@, Spent(q))]
        PROVE  Steps
    <3>1. \A k \in Runs : run'[k].status = IF k = q THEN Spent(q) ELSE Status(k)
      BY <1>0, <2>1, <2>3, RowUpdates, StatusKinds DEF Status
    <3>2. Status(q) = "PREPARING" /\ Quiet(q)
      BY <2>1, <2>3, QuietRuns DEF Owns, q
    <3>3. GoesOn(q)
      BY <2>1, <3>1, <3>2 DEF GoesOn, Spent
    <3> QED
      BY <1>b, <2>1, <3>1, <3>3
  <2> QED
    BY <1>c, <2>2, <2>3
<1>4. CASE Check(w)
  <2>1. q \in Runs
    BY <1>0, <1>4 DEF Check
  <2>2. \/ run' = run \/ run' = [run EXCEPT ![q] = GivenBack(@)]
        \/ Owns(w) /\ \E s \in {"PAUSED", "BLOCKED"} : run' = [run EXCEPT ![q] = Leaves(@, s)]
    BY <1>4 DEF Check, q
  <2>3. ASSUME run' = [run EXCEPT ![q] = GivenBack(@)] PROVE Steps
    <3>1. \A k \in Runs : run'[k].status = Status(k)
      BY <1>0, <2>1, <2>3, RowGivenBack DEF Status
    <3> QED
      BY <1>a, <3>1, SamePhases
  <2>4. ASSUME Owns(w), NEW s \in {"PAUSED", "BLOCKED"}, run' = [run EXCEPT ![q] = Leaves(@, s)]
        PROVE  Steps
    <3>0. s \in RunStatus
      BY <2>4 DEF RunStatus
    <3>1. \A k \in Runs : run'[k].status = IF k = q THEN s ELSE Status(k)
      BY <1>0, <2>1, <2>4, <3>0, RowUpdates DEF Status
    <3>2. Status(q) = "PREPARING"
      BY <2>4 DEF Owns, q
    <3>3. GoesOn(q)
      BY <2>1, <2>4, <3>1, <3>2 DEF GoesOn
    <3> QED
      BY <1>b, <2>1, <3>1, <3>3
  <2> QED
    BY <1>c, <2>2, <2>3, <2>4
<1>5. CASE Apply(w)
  <2>1. q \in Runs /\ Status(q) = "PREPARING"
    BY <1>0, <1>5 DEF Apply, OrderInv, Locks, Locked, q
  <2>2. \A k \in Runs : run'[k].status = IF k = q THEN Begun(q) ELSE Status(k)
    BY <1>0, <1>5, <2>1, RowUpdates, StatusKinds DEF Apply, Status, q
  <2>3. GoesOn(q)
    BY <2>1, <2>2 DEF GoesOn, Begun
  <2> QED
    BY <1>b, <2>1, <2>2, <2>3
<1> QED
  BY <1>1, <1>2, <1>3, <1>4, <1>5 DEF Worker

LEMMA ResumeSteps ==
  ASSUME OrderInv, NEW o \in Operators, Resume(o)
  PROVE  Steps
<1> DEFINE q == proc[o].run
<1>0. /\ run \in [Runs -> RunRecord] /\ \A k \in Runs : run[k] \in RunRecord
      /\ o \in Procs /\ (proc[o].pc # "idle" => q \in Runs) /\ LiveRuns \subseteq Runs
  BY Work DEF OrderInv, Shaped, Procs
<1>a. job' = job
  BY DEF Resume, ResumeRead, ResumeRefused, ResumeCheck, ResumeApply
<1>b. ASSUME q \in Runs, NEW s, \A k \in Runs : run'[k].status = IF k = q THEN s ELSE Status(k), GoesOn(q)
      PROVE  Steps
  <2>1. \A k \in LiveRuns : GoesOn(k)
    BY <1>0, <1>b DEF GoesOn
  <2> QED
    BY <1>a, <2>1, AllGoOn DEF OrderInv, MailSame
<1>c. run' = run => Steps
  BY <1>a, SamePhases DEF Status
<1> HIDE DEF q
<1>1. CASE (\E r \in Runs : ResumeRead(o, r)) \/ ResumeCheck(o)
  BY <1>1, <1>c DEF ResumeRead, ResumeCheck
<1>2. CASE ResumeRefused(o)
  <2>1. q \in Runs
    BY <1>0, <1>2 DEF ResumeRefused
  <2>2. \/ run' = run
        \/ Status(q) \in {"PAUSED", "BLOCKED"} /\ run' = [run EXCEPT ![q].status = "BLOCKED"]
    BY <1>2 DEF ResumeRefused, q
  <2>3. ASSUME Status(q) \in {"PAUSED", "BLOCKED"}, run' = [run EXCEPT ![q].status = "BLOCKED"]
        PROVE  Steps
    <3>1. \A k \in Runs : run'[k].status = IF k = q THEN "BLOCKED" ELSE Status(k)
      BY <1>0, <2>1, <2>3, RowUpdates, StatusKinds DEF Status
    <3>2. GoesOn(q)
      BY <2>1, <2>3, <3>1 DEF GoesOn
    <3> QED
      BY <1>b, <2>1, <3>1, <3>2
  <2> QED
    BY <1>c, <2>2, <2>3
<1>3. CASE ResumeApply(o)
  <2>1. q \in Runs /\ Status(q) \in {"PAUSED", "BLOCKED"}
    BY <1>0, <1>3 DEF ResumeApply, OrderInv, Locks, Locked, q
  <2>2. \A k \in Runs : run'[k].status = IF k = q THEN Begun(q) ELSE Status(k)
    BY <1>0, <1>3, <2>1, RowUpdates, StatusKinds DEF ResumeApply, Status, q
  <2>3. GoesOn(q)
    BY <2>1, <2>2 DEF GoesOn, Begun
  <2> QED
    BY <1>b, <2>1, <2>2, <2>3
<1> QED
  BY <1>1, <1>2, <1>3 DEF Resume

LEMMA LaunchSteps ==
  ASSUME OrderInv, NEW r \in Runs, LeaseExpires(r) \/ Pause(r)
  PROVE  Steps
<1>0. /\ run \in [Runs -> RunRecord] /\ run[r] \in RunRecord /\ LiveRuns \subseteq Runs
      /\ job \in [Runs -> [Groups -> JobStatus]]
  BY DEF OrderInv, Shaped
<1>1. CASE LeaseExpires(r)
  <2>1. [run[r] EXCEPT !.live = FALSE].status = run[r].status
    BY <1>0 DEF RunRecord
  <2>2. \A k \in Runs : run'[k].status = Status(k)
    BY <1>0, <1>1, <2>1 DEF LeaseExpires, Status
  <2> QED
    BY <1>1, <2>2, SamePhases DEF LeaseExpires
<1>2. CASE Pause(r)
  <2>1. \A k \in Runs : run'[k].status = IF k = r THEN "PAUSED" ELSE Status(k)
    BY <1>0, <1>2, RowUpdates, StatusKinds DEF Pause, Status
  <2>2. \A k \in LiveRuns : GoesOn(k)
    BY <1>0, <1>2, <2>1 DEF Pause, GoesOn
  <2>3. \A k \in Runs, g \in Groups :
          job'[k][g] = IF k = r /\ job[k][g] = "PROCESSING" THEN "SCHEDULED" ELSE job[k][g]
    BY <1>0, <1>2 DEF Pause
  <2>4. MailSame
    <3>1. MailOf("SCHEDULED") = "queued" /\ MailOf("PROCESSING") = "queued"
      BY DEF MailOf
    <3>2. \A k \in LiveRuns, g \in Groups : MailOf(job'[k][g]) = MailOf(job[k][g])
      BY <1>0, <2>3, <3>1
    <3> QED
      BY <3>2 DEF MailSame
  <2> QED
    BY <2>2, <2>4, AllGoOn DEF OrderInv
<1> QED
  BY <1>1, <1>2

\* Every step is a step of LaunchPromise, or changes nothing that LaunchPromise sees.
LEMMA NextSteps ==
  ASSUME OrderInv, [Next]_vars
  PROVE  Steps
<1>1. ASSUME run' = run, job' = job PROVE Steps
  BY <1>1, SamePhases DEF Status
<1>2. \/ Reconcile \/ SchedulerCrash \/ SchedulerLeads
      \/ \E g \in Groups : Invalidate(g) \/ \E allowed \in BOOLEAN : Refresh(g, allowed)
      \/ \E c \in Campaigns : Delete(c)
      \/ \E p \in Procs : WorkerCrash(p)
      \/ SessionChanges \/ Time \/ UNCHANGED vars
      => run' = run /\ job' = job
  BY DEF Reconcile, SchedulerCrash, SchedulerLeads, Invalidate, Refresh, Cap, Delete, WorkerCrash,
         SessionChanges, Time, vars
<1> QED
  BY <1>1, <1>2, NextGroups, CreateSteps, CancelSteps, LaunchSteps, MaterializeSteps, WorkerSteps,
     ResumeSteps, TickSteps, JobSteps

LEMMA OrderInvariance == Spec => []OrderInv
<1>1. Init => OrderInv
  <2>1. Init => OneActive
    BY DEF Init, OneActive, Active, NonTerminal, Status, NoRun
  <2> QED
    BY <2>1, InitShaped, InitLocks, InitMail DEF OrderInv
<1>2. OrderInv /\ [Next]_vars => OrderInv'
  BY NextShaped, NextLocks, NextMail, NextOneActive DEF OrderInv
<1> QED
  BY <1>1, <1>2, PTL DEF Spec

\* The rows of a launch, its deliveries and its jobs, moved by ticks, workers, operators and
\* evidence in transactions of their own, implement what LaunchPromise asks of their order.
THEOREM OrderIsKept == Spec => KeepsOrder
<1>1. Init => Promise!Init
  BY DEF Init, Promise!Init, Phase, Status, NoRun, MailOf
<1>2. OrderInv /\ [Next]_vars => [Promise!Next]_<<PhaseBar, MailBar>>
  BY NextSteps DEF Steps
<1> QED
  BY <1>1, <1>2, OrderInvariance, PTL DEF Spec, KeepsOrder, Promise!Spec, PhaseBar, MailBar

=============================================================================
