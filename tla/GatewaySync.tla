---------------------------- MODULE GatewaySync ----------------------------
(***************************************************************************)
(* How the Runtime mirrors the groups of one OpenWA session.  A sync run   *)
(* lists the groups and leaves one reconciliation item per selected group; *)
(* a group event or a manual refresh leaves an intent.  Workers claim run, *)
(* items and intents under leases in PostgreSQL, read OpenWA without a     *)
(* lock, and write what they read behind a check of their lease.           *)
(*                                                                         *)
(* The upstream is a version and a membership per group; a row remembers   *)
(* the version its activity flag and its details were read at.  A lease is *)
(* its holder and whether it is still unexpired: a token is drawn by one   *)
(* claim and held by one worker, so the worker stands for it, and the sync *)
(* epoch, drawn by the same claim, is not kept apart.  Pacing delays,      *)
(* debounce and back-off only delay a claim and are left out.              *)
(***************************************************************************)
EXTENDS Integers, FiniteSets

CONSTANTS Groups, Workers, Nobody, NoGroup,
          MaxVersion,      \* bound: upstream changes of a group
          RunAttempts,     \* attempts of a run (3 in the code)
          ItemAttempts,    \* GATEWAY_SYNC_ITEM_MAX_ATTEMPTS
          MinBaseline,     \* GATEWAY_SYNC_SNAPSHOT_MIN_BASELINE
          Confirmations,   \* GATEWAY_SYNC_SNAPSHOT_CONFIRMATIONS
          MaxRuns,         \* bound: sync runs requested
          MaxRefreshes,    \* bound: manual capability refreshes
          MaxDeferrals,    \* bound: reads the safety governor defers
          MaxGlitches      \* bound: lists that wrongly come back empty

ASSUME GatewayAssumption ==
  /\ Nobody \notin Workers /\ NoGroup \notin Groups
  /\ IsFiniteSet(Groups)
  /\ {RunAttempts, ItemAttempts, MinBaseline, MaxVersion} \subseteq Nat \ {0}
  /\ Confirmations \in Nat \ {0, 1}
  /\ {MaxRuns, MaxRefreshes, MaxDeferrals, MaxGlitches} \subseteq Nat

VARIABLES
  upstream,   \* what OpenWA would answer: version and membership of a group
  left,       \* groups the account was out of at some time (history)
  announced,  \* version of the last group event the Runtime has recorded
  row,        \* gateway_groups
  snapshot,   \* gateway_sessions: accepted count, suspicious list, confirmations
  run,        \* sync_runs: the session's latest run
  item,       \* gateway_sync_items of that run
  intent,     \* gateway_group_reconciliation_intents
  rate,       \* gateway_sync_rate_limits: who may read OpenWA now
  worker,     \* what each worker holds in memory
  used        \* how much of each bound is used

vars == <<upstream, left, announced, row, snapshot, run, item, intent, rate,
          worker, used>>

world == <<upstream, left, announced>>

Versions == 0 .. MaxVersion

Unfinished == {"PENDING", "RUNNING", "RETRY"}

Waiting == {"PENDING", "RETRY"}

Free == [holder |-> Nobody, live |-> FALSE]

HeldBy(w) == [holder |-> w, live |-> TRUE]

Idle == [job |-> "idle", group |-> NoGroup, step |-> "none", list |-> {},
         at |-> [g \in Groups |-> 0], late |-> FALSE]

NewRun == [status |-> "NONE", phase |-> "COMPLETED", mode |-> "FULL",
           attempts |-> 0, lease |-> Free]

NewItem == [status |-> "NONE", attempts |-> 0, lease |-> Free]

\* "newer": a revision was requested after the one that is claimed.
NewIntent == [status |-> "NONE", newer |-> FALSE, attempts |-> 0, lease |-> Free]

NewRow == [known |-> FALSE, active |-> FALSE, invalidated |-> FALSE,
           seen |-> 0, details |-> 0]

Init ==
  /\ \E S \in SUBSET Groups :
       /\ upstream = [g \in Groups |-> [version |-> 1, member |-> g \in S]]
       /\ left = Groups \ S
  /\ announced = [g \in Groups |-> 0]
  /\ row = [g \in Groups |-> NewRow]
  /\ snapshot = [count |-> -1, list |-> {}, confirmed |-> 0]
  /\ run = NewRun
  /\ item = [g \in Groups |-> NewItem]
  /\ intent = [g \in Groups |-> NewIntent]
  /\ rate = Free
  /\ worker = [w \in Workers |-> Idle]
  /\ used = [runs |-> 0, refreshes |-> 0, deferrals |-> 0, glitches |-> 0]

-----------------------------------------------------------------------------
(* Ownership, and the effects several operations share.                    *)

Lease(w) ==
  CASE worker[w].job = "run"    -> run.lease
    [] worker[w].job = "item"   -> item[worker[w].group].lease
    [] worker[w].job = "intent" -> intent[worker[w].group].lease
    [] OTHER                    -> Free

\* The lease is only ever set on a RUNNING row.
Owns(w) == Lease(w) = HeldBy(w)

RateFree == rate.holder = Nobody \/ ~rate.live

Released(w) == IF rate.holder = w THEN Free ELSE rate

Release(w) == worker' = [worker EXCEPT ![w] = Idle]

Spend(what) == used' = [used EXCEPT ![what] = @ + 1]

\* A run's attempt that ended without a discovery.
Attempted(r) ==
  IF r.attempts >= RunAttempts
  THEN [r EXCEPT !.status = "FAILED", !.phase = "COMPLETED", !.lease = Free]
  ELSE [r EXCEPT !.status = "PENDING", !.phase = "DISCOVERING", !.lease = Free]

\* A run's attempt that is not counted.
Deferred(r) ==
  [r EXCEPT !.status = "PENDING", !.phase = "DISCOVERING", !.lease = Free,
            !.attempts = IF @ = 0 THEN 0 ELSE @ - 1]

\* The run as its items, now "items", leave it.
Refreshed(items) ==
  IF run.status \notin {"PENDING", "RUNNING"} THEN run
  ELSE IF \E g \in Groups : items[g].status \in Unfinished
       THEN [run EXCEPT !.phase = "RECONCILING"]
       ELSE [run EXCEPT !.phase = "COMPLETED",
               !.status = IF \E g \in Groups : items[g].status = "FAILED"
                          THEN "FAILED" ELSE "COMPLETED"]

\* An item of g that ends, or waits again, in the given status.
ItemBecomes(g, status, attempts) ==
  LET items == [item EXCEPT ![g] = [status |-> status, attempts |-> attempts,
                                    lease |-> Free]]
  IN  item' = items /\ run' = Refreshed(items)

\* One more revision is requested; a running claim is left to finish.
Scheduled(i) ==
  [i EXCEPT !.newer = i.status = "RUNNING",
            !.status = IF @ = "RUNNING" THEN "RUNNING" ELSE "PENDING",
            !.attempts = IF i.status = "RUNNING" THEN @ ELSE 0]

\* Variant: a newer revision inherits the attempts of the claim before it.
EndedKeepingAttempts(i, status) ==
  IF i.newer THEN [i EXCEPT !.status = "PENDING", !.newer = FALSE, !.lease = Free]
  ELSE [i EXCEPT !.status = status, !.lease = Free]

\* A claim that ends in the given status, unless a newer revision waits.
Ended(i, status) ==
  IF i.newer THEN [NewIntent EXCEPT !.status = "PENDING"]
  ELSE [i EXCEPT !.status = status, !.lease = Free]

\* A request of g is later than every observation of it that has begun.
Late(g) ==
  worker' = [w \in Workers |-> IF worker[w].group = g
                               THEN [worker[w] EXCEPT !.late = TRUE] ELSE worker[w]]

-----------------------------------------------------------------------------
(* The upstream, its events, and the operator.                             *)

\* A group changes upstream, or the account leaves or joins it.
Change(g) ==
  /\ upstream[g].version < MaxVersion
  /\ \E member \in BOOLEAN :
       /\ upstream[g].member \/ member
       /\ upstream' = [upstream EXCEPT ![g] = [version |-> @.version + 1,
                                               member |-> member]]
       /\ left' = IF member THEN left ELSE left \cup {g}
  /\ UNCHANGED <<announced, row, snapshot, run, item, intent, rate, worker, used>>

\* The event of some change reaches the inbox; events may be lost.
GroupEvent(g) ==
  /\ \E v \in announced[g] + 1 .. upstream[g].version :
       announced' = [announced EXCEPT ![g] = v]
  /\ intent' = [intent EXCEPT ![g] = Scheduled(@)]
  /\ row' = [row EXCEPT ![g].invalidated = @ \/ row[g].active]
  /\ Late(g)
  /\ UNCHANGED <<upstream, left, snapshot, run, item, rate, used>>

\* A refresh joins the active revision, or requests a new one.
RequestRefresh(g) ==
  /\ used.refreshes < MaxRefreshes
  /\ row[g].active
  /\ intent' = IF intent[g].status \in Unfinished THEN intent
               ELSE [intent EXCEPT ![g] = Scheduled(@)]
  /\ row' = [row EXCEPT ![g].invalidated = TRUE]
  /\ Late(g)
  /\ Spend("refreshes")
  /\ UNCHANGED <<upstream, left, announced, snapshot, run, item, rate>>

\* A request while a run is active returns that run.
RequestRun ==
  /\ used.runs < MaxRuns
  /\ run.status \notin {"PENDING", "RUNNING"}
  /\ \E mode \in {"FULL", "INCREMENTAL"} :
       run' = [NewRun EXCEPT !.status = "PENDING", !.phase = "DISCOVERING",
                             !.mode = mode]
  /\ item' = [g \in Groups |-> NewItem]
  /\ Spend("runs")
  /\ UNCHANGED <<world, row, snapshot, intent, rate, worker>>

-----------------------------------------------------------------------------
(* Discovery.                                                              *)

ClaimRun(w) ==
  /\ worker[w] = Idle
  /\ run.status = "PENDING" /\ run.attempts < RunAttempts
  /\ run' = [run EXCEPT !.status = "RUNNING", !.phase = "DISCOVERING",
                        !.attempts = @ + 1, !.lease = HeldBy(w)]
  /\ worker' = [worker EXCEPT ![w].job = "run", ![w].step = "read"]
  /\ UNCHANGED <<world, row, snapshot, item, intent, rate, used>>

\* listGroups answers; a glitch of the upstream answers with no group.
ListGroups(w) ==
  /\ worker[w].job = "run" /\ worker[w].step = "read"
  /\ \/ /\ worker' = [worker EXCEPT ![w].step = "publish",
                        ![w].list = {g \in Groups : upstream[g].member},
                        ![w].at = [g \in Groups |-> upstream[g].version]]
        /\ UNCHANGED used
     \/ /\ used.glitches < MaxGlitches
        /\ Spend("glitches")
        /\ worker' = [worker EXCEPT ![w].step = "publish",
                        ![w].at = [g \in Groups |-> upstream[g].version]]
  /\ UNCHANGED <<world, row, snapshot, run, item, intent, rate>>

Known == {g \in Groups : row[g].known}

Baseline == IF snapshot.count >= 0 THEN snapshot.count ELSE Cardinality(Known)

\* Variant: the smallest baseline is not protected.
SuspiciousAbove(list) ==
  /\ Baseline > MinBaseline
  /\ 4 * Cardinality(list) < Baseline

\* GATEWAY_SYNC_SNAPSHOT_DROP_RATIO is a quarter.
Suspicious(list) ==
  /\ Baseline >= MinBaseline
  /\ 4 * Cardinality(list) < Baseline

Confirmed(list) ==
  IF snapshot.confirmed > 0 /\ snapshot.list = list THEN snapshot.confirmed + 1 ELSE 1

\* The stored rows after an accepted list.
Listed(list, at) ==
  [g \in Groups |->
     IF g \in list
     THEN [row[g] EXCEPT !.known = TRUE, !.active = TRUE, !.seen = at[g],
             !.invalidated = @ \/ (row[g].known /\ ~row[g].active)]
     ELSE IF row[g].known
          THEN [row[g] EXCEPT !.active = FALSE, !.invalidated = FALSE, !.seen = at[g]]
          ELSE row[g]]

\* Groups an incremental run must read: it decides by the rows as they were
\* before the list; a changed summary or old details may add any other.
MustRead(list) == {g \in list : row[g].details = 0 \/ row[g].invalidated}

Selections(list) ==
  IF run.mode = "FULL" THEN {list}
  ELSE {S \in SUBSET list : MustRead(list) \subseteq S}

\* Variant: one confirmation more than asked for.
DeferDiscoveryOnceMore(w) ==
  LET list == worker[w].list IN
  /\ Suspicious(list) /\ Confirmed(list) <= Confirmations
  /\ snapshot' = [snapshot EXCEPT !.list = list, !.confirmed = Confirmed(list)]
  /\ run' = Deferred(run)
  /\ UNCHANGED <<row, item>>

\* A suspiciously short list waits for confirmation by an equal one.
DeferDiscovery(w) ==
  LET list == worker[w].list IN
  /\ Suspicious(list) /\ Confirmed(list) < Confirmations
  /\ snapshot' = [snapshot EXCEPT !.list = list, !.confirmed = Confirmed(list)]
  /\ run' = Deferred(run)
  /\ UNCHANGED <<row, item>>

AcceptDiscovery(w) ==
  LET list == worker[w].list IN
  /\ ~(Suspicious(list) /\ Confirmed(list) < Confirmations)
  /\ row' = Listed(list, worker[w].at)
  /\ snapshot' = [count |-> Cardinality(list), list |-> {}, confirmed |-> 0]
  /\ \E S \in Selections(list) :
       /\ item' = [g \in Groups |-> IF g \in S /\ item[g].status = "NONE"
                                    THEN [NewItem EXCEPT !.status = "PENDING"]
                                    ELSE item[g]]
       /\ run' = [run EXCEPT !.lease = Free,
                    !.phase = IF S = {} THEN "COMPLETED" ELSE "RECONCILING",
                    !.status = IF S = {} THEN "COMPLETED" ELSE @]

PublishDiscovery(w) ==
  /\ worker[w].job = "run" /\ worker[w].step = "publish"
  /\ Owns(w)
  /\ DeferDiscovery(w) \/ AcceptDiscovery(w)
  /\ Release(w)
  /\ UNCHANGED <<world, intent, rate, used>>

FailRun(w) ==
  /\ worker[w].job = "run"
  /\ Owns(w)
  /\ run' = Attempted(run)
  /\ Release(w)
  /\ UNCHANGED <<world, row, snapshot, item, intent, rate, used>>

DeferRun(w) ==
  /\ worker[w].job = "run" /\ worker[w].step = "read"
  /\ used.deferrals < MaxDeferrals
  /\ Owns(w)
  /\ run' = Deferred(run)
  /\ Release(w)
  /\ Spend("deferrals")
  /\ UNCHANGED <<world, row, snapshot, item, intent, rate>>

-----------------------------------------------------------------------------
(* Reading one group, for an item of the run or for an intent.             *)

\* The claim draws the row's lease and the session's right to read; the
\* observation of an item begins with it.
ClaimItem(w, g) ==
  /\ worker[w] = Idle
  /\ run.status = "RUNNING"
  /\ RateFree
  /\ item[g].status \in Waiting /\ item[g].attempts < ItemAttempts
  /\ item' = [item EXCEPT ![g] = [status |-> "RUNNING", attempts |-> @.attempts + 1,
                                  lease |-> HeldBy(w)]]
  /\ rate' = HeldBy(w)
  /\ worker' = [worker EXCEPT ![w].job = "item", ![w].group = g, ![w].step = "read"]
  /\ UNCHANGED <<world, row, snapshot, run, intent, used>>

\* Variant: only a discovery that has not begun holds intents back.
DiscoveryRequested == run.status = "PENDING"

\* An intent waits for a discovery, and for an unfinished item of its group.
Discovering == run.status \in {"PENDING", "RUNNING"} /\ run.phase = "DISCOVERING"

ItemAhead(g) == run.status = "RUNNING" /\ item[g].status \in Unfinished

ClaimIntent(w, g) ==
  /\ worker[w] = Idle
  /\ RateFree
  /\ intent[g].status \in Waiting /\ intent[g].attempts < ItemAttempts
  /\ ~Discovering /\ ~ItemAhead(g)
  /\ intent' = [intent EXCEPT ![g].status = "RUNNING", ![g].attempts = @ + 1,
                              ![g].lease = HeldBy(w)]
  /\ rate' = HeldBy(w)
  /\ worker' = [worker EXCEPT ![w].job = "intent", ![w].group = g, ![w].step = "read"]
  /\ UNCHANGED <<world, row, snapshot, run, item, used>>

\* getGroup answers with the group, or with 404.
ReadGroup(w) ==
  LET g == worker[w].group IN
  /\ worker[w].job \in {"item", "intent"} /\ worker[w].step = "read"
  /\ worker' = [worker EXCEPT
                  ![w].step = IF upstream[g].member THEN "write" ELSE "missing",
                  ![w].at = [@ EXCEPT ![g] = upstream[g].version]]
  /\ UNCHANGED <<world, row, snapshot, run, item, intent, rate, used>>

\* Variant: the write asks for the run, not for the lease.
MayWriteUnfenced(w) == worker[w].job = "item" => run.status = "RUNNING"

\* upsertGroupDetails: fenced by the lease, the run and the right to read.
MayWrite(w) ==
  /\ Owns(w) /\ rate = HeldBy(w)
  /\ worker[w].job = "item" => run.status = "RUNNING"

WriteDetails(w) ==
  LET g == worker[w].group
      v == worker[w].at[g] IN
  /\ worker[w].step = "write"
  /\ MayWrite(w)
  /\ row' = [row EXCEPT ![g] = [known |-> TRUE, active |-> TRUE,
                                invalidated |-> FALSE, seen |-> v, details |-> v]]
  /\ worker' = [worker EXCEPT ![w].step = "complete"]
  /\ UNCHANGED <<world, snapshot, run, item, intent, rate, used>>

CompleteItem(w) ==
  LET g == worker[w].group IN
  /\ worker[w].job = "item" /\ worker[w].step = "complete"
  /\ Owns(w)
  /\ ItemBecomes(g, "COMPLETED", item[g].attempts)
  /\ rate' = Released(w)
  /\ worker' = [worker EXCEPT ![w].step = "settle"]
  /\ UNCHANGED <<world, row, snapshot, intent, used>>

\* completeFromAuthoritativeSync: the item's read also answers the intents
\* that were requested before it.
SettleIntent(w) ==
  LET g == worker[w].group IN
  /\ worker[w].step = "settle"
  /\ intent' = IF intent[g].status \in Waiting /\ ~worker[w].late
               THEN [intent EXCEPT ![g].status = "COMPLETED"] ELSE intent
  /\ Release(w)
  /\ UNCHANGED <<world, row, snapshot, run, item, rate, used>>

CompleteIntent(w) ==
  LET g == worker[w].group IN
  /\ worker[w].job = "intent" /\ worker[w].step = "complete"
  /\ Owns(w)
  /\ intent' = [intent EXCEPT ![g] = Ended(@, "COMPLETED")]
  /\ rate' = Released(w)
  /\ Release(w)
  /\ UNCHANGED <<world, row, snapshot, run, item, used>>

SkipItem(w) ==
  LET g == worker[w].group IN
  /\ worker[w].job = "item" /\ worker[w].step = "missing"
  /\ Owns(w)
  /\ ItemBecomes(g, "SKIPPED", item[g].attempts)
  /\ rate' = Released(w)
  /\ Release(w)
  /\ UNCHANGED <<world, row, snapshot, intent, used>>

\* A group that is not there any more is closed, unless a newer revision
\* waits.  The statement leaves an inactive row alone: what is new about such
\* a row is only that its inactivity was seen now.
SkipMissing(w) ==
  LET g == worker[w].group
      i == Ended(intent[g], "COMPLETED") IN
  /\ worker[w].job = "intent" /\ worker[w].step = "missing"
  /\ Owns(w)
  /\ intent' = [intent EXCEPT ![g] = i]
  /\ row' = IF i.status = "COMPLETED"
            THEN [row EXCEPT ![g].active = FALSE, ![g].invalidated = FALSE,
                             ![g].seen = worker[w].at[g]]
            ELSE row
  /\ rate' = Released(w)
  /\ Release(w)
  /\ UNCHANGED <<world, snapshot, run, item, used>>

\* Variant: one attempt too many waits for a claim that is never made.
RetriesOnceMore(w, attempts) ==
  IF attempts > ItemAttempts THEN {"FAILED"}
  ELSE IF worker[w].step = "read" THEN {"RETRY", "FAILED"} ELSE {"RETRY"}

\* Reading may fail for good; the errors of writing are retryable.
Retries(w, attempts) ==
  IF attempts >= ItemAttempts THEN {"FAILED"}
  ELSE IF worker[w].step = "read" THEN {"RETRY", "FAILED"} ELSE {"RETRY"}

FailItem(w) ==
  LET g == worker[w].group IN
  /\ worker[w].job = "item" /\ worker[w].step \in {"read", "write", "complete"}
  /\ Owns(w)
  /\ \E status \in Retries(w, item[g].attempts) :
       ItemBecomes(g, status, item[g].attempts)
  /\ rate' = Released(w)
  /\ Release(w)
  /\ UNCHANGED <<world, row, snapshot, intent, used>>

FailIntent(w) ==
  LET g == worker[w].group IN
  /\ worker[w].job = "intent" /\ worker[w].step \in {"read", "write", "complete"}
  /\ Owns(w)
  /\ \E status \in Retries(w, intent[g].attempts) :
       intent' = [intent EXCEPT ![g] = Ended(@, status)]
  /\ rate' = Released(w)
  /\ Release(w)
  /\ UNCHANGED <<world, row, snapshot, run, item, used>>

\* The safety governor defers the read: the attempt is not counted.
DeferRead(w) ==
  LET g == worker[w].group IN
  /\ worker[w].step = "read"
  /\ used.deferrals < MaxDeferrals
  /\ Owns(w)
  /\ \/ /\ worker[w].job = "item"
        /\ ItemBecomes(g, "RETRY", item[g].attempts - 1)
        /\ UNCHANGED intent
     \/ /\ worker[w].job = "intent"
        /\ intent' = [intent EXCEPT ![g].status = "RETRY", ![g].attempts = @ - 1,
                                    ![g].newer = FALSE, ![g].lease = Free]
        /\ UNCHANGED <<item, run>>
  /\ rate' = Released(w)
  /\ Release(w)
  /\ Spend("deferrals")
  /\ UNCHANGED <<world, row, snapshot>>

\* Every write of a worker without its lease is refused, and so is the failure
\* it then reports: it gives the job up.
LoseOwnership(w) ==
  /\ worker[w].job # "idle" /\ worker[w].step \notin {"read", "settle"}
  /\ IF worker[w].step = "write" THEN ~MayWrite(w) ELSE ~Owns(w)
  /\ Release(w)
  /\ UNCHANGED <<world, row, snapshot, run, item, intent, rate, used>>

-----------------------------------------------------------------------------
(* Crashes, deadlines, recovery.                                           *)

\* A worker dies, or the connection under it does, wherever it is.
Crash(w) ==
  /\ worker[w] # Idle
  /\ Release(w)
  /\ UNCHANGED <<world, row, snapshot, run, item, intent, rate, used>>

\* The two minutes of a lease pass without a heartbeat.  The right to read is
\* renewed together with the row's lease, and expires with it.
ExpireRun ==
  /\ run.lease.live
  /\ run' = [run EXCEPT !.lease.live = FALSE]
  /\ UNCHANGED <<world, row, snapshot, item, intent, rate, worker, used>>

RateOutlives(lease) ==
  rate' = IF rate.holder = lease.holder THEN [rate EXCEPT !.live = FALSE] ELSE rate

ExpireItem(g) ==
  /\ item[g].lease.live
  /\ item' = [item EXCEPT ![g].lease.live = FALSE]
  /\ RateOutlives(item[g].lease)
  /\ UNCHANGED <<world, row, snapshot, run, intent, worker, used>>

ExpireIntent(g) ==
  /\ intent[g].lease.live
  /\ intent' = [intent EXCEPT ![g].lease.live = FALSE]
  /\ RateOutlives(intent[g].lease)
  /\ UNCHANGED <<world, row, snapshot, run, item, worker, used>>

Expired(x) == x.status = "RUNNING" /\ x.lease.holder # Nobody /\ ~x.lease.live

RateRecovered == IF rate.live THEN rate ELSE Free

RecoverRun ==
  /\ Expired(run)
  /\ run' = Attempted(run)
  /\ UNCHANGED <<world, row, snapshot, item, intent, rate, worker, used>>

RecoverItems ==
  /\ \E g \in Groups : Expired(item[g])
  /\ LET items == [g \in Groups |->
            IF ~Expired(item[g]) THEN item[g]
            ELSE [item[g] EXCEPT !.lease = Free,
                    !.status = IF item[g].attempts >= ItemAttempts
                               THEN "FAILED" ELSE "RETRY"]]
     IN  item' = items /\ run' = Refreshed(items)
  /\ rate' = RateRecovered
  /\ UNCHANGED <<world, row, snapshot, intent, worker, used>>

RecoverIntents ==
  /\ \E g \in Groups : Expired(intent[g])
  /\ intent' = [g \in Groups |->
        IF ~Expired(intent[g]) THEN intent[g]
        ELSE Ended(intent[g], IF intent[g].attempts >= ItemAttempts
                              THEN "FAILED" ELSE "RETRY")]
  /\ rate' = RateRecovered
  /\ UNCHANGED <<world, row, snapshot, run, item, worker, used>>

\* A worker goes on with what it holds; HTTP and database calls time out.
Proceed(w) ==
  \/ ListGroups(w) \/ PublishDiscovery(w) \/ FailRun(w) \/ DeferRun(w)
  \/ ReadGroup(w) \/ WriteDetails(w) \/ CompleteItem(w) \/ SettleIntent(w)
  \/ CompleteIntent(w) \/ SkipItem(w) \/ SkipMissing(w) \/ FailItem(w)
  \/ FailIntent(w) \/ DeferRead(w) \/ LoseOwnership(w)

Recover == RecoverRun \/ RecoverItems \/ RecoverIntents

Next ==
  \/ RequestRun \/ ExpireRun \/ Recover
  \/ \E g \in Groups : \/ Change(g) \/ GroupEvent(g) \/ RequestRefresh(g)
                       \/ ExpireItem(g) \/ ExpireIntent(g)
  \/ \E w \in Workers : Proceed(w) \/ ClaimRun(w) \/ Crash(w)
  \/ \E w \in Workers, g \in Groups : ClaimItem(w, g) \/ ClaimIntent(w, g)

Spec == Init /\ [][Next]_vars

\* A live worker may renew its lease for ever; a dead one cannot.
Orphaned(lease) == \A w \in Workers : worker[w] # Idle => Lease(w) # lease

Fairness ==
  /\ WF_vars(Recover)
  /\ WF_vars(Orphaned(run.lease) /\ ExpireRun)
  /\ \A g \in Groups : /\ WF_vars(Orphaned(item[g].lease) /\ ExpireItem(g))
                       /\ WF_vars(Orphaned(intent[g].lease) /\ ExpireIntent(g))
                       /\ WF_vars(\E w \in Workers : ClaimItem(w, g))
                       /\ WF_vars(\E w \in Workers : ClaimIntent(w, g))
  /\ WF_vars(\E w \in Workers : ClaimRun(w))
  /\ \A w \in Workers : WF_vars(Proceed(w))

FairSpec == Spec /\ Fairness

-----------------------------------------------------------------------------
(* Properties.                                                             *)

Leases == [holder : Workers \cup {Nobody}, live : BOOLEAN]

TypeOK ==
  /\ upstream \in [Groups -> [version : Versions, member : BOOLEAN]]
  /\ left \subseteq Groups
  /\ announced \in [Groups -> Versions]
  /\ row \in [Groups -> [known : BOOLEAN, active : BOOLEAN, invalidated : BOOLEAN,
                         seen : Versions, details : Versions]]
  /\ snapshot \in [count : -1 .. Cardinality(Groups), list : SUBSET Groups,
                   confirmed : 0 .. Confirmations - 1]
  /\ run \in [status : {"NONE", "PENDING", "RUNNING", "COMPLETED", "FAILED"},
              phase : {"DISCOVERING", "RECONCILING", "COMPLETED"},
              mode : {"FULL", "INCREMENTAL"}, attempts : 0 .. RunAttempts,
              lease : Leases]
  /\ item \in [Groups -> [status : Unfinished \cup {"NONE", "COMPLETED", "FAILED", "SKIPPED"},
                          attempts : 0 .. ItemAttempts, lease : Leases]]
  /\ intent \in [Groups -> [status : Unfinished \cup {"NONE", "COMPLETED", "FAILED"},
                            newer : BOOLEAN,
                            attempts : 0 .. ItemAttempts, lease : Leases]]
  /\ rate \in Leases
  /\ worker \in [Workers -> [job : {"idle", "run", "item", "intent"},
                             group : Groups \cup {NoGroup},
                             step : {"none", "read", "publish", "write", "missing",
                                     "complete", "settle"},
                             list : SUBSET Groups, at : [Groups -> Versions],
                             late : BOOLEAN]]
  /\ used \in [runs : 0 .. MaxRuns, refreshes : 0 .. MaxRefreshes,
               deferrals : 0 .. MaxDeferrals, glitches : 0 .. MaxGlitches]

\* A group whose details were read and are shown as current.
Trusted(g) == row[g].active /\ ~row[g].invalidated /\ row[g].details > 0

(* An intent is COMPLETED only over a row that was observed no earlier than  *)
(* the last event the Runtime recorded for the group: an event that arrives  *)
(* while its group is being read, or while a list is on its way, is never    *)
(* absorbed by what was read before it.                                      *)
CompletedCovers ==
  \A g \in Groups :
    intent[g].status = "COMPLETED" /\ row[g].known =>
      /\ row[g].seen >= announced[g]
      /\ Trusted(g) => row[g].details >= announced[g]

(* With every baseline protected, one list that comes back empty by mistake  *)
(* closes no group the account never left, however long it was on its way    *)
(* and whatever was accepted before or after it.  A second one may: an empty *)
(* list accepted while no group is known sets the baseline to 0, and nothing *)
(* is suspicious about the next.                                             *)
BadListClosesNothing ==
  (MinBaseline = 1 /\ used.glitches <= 1) =>
     \A g \in Groups : row[g].known /\ ~row[g].active => g \in left

(* The details of a group never go back to an older reading: a worker that   *)
(* was overtaken while it read does not overwrite what was read after it.    *)
DetailsNeverRegress ==
  [][\A g \in Groups : row'[g].details >= row[g].details]_vars

(* A requested run comes to an end, and every recorded event is answered:    *)
(* its intent is completed or has failed, whatever fails, crashes or is      *)
(* deferred.                                                                 *)
WorkEnds ==
  /\ run.status \in {"PENDING", "RUNNING"} ~> run.status \in {"COMPLETED", "FAILED"}
  /\ \A g \in Groups : intent[g].status \in Unfinished
                           ~> intent[g].status \in {"COMPLETED", "FAILED"}

=============================================================================
