------------------------- MODULE GatewaySync_proofs -------------------------
(***************************************************************************)
(* Proofs about GatewaySync, for any groups, any workers and any limits.   *)
(* The rows of the database have the shape their leases ask for (Shaped),  *)
(* and at most one item or intent has a live lease, that of the right to   *)
(* read (OneLease).  Over these two:                                       *)
(*   - TypeOK is an invariant;                                             *)
(*   - no step violates DetailsNeverRegress, for what a worker with the    *)
(*     right to read is about to write was read after what is stored       *)
(*     (ReadsAhead);                                                       *)
(*   - CompletedCovers is an invariant: whatever is about to be written    *)
(*     over a group without its last event leaves that event's intent      *)
(*     open, and every other reader of the group late (Covered);           *)
(*   - BadListClosesNothing is an invariant: until the one wrong list is   *)
(*     published, the baseline and the suspicious list stored are true     *)
(*     (OneGlitch).                                                        *)
(***************************************************************************)
EXTENDS GatewaySync, FiniteSetTheorems, TLAPS

USE GatewayAssumption

-----------------------------------------------------------------------------
(* Types and shapes.                                                       *)

Upstreams == [version : Versions, member : BOOLEAN]
Rows == [known : BOOLEAN, active : BOOLEAN, invalidated : BOOLEAN,
         seen : Versions, details : Versions]
Snapshots == [count : -1 .. Cardinality(Groups), list : SUBSET Groups,
              confirmed : 0 .. Confirmations - 1]
Runs == [status : {"NONE", "PENDING", "RUNNING", "COMPLETED", "FAILED"},
         phase : {"DISCOVERING", "RECONCILING", "COMPLETED"},
         mode : {"FULL", "INCREMENTAL"}, attempts : 0 .. RunAttempts, lease : Leases]
Items == [status : Unfinished \cup {"NONE", "COMPLETED", "FAILED", "SKIPPED"},
          attempts : 0 .. ItemAttempts, lease : Leases]
Intents == [status : Unfinished \cup {"NONE", "COMPLETED", "FAILED"}, newer : BOOLEAN,
            attempts : 0 .. ItemAttempts, lease : Leases]
Minds == [job : {"idle", "run", "item", "intent"}, group : Groups \cup {NoGroup},
          step : {"none", "read", "publish", "write", "missing", "complete", "settle"},
          list : SUBSET Groups, at : [Groups -> Versions], late : BOOLEAN]
Budgets == [runs : 0 .. MaxRuns, refreshes : 0 .. MaxRefreshes,
            deferrals : 0 .. MaxDeferrals, glitches : 0 .. MaxGlitches]

LEMMA Limits ==
  /\ RunAttempts \in Nat \ {0} /\ ItemAttempts \in Nat \ {0} /\ MinBaseline \in Nat \ {0}
  /\ MaxVersion \in Nat \ {0} /\ Confirmations \in Nat \ {0, 1} /\ MaxRuns \in Nat
  /\ MaxRefreshes \in Nat /\ MaxDeferrals \in Nat /\ MaxGlitches \in Nat
  /\ 0 \in 0 .. RunAttempts /\ 0 \in 0 .. ItemAttempts /\ 0 \in Versions /\ 1 \in Versions
BY DEF Versions

LEMMA TypeParts ==
  TypeOK <=> /\ upstream \in [Groups -> Upstreams] /\ left \subseteq Groups
             /\ announced \in [Groups -> Versions] /\ row \in [Groups -> Rows]
             /\ snapshot \in Snapshots /\ run \in Runs /\ item \in [Groups -> Items]
             /\ intent \in [Groups -> Intents] /\ rate \in Leases
             /\ worker \in [Workers -> Minds] /\ used \in Budgets
BY DEF TypeOK, Upstreams, Rows, Snapshots, Runs, Items, Intents, Minds, Budgets

\* Only a claim in progress holds a lease, and it was counted as an attempt.
Holds(x) == /\ x.status # "RUNNING" => x.lease = Free
            /\ x.status = "RUNNING" => x.attempts >= 1
            /\ x.lease.live => x.lease.holder \in Workers

GoodRuns == {r \in Runs : Holds(r)}
GoodItems == {i \in Items : Holds(i)}
GoodIntents == {i \in Intents : Holds(i)}

\* A worker reads one group for an item or an intent, or all for a run.
GoodMinds == {m \in Minds : /\ m.job \in {"item", "intent"} <=> m.group \in Groups
                            /\ m.step \in {"write", "missing", "complete"}
                                 => m.job \in {"item", "intent"}
                            /\ m.step = "settle" => m.job = "item"
                            /\ m.step = "publish" => m.job = "run"
                            /\ m.step = "read" => m.list = {}}

\* A run that waits for its discovery or is in it has no items yet.
Undiscovered == run.status = "PENDING" \/ run.lease # Free =>
                  run.phase = "DISCOVERING" /\ \A g \in Groups : item[g].status = "NONE"

Shaped ==
  /\ upstream \in [Groups -> Upstreams] /\ left \subseteq Groups
  /\ announced \in [Groups -> Versions] /\ row \in [Groups -> Rows]
  /\ snapshot \in Snapshots /\ run \in GoodRuns /\ item \in [Groups -> GoodItems]
  /\ intent \in [Groups -> GoodIntents] /\ rate \in Leases
  /\ worker \in [Workers -> GoodMinds] /\ used \in Budgets
  /\ Undiscovered

LEMMA ShapedTyped == Shaped => TypeOK
<1>1. GoodRuns \subseteq Runs /\ GoodItems \subseteq Items /\ GoodIntents \subseteq Intents
      /\ GoodMinds \subseteq Minds
  BY DEF GoodRuns, GoodItems, GoodIntents, GoodMinds
<1>2. QED BY <1>1, TypeParts DEF Shaped

\* The rows the operations start from, and what they make of a row.
LEMMA FreshRows ==
  /\ Free \in Leases /\ ~Free.live /\ Free.holder = Nobody
  /\ \A w \in Workers : HeldBy(w) \in Leases /\ HeldBy(w).live /\ HeldBy(w).holder = w
  /\ Idle \in GoodMinds /\ NewRow \in Rows
  /\ NewRun \in GoodRuns /\ NewItem \in GoodItems /\ NewIntent \in GoodIntents
<1>1. /\ Free \in Leases /\ ~Free.live /\ Free.holder = Nobody
      /\ \A w \in Workers : HeldBy(w) \in Leases /\ HeldBy(w).live /\ HeldBy(w).holder = w
  BY DEF Free, HeldBy, Leases
<1>2. 0 \in Versions /\ 0 \in 0 .. RunAttempts /\ 0 \in 0 .. ItemAttempts
  BY DEF Versions
<1> HIDE DEF Free
<1>3. Idle \in GoodMinds BY <1>2 DEF Idle, GoodMinds, Minds
<1>4. NewRow \in Rows BY <1>2 DEF NewRow, Rows
<1>5. NewRun \in GoodRuns BY <1>1, <1>2 DEF NewRun, GoodRuns, Runs, Holds
<1>6. NewItem \in GoodItems /\ NewIntent \in GoodIntents
  BY <1>1, <1>2 DEF NewItem, NewIntent, GoodItems, GoodIntents, Items, Intents, Holds, Unfinished
<1>7. QED BY <1>1, <1>3, <1>4, <1>5, <1>6

LEMMA RunsMade ==
  ASSUME NEW r \in GoodRuns
  PROVE  /\ Attempted(r) \in GoodRuns /\ Attempted(r).lease = Free
         /\ Attempted(r).status = "PENDING" => Attempted(r).phase = "DISCOVERING"
         /\ Deferred(r) \in GoodRuns /\ Deferred(r).lease = Free
         /\ Deferred(r).phase = "DISCOVERING"
<1>1. Free \in Leases /\ ~Free.live BY FreshRows
<1>2. IF r.attempts = 0 THEN r.attempts = 0 ELSE r.attempts - 1 \in 0 .. RunAttempts
  BY DEF GoodRuns, Runs
<1>3. /\ Attempted(r) \in GoodRuns /\ Attempted(r).lease = Free
      /\ Attempted(r).status = "PENDING" => Attempted(r).phase = "DISCOVERING"
  BY <1>1 DEF GoodRuns, Runs, Holds, Attempted
<1>4. Deferred(r) \in GoodRuns /\ Deferred(r).lease = Free /\ Deferred(r).phase = "DISCOVERING"
  BY <1>1, <1>2 DEF GoodRuns, Runs, Holds, Deferred
<1>5. QED BY <1>3, <1>4

LEMMA RefreshedRun ==
  ASSUME run \in GoodRuns, run.status # "PENDING", run.lease = Free, NEW items
  PROVE  /\ Refreshed(items) \in GoodRuns /\ Refreshed(items).status # "PENDING"
         /\ Refreshed(items).lease = Free
<1>1. Free \in Leases /\ ~Free.live BY FreshRows
<1>2. QED BY <1>1 DEF GoodRuns, Runs, Holds, Refreshed

LEMMA ItemsMade ==
  ASSUME NEW status \in Unfinished \cup {"NONE", "COMPLETED", "FAILED", "SKIPPED"},
         NEW attempts \in 0 .. ItemAttempts, status # "RUNNING"
  PROVE  [status |-> status, attempts |-> attempts, lease |-> Free] \in GoodItems
BY FreshRows DEF GoodItems, Items, Holds

LEMMA IntentsMade ==
  ASSUME NEW i \in GoodIntents
  PROVE  /\ Scheduled(i) \in GoodIntents
         /\ \A s \in {"PENDING", "RETRY", "COMPLETED", "FAILED"} : Ended(i, s) \in GoodIntents
<1>1. Free \in Leases /\ ~Free.live BY FreshRows
<1>2. Scheduled(i) \in GoodIntents
  <2>1. CASE i.status = "RUNNING"
    <3>1. Scheduled(i) = [i EXCEPT !.newer = TRUE] BY <2>1 DEF Scheduled, GoodIntents, Intents
    <3>2. QED BY <3>1 DEF GoodIntents, Intents, Holds
  <2>2. CASE i.status # "RUNNING"
    <3>1. Scheduled(i) = [i EXCEPT !.newer = FALSE, !.status = "PENDING", !.attempts = 0]
      BY <2>2 DEF Scheduled, GoodIntents, Intents
    <3> DEFINE n == [i EXCEPT !.newer = FALSE, !.status = "PENDING", !.attempts = 0]
    <3>2. i \in Intents /\ i.lease = Free BY <2>2 DEF GoodIntents, Holds
    <3>3. n \in Intents BY <3>2, Limits DEF Intents, Unfinished
    <3>4. n.status = "PENDING" /\ n.lease = Free BY <3>2 DEF Intents
    <3>5. QED BY <3>1, <3>3, <3>4, <1>1 DEF GoodIntents, Holds
  <2>3. QED BY <2>1, <2>2
<1>3. ASSUME NEW s \in {"PENDING", "RETRY", "COMPLETED", "FAILED"}
      PROVE  Ended(i, s) \in GoodIntents
  <2>1. NewIntent \in GoodIntents BY FreshRows
  <2>2. [NewIntent EXCEPT !.status = "PENDING"] \in GoodIntents
    BY <1>1, <2>1 DEF GoodIntents, Intents, Holds, Unfinished, NewIntent
  <2>3. [i EXCEPT !.status = s, !.lease = Free] \in GoodIntents
    BY <1>1 DEF GoodIntents, Intents, Holds, Unfinished
  <2>4. QED BY <2>2, <2>3 DEF Ended
<1>4. QED BY <1>2, <1>3

\* The worker of a live lease holds the row it works on.
LEMMA Owned ==
  ASSUME Shaped, NEW w \in Workers, Owns(w)
  PROVE  /\ worker[w].job # "idle"
         /\ worker[w].job = "run" => run.lease = HeldBy(w) /\ run.status = "RUNNING"
         /\ worker[w].job = "item" =>
              /\ worker[w].group \in Groups
              /\ item[worker[w].group].lease = HeldBy(w)
              /\ item[worker[w].group].status = "RUNNING"
              /\ run.status # "PENDING" /\ run.lease = Free
         /\ worker[w].job = "intent" =>
              /\ worker[w].group \in Groups
              /\ intent[worker[w].group].lease = HeldBy(w)
              /\ intent[worker[w].group].status = "RUNNING"
<1>1. HeldBy(w).live /\ ~Free.live BY FreshRows
<1>2. worker[w] \in GoodMinds BY DEF Shaped
<1>3. Lease(w) = HeldBy(w) BY DEF Owns
<1>4. worker[w].job # "idle" BY <1>1, <1>3 DEF Lease
<1>5. CASE worker[w].job = "run"
  <2>1. run.lease = HeldBy(w) BY <1>3, <1>5 DEF Lease
  <2>2. QED BY <2>1, <1>1, <1>5 DEF Shaped, GoodRuns, Holds
<1>6. CASE worker[w].job = "item"
  <2>1. worker[w].group \in Groups BY <1>2, <1>6 DEF GoodMinds
  <2>2. item[worker[w].group].lease = HeldBy(w) BY <1>3, <1>6 DEF Lease
  <2>3. item[worker[w].group] \in GoodItems BY <2>1 DEF Shaped
  <2>4. item[worker[w].group].status = "RUNNING"
    BY <2>2, <2>3, <1>1 DEF GoodItems, Holds
  <2>5. QED BY <2>1, <2>2, <2>4, <1>6 DEF Shaped, Undiscovered
<1>7. CASE worker[w].job = "intent"
  <2>1. worker[w].group \in Groups BY <1>2, <1>7 DEF GoodMinds
  <2>2. intent[worker[w].group].lease = HeldBy(w) BY <1>3, <1>7 DEF Lease
  <2>3. intent[worker[w].group] \in GoodIntents BY <2>1 DEF Shaped
  <2>4. QED BY <2>1, <2>2, <2>3, <1>1, <1>7 DEF GoodIntents, Holds
<1>8. QED BY <1>2, <1>4, <1>5, <1>6, <1>7 DEF GoodMinds, Minds

-----------------------------------------------------------------------------
(* Every step keeps the shape, one lemma per group of actions.             *)

LEMMA Rest == ASSUME Shaped, NEW w \in Workers, Release(w) PROVE worker' \in [Workers -> GoodMinds]
BY FreshRows DEF Shaped, Release

LEMMA ReleasedLease == ASSUME Shaped, NEW w PROVE Released(w) \in Leases
BY FreshRows DEF Shaped, Released

LEMMA Spent ==
  ASSUME Shaped
  PROVE  /\ Spend("refreshes") /\ used.refreshes < MaxRefreshes => used' \in Budgets
         /\ Spend("runs") /\ used.runs < MaxRuns => used' \in Budgets
         /\ Spend("deferrals") /\ used.deferrals < MaxDeferrals => used' \in Budgets
         /\ Spend("glitches") /\ used.glitches < MaxGlitches => used' \in Budgets
BY Limits DEF Shaped, Spend, Budgets

LEMMA ShapedWorld ==
  ASSUME Shaped, NEW g \in Groups, Change(g) \/ GroupEvent(g) \/ RequestRefresh(g)
  PROVE  Shaped'
<1>1. ASSUME Late(g) PROVE worker' \in [Workers -> GoodMinds]
  <2>1. ASSUME NEW w \in Workers
        PROVE  [worker[w] EXCEPT !.late = TRUE] \in GoodMinds
    <3>1. worker[w] \in GoodMinds BY DEF Shaped
    <3>2. QED BY <3>1 DEF GoodMinds, Minds
  <2>2. QED BY <1>1, <2>1 DEF Late, Shaped
<1>2. ASSUME NEW b \in BOOLEAN
      PROVE  [row EXCEPT ![g].invalidated = b] \in [Groups -> Rows]
  BY DEF Shaped, Rows
<1>3. [intent EXCEPT ![g] = Scheduled(@)] \in [Groups -> GoodIntents]
  <2>1. intent[g] \in GoodIntents BY DEF Shaped
  <2>2. Scheduled(intent[g]) \in GoodIntents BY <2>1, IntentsMade
  <2>3. QED BY <2>2 DEF Shaped
<1>4. CASE Change(g)
  <2>1. PICK member \in BOOLEAN :
          upstream' = [upstream EXCEPT ![g] = [version |-> @.version + 1, member |-> member]]
    BY <1>4 DEF Change
  <2>2. upstream[g].version + 1 \in Versions
    BY <1>4, Limits DEF Change, Shaped, Upstreams, Versions
  <2>3. [version |-> upstream[g].version + 1, member |-> member] \in Upstreams
    BY <2>2 DEF Upstreams
  <2>4. upstream' \in [Groups -> Upstreams] BY <2>1, <2>3 DEF Shaped
  <2>5. left' \subseteq Groups BY <1>4 DEF Change, Shaped
  <2>6. QED BY <1>4, <2>4, <2>5 DEF Change, Shaped, Undiscovered
<1>5. CASE GroupEvent(g)
  <2>1. announced' \in [Groups -> Versions]
    <3>1. PICK v \in announced[g] + 1 .. upstream[g].version :
            announced' = [announced EXCEPT ![g] = v]
      BY <1>5 DEF GroupEvent
    <3>2. v \in Versions BY Limits DEF Shaped, Upstreams, Versions
    <3>3. QED BY <3>1, <3>2 DEF Shaped
  <2>2. intent' \in [Groups -> GoodIntents] BY <1>5, <1>3 DEF GroupEvent
  <2>3. row' \in [Groups -> Rows]
    <3>1. (row[g].invalidated \/ row[g].active) \in BOOLEAN OBVIOUS
    <3>2. row' = [row EXCEPT ![g].invalidated = row[g].invalidated \/ row[g].active]
      BY <1>5 DEF GroupEvent
    <3>3. QED BY <3>1, <3>2, <1>2
  <2>4. worker' \in [Workers -> GoodMinds] BY <1>5, <1>1 DEF GroupEvent
  <2>5. QED BY <1>5, <2>1, <2>2, <2>3, <2>4 DEF GroupEvent, Shaped, Undiscovered
<1>6. CASE RequestRefresh(g)
  <2>1. used' \in Budgets BY <1>6, Spent DEF RequestRefresh
  <2>2. intent' \in [Groups -> GoodIntents] BY <1>6, <1>3 DEF RequestRefresh, Shaped
  <2>3. row' \in [Groups -> Rows] BY <1>6, <1>2 DEF RequestRefresh
  <2>4. worker' \in [Workers -> GoodMinds] BY <1>6, <1>1 DEF RequestRefresh
  <2>5. QED BY <1>6, <2>1, <2>2, <2>3, <2>4 DEF RequestRefresh, Shaped, Undiscovered, world
<1>7. QED BY <1>4, <1>5, <1>6

\* A list that is accepted leaves rows, and items for a run that is not over.
LEMMA AcceptedShape ==
  ASSUME Shaped, NEW w \in Workers, run.status = "RUNNING", AcceptDiscovery(w)
  PROVE  /\ row' \in [Groups -> Rows] /\ snapshot' \in Snapshots /\ run' \in GoodRuns
         /\ item' \in [Groups -> GoodItems] /\ Undiscovered'
<1> DEFINE list == worker[w].list
           at == worker[w].at
<1>1. list \in SUBSET Groups /\ at \in [Groups -> Versions] BY DEF Shaped, GoodMinds, Minds
<1>2. row' \in [Groups -> Rows]
  <2>1. ASSUME NEW g \in Groups, NEW b \in BOOLEAN
        PROVE  /\ [row[g] EXCEPT !.known = TRUE, !.active = TRUE, !.seen = at[g],
                                 !.invalidated = b] \in Rows
               /\ [row[g] EXCEPT !.active = FALSE, !.invalidated = FALSE, !.seen = at[g]]
                    \in Rows
               /\ row[g] \in Rows
    <3>1. row[g] \in Rows /\ at[g] \in Versions BY <1>1 DEF Shaped
    <3> HIDE DEF at
    <3>2. QED BY <3>1 DEF Rows
  <2>2. row' = Listed(list, at) BY DEF AcceptDiscovery
  <2>3. \A g \in Groups : (row[g].invalidated \/ (row[g].known /\ ~row[g].active)) \in BOOLEAN
    OBVIOUS
  <2> HIDE DEF list, at
  <2>4. QED BY <2>1, <2>2, <2>3 DEF Listed
<1>3. snapshot' \in Snapshots
  <2>1. Cardinality(list) \in 0 .. Cardinality(Groups)
    <3>1. Cardinality(list) <= Cardinality(Groups) /\ IsFiniteSet(list)
      BY <1>1, FS_Subset
    <3>2. Cardinality(list) \in Nat /\ Cardinality(Groups) \in Nat
      BY <3>1, FS_CardinalityType
    <3> HIDE DEF list
    <3>3. QED BY <3>1, <3>2
  <2>2. 0 \in 0 .. Confirmations - 1 BY Limits
  <2>3. snapshot' = [count |-> Cardinality(list), list |-> {}, confirmed |-> 0]
    BY DEF AcceptDiscovery
  <2>4. Cardinality(list) \in -1 .. Cardinality(Groups)
    <3>1. Cardinality(Groups) \in Nat BY FS_CardinalityType
    <3>2. QED BY <2>1, <3>1
  <2> HIDE DEF list
  <2>5. QED BY <2>2, <2>3, <2>4 DEF Snapshots
<1>4. PICK S \in Selections(list) :
        /\ item' = [g \in Groups |-> IF g \in S /\ item[g].status = "NONE"
                                     THEN [NewItem EXCEPT !.status = "PENDING"]
                                     ELSE item[g]]
        /\ run' = [run EXCEPT !.lease = Free,
                     !.phase = IF S = {} THEN "COMPLETED" ELSE "RECONCILING",
                     !.status = IF S = {} THEN "COMPLETED" ELSE @]
  BY DEF AcceptDiscovery
<1>5. run' \in GoodRuns /\ run'.lease = Free /\ run'.status # "PENDING"
  BY <1>4, FreshRows DEF Shaped, GoodRuns, Runs, Holds
<1>6. item' \in [Groups -> GoodItems]
  <2>1. [NewItem EXCEPT !.status = "PENDING"] \in GoodItems
    BY FreshRows, Limits DEF NewItem, GoodItems, Items, Holds, Unfinished
  <2>2. QED BY <1>4, <2>1 DEF Shaped
<1>7. QED BY <1>2, <1>3, <1>5, <1>6 DEF Undiscovered

LEMMA DeferredShape ==
  ASSUME Shaped, NEW w \in Workers, run.lease # Free, DeferDiscovery(w)
  PROVE  /\ row' \in [Groups -> Rows] /\ snapshot' \in Snapshots /\ run' \in GoodRuns
         /\ item' \in [Groups -> GoodItems] /\ Undiscovered'
<1> DEFINE list == worker[w].list
<1>1. list \in SUBSET Groups BY DEF Shaped, GoodMinds, Minds
<1>2. Confirmed(list) \in 0 .. Confirmations - 1
  <2>1. snapshot.confirmed \in Nat BY DEF Shaped, Snapshots
  <2>2. Confirmed(list) < Confirmations BY DEF DeferDiscovery
  <2> HIDE DEF list
  <2>3. QED BY <2>1, <2>2, Limits DEF Confirmed
<1>3. snapshot' = [snapshot EXCEPT !.list = list, !.confirmed = Confirmed(list)]
  BY DEF DeferDiscovery
<1>4. snapshot' \in Snapshots
  <2> HIDE DEF list
  <2>1. QED BY <1>1, <1>2, <1>3 DEF Shaped, Snapshots
<1>5. run' \in GoodRuns /\ run'.phase = "DISCOVERING" BY RunsMade DEF DeferDiscovery, Shaped
<1>6. Undiscovered' BY <1>5 DEF DeferDiscovery, Shaped, Undiscovered
<1>7. QED BY <1>4, <1>5, <1>6 DEF DeferDiscovery, Shaped

LEMMA ShapedRun ==
  ASSUME Shaped, NEW w \in Workers,
         ClaimRun(w) \/ ListGroups(w) \/ PublishDiscovery(w) \/ FailRun(w) \/ DeferRun(w)
  PROVE  Shaped'
<1>1. CASE ClaimRun(w)
  <2>1. run' \in GoodRuns
    <3>1. run \in Runs /\ run.attempts + 1 \in 0 .. RunAttempts /\ run.attempts + 1 >= 1
      BY <1>1, Limits DEF ClaimRun, Shaped, GoodRuns, Runs
    <3> DEFINE n == run.attempts + 1
               l == HeldBy(w)
               r == [run EXCEPT !.status = "RUNNING", !.phase = "DISCOVERING",
                                !.attempts = n, !.lease = l]
    <3>2. run' = r BY <1>1 DEF ClaimRun
    <3>3. l \in Leases /\ l.live /\ l.holder \in Workers BY FreshRows
    <3>4. n \in 0 .. RunAttempts /\ n >= 1 BY <3>1
    <3> HIDE DEF n, l
    <3>5. r \in Runs /\ r.status = "RUNNING" /\ r.attempts = n /\ r.lease = l
      BY <3>1, <3>3, <3>4 DEF Runs
    <3>6. QED BY <3>2, <3>3, <3>4, <3>5 DEF GoodRuns, Holds
  <2>2. worker' \in [Workers -> GoodMinds]
    <3>1. [Idle EXCEPT !.job = "run", !.step = "read"] \in GoodMinds
      BY FreshRows DEF GoodMinds, Minds, Idle
    <3>2. worker' = [worker EXCEPT ![w] = [Idle EXCEPT !.job = "run", !.step = "read"]]
      BY <1>1 DEF ClaimRun, Shaped
    <3>3. QED BY <3>1, <3>2 DEF Shaped
  <2>3. Undiscovered' BY <1>1, <2>1 DEF ClaimRun, Shaped, Undiscovered, GoodRuns, Runs
  <2>4. QED BY <1>1, <2>1, <2>2, <2>3 DEF ClaimRun, Shaped, world
<1>2. CASE ListGroups(w)
  <2>1. used' \in Budgets BY <1>2, Spent DEF ListGroups, Shaped
  <2>2. worker' \in [Workers -> GoodMinds]
    <3>1. worker[w] \in GoodMinds /\ worker[w].job = "run" BY <1>2 DEF ListGroups, Shaped
    <3>2. [g \in Groups |-> upstream[g].version] \in [Groups -> Versions]
      BY DEF Shaped, Upstreams
    <3>3. {g \in Groups : upstream[g].member} \in SUBSET Groups OBVIOUS
    <3>4. ASSUME NEW L \in SUBSET Groups, NEW a \in [Groups -> Versions]
          PROVE  /\ [worker[w] EXCEPT !.step = "publish", !.list = L, !.at = a] \in GoodMinds
                 /\ [worker[w] EXCEPT !.step = "publish", !.at = a] \in GoodMinds
      BY <3>1 DEF GoodMinds, Minds
    <3> DEFINE a == [g \in Groups |-> upstream[g].version]
               L == {g \in Groups : upstream[g].member}
    <3>5. \/ worker' = [worker EXCEPT ![w] = [worker[w] EXCEPT !.step = "publish", !.list = L,
                                                              !.at = a]]
          \/ worker' = [worker EXCEPT ![w] = [worker[w] EXCEPT !.step = "publish", !.at = a]]
      BY <1>2 DEF ListGroups, Shaped
    <3>6. a \in [Groups -> Versions] /\ L \in SUBSET Groups BY <3>2, <3>3
    <3> DEFINE n == [worker[w] EXCEPT !.step = "publish", !.list = L, !.at = a]
               m == [worker[w] EXCEPT !.step = "publish", !.at = a]
    <3>7. n \in GoodMinds /\ m \in GoodMinds BY <3>4, <3>6
    <3>8. worker' = [worker EXCEPT ![w] = n] \/ worker' = [worker EXCEPT ![w] = m] BY <3>5
    <3> HIDE DEF n, m
    <3>9. QED BY <3>7, <3>8 DEF Shaped
  <2>3. QED BY <1>2, <2>1, <2>2 DEF ListGroups, Shaped, Undiscovered, world
<1>3. CASE PublishDiscovery(w)
  <2>1. run.lease = HeldBy(w) /\ run.status = "RUNNING" BY <1>3, Owned DEF PublishDiscovery
  <2>2. run.lease # Free BY <2>1, FreshRows
  <2>3. worker' \in [Workers -> GoodMinds] BY <1>3, Rest DEF PublishDiscovery
  <2>4. /\ row' \in [Groups -> Rows] /\ snapshot' \in Snapshots /\ run' \in GoodRuns
        /\ item' \in [Groups -> GoodItems] /\ Undiscovered'
    BY <1>3, <2>1, <2>2, AcceptedShape, DeferredShape DEF PublishDiscovery
  <2>5. QED BY <1>3, <2>3, <2>4 DEF PublishDiscovery, Shaped, world
<1>4. CASE FailRun(w) \/ DeferRun(w)
  <2>1. worker[w].job = "run" /\ Owns(w) BY <1>4 DEF FailRun, DeferRun
  <2>2. run.lease # Free BY <2>1, Owned, FreshRows
  <2>3. worker' \in [Workers -> GoodMinds] BY <1>4, Rest DEF FailRun, DeferRun
  <2>4. run' \in GoodRuns /\ Undiscovered'
    BY <1>4, <2>2, RunsMade DEF FailRun, DeferRun, Shaped, Undiscovered
  <2>5. used' \in Budgets BY <1>4, Spent DEF FailRun, DeferRun, Shaped
  <2>6. QED BY <1>4, <2>3, <2>4, <2>5 DEF FailRun, DeferRun, Shaped, world
<1>5. QED BY <1>1, <1>2, <1>3, <1>4

LEMMA ItemBecomesShape ==
  ASSUME Shaped, NEW g \in Groups, run.status # "PENDING", run.lease = Free,
         NEW status \in {"RETRY", "COMPLETED", "FAILED", "SKIPPED"},
         NEW attempts \in 0 .. ItemAttempts, ItemBecomes(g, status, attempts)
  PROVE  /\ run' \in GoodRuns /\ run'.status # "PENDING" /\ run'.lease = Free
         /\ item' \in [Groups -> GoodItems] /\ Undiscovered'
<1> DEFINE n == [status |-> status, attempts |-> attempts, lease |-> Free]
           items == [item EXCEPT ![g] = n]
<1>1. run' = Refreshed(items) /\ item' = items BY DEF ItemBecomes
<1>2. n \in GoodItems BY ItemsMade DEF Unfinished
<1>3. item' \in [Groups -> GoodItems]
  <2> HIDE DEF n
  <2>1. QED BY <1>1, <1>2 DEF Shaped
<1>4. run' \in GoodRuns /\ run'.status # "PENDING" /\ run'.lease = Free
  <2>1. run \in GoodRuns BY DEF Shaped
  <2> HIDE DEF items
  <2>2. QED BY <1>1, <2>1, RefreshedRun
<1>5. QED BY <1>3, <1>4 DEF Undiscovered

\* A claim: one attempt more, and the lease of the worker.
LEMMA ShapedClaim ==
  ASSUME Shaped, NEW w \in Workers, NEW g \in Groups, ClaimItem(w, g) \/ ClaimIntent(w, g)
  PROVE  Shaped'
<1> DEFINE l == HeldBy(w)
<1>0. l \in Leases /\ l.live /\ l.holder \in Workers BY FreshRows
<1>1. CASE ClaimItem(w, g)
  <2> DEFINE k == item[g].attempts + 1
             n == [status |-> "RUNNING", attempts |-> k, lease |-> l]
  <2>1. item' = [item EXCEPT ![g] = n] BY <1>1 DEF ClaimItem
  <2>2. item[g] \in GoodItems BY DEF Shaped
  <2>3. k \in 0 .. ItemAttempts /\ k >= 1
    BY <1>1, <2>2, Limits DEF ClaimItem, GoodItems, Items
  <2>4. n \in GoodItems
    <3> HIDE DEF l, k
    <3>1. QED BY <1>0, <2>3 DEF GoodItems, Items, Holds, Unfinished
  <2>5. item' \in [Groups -> GoodItems]
    <3> HIDE DEF n
    <3>1. QED BY <2>1, <2>4 DEF Shaped
  <2>6. run.lease = Free /\ run.status = "RUNNING"
    BY <1>1 DEF ClaimItem, Shaped, Undiscovered, Waiting
  <2>7. worker' \in [Workers -> GoodMinds]
    <3>1. [Idle EXCEPT !.job = "item", !.group = g, !.step = "read"] \in GoodMinds
      BY FreshRows DEF GoodMinds, Minds, Idle
    <3>2. worker' = [worker EXCEPT ![w] = [Idle EXCEPT !.job = "item", !.group = g, !.step = "read"]]
      BY <1>1 DEF ClaimItem, Shaped
    <3>3. QED BY <3>1, <3>2 DEF Shaped
  <2>8. rate' \in Leases BY <1>0, <1>1 DEF ClaimItem
  <2> HIDE DEF l
  <2>9. QED BY <1>1, <2>5, <2>6, <2>7, <2>8 DEF ClaimItem, Shaped, Undiscovered, world
<1>2. CASE ClaimIntent(w, g)
  <2> DEFINE k == intent[g].attempts + 1
             n == [intent[g] EXCEPT !.status = "RUNNING", !.attempts = k, !.lease = l]
  <2>1. intent' = [intent EXCEPT ![g] = n] BY <1>2 DEF ClaimIntent, Shaped
  <2>2. intent[g] \in GoodIntents BY DEF Shaped
  <2>3. k \in 0 .. ItemAttempts /\ k >= 1
    BY <1>2, <2>2, Limits DEF ClaimIntent, GoodIntents, Intents
  <2>4. n \in GoodIntents
    <3> HIDE DEF l, k
    <3>1. n \in Intents /\ n.status = "RUNNING" /\ n.attempts = k /\ n.lease = l
      BY <1>0, <2>2, <2>3 DEF GoodIntents, Intents, Unfinished
    <3>2. QED BY <3>1, <1>0, <2>3 DEF GoodIntents, Holds
  <2>5. intent' \in [Groups -> GoodIntents]
    <3> HIDE DEF n
    <3>1. QED BY <2>1, <2>4 DEF Shaped
  <2>6. worker' \in [Workers -> GoodMinds]
    <3>1. [Idle EXCEPT !.job = "intent", !.group = g, !.step = "read"] \in GoodMinds
      BY FreshRows DEF GoodMinds, Minds, Idle
    <3>2. worker' = [worker EXCEPT ![w] = [Idle EXCEPT !.job = "intent", !.group = g, !.step = "read"]]
      BY <1>2 DEF ClaimIntent, Shaped
    <3>3. QED BY <3>1, <3>2 DEF Shaped
  <2>7. rate' \in Leases BY <1>0, <1>2 DEF ClaimIntent
  <2> HIDE DEF l
  <2>8. QED BY <1>2, <2>5, <2>6, <2>7 DEF ClaimIntent, Shaped, Undiscovered, world
<1>3. QED BY <1>1, <1>2

LEMMA ShapedRead ==
  ASSUME Shaped, NEW w \in Workers,
         ReadGroup(w) \/ WriteDetails(w) \/ SettleIntent(w) \/ LoseOwnership(w) \/ Crash(w)
  PROVE  Shaped'
<1> DEFINE g == worker[w].group
<1>0. worker[w] \in GoodMinds BY DEF Shaped
<1>1. CASE ReadGroup(w)
  <2>1. g \in Groups /\ worker[w].job \in {"item", "intent"}
    BY <1>0, <1>1 DEF ReadGroup, GoodMinds
  <2> DEFINE s == IF upstream[g].member THEN "write" ELSE "missing"
             a == [worker[w].at EXCEPT ![g] = upstream[g].version]
             n == [worker[w] EXCEPT !.step = s, !.at = a]
  <2>2. a \in [Groups -> Versions]
    <3>1. upstream[g].version \in Versions /\ worker[w].at \in [Groups -> Versions]
      BY <2>1, <1>0 DEF Shaped, Upstreams, GoodMinds, Minds
    <3>2. QED BY <3>1
  <2>3. s \in {"write", "missing"} OBVIOUS
  <2>4. worker' = [worker EXCEPT ![w] = n] BY <1>1 DEF ReadGroup, Shaped
  <2>5. n \in GoodMinds
    <3> HIDE DEF s, a
    <3>1. QED BY <1>0, <2>1, <2>2, <2>3 DEF GoodMinds, Minds
  <2>6. worker' \in [Workers -> GoodMinds]
    <3> HIDE DEF n
    <3>1. QED BY <2>4, <2>5 DEF Shaped
  <2>7. QED BY <1>1, <2>6 DEF ReadGroup, Shaped, Undiscovered, world
<1>2. CASE WriteDetails(w)
  <2>1. g \in Groups /\ worker[w].job \in {"item", "intent"}
    BY <1>0, <1>2 DEF WriteDetails, GoodMinds
  <2> DEFINE v == worker[w].at[g]
             n == [known |-> TRUE, active |-> TRUE, invalidated |-> FALSE,
                   seen |-> v, details |-> v]
             m == [worker[w] EXCEPT !.step = "complete"]
  <2>2. v \in Versions BY <1>0, <2>1 DEF GoodMinds, Minds
  <2>3. row' = [row EXCEPT ![g] = n] /\ worker' = [worker EXCEPT ![w] = m]
    BY <1>2 DEF WriteDetails, Shaped
  <2>4. n \in Rows BY <2>2 DEF Rows
  <2>5. m \in GoodMinds BY <1>0, <2>1 DEF GoodMinds, Minds
  <2> HIDE DEF n, m
  <2>6. row' \in [Groups -> Rows] /\ worker' \in [Workers -> GoodMinds]
    BY <2>3, <2>4, <2>5 DEF Shaped
  <2>7. QED BY <1>2, <2>6 DEF WriteDetails, Shaped, Undiscovered, world
<1>3. CASE SettleIntent(w)
  <2>1. g \in Groups BY <1>0, <1>3 DEF SettleIntent, GoodMinds
  <2>2. intent' \in [Groups -> GoodIntents]
    <3>1. CASE intent' = intent BY <3>1 DEF Shaped
    <3>2. CASE intent' # intent
      <4> DEFINE n == [intent[g] EXCEPT !.status = "COMPLETED"]
      <4>1. intent' = [intent EXCEPT ![g] = n] /\ intent[g].status \in Waiting
        BY <1>3, <3>2 DEF SettleIntent, Shaped
      <4>2. intent[g] \in GoodIntents BY <2>1 DEF Shaped
      <4>3. n \in GoodIntents
        BY <4>1, <4>2, FreshRows DEF GoodIntents, Intents, Holds, Waiting, Unfinished
      <4> HIDE DEF n
      <4>4. QED BY <4>1, <4>3 DEF Shaped
    <3>3. QED BY <3>1, <3>2
  <2>3. worker' \in [Workers -> GoodMinds] BY <1>3, Rest DEF SettleIntent
  <2>4. QED BY <1>3, <2>2, <2>3 DEF SettleIntent, Shaped, Undiscovered, world
<1>4. CASE LoseOwnership(w) \/ Crash(w)
  <2>1. worker' \in [Workers -> GoodMinds] BY <1>4, Rest DEF LoseOwnership, Crash
  <2>2. QED BY <1>4, <2>1 DEF LoseOwnership, Crash, Shaped, Undiscovered, world
<1>5. QED BY <1>1, <1>2, <1>3, <1>4

LEMMA ShapedEnd ==
  ASSUME Shaped, NEW w \in Workers,
         CompleteItem(w) \/ SkipItem(w) \/ FailItem(w) \/ CompleteIntent(w)
         \/ SkipMissing(w) \/ FailIntent(w) \/ DeferRead(w)
  PROVE  Shaped'
<1> DEFINE g == worker[w].group
<1>0. worker[w] \in GoodMinds BY DEF Shaped
<1>1. rate' \in Leases
  BY ReleasedLease DEF CompleteItem, SkipItem, FailItem, CompleteIntent, SkipMissing,
                       FailIntent, DeferRead
<1>2. worker' \in [Workers -> GoodMinds]
  <2>1. CASE CompleteItem(w)
    <3> DEFINE m == [worker[w] EXCEPT !.step = "settle"]
    <3>1. worker' = [worker EXCEPT ![w] = m] /\ worker[w].job = "item"
      BY <2>1 DEF CompleteItem, Shaped
    <3>2. m \in GoodMinds BY <1>0, <3>1 DEF GoodMinds, Minds
    <3> HIDE DEF m
    <3>3. QED BY <3>1, <3>2 DEF Shaped
  <2>2. CASE ~CompleteItem(w)
    BY <2>2, Rest DEF SkipItem, FailItem, CompleteIntent, SkipMissing, FailIntent, DeferRead
  <2>3. QED BY <2>1, <2>2
<1>3. Owns(w) /\ used' \in Budgets
  BY Spent DEF CompleteItem, SkipItem, FailItem, CompleteIntent, SkipMissing, FailIntent,
               DeferRead, Shaped
<1>4. ASSUME worker[w].job = "item"
      PROVE  /\ g \in Groups /\ run.status # "PENDING" /\ run.lease = Free
             /\ item[g].attempts \in 1 .. ItemAttempts
  <2>1. g \in Groups /\ item[g].status = "RUNNING" /\ run.status # "PENDING" /\ run.lease = Free
    BY <1>3, <1>4, Owned
  <2>2. item[g] \in GoodItems BY <2>1 DEF Shaped
  <2>3. item[g].attempts \in 0 .. ItemAttempts /\ item[g].attempts >= 1
    BY <2>1, <2>2 DEF GoodItems, Items, Holds
  <2>4. QED BY <2>1, <2>3, Limits
<1>5. ASSUME worker[w].job = "intent"
      PROVE  /\ g \in Groups /\ intent[g] \in GoodIntents /\ intent[g].status = "RUNNING"
             /\ intent[g].attempts \in 1 .. ItemAttempts
  <2>1. g \in Groups /\ intent[g].status = "RUNNING" BY <1>3, <1>5, Owned
  <2>2. intent[g] \in GoodIntents BY <2>1 DEF Shaped
  <2>3. intent[g].attempts \in 0 .. ItemAttempts /\ intent[g].attempts >= 1
    BY <2>1, <2>2 DEF GoodIntents, Intents, Holds
  <2>4. QED BY <2>1, <2>2, <2>3, Limits
<1>6. CASE \/ CompleteItem(w) \/ SkipItem(w) \/ FailItem(w)
           \/ DeferRead(w) /\ worker[w].job = "item"
  <2>1. /\ worker[w].job = "item"
        /\ \E s \in {"RETRY", "COMPLETED", "FAILED", "SKIPPED"} :
             ItemBecomes(g, s, item[g].attempts) \/ ItemBecomes(g, s, item[g].attempts - 1)
    BY <1>6 DEF CompleteItem, SkipItem, FailItem, DeferRead, Retries
  <2>2. item[g].attempts \in 0 .. ItemAttempts /\ item[g].attempts - 1 \in 0 .. ItemAttempts
    BY <2>1, <1>4, Limits
  <2>3. run' \in GoodRuns /\ item' \in [Groups -> GoodItems] /\ Undiscovered'
    BY <1>4, <2>1, <2>2, ItemBecomesShape
  <2>4. QED BY <1>6, <1>1, <1>2, <1>3, <2>3
          DEF CompleteItem, SkipItem, FailItem, DeferRead, Shaped, world
<1>7. CASE \/ CompleteIntent(w) \/ FailIntent(w) \/ SkipMissing(w)
           \/ DeferRead(w) /\ worker[w].job = "intent"
  <2>0. worker[w].job = "intent" BY <1>7 DEF CompleteIntent, FailIntent, SkipMissing, DeferRead
  <2>1. intent' \in [Groups -> GoodIntents]
    <3>1. CASE CompleteIntent(w) \/ FailIntent(w) \/ SkipMissing(w)
      <4>1. PICK s \in {"RETRY", "COMPLETED", "FAILED"} :
              intent' = [intent EXCEPT ![g] = Ended(intent[g], s)]
        BY <3>1 DEF CompleteIntent, FailIntent, SkipMissing, Retries
      <4>2. Ended(intent[g], s) \in GoodIntents BY <2>0, <1>5, IntentsMade
      <4>3. QED BY <4>1, <4>2 DEF Shaped
    <3>2. CASE DeferRead(w)
      <4> DEFINE k == intent[g].attempts - 1
                 n == [intent[g] EXCEPT !.status = "RETRY", !.attempts = k,
                                        !.newer = FALSE, !.lease = Free]
      <4>1. intent' = [intent EXCEPT ![g] = n] BY <2>0, <3>2, <1>5 DEF DeferRead, Shaped
      <4>2. k \in 0 .. ItemAttempts BY <2>0, <1>5, Limits
      <4>3. n \in Intents /\ n.lease = Free /\ n.status = "RETRY"
        <5>1. intent[g] \in Intents BY <2>0, <1>5 DEF GoodIntents
        <5>2. Free \in Leases BY FreshRows
        <5> HIDE DEF k
        <5>3. QED BY <4>2, <5>1, <5>2 DEF Intents, Unfinished
      <4>4. n \in GoodIntents BY <4>3, FreshRows DEF GoodIntents, Holds
      <4> HIDE DEF n
      <4>5. QED BY <4>1, <4>4 DEF Shaped
    <3>3. QED BY <1>7, <3>1, <3>2
  <2>2. row' \in [Groups -> Rows]
    <3>1. CASE row' = row BY <3>1 DEF Shaped
    <3>2. CASE row' # row
      <4> DEFINE v == worker[w].at[g]
                 n == [row[g] EXCEPT !.active = FALSE, !.invalidated = FALSE, !.seen = v]
      <4>1. row' = [row EXCEPT ![g] = n]
        BY <1>7, <3>2 DEF CompleteIntent, FailIntent, SkipMissing, DeferRead, Shaped
      <4>2. v \in Versions /\ row[g] \in Rows
        BY <1>0, <1>5, <2>0 DEF GoodMinds, Minds, Shaped
      <4>3. n \in Rows BY <4>2 DEF Rows
      <4> HIDE DEF n
      <4>4. QED BY <4>1, <4>3 DEF Shaped
    <3>3. QED BY <3>1, <3>2
  <2>3. QED BY <1>7, <2>0, <1>1, <1>2, <1>3, <2>1, <2>2
          DEF CompleteIntent, FailIntent, SkipMissing, DeferRead, Shaped, Undiscovered, world
<1>8. QED BY <1>6, <1>7 DEF DeferRead

\* A lease that runs out stays with its holder until the row is recovered.
LEMMA ShapedTime ==
  ASSUME Shaped, \/ ExpireRun \/ Recover \/ RequestRun
                 \/ \E g \in Groups : ExpireItem(g) \/ ExpireIntent(g)
  PROVE  Shaped'
<1>1. ASSUME NEW l \in Leases PROVE [l EXCEPT !.live = FALSE] \in Leases BY DEF Leases
<1>2. ASSUME NEW l \in Leases, RateOutlives(l) PROVE rate' \in Leases
  BY <1>1, <1>2 DEF RateOutlives, Shaped
<1>3. RateRecovered \in Leases BY FreshRows DEF RateRecovered, Shaped
<1>4. CASE RequestRun
  <2>1. run' \in GoodRuns /\ run'.lease = Free /\ run'.phase = "DISCOVERING"
    <3>1. PICK mode \in {"FULL", "INCREMENTAL"} :
            run' = [NewRun EXCEPT !.status = "PENDING", !.phase = "DISCOVERING", !.mode = mode]
      BY <1>4 DEF RequestRun
    <3>2. QED BY <3>1, FreshRows DEF NewRun, GoodRuns, Runs, Holds
  <2>2. item' \in [Groups -> GoodItems] BY <1>4, FreshRows DEF RequestRun
  <2>3. \A g \in Groups : item'[g].status = "NONE" BY <1>4 DEF RequestRun, NewItem
  <2>4. used' \in Budgets BY <1>4, Spent DEF RequestRun
  <2>5. QED BY <1>4, <2>1, <2>2, <2>3, <2>4 DEF RequestRun, Shaped, Undiscovered, world
<1>5. CASE ExpireRun
  <2> DEFINE l == [run.lease EXCEPT !.live = FALSE]
             n == [run EXCEPT !.lease = l]
  <2>1. run' = n BY <1>5 DEF ExpireRun, Shaped
  <2>2. run \in Runs /\ run.lease \in Leases /\ run.lease.live /\ run.lease # Free
        /\ run.status = "RUNNING" /\ run.attempts >= 1
    BY <1>5, FreshRows DEF ExpireRun, Shaped, GoodRuns, Runs, Holds
  <2>3. l \in Leases /\ ~l.live BY <2>2, <1>1 DEF Leases
  <2>4. n \in Runs /\ n.status = "RUNNING" /\ n.attempts = run.attempts /\ n.lease = l
        /\ n.phase = run.phase
    <3> HIDE DEF l
    <3>1. QED BY <2>2, <2>3 DEF Runs
  <2>5. n \in GoodRuns BY <2>2, <2>3, <2>4 DEF GoodRuns, Holds
  <2> HIDE DEF n
  <2>6. QED BY <1>5, <2>1, <2>2, <2>4, <2>5 DEF ExpireRun, Shaped, Undiscovered, world
<1>6. ASSUME NEW g \in Groups, ExpireItem(g) PROVE Shaped'
  <2> DEFINE l == [item[g].lease EXCEPT !.live = FALSE]
             n == [item[g] EXCEPT !.lease = l]
  <2>1. item' = [item EXCEPT ![g] = n] BY <1>6 DEF ExpireItem, Shaped
  <2>2. item[g] \in Items /\ item[g].lease \in Leases /\ item[g].status = "RUNNING"
        /\ item[g].attempts >= 1
    BY <1>6, FreshRows DEF ExpireItem, Shaped, GoodItems, Items, Holds
  <2>3. l \in Leases /\ ~l.live BY <2>2, <1>1 DEF Leases
  <2>4. n \in Items /\ n.status = "RUNNING" /\ n.attempts = item[g].attempts /\ n.lease = l
    <3> HIDE DEF l
    <3>1. QED BY <2>2, <2>3 DEF Items
  <2>5. n \in GoodItems BY <2>2, <2>3, <2>4 DEF GoodItems, Holds
  <2>6. rate' \in Leases BY <1>6, <1>2, <2>2 DEF ExpireItem
  <2> HIDE DEF n
  <2>7. item' \in [Groups -> GoodItems] BY <2>1, <2>5 DEF Shaped
  <2>8. \A h \in Groups : item'[h].status = item[h].status
    BY <2>1, <2>2, <2>4 DEF Shaped
  <2>9. QED BY <1>6, <2>6, <2>7, <2>8 DEF ExpireItem, Shaped, Undiscovered, world
<1>7. ASSUME NEW g \in Groups, ExpireIntent(g) PROVE Shaped'
  <2> DEFINE l == [intent[g].lease EXCEPT !.live = FALSE]
             n == [intent[g] EXCEPT !.lease = l]
  <2>1. intent' = [intent EXCEPT ![g] = n] BY <1>7 DEF ExpireIntent, Shaped
  <2>2. intent[g] \in Intents /\ intent[g].lease \in Leases /\ intent[g].status = "RUNNING"
        /\ intent[g].attempts >= 1
    BY <1>7, FreshRows DEF ExpireIntent, Shaped, GoodIntents, Intents, Holds
  <2>3. l \in Leases /\ ~l.live BY <2>2, <1>1 DEF Leases
  <2>4. n \in Intents /\ n.status = "RUNNING" /\ n.attempts = intent[g].attempts /\ n.lease = l
    <3> HIDE DEF l
    <3>1. QED BY <2>2, <2>3 DEF Intents
  <2>5. n \in GoodIntents BY <2>2, <2>3, <2>4 DEF GoodIntents, Holds
  <2>6. rate' \in Leases BY <1>7, <1>2, <2>2 DEF ExpireIntent
  <2> HIDE DEF n
  <2>7. intent' \in [Groups -> GoodIntents] BY <2>1, <2>5 DEF Shaped
  <2>8. QED BY <1>7, <2>6, <2>7 DEF ExpireIntent, Shaped, Undiscovered, world
<1>8. CASE RecoverRun
  <2>1. run' = Attempted(run) BY <1>8 DEF RecoverRun
  <2>2. run' \in GoodRuns /\ run'.lease = Free
        /\ (run'.status = "PENDING" => run'.phase = "DISCOVERING")
    BY <2>1, RunsMade DEF Shaped
  <2>3. run.lease # Free BY <1>8, FreshRows DEF RecoverRun, Expired
  <2>4. QED BY <1>8, <2>2, <2>3 DEF RecoverRun, Shaped, Undiscovered, world
<1>9. CASE RecoverItems
  <2> DEFINE f(g) == IF ~Expired(item[g]) THEN item[g]
                     ELSE [item[g] EXCEPT !.lease = Free,
                             !.status = IF item[g].attempts >= ItemAttempts
                                        THEN "FAILED" ELSE "RETRY"]
             items == [g \in Groups |-> f(g)]
  <2>1. item' = items /\ run' = Refreshed(items) /\ rate' = RateRecovered
    BY <1>9 DEF RecoverItems
  <2>2. ASSUME NEW g \in Groups PROVE f(g) \in GoodItems
    <3>1. item[g] \in GoodItems BY DEF Shaped
    <3>2. [item[g] EXCEPT !.lease = Free,
             !.status = IF item[g].attempts >= ItemAttempts THEN "FAILED" ELSE "RETRY"]
            \in GoodItems
      BY <3>1, FreshRows DEF GoodItems, Items, Holds, Unfinished
    <3>3. QED BY <3>1, <3>2
  <2>3. run.status # "PENDING" /\ run.lease = Free
    BY <1>9 DEF RecoverItems, Expired, Shaped, Undiscovered
  <2> HIDE DEF f
  <2>4. item' \in [Groups -> GoodItems] BY <2>1, <2>2
  <2> HIDE DEF items
  <2>5. run' \in GoodRuns /\ run'.status # "PENDING" /\ run'.lease = Free
    BY <2>1, <2>3, RefreshedRun DEF Shaped
  <2>6. QED BY <1>9, <1>3, <2>1, <2>4, <2>5 DEF RecoverItems, Shaped, Undiscovered, world
<1>10. CASE RecoverIntents
  <2> DEFINE f(g) == IF ~Expired(intent[g]) THEN intent[g]
                     ELSE Ended(intent[g], IF intent[g].attempts >= ItemAttempts
                                           THEN "FAILED" ELSE "RETRY")
  <2>1. intent' = [g \in Groups |-> f(g)] /\ rate' = RateRecovered
    BY <1>10 DEF RecoverIntents
  <2>2. \A g \in Groups : f(g) \in GoodIntents BY IntentsMade DEF Shaped
  <2> HIDE DEF f
  <2>3. QED BY <1>10, <1>3, <2>1, <2>2 DEF RecoverIntents, Shaped, Undiscovered, world
<1>11. QED BY <1>4, <1>5, <1>6, <1>7, <1>8, <1>9, <1>10 DEF Recover

\* What may happen, in the groups the proofs go through.
GroupStep(g) == Change(g) \/ GroupEvent(g) \/ RequestRefresh(g)
RunStep(w) == ClaimRun(w) \/ ListGroups(w) \/ PublishDiscovery(w) \/ FailRun(w) \/ DeferRun(w)
ClaimStep(w, g) == ClaimItem(w, g) \/ ClaimIntent(w, g)
ReadStep(w) == ReadGroup(w) \/ WriteDetails(w) \/ SettleIntent(w) \/ LoseOwnership(w) \/ Crash(w)
EndStep(w) == CompleteItem(w) \/ SkipItem(w) \/ FailItem(w) \/ CompleteIntent(w)
              \/ SkipMissing(w) \/ FailIntent(w) \/ DeferRead(w)
TimeStep == \/ ExpireRun \/ Recover \/ RequestRun
            \/ \E g \in Groups : ExpireItem(g) \/ ExpireIntent(g)

LEMMA NextGroups ==
  ASSUME Next
  PROVE  \/ \E g \in Groups : GroupStep(g)
         \/ \E w \in Workers : RunStep(w) \/ ReadStep(w) \/ EndStep(w)
         \/ \E w \in Workers, g \in Groups : ClaimStep(w, g)
         \/ TimeStep
BY DEF Next, Proceed, GroupStep, RunStep, ClaimStep, ReadStep, EndStep, TimeStep

LEMMA ShapedInit == Init => Shaped
<1> SUFFICES ASSUME Init PROVE Shaped OBVIOUS
<1>1. PICK S \in SUBSET Groups :
        /\ upstream = [g \in Groups |-> [version |-> 1, member |-> g \in S]]
        /\ left = Groups \ S
  BY DEF Init
<1>2. upstream \in [Groups -> Upstreams] BY <1>1, Limits DEF Upstreams
<1>3. announced \in [Groups -> Versions] BY Limits DEF Init
<1>4. snapshot \in Snapshots
  <2>1. Cardinality(Groups) \in Nat BY FS_CardinalityType
  <2>2. -1 \in -1 .. Cardinality(Groups) /\ 0 \in 0 .. Confirmations - 1 BY <2>1, Limits
  <2>3. QED BY <2>2 DEF Init, Snapshots
<1>5. used \in Budgets BY Limits DEF Init, Budgets
<1>6. row \in [Groups -> Rows] /\ run \in GoodRuns /\ item \in [Groups -> GoodItems]
      /\ intent \in [Groups -> GoodIntents] /\ rate \in Leases
      /\ worker \in [Workers -> GoodMinds]
  BY FreshRows DEF Init
<1>7. Undiscovered BY FreshRows DEF Init, Undiscovered, NewRun
<1>8. QED BY <1>1, <1>2, <1>3, <1>4, <1>5, <1>6, <1>7 DEF Shaped

LEMMA ShapedStep == Shaped /\ [Next]_vars => Shaped'
<1>1. ASSUME Shaped, Next PROVE Shaped'
  <2>1. ASSUME NEW g \in Groups, GroupStep(g) PROVE Shaped'
    BY <1>1, <2>1, ShapedWorld DEF GroupStep
  <2>2. ASSUME NEW w \in Workers, RunStep(w) PROVE Shaped' BY <1>1, <2>2, ShapedRun DEF RunStep
  <2>3. ASSUME NEW w \in Workers, ReadStep(w) PROVE Shaped'
    BY <1>1, <2>3, ShapedRead DEF ReadStep
  <2>4. ASSUME NEW w \in Workers, EndStep(w) PROVE Shaped' BY <1>1, <2>4, ShapedEnd DEF EndStep
  <2>5. ASSUME NEW w \in Workers, NEW g \in Groups, ClaimStep(w, g) PROVE Shaped'
    BY <1>1, <2>5, ShapedClaim DEF ClaimStep
  <2>6. ASSUME TimeStep PROVE Shaped' BY <1>1, <2>6, ShapedTime DEF TimeStep
  <2>7. QED BY <1>1, <2>1, <2>2, <2>3, <2>4, <2>5, <2>6, NextGroups
<1>2. ASSUME Shaped, UNCHANGED vars PROVE Shaped'
  BY <1>2 DEF vars, Shaped, Undiscovered
<1>3. QED BY <1>1, <1>2

(* The mirror of the groups, its leases and what the workers remember keep   *)
(* their types: TypeOK.                                                      *)
THEOREM TypeCorrect == Spec => []TypeOK
<1>1. QED BY ShapedInit, ShapedStep, ShapedTyped, PTL DEF Spec

-----------------------------------------------------------------------------
(* One wrong list.                                                         *)

\* What the account never left is in every true list.
Remaining == Groups \ left

\* A list on its way to be published that misses such a group.
Wrong(w) == worker[w].step = "publish" /\ ~(Remaining \subseteq worker[w].list)

\* What the session remembers of the lists before it.
TrueBaseline == /\ snapshot.confirmed > 0 => Remaining \subseteq snapshot.list
                /\ snapshot.count = 0 => Remaining = {}

OneGlitch ==
  used.glitches <= 1 =>
    /\ \A g \in Groups : g \notin left => upstream[g].member
    /\ \A w \in Workers : worker[w].step = "missing" => worker[w].group \in left
    /\ \A w, v \in Workers : Wrong(w) /\ Wrong(v) => w = v
    /\ \A w \in Workers : Wrong(w) => worker[w].list = {}
    /\ used.glitches = 0 \/ (\E w \in Workers : Wrong(w)) => TrueBaseline
    /\ used.glitches = 0 => \A w \in Workers : ~Wrong(w)

Closed(g) == row[g].known /\ ~row[g].active

NoneClosed == MinBaseline = 1 /\ used.glitches <= 1 => \A g \in Groups : Closed(g) => g \in left

GlitchInv == OneGlitch /\ NoneClosed

LEMMA NoneClosedIs == BadListClosesNothing <=> NoneClosed
BY DEF BadListClosesNothing, NoneClosed, Closed

LEMMA GlitchInit == Init => GlitchInv
<1> SUFFICES ASSUME Init PROVE GlitchInv OBVIOUS
<1>1. \A g \in Groups : g \notin left => upstream[g].member
  <2>1. PICK S \in SUBSET Groups :
          /\ upstream = [g \in Groups |-> [version |-> 1, member |-> g \in S]]
          /\ left = Groups \ S
    BY DEF Init
  <2>2. QED BY <2>1
<1>2. used.glitches = 0 /\ snapshot.confirmed = 0 /\ snapshot.count = -1 BY DEF Init
<1>3. \A w \in Workers : worker[w].step = "none" BY DEF Init, Idle
<1>4. \A g \in Groups : ~row[g].known BY DEF Init, NewRow
<1>5. QED BY <1>1, <1>2, <1>3, <1>4 DEF GlitchInv, OneGlitch, NoneClosed, Wrong, TrueBaseline, Closed

\* Nothing that matters here changes, but that workers may give up.
LEMMA GlitchIdle ==
  ASSUME Shaped, GlitchInv, UNCHANGED <<upstream, left, snapshot>>, used'.glitches = used.glitches,
         used.glitches <= 1 =>
           /\ \A g \in Groups : Closed(g)' => Closed(g) \/ g \in left
           /\ \A w \in Workers : \/ worker'[w].step \notin {"publish", "missing"}
                                 \/ /\ worker'[w].step = worker[w].step
                                    /\ worker'[w].list = worker[w].list
                                    /\ worker'[w].group = worker[w].group
                                 \/ worker'[w].step = "missing" /\ worker'[w].group \in left
  PROVE  GlitchInv'
<1>1. used.glitches <= 1 => \A w \in Workers : Wrong(w)' => Wrong(w) /\ worker'[w].list = worker[w].list
  BY DEF Wrong, Remaining
<1>2. (TrueBaseline)' = TrueBaseline BY DEF TrueBaseline, Remaining
<1>3. used.glitches <= 1 => \A w \in Workers : worker'[w].step = "missing" =>
        \/ worker[w].step = "missing" /\ worker'[w].group = worker[w].group
        \/ worker'[w].group \in left
  OBVIOUS
<1>4. OneGlitch'
  <2> SUFFICES ASSUME used'.glitches <= 1
               PROVE  /\ \A g \in Groups : g \notin left' => upstream'[g].member
                      /\ \A w \in Workers : worker'[w].step = "missing" => worker'[w].group \in left'
                      /\ \A w, v \in Workers : Wrong(w)' /\ Wrong(v)' => w = v
                      /\ \A w \in Workers : Wrong(w)' => worker'[w].list = {}
                      /\ used'.glitches = 0 \/ (\E w \in Workers : Wrong(w)') => TrueBaseline'
                      /\ used'.glitches = 0 => \A w \in Workers : ~Wrong(w)'
    BY DEF OneGlitch
  <2>1. used.glitches <= 1 OBVIOUS
  <2> HIDE DEF Wrong, TrueBaseline
  <2>2. QED BY <1>1, <1>2, <1>3, <2>1 DEF GlitchInv, OneGlitch
<1>5. NoneClosed' BY DEF NoneClosed, GlitchInv
<1>6. QED BY <1>4, <1>5 DEF GlitchInv

LEMMA GlitchWorld ==
  ASSUME Shaped, GlitchInv, NEW g \in Groups, GroupStep(g)
  PROVE  GlitchInv'
<1>1. CASE Change(g)
  <2>1. PICK member \in BOOLEAN :
          /\ upstream' = [upstream EXCEPT ![g] = [version |-> @.version + 1, member |-> member]]
          /\ left' = IF member THEN left ELSE left \cup {g}
    BY <1>1 DEF Change
  <2>2. \A h \in Groups : upstream'[h].member = IF h = g THEN member ELSE upstream[h].member
    BY <2>1 DEF Shaped
  <2>3. UNCHANGED <<snapshot, row, worker, used>> BY <1>1 DEF Change
  <2>4. left \subseteq left' /\ Remaining' \subseteq Remaining BY <2>1 DEF Remaining
  <2>5. \A w \in Workers : Wrong(w)' => Wrong(w) BY <2>3, <2>4 DEF Wrong
  <2>6. TrueBaseline => TrueBaseline' BY <2>3, <2>4 DEF TrueBaseline
  <2>7. used.glitches <= 1 => \A h \in Groups : h \notin left' => upstream'[h].member
    BY <2>1, <2>2 DEF GlitchInv, OneGlitch
  <2>8. OneGlitch'
    <3> SUFFICES ASSUME used.glitches <= 1
                 PROVE  /\ \A h \in Groups : h \notin left' => upstream'[h].member
                        /\ \A w \in Workers : worker[w].step = "missing" => worker[w].group \in left'
                        /\ \A w, v \in Workers : Wrong(w)' /\ Wrong(v)' => w = v
                        /\ \A w \in Workers : Wrong(w)' => worker[w].list = {}
                        /\ used.glitches = 0 \/ (\E w \in Workers : Wrong(w)') => TrueBaseline'
                        /\ used.glitches = 0 => \A w \in Workers : ~Wrong(w)'
      BY <2>3 DEF OneGlitch
    <3> HIDE DEF Wrong, TrueBaseline
    <3>1. QED BY <2>4, <2>5, <2>6, <2>7 DEF GlitchInv, OneGlitch
  <2>9. NoneClosed' BY <2>3, <2>4 DEF NoneClosed, GlitchInv, Closed
  <2>10. QED BY <2>8, <2>9 DEF GlitchInv
<1>2. CASE GroupEvent(g) \/ RequestRefresh(g)
  <2>1. UNCHANGED <<upstream, left, snapshot>> /\ used'.glitches = used.glitches
    BY <1>2 DEF GroupEvent, RequestRefresh, Spend, world, Shaped, Budgets
  <2>2. \A h \in Groups : row'[h].known = row[h].known /\ row'[h].active = row[h].active
    BY <1>2 DEF GroupEvent, RequestRefresh, Shaped, Rows
  <2>3. ASSUME NEW w \in Workers
        PROVE  /\ worker'[w].step = worker[w].step /\ worker'[w].list = worker[w].list
               /\ worker'[w].group = worker[w].group
    <3>1. worker[w] \in GoodMinds BY DEF Shaped
    <3>2. QED BY <1>2, <3>1 DEF GroupEvent, RequestRefresh, Late, GoodMinds, Minds
  <2>4. QED BY <2>1, <2>2, <2>3, GlitchIdle DEF Closed
<1>3. QED BY <1>1, <1>2 DEF GroupStep

\* What a worker that lists the groups remembers.
LEMMA ListedMind ==
  ASSUME Shaped, NEW w \in Workers, ListGroups(w)
  PROVE  /\ \A v \in Workers \ {w} : worker'[v] = worker[v]
         /\ worker'[w].step = "publish" /\ worker'[w].job = "run"
         /\ worker'[w].group = worker[w].group
         /\ \A g \in Groups : worker'[w].at[g] = upstream[g].version
         /\ \/ worker'[w].list = {g \in Groups : upstream[g].member} /\ used' = used
            \/ worker'[w].list = {} /\ used'.glitches = used.glitches + 1
<1> DEFINE a == [g \in Groups |-> upstream[g].version]
           L == {g \in Groups : upstream[g].member}
           n == [worker[w] EXCEPT !.step = "publish", !.list = L, !.at = a]
           m == [worker[w] EXCEPT !.step = "publish", !.at = a]
<1>1. worker[w] \in GoodMinds /\ worker[w].step = "read" /\ worker[w].list = {}
      /\ worker[w].job = "run"
  BY DEF Shaped, ListGroups, GoodMinds
<1>2. \/ worker' = [worker EXCEPT ![w] = n] /\ used' = used
      \/ worker' = [worker EXCEPT ![w] = m] /\ used'.glitches = used.glitches + 1
  BY DEF ListGroups, Shaped, Spend, Budgets
<1>3. /\ n.step = "publish" /\ n.job = "run" /\ n.group = worker[w].group /\ n.list = L /\ n.at = a
      /\ m.step = "publish" /\ m.job = "run" /\ m.group = worker[w].group /\ m.list = {} /\ m.at = a
  <2> HIDE DEF a, L
  <2>1. QED BY <1>1 DEF GoodMinds, Minds
<1>4. \/ worker'[w] = n /\ used' = used
      \/ worker'[w] = m /\ used'.glitches = used.glitches + 1
  <2> HIDE DEF n, m
  <2>1. QED BY <1>2 DEF Shaped
<1>5. \A v \in Workers \ {w} : worker'[v] = worker[v]
  <2> HIDE DEF n, m
  <2>1. QED BY <1>2 DEF Shaped
<1>6. \A g \in Groups : a[g] = upstream[g].version OBVIOUS
<1> HIDE DEF n, m, a
<1>7. QED BY <1>3, <1>4, <1>5, <1>6

LEMMA GlitchList ==
  ASSUME Shaped, GlitchInv, NEW w \in Workers, ListGroups(w)
  PROVE  GlitchInv'
<1>0. UNCHANGED <<upstream, left, row, snapshot>> BY DEF ListGroups, world
<1>1. Remaining' = Remaining /\ TrueBaseline' = TrueBaseline
  BY <1>0 DEF Remaining, TrueBaseline
<1>2. \A v \in Workers \ {w} : worker'[v] = worker[v] BY ListedMind
<1>4. worker'[w].step = "publish" BY ListedMind
<1>5. \A v \in Workers \ {w} : Wrong(v)' = Wrong(v) BY <1>1, <1>2 DEF Wrong
<1>6. CASE worker'[w].list = {g \in Groups : upstream[g].member} /\ used' = used
  <2>1. used.glitches <= 1 => ~Wrong(w)'
    <3>1. used.glitches <= 1 => Remaining \subseteq {g \in Groups : upstream[g].member}
      BY DEF Remaining, GlitchInv, OneGlitch
    <3>2. QED BY <1>6, <1>1, <3>1 DEF Wrong
  <2>2. OneGlitch'
    <3> HIDE DEF Wrong, TrueBaseline
    <3>1. used.glitches <= 1 => \A v \in Workers : Wrong(v)' => Wrong(v) /\ v # w
      BY <1>5, <2>1
    <3> SUFFICES ASSUME used.glitches <= 1
                 PROVE  /\ \A h \in Groups : h \notin left => upstream[h].member
                        /\ \A v \in Workers : worker'[v].step = "missing" => worker'[v].group \in left
                        /\ \A u, v \in Workers : Wrong(u)' /\ Wrong(v)' => u = v
                        /\ \A v \in Workers : Wrong(v)' => worker'[v].list = {}
                        /\ used.glitches = 0 \/ (\E v \in Workers : Wrong(v)') => TrueBaseline
                        /\ used.glitches = 0 => \A v \in Workers : ~Wrong(v)'
      BY <1>6, <1>0, <1>1 DEF OneGlitch
    <3>2. QED BY <1>2, <1>4, <3>1 DEF GlitchInv, OneGlitch
  <2>3. QED BY <1>0, <1>6, <2>2 DEF GlitchInv, NoneClosed, Closed
<1>7. CASE worker'[w].list = {} /\ used'.glitches = used.glitches + 1
  <2>1. used.glitches \in Nat BY DEF Shaped, Budgets
  <2>2. OneGlitch'
    <3> SUFFICES ASSUME used.glitches + 1 <= 1
                 PROVE  /\ \A h \in Groups : h \notin left => upstream[h].member
                        /\ \A v \in Workers : worker'[v].step = "missing" => worker'[v].group \in left
                        /\ \A u, v \in Workers : Wrong(u)' /\ Wrong(v)' => u = v
                        /\ \A v \in Workers : Wrong(v)' => worker'[v].list = {}
                        /\ TrueBaseline
      BY <1>7, <1>0, <1>1, <2>1 DEF OneGlitch
    <3>1. used.glitches = 0 BY <2>1
    <3> HIDE DEF Wrong, TrueBaseline
    <3>2. \A v \in Workers : Wrong(v)' => v = w BY <1>5, <3>1 DEF GlitchInv, OneGlitch
    <3>3. QED BY <1>2, <1>4, <1>7, <3>1, <3>2 DEF GlitchInv, OneGlitch
  <2>3. QED BY <1>0, <1>7, <2>1, <2>2 DEF GlitchInv, NoneClosed, Closed
<1>8. QED BY <1>6, <1>7, ListedMind

\* Accepting the one wrong list closes nothing: it was not suspicious because
\* nothing was known, or it confirmed a true list that was empty as well.
LEMMA WrongAccepted ==
  ASSUME Shaped, NEW w \in Workers, TrueBaseline, MinBaseline = 1, Wrong(w),
         worker[w].list = {}, AcceptDiscovery(w)
  PROVE  \A g \in Groups : Closed(g)' => Closed(g)
<1>1. ~(Suspicious({}) /\ Confirmed({}) < Confirmations) BY DEF AcceptDiscovery
<1>2. Remaining # {} BY DEF Wrong
<1>3. ~(Confirmed({}) >= Confirmations)
  <2>1. snapshot.confirmed \in Nat /\ Confirmations >= 2 BY Limits DEF Shaped, Snapshots
  <2>2. QED BY <2>1, <1>2 DEF Confirmed, TrueBaseline
<1>4. Confirmed({}) \in Int BY Limits DEF Confirmed, Shaped, Snapshots
<1>5. ~Suspicious({}) BY <1>1, <1>3, <1>4, Limits
<1>6. IsFiniteSet(Known) /\ Cardinality(Known) \in Nat
  BY FS_Subset, FS_CardinalityType DEF Known
<1>7. Known = {}
  <2>1. Cardinality({}) = 0 BY FS_EmptySet
  <2>2. snapshot.count \in Int BY Limits, FS_CardinalityType DEF Shaped, Snapshots
  <2>3. ~(Baseline >= 1) \/ ~(0 < Baseline) BY <1>5, <2>1 DEF Suspicious
  <2>4. snapshot.count # 0 BY <1>2 DEF TrueBaseline
  <2>5. Cardinality(Known) = 0
    <3>1. snapshot.count < 0 BY <2>2, <2>3, <2>4, <1>6 DEF Baseline
    <3>2. QED BY <2>2, <2>3, <3>1, <1>6 DEF Baseline
  <2>6. QED BY <2>5, <1>6, FS_EmptySet
<1>8. row' = row BY <1>7 DEF AcceptDiscovery, Listed, Known, Shaped
<1>9. QED BY <1>8 DEF Closed

LEMMA GlitchPublish ==
  ASSUME Shaped, GlitchInv, NEW w \in Workers, PublishDiscovery(w)
  PROVE  GlitchInv'
<1> DEFINE list == worker[w].list
<1>0. UNCHANGED <<upstream, left, used>> BY DEF PublishDiscovery, world
<1>1. Remaining' = Remaining BY <1>0 DEF Remaining
<1>2. worker'[w].step = "none" /\ \A v \in Workers \ {w} : worker'[v] = worker[v]
  BY DEF PublishDiscovery, Release, Shaped, Idle
<1>3. \A v \in Workers : Wrong(v)' => Wrong(v) /\ v # w BY <1>1, <1>2 DEF Wrong
<1>4. list \subseteq Groups /\ worker[w].step = "publish" BY DEF Shaped, GoodMinds, Minds, PublishDiscovery
<1>5. SUFFICES ASSUME used.glitches <= 1
               PROVE  /\ used.glitches = 0 \/ (\E v \in Workers : Wrong(v)') => TrueBaseline'
                      /\ MinBaseline = 1 => \A g \in Groups : Closed(g)' => g \in left
  <2>1. used.glitches <= 1 =>
          /\ \A h \in Groups : h \notin left' => upstream'[h].member
          /\ \A v \in Workers : worker'[v].step = "missing" => worker'[v].group \in left'
          /\ \A u, v \in Workers : Wrong(u)' /\ Wrong(v)' => u = v
          /\ \A v \in Workers : Wrong(v)' => worker'[v].list = {}
          /\ used.glitches = 0 => \A v \in Workers : ~Wrong(v)'
    <3> HIDE DEF Wrong
    <3>1. QED BY <1>0, <1>2, <1>3 DEF GlitchInv, OneGlitch
  <2>2. used' = used /\ left' = left BY <1>0
  <2> HIDE DEF Wrong, TrueBaseline, Closed
  <2>3. OneGlitch' BY <1>5, <2>1, <2>2 DEF OneGlitch
  <2>4. NoneClosed' BY <1>5, <2>2 DEF NoneClosed
  <2>5. QED BY <2>3, <2>4 DEF GlitchInv
<1>6. CASE ~Wrong(w)
  <2>1. Remaining \subseteq list BY <1>4, <1>6 DEF Wrong
  <2>2. CASE AcceptDiscovery(w)
    <3>1. snapshot'.confirmed = 0 /\ snapshot'.count = Cardinality(list)
      BY <2>2 DEF AcceptDiscovery
    <3>2. IsFiniteSet(list) BY <1>4, FS_Subset
    <3>3. Cardinality(list) = 0 => list = {} BY <3>2, FS_EmptySet
    <3>4. TrueBaseline' BY <1>1, <2>1, <3>1, <3>3 DEF TrueBaseline
    <3>5. ASSUME NEW g \in Groups, Closed(g)' PROVE g \in left
      <4>1. row' = Listed(list, worker[w].at) BY <2>2 DEF AcceptDiscovery
      <4>2. g \notin list
        <5>1. ASSUME g \in list PROVE row'[g].active
          <6>1. row'[g] = [row[g] EXCEPT !.known = TRUE, !.active = TRUE, !.seen = worker[w].at[g],
                             !.invalidated = @ \/ (row[g].known /\ ~row[g].active)]
            BY <4>1, <5>1 DEF Listed
          <6>2. row[g] \in Rows BY DEF Shaped
          <6>3. QED BY <6>1, <6>2 DEF Rows
        <5>2. QED BY <5>1, <3>5 DEF Closed
      <4>3. QED BY <4>2, <2>1 DEF Remaining
    <3>6. QED BY <3>4, <3>5
  <2>3. CASE DeferDiscovery(w)
    <3>1. snapshot'.list = list /\ snapshot'.count = snapshot.count /\ row' = row
      BY <2>3 DEF DeferDiscovery, Shaped, Snapshots
    <3>2. TrueBaseline => TrueBaseline' BY <1>1, <2>1, <3>1 DEF TrueBaseline
    <3>3. \A g \in Groups : Closed(g)' = Closed(g) BY <3>1 DEF Closed
    <3> HIDE DEF Wrong, TrueBaseline, Closed
    <3>4. QED BY <1>3, <1>5, <3>2, <3>3 DEF GlitchInv, OneGlitch, NoneClosed
  <2>4. QED BY <2>2, <2>3 DEF PublishDiscovery
<1>7. CASE Wrong(w)
  <2> HIDE DEF Wrong, TrueBaseline, Closed
  <2>1. TrueBaseline /\ used.glitches # 0 /\ list = {} /\ \A v \in Workers : ~Wrong(v)'
    BY <1>3, <1>5, <1>7 DEF GlitchInv, OneGlitch
  <2>2. MinBaseline = 1 => \A g \in Groups : Closed(g)' => Closed(g)
    <3>1. CASE AcceptDiscovery(w) BY <3>1, <2>1, <1>7, WrongAccepted
    <3>2. CASE DeferDiscovery(w) BY <3>2 DEF DeferDiscovery, Closed
    <3>3. QED BY <3>1, <3>2 DEF PublishDiscovery
  <2>3. QED BY <1>5, <2>1, <2>2 DEF GlitchInv, NoneClosed
<1>8. QED BY <1>6, <1>7

\* What one worker's step leaves of the others, and what it makes of this one.
LEMMA Rested ==
  ASSUME Shaped, NEW w \in Workers, Release(w)
  PROVE  worker'[w] = Idle /\ \A v \in Workers \ {w} : worker'[v] = worker[v]
BY DEF Release, Shaped

LEMMA ClaimedMind ==
  ASSUME Shaped, NEW w \in Workers, NEW g \in Groups, ClaimStep(w, g)
  PROVE  /\ worker[w] = Idle /\ worker'[w].step = "read" /\ worker'[w].group = g
         /\ worker'[w].job \in {"item", "intent"}
         /\ worker'[w].late = FALSE
         /\ \A v \in Workers \ {w} : worker'[v] = worker[v]
<1>1. worker[w] = Idle BY DEF ClaimStep, ClaimItem, ClaimIntent
<1>2. \E j \in {"item", "intent"} :
        worker' = [worker EXCEPT ![w] = [Idle EXCEPT !.job = j, !.group = g, !.step = "read"]]
  BY <1>1 DEF ClaimStep, ClaimItem, ClaimIntent, Shaped
<1>3. QED BY <1>1, <1>2 DEF Shaped, Idle

LEMMA ReadMind ==
  ASSUME Shaped, NEW w \in Workers, ReadGroup(w)
  PROVE  /\ worker'[w].step = IF upstream[worker[w].group].member THEN "write" ELSE "missing"
         /\ worker'[w].job = worker[w].job /\ worker'[w].group = worker[w].group
         /\ worker'[w].at[worker[w].group] = upstream[worker[w].group].version
         /\ worker'[w].late = worker[w].late /\ worker[w].group \in Groups
         /\ \A v \in Workers \ {w} : worker'[v] = worker[v]
<1> DEFINE g == worker[w].group
           s == IF upstream[g].member THEN "write" ELSE "missing"
           a == [worker[w].at EXCEPT ![g] = upstream[g].version]
           n == [worker[w] EXCEPT !.step = s, !.at = a]
<1>1. worker[w] \in GoodMinds /\ g \in Groups BY DEF Shaped, ReadGroup, GoodMinds
<1>2. worker' = [worker EXCEPT ![w] = n] BY DEF ReadGroup, Shaped
<1>3. a[g] = upstream[g].version BY <1>1 DEF GoodMinds, Minds
<1>4. n.step = s /\ n.at = a /\ n.job = worker[w].job /\ n.group = worker[w].group
      /\ n.late = worker[w].late
  <2> HIDE DEF s, a
  <2>1. QED BY <1>1 DEF GoodMinds, Minds
<1>5. worker'[w] = n /\ \A v \in Workers \ {w} : worker'[v] = worker[v]
  <2> HIDE DEF n
  <2>1. QED BY <1>2 DEF Shaped
<1> HIDE DEF n, a
<1>6. QED BY <1>1, <1>3, <1>4, <1>5

\* A worker goes to another step of its job.
LEMMA SteppedMind ==
  ASSUME Shaped, NEW w \in Workers, NEW s, worker' = [worker EXCEPT ![w].step = s]
  PROVE  /\ worker'[w].step = s /\ worker'[w].job = worker[w].job
         /\ worker'[w].group = worker[w].group /\ worker'[w].late = worker[w].late
         /\ worker'[w].at = worker[w].at
         /\ \A v \in Workers \ {w} : worker'[v] = worker[v]
BY DEF Shaped, GoodMinds, Minds

LEMMA GlitchRest ==
  ASSUME Shaped, GlitchInv, NEW w \in Workers,
         \/ ClaimRun(w) \/ FailRun(w) \/ DeferRun(w)
         \/ ReadStep(w) \/ EndStep(w) \/ (\E g \in Groups : ClaimStep(w, g))
  PROVE  GlitchInv'
<1>1. UNCHANGED <<upstream, left, snapshot>> /\ used'.glitches = used.glitches
  BY DEF ClaimRun, FailRun, DeferRun, ReadStep, EndStep, ClaimStep, ClaimItem, ClaimIntent,
         ReadGroup, WriteDetails, SettleIntent, LoseOwnership, Crash, CompleteItem, SkipItem,
         FailItem, CompleteIntent, SkipMissing, FailIntent, DeferRead, Spend, world,
         Shaped, Budgets
<1>2. ASSUME used.glitches <= 1
      PROVE  /\ \A v \in Workers \ {w} : worker'[v] = worker[v]
             /\ \/ worker'[w].step \notin {"publish", "missing"}
                \/ worker'[w].step = "missing" /\ worker'[w].group \in left
  <2>1. CASE ClaimRun(w) BY <2>1 DEF ClaimRun, Shaped, GoodMinds, Minds
  <2>2. CASE \E g \in Groups : ClaimStep(w, g) BY <2>2, ClaimedMind
  <2>3. CASE ReadGroup(w) BY <1>2, <2>3, ReadMind DEF GlitchInv, OneGlitch
  <2>4. CASE WriteDetails(w) \/ CompleteItem(w)
    BY <2>4, SteppedMind DEF WriteDetails, CompleteItem
  <2>5. CASE Release(w) BY <2>5, Rested DEF Idle
  <2>6. QED BY <2>1, <2>2, <2>3, <2>4, <2>5
          DEF FailRun, DeferRun, ReadStep, EndStep, SettleIntent, LoseOwnership, Crash,
              SkipItem, FailItem, CompleteIntent, SkipMissing, FailIntent, DeferRead
<1>3. ASSUME used.glitches <= 1, NEW g \in Groups, Closed(g)'
      PROVE  Closed(g) \/ g \in left
  <2>1. CASE row' = row BY <1>3, <2>1 DEF Closed
  <2>2. CASE WriteDetails(w)
    <3>1. row'[g] = row[g] \/ row'[g].active BY <2>2 DEF WriteDetails, Shaped
    <3>2. QED BY <1>3, <3>1 DEF Closed
  <2>3. CASE SkipMissing(w)
    <3>1. worker[w].group \in left BY <1>3, <2>3 DEF SkipMissing, GlitchInv, OneGlitch
    <3>2. row'[g] = row[g] \/ g = worker[w].group BY <2>3 DEF SkipMissing, Shaped
    <3>3. QED BY <1>3, <3>1, <3>2 DEF Closed
  <2>4. QED BY <2>1, <2>2, <2>3
          DEF ClaimRun, FailRun, DeferRun, ReadStep, EndStep, ClaimStep, ClaimItem, ClaimIntent,
              ReadGroup, SettleIntent, LoseOwnership, Crash, CompleteItem, SkipItem,
              FailItem, CompleteIntent, FailIntent, DeferRead
<1>4. QED BY <1>1, <1>2, <1>3, GlitchIdle

LEMMA GlitchStep == Shaped /\ GlitchInv /\ [Next]_vars => GlitchInv'
<1> SUFFICES ASSUME Shaped, GlitchInv, [Next]_vars PROVE GlitchInv' OBVIOUS
<1>1. CASE TimeStep
  <2>1. UNCHANGED <<upstream, left, snapshot, row, worker>> /\ used'.glitches = used.glitches
    BY <1>1 DEF TimeStep, ExpireRun, Recover, RequestRun, ExpireItem, ExpireIntent, RecoverRun,
                RecoverItems, RecoverIntents, Spend, world, Shaped, Budgets
  <2>2. QED BY <2>1, GlitchIdle DEF Closed
<1>2. CASE UNCHANGED vars BY <1>2, GlitchIdle DEF vars, Closed
<1>3. ASSUME NEW w \in Workers, RunStep(w) PROVE GlitchInv'
  BY <1>3, GlitchList, GlitchPublish, GlitchRest DEF RunStep
<1>4. QED BY <1>1, <1>2, <1>3, GlitchWorld, GlitchRest, NextGroups

(* With every baseline protected, one list that comes back empty by mistake  *)
(* closes no group the account never left: BadListClosesNothing, whatever    *)
(* the number of groups, of workers and of confirmations asked for.          *)
THEOREM OneBadListClosesNothing == Spec => []BadListClosesNothing
<1>1. Init => Shaped /\ GlitchInv BY ShapedInit, GlitchInit
<1>2. Shaped /\ GlitchInv /\ [Next]_vars => (Shaped /\ GlitchInv)' BY ShapedStep, GlitchStep
<1>3. Shaped /\ GlitchInv => BadListClosesNothing BY NoneClosedIs DEF GlitchInv
<1>4. QED BY <1>1, <1>2, <1>3, PTL DEF Spec

-----------------------------------------------------------------------------
(* The right to read.                                                      *)

OneLease ==
  /\ \A g \in Groups : item[g].lease.live => rate = item[g].lease
  /\ \A g \in Groups : intent[g].lease.live => rate = intent[g].lease
  /\ \A g, h \in Groups : item[g].lease.live /\ item[h].lease.live => g = h
  /\ \A g, h \in Groups : intent[g].lease.live /\ intent[h].lease.live => g = h
  /\ \A g, h \in Groups : ~(item[g].lease.live /\ intent[h].lease.live)

LEMMA OneLeaseInit == Init => OneLease
BY FreshRows DEF Init, OneLease, NewItem, NewIntent

\* Leases may go, and the right to read stays with the one that is left.
LEMMA FewerLeases ==
  ASSUME OneLease,
         \A g \in Groups : item'[g].lease.live =>
            /\ item[g].lease.live /\ item'[g].lease = item[g].lease /\ rate' = rate,
         \A g \in Groups : intent'[g].lease.live =>
            /\ intent[g].lease.live /\ intent'[g].lease = intent[g].lease /\ rate' = rate
  PROVE  OneLease'
BY DEF OneLease

LEMMA OneLeaseClaim ==
  ASSUME Shaped, OneLease, NEW w \in Workers, NEW g \in Groups, ClaimStep(w, g)
  PROVE  OneLease'
<1>1. RateFree BY DEF ClaimStep, ClaimItem, ClaimIntent
<1>2. \A h \in Groups : ~item[h].lease.live /\ ~intent[h].lease.live
  BY <1>1 DEF RateFree, OneLease, Shaped, GoodItems, GoodIntents, Holds
<1>3. rate' = HeldBy(w) BY DEF ClaimStep, ClaimItem, ClaimIntent
<1>4. CASE ClaimItem(w, g)
  <2>1. intent' = intent /\ item'[g].lease = HeldBy(w)
        /\ \A h \in Groups \ {g} : item'[h] = item[h]
    BY <1>4 DEF ClaimItem, Shaped
  <2>2. QED BY <1>2, <1>3, <2>1 DEF OneLease
<1>5. CASE ClaimIntent(w, g)
  <2>1. item' = item /\ \A h \in Groups \ {g} : intent'[h] = intent[h]
    BY <1>5 DEF ClaimIntent, Shaped
  <2>2. intent'[g].lease = HeldBy(w)
    BY <1>5 DEF ClaimIntent, Shaped, GoodIntents, Intents
  <2>3. QED BY <1>2, <1>3, <2>1, <2>2 DEF OneLease
<1>6. QED BY <1>4, <1>5 DEF ClaimStep

\* A worker that ends an item or an intent gives its own lease back.
LEMMA OneLeaseEnd ==
  ASSUME Shaped, OneLease, NEW w \in Workers, EndStep(w)
  PROVE  OneLease'
<1> DEFINE g == worker[w].group
<1>1. Owns(w) /\ worker[w].job \in {"item", "intent"} /\ rate' = Released(w)
  BY DEF EndStep, CompleteItem, SkipItem, FailItem, CompleteIntent, SkipMissing, FailIntent,
         DeferRead
<1>2. HeldBy(w).live BY FreshRows
<1>3. ~Free.live BY FreshRows
<1>4. CASE worker[w].job = "item"
  <2>1. g \in Groups /\ item[g].lease = HeldBy(w) BY <1>1, <1>4, Owned
  <2>2. \E s, k : ItemBecomes(g, s, k)
    BY <1>4 DEF EndStep, CompleteItem, SkipItem, FailItem, CompleteIntent, SkipMissing,
                FailIntent, DeferRead
  <2>3. item'[g].lease = Free /\ \A h \in Groups \ {g} : item'[h] = item[h]
    BY <2>1, <2>2 DEF ItemBecomes, Shaped
  <2>4. intent' = intent
    BY <1>4 DEF EndStep, CompleteItem, SkipItem, FailItem, CompleteIntent, SkipMissing,
                FailIntent, DeferRead
  <2>5. \A h \in Groups : ~item'[h].lease.live /\ ~intent'[h].lease.live
    BY <1>2, <1>3, <2>1, <2>3, <2>4 DEF OneLease
  <2>6. QED BY <2>5 DEF OneLease
<1>5. CASE worker[w].job = "intent"
  <2>1. g \in Groups /\ intent[g].lease = HeldBy(w) BY <1>1, <1>5, Owned
  <2>2. intent[g] \in GoodIntents BY <2>1 DEF Shaped
  <2>3. \A s : Ended(intent[g], s).lease = Free
    BY <2>2 DEF Ended, GoodIntents, Intents, NewIntent
  <2>4. \/ \E s : intent' = [intent EXCEPT ![g] = Ended(intent[g], s)]
        \/ \E k : intent' = [intent EXCEPT ![g] = [intent[g] EXCEPT !.status = "RETRY", !.attempts = k,
                                                    !.newer = FALSE, !.lease = Free]]
    BY <1>5, <2>1 DEF EndStep, CompleteItem, SkipItem, FailItem, CompleteIntent, SkipMissing,
                FailIntent, DeferRead, Shaped
  <2>5. intent'[g].lease = Free /\ \A h \in Groups \ {g} : intent'[h] = intent[h]
    <3>1. PICK n : intent' = [intent EXCEPT ![g] = n] /\ n.lease = Free
      <4>1. \A k : [intent[g] EXCEPT !.status = "RETRY", !.attempts = k, !.newer = FALSE,
                                     !.lease = Free].lease = Free
        BY <2>2 DEF GoodIntents, Intents
      <4>2. QED BY <2>3, <2>4, <4>1
    <3>2. QED BY <2>1, <3>1 DEF Shaped
  <2>6. item' = item
    BY <1>5 DEF EndStep, CompleteItem, SkipItem, FailItem, CompleteIntent, SkipMissing,
                FailIntent, DeferRead
  <2>7. \A h \in Groups : ~item'[h].lease.live /\ ~intent'[h].lease.live
    BY <1>2, <1>3, <2>1, <2>5, <2>6 DEF OneLease
  <2>8. QED BY <2>7 DEF OneLease
<1>6. QED BY <1>1, <1>4, <1>5

LEMMA OneLeaseTime == ASSUME Shaped, OneLease, TimeStep PROVE OneLease'
<1>0. ~Free.live BY FreshRows
<1>1. CASE ExpireRun \/ RecoverRun
  BY <1>1, FewerLeases DEF ExpireRun, RecoverRun
<1>2. CASE RequestRun
  <2>1. intent' = intent /\ rate' = rate /\ \A g \in Groups : item'[g].lease = Free
    BY <1>2 DEF RequestRun, NewItem
  <2>2. QED BY <1>0, <2>1, FewerLeases
<1>3. ASSUME NEW g \in Groups, ExpireItem(g) PROVE OneLease'
  <2>1. \A h \in Groups \ {g} : item'[h] = item[h] BY <1>3 DEF ExpireItem, Shaped
  <2>2. ~item'[g].lease.live
    BY <1>3 DEF ExpireItem, Shaped, GoodItems, Items, Leases
  <2>3. item[g].lease.live /\ intent' = intent BY <1>3 DEF ExpireItem
  <2>4. \A h \in Groups : ~item'[h].lease.live /\ ~intent'[h].lease.live
    BY <2>1, <2>2, <2>3 DEF OneLease
  <2>5. QED BY <2>4 DEF OneLease
<1>4. ASSUME NEW g \in Groups, ExpireIntent(g) PROVE OneLease'
  <2>1. \A h \in Groups \ {g} : intent'[h] = intent[h] BY <1>4 DEF ExpireIntent, Shaped
  <2>2. ~intent'[g].lease.live
    BY <1>4 DEF ExpireIntent, Shaped, GoodIntents, Intents, Leases
  <2>3. intent[g].lease.live /\ item' = item BY <1>4 DEF ExpireIntent
  <2>4. \A h \in Groups : ~item'[h].lease.live /\ ~intent'[h].lease.live
    BY <2>1, <2>2, <2>3 DEF OneLease
  <2>5. QED BY <2>4 DEF OneLease
<1>5. CASE RecoverItems
  <2>1. \A g \in Groups : item'[g].lease = item[g].lease \/ item'[g].lease = Free
    <3>1. ASSUME NEW g \in Groups PROVE item'[g].lease = item[g].lease \/ item'[g].lease = Free
      <4>1. item[g] \in GoodItems BY DEF Shaped
      <4>2. item'[g] = item[g] \/ \E s : item'[g] = [item[g] EXCEPT !.lease = Free, !.status = s]
        BY <1>5 DEF RecoverItems
      <4>3. QED BY <4>1, <4>2 DEF GoodItems, Items
    <3>2. QED BY <3>1
  <2>2. intent' = intent /\ rate' = RateRecovered BY <1>5 DEF RecoverItems
  <2>3. ASSUME NEW g \in Groups, item'[g].lease.live \/ intent'[g].lease.live
        PROVE  rate.live
    BY <1>0, <2>1, <2>2, <2>3 DEF OneLease
  <2>4. QED BY <1>0, <2>1, <2>2, <2>3, FewerLeases DEF RateRecovered
<1>6. CASE RecoverIntents
  <2>1. \A g \in Groups : intent'[g].lease = intent[g].lease \/ intent'[g].lease = Free
    <3>1. ASSUME NEW g \in Groups
          PROVE  intent'[g].lease = intent[g].lease \/ intent'[g].lease = Free
      <4>1. intent[g] \in GoodIntents BY DEF Shaped
      <4>2. intent'[g] = intent[g] \/ \E s : intent'[g] = Ended(intent[g], s)
        BY <1>6 DEF RecoverIntents
      <4>3. \A s : Ended(intent[g], s).lease = Free
        BY <4>1 DEF Ended, GoodIntents, Intents, NewIntent
      <4>4. QED BY <4>2, <4>3
    <3>2. QED BY <3>1
  <2>2. item' = item /\ rate' = RateRecovered BY <1>6 DEF RecoverIntents
  <2>3. ASSUME NEW g \in Groups, item'[g].lease.live \/ intent'[g].lease.live
        PROVE  rate.live
    BY <1>0, <2>1, <2>2, <2>3 DEF OneLease
  <2>4. QED BY <1>0, <2>1, <2>2, <2>3, FewerLeases DEF RateRecovered
<1>7. QED BY <1>1, <1>2, <1>3, <1>4, <1>5, <1>6 DEF TimeStep, Recover

LEMMA OneLeaseStep == Shaped /\ OneLease /\ [Next]_vars => OneLease'
<1> SUFFICES ASSUME Shaped, OneLease, [Next]_vars PROVE OneLease' OBVIOUS
<1>1. CASE UNCHANGED vars BY <1>1, FewerLeases DEF vars
<1>2. ASSUME NEW g \in Groups, GroupStep(g) PROVE OneLease'
  <2>1. item' = item /\ rate' = rate BY <1>2 DEF GroupStep, Change, GroupEvent, RequestRefresh
  <2>2. ASSUME NEW h \in Groups PROVE intent'[h].lease = intent[h].lease
    <3>1. intent[h] \in GoodIntents BY DEF Shaped
    <3>2. Scheduled(intent[h]).lease = intent[h].lease
      BY <3>1 DEF Scheduled, GoodIntents, Intents
    <3>3. intent'[h] = intent[h] \/ intent'[h] = Scheduled(intent[h])
      BY <1>2 DEF GroupStep, Change, GroupEvent, RequestRefresh, Shaped
    <3>4. QED BY <3>2, <3>3
  <2>3. QED BY <2>1, <2>2, FewerLeases
<1>3. ASSUME NEW w \in Workers, RunStep(w) PROVE OneLease'
  <2>1. intent' = intent /\ rate' = rate
    BY <1>3 DEF RunStep, ClaimRun, ListGroups, PublishDiscovery, FailRun, DeferRun
  <2>2. ASSUME NEW g \in Groups PROVE item'[g].lease = item[g].lease \/ item'[g].lease = Free
    <3>1. CASE item' = item BY <3>1
    <3>2. CASE AcceptDiscovery(w)
      <4>1. item'[g] = item[g] \/ item'[g] = [NewItem EXCEPT !.status = "PENDING"]
        BY <3>2 DEF AcceptDiscovery
      <4>2. QED BY <4>1 DEF NewItem
    <3>3. QED BY <1>3, <3>1, <3>2
            DEF RunStep, ClaimRun, ListGroups, PublishDiscovery, DeferDiscovery, FailRun, DeferRun
  <2>3. QED BY <2>1, <2>2, FewerLeases, FreshRows
<1>4. ASSUME NEW w \in Workers, ReadStep(w) PROVE OneLease'
  <2>1. item' = item /\ rate' = rate
    BY <1>4 DEF ReadStep, ReadGroup, WriteDetails, SettleIntent, LoseOwnership, Crash
  <2>2. ASSUME NEW g \in Groups PROVE intent'[g].lease = intent[g].lease
    BY <1>4 DEF ReadStep, ReadGroup, WriteDetails, SettleIntent, LoseOwnership, Crash, Shaped,
                GoodIntents, Intents
  <2>3. QED BY <2>1, <2>2, FewerLeases
<1>5. QED BY <1>1, <1>2, <1>3, <1>4, OneLeaseClaim, OneLeaseEnd, OneLeaseTime, NextGroups

-----------------------------------------------------------------------------
(* What a step may do to a worker, to an intent and to a row.              *)

MindKept(w) == /\ worker'[w].job = worker[w].job /\ worker'[w].group = worker[w].group
               /\ worker'[w].step = worker[w].step /\ worker'[w].at = worker[w].at
               /\ worker[w].late => worker'[w].late

MindStep(w) == \/ MindKept(w) \/ worker'[w] = Idle \/ worker'[w].step = "read"
               \/ ListGroups(w) \/ ReadGroup(w) \/ WriteDetails(w) \/ CompleteItem(w)

LEMMA MindSteps ==
  ASSUME Shaped, [Next]_vars, NEW w \in Workers
  PROVE  MindStep(w)
<1>0. worker[w] \in GoodMinds BY DEF Shaped
<1>1. CASE worker' = worker BY <1>1 DEF MindStep, MindKept
<1>2. ASSUME NEW g \in Groups, GroupStep(g) PROVE MindStep(w)
  <2>1. CASE Late(g)
    <3>1. worker'[w] = worker[w] \/ worker'[w] = [worker[w] EXCEPT !.late = TRUE]
      BY <2>1 DEF Late
    <3>2. QED BY <1>0, <3>1 DEF MindStep, MindKept, GoodMinds, Minds
  <2>2. QED BY <1>1, <1>2, <2>1 DEF GroupStep, Change, GroupEvent, RequestRefresh
<1>3. ASSUME NEW v \in Workers, RunStep(v) \/ ReadStep(v) \/ EndStep(v)
      PROVE  MindStep(w)
  <2>1. CASE Release(v) BY <2>1, Rested DEF MindStep, MindKept
  <2>2. CASE ClaimRun(v)
    <3>1. worker'[v].step = "read" BY <2>2 DEF ClaimRun, Shaped, GoodMinds, Minds
    <3>2. v # w => worker'[w] = worker[w] BY <2>2 DEF ClaimRun, Shaped
    <3>3. QED BY <3>1, <3>2 DEF MindStep, MindKept
  <2>3. CASE ListGroups(v) BY <2>3, ListedMind DEF MindStep, MindKept
  <2>4. CASE ReadGroup(v) BY <2>4, ReadMind DEF MindStep, MindKept
  <2>5. CASE WriteDetails(v)
    <3>1. v # w => worker'[w] = worker[w] BY <2>5, SteppedMind DEF WriteDetails
    <3>2. QED BY <2>5, <3>1 DEF MindStep, MindKept
  <2>6. CASE CompleteItem(v)
    <3>1. v # w => worker'[w] = worker[w] BY <2>6, SteppedMind DEF CompleteItem
    <3>2. QED BY <2>6, <3>1 DEF MindStep, MindKept
  <2>7. QED BY <1>3, <2>1, <2>2, <2>3, <2>4, <2>5, <2>6
          DEF RunStep, PublishDiscovery, FailRun, DeferRun, ReadStep, EndStep, SettleIntent,
              LoseOwnership, Crash, SkipItem, FailItem, CompleteIntent, SkipMissing,
              FailIntent, DeferRead
<1>4. ASSUME NEW v \in Workers, NEW g \in Groups, ClaimStep(v, g) PROVE MindStep(w)
  BY <1>4, ClaimedMind DEF MindStep, MindKept
<1>5. CASE TimeStep
  BY <1>1, <1>5 DEF TimeStep, ExpireRun, Recover, RequestRun, ExpireItem, ExpireIntent,
                    RecoverRun, RecoverItems, RecoverIntents
<1>6. QED BY <1>1, <1>2, <1>3, <1>4, <1>5, NextGroups DEF vars

Answers(w, g) == (CompleteIntent(w) \/ SkipMissing(w)) /\ worker[w].group = g

IntentStep(g) ==
  \/ intent'[g].status = intent[g].status /\ intent'[g].newer = intent[g].newer
  \/ intent'[g] = Scheduled(intent[g])
  \/ /\ intent[g].status = "RUNNING"
     /\ \E s \in {"RETRY", "FAILED"} : intent'[g] = Ended(intent[g], s)
  \/ /\ intent[g].status = "RUNNING" /\ intent'[g] = Ended(intent[g], "COMPLETED")
     /\ \E w \in Workers : Answers(w, g)
  \/ intent'[g].status = "RETRY"
  \/ \E w \in Workers : SettleIntent(w) /\ worker[w].group = g /\ ~worker[w].late
  \/ \E w \in Workers : ClaimIntent(w, g)

LEMMA IntentSteps ==
  ASSUME Shaped, [Next]_vars, NEW g \in Groups
  PROVE  IntentStep(g)
<1>0. intent[g] \in GoodIntents /\ intent[g] \in Intents BY DEF Shaped, GoodIntents
<1>1. CASE intent'[g] = intent[g] BY <1>1 DEF IntentStep
<1>2. ASSUME NEW h \in Groups, GroupStep(h) PROVE IntentStep(g)
  <2>1. intent'[g] = intent[g] \/ intent'[g] = Scheduled(intent[g])
    BY <1>2 DEF GroupStep, Change, GroupEvent, RequestRefresh, Shaped
  <2>2. QED BY <1>1, <2>1 DEF IntentStep
<1>3. ASSUME NEW w \in Workers, RunStep(w) PROVE IntentStep(g)
  BY <1>1, <1>3 DEF RunStep, ClaimRun, ListGroups, PublishDiscovery, FailRun, DeferRun
<1>4. ASSUME NEW w \in Workers, ReadStep(w) PROVE IntentStep(g)
  <2>1. CASE SettleIntent(w)
    <3>1. CASE worker[w].group = g /\ ~worker[w].late BY <2>1, <3>1 DEF IntentStep
    <3>2. CASE worker[w].group # g \/ worker[w].late
      <4>1. intent'[g] = intent[g] BY <2>1, <3>2 DEF SettleIntent, Shaped
      <4>2. QED BY <1>1, <4>1
    <3>3. QED BY <3>1, <3>2
  <2>2. QED BY <1>1, <1>4, <2>1 DEF ReadStep, ReadGroup, WriteDetails, LoseOwnership, Crash
<1>5. ASSUME NEW w \in Workers, EndStep(w) PROVE IntentStep(g)
  <2>1. CASE worker[w].group # g \/ intent' = intent
    <3>1. intent'[g] = intent[g]
      BY <1>5, <2>1 DEF EndStep, CompleteItem, SkipItem, FailItem, CompleteIntent,
                        SkipMissing, FailIntent, DeferRead, Shaped
    <3>2. QED BY <1>1, <3>1
  <2>2. CASE worker[w].group = g /\ intent' # intent
    <3>1. worker[w].job = "intent" /\ Owns(w)
      BY <1>5, <2>2 DEF EndStep, CompleteItem, SkipItem, FailItem, CompleteIntent,
                        SkipMissing, FailIntent, DeferRead
    <3>2. intent[g].status = "RUNNING" BY <2>2, <3>1, Owned
    <3>3. CASE CompleteIntent(w) \/ SkipMissing(w)
      <4>1. intent'[g] = Ended(intent[g], "COMPLETED")
        BY <2>2, <3>3 DEF CompleteIntent, SkipMissing, Shaped
      <4>2. QED BY <2>2, <3>2, <3>3, <4>1 DEF IntentStep, Answers
    <3>4. CASE FailIntent(w)
      <4>1. PICK s \in {"RETRY", "FAILED"} : intent'[g] = Ended(intent[g], s)
        BY <2>2, <3>4 DEF FailIntent, Retries, Shaped
      <4>2. QED BY <3>2, <4>1 DEF IntentStep
    <3>5. CASE DeferRead(w)
      <4>1. intent'[g].status = "RETRY"
        BY <2>2, <3>1, <3>5, <1>0 DEF DeferRead, Shaped, Intents
      <4>2. QED BY <4>1 DEF IntentStep
    <3>6. QED BY <1>5, <2>2, <3>3, <3>4, <3>5 DEF EndStep, CompleteItem, SkipItem, FailItem
  <2>3. QED BY <2>1, <2>2
<1>6. ASSUME NEW w \in Workers, NEW h \in Groups, ClaimStep(w, h) PROVE IntentStep(g)
  <2>1. CASE ClaimIntent(w, h) /\ h = g BY <2>1 DEF IntentStep
  <2>2. CASE ~(ClaimIntent(w, h) /\ h = g)
    <3>1. intent'[g] = intent[g] BY <1>6, <2>2 DEF ClaimStep, ClaimItem, ClaimIntent, Shaped
    <3>2. QED BY <1>1, <3>1
  <2>3. QED BY <2>1, <2>2
<1>7. CASE TimeStep
  <2>1. ASSUME NEW h \in Groups, ExpireIntent(h) PROVE IntentStep(g)
    <3>1. intent'[g].status = intent[g].status /\ intent'[g].newer = intent[g].newer
      BY <2>1, <1>0 DEF ExpireIntent, Shaped, Intents
    <3>2. QED BY <3>1 DEF IntentStep
  <2>2. CASE RecoverIntents
    <3>1. \/ intent'[g] = intent[g]
          \/ /\ intent[g].status = "RUNNING"
             /\ \E s \in {"RETRY", "FAILED"} : intent'[g] = Ended(intent[g], s)
      BY <2>2 DEF RecoverIntents, Expired
    <3>2. QED BY <1>1, <3>1 DEF IntentStep
  <2>3. QED BY <1>1, <1>7, <2>1, <2>2 DEF TimeStep, ExpireRun, Recover, RequestRun, ExpireItem,
                                          RecoverRun, RecoverItems
<1>8. CASE UNCHANGED vars BY <1>1, <1>8 DEF vars
<1>9. QED BY <1>2, <1>3, <1>4, <1>5, <1>6, <1>7, <1>8, NextGroups

RowStep(g) ==
  \/ /\ row'[g].seen = row[g].seen /\ row'[g].details = row[g].details
     /\ row'[g].known = row[g].known /\ (Trusted(g)' => Trusted(g))
  \/ \E w \in Workers :
       /\ WriteDetails(w) /\ worker[w].group = g /\ row'[g].known
       /\ row'[g].seen = worker[w].at[g] /\ row'[g].details = worker[w].at[g]
  \/ \E w \in Workers :
       /\ PublishDiscovery(w) /\ row'[g].known /\ row'[g].details = row[g].details
       /\ row'[g].seen = worker[w].at[g] /\ (Trusted(g)' /\ row[g].known => Trusted(g))
  \/ \E w \in Workers :
       /\ SkipMissing(w) /\ worker[w].group = g /\ ~intent[g].newer /\ ~row'[g].active
       /\ row'[g].known = row[g].known /\ row'[g].details = row[g].details
       /\ row'[g].seen = worker[w].at[g]

LEMMA RowSteps ==
  ASSUME Shaped, [Next]_vars, NEW g \in Groups
  PROVE  RowStep(g)
<1>0. row[g] \in Rows BY DEF Shaped
<1>1. CASE row'[g] = row[g] BY <1>1 DEF RowStep, Trusted
<1>2. ASSUME NEW h \in Groups, GroupStep(h) PROVE RowStep(g)
  <2>1. \/ row'[g] = row[g]
        \/ row'[g] = [row[g] EXCEPT !.invalidated = row[g].invalidated \/ row[g].active]
        \/ row'[g] = [row[g] EXCEPT !.invalidated = TRUE]
    BY <1>2 DEF GroupStep, Change, GroupEvent, RequestRefresh, Shaped
  <2>2. QED BY <1>0, <1>1, <2>1 DEF RowStep, Trusted, Rows
<1>3. ASSUME NEW w \in Workers, RunStep(w) PROVE RowStep(g)
  <2>1. CASE PublishDiscovery(w) /\ AcceptDiscovery(w)
    <3> DEFINE list == worker[w].list
               at == worker[w].at
    <3>1. row' = Listed(list, at) BY <2>1 DEF AcceptDiscovery
    <3>2. at[g] \in Versions BY DEF Shaped, GoodMinds, Minds
    <3>3. CASE g \in list
      <4>1. row'[g] = [row[g] EXCEPT !.known = TRUE, !.active = TRUE, !.seen = at[g],
                         !.invalidated = @ \/ (row[g].known /\ ~row[g].active)]
        BY <3>1, <3>3 DEF Listed
      <4> HIDE DEF at
      <4>2. /\ row'[g].known /\ row'[g].seen = at[g] /\ row'[g].details = row[g].details
            /\ Trusted(g)' /\ row[g].known => Trusted(g)
        BY <4>1, <1>0 DEF Rows, Trusted
      <4> USE DEF at
      <4>3. QED BY <2>1, <4>2 DEF RowStep
    <3>4. CASE g \notin list /\ row[g].known
      <4>1. row'[g] = [row[g] EXCEPT !.active = FALSE, !.invalidated = FALSE, !.seen = at[g]]
        BY <3>1, <3>4 DEF Listed
      <4> HIDE DEF at
      <4>2. /\ row'[g].known /\ row'[g].seen = at[g] /\ row'[g].details = row[g].details
            /\ ~Trusted(g)'
        BY <4>1, <3>4, <1>0 DEF Rows, Trusted
      <4> USE DEF at
      <4>3. QED BY <2>1, <4>2 DEF RowStep
    <3>5. CASE g \notin list /\ ~row[g].known
      <4>1. row'[g] = row[g] BY <3>1, <3>5 DEF Listed
      <4>2. QED BY <4>1, <1>1
    <3>6. QED BY <3>3, <3>4, <3>5
  <2>2. QED BY <1>1, <1>3, <2>1 DEF RunStep, ClaimRun, ListGroups, PublishDiscovery,
                                    DeferDiscovery, FailRun, DeferRun
<1>4. ASSUME NEW w \in Workers, ReadStep(w) PROVE RowStep(g)
  <2>1. CASE WriteDetails(w) /\ worker[w].group = g
    <3> DEFINE v == worker[w].at[g]
    <3>1. row'[g] = [known |-> TRUE, active |-> TRUE, invalidated |-> FALSE,
                     seen |-> v, details |-> v]
      BY <2>1 DEF WriteDetails, Shaped
    <3>2. row'[g].known /\ row'[g].seen = v /\ row'[g].details = v
      <4> HIDE DEF v
      <4>1. QED BY <3>1
    <3>3. QED BY <2>1, <3>2 DEF RowStep
  <2>2. CASE ~(WriteDetails(w) /\ worker[w].group = g)
    <3>1. row'[g] = row[g]
      BY <1>4, <2>2 DEF ReadStep, ReadGroup, WriteDetails, SettleIntent, LoseOwnership, Crash, Shaped
    <3>2. QED BY <1>1, <3>1
  <2>3. QED BY <2>1, <2>2
<1>5. ASSUME NEW w \in Workers, EndStep(w) PROVE RowStep(g)
  <2>1. CASE SkipMissing(w) /\ worker[w].group = g /\ row' # row
    <3> DEFINE v == worker[w].at[g]
    <3>1. Ended(intent[g], "COMPLETED").status = "COMPLETED"
          /\ row'[g] = [row[g] EXCEPT !.active = FALSE, !.invalidated = FALSE, !.seen = v]
      BY <2>1 DEF SkipMissing, Shaped
    <3>2. ~intent[g].newer BY <3>1 DEF Ended, NewIntent
    <3>3. /\ row'[g].known = row[g].known /\ row'[g].seen = v
          /\ row'[g].details = row[g].details /\ ~row'[g].active
      <4> HIDE DEF v
      <4>1. QED BY <3>1, <1>0 DEF Rows
    <3>4. QED BY <2>1, <3>2, <3>3 DEF RowStep
  <2>2. CASE ~(SkipMissing(w) /\ worker[w].group = g /\ row' # row)
    <3>1. row'[g] = row[g]
      BY <1>5, <2>2 DEF EndStep, CompleteItem, SkipItem, FailItem, CompleteIntent,
                        SkipMissing, FailIntent, DeferRead, Shaped
    <3>2. QED BY <1>1, <3>1
  <2>3. QED BY <2>1, <2>2
<1>6. ASSUME NEW w \in Workers, NEW h \in Groups, ClaimStep(w, h) PROVE RowStep(g)
  BY <1>1, <1>6 DEF ClaimStep, ClaimItem, ClaimIntent
<1>7. CASE TimeStep
  BY <1>1, <1>7 DEF TimeStep, ExpireRun, Recover, RequestRun, ExpireItem, ExpireIntent,
                    RecoverRun, RecoverItems, RecoverIntents
<1>8. CASE UNCHANGED vars BY <1>1, <1>8 DEF vars
<1>9. QED BY <1>2, <1>3, <1>4, <1>5, <1>6, <1>7, <1>8, NextGroups

\* Only the event of a group raises what is announced of it.
LEMMA AnnouncedSteps ==
  ASSUME Shaped, [Next]_vars, NEW g \in Groups
  PROVE  /\ announced'[g] = announced[g] \/ GroupEvent(g)
         /\ upstream'[g].version >= upstream[g].version
         /\ GroupEvent(g) => upstream' = upstream /\ announced'[g] <= upstream[g].version
<1>0. upstream[g].version \in Nat /\ announced[g] \in Nat
  BY Limits DEF Shaped, Upstreams, Versions
<1>1. ASSUME NEW h \in Groups, GroupStep(h)
      PROVE  /\ announced'[g] = announced[g] \/ GroupEvent(g)
             /\ upstream'[g].version >= upstream[g].version
  <2>1. CASE Change(h)
    <3>1. announced' = announced BY <2>1 DEF Change
    <3>2. upstream'[g].version = upstream[g].version \/ upstream'[g].version = upstream[g].version + 1
      BY <2>1 DEF Change, Shaped
    <3>3. QED BY <1>0, <3>1, <3>2
  <2>2. CASE GroupEvent(h)
    <3>1. upstream' = upstream /\ (g # h => announced'[g] = announced[g])
      BY <2>2 DEF GroupEvent, Shaped
    <3>2. QED BY <1>0, <2>2, <3>1
  <2>3. CASE RequestRefresh(h) BY <1>0, <2>3 DEF RequestRefresh, world
  <2>4. QED BY <1>1, <2>1, <2>2, <2>3 DEF GroupStep
<1>2. GroupEvent(g) => upstream' = upstream /\ announced'[g] <= upstream[g].version
  BY <1>0 DEF GroupEvent, Shaped
<1>3. ASSUME world' = world
      PROVE  announced'[g] = announced[g] /\ upstream'[g].version >= upstream[g].version
  BY <1>0, <1>3 DEF world
<1>4. (\E h \in Groups : GroupStep(h)) \/ world' = world
  <2>1. ASSUME NEW w \in Workers, RunStep(w) \/ ReadStep(w) \/ EndStep(w) PROVE world' = world
    BY <2>1 DEF RunStep, ReadStep, EndStep, ClaimRun, ListGroups, PublishDiscovery, FailRun,
                DeferRun, ReadGroup, WriteDetails, SettleIntent, LoseOwnership, Crash,
                CompleteItem, SkipItem, FailItem, CompleteIntent, SkipMissing, FailIntent,
                DeferRead
  <2>2. ASSUME NEW w \in Workers, NEW h \in Groups, ClaimStep(w, h) PROVE world' = world
    BY <2>2 DEF ClaimStep, ClaimItem, ClaimIntent
  <2>3. ASSUME TimeStep PROVE world' = world
    BY <2>3 DEF TimeStep, ExpireRun, Recover, RequestRun, ExpireItem, ExpireIntent,
                RecoverRun, RecoverItems, RecoverIntents
  <2>4. UNCHANGED vars => world' = world BY DEF vars, world
  <2>5. QED BY <2>1, <2>2, <2>3, <2>4, NextGroups
<1>5. QED BY <1>1, <1>2, <1>3, <1>4

\* A worker has the right to read since its claim.
LEMMA RateKept ==
  ASSUME Shaped, [Next]_vars, NEW w \in Workers, rate' = HeldBy(w), worker'[w].step # "read"
  PROVE  rate = HeldBy(w)
<1>1. HeldBy(w).live /\ ~Free.live /\ \A v \in Workers : HeldBy(v) = HeldBy(w) => v = w
  BY FreshRows
<1>2. CASE rate' = rate BY <1>2
<1>3. ASSUME NEW v \in Workers, EndStep(v) PROVE rate = HeldBy(w)
  <2>1. rate' = Released(v)
    BY <1>3 DEF EndStep, CompleteItem, SkipItem, FailItem, CompleteIntent, SkipMissing,
                FailIntent, DeferRead
  <2>2. QED BY <1>1, <2>1 DEF Released
<1>4. ASSUME NEW v \in Workers, NEW g \in Groups, ClaimStep(v, g) PROVE rate = HeldBy(w)
  <2>1. rate' = HeldBy(v) BY <1>4 DEF ClaimStep, ClaimItem, ClaimIntent
  <2>2. QED BY <1>1, <1>4, <2>1, ClaimedMind
<1>5. CASE TimeStep
  <2>1. ASSUME NEW l, RateOutlives(l) PROVE rate' = rate
    <3>1. [rate EXCEPT !.live = FALSE].live = FALSE BY DEF Shaped, Leases
    <3>2. QED BY <1>1, <2>1, <3>1 DEF RateOutlives
  <2>2. rate' = RateRecovered => rate' = rate BY <1>1 DEF RateRecovered
  <2>3. rate' = rate
    BY <1>5, <2>1, <2>2 DEF TimeStep, ExpireRun, Recover, RequestRun, ExpireItem, ExpireIntent,
                            RecoverRun, RecoverItems, RecoverIntents
  <2>4. QED BY <2>3
<1>6. CASE UNCHANGED vars BY <1>2, <1>6 DEF vars
<1>7. ASSUME NEW v \in Workers, RunStep(v) \/ ReadStep(v) PROVE rate = HeldBy(w)
  BY <1>2, <1>7 DEF RunStep, ReadStep, ClaimRun, ListGroups, PublishDiscovery, FailRun,
                    DeferRun, ReadGroup, WriteDetails, SettleIntent, LoseOwnership, Crash
<1>8. ASSUME NEW g \in Groups, GroupStep(g) PROVE rate = HeldBy(w)
  BY <1>2, <1>8 DEF GroupStep, Change, GroupEvent, RequestRefresh
<1>9. QED BY <1>3, <1>4, <1>5, <1>6, <1>7, <1>8, NextGroups

-----------------------------------------------------------------------------
(* Details never go back.                                                  *)

ReadsAhead ==
  /\ \A g \in Groups : row[g].details <= upstream[g].version
  /\ \A w \in Workers : worker[w].step = "write" /\ rate = HeldBy(w) =>
                          row[worker[w].group].details <= worker[w].at[worker[w].group]
  /\ \A w \in Workers : worker[w].step = "write" =>
       worker[w].at[worker[w].group] <= upstream[worker[w].group].version

LEMMA ReadsAheadInit == Init => ReadsAhead
<1> SUFFICES ASSUME Init PROVE ReadsAhead OBVIOUS
<1>1. ASSUME NEW g \in Groups PROVE row[g].details <= upstream[g].version
  <2>1. row[g].details = 0 BY DEF Init, NewRow
  <2>2. upstream[g].version = 1 BY DEF Init
  <2>3. QED BY <2>1, <2>2
<1>2. \A w \in Workers : worker[w].step # "write" BY DEF Init, Idle
<1>3. QED BY <1>1, <1>2 DEF ReadsAhead

\* The only write of details is not older than what is stored.
LEMMA DetailsGrow ==
  ASSUME Shaped, ReadsAhead, [Next]_vars, NEW g \in Groups
  PROVE  row'[g].details >= row[g].details
<1>0. row[g].details \in Nat BY Limits DEF Shaped, Rows, Versions
<1>1. RowStep(g) BY RowSteps
<1>2. ASSUME NEW w \in Workers, WriteDetails(w), worker[w].group = g,
             row'[g].details = worker[w].at[g]
      PROVE  row'[g].details >= row[g].details
  <2>1. worker[w].step = "write" /\ rate = HeldBy(w) BY <1>2 DEF WriteDetails, MayWrite
  <2>2. worker[w].at[g] \in Nat BY Limits DEF Shaped, GoodMinds, Minds, Versions
  <2>3. QED BY <1>0, <1>2, <2>1, <2>2 DEF ReadsAhead
<1>3. row'[g].details = row[g].details => row'[g].details >= row[g].details BY <1>0
<1>4. QED BY <1>1, <1>2, <1>3 DEF RowStep

LEMMA ReadsAheadStep ==
  ASSUME Shaped, ReadsAhead, [Next]_vars
  PROVE  ReadsAhead'
<1>0. /\ \A g \in Groups : row[g].details \in Nat /\ upstream[g].version \in Nat
      /\ \A g \in Groups : row'[g].details \in Nat /\ upstream'[g].version \in Nat
      /\ \A w \in Workers, g \in Groups : worker[w].at[g] \in Nat
  <2>1. Shaped' BY ShapedStep
  <2>2. QED BY <2>1, Limits DEF Shaped, Rows, Upstreams, Versions, GoodMinds, Minds
<1>1. ASSUME NEW g \in Groups PROVE row'[g].details <= upstream'[g].version
  <2>1. RowStep(g) BY RowSteps
  <2>2. upstream'[g].version >= upstream[g].version BY AnnouncedSteps
  <2>3. ASSUME NEW w \in Workers, WriteDetails(w), worker[w].group = g,
               row'[g].details = worker[w].at[g]
        PROVE  row'[g].details <= upstream[g].version
    BY <2>3 DEF ReadsAhead, WriteDetails
  <2>4. row'[g].details <= upstream[g].version BY <2>1, <2>3 DEF RowStep, ReadsAhead
  <2>5. QED BY <1>0, <2>2, <2>4
<1>2. ASSUME NEW w \in Workers, worker'[w].step = "write"
      PROVE  /\ rate' = HeldBy(w) =>
                  row'[worker'[w].group].details <= worker'[w].at[worker'[w].group]
             /\ worker'[w].at[worker'[w].group] <= upstream'[worker'[w].group].version
  <2> DEFINE g == worker[w].group
  <2>1. MindStep(w) BY MindSteps
  <2>2. CASE ReadGroup(w)
    <3>1. worker'[w].at[g] = upstream[g].version /\ worker'[w].group = g /\ g \in Groups
      BY <2>2, ReadMind
    <3>2. row' = row /\ upstream' = upstream BY <2>2 DEF ReadGroup, world
    <3>3. QED BY <1>0, <3>1, <3>2 DEF ReadsAhead
  <2>3. CASE MindKept(w)
    <3>1. worker[w].step = "write" /\ worker'[w].group = g /\ worker'[w].at = worker[w].at
      BY <1>2, <2>3 DEF MindKept
    <3>2. g \in Groups BY <3>1 DEF Shaped, GoodMinds
    <3>3. upstream'[g].version >= upstream[g].version BY <3>2, AnnouncedSteps
    <3>4. worker[w].at[g] <= upstream[g].version BY <3>1 DEF ReadsAhead
    <3>5. ASSUME rate' = HeldBy(w) PROVE row'[g].details <= worker[w].at[g]
      <4>1. rate = HeldBy(w) BY <1>2, <3>5, RateKept
      <4>2. row[g].details <= worker[w].at[g] BY <3>1, <4>1 DEF ReadsAhead
      <4>3. RowStep(g) BY <3>2, RowSteps
      <4>4. ASSUME NEW v \in Workers, WriteDetails(v) PROVE FALSE
        <5>1. rate = HeldBy(v) BY <4>4 DEF WriteDetails, MayWrite
        <5>2. v = w BY <4>1, <5>1, FreshRows
        <5>3. worker'[w].step = "complete" BY <4>4, <5>2, SteppedMind DEF WriteDetails
        <5>4. QED BY <1>2, <5>3
      <4>5. QED BY <4>2, <4>3, <4>4 DEF RowStep
    <3>6. worker[w].at[g] <= upstream'[g].version
      <4>1. worker[w].at[g] \in Nat /\ upstream[g].version \in Nat /\ upstream'[g].version \in Nat
        BY <1>0, <3>2
      <4>2. QED BY <3>3, <3>4, <4>1
    <3>7. worker'[w].group = g /\ worker'[w].at = worker[w].at BY <3>1
    <3> HIDE DEF g
    <3>8. QED BY <3>5, <3>6, <3>7
  <2>4. CASE ListGroups(w) BY <1>2, <2>4, ListedMind
  <2>5. ~WriteDetails(w)
    <3>1. WriteDetails(w) => worker'[w].step = "complete" BY SteppedMind DEF WriteDetails
    <3>2. QED BY <1>2, <3>1
  <2>6. ~CompleteItem(w)
    <3>1. CompleteItem(w) => worker'[w].step = "settle" BY SteppedMind DEF CompleteItem
    <3>2. QED BY <1>2, <3>1
  <2>7. worker'[w] # Idle BY <1>2 DEF Idle
  <2>8. QED BY <1>2, <2>1, <2>2, <2>3, <2>4, <2>5, <2>6, <2>7 DEF MindStep
<1>3. QED BY <1>1, <1>2 DEF ReadsAhead

(* The details of a group never go back to an older reading: a worker that   *)
(* was overtaken while it read does not overwrite what was read after it.    *)
(* This is DetailsNeverRegress.                                              *)
THEOREM DetailsOnlyAdvance == Spec => DetailsNeverRegress
<1>1. Init => Shaped /\ ReadsAhead BY ShapedInit, ReadsAheadInit
<1>2. Shaped /\ ReadsAhead /\ [Next]_vars => (Shaped /\ ReadsAhead)'
  BY ShapedStep, ReadsAheadStep
<1>3. Shaped /\ ReadsAhead /\ [Next]_vars =>
        [\A g \in Groups : row'[g].details >= row[g].details]_vars
  BY DetailsGrow
<1>4. QED BY <1>1, <1>2, <1>3, PTL DEF Spec, DetailsNeverRegress

-----------------------------------------------------------------------------
(* A completed intent covers the last event.                               *)

\* The last event of g is not answered yet, and no reader will answer it
\* with what it has read already.
Owed(g) == \/ intent[g].status \in Waiting
           \/ intent[g].status = "RUNNING" /\ intent[g].newer

Behind(g) == Owed(g) /\ \A w \in Workers : worker[w].group = g => worker[w].late

Current(g) == row[g].seen >= announced[g] /\ row[g].details >= announced[g]

\* A worker that is about to write what it read without the last event.
ReadCovers(w) ==
  LET g == worker[w].group IN
  worker[w].step \in {"write", "missing"} /\ rate = HeldBy(w) /\ worker[w].at[g] < announced[g]
    => Behind(g)

\* A worker that wrote it.
WriteCovers(w) ==
  worker[w].step = "complete" /\ rate = HeldBy(w) /\ ~Current(worker[w].group)
    => Behind(worker[w].group)

\* A worker that may still settle the intent with the item it completed.
SettleCovers(w) ==
  worker[w].step = "settle" /\ ~worker[w].late => Current(worker[w].group)

\* A worker that is about to publish a list without the last event of a group.
ListCovers(w) ==
  worker[w].step = "publish" /\ Owns(w) =>
    \A h \in Groups : worker[w].at[h] < announced[h] => Behind(h)

Covers(w) == ReadCovers(w) /\ WriteCovers(w) /\ SettleCovers(w) /\ ListCovers(w)

Honest(g) == /\ announced[g] <= upstream[g].version
             /\ row[g].details > 0 => row[g].known

Covered == (\A w \in Workers : Covers(w)) /\ (\A g \in Groups : Honest(g)) /\ CompletedCovers

CoverInv == Shaped /\ OneLease /\ Covered

LEMMA CoveredInit == Init => Covered
<1> SUFFICES ASSUME Init PROVE Covered OBVIOUS
<1>1. \A w \in Workers : worker[w].step = "none" BY DEF Init, Idle
<1>2. ASSUME NEW g \in Groups PROVE Honest(g) /\ intent[g].status # "COMPLETED"
  <2>1. announced[g] = 0 /\ upstream[g].version = 1 /\ row[g].details = 0 BY DEF Init, NewRow
  <2>2. intent[g].status = "NONE" BY DEF Init, NewIntent
  <2>3. QED BY <2>1, <2>2 DEF Honest
<1>3. \A w \in Workers : Covers(w)
  BY <1>1 DEF Covers, ReadCovers, WriteCovers, SettleCovers, ListCovers
<1>4. QED BY <1>2, <1>3 DEF Covered, CompletedCovers

LEMMA Numbers ==
  ASSUME Shaped
  PROVE  /\ \A g \in Groups : /\ announced[g] \in Nat /\ upstream[g].version \in Nat
                              /\ row[g].seen \in Nat /\ row[g].details \in Nat
         /\ \A w \in Workers, g \in Groups : worker[w].at[g] \in Nat
BY Limits DEF Shaped, Rows, Upstreams, Versions, GoodMinds, Minds

\* An event leaves its group behind.
LEMMA EventOwes ==
  ASSUME Shaped, NEW g \in Groups, GroupEvent(g)
  PROVE  Behind(g)'
<1>1. intent[g] \in Intents BY DEF Shaped, GoodIntents
<1>2. intent'[g] = Scheduled(intent[g]) BY DEF GroupEvent, Shaped
<1>3. Owed(g)'
  <2>1. CASE intent[g].status = "RUNNING"
    <3>1. intent'[g].status = "RUNNING" /\ intent'[g].newer
      BY <1>1, <1>2, <2>1 DEF Scheduled, Intents
    <3>2. QED BY <3>1 DEF Owed
  <2>2. CASE intent[g].status # "RUNNING"
    <3>1. intent'[g].status = "PENDING" BY <1>1, <1>2, <2>2 DEF Scheduled, Intents
    <3>2. QED BY <3>1 DEF Owed, Waiting
  <2>3. QED BY <2>1, <2>2
<1>4. ASSUME NEW w \in Workers, worker'[w].group = g PROVE worker'[w].late
  <2>1. worker[w] \in Minds BY DEF Shaped, GoodMinds
  <2>2. worker'[w] = IF worker[w].group = g THEN [worker[w] EXCEPT !.late = TRUE] ELSE worker[w]
    BY DEF GroupEvent, Late
  <2>3. QED BY <1>4, <2>1, <2>2 DEF Minds
<1>5. QED BY <1>3, <1>4 DEF Behind

\* Only a claim of the group ends that.
LEMMA BehindKept ==
  ASSUME Shaped, [Next]_vars, NEW g \in Groups, Behind(g),
         \A w \in Workers : ~ClaimStep(w, g)
  PROVE  Behind(g)'
<1>0. intent[g] \in Intents BY DEF Shaped, GoodIntents
<1>1. ASSUME NEW w \in Workers, worker'[w].group = g PROVE worker'[w].late
  <2>1. NoGroup # g OBVIOUS
  <2>2. worker[w].group = g => worker[w].late BY DEF Behind
  <2>3. CASE MindKept(w) BY <1>1, <2>2, <2>3 DEF MindKept
  <2>4. CASE ~MindKept(w)
    <3>1. CASE UNCHANGED vars BY <2>4, <3>1 DEF vars, MindKept
    <3>2. ASSUME NEW h \in Groups, GroupStep(h) PROVE MindKept(w)
      <4>1. worker[w] \in Minds BY DEF Shaped, GoodMinds
      <4>2. worker'[w] = worker[w] \/ worker'[w] = [worker[w] EXCEPT !.late = TRUE]
        BY <3>2 DEF GroupStep, Change, GroupEvent, RequestRefresh, Late
      <4>3. QED BY <4>1, <4>2 DEF MindKept, Minds
    <3>3. ASSUME NEW v \in Workers, NEW h \in Groups, ClaimStep(v, h) PROVE worker'[w].late
      <4>1. v = w BY <2>4, <3>3, ClaimedMind DEF MindKept
      <4>2. h = g BY <1>1, <3>3, <4>1, ClaimedMind
      <4>3. QED BY <3>3, <4>1, <4>2
    <3>4. CASE TimeStep
      BY <2>4, <3>4 DEF TimeStep, ExpireRun, Recover, RequestRun, ExpireItem, ExpireIntent,
                        RecoverRun, RecoverItems, RecoverIntents, MindKept
    <3>5. ASSUME NEW v \in Workers, RunStep(v) \/ ReadStep(v) \/ EndStep(v)
          PROVE  worker'[w].late
      <4>1. CASE Release(v)
        <5>1. v = w BY <2>4, <4>1, Rested DEF MindKept
        <5>2. QED BY <1>1, <2>1, <4>1, <5>1, Rested DEF Idle
      <4>2. CASE ClaimRun(v)
        <5>1. v = w BY <2>4, <4>2 DEF MindKept, ClaimRun, Shaped
        <5>2. worker'[w].group = NoGroup BY <4>2, <5>1 DEF ClaimRun, Shaped, Idle
        <5>3. QED BY <1>1, <2>1, <5>2
      <4>3. CASE ListGroups(v)
        <5>1. v = w BY <2>4, <4>3, ListedMind DEF MindKept
        <5>2. worker[w].job = "run" /\ worker'[w].group = worker[w].group
          BY <4>3, <5>1, ListedMind DEF ListGroups
        <5>3. worker[w].group \notin Groups BY <5>2 DEF Shaped, GoodMinds
        <5>4. QED BY <1>1, <5>2, <5>3
      <4>4. CASE ReadGroup(v)
        <5>1. v = w BY <2>4, <4>4, ReadMind DEF MindKept
        <5>2. QED BY <1>1, <2>2, <4>4, <5>1, ReadMind
      <4>5. CASE WriteDetails(v) \/ CompleteItem(v)
        <5>1. \E s : worker' = [worker EXCEPT ![v].step = s]
          BY <4>5 DEF WriteDetails, CompleteItem
        <5>2. v = w BY <2>4, <5>1, SteppedMind DEF MindKept
        <5>3. QED BY <1>1, <2>2, <5>1, <5>2, SteppedMind
      <4>6. QED BY <3>5, <4>1, <4>2, <4>3, <4>4, <4>5
              DEF RunStep, PublishDiscovery, FailRun, DeferRun, ReadStep, EndStep, SettleIntent,
                  LoseOwnership, Crash, SkipItem, FailItem, CompleteIntent, SkipMissing,
                  FailIntent, DeferRead
    <3>6. QED BY <2>4, <3>1, <3>2, <3>3, <3>4, <3>5, NextGroups
  <2>5. QED BY <2>3, <2>4
<1>2. Owed(g)'
  <2>0. Owed(g) BY DEF Behind
  <2>1. CASE intent'[g].status = intent[g].status /\ intent'[g].newer = intent[g].newer
    BY <2>0, <2>1 DEF Owed
  <2>2. CASE intent'[g] = Scheduled(intent[g])
    <3>1. CASE intent[g].status = "RUNNING"
      <4>1. intent'[g].status = "RUNNING" /\ intent'[g].newer
        BY <1>0, <2>2, <3>1 DEF Scheduled, Intents
      <4>2. QED BY <4>1 DEF Owed
    <3>2. CASE intent[g].status # "RUNNING"
      <4>1. intent'[g].status = "PENDING" BY <1>0, <2>2, <3>2 DEF Scheduled, Intents
      <4>2. QED BY <4>1 DEF Owed, Waiting
    <3>3. QED BY <3>1, <3>2
  <2>3. ASSUME NEW s, intent[g].status = "RUNNING", intent'[g] = Ended(intent[g], s)
        PROVE  Owed(g)'
    <3>1. intent[g].newer BY <2>0, <2>3 DEF Owed, Waiting
    <3>2. intent'[g].status = "PENDING" BY <2>3, <3>1 DEF Ended, NewIntent
    <3>3. QED BY <3>2 DEF Owed, Waiting
  <2>4. CASE intent'[g].status = "RETRY" BY <2>4 DEF Owed, Waiting
  <2>5. ASSUME NEW w \in Workers, SettleIntent(w), worker[w].group = g, ~worker[w].late
        PROVE  FALSE
    BY <2>5 DEF Behind
  <2>6. ASSUME NEW w \in Workers, ClaimIntent(w, g) PROVE FALSE BY <2>6 DEF ClaimStep
  <2>7. IntentStep(g) BY IntentSteps
  <2>8. QED BY <2>1, <2>2, <2>3, <2>4, <2>5, <2>6, <2>7 DEF IntentStep
<1>3. QED BY <1>1, <1>2 DEF Behind

\* While somebody has the right to read, or owns the discovery, nobody claims.
LEMMA NoClaim ==
  ASSUME Shaped, NEW w \in Workers,
         rate = HeldBy(w) \/ (worker[w].job = "run" /\ Owns(w))
  PROVE  \A v \in Workers, g \in Groups : ~ClaimStep(v, g)
<1>1. CASE rate = HeldBy(w)
  <2>1. ~RateFree BY <1>1, FreshRows DEF RateFree
  <2>2. QED BY <2>1 DEF ClaimStep, ClaimItem, ClaimIntent
<1>2. CASE worker[w].job = "run" /\ Owns(w)
  <2>1. run.lease = HeldBy(w) /\ run.status = "RUNNING" BY <1>2, Owned
  <2>2. run.phase = "DISCOVERING" /\ \A g \in Groups : item[g].status = "NONE"
    BY <2>1, FreshRows DEF Shaped, Undiscovered
  <2>3. QED BY <2>1, <2>2 DEF ClaimStep, ClaimItem, ClaimIntent, Discovering, Waiting
<1>3. QED BY <1>1, <1>2

\* So what is behind while somebody is reading stays behind.
LEMMA StillBehind ==
  ASSUME Shaped, [Next]_vars, NEW g \in Groups, NEW w \in Workers,
         rate = HeldBy(w) \/ (worker[w].job = "run" /\ Owns(w)),
         Behind(g) \/ GroupEvent(g)
  PROVE  Behind(g)'
BY EventOwes, BehindKept, NoClaim

\* The holder of a live lease of an item or an intent has the right to read.
LEMMA OwnerReads ==
  ASSUME Shaped, OneLease, NEW w \in Workers, Owns(w), worker[w].job \in {"item", "intent"}
  PROVE  rate = HeldBy(w)
BY Owned, FreshRows DEF OneLease

\* Who changes a row that was current writes something current, unless the
\* group is behind.
LEMMA RowCurrent ==
  ASSUME CoverInv, [Next]_vars, NEW g \in Groups, announced'[g] = announced[g], ~Behind(g),
         Current(g)
  PROVE  Current(g)'
<1>0. /\ announced[g] \in Nat /\ row[g].seen \in Nat /\ row[g].details \in Nat
      /\ \A w \in Workers : worker[w].at[g] \in Nat
  BY Numbers DEF CoverInv
<1>1. CASE row'[g].seen = row[g].seen /\ row'[g].details = row[g].details
  BY <1>1 DEF Current
<1>2. ASSUME NEW w \in Workers, worker[w].at[g] >= announced[g], row'[g].seen = worker[w].at[g],
             row'[g].details = worker[w].at[g] \/ row'[g].details = row[g].details
      PROVE  Current(g)'
  BY <1>2 DEF Current
<1>3. ASSUME NEW w \in Workers, WriteDetails(w), worker[w].group = g
      PROVE  worker[w].at[g] >= announced[g]
  <2>1. ReadCovers(w) /\ worker[w].step = "write" /\ rate = HeldBy(w)
    BY <1>3 DEF CoverInv, Covered, Covers, WriteDetails, MayWrite
  <2>2. ~(worker[w].at[g] < announced[g]) BY <1>3, <2>1 DEF ReadCovers
  <2>3. worker[w].at[g] \in Nat BY <1>0
  <2>4. QED BY <1>0, <2>2, <2>3
<1>4. ASSUME NEW w \in Workers, PublishDiscovery(w)
      PROVE  worker[w].at[g] >= announced[g]
  <2>1. ListCovers(w) /\ worker[w].step = "publish" /\ Owns(w)
    BY <1>4 DEF CoverInv, Covered, Covers, PublishDiscovery
  <2>2. ~(worker[w].at[g] < announced[g]) BY <2>1 DEF ListCovers
  <2>3. worker[w].at[g] \in Nat BY <1>0
  <2>4. QED BY <1>0, <2>2, <2>3
<1>5. ASSUME NEW w \in Workers, SkipMissing(w), worker[w].group = g
      PROVE  worker[w].at[g] >= announced[g]
  <2>1. ReadCovers(w) /\ worker[w].step = "missing" /\ rate = HeldBy(w)
    BY <1>5, OwnerReads DEF CoverInv, Covered, Covers, SkipMissing
  <2>2. ~(worker[w].at[g] < announced[g]) BY <1>5, <2>1 DEF ReadCovers
  <2>3. worker[w].at[g] \in Nat BY <1>0
  <2>4. QED BY <1>0, <2>2, <2>3
<1>6. RowStep(g) BY RowSteps DEF CoverInv
<1>7. QED BY <1>1, <1>2, <1>3, <1>4, <1>5, <1>6 DEF RowStep

\* A worker that has written and still has the right to read is the only
\* one to change its row, but for a list.
LEMMA HonestStep ==
  ASSUME CoverInv, [Next]_vars, NEW g \in Groups
  PROVE  Honest(g)'
<1>1. Honest(g) /\ RowStep(g) BY RowSteps DEF CoverInv, Covered
<1>2. announced'[g] <= upstream'[g].version
  <2>1. /\ announced'[g] = announced[g] \/ GroupEvent(g)
        /\ upstream'[g].version >= upstream[g].version
        /\ GroupEvent(g) => upstream' = upstream /\ announced'[g] <= upstream[g].version
    BY AnnouncedSteps DEF CoverInv
  <2>2. announced[g] \in Nat /\ upstream[g].version \in Nat /\ upstream'[g].version \in Nat
    BY Numbers, ShapedStep DEF CoverInv, Shaped, Upstreams, Versions
  <2>3. QED BY <1>1, <2>1, <2>2 DEF Honest
<1>3. row'[g].details > 0 => row'[g].known BY <1>1 DEF RowStep, Honest
<1>4. QED BY <1>2, <1>3 DEF Honest

LEMMA ReadCoversStep ==
  ASSUME CoverInv, [Next]_vars, NEW w \in Workers
  PROVE  ReadCovers(w)'
<1> SUFFICES ASSUME NEW g, worker'[w].group = g, worker'[w].step \in {"write", "missing"}, rate' = HeldBy(w),
                    worker'[w].at[g] < announced'[g]
             PROVE  Behind(g)'
  BY DEF ReadCovers, Behind, Owed
<1>1. rate = HeldBy(w) BY RateKept DEF CoverInv
<1>2. Shaped /\ MindStep(w) BY MindSteps DEF CoverInv
<1>3. CASE ReadGroup(w)
  <2>1. g = worker[w].group /\ g \in Groups /\ worker'[w].at[g] = upstream[g].version
    BY <1>2, <1>3, ReadMind
  <2>2. announced' = announced BY <1>3 DEF ReadGroup, world
  <2>3. announced[g] <= upstream[g].version BY <2>1 DEF CoverInv, Covered, Honest
  <2>4. announced[g] \in Nat /\ upstream[g].version \in Nat BY <1>2, <2>1, Numbers
  <2>5. QED BY <2>1, <2>2, <2>3, <2>4
<1>4. CASE MindKept(w)
  <2>1. g = worker[w].group /\ worker[w].step \in {"write", "missing"}
        /\ worker'[w].at = worker[w].at
    BY <1>4 DEF MindKept
  <2>2. g \in Groups BY <1>2, <2>1 DEF Shaped, GoodMinds
  <2>3. announced'[g] = announced[g] \/ GroupEvent(g) BY <1>2, <2>2, AnnouncedSteps
  <2>4. announced'[g] = announced[g] => Behind(g)
    BY <1>1, <2>1 DEF CoverInv, Covered, Covers, ReadCovers
  <2>5. Behind(g) \/ GroupEvent(g) BY <2>3, <2>4
  <2>6. QED BY <1>1, <1>2, <2>2, <2>5, StillBehind
<1>5. ~ListGroups(w) BY <1>2, ListedMind
<1>6. ~WriteDetails(w)
  <2>1. WriteDetails(w) => worker'[w].step = "complete" BY <1>2, SteppedMind DEF WriteDetails
  <2>2. QED BY <2>1
<1>7. ~CompleteItem(w)
  <2>1. CompleteItem(w) => worker'[w].step = "settle" BY <1>2, SteppedMind DEF CompleteItem
  <2>2. QED BY <2>1
<1>8. worker'[w] # Idle BY DEF Idle
<1>9. QED BY <1>2, <1>3, <1>4, <1>5, <1>6, <1>7, <1>8 DEF MindStep

LEMMA WriteCoversStep ==
  ASSUME CoverInv, [Next]_vars, NEW w \in Workers
  PROVE  WriteCovers(w)'
<1> SUFFICES ASSUME NEW g, worker'[w].group = g, worker'[w].step = "complete", rate' = HeldBy(w), ~Current(g)'
             PROVE  Behind(g)'
  BY DEF WriteCovers, Current, Behind, Owed
<1>1. rate = HeldBy(w) BY RateKept DEF CoverInv
<1>2. Shaped /\ MindStep(w) BY MindSteps DEF CoverInv
<1>3. CASE WriteDetails(w)
  <2>1. g = worker[w].group /\ worker[w].step = "write"
    BY <1>2, <1>3, SteppedMind DEF WriteDetails
  <2>2. g \in Groups BY <1>2, <2>1 DEF Shaped, GoodMinds
  <2> DEFINE v == worker[w].at[g]
  <2>3. row'[g].seen = v /\ row'[g].details = v /\ announced' = announced
    <3>1. row'[g] = [known |-> TRUE, active |-> TRUE, invalidated |-> FALSE,
                     seen |-> v, details |-> v] /\ announced' = announced
      BY <1>2, <1>3, <2>1, <2>2 DEF WriteDetails, Shaped, world
    <3> HIDE DEF v
    <3>2. QED BY <3>1
  <2>4. v \in Nat /\ announced[g] \in Nat BY <1>2, <2>2, Numbers
  <2>5. v < announced[g] BY <2>3, <2>4 DEF Current
  <2>6. Behind(g) BY <1>1, <2>1, <2>5 DEF CoverInv, Covered, Covers, ReadCovers
  <2>7. QED BY <1>1, <1>2, <2>2, <2>6, StillBehind
<1>4. CASE MindKept(w)
  <2>1. g = worker[w].group /\ worker[w].step = "complete" BY <1>4 DEF MindKept
  <2>2. g \in Groups BY <1>2, <2>1 DEF Shaped, GoodMinds
  <2>3. announced'[g] = announced[g] \/ GroupEvent(g) BY <1>2, <2>2, AnnouncedSteps
  <2>4. ~Current(g) => Behind(g)
    BY <1>1, <2>1 DEF CoverInv, Covered, Covers, WriteCovers
  <2>5. announced'[g] = announced[g] => Behind(g) BY <2>2, <2>4, RowCurrent
  <2>6. QED BY <1>1, <1>2, <2>2, <2>3, <2>5, StillBehind
<1>5. ~ListGroups(w) BY <1>2, ListedMind
<1>6. ~ReadGroup(w)
  <2>1. ReadGroup(w) => worker'[w].step \in {"write", "missing"} BY <1>2, ReadMind
  <2>2. QED BY <2>1
<1>7. ~CompleteItem(w)
  <2>1. CompleteItem(w) => worker'[w].step = "settle" BY <1>2, SteppedMind DEF CompleteItem
  <2>2. QED BY <2>1
<1>8. worker'[w] # Idle BY DEF Idle
<1>9. QED BY <1>2, <1>3, <1>4, <1>5, <1>6, <1>7, <1>8 DEF MindStep

LEMMA SettleCoversStep ==
  ASSUME CoverInv, [Next]_vars, NEW w \in Workers
  PROVE  SettleCovers(w)'
<1> SUFFICES ASSUME NEW g, worker'[w].group = g, worker'[w].step = "settle", ~worker'[w].late
             PROVE  Current(g)'
  BY DEF SettleCovers, Current
<1>2. Shaped /\ MindStep(w) BY MindSteps DEF CoverInv
<1>3. ASSUME g = worker[w].group, g \in Groups, ~worker[w].late, Current(g),
             announced'[g] = announced[g]
      PROVE  Current(g)'
  <2>1. ~Behind(g) BY <1>3 DEF Behind
  <2>2. QED BY <1>3, <2>1, RowCurrent
<1>4. CASE CompleteItem(w)
  <2>1. g = worker[w].group /\ ~worker[w].late /\ worker[w].step = "complete"
        /\ worker[w].job = "item" /\ Owns(w)
    BY <1>2, <1>4, SteppedMind DEF CompleteItem
  <2>2. g \in Groups /\ announced' = announced
    BY <1>2, <1>4, <2>1 DEF Shaped, GoodMinds, CompleteItem, world
  <2>3. rate = HeldBy(w) BY <2>1, OwnerReads DEF CoverInv
  <2>4. Current(g)
    <3>1. ~Behind(g) BY <2>1 DEF Behind
    <3>2. QED BY <2>1, <2>3, <3>1 DEF CoverInv, Covered, Covers, WriteCovers
  <2>5. QED BY <1>3, <2>1, <2>2, <2>4
<1>5. CASE MindKept(w)
  <2>1. g = worker[w].group /\ worker[w].step = "settle" /\ ~worker[w].late
    BY <1>5 DEF MindKept
  <2>2. g \in Groups BY <1>2, <2>1 DEF Shaped, GoodMinds
  <2>3. Current(g) BY <2>1 DEF CoverInv, Covered, Covers, SettleCovers
  <2>4. announced'[g] = announced[g]
    <3>1. announced'[g] = announced[g] \/ GroupEvent(g) BY <1>2, <2>2, AnnouncedSteps
    <3>2. ~GroupEvent(g)
      <4>1. GroupEvent(g) => Behind(g)' BY <1>2, <2>2, EventOwes
      <4>2. QED BY <4>1 DEF Behind
    <3>3. QED BY <3>1, <3>2
  <2>5. QED BY <1>3, <2>1, <2>2, <2>3, <2>4
<1>6. ~ListGroups(w) BY <1>2, ListedMind
<1>7. ~ReadGroup(w)
  <2>1. ReadGroup(w) => worker'[w].step \in {"write", "missing"} BY <1>2, ReadMind
  <2>2. QED BY <2>1
<1>8. ~WriteDetails(w)
  <2>1. WriteDetails(w) => worker'[w].step = "complete" BY <1>2, SteppedMind DEF WriteDetails
  <2>2. QED BY <2>1
<1>9. worker'[w] # Idle BY DEF Idle
<1>10. QED BY <1>2, <1>4, <1>5, <1>6, <1>7, <1>8, <1>9 DEF MindStep

\* A discovery is owned by the claim that began it.
LEMMA OwnedSinceClaim ==
  ASSUME Shaped, [Next]_vars, NEW w \in Workers, worker[w].job = "run", worker'[w].job = "run",
         worker'[w].step # "read", Owns(w)'
  PROVE  Owns(w)
<1>1. run'.lease = HeldBy(w) BY DEF Owns, Lease
<1>2. HeldBy(w) # Free /\ HeldBy(w).live /\ \A v \in Workers : HeldBy(v) = HeldBy(w) => v = w
  BY FreshRows
<1>3. CASE run'.lease = run.lease BY <1>1, <1>3 DEF Owns, Lease
<1>4. CASE run'.lease # run.lease
  <2>0. run \in GoodRuns /\ run \in Runs BY DEF Shaped, GoodRuns
  <2>1. \A items : Refreshed(items).lease = run.lease BY <2>0 DEF Refreshed, Runs
  <2>2. Attempted(run).lease = Free /\ Deferred(run).lease = Free BY <2>0, RunsMade
  <2>3. ASSUME NEW v \in Workers, RunStep(v) PROVE FALSE
    <3>1. CASE ClaimRun(v)
      <4>1. run'.lease = HeldBy(v) BY <2>0, <3>1 DEF ClaimRun, Runs
      <4>2. v = w BY <1>1, <1>2, <4>1
      <4>3. worker'[w].step = "read" BY <3>1, <4>2 DEF ClaimRun, Shaped, GoodMinds, Minds
      <4>4. QED BY <4>3
    <3>2. CASE PublishDiscovery(v)
      <4>1. DeferDiscovery(v) => run'.lease = Free BY <2>2 DEF DeferDiscovery
      <4>2. AcceptDiscovery(v) => run'.lease = Free BY <2>0 DEF AcceptDiscovery, Runs
      <4>3. QED BY <1>1, <1>2, <3>2, <4>1, <4>2 DEF PublishDiscovery
    <3>3. QED BY <1>1, <1>2, <1>4, <2>2, <2>3, <3>1, <3>2 DEF RunStep, ListGroups, FailRun, DeferRun
  <2>4. ASSUME NEW v \in Workers, ReadStep(v) \/ EndStep(v) PROVE FALSE
    <3>1. run' = run \/ \E items : run' = Refreshed(items)
      BY <2>4 DEF ReadStep, EndStep, ReadGroup, WriteDetails, SettleIntent, LoseOwnership, Crash,
                  CompleteItem, SkipItem, FailItem, CompleteIntent, SkipMissing, FailIntent,
                  DeferRead, ItemBecomes
    <3>2. QED BY <1>4, <2>1, <3>1
  <2>5. ASSUME NEW v \in Workers, NEW h \in Groups, ClaimStep(v, h) PROVE FALSE
    BY <1>4, <2>5 DEF ClaimStep, ClaimItem, ClaimIntent
  <2>6. ASSUME NEW h \in Groups, GroupStep(h) PROVE FALSE
    BY <1>4, <2>6 DEF GroupStep, Change, GroupEvent, RequestRefresh
  <2>7. ASSUME TimeStep PROVE FALSE
    <3>1. CASE ExpireRun
      <4>1. run'.lease.live = FALSE BY <2>0, <3>1 DEF ExpireRun, Runs, Leases
      <4>2. QED BY <1>1, <1>2, <4>1
    <3>2. CASE RequestRun
      <4>1. run'.lease = Free BY <3>2 DEF RequestRun, NewRun
      <4>2. QED BY <1>1, <1>2, <4>1
    <3>3. CASE RecoverRun BY <1>1, <1>2, <2>2, <3>3 DEF RecoverRun
    <3>4. CASE RecoverItems BY <1>4, <2>1, <3>4 DEF RecoverItems
    <3>5. QED BY <1>4, <2>7, <3>1, <3>2, <3>3, <3>4
            DEF TimeStep, Recover, RecoverIntents, ExpireItem, ExpireIntent
  <2>8. QED BY <1>4, <2>3, <2>4, <2>5, <2>6, <2>7, NextGroups DEF vars
<1>5. QED BY <1>3, <1>4

LEMMA ListCoversStep ==
  ASSUME CoverInv, [Next]_vars, NEW w \in Workers
  PROVE  ListCovers(w)'
<1> SUFFICES ASSUME worker'[w].step = "publish", Owns(w)', NEW h \in Groups,
                    worker'[w].at[h] < announced'[h]
             PROVE  Behind(h)'
  BY DEF ListCovers
<1>2. Shaped /\ MindStep(w) BY MindSteps DEF CoverInv
<1>3. CASE ListGroups(w)
  <2>1. worker'[w].at[h] = upstream[h].version BY <1>2, <1>3, ListedMind
  <2>2. announced' = announced BY <1>3 DEF ListGroups, world
  <2>3. announced[h] <= upstream[h].version BY DEF CoverInv, Covered, Honest
  <2>4. announced[h] \in Nat /\ upstream[h].version \in Nat BY <1>2, Numbers
  <2>5. QED BY <2>1, <2>2, <2>3, <2>4
<1>4. CASE MindKept(w)
  <2>1. worker[w].step = "publish" /\ worker'[w].job = worker[w].job
        /\ worker'[w].at = worker[w].at
    BY <1>4 DEF MindKept
  <2>2. worker[w].job = "run" BY <1>2, <2>1 DEF Shaped, GoodMinds
  <2>3. Owns(w) BY <1>2, <2>1, <2>2, OwnedSinceClaim
  <2>4. announced'[h] = announced[h] \/ GroupEvent(h) BY <1>2, AnnouncedSteps
  <2>5. announced'[h] = announced[h] => Behind(h)
    BY <2>1, <2>3 DEF CoverInv, Covered, Covers, ListCovers
  <2>6. QED BY <1>2, <2>2, <2>3, <2>4, <2>5, StillBehind
<1>5. ~ReadGroup(w)
  <2>1. ReadGroup(w) => worker'[w].step \in {"write", "missing"} BY <1>2, ReadMind
  <2>2. QED BY <2>1
<1>6. ~WriteDetails(w)
  <2>1. WriteDetails(w) => worker'[w].step = "complete" BY <1>2, SteppedMind DEF WriteDetails
  <2>2. QED BY <2>1
<1>7. ~CompleteItem(w)
  <2>1. CompleteItem(w) => worker'[w].step = "settle" BY <1>2, SteppedMind DEF CompleteItem
  <2>2. QED BY <2>1
<1>8. worker'[w] # Idle BY DEF Idle
<1>9. QED BY <1>2, <1>3, <1>4, <1>5, <1>6, <1>7, <1>8 DEF MindStep

\* The intent of a group that is behind is not completed.
LEMMA CompletedStep ==
  ASSUME CoverInv, [Next]_vars, NEW g \in Groups, intent'[g].status = "COMPLETED", row'[g].known
  PROVE  /\ row'[g].seen >= announced'[g]
         /\ Trusted(g)' => row'[g].details >= announced'[g]
<1>0. Shaped /\ Shaped' BY ShapedStep DEF CoverInv
<1>1. intent[g] \in Intents BY <1>0 DEF Shaped, GoodIntents
<1>2. /\ announced[g] \in Nat /\ row[g].seen \in Nat /\ row[g].details \in Nat
      /\ \A w \in Workers : worker[w].at[g] \in Nat
  BY <1>0, Numbers
<1>3. announced'[g] = announced[g]
  <2>1. GroupEvent(g) => Behind(g)' BY <1>0, EventOwes
  <2>2. ~Behind(g)' BY DEF Behind, Owed, Waiting
  <2>3. QED BY <1>0, <2>1, <2>2, AnnouncedSteps
\* The intent was completed before, or is now by somebody whose reading covers the event.
<1>4. CASE intent[g].status = "COMPLETED"
  <2>1. ~Owed(g) BY <1>4 DEF Owed, Waiting
  <2>2. RowStep(g) BY <1>0, RowSteps
  <2>3. /\ row[g].known => row[g].seen >= announced[g]
        /\ row[g].known /\ Trusted(g) => row[g].details >= announced[g]
        /\ row[g].details > 0 => row[g].known
    BY <1>4 DEF CoverInv, Covered, CompletedCovers, Honest
  <2>4. CASE /\ row'[g].seen = row[g].seen /\ row'[g].details = row[g].details
             /\ row'[g].known = row[g].known /\ (Trusted(g)' => Trusted(g))
    BY <1>3, <2>3, <2>4
  <2>5. ASSUME NEW w \in Workers, WriteDetails(w), worker[w].group = g,
               row'[g].seen = worker[w].at[g], row'[g].details = worker[w].at[g]
        PROVE  row'[g].seen >= announced[g] /\ row'[g].details >= announced[g]
    <3>1. ReadCovers(w) /\ worker[w].step = "write" /\ rate = HeldBy(w)
      BY <2>5 DEF CoverInv, Covered, Covers, WriteDetails, MayWrite
    <3>2. ~(worker[w].at[g] < announced[g]) BY <2>1, <2>5, <3>1 DEF ReadCovers, Behind
    <3>3. worker[w].at[g] \in Nat BY <1>2
    <3>4. QED BY <1>2, <2>5, <3>2, <3>3
  <2>6. ASSUME NEW w \in Workers, PublishDiscovery(w), row'[g].details = row[g].details,
               row'[g].seen = worker[w].at[g], Trusted(g)' /\ row[g].known => Trusted(g)
        PROVE  /\ row'[g].seen >= announced[g]
               /\ Trusted(g)' => row'[g].details >= announced[g]
    <3>1. ListCovers(w) /\ worker[w].step = "publish" /\ Owns(w)
      BY <2>6 DEF CoverInv, Covered, Covers, PublishDiscovery
    <3>2. ~(worker[w].at[g] < announced[g]) BY <2>1, <3>1 DEF ListCovers, Behind
    <3>3. worker[w].at[g] \in Nat BY <1>2
    <3>4. row'[g].seen >= announced[g] BY <1>2, <2>6, <3>2, <3>3
    <3>5. ASSUME Trusted(g)' PROVE row'[g].details >= announced[g]
      <4>1. row'[g].details > 0 BY <3>5 DEF Trusted
      <4>2. row[g].known BY <2>3, <2>6, <4>1
      <4>3. QED BY <2>3, <2>6, <3>5, <4>2
    <3>6. QED BY <3>4, <3>5
  <2>7. ASSUME NEW w \in Workers, SkipMissing(w), worker[w].group = g PROVE FALSE
    <3>1. intent[g].status = "RUNNING" BY <1>0, <2>7, Owned DEF SkipMissing
    <3>2. QED BY <1>4, <3>1
  <2>8. QED BY <1>3, <2>2, <2>4, <2>5, <2>6, <2>7 DEF RowStep
<1>5. CASE intent[g].status # "COMPLETED"
  <2>1. IntentStep(g) BY <1>0, IntentSteps
  <2>2. Scheduled(intent[g]).status \in {"RUNNING", "PENDING"}
    BY <1>1 DEF Scheduled, Intents
  <2>3. \A s \in {"RETRY", "FAILED"} : Ended(intent[g], s).status # "COMPLETED"
    BY <1>1 DEF Ended, Intents, NewIntent
  <2>4. Ended(intent[g], "COMPLETED").status = "COMPLETED" => ~intent[g].newer
    BY DEF Ended, NewIntent
  <2>5. ASSUME NEW w \in Workers, ClaimIntent(w, g) PROVE FALSE
    <3>1. intent'[g].status = "RUNNING"
      BY <1>0, <1>1, <2>5 DEF ClaimIntent, Shaped, Intents
    <3>2. QED BY <3>1
  <2>6. ASSUME NEW w \in Workers, SettleIntent(w), worker[w].group = g, ~worker[w].late
        PROVE  row'[g].seen >= announced[g] /\ row'[g].details >= announced[g]
    <3>1. Current(g) /\ row' = row
      BY <2>6 DEF CoverInv, Covered, Covers, SettleCovers, SettleIntent
    <3>2. QED BY <3>1 DEF Current
  <2>7. ASSUME intent[g].status = "RUNNING", ~intent[g].newer, NEW w \in Workers, Answers(w, g)
        PROVE  /\ row'[g].seen >= announced[g]
               /\ Trusted(g)' => row'[g].details >= announced[g]
    <3>1. ~Owed(g) BY <2>7 DEF Owed, Waiting
    <3>2. worker[w].group = g /\ rate = HeldBy(w)
      BY <2>7, OwnerReads DEF Answers, CompleteIntent, SkipMissing, CoverInv
    <3>3. CASE CompleteIntent(w)
      <4>1. Current(g)
        BY <3>1, <3>2, <3>3 DEF CoverInv, Covered, Covers, WriteCovers, Behind, CompleteIntent
      <4>2. row' = row BY <3>3 DEF CompleteIntent
      <4>3. QED BY <4>1, <4>2 DEF Current
    <3>4. CASE SkipMissing(w)
      <4> DEFINE v == worker[w].at[g]
      <4>1. ~(v < announced[g])
        BY <3>1, <3>2, <3>4 DEF CoverInv, Covered, Covers, ReadCovers, Behind, SkipMissing
      <4>2. v \in Nat BY <1>2
      <4>3. Ended(intent[g], "COMPLETED").status = "COMPLETED"
        BY <1>1, <2>7 DEF Ended, Intents
      <4>4. row'[g] = [row[g] EXCEPT !.active = FALSE, !.invalidated = FALSE, !.seen = v]
        BY <1>0, <3>2, <3>4, <4>3 DEF SkipMissing, Shaped
      <4> HIDE DEF v
      <4>5. row'[g].seen = v /\ ~row'[g].active BY <1>0, <4>4 DEF Shaped, Rows
      <4>6. QED BY <1>2, <4>1, <4>2, <4>5 DEF Trusted
    <3>5. QED BY <2>7, <3>3, <3>4 DEF Answers
  <2>8. QED BY <1>3, <1>5, <2>1, <2>2, <2>3, <2>4, <2>5, <2>6, <2>7 DEF IntentStep
<1>6. QED BY <1>4, <1>5

LEMMA CoverStep == CoverInv /\ [Next]_vars => CoverInv'
<1> SUFFICES ASSUME CoverInv, [Next]_vars PROVE CoverInv' OBVIOUS
<1>1. Shaped' /\ OneLease' BY ShapedStep, OneLeaseStep DEF CoverInv
<1>2. \A w \in Workers : Covers(w)'
  BY ReadCoversStep, WriteCoversStep, SettleCoversStep, ListCoversStep DEF Covers
<1>3. \A g \in Groups : Honest(g)' BY HonestStep
<1>4. CompletedCovers' BY CompletedStep DEF CompletedCovers
<1>5. QED BY <1>1, <1>2, <1>3, <1>4 DEF CoverInv, Covered

(* An intent is completed only over a row observed no earlier than the last  *)
(* event recorded for its group: CompletedCovers, whatever lists, items and  *)
(* intents are under way, and whoever loses its lease.                       *)
THEOREM EventsAreAnswered == Spec => []CompletedCovers
<1>1. Init => CoverInv BY ShapedInit, OneLeaseInit, CoveredInit DEF CoverInv
<1>2. CoverInv => CompletedCovers BY DEF CoverInv, Covered
<1>3. QED BY <1>1, <1>2, CoverStep, PTL DEF Spec
=============================================================================
