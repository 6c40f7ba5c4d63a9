------------------------ MODULE SafetyGovernor_proofs ------------------------
(***************************************************************************)
(* Proofs about SafetyGovernor, for any sessions, any permits and any      *)
(* number of failures that opens a circuit:                                *)
(*   - TypeOK, OneProbe and OutcomesCountOnce are invariants.              *)
(* A request that may still run owns the rows that admitted it (Held). A   *)
(* reservation takes no row of a live lease, a release only rows of its    *)
(* own token, and nothing else touches a row.                              *)
(***************************************************************************)
EXTENDS SafetyGovernor, SequenceTheorems, TLAPS

USE GovernorAssumption

-----------------------------------------------------------------------------
(* The inductive invariant.                                                *)

\* A message that reserved has the row of its session's lane to ask for.
MessagesHaveSession ==
    \A p \in Permits :
        /\ permit[p].status = "held" => permit[p].kind = "message"
        /\ permit[p].status \in {"held", "started"} /\ permit[p].kind = "message" => permit[p].session \in Sessions

\* A request under a live lease owns its probes and its lane.
Held ==
    \A p \in Permits : Running(p) =>
        /\ \A x \in permit[p].via : recovery[x] = p
        /\ permit[p].kind = "message" => lane[permit[p].session] = p

\* What a receipt has taken, from the first to the last.
Receipts == {<<>>, <<"SUCCESS">>, <<"SAFE_REJECTION">>, <<"HARM">>, <<"SUCCESS", "HARM">>}
ReceiptOnce == \A p \in Permits : permit[p].outcomes \in Receipts

Inv == TypeOK /\ MessagesHaveSession /\ Held /\ ReceiptOnce

-----------------------------------------------------------------------------
(* Operators.                                                              *)

\* The scopes of a session are scopes, Shared among them.
LEMMA OfScopes ==
    ASSUME NEW s \in Sessions \cup {NoSession}
    PROVE  Of(s) \subseteq Scopes /\ Shared \in Of(s)
BY DEF Of, Scopes

\* A transition keeps the shape of the rows.
LEMMA RecoveredType ==
    ASSUME TypeOK, NEW S
    PROVE  Recovered(S) \in [Scopes -> ScopeRecord]
<1>1. ASSUME NEW x \in Scopes PROVE [scope[x] EXCEPT !.circuit = "HALF_OPEN"] \in ScopeRecord
  BY <1>1 DEF TypeOK, ScopeRecord
<1>2. QED BY <1>1 DEF Recovered, TypeOK

\* An outcome moves a row to a row.
LEMMA MovedType ==
    ASSUME TypeOK, NEW x \in Scopes, NEW outcome \in Outcomes
    PROVE  Moved(scope[x], x, outcome) \in ScopeRecord
<1>1. scope[x] \in ScopeRecord BY DEF TypeOK
<1>2. outcome \in {"SUCCESS", "SAFE_REJECTION", "AMBIGUOUS", "TRANSIENT_FAILURE", "RATE_LIMITED", "SESSION_RESTRICTED"}
  BY DEF Outcomes, Harmful
<1>3. QED BY <1>1, <1>2 DEF Moved, ScopeRecord

\* A streak stays below what opens the circuit.
LEMMA CountedType ==
    ASSUME TypeOK, NEW x \in Scopes, NEW outcome \in Outcomes
    PROVE  Counted(x, outcome) \in [Failures -> 0 .. TripAt - 1]
<1>1. ASSUME NEW f \in Failures PROVE streak[x][f] \in 0 .. TripAt - 1
  BY <1>1 DEF TypeOK
<1>2. QED BY <1>1 DEF Counted

\* A sequence of two is the pair of its elements.
LEMMA TwoIsPair ==
    ASSUME NEW S, NEW d \in Seq(S), Len(d) = 2
    PROVE  d = <<d[1], d[2]>>
<1>1. d = [i \in 1 .. 2 |-> d[i]] OBVIOUS
<1>2. <<d[1], d[2]>> = [i \in 1 .. 2 |-> d[i]]
  <2>1. /\ <<d[1], d[2]>> \in Seq(S) /\ Len(<<d[1], d[2]>>) = 2
        /\ <<d[1], d[2]>>[1] = d[1] /\ <<d[1], d[2]>>[2] = d[2]
    OBVIOUS
  <2>2. QED BY <2>1
<1>3. QED BY <1>1, <1>2

LEMMA AppendSecond == Append(<<"SUCCESS">>, "HARM") = <<"SUCCESS", "HARM">>
<1> DEFINE a == Append(<<"SUCCESS">>, "HARM")
<1>1. <<"SUCCESS">> \in Seq({"SUCCESS", "HARM"}) OBVIOUS
<1>2. /\ a \in Seq({"SUCCESS", "HARM"})
      /\ Len(a) = 2 /\ a[1] = "SUCCESS" /\ a[2] = "HARM"
  BY <1>1, AppendProperties
<1> HIDE DEF a
<1>3. a = <<a[1], a[2]>> BY <1>2, TwoIsPair
<1>4. a = <<"SUCCESS", "HARM">> BY <1>2, <1>3
<1>5. QED BY <1>4 DEF a

\* A receipt takes a first outcome, or a failure after a success.
LEMMA ReceiptGrows ==
    ASSUME NEW p \in Permits, permit[p].outcomes \in Receipts,
           NEW outcome \in Outcomes, Counts(p, outcome)
    PROVE  Append(permit[p].outcomes, Recorded(outcome)) \in Receipts
<1> DEFINE o == permit[p].outcomes
           r == Recorded(outcome)
<1>1. r \in {"SUCCESS", "SAFE_REJECTION", "HARM"}
  BY DEF Recorded, Outcomes
<1>2. CASE o = <<>>
  <2>1. Append(o, r) = <<r>> BY <1>2
  <2>2. QED BY <1>1, <2>1 DEF Receipts
<1>3. CASE o[Len(o)] = "SUCCESS" /\ outcome \in Harmful /\ o # <<>>
  <2>1. r = "HARM" BY <1>3 DEF Recorded
  <2>2. o = <<"SUCCESS">> BY <1>3 DEF Receipts
  <2>3. Append(o, r) = <<"SUCCESS", "HARM">> BY <2>1, <2>2, AppendSecond
  <2>4. QED BY <2>3 DEF Receipts
<1>4. QED BY <1>2, <1>3 DEF Counts

\* Receipts are sequences of what is recorded.
LEMMA ReceiptsType == Receipts \subseteq Seq({"SUCCESS", "SAFE_REJECTION", "HARM"})
BY DEF Receipts

-----------------------------------------------------------------------------
(* The actions.                                                            *)

LEMMA InitInv == Init => Inv
<1> SUFFICES ASSUME Init PROVE Inv OBVIOUS
<1>1. Unused \in PermitRecord BY ReceiptsType DEF Unused, PermitRecord, Receipts
<1>2. TypeOK BY <1>1 DEF Init, TypeOK, ScopeRecord
<1>3. QED BY <1>2 DEF Init, Inv, MessagesHaveSession, Held, Running, ReceiptOnce, Receipts, Unused

\* A permit is granted: p was not live, the rows taken from it were nobody's.
LEMMA GrantedType ==
    ASSUME TypeOK, NEW p \in Permits, NEW kind \in {"message", "operation"},
           NEW s \in Sessions \cup {NoSession}, NEW status \in {"held", "started"},
           NEW via \in SUBSET Scopes, Granted(p, kind, s, status, via)
    PROVE  /\ permit' \in [Permits -> PermitRecord]
           /\ permit'[p] = [status |-> status, kind |-> kind, session |-> s, live |-> TRUE,
                            via |-> via, outcomes |-> <<>>]
           /\ \A q \in Permits \ {p} : permit'[q] = permit[q]
<1> DEFINE g == [status |-> status, kind |-> kind, session |-> s, live |-> TRUE,
                 via |-> via, outcomes |-> <<>>]
<1>1. permit' = [permit EXCEPT ![p] = g] BY DEF Granted
<1>2. g \in PermitRecord BY ReceiptsType DEF PermitRecord, Receipts
<1>3. QED BY <1>1, <1>2 DEF TypeOK

\* The rows of the leases keep their shape, and others than p keep theirs.
LEMMA WithoutRows ==
    ASSUME TypeOK, NEW p \in Permits
    PROVE  /\ \A left \in {Nobody, Stale} :
                 Without(recovery, p, left) \in [Scopes -> Permits \cup {Nobody, Stale}]
           /\ Without(lane, p, Nobody) \in [Sessions -> Permits \cup {Nobody}]
           /\ \A q \in Permits \ {p}, x \in Scopes, left \in {Nobody, Stale} :
                 recovery[x] = q => Without(recovery, p, left)[x] = q
           /\ \A q \in Permits \ {p}, s \in Sessions :
                 lane[s] = q => Without(lane, p, Nobody)[s] = q
BY DEF TypeOK, Without

LEMMA ReserveMessageInv ==
    ASSUME Inv, NEW p \in Permits, NEW s \in Sessions, ReserveMessage(p, s)
    PROVE  Inv'
<1> DEFINE seen == Recovered(Of(s))
           probed == HalfOpen(seen) \cap Of(s)
<1>1. seen \in [Scopes -> ScopeRecord] BY RecoveredType DEF Inv
<1>2. probed \subseteq Scopes /\ probed \subseteq Of(s) BY OfScopes
<1>3. /\ scope' = seen /\ lane' = [Without(lane, p, Nobody) EXCEPT ![s] = p]
      /\ recovery' = Probed(p, probed) /\ UNCHANGED <<streak, paused>>
      /\ ~permit[p].live /\ ~Live(lane[s]) /\ \A x \in Of(s) : ~Live(recovery[x])
  BY DEF ReserveMessage, Fresh, Admitted
<1>4. Granted(p, "message", s, "held", {}) BY DEF ReserveMessage
<1>5. /\ permit' \in [Permits -> PermitRecord]
      /\ permit'[p] = [status |-> "held", kind |-> "message", session |-> s, live |-> TRUE,
                       via |-> {}, outcomes |-> <<>>]
      /\ \A q \in Permits \ {p} : permit'[q] = permit[q]
  BY <1>4, GrantedType DEF Inv
<1>6. TypeOK'
  <2>1. recovery' \in [Scopes -> Permits \cup {Nobody, Stale}]
    BY <1>2, <1>3, WithoutRows DEF Inv, Probed
  <2>2. lane' \in [Sessions -> Permits \cup {Nobody}]
    BY <1>3, WithoutRows DEF Inv
  <2>3. QED BY <1>1, <1>3, <1>5, <2>1, <2>2 DEF Inv, TypeOK
<1>7. MessagesHaveSession' BY <1>5 DEF Inv, MessagesHaveSession
<1>8. Held'
  <2> SUFFICES ASSUME NEW q \in Permits, Running(q)'
               PROVE  /\ \A x \in permit'[q].via : recovery'[x] = q
                      /\ permit'[q].kind = "message" => lane'[permit'[q].session] = q
    BY DEF Held
  <2>1. q # p /\ Running(q) /\ permit'[q] = permit[q] BY <1>5 DEF Running
  <2>2. ASSUME NEW x \in permit[q].via PROVE recovery'[x] = q
    <3>1. recovery[x] = q /\ x \in Scopes BY <2>1, <2>2 DEF Inv, Held, TypeOK, PermitRecord
    <3>2. x \notin probed BY <1>2, <1>3, <2>1, <3>1 DEF Live, Running
    <3>3. QED BY <1>3, <2>1, <3>1, <3>2, WithoutRows DEF Probed, Inv
  <2>3. ASSUME permit[q].kind = "message" PROVE lane'[permit[q].session] = q
    <3>1. lane[permit[q].session] = q /\ permit[q].session \in Sessions
      BY <2>1, <2>3 DEF Inv, Held, MessagesHaveSession, Running
    <3>2. permit[q].session # s BY <1>3, <2>1, <3>1 DEF Live, Running
    <3>3. QED BY <1>3, <2>1, <3>1, <3>2, WithoutRows DEF Inv
  <2>4. QED BY <2>1, <2>2, <2>3
<1>9. ReceiptOnce' BY <1>5 DEF Inv, ReceiptOnce, Receipts
<1>10. QED BY <1>6, <1>7, <1>8, <1>9 DEF Inv

LEMMA ReserveOperationInv ==
    ASSUME Inv, NEW p \in Permits, NEW s \in Sessions \cup {NoSession}, ReserveOperation(p, s)
    PROVE  Inv'
<1> DEFINE seen == Recovered(Of(s))
           probed == HalfOpen(seen) \cap Of(s)
<1>1. seen \in [Scopes -> ScopeRecord] BY RecoveredType DEF Inv
<1>2. probed \subseteq Scopes /\ probed \subseteq Of(s) BY OfScopes
<1>3. /\ scope' = seen /\ lane' = Without(lane, p, Nobody)
      /\ recovery' = Probed(p, probed) /\ UNCHANGED <<streak, paused>>
      /\ ~permit[p].live /\ \A x \in Of(s) : ~Live(recovery[x])
  BY DEF ReserveOperation, Fresh, Admitted
<1>4. Granted(p, "operation", s, "started", probed) BY DEF ReserveOperation
<1>5. /\ permit' \in [Permits -> PermitRecord]
      /\ permit'[p] = [status |-> "started", kind |-> "operation", session |-> s, live |-> TRUE,
                       via |-> probed, outcomes |-> <<>>]
      /\ \A q \in Permits \ {p} : permit'[q] = permit[q]
  BY <1>2, <1>4, GrantedType DEF Inv
<1>6. TypeOK'
  <2>1. recovery' \in [Scopes -> Permits \cup {Nobody, Stale}]
    BY <1>2, <1>3, WithoutRows DEF Inv, Probed
  <2>2. lane' \in [Sessions -> Permits \cup {Nobody}]
    BY <1>3, WithoutRows DEF Inv
  <2>3. QED BY <1>1, <1>3, <1>5, <2>1, <2>2 DEF Inv, TypeOK
<1>7. MessagesHaveSession' BY <1>5 DEF Inv, MessagesHaveSession
<1>8. Held'
  <2> SUFFICES ASSUME NEW q \in Permits, Running(q)'
               PROVE  /\ \A x \in permit'[q].via : recovery'[x] = q
                      /\ permit'[q].kind = "message" => lane'[permit'[q].session] = q
    BY DEF Held
  <2>1. CASE q = p
    <3>1. permit'[q].via = probed /\ permit'[q].kind = "operation" BY <1>5, <2>1
    <3>2. QED BY <1>2, <1>3, <2>1, <3>1 DEF Probed
  <2>2. CASE q # p
    <3>1. Running(q) /\ permit'[q] = permit[q] BY <1>5, <2>2 DEF Running
    <3>2. ASSUME NEW x \in permit[q].via PROVE recovery'[x] = q
      <4>1. recovery[x] = q /\ x \in Scopes BY <3>1, <3>2 DEF Inv, Held, TypeOK, PermitRecord
      <4>2. x \notin probed BY <1>2, <1>3, <3>1, <4>1 DEF Live, Running
      <4>3. QED BY <1>3, <2>2, <4>1, <4>2, WithoutRows DEF Probed, Inv
    <3>3. ASSUME permit[q].kind = "message" PROVE lane'[permit[q].session] = q
      <4>1. lane[permit[q].session] = q /\ permit[q].session \in Sessions
        BY <3>1, <3>3 DEF Inv, Held, MessagesHaveSession, Running
      <4>2. QED BY <1>3, <2>2, <4>1, WithoutRows DEF Inv
    <3>4. QED BY <3>1, <3>2, <3>3
  <2>3. QED BY <2>1, <2>2
<1>9. ReceiptOnce' BY <1>5 DEF Inv, ReceiptOnce, Receipts
<1>10. QED BY <1>6, <1>7, <1>8, <1>9 DEF Inv

\* Only rows of scopes, streaks or pauses change.
LEMMA ScopesInv ==
    ASSUME Inv, scope' \in [Scopes -> ScopeRecord], paused' \subseteq Sessions,
           UNCHANGED <<streak, lane, recovery, permit>>
    PROVE  Inv'
BY DEF Inv, TypeOK, MessagesHaveSession, Held, Running, ReceiptOnce

LEMMA CommitInv ==
    ASSUME Inv, NEW p \in Permits, Commit(p)
    PROVE  Inv'
<1> DEFINE s == permit[p].session
           via == HalfOpen(scope) \cap Of(s)
<1>1. /\ permit[p].status = "held" /\ permit[p] \in PermitRecord
      /\ permit[p].kind = "message" /\ s \in Sessions
  BY DEF Commit, Inv, TypeOK, MessagesHaveSession
<1>2. via \subseteq Scopes BY <1>1, OfScopes
<1>3. /\ permit' = [permit EXCEPT ![p].status = "started", ![p].via = via]
      /\ UNCHANGED <<scope, streak, paused, lane, recovery>>
      /\ lane[s] = p /\ \A x \in via : recovery[x] = p
  BY DEF Commit, Fence, HalfOpen
<1>4. /\ permit' \in [Permits -> PermitRecord]
      /\ \A q \in Permits \ {p} : permit'[q] = permit[q]
      /\ permit'[p].status = "started" /\ permit'[p].kind = "message" /\ permit'[p].session = s
      /\ permit'[p].via = via /\ permit'[p].outcomes = permit[p].outcomes
  BY <1>1, <1>2, <1>3 DEF Inv, TypeOK, PermitRecord
<1>5. TypeOK' BY <1>3, <1>4 DEF Inv, TypeOK
<1>6. MessagesHaveSession' BY <1>1, <1>4 DEF Inv, MessagesHaveSession
<1>7. Held' BY <1>3, <1>4 DEF Inv, Held, Running
<1>8. ReceiptOnce' BY <1>4 DEF Inv, ReceiptOnce
<1>9. QED BY <1>5, <1>6, <1>7, <1>8 DEF Inv

LEMMA LeaseExpiresInv ==
    ASSUME Inv, NEW p \in Permits, LeaseExpires(p)
    PROVE  Inv'
<1>1. /\ permit' = [permit EXCEPT ![p].live = FALSE]
      /\ UNCHANGED <<scope, streak, paused, lane, recovery>>
  BY DEF LeaseExpires
<1>2. /\ permit' \in [Permits -> PermitRecord]
      /\ \A q \in Permits \ {p} : permit'[q] = permit[q]
      /\ permit'[p].status = permit[p].status /\ permit'[p].kind = permit[p].kind
      /\ permit'[p].session = permit[p].session /\ permit'[p].outcomes = permit[p].outcomes
      /\ permit'[p].live = FALSE
  BY <1>1 DEF Inv, TypeOK, PermitRecord
<1>3. TypeOK' BY <1>1, <1>2 DEF Inv, TypeOK
<1>4. QED BY <1>1, <1>2, <1>3 DEF Inv, MessagesHaveSession, Held, Running, ReceiptOnce

\* A permit that is over or unused holds nothing, and its release takes no row of another.
LEMMA ReleaseInv ==
    ASSUME Inv, NEW p \in Permits, Release(p), paused' = paused,
           scope' \in [Scopes -> ScopeRecord],
           streak' \in [Scopes -> [Failures -> 0 .. TripAt - 1]],
           permit' \in [Permits -> PermitRecord],
           \A q \in Permits \ {p} : permit'[q] = permit[q],
           permit'[p].status \notin {"held", "started"}, permit'[p].outcomes \in Receipts
    PROVE  Inv'
<1>1. lane' = Without(lane, p, Nobody) /\ recovery' = Without(recovery, p, Nobody)
  BY DEF Release
<1>2. TypeOK' BY <1>1, WithoutRows DEF Inv, TypeOK
<1>3. MessagesHaveSession' BY DEF Inv, MessagesHaveSession
<1>4. Held'
  <2> SUFFICES ASSUME NEW q \in Permits, Running(q)'
               PROVE  /\ \A x \in permit'[q].via : recovery'[x] = q
                      /\ permit'[q].kind = "message" => lane'[permit'[q].session] = q
    BY DEF Held
  <2>1. q # p /\ Running(q) /\ permit'[q] = permit[q] BY DEF Running
  <2>2. ASSUME NEW x \in permit[q].via PROVE recovery'[x] = q
    <3>1. recovery[x] = q /\ x \in Scopes BY <2>1, <2>2 DEF Inv, Held, TypeOK, PermitRecord
    <3>2. QED BY <1>1, <2>1, <3>1, WithoutRows DEF Inv
  <2>3. ASSUME permit[q].kind = "message" PROVE lane'[permit[q].session] = q
    <3>1. lane[permit[q].session] = q /\ permit[q].session \in Sessions
      BY <2>1, <2>3 DEF Inv, Held, MessagesHaveSession, Running
    <3>2. QED BY <1>1, <2>1, <3>1, WithoutRows DEF Inv
  <2>4. QED BY <2>1, <2>2, <2>3
<1>5. ReceiptOnce' BY DEF Inv, ReceiptOnce
<1>6. QED BY <1>2, <1>3, <1>4, <1>5 DEF Inv

LEMMA UnusedType == Unused \in PermitRecord /\ Unused.status = "free" /\ Unused.outcomes \in Receipts
BY ReceiptsType DEF Unused, PermitRecord, Receipts

LEMMA WithdrawInv ==
    ASSUME Inv, NEW p \in Permits, Withdraw(p)
    PROVE  Inv'
<1>1. /\ permit' = [permit EXCEPT ![p] = Unused] /\ Release(p)
      /\ UNCHANGED <<scope, streak, paused>>
  BY DEF Withdraw
<1>2. /\ permit' \in [Permits -> PermitRecord] /\ permit'[p] = Unused
      /\ \A q \in Permits \ {p} : permit'[q] = permit[q]
  BY <1>1, UnusedType DEF Inv, TypeOK
<1>3. QED BY <1>1, <1>2, UnusedType, ReleaseInv DEF Inv, TypeOK

LEMMA RecordOutcomeInv ==
    ASSUME Inv, NEW p \in Permits, NEW outcome \in Outcomes, RecordOutcome(p, outcome)
    PROVE  Inv'
<1> DEFINE S == IF Counts(p, outcome) THEN Of(permit[p].session) ELSE {}
           o == permit[p].outcomes
           taken == IF S = {} THEN o ELSE Append(o, Recorded(outcome))
           ended == [permit[p] EXCEPT !.status = "over", !.live = FALSE, !.via = {}, !.outcomes = taken]
<1>1. /\ scope' = [x \in Scopes |-> IF x \in S THEN Moved(scope[x], x, outcome) ELSE scope[x]]
      /\ streak' = [x \in Scopes |-> IF x \in S THEN Counted(x, outcome) ELSE streak[x]]
      /\ Release(p) /\ paused' = paused
      /\ permit' = [permit EXCEPT ![p] = IF permit[p].kind = "operation" THEN Unused ELSE ended]
  <2>1. scope' = [x \in Scopes |-> IF x \in S THEN Moved(scope[x], x, outcome) ELSE scope[x]]
    BY Zenon DEF RecordOutcome
  <2>2. streak' = [x \in Scopes |-> IF x \in S THEN Counted(x, outcome) ELSE streak[x]]
    BY Zenon DEF RecordOutcome
  <2>3. Release(p) /\ paused' = paused BY Zenon DEF RecordOutcome
  <2>4. permit' = [permit EXCEPT ![p] = IF permit[p].kind = "operation" THEN Unused ELSE ended]
    BY Zenon DEF RecordOutcome
  <2>5. QED BY <2>1, <2>2, <2>3, <2>4
<1>2. permit[p] \in PermitRecord /\ o \in Receipts BY DEF Inv, TypeOK, ReceiptOnce
<1>3. taken \in Receipts
  <2>1. CASE Counts(p, outcome) BY <1>2, <2>1, ReceiptGrows
  <2>2. CASE ~Counts(p, outcome) BY <1>2, <2>2
  <2>3. QED BY <2>1, <2>2
<1>4. ended \in PermitRecord /\ ended.status = "over" /\ ended.outcomes = taken
  <2> HIDE DEF taken
  <2>1. taken \in Seq({"SUCCESS", "SAFE_REJECTION", "HARM"}) BY <1>3, ReceiptsType
  <2>2. QED BY <1>2, <2>1 DEF PermitRecord
<1> HIDE DEF ended
<1>5. /\ permit' \in [Permits -> PermitRecord] /\ permit'[p] \in {Unused, ended}
      /\ \A q \in Permits \ {p} : permit'[q] = permit[q]
  BY <1>1, <1>4, UnusedType DEF Inv, TypeOK
<1>6. permit'[p].status \notin {"held", "started"} /\ permit'[p].outcomes \in Receipts
  BY <1>3, <1>4, <1>5, UnusedType
<1>7. scope' \in [Scopes -> ScopeRecord] BY <1>1, MovedType DEF Inv, TypeOK
<1>8. streak' \in [Scopes -> [Failures -> 0 .. TripAt - 1]] BY <1>1, CountedType DEF Inv, TypeOK
<1>9. QED BY <1>1, <1>5, <1>6, <1>7, <1>8, ReleaseInv

-----------------------------------------------------------------------------
(* The theorems.                                                           *)

LEMMA NextInv == Inv /\ [Next]_vars => Inv'
<1> SUFFICES ASSUME Inv, [Next]_vars PROVE Inv' OBVIOUS
<1>1. ASSUME NEW p \in Permits, NEW s \in Sessions, ReserveMessage(p, s) PROVE Inv'
  BY <1>1, ReserveMessageInv
<1>2. ASSUME NEW p \in Permits, NEW s \in Sessions \cup {NoSession}, ReserveOperation(p, s) PROVE Inv'
  BY <1>2, ReserveOperationInv
<1>3. ASSUME NEW s \in Sessions \cup {NoSession}, Notice(s) PROVE Inv'
  <2>1. Recovered(Of(s)) \in [Scopes -> ScopeRecord] BY RecoveredType DEF Inv
  <2>2. QED BY <1>3, <2>1, ScopesInv DEF Notice, Inv, TypeOK
<1>4. ASSUME NEW p \in Permits, Commit(p) \/ Withdraw(p) \/ LeaseExpires(p) PROVE Inv'
  BY <1>4, CommitInv, WithdrawInv, LeaseExpiresInv
<1>5. ASSUME NEW p \in Permits, NEW outcome \in Outcomes, RecordOutcome(p, outcome) PROVE Inv'
  BY <1>5, RecordOutcomeInv
<1>6. ASSUME NEW s \in Sessions, Pause(s) PROVE Inv'
  BY <1>6, ScopesInv DEF Pause, Inv, TypeOK
<1>7. ASSUME NEW s \in Sessions, BlockSession(s) PROVE Inv'
  <2>1. s \in Scopes BY DEF Scopes
  <2>2. scope' \in [Scopes -> ScopeRecord] BY <1>7, <2>1 DEF BlockSession, Inv, TypeOK, ScopeRecord
  <2>3. QED BY <1>7, <2>2, ScopesInv DEF BlockSession, Inv, TypeOK
<1>8. ASSUME NEW s \in Sessions, BlockWorkspace(s) PROVE Inv'
  <2>1. Recovered(Of(s)) \in [Scopes -> ScopeRecord] BY RecoveredType DEF Inv
  <2>2. scope' \in [Scopes -> ScopeRecord] BY <1>8, <2>1 DEF BlockWorkspace, ScopeRecord, Scopes
  <2>3. QED BY <1>8, <2>2, ScopesInv DEF BlockWorkspace, Inv, TypeOK
<1>9. ASSUME NEW x \in Scopes, CooldownEnds(x) PROVE Inv'
  <2>1. scope' \in [Scopes -> ScopeRecord] BY <1>9 DEF CooldownEnds, Inv, TypeOK, ScopeRecord
  <2>2. QED BY <1>9, <2>1, ScopesInv DEF CooldownEnds, Inv, TypeOK
<1>10. CASE UNCHANGED vars
  BY <1>10 DEF vars, Inv, TypeOK, MessagesHaveSession, Held, Running, ReceiptOnce
<1>11. QED BY <1>1, <1>2, <1>3, <1>4, <1>5, <1>6, <1>7, <1>8, <1>9, <1>10 DEF Next

LEMMA InvHolds == Spec => []Inv
BY InitInv, NextInv, PTL DEF Spec

\* Every row and every permit keeps its shape, and no streak passes the number that opens a
\* circuit (recordFailure).
THEOREM TypeCorrect == Spec => []TypeOK
<1>1. Inv => TypeOK BY DEF Inv
<1>2. QED BY <1>1, InvHolds, PTL

\* One request probes a half-open scope and one message owns the lane of a session, whatever
\* leases run out and whoever releases late (reserveMessage, commitMessageStart, release).
THEOREM ProbesAreExclusive == Spec => []OneProbe
<1>1. Inv => OneProbe
  <2> SUFFICES ASSUME Inv, NEW p \in Permits, NEW q \in Permits, Running(p), Running(q), p # q
               PROVE  /\ permit[p].via \cap permit[q].via = {}
                      /\ (permit[p].kind = "message" /\ permit[q].kind = "message")
                            => permit[p].session # permit[q].session
    BY DEF OneProbe
  <2>1. QED BY DEF Inv, Held
<1>2. QED BY <1>1, InvHolds, PTL

\* An outcome counts once, and a second time only as a failure after a success
\* (recordOutcomeWithClient).
THEOREM OutcomesOnce == Spec => []OutcomesCountOnce
<1>1. Inv => OutcomesCountOnce
  <2>1. /\ Len(<<>>) = 0 /\ Len(<<"SUCCESS">>) = 1
        /\ Len(<<"SAFE_REJECTION">>) = 1 /\ Len(<<"HARM">>) = 1
    OBVIOUS
  <2>2. ASSUME NEW o \in Receipts, Len(o) > 1 PROVE o = <<"SUCCESS", "HARM">>
    <3>1. Len(o) # 0 /\ Len(o) # 1
      <4>1. \A n : n > 1 => n # 0 /\ n # 1 OBVIOUS
      <4>2. QED BY <2>2, <4>1, Zenon
    <3>2. QED BY <2>1, <3>1, Zenon DEF Receipts
  <2>3. QED BY <2>2 DEF Inv, ReceiptOnce, OutcomesCountOnce
<1>2. QED BY <1>1, InvHolds, PTL
=============================================================================
