------------------------ MODULE ConnectorPlugin_proofs ------------------------
(***************************************************************************)
(* Proofs about ConnectorPlugin, for any set of commands, any generations, *)
(* capacity, retention and number of crashes and restarts:                 *)
(*   - TypeOK is an invariant;                                             *)
(*   - a command no restart found RECEIVED is sent at most once;           *)
(*   - a rejected text command is never sent;                              *)
(*   - the Event Inbox gets the evidence in order, one outcome for each    *)
(*     command, and never loses what the journal forgets.                  *)
(***************************************************************************)
EXTENDS ConnectorPlugin, FiniteSetTheorems, SequenceTheorems, WellFoundedInduction, TLAPS

USE DEF JournalState, EvidenceKind, ExecState, AckStatus

\* Min picks the smallest element of a non-empty set of naturals.
LEMMA MinNat ==
    ASSUME NEW T \in SUBSET Nat, T # {}
    PROVE  Min(T) \in T /\ \A y \in T : Min(T) <= y
  <1> DEFINE less == OpToRel(<, Nat)
  <1>1. PICK x \in T : \A y \in T : <<y, x>> \notin less
    <2> HIDE DEF less
    <2>1. IsWellFoundedOn(less, Nat)
      BY NatLessThanWellFounded DEF less
    <2> QED
      BY <2>1, WFMin
  <1>2. ASSUME NEW y \in T PROVE x <= y
    <2>1. y < x => <<y, x>> \in less
      BY Zenon DEF OpToRel
    <2>2. ~(y < x)
      BY <1>1, <2>1, Zenon
    <2> QED
      BY <2>2
  <1> QED
    BY <1>2 DEF Min

-----------------------------------------------------------------------------
(* What the journal operations return.                                     *)

\* The evidence of a record is a sequence of entries.
LEMMA EvidenceKinds ==
    ASSUME NEW rec \in CommandRecord, NEW i \in DOMAIN rec.evidence
    PROVE  rec.evidence[i] \in EvidenceEntry /\ rec.evidence[i].kind \in EvidenceKind
  <1>1. rec.evidence \in Seq(EvidenceEntry)
    BY DEF CommandRecord
  <1>2. rec.evidence[i] \in EvidenceEntry
    BY <1>1
  <1> QED
    BY <1>2 DEF EvidenceEntry

\* A RECEIVED record holds no evidence but its COMMAND_RECEIVED.
OnlyReceived(rec) ==
    rec.state = "RECEIVED" =>
        \A i \in DOMAIN rec.evidence : rec.evidence[i].kind = "COMMAND_RECEIVED"

\* op is a record in the state of rec or in the state k, and nothing else of a
\* RECEIVED or missing record changes without its state.
Moves(rec, op, k) ==
    /\ op \in CommandRecord
    /\ op.state \in {rec.state, k}
    /\ op.state \in {"NONE", "RECEIVED"} => op = rec

SendState == {"SEND_STARTED", "SEND_ACCEPTED", "SEND_REJECTED", "SEND_INDETERMINATE"}

\* appendEvidence() moves a record to the state asked for, or leaves it.
LEMMA AppendEvidenceMoves ==
    ASSUME NEW rec \in CommandRecord, NEW k \in SendState
    PROVE  Moves(rec, AppendEvidence(rec, k), k)
  BY DEF AppendEvidence, AddEvidence, CommandRecord, EvidenceEntry, Moves, SendState

\* transition() likewise; a missing record stays missing.
LEMMA TransitionMoves ==
    ASSUME NEW rec \in CommandRecord, NEW k \in SendState
    PROVE  /\ Moves(rec, Transition(rec, k), k)
           /\ rec.state = "NONE" => Transition(rec, k).state = "NONE"
  BY AppendEvidenceMoves DEF Transition, Moves, SendState

\* The three named transitions.
LEMMA MarkMoves ==
    ASSUME NEW rec \in CommandRecord
    PROVE  /\ Moves(rec, MarkStarted(rec), "SEND_STARTED")
           /\ rec.state = "NONE" => MarkStarted(rec).state = "NONE"
           /\ Moves(rec, MarkRejected(rec), "SEND_REJECTED")
           /\ rec.state = "NONE" => MarkRejected(rec).state = "NONE"
           /\ Moves(rec, MarkIndeterminate(rec), "SEND_INDETERMINATE")
           /\ rec.state = "NONE" => MarkIndeterminate(rec).state = "NONE"
  BY TransitionMoves DEF MarkStarted, MarkRejected, MarkIndeterminate, SendState

\* A RECEIVED record is really started.
LEMMA StartsReceived ==
    ASSUME NEW rec \in CommandRecord, OnlyReceived(rec), rec.state = "RECEIVED"
    PROVE  MarkStarted(rec).state = "SEND_STARTED"
  <1>1. ~HasKind(rec, {"SEND_STARTED"})
    BY DEF OnlyReceived, HasKind
  <1> QED
    BY <1>1 DEF MarkStarted, Transition, AppendEvidence, Terminal

\* appendAckEvidence() changes accepted records only, and never their state.
LEMMA AppendAckMoves ==
    ASSUME NEW rec \in CommandRecord, NEW status \in AckStatus
    PROVE  /\ AppendAckEvidence(rec, status) \in CommandRecord
           /\ AppendAckEvidence(rec, status).state = rec.state
           /\ rec.state # "SEND_ACCEPTED" => AppendAckEvidence(rec, status) = rec
  <1>1. AckKind(status) \in EvidenceKind
    BY DEF AckKind
  <1> QED
    BY <1>1 DEF AppendAckEvidence, AddEvidence, CommandRecord, EvidenceEntry

\* A delivery mark changes neither the state nor any kind.
LEMMA DeliveredKeeps ==
    ASSUME NEW rec \in CommandRecord, NEW i \in Nat
    PROVE  /\ Delivered(rec, i) \in CommandRecord
           /\ Delivered(rec, i).state = rec.state
           /\ OnlyReceived(rec) => OnlyReceived(Delivered(rec, i))
  <1> DEFINE ev == rec.evidence
             e  == [kind |-> ev[i].kind, delivered |-> TRUE]
             up == [ev EXCEPT ![i] = e]
  <1>1. ev \in Seq(EvidenceEntry)
    BY DEF CommandRecord
  <1>2. DOMAIN ev = 1..Len(ev) /\ Len(ev) \in Nat
    BY <1>1, LenProperties
  <1>3. CASE i \in 1..Len(ev)
    <2>a. ev[i] \in EvidenceEntry
      BY <1>1, <1>3, ElementOfSeq
    <2>1. e \in EvidenceEntry
      BY <2>a DEF EvidenceEntry
    <2>2. /\ up \in Seq(EvidenceEntry)
          /\ Len(up) = Len(ev)
          /\ \A j \in 1..Len(ev) : up[j] = IF j = i THEN e ELSE ev[j]
      BY <1>1, <1>3, <2>1, ExceptSeq
    <2>3. DOMAIN up = DOMAIN ev /\ \A j \in DOMAIN up : up[j].kind = ev[j].kind
      BY <1>2, <2>2
    <2> QED
      BY <2>2, <2>3 DEF CommandRecord, Delivered, OnlyReceived
  <1>4. CASE i \notin 1..Len(ev)
    <2>1. up = ev
      BY <1>1, <1>2, <1>4
    <2> QED
      BY <1>1, <2>1 DEF CommandRecord, Delivered, OnlyReceived
  <1> QED
    BY <1>3, <1>4

\* The two records an operation writes from nothing.
LEMMA FreshRecords ==
    /\ NoRecord \in CommandRecord /\ NoRecord.state = "NONE"
    /\ ReceivedRecord \in CommandRecord /\ ReceivedRecord.state = "RECEIVED"
    /\ OnlyReceived(NoRecord) /\ OnlyReceived(ReceivedRecord)
  BY DEF NoRecord, ReceivedRecord, CommandRecord, EvidenceEntry, OnlyReceived

-----------------------------------------------------------------------------
(* What handling a delivery returns.                                       *)

\* r is what scheduling the record rec of a command may return: the record
\* moved, and a RECEIVED record is not being sent.
Handles(c, rec, r) ==
    /\ r.rec \in CommandRecord
    /\ r.pc \in ExecState
    /\ r.rec.state = "NONE" => rec.state = "NONE"
    /\ r.rec.state = "RECEIVED" => r.rec = rec
    /\ r.pc # exec[c] => exec[c] = "idle" /\ r.pc \in {"preflight", "calling"}
    /\ OnlyReceived(rec) /\ r.pc # exec[c] /\ r.rec.state = "RECEIVED" => r.pc = "preflight"

\* execute() up to its first wait, from schedule().
LEMMA ScheduledHandles ==
    ASSUME NEW c \in Commands, NEW rec \in CommandRecord, exec[c] \in ExecState
    PROVE  Handles(c, rec, Scheduled(c, rec))
  <1>1. CASE exec[c] # "idle"
    BY <1>1 DEF Scheduled, Handles
  <1>2. CASE exec[c] = "idle" /\ (c \in expired \/ CommandGen[c] # Current)
    BY <1>2, MarkMoves DEF Scheduled, ExecuteFirst, Handles, Moves
  <1>3. CASE exec[c] = "idle" /\ ~(c \in expired \/ CommandGen[c] # Current) /\ c \in Images
    BY <1>3 DEF Scheduled, ExecuteFirst, Handles
  <1>4. CASE exec[c] = "idle" /\ ~(c \in expired \/ CommandGen[c] # Current) /\ c \notin Images
    <2>1. Scheduled(c, rec) = [rec |-> MarkStarted(rec), pc |-> "calling"]
      BY <1>4 DEF Scheduled, ExecuteFirst
    <2>2. OnlyReceived(rec) /\ rec.state = "RECEIVED" => MarkStarted(rec).state = "SEND_STARTED"
      BY StartsReceived
    <2> QED
      BY <1>4, <2>1, <2>2, MarkMoves DEF Handles, Moves
  <1> QED
    BY <1>1, <1>2, <1>3, <1>4

\* handleIngress() with the record receive() returned.  Only a RECEIVED record
\* starts an executor.
LEMMA HandleReceivedHandles ==
    ASSUME NEW c \in Commands, NEW rec \in CommandRecord, exec[c] \in ExecState
    PROVE  /\ Handles(c, rec, HandleReceived(c, rec))
           /\ HandleReceived(c, rec).pc # exec[c] => rec.state = "RECEIVED"
  <1>1. CASE rec.state = "SEND_STARTED" /\ exec[c] = "idle"
    BY <1>1, MarkMoves DEF HandleReceived, Handles, Moves
  <1>2. CASE rec.state = "RECEIVED" /\ CommandGen[c] # Current
    BY <1>2, MarkMoves DEF HandleReceived, Handles, Moves
  <1>3. CASE rec.state = "RECEIVED" /\ CommandGen[c] = Current
    BY <1>3, ScheduledHandles DEF HandleReceived
  <1>4. CASE ~(rec.state = "SEND_STARTED" /\ exec[c] = "idle") /\ rec.state # "RECEIVED"
    BY <1>4 DEF HandleReceived, Handles
  <1> QED
    BY <1>1, <1>2, <1>3, <1>4

-----------------------------------------------------------------------------
(* Type correctness.                                                       *)

USE PluginAssumption

LEMMA TypeInit == Init => TypeOK
  BY FreshRecords DEF Init, TypeOK

\* Every step keeps TypeOK.
LEMMA TypeStep == TypeOK /\ [Next]_vars => TypeOK'
  <1> SUFFICES ASSUME TypeOK, [Next]_vars PROVE TypeOK'
    OBVIOUS
  <1> USE DEF TypeOK
  <1>1. ASSUME NEW c \in Commands, IngressDuplicate(c) PROVE TypeOK'
    BY <1>1, HandleReceivedHandles DEF IngressDuplicate, Handles, envVars
  <1>2. ASSUME NEW c \in Commands, IngressNew(c) PROVE TypeOK'
    BY <1>2, HandleReceivedHandles, FreshRecords DEF IngressNew, Handles, envVars
  <1>3. ASSUME NEW c \in Commands, IngressUnderPressure(c) PROVE TypeOK'
    BY <1>3, HandleReceivedHandles, FreshRecords
    DEF IngressUnderPressure, Handles, CompactedJournal, PrunedOrphans, PointersWithout, envVars
  <1>4. ASSUME NEW c \in Commands, PreflightPassed(c) PROVE TypeOK'
    BY <1>4, MarkMoves DEF PreflightPassed, ExecStep, Moves, envVars
  <1>5. ASSUME NEW c \in Commands, PreflightFailed(c) PROVE TypeOK'
    BY <1>5, MarkMoves DEF PreflightFailed, ExecStep, Moves, envVars
  <1>6. ASSUME NEW c \in Commands, SendEffect(c) PROVE TypeOK'
    BY <1>6 DEF SendEffect, storageVars
  <1>7. ASSUME NEW c \in Commands, SendNoEffect(c) PROVE TypeOK'
    BY <1>7 DEF SendNoEffect, storageVars, envVars
  <1>8. ASSUME NEW c \in Commands, SendWithoutContext(c) PROVE TypeOK'
    BY <1>8, MarkMoves DEF SendWithoutContext, ExecStep, Moves, envVars
  <1>9. ASSUME NEW c \in Commands, SendAmbiguous(c) PROVE TypeOK'
    BY <1>9, MarkMoves DEF SendAmbiguous, ExecStep, Moves, envVars
  <1>10. ASSUME NEW c \in Commands, SendReplied(c) PROVE TypeOK'
    <2>1. AppendEvidence(journal[c], "SEND_ACCEPTED") \in CommandRecord
      BY AppendEvidenceMoves DEF SendState, Moves
    <2>2. orphan[c] # "none" =>
            AppendAckEvidence(AppendEvidence(journal[c], "SEND_ACCEPTED"), orphan[c]) \in CommandRecord
      BY <2>1, AppendAckMoves
    <2> QED
      BY <1>10, <2>1, <2>2 DEF SendReplied, ExecStep, envVars
  <1>11. CASE Enable
    BY <1>11, MarkMoves DEF Enable, RecoveredRecord, RecoveredPointers, Resumable, Records, Moves
  <1>12. CASE Disable
    BY <1>12 DEF Disable, storageVars
  <1>13. CASE Crash
    BY <1>13 DEF Crash, ProcessDies
  <1>14. ASSUME NEW c \in Commands, CrashInReceive(c) PROVE TypeOK'
    BY <1>14, FreshRecords DEF CrashInReceive, ProcessDies
  <1>15. ASSUME NEW c \in Commands, CrashInAccept(c) PROVE TypeOK'
    <2>1. AppendEvidence(journal[c], "SEND_ACCEPTED") \in CommandRecord
      BY AppendEvidenceMoves DEF SendState, Moves
    <2> QED
      BY <1>15, <2>1 DEF CrashInAccept, ProcessDies
  <1>16. ASSUME NEW c \in Commands, CrashInCompact(c) PROVE TypeOK'
    BY <1>16 DEF CrashInCompact, ProcessDies
  <1>17. CASE TickHeartbeat
    BY <1>17 DEF TickHeartbeat, ApplyBinding, envVars
  <1>18. CASE TickHeartbeatFails
    BY <1>18 DEF TickHeartbeatFails, storageVars, envVars
  <1>19. CASE TickResume
    <2>1. \A c \in Commands : /\ Scheduled(c, journal[c]).rec \in CommandRecord
                              /\ Scheduled(c, journal[c]).pc \in ExecState
      BY ScheduledHandles DEF Handles
    <2> QED
      BY <1>19, <2>1 DEF TickResume, envVars
  <1>20. CASE TickFinish
    BY <1>20, FreshRecords
    DEF TickFinish, CompactedJournal, PrunedOrphans, PointersWithout, envVars
  <1>21. ASSUME NEW c \in Commands, PostEvidence(c) PROVE TypeOK'
    <2>1. Pending(journal[c]) \subseteq Nat /\ Pending(journal[c]) # {}
      BY <1>21 DEF PostEvidence, Pending, CommandRecord
    <2>2. NextEvidence(journal[c]) \in Pending(journal[c])
      BY <2>1, MinNat DEF NextEvidence
    <2>3. journal[c].evidence[NextEvidence(journal[c])].kind \in EvidenceKind
      BY <2>2, EvidenceKinds DEF Pending
    <2> QED
      BY <1>21, <2>1, <2>2, <2>3 DEF PostEvidence, storageVars
  <1>22. ASSUME NEW c \in Commands, PostFails(c) PROVE TypeOK'
    BY <1>22 DEF PostFails, storageVars, envVars
  <1>23. ASSUME NEW c \in Commands, MarkDelivered(c) PROVE TypeOK'
    BY <1>23, DeliveredKeeps DEF MarkDelivered, ClearedBlock, envVars
  <1>24. ASSUME NEW c \in Commands, NEW status \in Acks, AckIndexed(c, status) PROVE TypeOK'
    BY <1>24, AppendAckMoves DEF AckIndexed, memoryVars, envVars
  <1>25. ASSUME NEW c \in Commands, NEW status \in Acks, AckOrphaned(c, status) PROVE TypeOK'
    BY <1>25 DEF AckOrphaned, PrunedOrphans, memoryVars, envVars
  <1>26. CASE Rotate
    BY <1>26 DEF Rotate, storageVars, memoryVars
  <1>27. ASSUME NEW c \in Commands, Expire(c) PROVE TypeOK'
    BY <1>27 DEF Expire, storageVars, memoryVars
  <1>28. ASSUME NEW c \in Commands, Retire(c) PROVE TypeOK'
    BY <1>28 DEF Retire, storageVars, memoryVars
  <1>29. CASE UNCHANGED vars
    BY <1>29 DEF vars, storageVars, memoryVars, envVars
  <1> QED
    BY <1>1, <1>2, <1>3, <1>4, <1>5, <1>6, <1>7, <1>8, <1>9, <1>10, <1>11, <1>12, <1>13, <1>14,
       <1>15, <1>16, <1>17, <1>18, <1>19, <1>20, <1>21, <1>22, <1>23, <1>24, <1>25, <1>26, <1>27,
       <1>28, <1>29
    DEF Next

\* The state of the connector plugin always has its type: every handler writes
\* well-formed records, indexes and positions.
THEOREM TypeCorrect == Spec => []TypeOK
  BY TypeInit, TypeStep, PTL DEF Spec

-----------------------------------------------------------------------------
(* At most one message of a command that no restart found RECEIVED.        *)

\* The inductive invariant, for one command.  Whoever may still call
\* conversations.send for it (a RECEIVED record that can be scheduled, an
\* executor before the call) does so for a command not sent yet; a record is
\* created again only when no delivery can come any more.
SendInv(c) ==
    /\ c \notin resumable
    /\ sent[c] <= 1
    /\ journal[c].state = "RECEIVED" => exec[c] \in {"idle", "preflight"}
    /\ journal[c].state = "RECEIVED" \/ exec[c] \in {"preflight", "calling"} => sent[c] = 0
    /\ journal[c].state = "NONE" /\ c \notin retired => sent[c] = 0 /\ exec[c] = "idle"

Inv == /\ TypeOK
       /\ \A c \in Commands : OnlyReceived(journal[c])
       /\ \A c \in Commands \ recovered : SendInv(c)

LEMMA InvInit == Init => Inv
  BY TypeInit, FreshRecords DEF Init, Inv, SendInv

\* A delivery of c, of the record rec it is handled with, keeps the invariant
\* of c: only a RECEIVED record that was never sent starts an executor.
LEMMA DeliveryKeeps ==
    ASSUME Inv, NEW c \in Commands, NEW rec \in CommandRecord, OnlyReceived(rec),
           rec.state # "NONE",
           c \notin recovered =>
               \/ rec = journal[c]
               \/ sent[c] = 0 /\ rec.state = "RECEIVED" /\ exec[c] = "idle",
           journal'[c] = HandleReceived(c, rec).rec,
           exec'[c] = HandleReceived(c, rec).pc,
           UNCHANGED <<sent, resumable, recovered, retired>>
    PROVE  /\ OnlyReceived(journal'[c])
           /\ c \notin recovered' => SendInv(c)'
  <1> DEFINE r == HandleReceived(c, rec)
  <1>1. Handles(c, rec, r) /\ (r.pc # exec[c] => rec.state = "RECEIVED")
    BY HandleReceivedHandles DEF Inv, TypeOK
  <1>2. OnlyReceived(r.rec)
    BY <1>1 DEF Handles, OnlyReceived
  <1>3. c \notin recovered => SendInv(c)
    BY DEF Inv
  <1> HIDE DEF r
  <1>4. c \notin recovered => SendInv(c)'
    BY <1>1, <1>3 DEF Handles, SendInv, r
  <1> QED
    BY <1>2, <1>4 DEF r

\* A step of the executor of c: the record moves to a send state, or stays.
LEMMA ExecutorKeeps ==
    ASSUME Inv, NEW c \in Commands, NEW rec, NEW k \in SendState, NEW pc \in {"idle", "calling"},
           Moves(journal[c], rec, k),
           exec[c] # "idle",
           ExecStep(c, rec, pc),
           pc = "calling" => /\ exec[c] = "preflight"
                             /\ rec.state # "RECEIVED",
           UNCHANGED <<sent, resumable, recovered, retired>>
    PROVE  /\ \A d \in Commands : OnlyReceived(journal'[d])
           /\ \A d \in Commands \ recovered' : SendInv(d)'
  <1>1. /\ journal' = [journal EXCEPT ![c] = rec]
        /\ exec' = [exec EXCEPT ![c] = pc]
    BY DEF ExecStep
  <1>2. ASSUME NEW d \in Commands PROVE OnlyReceived(journal'[d])
    BY <1>1 DEF Inv, TypeOK, Moves, OnlyReceived, SendState
  <1>3. ASSUME NEW d \in Commands \ recovered', d # c PROVE SendInv(d)'
    BY <1>1, <1>3 DEF Inv, TypeOK, SendInv
  <1>4. c \notin recovered => SendInv(c)'
    BY <1>1 DEF Inv, TypeOK, SendInv, Moves, SendState
  <1> QED
    BY <1>2, <1>3, <1>4

\* Every step keeps the invariant.
LEMMA InvStep == Inv /\ [Next]_vars => Inv'
  <1> SUFFICES ASSUME Inv, [Next]_vars
               PROVE  /\ \A d \in Commands : OnlyReceived(journal'[d])
                      /\ \A d \in Commands \ recovered' : SendInv(d)'
    BY TypeStep DEF Inv
  <1> DEFINE Goal == /\ \A d \in Commands : OnlyReceived(journal'[d])
                     /\ \A d \in Commands \ recovered' : SendInv(d)'
  <1>t. TypeOK /\ \A d \in Commands : journal[d] \in CommandRecord /\ exec[d] \in ExecState
    BY DEF Inv, TypeOK
  <1>1. ASSUME NEW c \in Commands, IngressDuplicate(c) PROVE Goal
    <2>1. OnlyReceived(journal'[c]) /\ (c \notin recovered' => SendInv(c)')
      BY <1>1, <1>t, DeliveryKeeps DEF IngressDuplicate, Inv, TypeOK, envVars
    <2>2. \A d \in Commands \ {c} : journal'[d] = journal[d] /\ exec'[d] = exec[d]
      BY <1>1, <1>t DEF IngressDuplicate, TypeOK
    <2> QED
      BY <1>1, <2>1, <2>2 DEF IngressDuplicate, Inv, SendInv, envVars
  <1>2. ASSUME NEW c \in Commands, IngressNew(c) PROVE Goal
    <2>1. OnlyReceived(journal'[c]) /\ (c \notin recovered' => SendInv(c)')
      <3>1. c \notin recovered => sent[c] = 0 /\ exec[c] = "idle"
        BY <1>2 DEF IngressNew, Deliverable, Inv, SendInv
      <3> QED
        BY <1>2, <3>1, <1>t, DeliveryKeeps, FreshRecords DEF IngressNew, TypeOK, envVars
    <2>2. \A d \in Commands \ {c} : journal'[d] = journal[d] /\ exec'[d] = exec[d]
      BY <1>2, <1>t DEF IngressNew, TypeOK
    <2> QED
      BY <1>2, <2>1, <2>2 DEF IngressNew, Inv, SendInv, envVars
  <1>3. ASSUME NEW c \in Commands, IngressUnderPressure(c) PROVE Goal
    <2>1. OnlyReceived(journal'[c]) /\ (c \notin recovered' => SendInv(c)')
      <3>1. c \notin recovered => sent[c] = 0 /\ exec[c] = "idle"
        BY <1>3 DEF IngressUnderPressure, Deliverable, Inv, SendInv
      <3>2. journal'[c] = HandleReceived(c, ReceivedRecord).rec
        BY <1>3 DEF IngressUnderPressure, CompactedJournal
      <3> QED
        BY <1>3, <3>1, <3>2, <1>t, DeliveryKeeps, FreshRecords
        DEF IngressUnderPressure, TypeOK, envVars
    <2>2. ASSUME NEW d \in Commands \ {c}
          PROVE  /\ exec'[d] = exec[d]
                 /\ journal'[d] = journal[d] \/ (journal'[d] = NoRecord /\ d \in retired)
      <3>1. d \in PressureVictims => d \in retired
        BY DEF PressureVictims, Compactable
      <3>2. journal'[d] = CompactedJournal(PressureVictims)[d]
        BY <1>3 DEF IngressUnderPressure, CompactedJournal
      <3> QED
        BY <1>3, <1>t, <3>1, <3>2 DEF IngressUnderPressure, CompactedJournal, TypeOK
    <2> QED
      BY <1>3, <2>1, <2>2, FreshRecords DEF IngressUnderPressure, Inv, SendInv, envVars
  <1>4. ASSUME NEW c \in Commands, PreflightPassed(c) PROVE Goal
    <2>1. MarkStarted(journal[c]).state # "RECEIVED"
      BY <1>t, MarkMoves, StartsReceived DEF Moves, Inv
    <2>2. CASE c \in expired
      <3>1. ExecStep(c, MarkRejected(journal[c]), "idle")
        BY <1>4, <2>2 DEF PreflightPassed
      <3> QED
        BY <1>4, <3>1, <1>t, MarkMoves, ExecutorKeeps DEF PreflightPassed, SendState, envVars
    <2>3. CASE c \notin expired
      <3>1. ExecStep(c, MarkStarted(journal[c]), "calling")
        BY <1>4, <2>3 DEF PreflightPassed
      <3> QED
        BY <1>4, <2>1, <3>1, <1>t, MarkMoves, ExecutorKeeps DEF PreflightPassed, SendState, envVars
    <2> QED
      BY <2>2, <2>3
  <1>5. ASSUME NEW c \in Commands, PreflightFailed(c) PROVE Goal
    BY <1>5, <1>t, MarkMoves, ExecutorKeeps DEF PreflightFailed, SendState, envVars
  <1>6. ASSUME NEW c \in Commands, SendEffect(c) PROVE Goal
    <2>1. ASSUME NEW d \in Commands \ recovered' PROVE SendInv(d)'
      BY <1>6, <1>t DEF SendEffect, Inv, SendInv, TypeOK, storageVars
    <2> QED
      BY <1>6, <2>1 DEF SendEffect, Inv, storageVars
  <1>7. ASSUME NEW c \in Commands, SendNoEffect(c) PROVE Goal
    <2>1. ASSUME NEW d \in Commands \ recovered' PROVE SendInv(d)'
      BY <1>7, <1>t DEF SendNoEffect, Inv, SendInv, TypeOK, storageVars, envVars
    <2> QED
      BY <1>7, <2>1 DEF SendNoEffect, Inv, storageVars
  <1>8. ASSUME NEW c \in Commands, SendWithoutContext(c) PROVE Goal
    BY <1>8, <1>t, MarkMoves, ExecutorKeeps DEF SendWithoutContext, SendState, envVars
  <1>9. ASSUME NEW c \in Commands, SendAmbiguous(c) PROVE Goal
    BY <1>9, <1>t, MarkMoves, ExecutorKeeps DEF SendAmbiguous, SendState, envVars
  <1>10. ASSUME NEW c \in Commands, SendReplied(c) PROVE Goal
    <2> DEFINE acc == AppendEvidence(journal[c], "SEND_ACCEPTED")
               ack == IF orphan[c] = "none" THEN acc ELSE AppendAckEvidence(acc, orphan[c])
    <2>1. Moves(journal[c], acc, "SEND_ACCEPTED")
      BY <1>t, AppendEvidenceMoves DEF SendState
    <2>2. Moves(journal[c], ack, "SEND_ACCEPTED")
      BY <2>1, <1>t, AppendAckMoves DEF Moves, TypeOK
    <2>3. CASE journal[c].state = "SEND_STARTED"
      <3>1. ExecStep(c, ack, "idle")
        BY <1>10, <2>3 DEF SendReplied
      <3> HIDE DEF ack
      <3> QED
        BY <1>10, <2>2, <3>1, ExecutorKeeps DEF SendReplied, SendState, envVars
    <2>4. CASE journal[c].state # "SEND_STARTED"
      <3>1. Moves(journal[c], journal[c], "SEND_ACCEPTED")
        BY <1>t DEF Moves
      <3> QED
        BY <1>10, <2>4, <3>1, ExecutorKeeps DEF SendReplied, SendState, envVars
    <2> QED
      BY <2>3, <2>4
  <1>11. CASE Enable
    <2>1. \A d \in Commands : /\ journal'[d].state \in {journal[d].state, "SEND_INDETERMINATE"}
                              /\ journal'[d].state \in {"NONE", "RECEIVED"} => journal'[d] = journal[d]
      BY <1>11, <1>t, MarkMoves DEF Enable, RecoveredRecord, Moves
    <2>2. ASSUME NEW d \in Commands PROVE OnlyReceived(journal'[d])
      BY <2>1 DEF OnlyReceived, Inv
    <2>3. ASSUME NEW d \in Commands \ recovered' PROVE SendInv(d)'
      <3>1. SendInv(d) /\ journal[d].state # "RECEIVED" /\ d \notin resumable'
        BY <1>11 DEF Enable, Resumable, Inv
      <3> QED
        BY <1>11, <2>1, <3>1 DEF Enable, SendInv
    <2> QED
      BY <2>2, <2>3
  <1>12. CASE Disable
    BY <1>12 DEF Disable, Inv, SendInv, storageVars
  <1>13. CASE Crash
    BY <1>13 DEF Crash, ProcessDies, Inv, SendInv
  <1>14. ASSUME NEW c \in Commands, CrashInReceive(c) PROVE Goal
    <2>1. \A d \in Commands : journal'[d] = IF d = c THEN ReceivedRecord ELSE journal[d]
      BY <1>14, <1>t DEF CrashInReceive, TypeOK
    <2>2. c \notin recovered => sent[c] = 0
      BY <1>14 DEF CrashInReceive, Deliverable, Inv, SendInv
    <2> QED
      BY <1>14, <2>1, <2>2, FreshRecords DEF CrashInReceive, ProcessDies, Inv, SendInv
  <1>15. ASSUME NEW c \in Commands, CrashInAccept(c) PROVE Goal
    <2> DEFINE acc == AppendEvidence(journal[c], "SEND_ACCEPTED")
    <2>1. Moves(journal[c], acc, "SEND_ACCEPTED")
      BY <1>t, AppendEvidenceMoves DEF SendState
    <2>2. acc.state \in SendState /\ OnlyReceived(acc)
      BY <1>15, <2>1 DEF CrashInAccept, Moves, SendState, OnlyReceived
    <2>3. \A d \in Commands : journal'[d] = IF d = c THEN acc ELSE journal[d]
      BY <1>15, <1>t DEF CrashInAccept, TypeOK
    <2> HIDE DEF acc
    <2> QED
      BY <1>15, <2>2, <2>3 DEF CrashInAccept, ProcessDies, Inv, SendInv, SendState
  <1>16. ASSUME NEW c \in Commands, CrashInCompact(c) PROVE Goal
    BY <1>16 DEF CrashInCompact, ProcessDies, Inv, SendInv
  <1>17. CASE TickHeartbeat
    BY <1>17 DEF TickHeartbeat, Inv, SendInv, envVars
  <1>18. CASE TickHeartbeatFails
    BY <1>18 DEF TickHeartbeatFails, Inv, SendInv, storageVars, envVars
  <1>19. CASE TickResume
    <2>1. ASSUME NEW d \in Commands PROVE OnlyReceived(journal'[d])
      <3>1. Handles(d, journal[d], Scheduled(d, journal[d]))
        BY <1>t, ScheduledHandles
      <3>2. journal'[d] \in {journal[d], Scheduled(d, journal[d]).rec}
        BY <1>19 DEF TickResume
      <3> QED
        BY <3>1, <3>2 DEF Handles, OnlyReceived, Inv
    <2>2. ASSUME NEW d \in Commands \ recovered' PROVE SendInv(d)'
      <3>1. SendInv(d) /\ d \notin resumable
        BY <1>19 DEF TickResume, Inv, SendInv, envVars
      <3>2. journal'[d] = journal[d] /\ exec'[d] = exec[d] /\ d \notin resumable'
        BY <1>19, <3>1 DEF TickResume
      <3> QED
        BY <1>19, <3>1, <3>2 DEF TickResume, SendInv, envVars
    <2> QED
      BY <2>1, <2>2
  <1>20. CASE TickFinish
    <2>1. ASSUME NEW d \in Commands
          PROVE  journal'[d] = journal[d] \/ (journal'[d] = NoRecord /\ d \in retired)
      <3>1. Compactable(d) => d \in retired
        BY DEF Compactable
      <3> QED
        BY <1>20, <3>1 DEF TickFinish, CompactedJournal
    <2> QED
      BY <1>20, <2>1, FreshRecords DEF TickFinish, Inv, SendInv, envVars
  <1>21. ASSUME NEW c \in Commands, PostEvidence(c) PROVE Goal
    BY <1>21 DEF PostEvidence, Inv, SendInv, storageVars
  <1>22. ASSUME NEW c \in Commands, PostFails(c) PROVE Goal
    BY <1>22 DEF PostFails, Inv, SendInv, storageVars, envVars
  <1>23. ASSUME NEW c \in Commands, MarkDelivered(c) PROVE Goal
    <2>1. ASSUME NEW d \in Commands
          PROVE  /\ journal'[d].state = journal[d].state
                 /\ OnlyReceived(journal[d]) => OnlyReceived(journal'[d])
      <3>1. posting[c] \in Nat
        BY <1>t DEF TypeOK
      <3>2. /\ Delivered(journal[c], posting[c]).state = journal[c].state
            /\ OnlyReceived(journal[c]) => OnlyReceived(Delivered(journal[c], posting[c]))
        BY <1>t, <3>1, DeliveredKeeps
      <3>3. journal'[d] = IF d = c THEN Delivered(journal[c], posting[c]) ELSE journal[d]
        BY <1>23, <1>t DEF MarkDelivered, TypeOK
      <3> QED
        BY <3>2, <3>3
    <2> QED
      BY <1>23, <2>1 DEF MarkDelivered, Inv, SendInv, envVars
  <1>24. ASSUME NEW c \in Commands, NEW status \in Acks, AckIndexed(c, status) PROVE Goal
    <2>1. ASSUME NEW d \in Commands
          PROVE  /\ journal'[d].state = journal[d].state
                 /\ journal[d].state # "SEND_ACCEPTED" => journal'[d] = journal[d]
      <3>1. journal'[d] = IF d = c THEN AppendAckEvidence(journal[c], status) ELSE journal[d]
        BY <1>24, <1>t DEF AckIndexed, TypeOK
      <3>2. status \in AckStatus
        OBVIOUS
      <3>3. LET rec == AppendAckEvidence(journal[c], status)
            IN  rec.state = journal[c].state /\ (journal[c].state # "SEND_ACCEPTED" => rec = journal[c])
        BY <1>t, <3>2, AppendAckMoves
      <3> QED
        BY <3>1, <3>3
    <2> QED
      BY <1>24, <2>1 DEF AckIndexed, Inv, SendInv, OnlyReceived, memoryVars, envVars
  <1>25. ASSUME NEW c \in Commands, NEW status \in Acks, AckOrphaned(c, status) PROVE Goal
    BY <1>25 DEF AckOrphaned, Inv, SendInv, memoryVars, envVars
  <1>26. CASE Rotate
    BY <1>26 DEF Rotate, Inv, SendInv, storageVars, memoryVars
  <1>27. ASSUME NEW c \in Commands, Expire(c) PROVE Goal
    BY <1>27 DEF Expire, Inv, SendInv, storageVars, memoryVars
  <1>28. ASSUME NEW c \in Commands, Retire(c) PROVE Goal
    BY <1>28 DEF Retire, Inv, SendInv, storageVars, memoryVars
  <1>29. CASE UNCHANGED vars
    BY <1>29 DEF Inv, SendInv, vars, storageVars, memoryVars, envVars
  <1> QED
    BY <1>1, <1>2, <1>3, <1>4, <1>5, <1>6, <1>7, <1>8, <1>9, <1>10, <1>11, <1>12, <1>13, <1>14,
       <1>15, <1>16, <1>17, <1>18, <1>19, <1>20, <1>21, <1>22, <1>23, <1>24, <1>25, <1>26, <1>27,
       <1>28, <1>29
    DEF Next

\* Whatever duplicates, crashes, restarts, rotations, lost answers and late
\* acknowledgements happen, a command that no restart found RECEIVED is handed
\* to conversations.send with an effect at most once.
THEOREM SentOnce == Spec => []SentOnceUnlessRecovered
  <1>1. Inv => SentOnceUnlessRecovered
    BY DEF Inv, SendInv, SentOnceUnlessRecovered
  <1> QED
    BY InvInit, InvStep, <1>1, PTL DEF Spec
-----------------------------------------------------------------------------
(* The evidence of a record and the entries of the Event Inbox.            *)

AckKinds == {"ACK_SENT", "ACK_DELIVERED", "ACK_READ", "ACK_FAILED"}

\* Acknowledgements never go backwards in a record.
AcksInOrder(rec) ==
    \A i \in DOMAIN rec.evidence : \A j \in 1..(i - 1) :
        /\ rec.evidence[j].kind = "ACK_READ" => rec.evidence[i].kind = "ACK_READ"
        /\ rec.evidence[j].kind = "ACK_DELIVERED" => rec.evidence[i].kind = "ACK_READ"

\* What every record of the journal is: no evidence without a record, no
\* outcome but the state, and acknowledgements of accepted messages only.
Proper(rec) ==
    /\ rec \in CommandRecord
    /\ rec.state = "NONE" => rec.evidence = <<>>
    /\ \A i \in DOMAIN rec.evidence :
         /\ Terminal(rec.evidence[i].kind) => rec.evidence[i].kind = rec.state
         /\ rec.evidence[i].kind \in AckKinds => rec.state = "SEND_ACCEPTED"
    /\ AcksInOrder(rec)

\* op holds the evidence of rec, and after it only entries not delivered yet.
Extends(rec, op) ==
    /\ DOMAIN rec.evidence \subseteq DOMAIN op.evidence
    /\ \A i \in DOMAIN rec.evidence : op.evidence[i] = rec.evidence[i]
    /\ \A i \in DOMAIN op.evidence \ DOMAIN rec.evidence : ~op.evidence[i].delivered

\* An operation of the journal: the record extended, and still missing or
\* recorded as it was.
Develops(rec, op) ==
    /\ Proper(op)
    /\ Extends(rec, op)
    /\ op.state = "NONE" <=> rec.state = "NONE"

LEMMA DevelopsNot ==
    ASSUME NEW rec, Proper(rec)
    PROVE  Develops(rec, rec)
  BY DEF Develops, Extends

\* One more entry at the end of the evidence.
LEMMA AddEvidenceAppends ==
    ASSUME NEW rec \in CommandRecord, NEW kind \in EvidenceKind
    PROVE  /\ AddEvidence(rec, kind) \in Seq(EvidenceEntry)
           /\ DOMAIN rec.evidence = 1..Len(rec.evidence) /\ Len(rec.evidence) \in Nat
           /\ DOMAIN AddEvidence(rec, kind) = 1..(Len(rec.evidence) + 1)
           /\ \A i \in 1..Len(rec.evidence) : AddEvidence(rec, kind)[i] = rec.evidence[i]
           /\ AddEvidence(rec, kind)[Len(rec.evidence) + 1] = [kind |-> kind, delivered |-> FALSE]
  BY DEF AddEvidence, CommandRecord, EvidenceEntry

\* A record not yet settled takes its next send state.
LEMMA AppendEvidenceDevelops ==
    ASSUME NEW rec, Proper(rec), NEW k \in SendState,
           rec.state \in {"RECEIVED", "SEND_STARTED"}
    PROVE  Develops(rec, AppendEvidence(rec, k))
  <1> DEFINE op == AppendEvidence(rec, k)
             n == Len(rec.evidence)
  <1>1. CASE HasKind(rec, {k})
    BY <1>1, DevelopsNot DEF AppendEvidence
  <1>2. CASE ~HasKind(rec, {k})
    <2>1. op = [state |-> k, evidence |-> AddEvidence(rec, k)]
      BY <1>2 DEF AppendEvidence
    <2>a. op.evidence = AddEvidence(rec, k) /\ k \in EvidenceKind /\ rec \in CommandRecord
      BY <2>1 DEF Proper, SendState
    <2> HIDE DEF op, EvidenceKind
    <2>2. /\ op.evidence \in Seq(EvidenceEntry)
          /\ DOMAIN rec.evidence = 1..n /\ n \in Nat
          /\ DOMAIN op.evidence = 1..(n + 1)
          /\ \A i \in 1..n : op.evidence[i] = rec.evidence[i]
          /\ op.evidence[n + 1] = [kind |-> k, delivered |-> FALSE]
      <3>1. /\ AddEvidence(rec, k) \in Seq(EvidenceEntry)
            /\ DOMAIN rec.evidence = 1..n /\ n \in Nat
            /\ DOMAIN AddEvidence(rec, k) = 1..(n + 1)
            /\ \A i \in 1..n : AddEvidence(rec, k)[i] = rec.evidence[i]
            /\ AddEvidence(rec, k)[n + 1] = [kind |-> k, delivered |-> FALSE]
        BY <2>a, AddEvidenceAppends, Zenon
      <3> QED
        BY <2>a, <3>1, Zenon
    <2>3. \A i \in 1..n : ~Terminal(rec.evidence[i].kind) /\ rec.evidence[i].kind \notin AckKinds
      BY <2>2 DEF Proper, Terminal
    <2>4. op.state = k /\ op \in CommandRecord
      BY <2>1, <2>2 DEF CommandRecord, SendState
    <2>5. \A i \in 1..n : op.evidence[i].kind \notin AckKinds
      BY <2>2, <2>3
    <2> HIDE DEF n
    <2>6. AcksInOrder(op)
      BY <2>2, <2>5, \A i \in 1..(n + 1) : \A j \in 1..(i - 1) : j \in 1..n DEF AcksInOrder, AckKinds
    <2>7. Proper(op)
      BY <2>2, <2>3, <2>4, <2>6 DEF Proper, SendState, AckKinds
    <2> QED
      BY <2>2, <2>4, <2>7 DEF Develops, Extends, SendState, op
  <1> QED
    BY <1>1, <1>2

LEMMA TransitionDevelops ==
    ASSUME NEW rec, Proper(rec), NEW k \in SendState
    PROVE  Develops(rec, Transition(rec, k))
  <1>1. CASE rec.state \in {"RECEIVED", "SEND_STARTED"}
    BY <1>1, DevelopsNot, AppendEvidenceDevelops DEF Transition
  <1>2. CASE rec.state \notin {"RECEIVED", "SEND_STARTED"}
    <2>1. rec.state = "NONE" \/ Terminal(rec.state)
      BY <1>2 DEF Proper, CommandRecord, Terminal
    <2> QED
      BY <2>1, DevelopsNot DEF Transition
  <1> QED
    BY <1>1, <1>2

LEMMA MarkDevelops ==
    ASSUME NEW rec, Proper(rec)
    PROVE  /\ Develops(rec, MarkStarted(rec))
           /\ Develops(rec, MarkRejected(rec))
           /\ Develops(rec, MarkIndeterminate(rec))
  BY TransitionDevelops DEF MarkStarted, MarkRejected, MarkIndeterminate, SendState

\* appendAckEvidence(): a delivered message is only ever read, a read one has
\* had its last acknowledgement.
LEMMA AppendAckDevelops ==
    ASSUME NEW rec, Proper(rec), NEW status \in AckStatus
    PROVE  Develops(rec, AppendAckEvidence(rec, status))
  <1> DEFINE op == AppendAckEvidence(rec, status)
             n == Len(rec.evidence)
             k == AckKind(status)
  <1>1. CASE rec.state # "SEND_ACCEPTED" \/ HasKind(rec, Supersedes(status))
    BY <1>1, DevelopsNot DEF AppendAckEvidence
  <1>2. CASE ~(rec.state # "SEND_ACCEPTED" \/ HasKind(rec, Supersedes(status)))
    <2>1. op = [state |-> rec.state, evidence |-> AddEvidence(rec, k)]
      BY <1>2 DEF AppendAckEvidence
    <2>2. k \in AckKinds /\ ~Terminal(k)
      BY DEF AckKind, AckKinds, Terminal
    <2>3. \A i \in DOMAIN rec.evidence :
            /\ rec.evidence[i].kind # "ACK_READ" \/ k = "ACK_READ"
            /\ rec.evidence[i].kind # "ACK_DELIVERED" \/ k = "ACK_READ"
      BY <1>2 DEF HasKind, Supersedes, AckKind
    <2>a. op.evidence = AddEvidence(rec, k) /\ k \in EvidenceKind /\ rec \in CommandRecord
      BY <2>1, <2>2 DEF Proper, AckKinds
    <2> HIDE DEF op, k
    <2>4. /\ op.evidence \in Seq(EvidenceEntry)
          /\ DOMAIN rec.evidence = 1..n /\ n \in Nat
          /\ DOMAIN op.evidence = 1..(n + 1)
          /\ \A i \in 1..n : op.evidence[i] = rec.evidence[i]
          /\ op.evidence[n + 1] = [kind |-> k, delivered |-> FALSE]
      <3>1. /\ AddEvidence(rec, k) \in Seq(EvidenceEntry)
            /\ DOMAIN rec.evidence = 1..n /\ n \in Nat
            /\ DOMAIN AddEvidence(rec, k) = 1..(n + 1)
            /\ \A i \in 1..n : AddEvidence(rec, k)[i] = rec.evidence[i]
            /\ AddEvidence(rec, k)[n + 1] = [kind |-> k, delivered |-> FALSE]
        BY <2>a, AddEvidenceAppends, Zenon
      <3> QED
        BY <2>a, <3>1, Zenon
    <2>5. op.state = rec.state /\ rec.state = "SEND_ACCEPTED" /\ op \in CommandRecord
      BY <1>2, <2>1, <2>4 DEF CommandRecord
    <2> HIDE DEF n
    <2>6. ASSUME NEW i \in DOMAIN op.evidence, NEW j \in 1..(i - 1)
          PROVE  /\ op.evidence[j].kind = "ACK_READ" => op.evidence[i].kind = "ACK_READ"
                 /\ op.evidence[j].kind = "ACK_DELIVERED" => op.evidence[i].kind = "ACK_READ"
      <3>1. j \in 1..n /\ op.evidence[j] = rec.evidence[j]
        BY <2>4
      <3>2. CASE i = n + 1
        <4>1. op.evidence[i].kind = k
          BY <2>4, <3>2
        <4> QED
          BY <2>3, <2>4, <3>1, <4>1
      <3>3. CASE i # n + 1
        <4>1. i \in 1..n /\ op.evidence[i] = rec.evidence[i]
          BY <2>4, <3>3
        <4> QED
          BY <2>4, <3>1, <4>1 DEF Proper, AcksInOrder
      <3> QED
        BY <3>2, <3>3
    <2>7. AcksInOrder(op)
      BY <2>6 DEF AcksInOrder
    <2>8. Proper(op)
      BY <2>2, <2>4, <2>5, <2>7 DEF Proper
    <2> QED
      BY <2>4, <2>5, <2>8 DEF Develops, Extends, op
  <1> QED
    BY <1>1, <1>2

\* A delivery mark leaves every kind and every other entry.
LEMMA DeliveredMarks ==
    ASSUME NEW rec, Proper(rec), NEW i \in DOMAIN rec.evidence
    PROVE  LET op == Delivered(rec, i) IN
           /\ Proper(op)
           /\ op.state = rec.state
           /\ DOMAIN op.evidence = DOMAIN rec.evidence
           /\ \A j \in DOMAIN rec.evidence :
                /\ op.evidence[j].kind = rec.evidence[j].kind
                /\ op.evidence[j].delivered <=> j = i \/ rec.evidence[j].delivered
  <1> DEFINE op == Delivered(rec, i)
  <1>1. rec.evidence \in Seq(EvidenceEntry) /\ rec \in CommandRecord
    BY DEF Proper, CommandRecord
  <1>2. DOMAIN rec.evidence = 1..Len(rec.evidence) /\ Len(rec.evidence) \in Nat /\ i \in Nat
    BY <1>1, LenProperties
  <1>3. op \in CommandRecord /\ op.state = rec.state
    BY <1>1, <1>2, DeliveredKeeps
  <1>4. /\ DOMAIN op.evidence = DOMAIN rec.evidence
        /\ \A j \in DOMAIN rec.evidence :
             op.evidence[j] = IF j = i THEN [kind |-> rec.evidence[i].kind, delivered |-> TRUE]
                                       ELSE rec.evidence[j]
    BY DEF Delivered
  <1> HIDE DEF op
  <1>5. ASSUME NEW j \in DOMAIN rec.evidence PROVE rec.evidence[j].delivered \in BOOLEAN
    BY <1>1, EvidenceKinds DEF EvidenceEntry
  <1>6. ASSUME NEW j \in DOMAIN rec.evidence
        PROVE  /\ op.evidence[j].kind = rec.evidence[j].kind
               /\ op.evidence[j].delivered <=> j = i \/ rec.evidence[j].delivered
    BY <1>4, <1>5
  <1>7. \A j \in DOMAIN rec.evidence : \A h \in 1..(j - 1) : h \in DOMAIN rec.evidence
    BY <1>2
  <1>8. AcksInOrder(op)
    BY <1>4, <1>6, <1>7 DEF Proper, AcksInOrder
  <1>9. rec.state = "NONE" => op.evidence = <<>>
    BY <1>2, <1>4 DEF Proper
  <1>10. Proper(op)
    BY <1>3, <1>4, <1>6, <1>8, <1>9 DEF Proper
  <1> QED
    BY <1>3, <1>4, <1>6, <1>10 DEF op

LEMMA ProperFresh ==
    /\ Proper(NoRecord) /\ Proper(ReceivedRecord)
    /\ Extends(NoRecord, ReceivedRecord)
    /\ NoRecord.evidence = <<>> /\ DOMAIN NoRecord.evidence = {}
  <1>1. /\ DOMAIN NoRecord.evidence = {} /\ NoRecord.evidence = <<>>
        /\ DOMAIN ReceivedRecord.evidence = {1}
        /\ ReceivedRecord.evidence[1] = [kind |-> "COMMAND_RECEIVED", delivered |-> FALSE]
    BY DEF NoRecord, ReceivedRecord
  <1> QED
    BY <1>1, FreshRecords DEF Proper, AcksInOrder, Extends, Terminal, AckKinds

LEMMA ExtendsTransitive ==
    ASSUME NEW a, NEW b, NEW d, Extends(a, b), Extends(b, d)
    PROVE  Extends(a, d)
  BY DEF Extends

LEMMA ScheduledDevelops ==
    ASSUME NEW c \in Commands, NEW rec, Proper(rec)
    PROVE  Develops(rec, Scheduled(c, rec).rec)
  BY MarkDevelops, DevelopsNot DEF Scheduled, ExecuteFirst

LEMMA HandleReceivedDevelops ==
    ASSUME NEW c \in Commands, NEW rec, Proper(rec)
    PROVE  Develops(rec, HandleReceived(c, rec).rec)
  BY MarkDevelops, DevelopsNot, ScheduledDevelops DEF HandleReceived

-----------------------------------------------------------------------------
(* The journal and the Event Inbox.                                        *)

\* What the journal of c and the Event Inbox say of each other: a delivery mark
\* is of an entry the Event Inbox stored; what it stored is in the record while
\* there is one; an entry being posted is stored and not marked yet; and only a
\* retired command can have lost its record.
Kept(c) ==
    LET ev == journal[c].evidence IN
    /\ \A i \in DOMAIN ev : ev[i].delivered => <<c, i, ev[i].kind>> \in inbox
    /\ \A e \in inbox :
         e[1] = c => IF journal[c].state = "NONE"
                     THEN c \in retired
                     ELSE e[2] \in DOMAIN ev /\ ev[e[2]].kind = e[3]
    /\ posting[c] # 0 => /\ posting[c] \in Pending(journal[c])
                         /\ <<c, posting[c], ev[posting[c]].kind>> \in inbox

\* The Event Inbox itself: sequence numbers without gaps, one kind for each, and
\* one outcome for each command.
InboxInOrder ==
    /\ \A e \in inbox : \A j \in 1..(e[2] - 1) : \E f \in inbox : f[1] = e[1] /\ f[2] = j
    /\ \A e, f \in inbox : e[1] = f[1] /\ e[2] = f[2] => e[3] = f[3]
    /\ \A e, f \in inbox : e[1] = f[1] /\ Terminal(e[3]) /\ Terminal(f[3]) => f[3] = e[3]

Outbox == /\ \A c \in Commands : Proper(journal[c]) /\ Kept(c)
          /\ InboxInOrder

\* The record of d is extended, created or compacted.
RecordStep(d) ==
    \/ Develops(journal[d], journal'[d])
    \/ /\ journal[d].state = "NONE" /\ d \notin retired
       /\ Proper(journal'[d]) /\ Extends(NoRecord, journal'[d])
    \/ Compactable(d) /\ journal'[d] = NoRecord

\* A step that neither posts nor marks evidence.
JournalStep ==
    /\ \A d \in Commands : RecordStep(d) /\ posting'[d] \in {posting[d], 0}
    /\ inbox' = inbox
    /\ retired \subseteq retired'

LEMMA SameJournal ==
    ASSUME TypeOK, \A d \in Commands : Proper(journal[d]), journal' = journal,
           posting' = posting \/ (\A d \in Commands : posting'[d] \in {posting[d], 0}),
           inbox' = inbox, retired \subseteq retired'
    PROVE  JournalStep
  BY DevelopsNot DEF JournalStep, RecordStep

\* One record changes.
LEMMA OneRecord ==
    ASSUME TypeOK, \A d \in Commands : Proper(journal[d]), NEW c \in Commands, NEW rec,
           journal' = [journal EXCEPT ![c] = rec],
           Develops(journal[c], rec),
           \A d \in Commands : posting'[d] \in {posting[d], 0}, UNCHANGED <<inbox, retired>>
    PROVE  JournalStep
  BY DevelopsNot DEF JournalStep, RecordStep, TypeOK

\* receiveCommand() writes the record of a command the journal does not know.
LEMMA CreatesRecord ==
    ASSUME NEW c \in Commands, Deliverable(c), journal[c].state = "NONE",
           journal'[c] \in {ReceivedRecord, HandleReceived(c, ReceivedRecord).rec}
    PROVE  RecordStep(c)
  <1>1. Develops(ReceivedRecord, HandleReceived(c, ReceivedRecord).rec)
    BY HandleReceivedDevelops, ProperFresh
  <1>2. Proper(journal'[c]) /\ Extends(ReceivedRecord, journal'[c])
    BY <1>1, ProperFresh, DevelopsNot DEF Develops
  <1>3. Extends(NoRecord, journal'[c])
    BY <1>2, ProperFresh, ExtendsTransitive
  <1> QED
    BY <1>2, <1>3 DEF RecordStep, Deliverable

\* Every step posts evidence, marks evidence, or is a step of the journal.
LEMMA NextJournal ==
    ASSUME TypeOK, \A d \in Commands : Proper(journal[d]), [Next]_vars
    PROVE  \/ \E c \in Commands : PostEvidence(c) \/ MarkDelivered(c)
           \/ JournalStep
  <1>t. journal \in [Commands -> CommandRecord] /\ posting \in [Commands -> Nat]
    BY DEF TypeOK
  <1>1. ASSUME NEW c \in Commands, IngressDuplicate(c) PROVE JournalStep
    <2>1. Develops(journal[c], HandleReceived(c, journal[c]).rec)
      BY HandleReceivedDevelops
    <2> QED
      BY <1>1, <2>1, OneRecord DEF IngressDuplicate, envVars
  <1>2. ASSUME NEW c \in Commands, IngressNew(c) PROVE JournalStep
    <2>1. journal'[c] = HandleReceived(c, ReceivedRecord).rec
      BY <1>2, <1>t DEF IngressNew
    <2>2. RecordStep(c)
      BY <1>2, <2>1, CreatesRecord DEF IngressNew
    <2>3. \A d \in Commands \ {c} : journal'[d] = journal[d]
      BY <1>2, <1>t DEF IngressNew
    <2> QED
      BY <1>2, <2>2, <2>3, DevelopsNot DEF IngressNew, JournalStep, RecordStep, envVars
  <1>3. ASSUME NEW c \in Commands, IngressUnderPressure(c) PROVE JournalStep
    <2>1. journal'[c] = HandleReceived(c, ReceivedRecord).rec
      BY <1>3 DEF IngressUnderPressure, CompactedJournal
    <2>2. RecordStep(c)
      BY <1>3, <2>1, CreatesRecord DEF IngressUnderPressure
    <2>3. \A d \in Commands \ {c} : journal'[d] = CompactedJournal(PressureVictims)[d]
      BY <1>3 DEF IngressUnderPressure, CompactedJournal
    <2>4. \A d \in Commands \ {c} : journal'[d] = journal[d] \/ (Compactable(d) /\ journal'[d] = NoRecord)
      BY <2>3 DEF CompactedJournal, PressureVictims
    <2> QED
      BY <1>3, <2>2, <2>4, DevelopsNot DEF IngressUnderPressure, JournalStep, RecordStep, envVars
  <1>4. ASSUME NEW c \in Commands, PreflightPassed(c) PROVE JournalStep
    <2>1. \E rec \in {MarkRejected(journal[c]), MarkStarted(journal[c])} :
            journal' = [journal EXCEPT ![c] = rec]
      BY <1>4 DEF PreflightPassed, ExecStep
    <2> QED
      BY <1>4, <2>1, MarkDevelops, OneRecord DEF PreflightPassed, envVars
  <1>5. ASSUME NEW c \in Commands, PreflightFailed(c) PROVE JournalStep
    BY <1>5, MarkDevelops, OneRecord DEF PreflightFailed, ExecStep, envVars
  <1>6. ASSUME NEW c \in Commands, SendEffect(c) \/ SendNoEffect(c) PROVE JournalStep
    BY <1>6, SameJournal DEF SendEffect, SendNoEffect, storageVars, envVars
  <1>7. ASSUME NEW c \in Commands, SendWithoutContext(c) \/ SendAmbiguous(c) PROVE JournalStep
    BY <1>7, MarkDevelops, OneRecord DEF SendWithoutContext, SendAmbiguous, ExecStep, envVars
  <1>8. ASSUME NEW c \in Commands, SendReplied(c) PROVE JournalStep
    <2>1. CASE journal[c].state = "SEND_STARTED"
      <3> DEFINE acc == AppendEvidence(journal[c], "SEND_ACCEPTED")
                 ack == IF orphan[c] = "none" THEN acc ELSE AppendAckEvidence(acc, orphan[c])
      <3>1. Develops(journal[c], acc)
        BY <2>1, AppendEvidenceDevelops DEF SendState
      <3>2. orphan[c] # "none" => orphan[c] \in AckStatus
        BY DEF TypeOK
      <3>3. Develops(acc, ack)
        BY <3>1, <3>2, AppendAckDevelops, DevelopsNot DEF Develops
      <3>4. journal' = [journal EXCEPT ![c] = ack]
        BY <1>8, <2>1 DEF SendReplied, ExecStep
      <3> HIDE DEF acc, ack
      <3>5. Develops(journal[c], ack)
        BY <3>1, <3>3, ExtendsTransitive DEF Develops
      <3> QED
        BY <1>8, <3>4, <3>5, OneRecord DEF SendReplied, envVars
    <2>2. CASE journal[c].state # "SEND_STARTED"
      <3>1. journal' = [journal EXCEPT ![c] = journal[c]]
        BY <1>8, <2>2 DEF SendReplied, ExecStep
      <3> QED
        BY <1>8, <3>1, DevelopsNot, OneRecord DEF SendReplied, envVars
    <2> QED
      BY <2>1, <2>2
  <1>9. CASE Enable
    <2>1. \A d \in Commands : Develops(journal[d], RecoveredRecord(journal[d]))
      BY MarkDevelops, DevelopsNot DEF RecoveredRecord
    <2>2. \A d \in Commands : journal'[d] = RecoveredRecord(journal[d])
      BY <1>9 DEF Enable
    <2> QED
      BY <1>9, <2>1, <2>2 DEF Enable, JournalStep, RecordStep
  <1>10. CASE Disable \/ Rotate \/ Crash \/ TickHeartbeat \/ TickHeartbeatFails
    BY <1>10, SameJournal
    DEF Disable, Rotate, Crash, ProcessDies, TickHeartbeat, TickHeartbeatFails,
        storageVars, memoryVars, envVars
  <1>11. ASSUME NEW c \in Commands, CrashInReceive(c) PROVE JournalStep
    <2>1. \A d \in Commands : journal'[d] = IF d = c THEN ReceivedRecord ELSE journal[d]
      BY <1>11, <1>t DEF CrashInReceive
    <2>2. RecordStep(c)
      BY <1>11, <2>1, CreatesRecord DEF CrashInReceive
    <2>3. \A d \in Commands : posting'[d] = 0
      BY <1>11 DEF CrashInReceive, ProcessDies
    <2> QED
      BY <1>11, <2>1, <2>2, <2>3, DevelopsNot DEF CrashInReceive, ProcessDies, JournalStep, RecordStep
  <1>12. ASSUME NEW c \in Commands, CrashInAccept(c) PROVE JournalStep
    <2>1. Develops(journal[c], AppendEvidence(journal[c], "SEND_ACCEPTED"))
      BY <1>12, AppendEvidenceDevelops DEF CrashInAccept, SendState
    <2>2. \A d \in Commands : posting'[d] = 0
      BY <1>12 DEF CrashInAccept, ProcessDies
    <2> QED
      BY <1>12, <2>1, <2>2, OneRecord DEF CrashInAccept, ProcessDies
  <1>13. ASSUME NEW c \in Commands, CrashInCompact(c) PROVE JournalStep
    BY <1>13, SameJournal DEF CrashInCompact, ProcessDies
  <1>14. CASE TickResume
    <2>1. \A d \in Commands : journal'[d] \in {journal[d], Scheduled(d, journal[d]).rec}
      BY <1>14 DEF TickResume
    <2> QED
      BY <1>14, <2>1, ScheduledDevelops, DevelopsNot DEF TickResume, JournalStep, RecordStep, envVars
  <1>15. CASE TickFinish
    <2>1. \A d \in Commands : journal'[d] = journal[d] \/ (Compactable(d) /\ journal'[d] = NoRecord)
      BY <1>15 DEF TickFinish, CompactedJournal
    <2> QED
      BY <1>15, <2>1, DevelopsNot DEF TickFinish, JournalStep, RecordStep, envVars
  <1>16. ASSUME NEW c \in Commands, PostFails(c) PROVE JournalStep
    <2>1. \A d \in Commands : posting'[d] \in {posting[d], 0}
      BY <1>16, <1>t DEF PostFails
    <2> QED
      BY <1>16, <2>1, SameJournal DEF PostFails, storageVars, envVars
  <1>17. ASSUME NEW c \in Commands, NEW status \in Acks, AckIndexed(c, status) PROVE JournalStep
    <2>1. Develops(journal[c], AppendAckEvidence(journal[c], status))
      BY AppendAckDevelops
    <2> QED
      BY <1>17, <2>1, OneRecord DEF AckIndexed, memoryVars, envVars
  <1>18. ASSUME NEW c \in Commands, NEW status \in Acks, AckOrphaned(c, status) PROVE JournalStep
    BY <1>18, SameJournal DEF AckOrphaned, memoryVars, envVars
  <1>19. ASSUME NEW c \in Commands, Expire(c) \/ Retire(c) PROVE JournalStep
    BY <1>19, SameJournal DEF Expire, Retire, storageVars, memoryVars
  <1>20. CASE UNCHANGED vars
    BY <1>20, SameJournal DEF vars, storageVars, memoryVars, envVars
  <1> QED
    BY <1>1, <1>2, <1>3, <1>4, <1>5, <1>6, <1>7, <1>8, <1>9, <1>10, <1>11, <1>12, <1>13, <1>14,
       <1>15, <1>16, <1>17, <1>18, <1>19, <1>20
    DEF Next

-----------------------------------------------------------------------------
(* Evidence is never lost.                                                 *)

LEMMA OutboxInit == Init => Outbox
  <1> SUFFICES ASSUME Init PROVE Outbox
    OBVIOUS
  <1>1. \A c \in Commands : journal[c] = NoRecord /\ posting[c] = 0 /\ inbox = {}
    BY DEF Init
  <1>2. \A c \in Commands : Proper(journal[c]) /\ Kept(c)
    BY <1>1, ProperFresh DEF Kept
  <1> QED
    BY <1>1, <1>2 DEF Outbox, InboxInOrder, Init

\* A record with nothing pending is wholly in the Event Inbox.
LEMMA DrainedIsStored ==
    ASSUME NEW c \in Commands, Kept(c), Proper(journal[c]), Pending(journal[c]) = {}
    PROVE  /\ posting[c] = 0
           /\ \A i \in DOMAIN journal[c].evidence : <<c, i, journal[c].evidence[i].kind>> \in inbox
  <1>1. \A i \in DOMAIN journal[c].evidence : journal[c].evidence[i].delivered
    BY DEF Pending
  <1> QED
    BY <1>1 DEF Kept

\* Steps of the journal leave what the Event Inbox stored true of the records.
LEMMA JournalKeeps ==
    ASSUME TypeOK, Outbox, JournalStep, NEW c \in Commands
    PROVE  Proper(journal'[c]) /\ Kept(c)'
  <1> USE DEF JournalStep
  <1>k. Kept(c) /\ Proper(journal[c]) /\ inbox' = inbox /\ posting'[c] \in {posting[c], 0}
    BY DEF Outbox
  <1>1. ASSUME Develops(journal[c], journal'[c]) PROVE Proper(journal'[c]) /\ Kept(c)'
    <2> DEFINE ev == journal[c].evidence
               op == journal'[c].evidence
    <2>1. /\ Proper(journal'[c]) /\ (journal'[c].state = "NONE" <=> journal[c].state = "NONE")
          /\ DOMAIN ev \subseteq DOMAIN op
          /\ \A i \in DOMAIN ev : op[i] = ev[i]
          /\ \A i \in DOMAIN op \ DOMAIN ev : ~op[i].delivered
      BY <1>1 DEF Develops, Extends
    <2>2. \A i \in DOMAIN op : op[i].delivered => <<c, i, op[i].kind>> \in inbox'
      BY <1>k, <2>1 DEF Kept
    <2>3. \A e \in inbox' :
            e[1] = c => IF journal'[c].state = "NONE"
                        THEN c \in retired'
                        ELSE e[2] \in DOMAIN op /\ op[e[2]].kind = e[3]
      BY <1>k, <2>1 DEF Kept
    <2>4. posting'[c] # 0 => /\ posting'[c] \in Pending(journal'[c])
                             /\ <<c, posting'[c], op[posting'[c]].kind>> \in inbox'
      <3> SUFFICES ASSUME posting'[c] # 0
                   PROVE  /\ posting'[c] \in Pending(journal'[c])
                          /\ <<c, posting'[c], op[posting'[c]].kind>> \in inbox'
        OBVIOUS
      <3>1. /\ posting'[c] = posting[c] /\ posting[c] \in DOMAIN ev /\ ~ev[posting[c]].delivered
            /\ <<c, posting[c], ev[posting[c]].kind>> \in inbox
        BY <1>k DEF Kept, Pending
      <3> QED
        BY <1>k, <2>1, <3>1 DEF Pending
    <2> QED
      BY <2>1, <2>2, <2>3, <2>4 DEF Kept
  <1>2. ASSUME journal[c].state = "NONE", c \notin retired,
               Proper(journal'[c]), Extends(NoRecord, journal'[c])
        PROVE  Proper(journal'[c]) /\ Kept(c)'
    <2>1. Pending(journal[c]) = {}
      BY <1>2, <1>k DEF Proper, Pending
    <2>2. posting'[c] = 0
      BY <1>k, <2>1, DrainedIsStored
    <2>3. \A e \in inbox' : e[1] # c
      BY <1>k, <1>2 DEF Kept
    <2>4. \A i \in DOMAIN journal'[c].evidence : ~journal'[c].evidence[i].delivered
      BY <1>2, ProperFresh DEF Extends
    <2> QED
      BY <1>2, <2>2, <2>3, <2>4 DEF Kept
  <1>3. ASSUME Compactable(c), journal'[c] = NoRecord
        PROVE  Proper(journal'[c]) /\ Kept(c)'
    <2>1. posting'[c] = 0
      BY <1>k, <1>3, DrainedIsStored DEF Compactable
    <2>2. c \in retired'
      BY <1>3 DEF Compactable
    <2> QED
      BY <1>3, <2>1, <2>2, ProperFresh, FreshRecords DEF Kept
  <1> QED
    BY <1>1, <1>2, <1>3 DEF RecordStep

\* The Event Inbox stores the first entry it lacks.
LEMMA PostKeeps ==
    ASSUME TypeOK, Outbox, NEW c \in Commands, PostEvidence(c)
    PROVE  Outbox'
  <1> DEFINE rec == journal[c]
             i == NextEvidence(rec)
             k == rec.evidence[i].kind
             x == <<c, i, k>>
  <1>1. /\ inbox' = inbox \cup {x}
        /\ posting' = [posting EXCEPT ![c] = i]
        /\ journal' = journal /\ retired' = retired
    BY DEF PostEvidence, storageVars
  <1>2. /\ Proper(rec) /\ Kept(c) /\ rec \in CommandRecord /\ rec.evidence \in Seq(EvidenceEntry)
        /\ Pending(rec) # {}
    BY DEF Outbox, Proper, CommandRecord, PostEvidence
  <1>3. Pending(rec) \subseteq Nat
    BY <1>2 DEF Pending
  <1>4. i \in Pending(rec) /\ \A j \in Pending(rec) : i <= j
    BY <1>2, <1>3, MinNat DEF NextEvidence
  <1>5. i \in DOMAIN rec.evidence /\ i \in Nat /\ ~rec.evidence[i].delivered
    BY <1>3, <1>4 DEF Pending
  <1>6. rec.state # "NONE"
    BY <1>2, <1>5 DEF Proper
  <1>7. \A j \in 1..(i - 1) : <<c, j, rec.evidence[j].kind>> \in inbox
    <2> TAKE j \in 1..(i - 1)
    <2>1. j \in DOMAIN rec.evidence /\ j < i
      BY <1>2, <1>5
    <2>2. j \notin Pending(rec)
      BY <1>4, <1>5, <2>1
    <2> QED
      BY <1>2, <2>1, <2>2 DEF Pending, Kept
  <1>8. \A e \in inbox : e[1] = c => e[2] \in DOMAIN rec.evidence /\ rec.evidence[e[2]].kind = e[3]
    BY <1>2, <1>6 DEF Kept
  <1>9. \A d \in Commands : posting'[d] = IF d = c THEN i ELSE posting[d]
    BY <1>1 DEF TypeOK
  <1>10. x \in inbox' /\ inbox \subseteq inbox' /\ x[1] = c /\ x[2] = i /\ x[3] = k
    BY <1>1
  <1>11. \A e \in inbox' : e \in inbox \/ e = x
    BY <1>1
  <1> HIDE DEF i, x
  <1>12. ASSUME NEW d \in Commands PROVE Kept(d)'
    <2>1. CASE d = c
      <3>1. \A e \in inbox' : e[1] = c => e[2] \in DOMAIN rec.evidence /\ rec.evidence[e[2]].kind = e[3]
        BY <1>5, <1>8, <1>10, <1>11
      <3>2. \A j \in DOMAIN rec.evidence : rec.evidence[j].delivered => <<c, j, rec.evidence[j].kind>> \in inbox'
        BY <1>2, <1>10 DEF Kept
      <3>3. <<c, i, rec.evidence[i].kind>> \in inbox'
        BY <1>10 DEF x
      <3> QED
        BY <1>1, <1>4, <1>6, <1>9, <2>1, <3>1, <3>2, <3>3 DEF Kept
    <2>2. CASE d # c
      <3>1. \A e \in inbox' : e[1] = d => e \in inbox
        BY <1>10, <1>11, <2>2
      <3>2. Kept(d)
        BY DEF Outbox
      <3> QED
        BY <1>1, <1>9, <1>10, <2>2, <3>1, <3>2 DEF Kept
    <2> QED
      BY <2>1, <2>2
  <1>13. InboxInOrder'
    <2>o. InboxInOrder
      BY DEF Outbox
    <2>1. ASSUME NEW e \in inbox', NEW j \in 1..(e[2] - 1)
          PROVE  \E f \in inbox' : f[1] = e[1] /\ f[2] = j
      <3>1. CASE e \in inbox
        BY <1>10, <2>o, <3>1 DEF InboxInOrder
      <3>2. CASE e = x
        <4>1. <<c, j, rec.evidence[j].kind>> \in inbox'
          BY <1>7, <1>10, <3>2
        <4> QED
          BY <1>10, <3>2, <4>1
      <3> QED
        BY <1>11, <3>1, <3>2
    <2>2. ASSUME NEW e \in inbox', NEW f \in inbox', e[1] = f[1]
          PROVE  /\ e[2] = f[2] => e[3] = f[3]
                 /\ Terminal(e[3]) /\ Terminal(f[3]) => f[3] = e[3]
      <3>1. CASE e \in inbox /\ f \in inbox
        BY <2>o, <2>2, <3>1 DEF InboxInOrder
      <3>2. CASE e = x \/ f = x
        <4>1. /\ e[2] \in DOMAIN rec.evidence /\ rec.evidence[e[2]].kind = e[3]
              /\ f[2] \in DOMAIN rec.evidence /\ rec.evidence[f[2]].kind = f[3]
          BY <1>5, <1>8, <1>10, <1>11, <2>2, <3>2
        <4> QED
          BY <1>2, <4>1 DEF Proper
      <3> QED
        BY <1>11, <3>1, <3>2
    <2> QED
      BY <2>1, <2>2 DEF InboxInOrder
  <1> QED
    BY <1>1, <1>12, <1>13 DEF Outbox

\* A delivery mark is of the entry that was posted.
LEMMA MarkKeeps ==
    ASSUME TypeOK, Outbox, NEW c \in Commands, MarkDelivered(c)
    PROVE  /\ Outbox'
           /\ journal'[c].state = journal[c].state
           /\ DOMAIN journal'[c].evidence = DOMAIN journal[c].evidence
           /\ \A j \in DOMAIN journal[c].evidence : journal'[c].evidence[j].kind = journal[c].evidence[j].kind
           /\ \A d \in Commands \ {c} : journal'[d] = journal[d]
  <1> DEFINE i == posting[c]
             ev == journal[c].evidence
             op == journal'[c].evidence
  <1>1. /\ \A d \in Commands : journal'[d] = IF d = c THEN Delivered(journal[c], i) ELSE journal[d]
        /\ \A d \in Commands : posting'[d] = IF d = c THEN 0 ELSE posting[d]
        /\ inbox' = inbox /\ retired' = retired
    BY DEF MarkDelivered, TypeOK, envVars
  <1>2. Proper(journal[c]) /\ Kept(c)
    BY DEF Outbox
  <1>3. i \in DOMAIN ev /\ <<c, i, ev[i].kind>> \in inbox
    BY <1>2 DEF MarkDelivered, Kept, Pending
  <1>4. /\ Proper(journal'[c]) /\ journal'[c].state = journal[c].state
        /\ DOMAIN op = DOMAIN ev
        /\ \A j \in DOMAIN ev : /\ op[j].kind = ev[j].kind
                                /\ op[j].delivered <=> j = i \/ ev[j].delivered
    BY <1>1, <1>2, <1>3, DeliveredMarks
  <1>5. Kept(c)'
    BY <1>1, <1>2, <1>3, <1>4 DEF Kept
  <1>6. ASSUME NEW d \in Commands, d # c PROVE Proper(journal'[d]) /\ Kept(d)'
    BY <1>1, <1>6 DEF Outbox, Kept
  <1>7. InboxInOrder'
    BY <1>1 DEF Outbox, InboxInOrder
  <1>8. Outbox'
    BY <1>4, <1>5, <1>6, <1>7 DEF Outbox
  <1> QED
    BY <1>1, <1>4, <1>8

LEMMA OutboxStep == TypeOK /\ Outbox /\ [Next]_vars => Outbox'
  <1> SUFFICES ASSUME TypeOK, Outbox, [Next]_vars PROVE Outbox'
    OBVIOUS
  <1>1. CASE JournalStep
    <2>1. InboxInOrder'
      BY <1>1 DEF JournalStep, Outbox, InboxInOrder
    <2> QED
      BY <1>1, <2>1, JournalKeeps DEF Outbox
  <1>2. ASSUME NEW c \in Commands, PostEvidence(c) \/ MarkDelivered(c) PROVE Outbox'
    BY <1>2, PostKeeps, MarkKeeps
  <1>3. \A c \in Commands : Proper(journal[c])
    BY DEF Outbox
  <1> QED
    BY <1>1, <1>2, <1>3, NextJournal

LEMMA OutboxHolds == Spec => [](TypeOK /\ Outbox)
  BY TypeInit, TypeStep, OutboxInit, OutboxStep, PTL DEF Spec

\* Evidence reaches the Event Inbox in sequence order and without gaps, no
\* number names two pieces of it, and acknowledgements never go backwards, with
\* any crash, repeated post and late acknowledgement.
THEOREM EvidenceKeepsItsOrder == Spec => []EvidenceInOrder
  <1>1. TypeOK /\ Outbox => EvidenceInOrder
    BY DEF Outbox, InboxInOrder, Proper, AcksInOrder, EvidenceInOrder
  <1> QED
    BY <1>1, OutboxHolds, PTL

\* What one step does to the evidence of one command.
Retained(c) ==
    \A i \in DOMAIN journal[c].evidence :
        LET e == journal[c].evidence[i] IN
        IF journal'[c].state = "NONE"
        THEN <<c, i, e.kind>> \in inbox
        ELSE i \in DOMAIN journal'[c].evidence /\ journal'[c].evidence[i].kind = e.kind

\* A record is removed only once the Event Inbox has all of its evidence, and
\* no recorded evidence is rewritten: compaction, its crashes, recovery and
\* every append included.
THEOREM EvidenceIsKept == Spec => EvidenceNeverLost
  <1>1. ASSUME TypeOK, Outbox, [Next]_vars, NEW c \in Commands PROVE Retained(c)
    <2>k. Proper(journal[c]) /\ Kept(c) /\ \A d \in Commands : Proper(journal[d])
      BY <1>1 DEF Outbox
    <2>1. ASSUME Develops(journal[c], journal'[c]) PROVE Retained(c)
      <3>1. journal'[c].state = "NONE" => journal[c].state = "NONE" /\ DOMAIN journal[c].evidence = {}
        BY <2>1, <2>k, ProperFresh DEF Develops, Proper
      <3> QED
        BY <2>1, <3>1 DEF Develops, Extends, Retained
    <2>2. ASSUME JournalStep PROVE Retained(c)
      <3>1. ASSUME journal[c].state = "NONE" PROVE Retained(c)
        BY <2>k, <3>1 DEF Proper, Retained
      <3>2. ASSUME Compactable(c), journal'[c] = NoRecord PROVE Retained(c)
        BY <2>k, <3>2, DrainedIsStored, FreshRecords DEF Compactable, Retained
      <3> QED
        BY <2>1, <2>2, <3>1, <3>2 DEF JournalStep, RecordStep
    <2>3. ASSUME NEW d \in Commands, PostEvidence(d) PROVE Retained(c)
      <3>1. journal' = journal
        BY <2>3 DEF PostEvidence, storageVars
      <3> QED
        BY <2>1, <2>k, <3>1, DevelopsNot
    <2>4. ASSUME NEW d \in Commands, MarkDelivered(d) PROVE Retained(c)
      <3>1. CASE c = d
        <4>1. /\ journal'[c].state = journal[c].state
              /\ DOMAIN journal'[c].evidence = DOMAIN journal[c].evidence
              /\ \A j \in DOMAIN journal[c].evidence :
                   journal'[c].evidence[j].kind = journal[c].evidence[j].kind
          BY <1>1, <2>4, <3>1, MarkKeeps
        <4>2. journal[c].state = "NONE" => DOMAIN journal[c].evidence = {}
          BY <2>k DEF Proper
        <4> QED
          BY <4>1, <4>2 DEF Retained
      <3>2. CASE c # d
        <4>1. journal'[c] = journal[c]
          BY <1>1, <2>4, <3>2, MarkKeeps
        <4> QED
          BY <2>1, <2>k, <4>1, DevelopsNot
      <3> QED
        BY <3>1, <3>2
    <2> QED
      BY <1>1, <2>2, <2>3, <2>4, <2>k, NextJournal
  <1>2. TypeOK /\ Outbox /\ [Next]_vars =>
          [\A c \in Commands : \A i \in DOMAIN journal[c].evidence :
              LET e == journal[c].evidence[i] IN
              IF journal'[c].state = "NONE"
              THEN <<c, i, e.kind>> \in inbox
              ELSE i \in DOMAIN journal'[c].evidence /\ journal'[c].evidence[i].kind = e.kind]_vars
    BY <1>1 DEF Retained
  <1> QED
    BY <1>2, OutboxHolds, PTL DEF Spec, EvidenceNeverLost

-----------------------------------------------------------------------------
(* The outcomes reported, and the text commands rejected.                  *)

\* Max picks the largest element of a non-empty set of bounded naturals.
LEMMA MaxBounded ==
    ASSUME NEW n \in Nat, NEW T \in SUBSET (1..n), T # {}
    PROVE  Max(T) \in T /\ \A y \in T : y <= Max(T)
  <1> DEFINE U == {n - x : x \in T}
  <1>1. U \in SUBSET Nat /\ U # {}
    <2>1. \A x \in T : n - x \in Nat
      OBVIOUS
    <2>2. PICK x \in T : TRUE
      OBVIOUS
    <2>3. n - x \in U
      OBVIOUS
    <2> QED
      BY <2>1, <2>3
  <1>2. Min(U) \in U /\ \A u \in U : Min(U) <= u
    BY <1>1, MinNat
  <1>3. PICK x \in T : Min(U) = n - x
    BY <1>2
  <1>4. \A y \in T : y <= x
    <2> TAKE y \in T
    <2>1. n - y \in U /\ Min(U) <= n - y
      BY <1>2
    <2> QED
      BY <1>3, <2>1
  <1> QED
    BY <1>4 DEF Max

\* The current generation is one of the retained, none of them is newer, and
\* merging another never brings an older one back.
LEMMA CurrentNewest ==
    ASSUME TypeOK
    PROVE  Current \in Nat /\ \A g \in bindings : g <= Current
  <1>1. bindings \in SUBSET (1..MaxGen) /\ MaxGen \in Nat
    BY DEF TypeOK
  <1>2. CASE bindings = {}
    BY <1>2 DEF Current
  <1>3. CASE bindings # {}
    <2>1. Max(bindings) \in bindings /\ \A y \in bindings : y <= Max(bindings)
      BY <1>1, <1>3, MaxBounded
    <2>2. Current = Max(bindings)
      BY <1>3 DEF Current
    <2>3. Current \in 1..MaxGen /\ \A g \in bindings : g <= Current
      BY <1>1, <2>1, <2>2, Zenon
    <2> QED
      BY <1>1, <2>3
  <1> QED
    BY <1>2, <1>3

LEMMA CurrentAdvances ==
    ASSUME TypeOK, bindings' = ApplyBinding(serverGen)
    PROVE  Current <= Current' /\ Current' \in Nat
  <1> DEFINE merged == bindings \cup {serverGen}
             m == Max(merged)
  <1>1. merged \subseteq 1..MaxGen /\ merged # {}
    BY DEF TypeOK
  <1>2. m \in merged /\ \A g \in merged : g <= m
    BY <1>1, MaxBounded
  <1>3. {h \in merged : h > m} = {}
    BY <1>1, <1>2
  <1>4. m \in bindings' /\ bindings' \subseteq merged
    <2>1. Cardinality({h \in merged : h > m}) = 0
      BY <1>3, FS_EmptySet
    <2> QED
      BY <1>2, <2>1 DEF ApplyBinding
  <1> HIDE DEF merged, m
  <1>5. Max(bindings') \in bindings' /\ m <= Max(bindings')
    BY <1>1, <1>4, MaxBounded
  <1>6. Current' = Max(bindings')
    BY <1>4 DEF Current
  <1>7. Current <= m
    <2>1. CASE bindings = {}
      BY <1>1, <1>2, <2>1 DEF Current
    <2>2. CASE bindings # {}
      <3>1. Current \in bindings
        BY <2>2, MaxBounded DEF TypeOK, Current
      <3>2. Current \in merged
        BY <3>1 DEF merged
      <3> QED
        BY <1>2, <3>2
    <2> QED
      BY <2>1, <2>2
  <1>8. Current \in Nat /\ m \in Nat /\ Max(bindings') \in Nat
    <2>1. m \in 1..MaxGen /\ Max(bindings') \in 1..MaxGen
      BY <1>1, <1>2, <1>4, <1>5
    <2>2. MaxGen \in Nat
      OBVIOUS
    <2> QED
      BY <2>1, <2>2, CurrentNewest
  <1> QED
    BY <1>5, <1>6, <1>7, <1>8

\* Why a command is rejected, and stays so: time and bindings do not go back.
Barred(c) == c \in expired \/ CommandGen[c] < Current

\* What the record of c says of the messages sent for it.  A text command has
\* no preflight, so once rejected nobody is left who could send it.
Sending(c) ==
    /\ journal[c].state = "RECEIVED" => exec[c] \in {"idle", "preflight"} /\ sent[c] = 0
    /\ journal[c].state = "NONE" /\ c \notin retired =>
         exec[c] = "idle" /\ sent[c] = 0 /\ c \notin resumable
    /\ exec[c] = "delivered" \/ journal[c].state = "SEND_ACCEPTED" => sent[c] >= 1
    /\ c \notin Images => /\ exec[c] # "preflight"
                          /\ journal[c].state = "SEND_REJECTED" =>
                               sent[c] = 0 /\ exec[c] = "idle" /\ Barred(c)

SendingInv == \A c \in Commands : Sending(c)

LEMMA SendingInit == Init => SendingInv
  BY FreshRecords DEF Init, SendingInv, Sending

\* A step that sends nothing and hands no more commands to resumeRecovered();
\* no step takes a reason to reject back, or a retention.
Onward == /\ \A d \in Commands : (Barred(d) => Barred(d)') /\ sent'[d] = sent[d]
          /\ retired \subseteq retired'
          /\ resumable' \subseteq resumable

LEMMA OnwardSame ==
    ASSUME UNCHANGED <<bindings, expired, retired, sent>>, resumable' \subseteq resumable
    PROVE  Onward
  BY DEF Onward, Barred, Current

\* Such a step leaves a command whose record stays in its state.
LEMMA SendingStays ==
    ASSUME SendingInv, Onward, NEW c \in Commands,
           exec'[c] \in {exec[c], "idle"}, journal'[c].state = journal[c].state
    PROVE  Sending(c)'
  BY DEF SendingInv, Sending, Onward

\* ... or whose record is compacted.
LEMMA SendingCompacted ==
    ASSUME SendingInv, Onward, NEW c \in Commands,
           exec'[c] = exec[c], journal'[c] = NoRecord, Compactable(c)
    PROVE  Sending(c)'
  BY FreshRecords DEF SendingInv, Sending, Onward, Compactable

\* execute() up to its first wait, for a record no later than its delivery.
LEMMA ScheduledSends ==
    ASSUME TypeOK, NEW c \in Commands, NEW rec \in CommandRecord, OnlyReceived(rec),
           CommandGen[c] \in bindings, exec[c] = "idle",
           c \notin Images /\ rec.state = "SEND_REJECTED" => Barred(c)
    PROVE  LET r == Scheduled(c, rec) IN
           /\ r.rec.state \in {rec.state, "SEND_STARTED", "SEND_REJECTED"}
           /\ rec.state = "NONE" => r.rec.state = "NONE"
           /\ rec.state # "RECEIVED" => r.rec = rec
           /\ r.pc \in {"idle", "preflight", "calling"}
           /\ r.pc = "calling" => r.rec.state # "RECEIVED"
           /\ c \in retired => r.pc = "idle"
           /\ c \notin Images => /\ r.pc # "preflight"
                                 /\ r.rec.state = "SEND_REJECTED" => r.pc = "idle" /\ Barred(c)
  <1>1. CommandGen[c] \in Nat /\ CommandGen[c] <= Current /\ Current \in Nat
    BY CurrentNewest DEF TypeOK
  <1>2. /\ MarkRejected(rec).state \in {rec.state, "SEND_REJECTED"}
        /\ MarkStarted(rec).state \in {rec.state, "SEND_STARTED"}
        /\ rec.state = "RECEIVED" => MarkStarted(rec).state = "SEND_STARTED"
        /\ rec.state = "NONE" => MarkRejected(rec).state = "NONE" /\ MarkStarted(rec).state = "NONE"
    BY MarkMoves, StartsReceived DEF Moves
  <1>3. rec.state # "RECEIVED" => MarkRejected(rec) = rec /\ MarkStarted(rec) = rec
    BY DEF MarkRejected, MarkStarted, Transition
  <1>4. CASE c \in expired \/ CommandGen[c] # Current
    <2>1. Scheduled(c, rec) = [rec |-> MarkRejected(rec), pc |-> "idle"] /\ Barred(c)
      BY <1>1, <1>4 DEF Scheduled, ExecuteFirst, Barred
    <2> QED
      BY <1>2, <1>3, <2>1
  <1>5. CASE ~(c \in expired \/ CommandGen[c] # Current)
    <2>1. c \notin retired /\ ~Barred(c)
      BY <1>1, <1>5 DEF TypeOK, Barred
    <2>2. CASE c \in Images
      <3>1. Scheduled(c, rec) = [rec |-> rec, pc |-> "preflight"]
        BY <1>5, <2>2 DEF Scheduled, ExecuteFirst
      <3> QED
        BY <2>1, <2>2, <3>1
    <2>3. CASE c \notin Images
      <3>1. Scheduled(c, rec) = [rec |-> MarkStarted(rec), pc |-> "calling"]
        BY <1>5, <2>3 DEF Scheduled, ExecuteFirst
      <3> QED
        BY <1>2, <1>3, <2>1, <2>3, <3>1
    <2> QED
      BY <2>2, <2>3
  <1> QED
    BY <1>4, <1>5

\* A delivery of c, of the record rec it is handled with.
LEMMA DeliverySends ==
    ASSUME TypeOK, SendingInv, NEW c \in Commands, Deliverable(c),
           NEW rec \in CommandRecord, OnlyReceived(rec), rec.state # "NONE",
           \/ rec = journal[c]
           \/ rec.state = "RECEIVED" /\ exec[c] = "idle" /\ sent[c] = 0,
           journal'[c] = HandleReceived(c, rec).rec,
           exec'[c] = HandleReceived(c, rec).pc,
           Onward
    PROVE  Sending(c)'
  <1>1. /\ CommandGen[c] \in Nat /\ CommandGen[c] <= Current /\ Current \in Nat
        /\ CommandGen[c] \in bindings
    BY CurrentNewest DEF TypeOK, Deliverable
  <1>o. /\ Barred(c) => Barred(c)'
        /\ sent'[c] = sent[c] /\ (c \in retired => c \in retired')
    BY DEF Onward
  <1>s. Sending(c)
    BY DEF SendingInv
  <1>2. CASE rec.state = "SEND_STARTED" /\ exec[c] = "idle"
    <2>1. HandleReceived(c, rec) = [rec |-> MarkIndeterminate(rec), pc |-> "idle"]
      BY <1>2 DEF HandleReceived
    <2>2. journal'[c].state \in {"SEND_STARTED", "SEND_INDETERMINATE"} /\ exec'[c] = "idle"
      BY <1>2, <2>1, MarkMoves DEF Moves
    <2> QED
      BY <1>2, <1>s, <2>2 DEF Sending
  <1>3. CASE rec.state = "RECEIVED" /\ CommandGen[c] # Current
    <2>1. HandleReceived(c, rec) = [rec |-> MarkRejected(rec), pc |-> exec[c]]
      BY <1>3 DEF HandleReceived
    <2>2. journal'[c].state \in {"RECEIVED", "SEND_REJECTED"} /\ exec'[c] = exec[c]
      BY <1>3, <2>1, MarkMoves DEF Moves
    <2>3. Barred(c)'
      BY <1>1, <1>3, <1>o DEF Barred
    <2> QED
      BY <1>3, <1>o, <1>s, <2>2, <2>3 DEF Sending
  <1>4. CASE rec.state = "RECEIVED" /\ CommandGen[c] = Current
    <2>1. HandleReceived(c, rec) = Scheduled(c, rec)
      BY <1>4 DEF HandleReceived
    <2>2. CASE exec[c] = "idle"
      <3> DEFINE r == Scheduled(c, rec)
      <3>1. /\ r.rec.state \in {rec.state, "SEND_STARTED", "SEND_REJECTED"}
            /\ r.pc \in {"idle", "preflight", "calling"}
            /\ r.pc = "calling" => r.rec.state # "RECEIVED"
            /\ c \notin Images => /\ r.pc # "preflight"
                                  /\ r.rec.state = "SEND_REJECTED" => r.pc = "idle" /\ Barred(c)
        BY <1>1, <1>4, <2>2, ScheduledSends
      <3>2. journal'[c] = r.rec /\ exec'[c] = r.pc
        BY <2>1
      <3> HIDE DEF r
      <3>3. sent[c] = 0
        BY <1>4, <1>s DEF Sending
      <3> QED
        BY <1>4, <1>o, <3>1, <3>2, <3>3 DEF Sending
    <2>3. CASE exec[c] # "idle"
      <3>1. journal'[c] = journal[c] /\ exec'[c] = exec[c]
        BY <2>1, <2>3 DEF Scheduled
      <3> QED
        BY <3>1, SendingStays
    <2> QED
      BY <2>2, <2>3
  <1>5. CASE rec.state # "RECEIVED" /\ ~(rec.state = "SEND_STARTED" /\ exec[c] = "idle")
    <2>1. journal'[c] = journal[c] /\ exec'[c] = exec[c]
      BY <1>5 DEF HandleReceived
    <2> QED
      BY <2>1, SendingStays
  <1> QED
    BY <1>2, <1>3, <1>4, <1>5

\* A step of the executor of c.
LEMMA ExecutorSends ==
    ASSUME TypeOK, SendingInv, NEW c \in Commands, NEW rec, NEW pc \in {"idle", "calling"},
           exec[c] # "idle", ExecStep(c, rec, pc), Onward,
           rec.state # journal[c].state =>
               /\ rec.state \in SendState
               /\ rec.state = "SEND_ACCEPTED" => exec[c] = "delivered"
               /\ rec.state = "SEND_REJECTED" => c \in Images,
           pc = "calling" => rec.state # "RECEIVED" /\ exec[c] = "preflight"
    PROVE  SendingInv'
  <1>1. \A d \in Commands : /\ journal'[d] = IF d = c THEN rec ELSE journal[d]
                            /\ exec'[d] = IF d = c THEN pc ELSE exec[d]
    BY DEF ExecStep, TypeOK
  <1>2. ASSUME NEW d \in Commands, d # c PROVE Sending(d)'
    BY <1>1, <1>2, SendingStays
  <1>3. Sending(c)'
    <2>1. Sending(c) /\ (c \in retired => c \in retired') /\ sent'[c] = sent[c]
      BY DEF SendingInv, Onward
    <2>2. journal'[c] = rec /\ exec'[c] = pc
      BY <1>1
    <2> QED
      BY <2>1, <2>2 DEF Sending, SendState
  <1> QED
    BY <1>2, <1>3 DEF SendingInv

LEMMA SendingStep == Inv /\ SendingInv /\ [Next]_vars => SendingInv'
  <1> SUFFICES ASSUME Inv, SendingInv, [Next]_vars PROVE SendingInv'
    OBVIOUS
  <1>t. TypeOK /\ \A d \in Commands : /\ journal[d] \in CommandRecord /\ OnlyReceived(journal[d])
                                      /\ exec[d] \in ExecState
    BY DEF Inv, TypeOK
  <1>j. journal \in [Commands -> CommandRecord] /\ exec \in [Commands -> ExecState]
    BY DEF Inv, TypeOK
  <1>1. ASSUME NEW c \in Commands, IngressDuplicate(c) PROVE SendingInv'
    <2>1. Onward
      BY <1>1, OnwardSame DEF IngressDuplicate, envVars
    <2>2. /\ journal'[c] = HandleReceived(c, journal[c]).rec
          /\ exec'[c] = HandleReceived(c, journal[c]).pc
          /\ \A d \in Commands \ {c} : journal'[d] = journal[d] /\ exec'[d] = exec[d]
      BY <1>1, <1>j DEF IngressDuplicate
    <2>3. Sending(c)'
      BY <1>1, <1>t, <2>1, <2>2, DeliverySends DEF IngressDuplicate
    <2> QED
      BY <2>1, <2>2, <2>3, SendingStays DEF SendingInv
  <1>2. ASSUME NEW c \in Commands, IngressNew(c) PROVE SendingInv'
    <2>1. Onward
      BY <1>2, OnwardSame DEF IngressNew, envVars
    <2>2. /\ journal'[c] = HandleReceived(c, ReceivedRecord).rec
          /\ exec'[c] = HandleReceived(c, ReceivedRecord).pc
          /\ \A d \in Commands \ {c} : journal'[d] = journal[d] /\ exec'[d] = exec[d]
      BY <1>2, <1>j DEF IngressNew
    <2>3. exec[c] = "idle" /\ sent[c] = 0
      BY <1>2 DEF IngressNew, Deliverable, SendingInv, Sending
    <2>4. Sending(c)'
      BY <1>2, <1>t, <2>1, <2>2, <2>3, DeliverySends, FreshRecords DEF IngressNew
    <2> QED
      BY <2>1, <2>2, <2>4, SendingStays DEF SendingInv
  <1>3. ASSUME NEW c \in Commands, IngressUnderPressure(c) PROVE SendingInv'
    <2>1. Onward
      BY <1>3, OnwardSame DEF IngressUnderPressure, envVars
    <2>2. /\ journal'[c] = HandleReceived(c, ReceivedRecord).rec
          /\ exec'[c] = HandleReceived(c, ReceivedRecord).pc
      BY <1>3, <1>j DEF IngressUnderPressure, CompactedJournal
    <2>3. exec[c] = "idle" /\ sent[c] = 0
      BY <1>3 DEF IngressUnderPressure, Deliverable, SendingInv, Sending
    <2>4. Sending(c)'
      BY <1>3, <1>t, <2>1, <2>2, <2>3, DeliverySends, FreshRecords DEF IngressUnderPressure
    <2>5. ASSUME NEW d \in Commands \ {c} PROVE Sending(d)'
      <3>1. exec'[d] = exec[d] /\ journal'[d] = CompactedJournal(PressureVictims)[d]
        BY <1>3, <1>j DEF IngressUnderPressure, CompactedJournal
      <3>2. journal'[d] = journal[d] \/ (Compactable(d) /\ journal'[d] = NoRecord)
        BY <3>1 DEF CompactedJournal, PressureVictims
      <3> QED
        BY <2>1, <3>1, <3>2, SendingStays, SendingCompacted
    <2> QED
      BY <2>4, <2>5 DEF SendingInv
  <1>4. ASSUME NEW c \in Commands, PreflightPassed(c) PROVE SendingInv'
    <2>1. Onward
      BY <1>4, OnwardSame DEF PreflightPassed, envVars
    <2>2. exec[c] = "preflight" /\ c \in Images
      BY <1>4 DEF PreflightPassed, SendingInv, Sending
    <2>3. /\ MarkRejected(journal[c]).state \in {journal[c].state, "SEND_REJECTED"}
          /\ MarkStarted(journal[c]).state \in {journal[c].state, "SEND_STARTED"}
          /\ MarkStarted(journal[c]).state # "RECEIVED"
      BY <1>t, MarkMoves, StartsReceived DEF Moves
    <2>4. \/ ExecStep(c, MarkRejected(journal[c]), "idle")
          \/ ExecStep(c, MarkStarted(journal[c]), "calling")
      BY <1>4 DEF PreflightPassed
    <2> QED
      BY <1>t, <2>1, <2>2, <2>3, <2>4, ExecutorSends DEF SendState
  <1>5. ASSUME NEW c \in Commands, PreflightFailed(c) PROVE SendingInv'
    <2>1. Onward
      BY <1>5, OnwardSame DEF PreflightFailed, envVars
    <2>2. exec[c] = "preflight" /\ c \in Images
      BY <1>5 DEF PreflightFailed, SendingInv, Sending
    <2>3. MarkRejected(journal[c]).state \in {journal[c].state, "SEND_REJECTED"}
      BY <1>t, MarkMoves DEF Moves
    <2> QED
      BY <1>5, <1>t, <2>1, <2>2, <2>3, ExecutorSends DEF PreflightFailed, SendState
  <1>6. ASSUME NEW c \in Commands, SendEffect(c) PROVE SendingInv'
    <2>1. /\ \A d \in Commands : /\ sent'[d] = IF d = c THEN sent[c] + 1 ELSE sent[d]
                                 /\ exec'[d] = IF d = c THEN "delivered" ELSE exec[d]
          /\ exec[c] = "calling" /\ sent[c] \in Nat
          /\ UNCHANGED <<journal, bindings, expired, retired, resumable>>
      BY <1>6, <1>t DEF SendEffect, TypeOK, storageVars
    <2>2. \A d \in Commands : Barred(d) => Barred(d)'
      BY <2>1 DEF Barred, Current
    <2>3. ASSUME NEW d \in Commands PROVE Sending(d)'
      BY <2>1, <2>2 DEF SendingInv, Sending
    <2> QED
      BY <2>3 DEF SendingInv
  <1>7. ASSUME NEW c \in Commands, SendNoEffect(c) PROVE SendingInv'
    <2>1. Onward
      BY <1>7, OnwardSame DEF SendNoEffect, storageVars, envVars
    <2>2. /\ \A d \in Commands : exec'[d] = IF d = c THEN "lost" ELSE exec[d]
          /\ exec[c] = "calling" /\ journal' = journal
      BY <1>7, <1>j DEF SendNoEffect, storageVars
    <2>3. ASSUME NEW d \in Commands PROVE Sending(d)'
      BY <2>1, <2>2 DEF SendingInv, Sending, Onward
    <2> QED
      BY <2>3 DEF SendingInv
  <1>8. ASSUME NEW c \in Commands, SendWithoutContext(c) \/ SendAmbiguous(c) PROVE SendingInv'
    <2>1. Onward
      BY <1>8, OnwardSame DEF SendWithoutContext, SendAmbiguous, envVars
    <2>2. MarkIndeterminate(journal[c]).state \in {journal[c].state, "SEND_INDETERMINATE"}
      BY <1>t, MarkMoves DEF Moves
    <2>3. exec[c] # "idle" /\ ExecStep(c, MarkIndeterminate(journal[c]), "idle")
      BY <1>8 DEF SendWithoutContext, SendAmbiguous
    <2> QED
      BY <1>t, <2>1, <2>2, <2>3, ExecutorSends DEF SendState
  <1>9. ASSUME NEW c \in Commands, SendReplied(c) PROVE SendingInv'
    <2>1. Onward
      BY <1>9, OnwardSame DEF SendReplied, envVars
    <2> DEFINE acc == AppendEvidence(journal[c], "SEND_ACCEPTED")
               ack == IF orphan[c] = "none" THEN acc ELSE AppendAckEvidence(acc, orphan[c])
    <2>2. Moves(journal[c], acc, "SEND_ACCEPTED")
      BY <1>t, AppendEvidenceMoves DEF SendState
    <2>3. orphan[c] # "none" => orphan[c] \in AckStatus
      BY <1>t DEF TypeOK
    <2>4. ack.state \in {journal[c].state, "SEND_ACCEPTED"}
      BY <2>2, <2>3, AppendAckMoves DEF Moves
    <2>5. \E rec \in {ack, journal[c]} : ExecStep(c, rec, "idle")
      BY <1>9 DEF SendReplied
    <2>6. exec[c] = "delivered"
      BY <1>9 DEF SendReplied
    <2> HIDE DEF ack, acc
    <2> QED
      BY <1>t, <2>1, <2>4, <2>5, <2>6, ExecutorSends DEF SendState
  <1>10. CASE Enable
    <2>1. \A d \in Commands : Barred(d) => Barred(d)'
      BY <1>10 DEF Enable, Barred, Current
    <2>2. \A d \in Commands :
            /\ journal'[d].state \in {journal[d].state, "SEND_INDETERMINATE"}
            /\ journal[d].state = "NONE" => journal'[d].state = "NONE"
            /\ d \in resumable' => journal'[d].state = "RECEIVED"
      BY <1>10, <1>t, MarkMoves DEF Enable, RecoveredRecord, Resumable, Moves
    <2>3. ASSUME NEW d \in Commands PROVE Sending(d)'
      BY <1>10, <2>1, <2>2 DEF Enable, SendingInv, Sending
    <2> QED
      BY <2>3 DEF SendingInv
  <1>11. CASE Disable \/ TickHeartbeatFails \/ Rotate
    <2>1. Onward
      BY <1>11, OnwardSame DEF Disable, TickHeartbeatFails, Rotate, storageVars, memoryVars, envVars
    <2>2. journal' = journal /\ exec' = exec
      BY <1>11 DEF Disable, TickHeartbeatFails, Rotate, storageVars, memoryVars
    <2> QED
      BY <2>1, <2>2, SendingStays DEF SendingInv
  <1>12. ASSUME Crash \/ (\E c \in Commands : CrashInCompact(c)) PROVE SendingInv'
    <2>1. Onward
      BY <1>12, OnwardSame DEF Crash, CrashInCompact, ProcessDies
    <2>2. journal' = journal /\ \A d \in Commands : exec'[d] = "idle"
      BY <1>12 DEF Crash, CrashInCompact, ProcessDies
    <2> QED
      BY <2>1, <2>2, SendingStays DEF SendingInv
  <1>13. ASSUME NEW c \in Commands, CrashInReceive(c) PROVE SendingInv'
    <2>1. Onward
      BY <1>13, OnwardSame DEF CrashInReceive, ProcessDies
    <2>2. /\ \A d \in Commands : exec'[d] = "idle"
          /\ \A d \in Commands : journal'[d] = IF d = c THEN ReceivedRecord ELSE journal[d]
      BY <1>13, <1>j DEF CrashInReceive, ProcessDies
    <2>3. sent[c] = 0
      BY <1>13 DEF CrashInReceive, Deliverable, SendingInv, Sending
    <2>4. Sending(c)'
      BY <2>1, <2>2, <2>3, FreshRecords DEF Sending, Onward
    <2> QED
      BY <2>1, <2>2, <2>4, SendingStays DEF SendingInv
  <1>14. ASSUME NEW c \in Commands, CrashInAccept(c) PROVE SendingInv'
    <2> DEFINE acc == AppendEvidence(journal[c], "SEND_ACCEPTED")
    <2>1. Onward
      BY <1>14, OnwardSame DEF CrashInAccept, ProcessDies
    <2>2. /\ \A d \in Commands : exec'[d] = "idle"
          /\ \A d \in Commands : journal'[d] = IF d = c THEN acc ELSE journal[d]
      BY <1>14, <1>j DEF CrashInAccept, ProcessDies
    <2>3. acc.state \in {"SEND_STARTED", "SEND_ACCEPTED"}
      BY <1>14, <1>t, AppendEvidenceMoves DEF CrashInAccept, Moves, SendState
    <2>4. sent[c] >= 1
      BY <1>14 DEF CrashInAccept, SendingInv, Sending
    <2> HIDE DEF acc
    <2>5. Sending(c)'
      BY <2>1, <2>2, <2>3, <2>4 DEF Sending, Onward
    <2> QED
      BY <2>1, <2>2, <2>5, SendingStays DEF SendingInv
  <1>15. CASE TickHeartbeat
    <2>1. Current <= Current' /\ Current' \in Nat /\ Current \in Nat
      BY <1>15, <1>t, CurrentAdvances, CurrentNewest DEF TickHeartbeat
    <2>2. \A d \in Commands : CommandGen[d] \in Nat
      OBVIOUS
    <2>3. \A d \in Commands : Barred(d) => Barred(d)'
      BY <1>15, <2>1, <2>2 DEF TickHeartbeat, Barred, envVars
    <2>4. Onward
      BY <1>15, <2>3 DEF TickHeartbeat, Onward, envVars
    <2>5. journal' = journal /\ exec' = exec
      BY <1>15 DEF TickHeartbeat
    <2> QED
      BY <2>4, <2>5, SendingStays DEF SendingInv
  <1>16. CASE TickResume
    <2>1. Onward
      BY <1>16, OnwardSame DEF TickResume, envVars
    <2>2. ASSUME NEW d \in Commands PROVE Sending(d)'
      <3> DEFINE r == Scheduled(d, journal[d])
      <3>1. \/ journal'[d] = journal[d] /\ exec'[d] = exec[d]
            \/ /\ d \in resumable /\ CommandGen[d] \in bindings
               /\ journal'[d] = r.rec /\ exec'[d] = r.pc
        BY <1>16 DEF TickResume
      <3>2. ASSUME d \in resumable, CommandGen[d] \in bindings, exec[d] = "idle",
                   journal'[d] = r.rec, exec'[d] = r.pc
            PROVE  Sending(d)'
        <4>1. Sending(d)
          BY DEF SendingInv
        <4>2. /\ r.rec.state \in {journal[d].state, "SEND_STARTED", "SEND_REJECTED"}
              /\ journal[d].state = "NONE" => r.rec.state = "NONE"
              /\ journal[d].state # "RECEIVED" => r.rec = journal[d]
              /\ r.pc \in {"idle", "preflight", "calling"}
              /\ r.pc = "calling" => r.rec.state # "RECEIVED"
              /\ d \in retired => r.pc = "idle"
              /\ d \notin Images => /\ r.pc # "preflight"
                                    /\ r.rec.state = "SEND_REJECTED" => r.pc = "idle" /\ Barred(d)
          BY <1>t, <3>2, <4>1, ScheduledSends DEF Sending
        <4>3. /\ Barred(d) => Barred(d)'
              /\ sent'[d] = sent[d] /\ retired \subseteq retired'
          BY <2>1 DEF Onward
        <4> HIDE DEF r
        <4> QED
          BY <3>2, <4>1, <4>2, <4>3 DEF Sending
      <3>3. exec[d] # "idle" => r.rec = journal[d] /\ r.pc = exec[d]
        BY DEF Scheduled
      <3> QED
        BY <2>1, <3>1, <3>2, <3>3, SendingStays
    <2> QED
      BY <2>2 DEF SendingInv
  <1>17. CASE TickFinish
    <2>1. Onward
      BY <1>17, OnwardSame DEF TickFinish, envVars
    <2>2. ASSUME NEW d \in Commands
          PROVE  /\ exec'[d] = exec[d]
                 /\ journal'[d] = journal[d] \/ (Compactable(d) /\ journal'[d] = NoRecord)
      BY <1>17 DEF TickFinish, CompactedJournal
    <2> QED
      BY <2>1, <2>2, SendingStays, SendingCompacted DEF SendingInv
  <1>18. ASSUME NEW c \in Commands, PostEvidence(c) \/ PostFails(c) PROVE SendingInv'
    <2>1. Onward
      BY <1>18, OnwardSame DEF PostEvidence, PostFails, storageVars, envVars
    <2>2. journal' = journal /\ exec' = exec
      BY <1>18 DEF PostEvidence, PostFails, storageVars
    <2> QED
      BY <2>1, <2>2, SendingStays DEF SendingInv
  <1>19. ASSUME NEW c \in Commands, MarkDelivered(c) PROVE SendingInv'
    <2>1. Onward
      BY <1>19, OnwardSame DEF MarkDelivered, envVars
    <2>2. \A d \in Commands : journal'[d].state = journal[d].state /\ exec'[d] = exec[d]
      BY <1>19, <1>j DEF MarkDelivered, Delivered
    <2> QED
      BY <2>1, <2>2, SendingStays DEF SendingInv
  <1>20. ASSUME NEW c \in Commands, NEW status \in Acks, AckIndexed(c, status) PROVE SendingInv'
    <2>1. Onward
      BY <1>20, OnwardSame DEF AckIndexed, memoryVars, envVars
    <2>2. \A d \in Commands : journal'[d].state = journal[d].state /\ exec'[d] = exec[d]
      BY <1>20, <1>j, AppendAckMoves DEF AckIndexed, memoryVars
    <2> QED
      BY <2>1, <2>2, SendingStays DEF SendingInv
  <1>21. ASSUME NEW c \in Commands, NEW status \in Acks, AckOrphaned(c, status) PROVE SendingInv'
    <2>1. Onward
      BY <1>21, OnwardSame DEF AckOrphaned, memoryVars, envVars
    <2>2. journal' = journal /\ exec' = exec
      BY <1>21 DEF AckOrphaned, memoryVars
    <2> QED
      BY <2>1, <2>2, SendingStays DEF SendingInv
  <1>22. ASSUME NEW c \in Commands, Expire(c) \/ Retire(c) PROVE SendingInv'
    <2>1. /\ expired \subseteq expired' /\ retired \subseteq retired'
          /\ UNCHANGED <<journal, exec, bindings, sent, resumable>>
      BY <1>22 DEF Expire, Retire, storageVars, memoryVars
    <2>2. Onward
      BY <2>1 DEF Onward, Barred, Current
    <2> QED
      BY <2>1, <2>2, SendingStays DEF SendingInv
  <1>23. CASE UNCHANGED vars
    <2>1. Onward
      BY <1>23, OnwardSame DEF vars, storageVars, memoryVars, envVars
    <2>2. journal' = journal /\ exec' = exec
      BY <1>23 DEF vars, storageVars, memoryVars
    <2> QED
      BY <2>1, <2>2, SendingStays DEF SendingInv
  <1> QED
    BY <1>1, <1>2, <1>3, <1>4, <1>5, <1>6, <1>7, <1>8, <1>9, <1>10, <1>11, <1>12, <1>13, <1>14,
       <1>15, <1>16, <1>17, <1>18, <1>19, <1>20, <1>21, <1>22, <1>23
    DEF Next

\* A text command that the connector reported as rejected was never sent,
\* neither before nor after: not by a redelivery, a recovered record resumed
\* late, or an executor that outlived a restart.
THEOREM RejectedTextIsNeverSent == Spec => []RejectedTextNeverSent
  <1>1. SendingInv => RejectedTextNeverSent
    BY DEF SendingInv, Sending, RejectedTextNeverSent
  <1> QED
    BY <1>1, InvInit, InvStep, SendingInit, SendingStep, PTL DEF Spec

\* What the Event Inbox holds accepted was sent.
Real == \A e \in inbox : e[1] \in Commands /\ (e[3] = "SEND_ACCEPTED" => sent[e[1]] >= 1)

LEMMA RealStep == TypeOK /\ Outbox /\ SendingInv /\ Real /\ [Next]_vars => Real'
  <1> SUFFICES ASSUME TypeOK, Outbox, SendingInv, Real, [Next]_vars PROVE Real'
    OBVIOUS
  <1>1. \A c \in Commands : sent[c] \in Nat /\ sent'[c] \in Nat /\ sent'[c] >= sent[c]
    <2>1. \A c \in Commands : sent[c] \in Nat
      BY DEF TypeOK
    <2>2. sent' = sent \/ \E c \in Commands : sent' = [sent EXCEPT ![c] = @ + 1]
      BY DEF Next, vars, IngressDuplicate, IngressNew, IngressUnderPressure, PreflightPassed,
             PreflightFailed, SendEffect, SendNoEffect, SendWithoutContext, SendAmbiguous,
             SendReplied, CrashInReceive, CrashInAccept, CrashInCompact, PostEvidence, PostFails,
             MarkDelivered, Expire, Retire, AckIndexed, AckOrphaned, Enable, Disable, Crash,
             ProcessDies, TickHeartbeat, TickHeartbeatFails, TickResume, TickFinish, Rotate, envVars
    <2> QED
      BY <2>1, <2>2 DEF TypeOK
  <1>2. ASSUME inbox' = inbox PROVE Real'
    <2>1. ASSUME NEW e \in inbox'
          PROVE  e[1] \in Commands /\ (e[3] = "SEND_ACCEPTED" => sent'[e[1]] >= 1)
      <3>1. e[1] \in Commands /\ (e[3] = "SEND_ACCEPTED" => sent[e[1]] >= 1)
        BY <1>2, <2>1 DEF Real
      <3> QED
        BY <1>1, <3>1
    <2> QED
      BY <2>1 DEF Real
  <1>3. ASSUME NEW c \in Commands, PostEvidence(c) PROVE Real'
    <2> DEFINE rec == journal[c]
               i == NextEvidence(rec)
               x == <<c, i, rec.evidence[i].kind>>
    <2>1. inbox' = inbox \cup {x} /\ sent' = sent /\ Pending(rec) # {}
      BY <1>3 DEF PostEvidence
    <2>2. Proper(rec) /\ Pending(rec) \subseteq Nat
      BY DEF Outbox, Proper, Pending, CommandRecord
    <2>3. i \in DOMAIN rec.evidence
      BY <2>1, <2>2, MinNat DEF NextEvidence, Pending
    <2>4. rec.evidence[i].kind = "SEND_ACCEPTED" => sent[c] >= 1
      BY <2>2, <2>3 DEF Proper, Terminal, SendingInv, Sending
    <2>5. ASSUME NEW e \in inbox'
          PROVE  e[1] \in Commands /\ (e[3] = "SEND_ACCEPTED" => sent'[e[1]] >= 1)
      <3>1. CASE e \in inbox
        BY <2>1, <3>1 DEF Real
      <3>2. CASE e = x
        BY <2>1, <2>4, <3>2
      <3> QED
        BY <2>1, <3>1, <3>2
    <2> QED
      BY <2>5 DEF Real
  <1>4. ASSUME NEW c \in Commands, MarkDelivered(c) PROVE Real'
    BY <1>2, <1>4 DEF MarkDelivered, envVars
  <1> QED
    BY <1>2, <1>3, <1>4, NextJournal DEF Outbox, JournalStep

\* The Event Inbox never gets two different outcomes of a command, and learns of
\* an acceptance only when the message was really sent.
THEOREM OneOutcomeOnly == Spec => []OneOutcomeReported
  <1>1. Init => Real
    BY DEF Init, Real
  <1>2. Outbox /\ Real => OneOutcomeReported
    BY DEF Outbox, InboxInOrder, Real, OneOutcomeReported
  <1> QED
    BY <1>1, <1>2, RealStep, TypeInit, TypeStep, OutboxInit, OutboxStep, InvInit, InvStep, SendingInit,
       SendingStep, PTL DEF Spec
===============================================================================
