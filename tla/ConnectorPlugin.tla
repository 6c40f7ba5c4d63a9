--------------------------- MODULE ConnectorPlugin ---------------------------
(***************************************************************************)
(* The OpenWA connector plugin (packages/openwa-connector-plugin/src): the *)
(* command ingress, the durable journal, the command executor, the         *)
(* evidence outbox and the retained bindings, with host crashes and        *)
(* graceful disable/enable.                                                *)
(*                                                                         *)
(* ConnectorJournal serialises its operations with a FIFO mutex            *)
(* (mutex.ts), so a journal operation is one step; an operation made of    *)
(* several storage writes also has a torn variant in which the host dies   *)
(* between two of them.  A step of the executor ends where the code awaits *)
(* the network (media preflight, conversations.send, Event Inbox).         *)
(*                                                                         *)
(* The message a command sends is identified by the command.  Digests,     *)
(* payloads and clock values are abstracted; a deadline is a flag that the *)
(* environment raises.                                                     *)
(***************************************************************************)
EXTENDS Integers, Sequences, FiniteSets, FiniteSetsExt

CONSTANTS
    Commands,     \* connector command ids
    Images,       \* the commands whose operation is SEND_IMAGE
    CommandGen,   \* the binding generation each command was committed under
    MaxGen,       \* bound: binding generations the Event Inbox ever issues
    MaxRetained,  \* maximumRetainedBindings
    Capacity,     \* records at which the journal reaches its pressure threshold
    Acks,         \* acknowledgement statuses the OpenWA hooks report
    MaxCrashes,   \* bound: host crashes
    MaxDisables   \* bound: graceful disable/enable cycles

AckStatus == {"sent", "delivered", "read", "failed"}

ASSUME PluginAssumption ==
    /\ IsFiniteSet(Commands)
    /\ Images \subseteq Commands
    /\ MaxGen \in Nat \ {0}
    /\ CommandGen \in [Commands -> 1..MaxGen]
    /\ MaxRetained \in Nat \ {0}
    /\ Capacity \in Nat \ {0}
    /\ Acks \subseteq AckStatus
    /\ MaxCrashes \in Nat
    /\ MaxDisables \in Nat

VARIABLES
    \* plugin storage (survives a crash)
    journal,    \* [Commands -> [state, evidence]]; state "NONE" is no record
    pointer,    \* commands the pointer index knows
    msgIndex,   \* commands whose message id the message index knows
    orphan,     \* [Commands -> AckStatus \cup {"none"}]: stored orphan ACK
    bindings,   \* retained binding generations
    \* process memory
    phase,      \* "enabled"; "disabled" (stopped, process alive); "down" (no process)
    exec,       \* [Commands -> executor position]; "idle" is not in activeCommands
    resumable,  \* records recover() handed to resumeRecovered()
    detached,   \* running executors that hold the journal object of an earlier onEnable
    ticking,    \* position of tick(); "idle" is ~ticking
    posting,    \* [Commands -> Nat]: evidence index being posted, 0 if none
    blocked,    \* blockedReason: "none", "evidence" or "heartbeat"
    \* environment
    serverGen,  \* generation the Event Inbox currently binds
    expired,    \* commands past expiresAt
    retired,    \* commands past the terminal retention, counted from expiry
    inbox,      \* evidence the Event Inbox stored: <<command, sequence, kind>>
    sent,       \* [Commands -> Nat]: messages conversations.send really produced
    recovered,  \* commands a restart found RECEIVED (history)
    crashes, disables

storageVars == <<journal, pointer, msgIndex, orphan, bindings>>
memoryVars  == <<phase, exec, resumable, detached, ticking, posting, blocked>>
envVars     == <<serverGen, expired, retired, inbox, sent, recovered, crashes, disables>>
vars        == <<storageVars, memoryVars, envVars>>

JournalState == {"NONE", "RECEIVED", "SEND_STARTED",
                 "SEND_ACCEPTED", "SEND_REJECTED", "SEND_INDETERMINATE"}
EvidenceKind == {"COMMAND_RECEIVED", "SEND_STARTED", "SEND_ACCEPTED", "SEND_REJECTED",
                 "SEND_INDETERMINATE", "ACK_SENT", "ACK_DELIVERED", "ACK_READ", "ACK_FAILED"}
ExecState == {"idle", "preflight", "calling", "delivered", "lost"}

EvidenceEntry == [kind : EvidenceKind, delivered : BOOLEAN]
CommandRecord == [state : JournalState, evidence : Seq(EvidenceEntry)]

NoRecord == [state |-> "NONE", evidence |-> <<>>]

TypeOK ==
    /\ journal \in [Commands -> CommandRecord]
    /\ pointer \subseteq Commands
    /\ msgIndex \subseteq Commands
    /\ orphan \in [Commands -> AckStatus \cup {"none"}]
    /\ bindings \subseteq 1..MaxGen
    /\ phase \in {"enabled", "disabled", "down"}
    /\ exec \in [Commands -> ExecState]
    /\ resumable \subseteq Commands
    /\ detached \subseteq Commands
    /\ ticking \in {"idle", "applied", "reporting", "flushing"}
    /\ posting \in [Commands -> Nat]
    /\ blocked \in {"none", "evidence", "heartbeat"}
    /\ serverGen \in 1..MaxGen
    /\ expired \subseteq Commands
    /\ retired \subseteq expired
    /\ inbox \subseteq (Commands \X Nat \X EvidenceKind)
    /\ sent \in [Commands -> Nat]
    /\ recovered \subseteq Commands
    /\ crashes \in 0..MaxCrashes
    /\ disables \in 0..MaxDisables

-----------------------------------------------------------------------------
(* The journal record and its transitions (journal.ts).                    *)

Terminal(state) == state \in {"SEND_ACCEPTED", "SEND_REJECTED", "SEND_INDETERMINATE"}

HasKind(rec, K) == \E i \in DOMAIN rec.evidence : rec.evidence[i].kind \in K

Pending(rec) == {i \in DOMAIN rec.evidence : ~rec.evidence[i].delivered}

AddEvidence(rec, kind) == Append(rec.evidence, [kind |-> kind, delivered |-> FALSE])

\* appendEvidence: an evidence kind is recorded once; the state moves with it.
AppendEvidence(rec, kind) ==
    IF HasKind(rec, {kind})
    THEN rec
    ELSE [state |-> kind, evidence |-> AddEvidence(rec, kind)]

\* (Mutants: each operator named ...Mutant is a plausible wrong version of the
\* definition that follows it; no specification uses it.)

\* Mutant: a terminal record is not protected.
TransitionMutant(rec, state) ==
    IF \/ rec.state \in {"NONE", state}
       \/ state \in {"SEND_STARTED", "SEND_REJECTED"} /\ rec.state # "RECEIVED"
    THEN rec
    ELSE AppendEvidence(rec, state)

\* transition(): a missing record throws; a record already in the state, or in
\* any terminal state, is returned as it is; starting or rejecting from
\* elsewhere than RECEIVED throws.
Transition(rec, state) ==
    IF \/ rec.state \in {"NONE", state}
       \/ Terminal(rec.state)
       \/ state \in {"SEND_STARTED", "SEND_REJECTED"} /\ rec.state # "RECEIVED"
    THEN rec
    ELSE AppendEvidence(rec, state)

MarkStarted(rec)       == Transition(rec, "SEND_STARTED")
MarkRejected(rec)      == Transition(rec, "SEND_REJECTED")
MarkIndeterminate(rec) == Transition(rec, "SEND_INDETERMINATE")

\* Mutant: the delivery status in place of the evidence kind.
AckKindMutant(status) == IF status = "sent" THEN "SENT" ELSE "ACK_READ"

AckKind(status) == CASE status = "sent"      -> "ACK_SENT"
                     [] status = "delivered" -> "ACK_DELIVERED"
                     [] status = "read"      -> "ACK_READ"
                     [] status = "failed"    -> "ACK_FAILED"

\* The acknowledgement kinds that make a new one of this status worthless.
Supersedes(status) == {AckKind(status)} \cup
    CASE status = "sent"      -> {"ACK_DELIVERED", "ACK_READ"}
      [] status = "delivered" -> {"ACK_READ"}
      [] status = "failed"    -> {"ACK_DELIVERED", "ACK_READ"}
      [] status = "read"      -> {}

AppendAckEvidence(rec, status) ==
    IF rec.state # "SEND_ACCEPTED" \/ HasKind(rec, Supersedes(status))
    THEN rec
    ELSE [state |-> rec.state, evidence |-> AddEvidence(rec, AckKind(status))]

ShouldReplaceAck(current, next) ==
    /\ current # next
    /\ current # "read"
    /\ \/ next = "read"
       \/ next = "delivered"
       \/ next = "failed" /\ current = "sent"

Records == {c \in Commands : journal[c].state # "NONE"}

Orphaned == {c \in Commands : orphan[c] # "none"}

\* Mutant: undelivered evidence is ignored.
CompactablePendingMutant(c) == Terminal(journal[c].state) /\ c \in retired

\* compact(): the records it may remove.
Compactable(c) ==
    /\ Terminal(journal[c].state)
    /\ Pending(journal[c]) = {}
    /\ c \in retired

-----------------------------------------------------------------------------
(* Bindings (bindings.ts).                                                 *)

Current == IF bindings = {} THEN 0 ELSE Max(bindings)

\* apply(): merge, then keep the newest maximumRetainedBindings generations.
ApplyBinding(gen) ==
    LET merged == bindings \cup {gen}
    IN  {g \in merged : Cardinality({h \in merged : h > g}) < MaxRetained}

-----------------------------------------------------------------------------
Init ==
    /\ journal = [c \in Commands |-> NoRecord]
    /\ pointer = {}
    /\ msgIndex = {}
    /\ orphan = [c \in Commands |-> "none"]
    /\ bindings = {}
    /\ phase = "down"
    /\ exec = [c \in Commands |-> "idle"]
    /\ resumable = {}
    /\ detached = {}
    /\ ticking = "idle"
    /\ posting = [c \in Commands |-> 0]
    /\ blocked = "none"
    /\ serverGen = 1
    /\ expired = {}
    /\ retired = {}
    /\ inbox = {}
    /\ sent = [c \in Commands |-> 0]
    /\ recovered = {}
    /\ crashes = 0
    /\ disables = 0

-----------------------------------------------------------------------------
(* Command ingress and execution (connector.ts).                           *)

ReceivedRecord == [state |-> "RECEIVED",
                   evidence |-> <<[kind |-> "COMMAND_RECEIVED", delivered |-> FALSE]>>]

\* Mutant: execute() does not look at the binding again.
ExecuteFirstMutant(c, rec) ==
    IF c \in expired
    THEN [rec |-> MarkRejected(rec), pc |-> "idle"]
    ELSE IF c \in Images
         THEN [rec |-> rec, pc |-> "preflight"]
         ELSE [rec |-> MarkStarted(rec), pc |-> "calling"]

\* The prefix of execute() up to its first wait on the network: expiry and
\* binding checks, then the media preflight of an image, or for a text the
\* journal transition that precedes the send.
ExecuteFirst(c, rec) ==
    IF c \in expired \/ CommandGen[c] # Current
    THEN [rec |-> MarkRejected(rec), pc |-> "idle"]
    ELSE IF c \in Images
         THEN [rec |-> rec, pc |-> "preflight"]
         ELSE [rec |-> MarkStarted(rec), pc |-> "calling"]

\* schedule(): a command already in activeCommands is not started again.
Scheduled(c, rec) ==
    IF exec[c] # "idle" THEN [rec |-> rec, pc |-> exec[c]] ELSE ExecuteFirst(c, rec)

\* Mutant: every record delivered again is scheduled, settled ones included.
HandleReceivedMutant(c, rec) ==
    IF CommandGen[c] # Current
    THEN [rec |-> MarkRejected(rec), pc |-> exec[c]]
    ELSE Scheduled(c, rec)

\* handleIngress() after receiveCommand() returned the record rec.
HandleReceived(c, rec) ==
    CASE rec.state = "SEND_STARTED" /\ exec[c] = "idle" ->
            [rec |-> MarkIndeterminate(rec), pc |-> "idle"]
      [] rec.state = "RECEIVED" /\ CommandGen[c] # Current ->
            [rec |-> MarkRejected(rec), pc |-> exec[c]]
      [] rec.state = "RECEIVED" /\ CommandGen[c] = Current ->
            Scheduled(c, rec)
      [] OTHER -> [rec |-> rec, pc |-> exec[c]]

\* Runtime and the OpenWA ingress deliver a command at least once, and no
\* longer than its lifetime (at most one hour, the retention is seven days).
Deliverable(c) ==
    /\ phase = "enabled"
    /\ c \notin retired
    /\ CommandGen[c] \in bindings

\* A command the journal already holds is delivered again.
IngressDuplicate(c) ==
    /\ Deliverable(c)
    /\ journal[c].state # "NONE"
    /\ LET r == HandleReceived(c, journal[c])
       IN  /\ journal' = [journal EXCEPT ![c] = r.rec]
           /\ exec' = [exec EXCEPT ![c] = r.pc]
    /\ pointer' = pointer \cup {c}
    /\ UNCHANGED <<msgIndex, orphan, bindings, phase, resumable, detached, ticking, posting,
                   blocked, envVars>>

\* A command is delivered for the first time and the journal has room.
IngressNew(c) ==
    /\ Deliverable(c)
    /\ journal[c].state = "NONE"
    /\ Cardinality(Records) < Capacity
    /\ LET r == HandleReceived(c, ReceivedRecord)
       IN  /\ journal' = [journal EXCEPT ![c] = r.rec]
           /\ exec' = [exec EXCEPT ![c] = r.pc]
    /\ pointer' = pointer \cup {c}
    /\ UNCHANGED <<msgIndex, orphan, bindings, phase, resumable, detached, ticking, posting,
                   blocked, envVars>>

\* compact(): the journal without the records S, their pointers and message
\* pointers, and without the orphan acknowledgements O.
CompactedJournal(S) == [c \in Commands |-> IF c \in S THEN NoRecord ELSE journal[c]]
PrunedOrphans(O)    == [c \in Commands |-> IF c \in O THEN "none" ELSE orphan[c]]

\* What compaction removes, and the pointers it leaves.
PressureVictims    == {c \in Commands : Compactable(c)}
PointersWithout(S) == pointer \ S

\* The journal is at its threshold: receiveCommand() compacts, and receives the
\* command if that made room; otherwise the delivery fails and changes nothing.
IngressUnderPressure(c) ==
    /\ Deliverable(c)
    /\ journal[c].state = "NONE"
    /\ Cardinality(Records) >= Capacity
    /\ LET S == PressureVictims
           r == HandleReceived(c, ReceivedRecord)
       IN  /\ Cardinality(Records \ S) < Capacity
           /\ journal' = [CompactedJournal(S) EXCEPT ![c] = r.rec]
           /\ exec' = [exec EXCEPT ![c] = r.pc]
           /\ pointer' = PointersWithout(S) \cup {c}
           /\ msgIndex' = msgIndex \ S
    /\ \E O \in SUBSET Orphaned : orphan' = PrunedOrphans(O)
    /\ UNCHANGED <<bindings, phase, resumable, detached, ticking, posting, blocked, envVars>>

\* Change of the executor of c: its journal record and its position.
ExecStep(c, rec, pc) ==
    /\ journal' = [journal EXCEPT ![c] = rec]
    /\ exec' = [exec EXCEPT ![c] = pc]
    /\ detached' = IF pc = "idle" THEN detached \ {c} ELSE detached

\* verifyMedia() succeeded: the second expiry check and the start transition.
PreflightPassed(c) ==
    /\ exec[c] = "preflight"
    /\ IF c \in expired
       THEN ExecStep(c, MarkRejected(journal[c]), "idle")
       ELSE ExecStep(c, MarkStarted(journal[c]), "calling")
    /\ UNCHANGED <<pointer, msgIndex, orphan, bindings, phase, resumable, ticking, posting,
                   blocked, envVars>>

PreflightFailed(c) ==
    /\ exec[c] = "preflight"
    /\ ExecStep(c, MarkRejected(journal[c]), "idle")
    /\ UNCHANGED <<pointer, msgIndex, orphan, bindings, phase, resumable, ticking, posting,
                   blocked, envVars>>

\* conversations.send produced the message; its reply is still awaited.
SendEffect(c) ==
    /\ exec[c] = "calling"
    /\ sent' = [sent EXCEPT ![c] = @ + 1]
    /\ exec' = [exec EXCEPT ![c] = "delivered"]
    /\ UNCHANGED <<storageVars, phase, resumable, detached, ticking, posting, blocked,
                   serverGen, expired, retired, inbox, recovered, crashes, disables>>

\* conversations.send will fail without producing a message.
SendNoEffect(c) ==
    /\ exec[c] = "calling"
    /\ exec' = [exec EXCEPT ![c] = "lost"]
    /\ UNCHANGED <<storageVars, phase, resumable, detached, ticking, posting, blocked, envVars>>

\* The plugin was stopped meanwhile: requireContext() throws.
SendWithoutContext(c) ==
    /\ exec[c] = "calling"
    /\ phase = "disabled"
    /\ ExecStep(c, MarkIndeterminate(journal[c]), "idle")
    /\ UNCHANGED <<pointer, msgIndex, orphan, bindings, phase, resumable, ticking, posting,
                   blocked, envVars>>

\* The send throws, or its reply carries no message id.
SendAmbiguous(c) ==
    /\ exec[c] \in {"delivered", "lost"}
    /\ ExecStep(c, MarkIndeterminate(journal[c]), "idle")
    /\ UNCHANGED <<pointer, msgIndex, orphan, bindings, phase, resumable, ticking, posting,
                   blocked, envVars>>

\* markAccepted(): the state, the message pointer, then the orphan ACK.
SendReplied(c) ==
    /\ exec[c] = "delivered"
    /\ IF journal[c].state = "SEND_STARTED"
       THEN LET rec == AppendEvidence(journal[c], "SEND_ACCEPTED")
            IN  /\ ExecStep(c, IF orphan[c] = "none" THEN rec ELSE AppendAckEvidence(rec, orphan[c]), "idle")
                /\ msgIndex' = msgIndex \cup {c}
                /\ orphan' = [orphan EXCEPT ![c] = "none"]
       ELSE /\ ExecStep(c, journal[c], "idle")
            /\ UNCHANGED <<msgIndex, orphan>>
    /\ UNCHANGED <<pointer, bindings, phase, resumable, ticking, posting, blocked, envVars>>

-----------------------------------------------------------------------------
(* Enable, disable, crash (connector.ts onEnable/stop, journal.ts recover).*)

\* Mutant: a send that was started is left as it is.
RecoveredRecordMutant(rec) == rec
RecoveredPointers   == pointer \cup Records
RecoveredRecord(rec) == IF rec.state = "SEND_STARTED" THEN MarkIndeterminate(rec) ELSE rec
Resumable           == {c \in Commands : journal[c].state = "RECEIVED"}

\* onEnable(): recover() rebuilds the indexes from the records, turns every
\* SEND_STARTED into SEND_INDETERMINATE and hands back the RECEIVED records.
\* The executors that outlived a graceful stop keep the old journal object.
Enable ==
    /\ phase # "enabled"
    /\ phase' = "enabled"
    /\ journal' = [c \in Commands |-> RecoveredRecord(journal[c])]
    /\ pointer' = RecoveredPointers
    /\ msgIndex' = msgIndex \cup {c \in Records : HasKind(journal[c], {"SEND_ACCEPTED"})}
    /\ resumable' = Resumable
    /\ recovered' = recovered \cup Resumable
    /\ detached' = {c \in Commands : exec[c] # "idle"}
    /\ UNCHANGED <<orphan, bindings, exec, ticking, posting, blocked,
                   serverGen, expired, retired, inbox, sent, crashes, disables>>

\* stop(): executors, a tick and evidence flushes already running go on.
Disable ==
    /\ phase = "enabled"
    /\ disables < MaxDisables
    /\ phase' = "disabled"
    /\ disables' = disables + 1
    /\ UNCHANGED <<storageVars, exec, resumable, detached, ticking, posting, blocked,
                   serverGen, expired, retired, inbox, sent, recovered, crashes>>

\* The host process dies: only the plugin storage is left.
ProcessDies ==
    /\ phase # "down"
    /\ crashes < MaxCrashes
    /\ crashes' = crashes + 1
    /\ phase' = "down"
    /\ exec' = [c \in Commands |-> "idle"]
    /\ resumable' = {}
    /\ detached' = {}
    /\ ticking' = "idle"
    /\ posting' = [c \in Commands |-> 0]
    /\ blocked' = "none"
    /\ UNCHANGED <<bindings, serverGen, expired, retired, inbox, sent, recovered, disables>>

Crash ==
    /\ ProcessDies
    /\ UNCHANGED <<journal, pointer, msgIndex, orphan>>

\* ... inside receive(), the record written and its pointer not.
CrashInReceive(c) ==
    /\ Deliverable(c)
    /\ journal[c].state = "NONE"
    /\ Cardinality(Records) < Capacity
    /\ ProcessDies
    /\ journal' = [journal EXCEPT ![c] = ReceivedRecord]
    /\ UNCHANGED <<pointer, msgIndex, orphan>>

\* ... inside markAccepted(), before the message pointer or before the orphan
\* acknowledgement was applied.
CrashInAccept(c) ==
    /\ exec[c] = "delivered"
    /\ journal[c].state = "SEND_STARTED"
    /\ ProcessDies
    /\ journal' = [journal EXCEPT ![c] = AppendEvidence(@, "SEND_ACCEPTED")]
    /\ msgIndex' \in {msgIndex, msgIndex \cup {c}}
    /\ UNCHANGED <<pointer, orphan>>

\* ... inside compact(), some pointers deleted and their records not.
CrashInCompact(c) ==
    /\ ticking = "flushing" \/ Cardinality(Records) >= Capacity
    /\ Compactable(c)
    /\ ProcessDies
    /\ pointer' = pointer \ {c}
    /\ msgIndex' \in {msgIndex, msgIndex \ {c}}
    /\ UNCHANGED <<journal, orphan>>

-----------------------------------------------------------------------------
(* The maintenance tick (connector.ts tick, resumeRecovered).              *)

\* The heartbeat returns the current binding; a change is reported at once in
\* a second heartbeat.
TickHeartbeat ==
    /\ phase = "enabled"
    /\ ticking = "idle"
    /\ bindings' = ApplyBinding(serverGen)
    /\ ticking' = IF serverGen > Current THEN "reporting" ELSE "applied"
    /\ blocked' = IF blocked = "heartbeat" THEN "none" ELSE blocked
    /\ UNCHANGED <<journal, pointer, msgIndex, orphan, phase, exec, resumable, detached,
                   posting, envVars>>

\* A heartbeat fails, the first or the second; a persistent error blocks.
TickHeartbeatFails ==
    /\ \/ ticking = "idle" /\ phase = "enabled"
       \/ ticking = "reporting"
    /\ ticking' = "idle"
    /\ blocked' \in {blocked, "heartbeat"}
    /\ UNCHANGED <<storageVars, phase, exec, resumable, detached, posting, envVars>>

\* After the heartbeat resumeRecovered() schedules every recovered command
\* whose binding is retained, from the record recover() returned; the others
\* wait for a later tick.  A stopped plugin schedules nothing.
TickResume ==
    /\ ticking \in {"applied", "reporting"}
    /\ ticking' = "flushing"
    /\ LET known == {c \in resumable : CommandGen[c] \in bindings}
           todo  == IF phase = "enabled" THEN known ELSE {}
       IN  /\ resumable' = resumable \ known
           /\ journal' = [c \in Commands |-> IF c \in todo THEN Scheduled(c, journal[c]).rec
                                                           ELSE journal[c]]
           /\ exec' = [c \in Commands |-> IF c \in todo THEN Scheduled(c, journal[c]).pc
                                                        ELSE exec[c]]
    /\ UNCHANGED <<pointer, msgIndex, orphan, bindings, phase, detached, posting, blocked, envVars>>

\* The tick ends, with the compaction when the last one is an hour ago.
TickFinish ==
    /\ ticking = "flushing"
    /\ ticking' = "idle"
    /\ LET S == {c \in Commands : Compactable(c)}
       IN  \/ /\ journal' = CompactedJournal(S)
              /\ pointer' = PointersWithout(S)
              /\ msgIndex' = msgIndex \ S
              /\ \E O \in SUBSET Orphaned : orphan' = PrunedOrphans(O)
           \/ UNCHANGED <<journal, pointer, msgIndex, orphan>>
    /\ UNCHANGED <<bindings, phase, exec, resumable, detached, posting, blocked, envVars>>

-----------------------------------------------------------------------------
(* The evidence outbox (connector.ts flushCommand; event-inbox-client.ts). *)

\* Mutant: the newest undelivered entry goes first.
NextEvidenceMutant(rec) == Max(Pending(rec))

NextEvidence(rec) == Min(Pending(rec))

\* The Event Inbox stores the oldest undelivered entry; a repeated entry is
\* acknowledged as a duplicate.  One flush of a command runs at a time.
PostEvidence(c) ==
    /\ phase # "down"
    /\ posting[c] = 0
    /\ c \in pointer
    /\ Pending(journal[c]) # {}
    /\ LET i == NextEvidence(journal[c])
       IN  /\ inbox' = inbox \cup {<<c, i, journal[c].evidence[i].kind>>}
           /\ posting' = [posting EXCEPT ![c] = i]
    /\ UNCHANGED <<storageVars, phase, exec, resumable, detached, ticking, blocked,
                   serverGen, expired, retired, sent, recovered, crashes, disables>>

\* The request fails before it reaches the Event Inbox, or its answer is lost.
\* A persistent error, or a third failure, reports the outbox as blocked.
PostFails(c) ==
    /\ phase # "down"
    /\ c \in pointer
    /\ Pending(journal[c]) # {}
    /\ posting' = [posting EXCEPT ![c] = 0]
    /\ blocked' \in {blocked, "evidence"}
    /\ UNCHANGED <<storageVars, phase, exec, resumable, detached, ticking, envVars>>

Delivered(rec, i) ==
    [state    |-> rec.state,
     evidence |-> [rec.evidence EXCEPT ![i] = [kind |-> rec.evidence[i].kind, delivered |-> TRUE]]]

\* Mutant: the block is never lifted.
ClearedBlockMutant(drained) == blocked

\* clearEvidenceBlockIfDrained().
ClearedBlock(drained) == IF drained /\ blocked = "evidence" THEN "none" ELSE blocked

\* markEvidenceDelivered(), then clearEvidenceBlockIfDrained().
MarkDelivered(c) ==
    /\ posting[c] # 0
    /\ journal' = [journal EXCEPT ![c] = Delivered(@, posting[c])]
    /\ posting' = [posting EXCEPT ![c] = 0]
    /\ blocked' = ClearedBlock(\A d \in Commands : Pending(journal'[d]) = {})
    /\ UNCHANGED <<pointer, msgIndex, orphan, bindings, phase, exec, resumable, detached,
                   ticking, envVars>>

-----------------------------------------------------------------------------
(* OpenWA hooks: message:sent and message:ack (journal.ts                  *)
(* appendAcknowledgement, storeOrphanAck).                                 *)

\* activeSendRaces of the current journal object.
ActiveSendRaces == {c \in Commands \ detached : exec[c] # "idle" /\ journal[c].state = "SEND_STARTED"}

\* The acknowledgement of a message the index knows.
AckIndexed(c, status) ==
    /\ phase = "enabled"
    /\ sent[c] > 0
    /\ c \in msgIndex
    /\ AppendAckEvidence(journal[c], status) # journal[c]
    /\ journal' = [journal EXCEPT ![c] = AppendAckEvidence(@, status)]
    /\ UNCHANGED <<pointer, msgIndex, orphan, bindings, memoryVars, envVars>>

\* The acknowledgement of a message not (yet) in the index is kept while some
\* send is racing it (a first one prunes what is old); otherwise, or outside
\* the race window, it is dropped.
AckOrphaned(c, status) ==
    /\ phase = "enabled"
    /\ sent[c] > 0
    /\ c \notin msgIndex
    /\ ActiveSendRaces # {}
    /\ orphan[c] = "none" \/ ShouldReplaceAck(orphan[c], status)
    /\ \E O \in IF orphan[c] = "none" THEN SUBSET Orphaned ELSE {{}} :
         orphan' = [PrunedOrphans(O) EXCEPT ![c] = status]
    /\ UNCHANGED <<journal, pointer, msgIndex, bindings, memoryVars, envVars>>

-----------------------------------------------------------------------------
(* Environment: binding rotation in the Event Inbox, and time.             *)

Rotate ==
    /\ serverGen < MaxGen
    /\ serverGen' = serverGen + 1
    /\ UNCHANGED <<storageVars, memoryVars, expired, retired, inbox, sent, recovered, crashes, disables>>

Expire(c) ==
    /\ c \notin expired
    /\ expired' = expired \cup {c}
    /\ UNCHANGED <<storageVars, memoryVars, serverGen, retired, inbox, sent, recovered, crashes, disables>>

Retire(c) ==
    /\ c \in expired \ retired
    /\ retired' = retired \cup {c}
    /\ UNCHANGED <<storageVars, memoryVars, serverGen, expired, inbox, sent, recovered, crashes, disables>>

-----------------------------------------------------------------------------
Next ==
    \/ \E c \in Commands :
         \/ IngressDuplicate(c) \/ IngressNew(c) \/ IngressUnderPressure(c)
         \/ PreflightPassed(c) \/ PreflightFailed(c)
         \/ SendEffect(c) \/ SendNoEffect(c) \/ SendWithoutContext(c)
         \/ SendAmbiguous(c) \/ SendReplied(c)
         \/ CrashInReceive(c) \/ CrashInAccept(c) \/ CrashInCompact(c)
         \/ PostEvidence(c) \/ PostFails(c) \/ MarkDelivered(c)
         \/ Expire(c) \/ Retire(c)
         \/ \E status \in Acks : AckIndexed(c, status) \/ AckOrphaned(c, status)
    \/ Enable \/ Disable \/ Crash
    \/ TickHeartbeat \/ TickHeartbeatFails \/ TickResume \/ TickFinish
    \/ Rotate

Spec == Init /\ [][Next]_vars

\* A step of the executor once its network call ended.
Execute(c) == \/ PreflightPassed(c) \/ PreflightFailed(c)
              \/ SendEffect(c) \/ SendNoEffect(c) \/ SendWithoutContext(c)
              \/ SendAmbiguous(c) \/ SendReplied(c)

\* The host enables the plugin again after it went down; the timer ticks and
\* its requests end; a network call ends; an answer of the Event Inbox is not
\* lost for ever.
Fairness ==
    /\ WF_vars(Enable) /\ WF_vars(TickHeartbeat) /\ WF_vars(TickResume) /\ WF_vars(TickFinish)
    /\ \A c \in Commands : /\ WF_vars(Execute(c))
                           /\ WF_vars(PostEvidence(c))
                           /\ SF_vars(MarkDelivered(c))

FairSpec == Spec /\ Fairness

-----------------------------------------------------------------------------
(* Properties.                                                             *)

\* A command that no restart ever found RECEIVED produces at most one message,
\* whatever the duplicate deliveries, crashes, rotations and late answers.
SentOnceUnlessRecovered == \A c \in Commands \ recovered : sent[c] <= 1

\* The same for a text command: both reasons to reject one, expiry and binding
\* rotation, still hold whenever execute() looks again.
RejectedTextNeverSent ==
    \A c \in Commands \ Images : journal[c].state = "SEND_REJECTED" => sent[c] = 0

\* The evidence of a command reaches the Event Inbox in sequence order, without
\* gaps; a number never names two pieces of it, also when a crash hid the first
\* delivery; and acknowledgements never go backwards, whether they came from a
\* hook or from a stored orphan (flushCommand, appendEvidence, shouldReplaceAck).
EvidenceInOrder ==
    /\ \A e \in inbox : \A j \in 1..(e[2] - 1) : \E f \in inbox : f[1] = e[1] /\ f[2] = j
    /\ \A e, f \in inbox : e[1] = f[1] /\ e[2] = f[2] => e[3] = f[3]
    /\ \A c \in Commands : LET ev == journal[c].evidence IN
         \A i \in DOMAIN ev : \A j \in 1..(i - 1) :
             /\ ev[j].kind = "ACK_READ" => ev[i].kind = "ACK_READ"
             /\ ev[j].kind = "ACK_DELIVERED" => ev[i].kind = "ACK_READ"

\* At most one send outcome of a command is ever reported, and acceptance only
\* of a message that exists (transition, markAccepted, recover).
OneOutcomeReported ==
    \A e \in inbox :
        /\ Terminal(e[3]) => \A f \in inbox : f[1] = e[1] /\ Terminal(f[3]) => f[3] = e[3]
        /\ e[3] = "SEND_ACCEPTED" => sent[e[1]] >= 1

\* No record disappears while the Event Inbox lacks some of its evidence, and
\* no recorded evidence is ever rewritten (compact, appendEvidence).
EvidenceNeverLost ==
    [][\A c \in Commands : \A i \in DOMAIN journal[c].evidence :
          LET e == journal[c].evidence[i] IN
          IF journal'[c].state = "NONE"
          THEN <<c, i, e.kind>> \in inbox
          ELSE i \in DOMAIN journal'[c].evidence /\ journal'[c].evidence[i].kind = e.kind]_vars

\* Every command received and every send started gets an outcome, through crashes
\* and restarts; its evidence leaves the outbox, and then the connector no longer
\* reports itself blocked (resumeRecovered, recover, the timer, flushCommand).
CommandsSettle ==
    /\ \A c \in Commands :
        /\ journal[c].state = "RECEIVED" ~> journal[c].state # "RECEIVED"
        /\ journal[c].state = "SEND_STARTED" ~> journal[c].state # "SEND_STARTED"
        /\ Pending(journal[c]) # {} ~> Pending(journal[c]) = {}
    /\ blocked = "evidence" ~> blocked # "evidence"
=============================================================================
