---------------------------- MODULE UsageUpload ----------------------------
(***************************************************************************)
(* The path of a metering batch from the Go agent's durable queue to the   *)
(* control plane's accounting: apps/agent (store.go, runner.go) on one     *)
(* side, apps/api agent.service.ts and metering-retention.service.ts on    *)
(* the other, with an unreliable HTTP link between them.                   *)
(*                                                                         *)
(* A batch is opaque here: it is identified by (bootId, sequence), and     *)
(* what its samples mean is the business of module Metering.  bootIds are  *)
(* fresh UUIDs; they are numbered in the order of the process starts that  *)
(* drew them, so the insertion (rowid) order of the local queue is the     *)
(* lexicographic order of (boot, seq).  The node is direct_primary, the    *)
(* only control mode the control plane gives to a node it creates.         *)
(***************************************************************************)
EXTENDS Naturals, FiniteSets

CONSTANTS
    MaxBoot,              \* bound: agent process starts
    MaxSequence,          \* bound: batches recorded by one process
    MaxCredential,        \* bound: credentials issued for the node
    MaxLate,              \* bound: abandoned requests still in the network
    MaxRedacted,          \* bound: payloads reclaimed by the retention job
    ListLimit,            \* ListPendingBatches' limit (100 in the code)
    MaxContiguousBatches  \* MAX_CONTIGUOUS_BATCHES_PER_TRANSACTION (4)

ASSUME ConstantsAssumption ==
    /\ MaxBoot \in Nat \ {0}
    /\ MaxSequence \in Nat \ {0}
    /\ MaxCredential \in Nat \ {0}
    /\ MaxLate \in Nat
    /\ MaxRedacted \in Nat
    /\ ListLimit \in Nat \ {0}
    /\ MaxContiguousBatches \in Nat \ {0}

VARIABLES
    \* --- agent, durable (sqlite) ---
    nextSequence,     \* meta next_sequence:<boot>, per boot
    pending,          \* usage_batches_v2
    \* --- agent, process ---
    boot,             \* bootId of the running process
    credential,       \* NodeAgent record its token belongs to
    round,            \* batches uploadPending has listed and not yet sent
    phase,            \* the serialised network call: "idle", "sent", "answered"
    call,             \* the request of that call
    answer,           \* ackThrough of its reply
    \* --- network ---
    late,             \* requests the client gave up on, still under way
    \* --- control plane ---
    liveCredential,   \* the node's one unrevoked NodeAgent record
    agentBoot,        \* NodeAgent.bootId, per record
    lastAckSequence,  \* NodeAgent.lastAckSequence, per record
    storedBy,         \* NodeUsageBatch.agentId of each stored row
    accounted,        \* rows whose accountedAt is set
    redacted,         \* rows whose payload was reclaimed
    \* --- history ---
    applied           \* how often applyDirectBatch ran for each batch

agentVars  == <<nextSequence, pending, boot, credential>>
callVars   == <<round, phase, call, answer>>
serverVars == <<liveCredential, agentBoot, lastAckSequence, storedBy,
                accounted, redacted, applied>>
vars       == <<agentVars, callVars, late, serverVars>>

Boots       == 1..MaxBoot
Sequences   == 1..MaxSequence
Credentials == 1..MaxCredential
NoBoot      == 0          \* NodeAgent.bootId is NULL
NoRow       == 0          \* no NodeUsageBatch row with this key
Batches     == [boot : Boots, seq : Sequences]

\* An upload names one batch; a heartbeat (seq 0) only a boot.
Requests == [kind : {"upload", "heartbeat"}, credential : Credentials,
             boot : Boots, seq : 0..MaxSequence]
NoCall   == [kind |-> "none", credential |-> 0, boot |-> NoBoot, seq |-> 0]

\* RecordSample has committed the batch under its (boot, sequence) key.
Recorded == {b \in Batches : b.seq < nextSequence[b.boot]}

\* Insertion order of the local queue.
Before(x, y) == x.boot < y.boot \/ (x.boot = y.boot /\ x.seq < y.seq)

----------------------------------------------------------------------------
\* The agent's store and transport

\* ListPendingBatches: the first ListLimit rows in rowid order.
ListPendingBatches ==
    {b \in pending : Cardinality({x \in pending : Before(x, b)}) < ListLimit}

\* Fault: any boot with pending batches counts as the oldest.
IsHeadBootAny(b) == \E x \in pending : x.boot = b

\* The boot of the oldest unacknowledged batch.
IsHeadBoot(b) == \E x \in pending : x.boot = b /\ \A y \in pending : b <= y.boot

\* Fault: the DELETE forgets its boot_id condition.
AckThroughAnyBoot(b, ack) == {x \in pending : x.seq <= ack}

\* The rows AckThrough deletes for one boot.
AckThrough(b, ack) == {x \in pending : x.boot = b /\ x.seq <= ack}

\* Fault: a failed call does not give the transport back.
AbandonHeld ==
    /\ phase' = phase /\ call' = NoCall /\ answer' = 0 /\ round' = {}
    /\ late' = late

\* A failed or abandoned call: a request that was still travelling may reach
\* the server later, or never.
Abandon ==
    /\ phase' = "idle" /\ call' = NoCall /\ answer' = 0 /\ round' = {}
    /\ \/ late' = late
       \/ /\ phase = "sent" /\ Cardinality(late) < MaxLate
          /\ late' = late \cup {call}

\* store.RecordSample when something moved: the batch and the next sequence
\* number are committed in one transaction.
RecordSample ==
    /\ nextSequence[boot] <= MaxSequence
    /\ pending' = pending \cup {[boot |-> boot, seq |-> nextSequence[boot]]}
    /\ nextSequence' = [nextSequence EXCEPT ![boot] = @ + 1]
    /\ UNCHANGED <<boot, credential, callVars, late, serverVars>>

\* The process dies at any point and starts again: a fresh bootId, whose
\* sequence starts at 1 (initializeBoot), the durable queue as it was, and the
\* token the operator has configured by then.
Restart ==
    /\ boot < MaxBoot
    /\ boot' = boot + 1
    /\ credential' \in {credential, liveCredential}
    /\ Abandon
    /\ UNCHANGED <<nextSequence, pending, serverVars>>

\* uploadPending takes the transport lock, lists the queue and keeps the
\* batches of the first one's boot.
BeginUploadRound ==
    /\ phase = "idle" /\ round = {} /\ pending # {}
    /\ round' = {b \in ListPendingBatches : IsHeadBoot(b.boot)}
    /\ UNCHANGED <<agentVars, phase, call, answer, late, serverVars>>

\* The next listed batch goes out.
UploadBatch ==
    /\ phase = "idle"
    /\ \E b \in round :
        /\ \A x \in round : b.seq <= x.seq
        /\ round' = round \ {b}
        /\ call' = [kind |-> "upload", credential |-> credential,
                    boot |-> b.boot, seq |-> b.seq]
    /\ phase' = "sent"
    /\ UNCHANGED <<agentVars, answer, late, serverVars>>

\* Fault: a heartbeat always names the running process.
HeartbeatBootOwn(b) == b = boot

\* The boot a heartbeat names: the oldest pending batch's, else the process's.
HeartbeatBoot(b) == IF pending = {} THEN b = boot ELSE IsHeadBoot(b)

\* sendHeartbeat, under the same transport lock as the upload rounds.
SendHeartbeat ==
    /\ phase = "idle" /\ round = {}
    /\ \E b \in Boots :
        /\ HeartbeatBoot(b)
        /\ call' = [kind |-> "heartbeat", credential |-> credential,
                    boot |-> b, seq |-> 0]
    /\ phase' = "sent"
    /\ UNCHANGED <<agentVars, round, answer, late, serverVars>>

\* ackLocked on an upload's reply.  The round goes on unless the reply is
\* behind the batch it answers or the round's deadline has passed.
ReceiveUploadAck ==
    /\ phase = "answered" /\ call.kind = "upload"
    /\ pending' = pending \ AckThrough(call.boot, answer)
    /\ round' \in IF answer < call.seq THEN {{}} ELSE {round, {}}
    /\ phase' = "idle" /\ call' = NoCall /\ answer' = 0
    /\ UNCHANGED <<nextSequence, boot, credential, late, serverVars>>

\* ackLocked on a heartbeat's reply.
ReceiveHeartbeatAck ==
    /\ phase = "answered" /\ call.kind = "heartbeat"
    /\ pending' = pending \ AckThrough(call.boot, answer)
    /\ phase' = "idle" /\ call' = NoCall /\ answer' = 0
    /\ UNCHANGED <<nextSequence, boot, credential, round, late, serverVars>>

\* Timeout, connection loss, a lost reply or an error status (a revoked
\* credential, a usage-lock timeout, exhausted serialization retries): the
\* round is given up.
CallFails ==
    /\ phase # "idle"
    /\ Abandon
    /\ UNCHANGED <<agentVars, serverVars>>

----------------------------------------------------------------------------
\* The control plane

\* Rows accountContiguousBatches walks over: those of this credential's record
\* and boot, from the watermark to ack, without a gap, at most
\* MaxContiguousBatches of them, and as many as there are.
Contiguous(rows, c, b, current, ack) ==
    /\ ack <= current + MaxContiguousBatches
    /\ \A s \in (current + 1)..ack : rows[[boot |-> b, seq |-> s]] = c
    /\ ack < current + MaxContiguousBatches /\ ack < MaxSequence
            => rows[[boot |-> b, seq |-> ack + 1]] # c

\* Fault: accountedAt is not looked at.
UnaccountedAll(walked) == walked

\* Rows of the walk that applyDirectBatch is called for.
Unaccounted(walked) == walked \ accounted

\* Fault: the watermark of the previous boot is kept.
StartingAckKept(c, b) == lastAckSequence[c]

\* The watermark an ingest starts from: a boot other than the recorded one
\* resets it.
StartingAck(c, b) ==
    IF agentBoot[c] # NoBoot /\ agentBoot[c] # b THEN 0 ELSE lastAckSequence[c]

\* ingestUsageBatchWithinNodeLock, one serializable transaction under the
\* node's usage lock.  A row that exists is a duplicate and is not re-created.
IngestUsageBatch(r, ack) ==
    LET c       == r.credential
        b       == [boot |-> r.boot, seq |-> r.seq]
        current == StartingAck(c, r.boot)
        rows    == IF storedBy[b] = NoRow THEN [storedBy EXCEPT ![b] = c]
                                          ELSE storedBy
        walked  == {x \in Batches : /\ x.boot = r.boot
                                    /\ current < x.seq /\ x.seq <= ack}
    IN  /\ c = liveCredential
        /\ current <= ack
        /\ Contiguous(rows, c, r.boot, current, ack)
        /\ storedBy' = rows
        /\ accounted' = accounted \cup walked
        /\ applied' = [x \in Batches |-> IF x \in Unaccounted(walked)
                                         THEN applied[x] + 1 ELSE applied[x]]
        /\ agentBoot' = [agentBoot EXCEPT ![c] = r.boot]
        /\ lastAckSequence' = [lastAckSequence EXCEPT ![c] = ack]
        /\ UNCHANGED <<liveCredential, redacted>>

\* heartbeat: adopts the boot, resetting the watermark when it changed.
Heartbeat(r, ack) ==
    LET c == r.credential
    IN  /\ c = liveCredential
        /\ ack = IF agentBoot[c] # r.boot THEN 0 ELSE lastAckSequence[c]
        /\ agentBoot' = [agentBoot EXCEPT ![c] = r.boot]
        /\ lastAckSequence' = [lastAckSequence EXCEPT ![c] = ack]
        /\ UNCHANGED <<liveCredential, storedBy, accounted, redacted, applied>>

\* The server handles the call the agent is waiting for.
ServeUpload ==
    /\ phase = "sent" /\ call.kind = "upload"
    /\ \E ack \in 0..MaxSequence : IngestUsageBatch(call, ack) /\ answer' = ack
    /\ phase' = "answered"
    /\ UNCHANGED <<agentVars, round, call, late>>

ServeHeartbeat ==
    /\ phase = "sent" /\ call.kind = "heartbeat"
    /\ \E ack \in 0..MaxSequence : Heartbeat(call, ack) /\ answer' = ack
    /\ phase' = "answered"
    /\ UNCHANGED <<agentVars, round, call, late>>

\* The server handles a request nobody waits for any more; its reply goes
\* nowhere.
ServeLateUpload ==
    \E r \in late :
        /\ r.kind = "upload"
        /\ \E ack \in 0..MaxSequence : IngestUsageBatch(r, ack)
        /\ late' = late \ {r}
        /\ UNCHANGED <<agentVars, callVars>>

ServeLateHeartbeat ==
    \E r \in late :
        /\ r.kind = "heartbeat"
        /\ \E ack \in 0..MaxSequence : Heartbeat(r, ack)
        /\ late' = late \ {r}
        /\ UNCHANGED <<agentVars, callVars>>

\* Lost for good, or rejected by authenticate (the credential was revoked).
LoseLateRequest ==
    /\ \E r \in late : late' = late \ {r}
    /\ UNCHANGED <<agentVars, callVars, serverVars>>

\* createCredential: revokes the node's credentials and issues a new record,
\* whose bootId is NULL and whose watermark is 0.
CreateCredential ==
    /\ liveCredential < MaxCredential
    /\ liveCredential' = liveCredential + 1
    /\ UNCHANGED <<agentVars, callVars, late, agentBoot, lastAckSequence,
                   storedBy, accounted, redacted, applied>>

\* Fault: the retention job does not ask whether a row is settled.
RedactableAny == {b \in Batches : storedBy[b] # NoRow}

\* Rows redactSettledUsagePayloads may clear.
Redactable == {b \in Batches : storedBy[b] # NoRow} \cap accounted

\* redactSettledUsagePayloads: the raw payload of a settled row is reclaimed,
\* the row itself stays.
RedactSettledUsagePayloads ==
    /\ Cardinality(redacted) < MaxRedacted
    /\ \E b \in Redactable \ redacted : redacted' = redacted \cup {b}
    /\ UNCHANGED <<agentVars, callVars, late, liveCredential, agentBoot,
                   lastAckSequence, storedBy, accounted, applied>>

----------------------------------------------------------------------------
Init ==
    /\ nextSequence = [b \in Boots |-> 1]
    /\ pending = {}
    /\ boot = 1
    /\ credential = 1
    /\ round = {} /\ phase = "idle" /\ call = NoCall /\ answer = 0
    /\ late = {}
    /\ liveCredential = 1
    /\ agentBoot = [c \in Credentials |-> NoBoot]
    /\ lastAckSequence = [c \in Credentials |-> 0]
    /\ storedBy = [b \in Batches |-> NoRow]
    /\ accounted = {}
    /\ redacted = {}
    /\ applied = [b \in Batches |-> 0]

Next ==
    \/ RecordSample
    \/ Restart
    \/ BeginUploadRound
    \/ UploadBatch
    \/ SendHeartbeat
    \/ ReceiveUploadAck
    \/ ReceiveHeartbeatAck
    \/ CallFails
    \/ ServeUpload
    \/ ServeHeartbeat
    \/ ServeLateUpload
    \/ ServeLateHeartbeat
    \/ LoseLateRequest
    \/ CreateCredential
    \/ RedactSettledUsagePayloads

Spec == Init /\ [][Next]_vars

\* The upload and heartbeat loops keep running and share a starvation-free
\* mutex, so a round is begun again and again (strong fairness); every call
\* ends, by its timeout if nothing else (CallFails), and may fail any number
\* of times but not for ever.
Fairness ==
    /\ SF_vars(BeginUploadRound)
    /\ WF_vars(UploadBatch)
    /\ SF_vars(ServeUpload)
    /\ SF_vars(ReceiveUploadAck)
    /\ WF_vars(CallFails)

FairSpec == Spec /\ Fairness

----------------------------------------------------------------------------
\* Properties

\* Types, and that a call under way always has a request.
TypeOK ==
    /\ nextSequence \in [Boots -> 1..(MaxSequence + 1)]
    /\ pending \in SUBSET Batches
    /\ boot \in Boots
    /\ credential \in Credentials
    /\ round \in SUBSET Batches
    /\ phase \in {"idle", "sent", "answered"}
    /\ call \in Requests \cup {NoCall}
    /\ phase # "idle" => call \in Requests
    /\ answer \in 0..MaxSequence
    /\ late \in SUBSET Requests
    /\ liveCredential \in Credentials
    /\ agentBoot \in [Credentials -> 0..MaxBoot]
    /\ lastAckSequence \in [Credentials -> 0..MaxSequence]
    /\ storedBy \in [Batches -> 0..MaxCredential]
    /\ accounted \in SUBSET Batches
    /\ redacted \in SUBSET Batches
    /\ applied \in [Batches -> Nat]

\* A batch the agent has deleted from its queue (AckThrough) has been billed,
\* whatever was lost, delayed, replayed or restarted on the way: no metered
\* byte disappears between the two sides.
NeverLost == Recorded \ pending \subseteq accounted

\* applyDirectBatch runs at most once for a batch, although the watermark
\* falls back to 0 on every boot change and settled rows are walked again.
BilledAtMostOnce == \A b \in Batches : applied[b] <= 1

\* Batches are billed in the order they were recorded, across restarts too:
\* the control plane diffs absolute counters, and a batch applied ahead of an
\* older one would make the older one look like a counter going backwards.
AccountedInOrder ==
    \A b \in accounted : \A x \in Recorded : Before(x, b) => x \in accounted

\* The retention job never takes the payload of a batch that still has to be
\* billed: accounting would then read an empty batch and bill nothing.
UnsettledKeepsPayload ==
    \A b \in Batches : storedBy[b] # NoRow /\ b \notin accounted => b \notin redacted

----------------------------------------------------------------------------
\* The inductive invariant behind the four safety properties

\* Every batch recorded by a process before b has been billed.
OlderSettled(b) == \A x \in Recorded : x.boot < b => x \in accounted

\* Every batch of boot b up to sequence n has been billed.
SettledThrough(b, n) ==
    \A x \in Batches : x.boot = b /\ x.seq <= n => x \in accounted

\* A batch that has left the queue towards the server: it exists, and nothing
\* of an older boot is outstanding.
Sendable(x) == x \in Recorded /\ OlderSettled(x.boot)

UploadSendable(r) ==
    r.kind = "upload" => /\ r.seq \in Sequences
                         /\ Sendable([boot |-> r.boot, seq |-> r.seq])

QueueInv ==
    /\ \A b \in Boots : boot < b => nextSequence[b] = 1
    /\ pending \subseteq Recorded
    /\ \A x \in round : Sendable(x)
    /\ phase # "idle" => UploadSendable(call)
    /\ \A r \in late : UploadSendable(r)

\* What a credential's watermark covers has been billed.
WatermarkSettled(c) ==
    IF agentBoot[c] = NoBoot THEN lastAckSequence[c] = 0
                             ELSE SettledThrough(agentBoot[c], lastAckSequence[c])

ServerInv ==
    /\ \A x \in Batches : storedBy[x] # NoRow => Sendable(x)
    /\ \A x \in accounted : storedBy[x] # NoRow
    /\ \A x \in accounted : SettledThrough(x.boot, x.seq)
    /\ \A c \in Credentials : WatermarkSettled(c)
    /\ phase = "answered" => SettledThrough(call.boot, answer)
    /\ \A x \in Batches : applied[x] = IF x \in accounted THEN 1 ELSE 0
    /\ redacted \subseteq accounted

\* The agent may drop what an acknowledgement covers because every watermark,
\* every answer on its way and every settled batch stands on a billed prefix
\* of its boot, and nothing reaches the server before all older boots are
\* settled.
UploadInvariant == TypeOK /\ NeverLost /\ QueueInv /\ ServerInv

----------------------------------------------------------------------------
\* Every recorded batch is eventually acknowledged and leaves the queue: old
\* boots do not block the queue, and a watermark thrown back by a late request
\* catches up again although each ingest walks a bounded number of rows.  The
\* agent must be running with the node's valid credential for good.
EventuallySettled ==
    <>[](credential = liveCredential)
        => \A b \in Batches : b \in pending ~> b \notin pending

\* The abstract ledger, seen through the queue and the accountedAt marks.
Ledger == INSTANCE UsageLedger WITH
            recorded <- Recorded, settled <- accounted, held <- pending

\* The whole path implements the ledger: in order, once, and released only
\* when settled.
LedgerSpec == Ledger!Spec

============================================================================
