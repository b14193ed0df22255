------------------------- MODULE UsageUploadProofs -------------------------
(***************************************************************************)
(* Proofs about UsageUpload: type correctness, the four safety properties  *)
(* of the upload path by the inductive invariant UploadInvariant, and that *)
(* the path implements UsageLedger, for every value of the constants.      *)
(***************************************************************************)
EXTENDS UsageUpload, TLAPS

----------------------------------------------------------------------------
\* Type correctness

\* The initial state of store, call and control plane is well typed.
LEMMA TypeInit == Init => TypeOK
  BY ConstantsAssumption
  DEF Init, TypeOK, Boots, Batches, Sequences, Credentials, Requests, NoCall,
      NoBoot, NoRow

\* Giving a call up leaves the transport variables and the late requests typed.
LEMMA TypeAbandon ==
  ASSUME TypeOK, Abandon
  PROVE  /\ round' \in SUBSET Batches
         /\ phase' \in {"idle", "sent", "answered"}
         /\ call' \in Requests \cup {NoCall}
         /\ phase' # "idle" => call' \in Requests
         /\ answer' \in 0..MaxSequence
         /\ late' \in SUBSET Requests
  <1>1. late' \in SUBSET Requests
    <2>1. CASE late' = late
      BY <2>1 DEF TypeOK
    <2>2. CASE phase = "sent" /\ late' = late \cup {call}
      BY <2>2 DEF TypeOK
    <2> QED
      BY <2>1, <2>2 DEF Abandon
  <1> QED
    BY <1>1, ConstantsAssumption DEF Abandon, TypeOK

\* An ingest transaction keeps the control plane's rows and watermarks typed.
LEMMA TypeIngest ==
  ASSUME TypeOK, NEW r \in Requests, r.seq \in Sequences,
         NEW ack \in 0..MaxSequence, IngestUsageBatch(r, ack)
  PROVE  /\ liveCredential' \in Credentials
         /\ agentBoot' \in [Credentials -> 0..MaxBoot]
         /\ lastAckSequence' \in [Credentials -> 0..MaxSequence]
         /\ storedBy' \in [Batches -> 0..MaxCredential]
         /\ accounted' \in SUBSET Batches
         /\ redacted' \in SUBSET Batches
         /\ applied' \in [Batches -> Nat]
  <1>1. r.credential \in 0..MaxCredential /\ r.boot \in 0..MaxBoot
    BY ConstantsAssumption DEF Requests, Credentials, Boots
  <1>2. storedBy' \in [Batches -> 0..MaxCredential]
    BY <1>1 DEF IngestUsageBatch, TypeOK
  <1>3. applied' \in [Batches -> Nat]
    BY DEF IngestUsageBatch, TypeOK
  <1>4. accounted' \in SUBSET Batches
    BY DEF IngestUsageBatch, TypeOK
  <1>5. /\ agentBoot' \in [Credentials -> 0..MaxBoot]
        /\ lastAckSequence' \in [Credentials -> 0..MaxSequence]
        /\ liveCredential' \in Credentials /\ redacted' \in SUBSET Batches
    BY <1>1 DEF IngestUsageBatch, TypeOK
  <1> QED
    BY <1>2, <1>3, <1>4, <1>5

\* A heartbeat keeps the watermarks typed and touches nothing else.
LEMMA TypeHeartbeat ==
  ASSUME TypeOK, NEW r \in Requests, NEW ack \in 0..MaxSequence,
         Heartbeat(r, ack)
  PROVE  /\ agentBoot' \in [Credentials -> 0..MaxBoot]
         /\ lastAckSequence' \in [Credentials -> 0..MaxSequence]
  <1>1. r.boot \in 0..MaxBoot
    BY ConstantsAssumption DEF Requests, Boots
  <1> QED
    BY <1>1 DEF Heartbeat, TypeOK

\* Every step of agent, network and control plane keeps the types.  A served
\* upload must carry a sequence number, which UploadSendable says of it.
LEMMA TypeStep ==
  ASSUME TypeOK, QueueInv, [Next]_vars
  PROVE  TypeOK'
  <1> USE DEF agentVars, callVars, serverVars
  <1>1. CASE UNCHANGED vars
    BY <1>1 DEF TypeOK, vars
  <1>2. CASE RecordSample
    <2>1. nextSequence' \in [Boots -> 1..(MaxSequence + 1)]
      BY <1>2, ConstantsAssumption DEF RecordSample, TypeOK
    <2>2. [boot |-> boot, seq |-> nextSequence[boot]] \in Batches
      BY <1>2, ConstantsAssumption DEF RecordSample, TypeOK, Batches, Sequences
    <2> QED
      BY <1>2, <2>1, <2>2 DEF RecordSample, TypeOK
  <1>3. CASE Restart
    <2>1. boot' \in Boots /\ credential' \in Credentials
      BY <1>3, ConstantsAssumption DEF Restart, TypeOK, Boots
    <2> QED
      BY <1>3, <2>1, TypeAbandon DEF Restart, TypeOK
  <1>4. CASE BeginUploadRound
    BY <1>4 DEF BeginUploadRound, ListPendingBatches, TypeOK
  <1>5. CASE UploadBatch
    <2>1. PICK b \in round :
            /\ round' = round \ {b}
            /\ call' = [kind |-> "upload", credential |-> credential,
                        boot |-> b.boot, seq |-> b.seq]
      BY <1>5 DEF UploadBatch
    <2>2. call' \in Requests
      BY <2>1, ConstantsAssumption
      DEF TypeOK, Requests, Batches, Sequences
    <2> QED
      BY <1>5, <2>1, <2>2 DEF UploadBatch, TypeOK
  <1>6. CASE SendHeartbeat
    <2>1. call' \in Requests
      BY <1>6, ConstantsAssumption DEF SendHeartbeat, TypeOK, Requests
    <2> QED
      BY <1>6, <2>1 DEF SendHeartbeat, TypeOK
  <1>7. CASE ReceiveUploadAck
    BY <1>7, ConstantsAssumption DEF ReceiveUploadAck, AckThrough, TypeOK
  <1>8. CASE ReceiveHeartbeatAck
    BY <1>8, ConstantsAssumption DEF ReceiveHeartbeatAck, AckThrough, TypeOK
  <1>9. CASE CallFails
    BY <1>9, TypeAbandon DEF CallFails, TypeOK
  <1>10. CASE ServeUpload
    <2>1. PICK ack \in 0..MaxSequence :
            IngestUsageBatch(call, ack) /\ answer' = ack
      BY <1>10 DEF ServeUpload
    <2>2. call \in Requests /\ call.seq \in Sequences
      BY <1>10 DEF ServeUpload, TypeOK, QueueInv, UploadSendable
    <2> QED
      BY <1>10, <2>1, <2>2, TypeIngest DEF ServeUpload, TypeOK
  <1>11. CASE ServeHeartbeat
    <2>1. PICK ack \in 0..MaxSequence : Heartbeat(call, ack) /\ answer' = ack
      BY <1>11 DEF ServeHeartbeat
    <2>2. call \in Requests
      BY <1>11 DEF ServeHeartbeat, TypeOK
    <2>3. /\ agentBoot' \in [Credentials -> 0..MaxBoot]
          /\ lastAckSequence' \in [Credentials -> 0..MaxSequence]
      BY <2>1, <2>2, TypeHeartbeat
    <2> QED
      BY <1>11, <2>1, <2>2, <2>3 DEF ServeHeartbeat, Heartbeat, TypeOK
  <1>12. CASE ServeLateUpload
    <2>1. PICK r \in late :
            /\ r.kind = "upload"
            /\ \E ack \in 0..MaxSequence : IngestUsageBatch(r, ack)
            /\ late' = late \ {r}
            /\ UNCHANGED <<agentVars, callVars>>
      BY <1>12 DEF ServeLateUpload
    <2>2. r \in Requests /\ r.seq \in Sequences
      BY <2>1 DEF TypeOK, QueueInv, UploadSendable
    <2> QED
      BY <2>1, <2>2, TypeIngest DEF TypeOK
  <1>13. CASE ServeLateHeartbeat
    <2>1. PICK r \in late :
            /\ \E ack \in 0..MaxSequence : Heartbeat(r, ack)
            /\ late' = late \ {r}
            /\ UNCHANGED <<agentVars, callVars>>
      BY <1>13 DEF ServeLateHeartbeat
    <2>2. r \in Requests
      BY DEF TypeOK
    <2>3. PICK ack \in 0..MaxSequence : Heartbeat(r, ack)
      BY <2>1
    <2>4. /\ agentBoot' \in [Credentials -> 0..MaxBoot]
          /\ lastAckSequence' \in [Credentials -> 0..MaxSequence]
      BY <2>2, <2>3, TypeHeartbeat
    <2> QED
      BY <2>1, <2>3, <2>4 DEF Heartbeat, TypeOK
  <1>14. CASE LoseLateRequest
    BY <1>14 DEF LoseLateRequest, TypeOK
  <1>15. CASE CreateCredential
    BY <1>15, ConstantsAssumption DEF CreateCredential, TypeOK, Credentials
  <1>16. CASE RedactSettledUsagePayloads
    BY <1>16 DEF RedactSettledUsagePayloads, Redactable, TypeOK
  <1> QED
    BY <1>1, <1>2, <1>3, <1>4, <1>5, <1>6, <1>7, <1>8, <1>9, <1>10, <1>11,
       <1>12, <1>13, <1>14, <1>15, <1>16 DEF Next

----------------------------------------------------------------------------
\* The inductive invariant

\* Only processes that have started have recorded anything.
LEMMA RecordedHasStarted ==
  ASSUME TypeOK, QueueInv, NEW x \in Recorded
  PROVE  x.boot <= boot /\ x \in Batches
  BY ConstantsAssumption
  DEF Recorded, QueueInv, TypeOK, Batches, Boots, Sequences

\* What is settled stays settled, and while no batch is recorded what may be
\* sent stays sendable.
LEMMA SettledIsStable ==
  ASSUME accounted \subseteq accounted', nextSequence' = nextSequence
  PROVE  /\ Recorded' = Recorded
         /\ \A b : OlderSettled(b) => OlderSettled(b)'
         /\ \A b, n : SettledThrough(b, n) => SettledThrough(b, n)'
         /\ \A x : Sendable(x) => Sendable(x)'
         /\ \A r : UploadSendable(r) => UploadSendable(r)'
  BY DEF Recorded, OlderSettled, SettledThrough, Sendable, UploadSendable

\* The ingest transaction: it bills only rows of a contiguous run that starts
\* where the watermark stands, so its answer again stands on a billed prefix.
LEMMA IngestKeepsServerInv ==
  ASSUME TypeOK, QueueInv, ServerInv,
         NEW r \in Requests, r.kind = "upload", UploadSendable(r),
         NEW ack \in 0..MaxSequence, IngestUsageBatch(r, ack),
         nextSequence' = nextSequence
  PROVE  /\ accounted \subseteq accounted'
         /\ SettledThrough(r.boot, ack)'
         /\ \A x \in Batches : storedBy'[x] # NoRow => Sendable(x)'
         /\ \A x \in accounted' : storedBy'[x] # NoRow
         /\ \A x \in accounted' : SettledThrough(x.boot, x.seq)'
         /\ \A c \in Credentials : WatermarkSettled(c)'
         /\ \A x \in Batches : applied'[x] = IF x \in accounted' THEN 1 ELSE 0
         /\ redacted' \subseteq accounted'
  <1> DEFINE c == r.credential
             b == [boot |-> r.boot, seq |-> r.seq]
             current == StartingAck(c, r.boot)
             walked == {x \in Batches : /\ x.boot = r.boot
                                        /\ current < x.seq /\ x.seq <= ack}
  <1>1. /\ c \in Credentials /\ c # NoRow /\ r.boot \in Boots
        /\ r.boot # NoBoot /\ b \in Batches
    BY ConstantsAssumption
    DEF Requests, Credentials, Boots, NoRow, NoBoot, UploadSendable, Batches
  <1>2. current \in 0..MaxSequence
    BY <1>1, ConstantsAssumption DEF StartingAck, TypeOK
  <1>3. accounted' = accounted \cup walked
    BY DEF IngestUsageBatch
  <1>4. storedBy' = IF storedBy[b] = NoRow THEN [storedBy EXCEPT ![b] = c]
                                          ELSE storedBy
    BY DEF IngestUsageBatch
  <1>5. \A s \in (current + 1)..ack : storedBy'[[boot |-> r.boot, seq |-> s]] = c
    BY <1>4 DEF IngestUsageBatch, Contiguous
  <1>6. SettledThrough(r.boot, current)
    BY <1>1 DEF StartingAck, ServerInv, WatermarkSettled, SettledThrough, Batches,
                Sequences, TypeOK, NoBoot
  <1>7. SettledThrough(r.boot, ack)'
    BY <1>2, <1>3, <1>6 DEF SettledThrough, Batches, Sequences
  <1>8. accounted \subseteq accounted'
    BY <1>3
  <1>9. \A x \in Batches : storedBy'[x] # NoRow => Sendable(x)'
    <2>1. Sendable(b)
      BY DEF UploadSendable
    <2>2. \A x \in Batches : storedBy'[x] # NoRow => Sendable(x)
      BY <1>1, <1>4, <2>1 DEF ServerInv, TypeOK
    <2> QED
      BY <1>8, <2>2, SettledIsStable
  <1>10. \A x \in walked : storedBy'[x] = c
    <2> SUFFICES ASSUME NEW x \in walked PROVE storedBy'[x] = c
      OBVIOUS
    <2>1. x = [boot |-> r.boot, seq |-> x.seq] /\ x.seq \in (current + 1)..ack
      BY <1>2 DEF Batches, Sequences
    <2> QED
      BY <2>1, <1>5
  <1>11. \A x \in accounted' : storedBy'[x] # NoRow
    <2>1. \A x \in accounted : storedBy'[x] # NoRow
      BY <1>1, <1>4 DEF ServerInv, TypeOK
    <2> QED
      BY <1>1, <1>3, <1>10, <2>1
  <1>12. \A x \in accounted' : SettledThrough(x.boot, x.seq)'
    <2>1. \A x \in accounted : SettledThrough(x.boot, x.seq)'
      BY <1>8, SettledIsStable DEF ServerInv
    <2>2. \A x \in walked : SettledThrough(x.boot, x.seq)'
      BY <1>7 DEF SettledThrough, Batches, Sequences
    <2> QED
      BY <1>3, <2>1, <2>2
  <1>13. \A d \in Credentials : WatermarkSettled(d)'
    <2> SUFFICES ASSUME NEW d \in Credentials PROVE WatermarkSettled(d)'
      OBVIOUS
    <2>1. CASE d = c
      <3>1. agentBoot'[d] = r.boot /\ lastAckSequence'[d] = ack
        BY <2>1, <1>1 DEF IngestUsageBatch, TypeOK
      <3> QED
        BY <3>1, <1>1, <1>7 DEF WatermarkSettled, SettledThrough
    <2>2. CASE d # c
      <3>1. agentBoot'[d] = agentBoot[d] /\ lastAckSequence'[d] = lastAckSequence[d]
        BY <2>2, <1>1 DEF IngestUsageBatch, TypeOK
      <3> QED
        BY <3>1, <1>8 DEF ServerInv, WatermarkSettled, SettledThrough
    <2> QED
      BY <2>1, <2>2
  <1>14. \A x \in Batches : applied'[x] = IF x \in accounted' THEN 1 ELSE 0
    <2>1. applied' = [x \in Batches |-> IF x \in walked \ accounted
                                        THEN applied[x] + 1 ELSE applied[x]]
      BY DEF IngestUsageBatch, Unaccounted
    <2> HIDE DEF walked
    <2> QED
      BY <1>3, <2>1 DEF ServerInv
  <1>15. redacted' \subseteq accounted'
    BY <1>8 DEF IngestUsageBatch, ServerInv
  <1> QED
    BY <1>7, <1>8, <1>9, <1>11, <1>12, <1>13, <1>14, <1>15

\* A heartbeat moves a watermark only onto 0 or leaves it where it stands, so
\* its answer is covered as well.
LEMMA HeartbeatKeepsWatermarks ==
  ASSUME TypeOK, ServerInv, NEW r \in Requests,
         NEW ack \in 0..MaxSequence, Heartbeat(r, ack)
  PROVE  /\ SettledThrough(r.boot, ack)'
         /\ \A c \in Credentials : WatermarkSettled(c)'
  <1>1. /\ r.credential \in Credentials /\ r.boot \in Boots /\ r.boot # NoBoot
    BY DEF Requests, Boots, NoBoot
  <1>2. accounted' = accounted
    BY DEF Heartbeat
  <1>3. SettledThrough(r.boot, ack)
    <2>1. CASE agentBoot[r.credential] # r.boot
      BY <2>1 DEF Heartbeat, SettledThrough, Batches, Sequences
    <2>2. CASE agentBoot[r.credential] = r.boot
      BY <2>2, <1>1 DEF Heartbeat, ServerInv, WatermarkSettled
    <2> QED
      BY <2>1, <2>2
  <1>4. SettledThrough(r.boot, ack)'
    BY <1>2, <1>3 DEF SettledThrough
  <1>5. ASSUME NEW c \in Credentials PROVE WatermarkSettled(c)'
    <2>1. CASE c = r.credential
      <3>1. agentBoot'[c] = r.boot /\ lastAckSequence'[c] = ack
        BY <2>1 DEF Heartbeat, TypeOK
      <3> QED
        BY <3>1, <1>1, <1>4 DEF WatermarkSettled, SettledThrough
    <2>2. CASE c # r.credential
      <3>1. agentBoot'[c] = agentBoot[c] /\ lastAckSequence'[c] = lastAckSequence[c]
        BY <2>2 DEF Heartbeat, TypeOK
      <3> QED
        BY <3>1, <1>2 DEF ServerInv, WatermarkSettled, SettledThrough
    <2> QED
      BY <2>1, <2>2
  <1> QED
    BY <1>4, <1>5

\* Steps that leave the control plane and the recorded sequence numbers alone
\* keep ServerInv, if an answer the agent still waits for was there before.
LEMMA ServerUntouched ==
  ASSUME ServerInv, UNCHANGED serverVars, nextSequence' = nextSequence,
         phase' = "answered" => UNCHANGED <<phase, call, answer>>
  PROVE  ServerInv'
  BY SettledIsStable
  DEF ServerInv, serverVars, WatermarkSettled, SettledThrough

\* Abandoning a call turns it at most into a late request.
LEMMA AbandonKeepsSendable ==
  ASSUME QueueInv, Abandon, UNCHANGED <<nextSequence, accounted>>
  PROVE  /\ \A r \in late' : UploadSendable(r)'
         /\ round' = {} /\ phase' = "idle"
  <1>1. \A r \in late' : UploadSendable(r)
    BY DEF Abandon, QueueInv
  <1> QED
    BY <1>1, SettledIsStable DEF Abandon

\* A batch recorded by the running process is younger than every batch that
\* was sendable, so nothing that was sent loses its standing.
LEMMA RecordKeepsSendable ==
  ASSUME TypeOK, QueueInv, RecordSample
  PROVE  /\ Recorded' = Recorded \cup {[boot |-> boot, seq |-> nextSequence[boot]]}
         /\ [boot |-> boot, seq |-> nextSequence[boot]] \notin Recorded
         /\ \A x : Sendable(x) => Sendable(x)'
         /\ \A r : UploadSendable(r) => UploadSendable(r)'
  <1> DEFINE new == [boot |-> boot, seq |-> nextSequence[boot]]
  <1>1. Recorded' = Recorded \cup {new}
    <2>1. new \in Batches
      BY ConstantsAssumption DEF RecordSample, TypeOK, Batches, Sequences
    <2>2. nextSequence' = [nextSequence EXCEPT ![boot] = nextSequence[boot] + 1]
      BY DEF RecordSample
    <2>3. ASSUME NEW x \in Batches PROVE x \in Recorded' <=> x \in Recorded \cup {new}
      <3>1. x = [boot |-> x.boot, seq |-> x.seq] /\ x.boot \in Boots /\ x.seq \in Nat
        BY DEF Batches, Sequences
      <3>2. CASE x.boot = boot
        <4>1. nextSequence'[x.boot] = nextSequence[boot] + 1 /\ nextSequence[boot] \in Nat
          BY <2>2, <3>1, <3>2 DEF TypeOK
        <4>2. x.seq < nextSequence[boot] + 1
                <=> (x.seq < nextSequence[boot] \/ x.seq = nextSequence[boot])
          BY <3>1, <4>1
        <4>3. x = new <=> x.seq = nextSequence[boot]
          BY <3>1, <3>2
        <4> QED
          BY <3>2, <4>1, <4>2, <4>3 DEF Recorded
      <3>3. CASE x.boot # boot
        BY <2>2, <3>1, <3>3 DEF Recorded, TypeOK
      <3> QED
        BY <3>2, <3>3
    <2> QED
      BY <2>1, <2>3 DEF Recorded
  <1>2. new \notin Recorded
    BY ConstantsAssumption DEF Recorded, TypeOK, Batches, Boots
  <1>3. accounted' = accounted
    BY DEF RecordSample, serverVars
  <1>4. ASSUME NEW x, Sendable(x) PROVE Sendable(x)'
    <2>1. x.boot <= boot /\ x.boot \in Boots
      BY <1>4, RecordedHasStarted DEF Sendable, Batches
    <2>2. OlderSettled(x.boot)'
      BY <1>1, <1>3, <1>4, <2>1, ConstantsAssumption
      DEF Sendable, OlderSettled, TypeOK, Boots
    <2> QED
      BY <1>1, <1>4, <2>2 DEF Sendable
  <1>5. ASSUME NEW r, UploadSendable(r) PROVE UploadSendable(r)'
    BY <1>4, <1>5 DEF UploadSendable
  <1> QED
    BY <1>1, <1>2, <1>4, <1>5

\* Dropping what an answer covers loses nothing that is not billed.
LEMMA AckKeepsNeverLost ==
  ASSUME TypeOK, NeverLost, QueueInv, ServerInv, phase = "answered",
         pending' = pending \ AckThrough(call.boot, answer),
         UNCHANGED <<nextSequence, accounted>>
  PROVE  NeverLost' /\ pending' \subseteq Recorded'
  <1>1. Recorded' = Recorded
    BY DEF Recorded
  <1>2. AckThrough(call.boot, answer) \subseteq accounted
    BY DEF AckThrough, ServerInv, SettledThrough, TypeOK
  <1> QED
    BY <1>1, <1>2 DEF NeverLost, QueueInv

\* The batches of the oldest pending boot are sendable: everything older has
\* left the queue, hence is billed.
LEMMA HeadIsSendable ==
  ASSUME TypeOK, NeverLost, QueueInv, NEW x \in pending, IsHeadBoot(x.boot)
  PROVE  Sendable(x)
  <1>1. x \in Recorded
    BY DEF QueueInv
  <1>2. ASSUME NEW y \in Recorded, y.boot < x.boot PROVE y \in accounted
    <2>1. y \notin pending
      BY <1>2 DEF IsHeadBoot, TypeOK, Batches, Boots
    <2> QED
      BY <2>1 DEF NeverLost
  <1> QED
    BY <1>1, <1>2 DEF Sendable, OlderSettled

\* The invariant holds when nothing has been recorded yet.
LEMMA InvInit == Init => UploadInvariant
  <1> SUFFICES ASSUME Init PROVE UploadInvariant
    OBVIOUS
  <1>1. TypeOK
    BY TypeInit
  <1>2. Recorded = {}
    BY DEF Init, Recorded, Batches, Sequences
  <1>3. NeverLost /\ QueueInv
    BY <1>2 DEF Init, NeverLost, QueueInv
  <1>4. ServerInv
    BY DEF Init, ServerInv, WatermarkSettled, SettledThrough, NoRow, NoBoot
  <1> QED
    BY <1>1, <1>3, <1>4 DEF UploadInvariant

\* The invariant is inductive: one step per action, and in it the parts the
\* action can disturb.
LEMMA InvStep ==
  ASSUME UploadInvariant, [Next]_vars
  PROVE  UploadInvariant'
  <1> USE DEF agentVars, callVars
  <1>0. TypeOK /\ NeverLost /\ QueueInv /\ ServerInv
    BY DEF UploadInvariant
  <1>t. TypeOK'
    BY <1>0, TypeStep
  <1>1. CASE UNCHANGED vars
    <2>1. NeverLost'
      BY <1>0, <1>1 DEF vars, serverVars, NeverLost, Recorded
    <2>2. QueueInv'
      BY <1>0, <1>1, SettledIsStable DEF vars, serverVars, QueueInv
    <2>3. ServerInv'
      BY <1>0, <1>1, ServerUntouched DEF vars
    <2> QED
      BY <1>t, <2>1, <2>2, <2>3 DEF UploadInvariant
  <1>2. CASE RecordSample
    <2> DEFINE new == [boot |-> boot, seq |-> nextSequence[boot]]
    <2>1. /\ Recorded' = Recorded \cup {new} /\ new \notin Recorded
          /\ \A x : Sendable(x) => Sendable(x)'
          /\ \A r : UploadSendable(r) => UploadSendable(r)'
      BY <1>0, <1>2, RecordKeepsSendable
    <2>2. pending' = pending \cup {new} /\ UNCHANGED <<boot, callVars, late, serverVars>>
      BY <1>2 DEF RecordSample
    <2>3. NeverLost' /\ pending' \subseteq Recorded'
      BY <1>0, <2>1, <2>2 DEF NeverLost, QueueInv, serverVars
    <2>4. \A b \in Boots : boot' < b => nextSequence'[b] = 1
      BY <1>0, <1>2 DEF RecordSample, QueueInv, TypeOK, Boots
    <2>5. QueueInv'
      BY <1>0, <2>1, <2>2, <2>3, <2>4 DEF QueueInv
    <2>6. ServerInv'
      BY <1>0, <2>1, <2>2
      DEF ServerInv, serverVars, WatermarkSettled, SettledThrough
    <2> QED
      BY <1>t, <2>3, <2>5, <2>6 DEF UploadInvariant
  <1>3. CASE Restart
    <2>1. /\ Abandon /\ boot' = boot + 1
          /\ UNCHANGED <<nextSequence, pending, serverVars>>
      BY <1>3 DEF Restart
    <2>2. NeverLost' /\ pending' \subseteq Recorded'
      BY <1>0, <2>1 DEF NeverLost, QueueInv, Recorded, serverVars
    <2>3. /\ \A r \in late' : UploadSendable(r)'
          /\ round' = {} /\ phase' = "idle"
      BY <1>0, <2>1, AbandonKeepsSendable DEF serverVars
    <2>4. \A b \in Boots : boot' < b => nextSequence'[b] = 1
      BY <1>0, <2>1 DEF QueueInv, TypeOK, Boots
    <2>5. QueueInv'
      BY <2>2, <2>3, <2>4 DEF QueueInv
    <2>6. ServerInv'
      BY <1>0, <2>1, <2>3, ServerUntouched
    <2> QED
      BY <1>t, <2>2, <2>5, <2>6 DEF UploadInvariant
  <1>4. CASE BeginUploadRound
    <2>1. UNCHANGED <<nextSequence, pending, boot, phase, call, answer, late, serverVars>>
      BY <1>4 DEF BeginUploadRound
    <2>2. \A x \in round' : Sendable(x)
      BY <1>0, <1>4, HeadIsSendable DEF BeginUploadRound, ListPendingBatches
    <2>3. NeverLost'
      BY <1>0, <2>1 DEF NeverLost, Recorded, serverVars
    <2>4. QueueInv'
      BY <1>0, <2>1, <2>2, SettledIsStable DEF QueueInv, serverVars
    <2>5. ServerInv'
      BY <1>0, <2>1, ServerUntouched
    <2> QED
      BY <1>t, <2>3, <2>4, <2>5 DEF UploadInvariant
  <1>5. CASE UploadBatch
    <2>1. UNCHANGED <<nextSequence, pending, boot, late, serverVars>> /\ phase' = "sent"
      BY <1>5 DEF UploadBatch
    <2>2. PICK b \in round :
            /\ round' = round \ {b}
            /\ call' = [kind |-> "upload", credential |-> credential,
                        boot |-> b.boot, seq |-> b.seq]
      BY <1>5 DEF UploadBatch
    <2>3. b = [boot |-> b.boot, seq |-> b.seq] /\ b.seq \in Sequences /\ Sendable(b)
      BY <1>0 DEF QueueInv, TypeOK, Batches
    <2>4. Sendable(b)' /\ \A x \in round' : Sendable(x)'
      BY <1>0, <2>1, <2>2, <2>3, SettledIsStable DEF QueueInv, serverVars
    <2>5. UploadSendable(call)'
      BY <2>2, <2>3, <2>4 DEF UploadSendable
    <2>6. NeverLost'
      BY <1>0, <2>1 DEF NeverLost, Recorded, serverVars
    <2>7. QueueInv'
      BY <1>0, <2>1, <2>4, <2>5, SettledIsStable DEF QueueInv, serverVars
    <2>8. ServerInv'
      BY <1>0, <2>1, ServerUntouched
    <2> QED
      BY <1>t, <2>6, <2>7, <2>8 DEF UploadInvariant
  <1>6. CASE SendHeartbeat
    <2>1. /\ UNCHANGED <<nextSequence, pending, boot, round, late, serverVars>>
          /\ phase' = "sent" /\ call'.kind = "heartbeat"
      BY <1>6 DEF SendHeartbeat
    <2>2. NeverLost'
      BY <1>0, <2>1 DEF NeverLost, Recorded, serverVars
    <2>3. UploadSendable(call)'
      BY <2>1 DEF UploadSendable
    <2>4. QueueInv'
      BY <1>0, <2>1, <2>3, SettledIsStable DEF QueueInv, serverVars
    <2>5. ServerInv'
      BY <1>0, <2>1, ServerUntouched
    <2> QED
      BY <1>t, <2>2, <2>4, <2>5 DEF UploadInvariant
  <1>7. CASE ReceiveUploadAck \/ ReceiveHeartbeatAck
    <2>1. /\ phase = "answered" /\ phase' = "idle" /\ round' \subseteq round
          /\ pending' = pending \ AckThrough(call.boot, answer)
          /\ UNCHANGED <<nextSequence, boot, late, serverVars>>
      BY <1>7 DEF ReceiveUploadAck, ReceiveHeartbeatAck
    <2>2. NeverLost' /\ pending' \subseteq Recorded'
      BY <1>0, <2>1, AckKeepsNeverLost DEF serverVars
    <2>3. QueueInv'
      BY <1>0, <2>1, <2>2, SettledIsStable DEF QueueInv, serverVars
    <2>4. ServerInv'
      BY <1>0, <2>1, ServerUntouched
    <2> QED
      BY <1>t, <2>2, <2>3, <2>4 DEF UploadInvariant
  <1>8. CASE CallFails
    <2>1. Abandon /\ UNCHANGED <<nextSequence, pending, boot, serverVars>>
      BY <1>8 DEF CallFails
    <2>2. /\ \A r \in late' : UploadSendable(r)'
          /\ round' = {} /\ phase' = "idle"
      BY <1>0, <2>1, AbandonKeepsSendable DEF serverVars
    <2>3. NeverLost'
      BY <1>0, <2>1 DEF NeverLost, Recorded, serverVars
    <2>4. QueueInv'
      BY <1>0, <2>1, <2>2, SettledIsStable DEF QueueInv, serverVars
    <2>5. ServerInv'
      BY <1>0, <2>1, <2>2, ServerUntouched
    <2> QED
      BY <1>t, <2>3, <2>4, <2>5 DEF UploadInvariant
  <1>9. CASE ServeUpload
    <2>1. PICK ack \in 0..MaxSequence : IngestUsageBatch(call, ack) /\ answer' = ack
      BY <1>9 DEF ServeUpload
    <2>2. /\ phase = "sent" /\ call.kind = "upload" /\ phase' = "answered"
          /\ UNCHANGED <<nextSequence, pending, boot, round, call, late>>
      BY <1>9 DEF ServeUpload
    <2>3. call \in Requests /\ UploadSendable(call)
      BY <1>0, <2>2 DEF TypeOK, QueueInv
    <2>4. /\ accounted \subseteq accounted' /\ SettledThrough(call.boot, ack)'
          /\ \A x \in Batches : storedBy'[x] # NoRow => Sendable(x)'
          /\ \A x \in accounted' : storedBy'[x] # NoRow
          /\ \A x \in accounted' : SettledThrough(x.boot, x.seq)'
          /\ \A c \in Credentials : WatermarkSettled(c)'
          /\ \A x \in Batches : applied'[x] = IF x \in accounted' THEN 1 ELSE 0
          /\ redacted' \subseteq accounted'
      BY <1>0, <2>1, <2>2, <2>3, IngestKeepsServerInv
    <2>5. SettledThrough(call.boot, answer)'
      BY <2>1, <2>2, <2>4 DEF SettledThrough
    <2>6. ServerInv'
      BY <2>4, <2>5 DEF ServerInv
    <2>7. NeverLost'
      BY <1>0, <2>2, <2>4 DEF NeverLost, Recorded
    <2>8. UploadSendable(call)'
      BY <2>2, <2>3, <2>4, SettledIsStable DEF UploadSendable
    <2>9. QueueInv'
      BY <1>0, <2>2, <2>4, <2>8, SettledIsStable DEF QueueInv
    <2> QED
      BY <1>t, <2>6, <2>7, <2>9 DEF UploadInvariant
  <1>10. CASE ServeHeartbeat
    <2>1. PICK ack \in 0..MaxSequence : Heartbeat(call, ack) /\ answer' = ack
      BY <1>10 DEF ServeHeartbeat
    <2>2. /\ phase = "sent" /\ phase' = "answered"
          /\ UNCHANGED <<nextSequence, pending, boot, round, call, late>>
      BY <1>10 DEF ServeHeartbeat
    <2>3. call \in Requests
      BY <1>0, <2>2 DEF TypeOK
    <2>4. SettledThrough(call.boot, ack)' /\ \A c \in Credentials : WatermarkSettled(c)'
      BY <1>0, <2>1, <2>2, <2>3, HeartbeatKeepsWatermarks
    <2>5. UNCHANGED <<storedBy, accounted, redacted, applied>>
      BY <2>1 DEF Heartbeat
    <2>6. SettledThrough(call.boot, answer)'
      BY <2>1, <2>2, <2>4 DEF SettledThrough
    <2>7. ServerInv'
      BY <1>0, <2>2, <2>4, <2>5, <2>6, SettledIsStable DEF ServerInv
    <2>8. NeverLost'
      BY <1>0, <2>2, <2>5 DEF NeverLost, Recorded
    <2>9. UploadSendable(call)'
      BY <1>0, <2>2, <2>5, SettledIsStable DEF QueueInv, UploadSendable
    <2>10. QueueInv'
      BY <1>0, <2>2, <2>5, <2>9, SettledIsStable DEF QueueInv
    <2> QED
      BY <1>t, <2>7, <2>8, <2>10 DEF UploadInvariant
  <1>11. CASE ServeLateUpload
    <2>1. PICK r \in late :
            /\ r.kind = "upload"
            /\ \E ack \in 0..MaxSequence : IngestUsageBatch(r, ack)
            /\ late' = late \ {r}
            /\ UNCHANGED <<agentVars, callVars>>
      BY <1>11 DEF ServeLateUpload
    <2>2. PICK ack \in 0..MaxSequence : IngestUsageBatch(r, ack)
      BY <2>1
    <2>3. r \in Requests /\ UploadSendable(r)
      BY <1>0 DEF TypeOK, QueueInv
    <2>4. /\ accounted \subseteq accounted'
          /\ \A x \in Batches : storedBy'[x] # NoRow => Sendable(x)'
          /\ \A x \in accounted' : storedBy'[x] # NoRow
          /\ \A x \in accounted' : SettledThrough(x.boot, x.seq)'
          /\ \A c \in Credentials : WatermarkSettled(c)'
          /\ \A x \in Batches : applied'[x] = IF x \in accounted' THEN 1 ELSE 0
          /\ redacted' \subseteq accounted'
      BY <1>0, <2>1, <2>2, <2>3, IngestKeepsServerInv
    <2>5. phase' = "answered" => SettledThrough(call.boot, answer)'
      BY <1>0, <2>1, <2>4 DEF ServerInv, SettledThrough
    <2>6. ServerInv'
      BY <2>4, <2>5 DEF ServerInv
    <2>7. NeverLost'
      BY <1>0, <2>1, <2>4 DEF NeverLost, Recorded
    <2>8. phase' # "idle" => UploadSendable(call)'
      BY <1>0, <2>1, <2>4, SettledIsStable DEF QueueInv, UploadSendable
    <2>9. QueueInv'
      BY <1>0, <2>1, <2>4, <2>8, SettledIsStable DEF QueueInv
    <2> QED
      BY <1>t, <2>6, <2>7, <2>9 DEF UploadInvariant
  <1>12. CASE ServeLateHeartbeat
    <2>1. PICK r \in late :
            /\ \E ack \in 0..MaxSequence : Heartbeat(r, ack)
            /\ late' = late \ {r}
            /\ UNCHANGED <<agentVars, callVars>>
      BY <1>12 DEF ServeLateHeartbeat
    <2>2. PICK ack \in 0..MaxSequence : Heartbeat(r, ack)
      BY <2>1
    <2>3. r \in Requests
      BY <1>0 DEF TypeOK
    <2>4. \A c \in Credentials : WatermarkSettled(c)'
      BY <1>0, <2>2, <2>3, HeartbeatKeepsWatermarks
    <2>5. UNCHANGED <<storedBy, accounted, redacted, applied>>
      BY <2>2 DEF Heartbeat
    <2>6. phase' = "answered" => SettledThrough(call.boot, answer)'
      BY <1>0, <2>1, <2>5 DEF ServerInv, SettledThrough
    <2>7. ServerInv'
      BY <1>0, <2>1, <2>4, <2>5, <2>6, SettledIsStable DEF ServerInv
    <2>8. NeverLost'
      BY <1>0, <2>1, <2>5 DEF NeverLost, Recorded
    <2>9. QueueInv'
      BY <1>0, <2>1, <2>5, SettledIsStable DEF QueueInv
    <2> QED
      BY <1>t, <2>7, <2>8, <2>9 DEF UploadInvariant
  <1>13. CASE LoseLateRequest
    <2>1. /\ UNCHANGED <<nextSequence, pending, boot, round, phase, call, answer, serverVars>>
          /\ late' \subseteq late
      BY <1>13 DEF LoseLateRequest
    <2>2. NeverLost'
      BY <1>0, <2>1 DEF NeverLost, Recorded, serverVars
    <2>3. QueueInv'
      BY <1>0, <2>1, SettledIsStable DEF QueueInv, serverVars
    <2>4. ServerInv'
      BY <1>0, <2>1, ServerUntouched
    <2> QED
      BY <1>t, <2>2, <2>3, <2>4 DEF UploadInvariant
  <1>14. CASE CreateCredential \/ RedactSettledUsagePayloads
    <2>1. /\ UNCHANGED <<nextSequence, pending, boot, round, phase, call, answer, late,
                         agentBoot, lastAckSequence, storedBy, accounted, applied>>
          /\ redacted' \subseteq redacted \cup accounted
      BY <1>14 DEF CreateCredential, RedactSettledUsagePayloads, Redactable
    <2>2. NeverLost'
      BY <1>0, <2>1 DEF NeverLost, Recorded
    <2>3. QueueInv'
      BY <1>0, <2>1, SettledIsStable DEF QueueInv
    <2>4. ServerInv'
      BY <1>0, <2>1, SettledIsStable DEF ServerInv, WatermarkSettled, SettledThrough
    <2> QED
      BY <1>t, <2>2, <2>3, <2>4 DEF UploadInvariant
  <1> QED
    BY <1>1, <1>2, <1>3, <1>4, <1>5, <1>6, <1>7, <1>8, <1>9, <1>10, <1>11,
       <1>12, <1>13, <1>14 DEF Next

----------------------------------------------------------------------------
\* Theorems

\* The inductive invariant holds in every reachable state, for any number of
\* restarts, batches, credentials, late requests and any scan bound.
THEOREM UploadInvariantHolds == Spec => []UploadInvariant
  <1>1. Init => UploadInvariant
    BY InvInit
  <1>2. UploadInvariant /\ [Next]_vars => UploadInvariant'
    BY InvStep
  <1> QED
    BY <1>1, <1>2, PTL DEF Spec

\* Store, transport and control-plane state stay well typed.
THEOREM TypeCorrect == Spec => []TypeOK
  <1>1. UploadInvariant => TypeOK
    BY DEF UploadInvariant
  <1> QED
    BY <1>1, UploadInvariantHolds, PTL

\* The agent deletes a batch from its queue (AckThrough) only after the
\* control plane has billed it.
THEOREM NeverLostHolds == Spec => []NeverLost
  <1>1. UploadInvariant => NeverLost
    BY DEF UploadInvariant
  <1> QED
    BY <1>1, UploadInvariantHolds, PTL

\* applyDirectBatch runs at most once per batch, however often the watermark
\* is thrown back.
THEOREM BilledAtMostOnceHolds == Spec => []BilledAtMostOnce
  <1>1. UploadInvariant => BilledAtMostOnce
    BY DEF UploadInvariant, ServerInv, BilledAtMostOnce
  <1> QED
    BY <1>1, UploadInvariantHolds, PTL

\* An invariant state bills in recording order, within a boot and across
\* boots.
LEMMA InvariantIsOrdered == UploadInvariant => AccountedInOrder
  <1> SUFFICES ASSUME UploadInvariant, NEW b \in accounted, NEW x \in Recorded,
                      Before(x, b)
               PROVE  x \in accounted
    BY DEF AccountedInOrder
  <1>1. /\ b \in Batches /\ x \in Batches /\ Sendable(b)
        /\ SettledThrough(b.boot, b.seq)
    BY DEF UploadInvariant, TypeOK, ServerInv, Recorded
  <1>2. CASE x.boot < b.boot
    BY <1>1, <1>2 DEF Sendable, OlderSettled
  <1>3. CASE x.boot = b.boot /\ x.seq < b.seq
    BY <1>1, <1>3 DEF SettledThrough, Batches, Sequences
  <1> QED
    BY <1>2, <1>3 DEF Before

\* Batches are billed in the order in which the agent recorded them.
THEOREM AccountedInOrderHolds == Spec => []AccountedInOrder
  BY InvariantIsOrdered, UploadInvariantHolds, PTL

\* The retention job never empties a batch that is still to be billed.
THEOREM UnsettledKeepsPayloadHolds == Spec => []UnsettledKeepsPayload
  <1>1. UploadInvariant => UnsettledKeepsPayload
    BY DEF UploadInvariant, ServerInv, UnsettledKeepsPayload
  <1> QED
    BY <1>1, UploadInvariantHolds, PTL

----------------------------------------------------------------------------
\* Refinement of UsageLedger

\* A step that only bills is a Settle of the ledger: what it bills was
\* recorded, and the bill stays ordered.
LEMMA BillingSettles ==
  ASSUME UploadInvariant, UploadInvariant', accounted \subseteq accounted',
         UNCHANGED <<nextSequence, pending>>
  PROVE  Ledger!Settle
  <1> DEFINE S == accounted' \ accounted
  <1>1. Recorded' = Recorded
    BY DEF Recorded
  <1>2. accounted' \subseteq Recorded
    BY <1>1 DEF UploadInvariant, ServerInv, Sendable, TypeOK
  <1>3. \A b \in accounted' : \A x \in Recorded : Before(x, b) => x \in accounted'
    <2>1. AccountedInOrder'
      BY InvariantIsOrdered, PTL
    <2> QED
      BY <1>1, <2>1 DEF AccountedInOrder, Before
  <1>4. S \in SUBSET (Recorded \ accounted)
    BY <1>2
  <1>5. accounted' = accounted \cup S
    OBVIOUS
  <1> QED
    BY <1>1, <1>3, <1>4, <1>5 DEF Ledger!Settle

\* Every step of the upload path is a step of the ledger or leaves it alone.
LEMMA LedgerStep ==
  ASSUME UploadInvariant, UploadInvariant', [Next]_vars
  PROVE  [Ledger!Next]_(Ledger!vars)
  <1> USE DEF agentVars, callVars
  <1>0. TypeOK /\ NeverLost /\ QueueInv /\ ServerInv
    BY DEF UploadInvariant
  <1>1. CASE RecordSample
    <2> DEFINE new == [boot |-> boot, seq |-> nextSequence[boot]]
    <2>1. /\ Recorded' = Recorded \cup {new} /\ new \notin Recorded
      BY <1>0, <1>1, RecordKeepsSendable
    <2>2. new \in Batches
      BY <1>0, <1>1, ConstantsAssumption
      DEF RecordSample, TypeOK, Batches, Sequences
    <2>3. \A x \in Recorded : Before(x, new)
      <3> SUFFICES ASSUME NEW x \in Recorded PROVE Before(x, new)
        OBVIOUS
      <3>1. x.boot <= boot /\ x \in Batches
        BY <1>0, RecordedHasStarted
      <3>2. x.boot \in Nat /\ boot \in Nat /\ x.seq < nextSequence[x.boot]
        BY <1>0, <3>1 DEF TypeOK, Batches, Boots, Recorded
      <3> QED
        BY <3>1, <3>2 DEF Before
    <2>4. pending' = pending \cup {new} /\ accounted' = accounted
      BY <1>1 DEF RecordSample, serverVars
    <2>5. Ledger!Record
      BY <2>1, <2>2, <2>3, <2>4 DEF Ledger!Record
    <2> QED
      BY <2>5 DEF Ledger!Next
  <1>2. CASE ReceiveUploadAck \/ ReceiveHeartbeatAck
    <2> DEFINE S == AckThrough(call.boot, answer)
    <2>1. /\ phase = "answered" /\ pending' = pending \ S
          /\ UNCHANGED <<nextSequence, accounted>>
      BY <1>2 DEF ReceiveUploadAck, ReceiveHeartbeatAck, serverVars
    <2>2. S \in SUBSET (pending \cap accounted)
      BY <1>0, <2>1 DEF AckThrough, ServerInv, SettledThrough, TypeOK
    <2>3. Recorded' = Recorded
      BY <2>1 DEF Recorded
    <2>4. Ledger!Release
      BY <2>1, <2>2, <2>3 DEF Ledger!Release
    <2> QED
      BY <2>4 DEF Ledger!Next
  <1>3. CASE ServeUpload \/ ServeLateUpload
    <2>1. UNCHANGED <<nextSequence, pending>>
      BY <1>3 DEF ServeUpload, ServeLateUpload
    <2>2. accounted \subseteq accounted'
      BY <1>3 DEF ServeUpload, ServeLateUpload, IngestUsageBatch
    <2>3. Ledger!Settle
      BY <2>1, <2>2, BillingSettles
    <2> QED
      BY <2>3 DEF Ledger!Next
  <1>4. CASE UNCHANGED <<nextSequence, pending, accounted>>
    BY <1>4 DEF Ledger!vars, Recorded
  <1>5. CASE \/ Restart \/ BeginUploadRound \/ UploadBatch \/ SendHeartbeat
             \/ CallFails \/ LoseLateRequest \/ CreateCredential
             \/ RedactSettledUsagePayloads \/ UNCHANGED vars
    BY <1>4, <1>5
    DEF Restart, BeginUploadRound, UploadBatch, SendHeartbeat, CallFails,
        LoseLateRequest, CreateCredential, RedactSettledUsagePayloads, vars,
        serverVars
  <1>6. CASE ServeHeartbeat \/ ServeLateHeartbeat
    BY <1>4, <1>6 DEF ServeHeartbeat, ServeLateHeartbeat, Heartbeat
  <1> QED
    BY <1>1, <1>2, <1>3, <1>5, <1>6 DEF Next

\* Queue, transport and control plane together implement the ledger: recorded
\* in order, settled once and in that order, released only when settled.
THEOREM ImplementsLedger == Spec => LedgerSpec
  <1>1. Init => Ledger!Init
    BY DEF Init, Ledger!Init, Recorded, Batches, Sequences
  <1>2. UploadInvariant /\ UploadInvariant' /\ [Next]_vars
          => [Ledger!Next]_(Ledger!vars)
    BY LedgerStep
  <1> QED
    BY <1>1, <1>2, UploadInvariantHolds, PTL DEF Spec, LedgerSpec, Ledger!Spec

============================================================================
