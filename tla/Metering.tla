------------------------------ MODULE Metering ------------------------------
(***************************************************************************)
(* From Xray's traffic counters to a subscription's billed usage: the Go   *)
(* agent's sampling (store.go foldCounter and RecordSample, runner.go), and *)
(* the control plane's accounting of the samples against its own snapshot  *)
(* (agent-direct-metering.ts), while the counters are reset underneath,    *)
(* users are cut off, disabled, deleted and brought back.                  *)
(*                                                                         *)
(* Batches reach the control plane in order, once each: the contract of    *)
(* module UsageLedger, which UsageUpload implements.  One node.  Xray is   *)
(* external: a counter only grows while its account is installed, drops to *)
(* zero in both directions at once, and may or may not survive the removal *)
(* of its account.  Resets, credits and a local cut-off are kept to what   *)
(* metering sees of them.                                                  *)
(***************************************************************************)
EXTENDS Integers, Sequences, FiniteSets

CONSTANTS
    Bindings,          \* PanelClientBinding rows of the node
    Subscriptions,
    SubscriptionOf,    \* the subscription a binding draws on
    TotalTraffic,      \* Subscription.totalTrafficBytes
    NoRow,             \* no desired_users_v2 row
    NoSample,          \* a batch says nothing of a binding
    NoWatermark,       \* directDisableWatermarks is NULL
    MaxTraffic,        \* bound: bytes carried by one account
    MaxResets,         \* bound: counter resets and Xray restarts
    MaxBatches,        \* bound: batches recorded
    MaxCrashes,        \* bound: agent crashes inside a handler
    MaxOrders,         \* bound: revision up to which an operator intervenes
    MaxReactivations   \* bound: bindings brought back

ASSUME MeteringAssumption ==
    /\ IsFiniteSet(Bindings) /\ SubscriptionOf \in [Bindings -> Subscriptions]
    /\ TotalTraffic \in Nat \ {0}
    /\ NoRow \notin [gen : Nat, init : BOOLEAN, ctr : [up : Nat, down : Nat],
                     enabled : BOOLEAN]
    /\ NoSample \notin [gen : Nat, ctr : [up : Nat, down : Nat], delta : Nat,
                        first : BOOLEAN]
    /\ NoWatermark \notin Nat
    /\ MaxTraffic \in Nat /\ MaxResets \in Nat /\ MaxBatches \in Nat
    /\ MaxCrashes \in Nat /\ MaxOrders \in Nat /\ MaxReactivations \in Nat

VARIABLES
    \* --- Xray (external) ---
    live,        \* user>>>email>>>traffic counters, per binding's account
    installed,   \* accounts in the inbound
    \* --- agent ---
    row,         \* desired_users_v2, the metering columns
    seen,        \* newest revision of a binding the agent has acted on
    op,          \* the handler holding the state lock, between its two steps
    \* --- batches recorded and not yet settled, and how many are ---
    queue,
    settled,
    \* --- control plane ---
    snapshot,    \* TrafficSnapshot: counterGeneration and counters
    status,      \* PanelClientBinding.status
    watermark,   \* directDisableWatermarks
    revision,    \* directRevision
    commands,    \* NodeCommandJob rows not completed
    reports,     \* results of terminal commands on their way
    used,        \* Subscription.usedTrafficBytes
    ended,       \* Subscription.state is not active
    \* --- history ---
    carried,     \* bytes an account has moved
    read,        \* counters as the agent last read them, 0 after a reset
    masked,      \* the counters were reset since that reading
    lost,        \* bytes wiped unread, or hidden by a reset nobody can see
    resets, crashes, reactivations

xrayVars   == <<live, installed>>
agentVars  == <<row, seen, op>>
ledgerVars == <<queue, settled>>
serverVars == <<snapshot, status, watermark, revision, commands, used, ended>>
ghostVars  == <<carried, read, masked, lost>>
countVars  == <<resets, crashes, reactivations>>
vars == <<xrayVars, agentVars, ledgerVars, serverVars, reports, ghostVars,
          countVars>>

Counter  == [up : Nat, down : Nat]
Zero     == [up |-> 0, down |-> 0]
Bytes(c) == c.up + c.down
Minus(c, d) == [up |-> c.up - d.up, down |-> c.down - d.down]
Lower(c, d) == c.up < d.up \/ c.down < d.down

\* The sum of the naturals f[x], counted one by one.
Total(f) == Cardinality(UNION {{x} \X (1 .. f[x]) : x \in DOMAIN f})

Rows    == [gen : Nat, init : BOOLEAN, ctr : Counter, enabled : BOOLEAN]
Samples == [gen : Nat, ctr : Counter, delta : Nat, first : BOOLEAN]
Batches == [Bindings -> Samples \cup {NoSample}]

Commands == [binding : Bindings, revision : Nat,
             type : {"ENSURE_USER", "DISABLE_USER", "REMOVE_USER"}]
Handlers == [kind : {"idle", "exhausted", "refresh", "DISABLE_USER", "REMOVE_USER"},
             on : SUBSET Bindings, want : SUBSET Bindings, at : [Bindings -> Nat]]

NewRow == [gen |-> 0, init |-> FALSE, ctr |-> Zero, enabled |-> TRUE]

\* A handler that has sampled and is about to take the accounts on down; a
\* refresh also carries the snapshot it fetched.
Handler(kind, on, want, at) == [kind |-> kind, on |-> on, want |-> want, at |-> at]
NoRevision == [b \in Bindings |-> 0]
Idle       == Handler("idle", {}, {}, NoRevision)

HasRow(b)  == row[b] # NoRow
Enabled(b) == IF HasRow(b) THEN row[b].enabled ELSE FALSE

\* The i-th unsettled batch has a sample of b.
Reports(i, b) == queue[i][b] # NoSample

----------------------------------------------------------------------------
\* Sampling

\* Fault: only the uplink is looked at for a roll-back.
RolledBackUplink(r, c) == r.init /\ c.up < r.ctr.up

\* foldCounter: a counter that went down was reset underneath the agent.
RolledBack(r, c) == r.init /\ Lower(c, r.ctr)

\* Fault: a reset is not told from ordinary traffic.
DeltaWithoutReset(r, c) == IF ~r.init THEN Zero ELSE Minus(c, r.ctr)

\* foldCounter: the delta the agent itself puts on a reading.  A first reading
\* only establishes the baseline.
Delta(r, c) ==
    IF ~r.init THEN Zero
    ELSE IF RolledBack(r, c) THEN c
    ELSE Minus(c, r.ctr)

\* foldCounter: the row after the reading.
Fold(r, c, enabled) ==
    [gen |-> IF RolledBack(r, c) THEN r.gen + 1 ELSE r.gen,
     init |-> TRUE, ctr |-> c, enabled |-> enabled]

\* foldCounter's emit: a first reading, traffic, or a reset.
Emits(r, c) == ~r.init \/ RolledBack(r, c) \/ Bytes(Delta(r, c)) > 0

SampleOf(r, c) ==
    [gen |-> Fold(r, c, TRUE).gen, ctr |-> c, delta |-> Bytes(Delta(r, c)),
     first |-> ~r.init]

\* ReadAbsoluteCounters and RecordSample look at installed accounts whose row
\* is enabled.
Readable == {b \in installed : Enabled(b)}

\* What a reading cannot show: a reset the counter has already outgrown.
Hidden(b) ==
    IF b \in Readable /\ row[b].init /\ masked[b] /\ ~Lower(live[b], row[b].ctr)
    THEN Bytes(row[b].ctr) ELSE 0

\* RecordSample: rows and batch in one transaction.  cut are the readings that
\* meet the quota or the offline allowance: their rows are disabled.
RecordSample(cut) ==
    LET emitting == {b \in Readable : Emits(row[b], live[b])}
    IN  /\ emitting # {} => settled + Len(queue) < MaxBatches
        /\ row' = [b \in Bindings |->
                    IF b \in Readable
                    THEN Fold(row[b], live[b], b \notin cut)
                    ELSE row[b]]
        /\ queue' = IF emitting = {} THEN queue
                    ELSE Append(queue, [b \in Bindings |->
                                         IF b \in emitting THEN SampleOf(row[b], live[b])
                                                           ELSE NoSample])
        /\ lost' = [b \in Bindings |-> lost[b] + Hidden(b)]
        /\ read' = [b \in Bindings |-> IF b \in Readable THEN live[b] ELSE read[b]]
        /\ masked' = [b \in Bindings |-> IF b \in Readable THEN FALSE ELSE masked[b]]

\* The counters of these accounts start again at zero.
Wipe(accounts) ==
    /\ live' = [b \in Bindings |-> IF b \in accounts THEN Zero ELSE live[b]]
    /\ lost' = [b \in Bindings |-> IF b \in accounts
                                   THEN lost[b] + Bytes(Minus(live[b], read[b]))
                                   ELSE lost[b]]
    /\ read' = [b \in Bindings |-> IF b \in accounts THEN Zero ELSE read[b]]
    /\ masked' = [b \in Bindings |-> b \in accounts \/ masked[b]]

\* RemoveUser: whether the counters go with the account is Xray's affair.
Uninstall(accounts, added) ==
    /\ installed' = (installed \ accounts) \cup added
    /\ \E dropped \in SUBSET (accounts \cap installed) : Wipe(dropped)

----------------------------------------------------------------------------
\* Xray

Traffic ==
    /\ \E b \in installed :
        /\ carried[b] < MaxTraffic
        /\ carried' = [carried EXCEPT ![b] = @ + 1]
        /\ live' \in {[live EXCEPT ![b].up = @ + 1], [live EXCEPT ![b].down = @ + 1]}
    /\ UNCHANGED <<installed, agentVars, ledgerVars, serverVars, reports,
                   read, masked, lost, countVars>>

\* 3x-ui resets the statistics of an account.
PanelReset ==
    /\ resets < MaxResets /\ resets' = resets + 1
    /\ \E b \in Bindings : live[b] # Zero /\ Wipe({b})
    /\ UNCHANGED <<installed, agentVars, ledgerVars, serverVars, reports,
                   carried, crashes, reactivations>>

\* Accounts and counters live only in Xray's memory.
XrayRestart ==
    /\ resets < MaxResets /\ resets' = resets + 1
    /\ installed # {} /\ installed' = {}
    /\ Wipe(Bindings)
    /\ UNCHANGED <<agentVars, ledgerVars, serverVars, reports, carried,
                   crashes, reactivations>>

----------------------------------------------------------------------------
\* The agent's handlers, each under the state lock: first a sample, then what
\* takes accounts down.  Traffic goes on between the two.

\* sampleLocked on its ticker.
Sample ==
    /\ op = Idle
    /\ \E cut \in SUBSET Readable :
        /\ RecordSample(cut)
        /\ op' = IF cut = {} THEN Idle ELSE Handler("exhausted", cut, {}, NoRevision)
    /\ UNCHANGED <<xrayVars, seen, settled, serverVars, reports, carried, countVars>>

\* UninstallExhausted.
UninstallExhausted ==
    /\ op.kind = "exhausted"
    /\ Uninstall(op.on, {})
    /\ op' = Idle
    /\ UNCHANGED <<row, seen, ledgerVars, serverVars, reports, carried, countVars>>

\* The process dies, or Xray does not answer, between a handler's two steps:
\* the sample is durable, the rest is retried later.
Fail ==
    /\ op # Idle /\ crashes < MaxCrashes /\ crashes' = crashes + 1
    /\ op' = Idle
    /\ UNCHANGED <<xrayVars, row, seen, ledgerVars, serverVars, reports,
                   ghostVars, resets, reactivations>>

\* Reconcile of the stored rows: installs the enabled ones, takes the others
\* down.
Reconcile ==
    LET wanted == {b \in Bindings : Enabled(b)}
    IN  /\ op = Idle /\ installed # wanted
        /\ Uninstall(installed \ wanted, wanted)
        /\ UNCHANGED <<agentVars, ledgerVars, serverVars, reports, carried, countVars>>

\* Fault: only the stored row is asked, and it may be gone.
SupersededByRowOnly(c) == HasRow(c.binding) /\ c.revision < seen[c.binding]

\* supersededBinding: a newer order, snapshot or tombstone has spoken, or this
\* very revision was disabled locally.
Superseded(c) ==
    \/ c.revision < seen[c.binding]
    \/ c.revision = seen[c.binding] /\ HasRow(c.binding) /\ ~Enabled(c.binding)

\* ensureUser: the row before the account.  The INSERT starts from an empty
\* baseline, the UPDATE keeps it.  A failed install leaves the command pending.
EnsureUser(c) ==
    LET b == c.binding
    IN  /\ op = Idle /\ c.type = "ENSURE_USER"
        /\ IF Superseded(c)
           THEN /\ commands' = commands \ {c}
                /\ UNCHANGED <<row, seen, installed>>
           ELSE /\ row' = [row EXCEPT ![b] = IF @ = NoRow THEN NewRow
                                             ELSE [@ EXCEPT !.enabled = TRUE]]
                /\ seen' = [seen EXCEPT ![b] = c.revision]
                /\ \/ installed' = installed \cup {b} /\ commands' = commands \ {c}
                   \/ installed' = installed /\ commands' = commands
        /\ UNCHANGED <<live, op, ledgerVars, snapshot, status, watermark, revision,
                       used, ended, reports, ghostVars, countVars>>

\* execute: a terminal command samples first.
BeginTerminal(c) ==
    /\ op = Idle /\ c.type # "ENSURE_USER"
    /\ \E cut \in SUBSET Readable :
        /\ RecordSample(cut)
        /\ op' = Handler(c.type, cut \cup {c.binding}, {},
                         [NoRevision EXCEPT ![c.binding] = c.revision])
    /\ UNCHANGED <<xrayVars, seen, settled, serverVars, reports, carried, countVars>>

\* Fault: the boundary is what the control plane has acknowledged.
BoundarySettled == settled

\* PendingBatchWatermarks: the newest batch recorded.  A batch that is no longer
\* pending is settled, so the boundary covers it as well.
Boundary == settled + Len(queue)

\* terminalUser and the result Execute stores: everything recorded so far is
\* the binding's settlement boundary.  A stale command changes nothing but
\* reports success all the same.
FinishTerminal ==
    \E b \in op.on :
        LET stale == op.at[b] < seen[b]
        IN  /\ op.kind \in {"DISABLE_USER", "REMOVE_USER"} /\ op.at[b] # 0
            /\ op' = Idle
            /\ Uninstall(IF stale THEN op.on \ {b} ELSE op.on, {})
            /\ IF stale
               THEN UNCHANGED <<row, seen>>
               ELSE /\ row' = [row EXCEPT ![b] =
                                IF @ = NoRow \/ op.kind = "REMOVE_USER" THEN NoRow
                                ELSE [@ EXCEPT !.enabled = FALSE]]
                    /\ seen' = [seen EXCEPT ![b] = op.at[b]]
            /\ commands' = {c \in commands : c.binding # b \/ c.revision # op.at[b]}
            /\ reports' = reports \cup {[binding |-> b, through |-> Boundary]}
            /\ UNCHANGED <<ledgerVars, snapshot, status, watermark, revision, used,
                           ended, carried, countVars>>

\* refreshConfig fetches the active bindings and, before it takes enabled users
\* away, samples.
BeginRefresh ==
    LET want    == {b \in Bindings : status[b] = "active"}
        omitted == {b \in Bindings \ want : HasRow(b)}
    IN  /\ op = Idle
        /\ omitted # {} \/ \E b \in want : ~Enabled(b)
        /\ IF \E b \in omitted : Enabled(b)
           THEN \E cut \in SUBSET Readable : RecordSample(cut)
           ELSE UNCHANGED <<row, queue, lost, read, masked>>
        /\ op' = Handler("refresh", omitted, want, revision)
        /\ UNCHANGED <<xrayVars, seen, settled, serverVars, reports, carried, countVars>>

\* ApplySnapshot: omitted rows are deleted, new ones inserted, and Reconcile
\* brings the inbound in line.  restored are the rows cut off locally that the
\* control plane's answer puts back.
FinishRefresh ==
    \E restored \in SUBSET {b \in op.want : HasRow(b) /\ ~Enabled(b)} :
        LET rows   == [b \in Bindings |->
                        IF b \in op.on THEN NoRow
                        ELSE IF b \in op.want /\ ~HasRow(b) THEN NewRow
                        ELSE IF b \in restored THEN [row[b] EXCEPT !.enabled = TRUE]
                        ELSE row[b]]
            wanted == {b \in Bindings : rows[b] # NoRow /\ rows[b].enabled}
        IN  /\ op.kind = "refresh"
            /\ row' = rows
            /\ seen' = [b \in Bindings |-> IF seen[b] < op.at[b] THEN op.at[b] ELSE seen[b]]
            /\ Uninstall(installed \ wanted, wanted)
            /\ op' = Idle
            /\ UNCHANGED <<ledgerVars, serverVars, reports, carried, countVars>>

----------------------------------------------------------------------------
\* The control plane

\* applyDirectBatch: samples of a disabled or deleted binding count up to its
\* settlement boundary, once that is known.
Accepted(b) ==
    \/ status[b] = "active"
    \/ watermark[b] = NoWatermark
    \/ settled + 1 <= watermark[b]

\* Fault: a new generation only establishes a new baseline.
ChargeSameGeneration(b, s) ==
    IF snapshot[b].gen = s.gen THEN Bytes(Minus(s.ctr, snapshot[b].ctr)) ELSE 0

\* applyDirectBatch: bytes a sample adds, against the control plane's own
\* snapshot.
Charge(b, s) ==
    IF snapshot[b].gen = s.gen THEN Bytes(Minus(s.ctr, snapshot[b].ctr)) ELSE Bytes(s.ctr)

\* applyDirectBatch's ConflictException: a counter going back in a generation.
Conflict(b, s) == snapshot[b].gen = s.gen /\ Lower(s.ctr, snapshot[b].ctr)

\* disableDirectBindingsForSubscriptions and queueDirectBindingCommand: new
\* status, boundary unknown, and a command at a new revision.
Order(bindings, type, newStatus) ==
    /\ status' = [b \in Bindings |-> IF b \in bindings THEN newStatus ELSE status[b]]
    /\ watermark' = [b \in Bindings |-> IF b \in bindings THEN NoWatermark ELSE watermark[b]]
    /\ revision' = [b \in Bindings |-> IF b \in bindings THEN revision[b] + 1 ELSE revision[b]]
    /\ commands' = commands \cup
        {[binding |-> b, type |-> type, revision |-> revision[b] + 1] : b \in bindings}

\* accountContiguousBatches applies the oldest unsettled batch.
Account ==
    LET batch    == Head(queue)
        accepted == {b \in Bindings : batch[b] # NoSample /\ Accepted(b)}
        charged(s) == {b \in accepted : SubscriptionOf[b] = s /\ Charge(b, batch[b]) > 0}
        next(s)  == used[s] + Total([b \in charged(s) |-> Charge(b, batch[b])])
    IN  /\ queue # <<>>
        /\ \A b \in accepted : ~Conflict(b, batch[b])
        /\ queue' = Tail(queue)
        /\ settled' = settled + 1
        /\ snapshot' = [b \in Bindings |->
                         IF b \in accepted THEN [gen |-> batch[b].gen, ctr |-> batch[b].ctr]
                                           ELSE snapshot[b]]
        /\ used' = [s \in Subscriptions |-> next(s)]
        /\ \E expired \in SUBSET Subscriptions :
            ended' = [s \in Subscriptions |->
                       \/ ended[s]
                       \/ charged(s) # {} /\ (s \in expired \/ next(s) >= TotalTraffic)]
        /\ Order({b \in Bindings : /\ status[b] = "active"
                                   /\ ended'[SubscriptionOf[b]]
                                   /\ charged(SubscriptionOf[b]) # {}},
                 "DISABLE_USER", "disabled")
        /\ UNCHANGED <<xrayVars, agentVars, reports, ghostVars, countVars>>

\* queuePanelDisableJobsForSubscriptionTx.
DisableSubscription(s) ==
    LET bindings == {b \in Bindings : SubscriptionOf[b] = s /\ status[b] = "active"}
    IN  /\ bindings # {} /\ \A b \in bindings : revision[b] < MaxOrders
        /\ Order(bindings, "DISABLE_USER", "disabled")
        /\ UNCHANGED <<xrayVars, agentVars, ledgerVars, snapshot, used, ended,
                       reports, ghostVars, countVars>>

\* queuePanelDeleteJobsForSubscriptionTx.  The snapshot stays: it is the
\* baseline of what the agent still has to report.
DeleteSubscription(s) ==
    LET bindings == {b \in Bindings : SubscriptionOf[b] = s /\ status[b] # "deleted"}
    IN  /\ bindings # {} /\ \A b \in bindings : revision[b] < MaxOrders
        /\ Order(bindings, "REMOVE_USER", "deleted")
        /\ UNCHANGED <<xrayVars, agentVars, ledgerVars, snapshot, used, ended,
                       reports, ghostVars, countVars>>

\* completeCommand records the boundary, whatever has happened to the binding
\* since the command was queued.
CompleteCommand ==
    /\ \E r \in reports :
        /\ watermark' = [watermark EXCEPT ![r.binding] = r.through]
        /\ reports' = reports \ {r}
    /\ UNCHANGED <<xrayVars, agentVars, ledgerVars, snapshot, status, revision,
                   commands, used, ended, ghostVars, countVars>>

\* ensurePanelClientBindingLocally on a binding that was taken down: refused
\* until its boundary is known and settled.  A deleted one gets a zero
\* baseline, in the generation the snapshot already has.
Reactivate(b) ==
    /\ reactivations < MaxReactivations /\ reactivations' = reactivations + 1
    /\ status[b] # "active" /\ ~ended[SubscriptionOf[b]]
    /\ watermark[b] # NoWatermark /\ watermark[b] <= settled
    /\ Order({b}, "ENSURE_USER", "active")
    /\ snapshot' = IF status[b] = "deleted" THEN [snapshot EXCEPT ![b].ctr = Zero]
                                            ELSE snapshot
    /\ UNCHANGED <<xrayVars, agentVars, ledgerVars, used, ended, reports,
                   ghostVars, resets, crashes>>

----------------------------------------------------------------------------
\* Fresh bindings: active, ENSURE_USER queued, a zero baseline in generation 0
\* (ensureTrafficSnapshotBaseline).
Init ==
    /\ live = [b \in Bindings |-> Zero] /\ installed = {}
    /\ row = [b \in Bindings |-> NoRow] /\ seen = NoRevision /\ op = Idle
    /\ queue = <<>> /\ settled = 0
    /\ snapshot = [b \in Bindings |-> [gen |-> 0, ctr |-> Zero]]
    /\ status = [b \in Bindings |-> "active"]
    /\ watermark = [b \in Bindings |-> NoWatermark]
    /\ revision = [b \in Bindings |-> 1]
    /\ commands = {[binding |-> b, type |-> "ENSURE_USER", revision |-> 1] : b \in Bindings}
    /\ reports = {}
    /\ used = [s \in Subscriptions |-> 0] /\ ended = [s \in Subscriptions |-> FALSE]
    /\ carried = [b \in Bindings |-> 0] /\ read = [b \in Bindings |-> Zero]
    /\ masked = [b \in Bindings |-> FALSE] /\ lost = [b \in Bindings |-> 0]
    /\ resets = 0 /\ crashes = 0 /\ reactivations = 0

Next ==
    \/ Traffic
    \/ PanelReset
    \/ XrayRestart
    \/ Sample
    \/ UninstallExhausted
    \/ Fail
    \/ Reconcile
    \/ \E c \in commands : EnsureUser(c)
    \/ \E c \in commands : BeginTerminal(c)
    \/ FinishTerminal
    \/ BeginRefresh
    \/ FinishRefresh
    \/ Account
    \/ \E s \in Subscriptions : DisableSubscription(s)
    \/ \E s \in Subscriptions : DeleteSubscription(s)
    \/ CompleteCommand
    \/ \E b \in Bindings : Reactivate(b)

Spec == Init /\ [][Next]_vars

----------------------------------------------------------------------------
\* Properties

\* Counters, deltas and revisions are naturals: no reading bills a negative amount.
TypeOK ==
    /\ live \in [Bindings -> Counter]
    /\ installed \subseteq Bindings
    /\ row \in [Bindings -> Rows \cup {NoRow}]
    /\ seen \in [Bindings -> Nat]
    /\ op \in Handlers
    /\ settled \in Nat
    /\ queue \in Seq(Batches)
    /\ commands \subseteq Commands
    /\ reports \subseteq [binding : Bindings, through : Nat]
    /\ snapshot \in [Bindings -> [gen : Nat, ctr : Counter]]
    /\ status \in [Bindings -> {"active", "disabled", "deleted"}]
    /\ watermark \in [Bindings -> Nat \cup {NoWatermark}]
    /\ revision \in [Bindings -> Nat]
    /\ DOMAIN used = Subscriptions /\ ended \in [Subscriptions -> BOOLEAN]
    /\ carried \in [Bindings -> Nat] /\ read \in [Bindings -> Counter]
    /\ resets \in Nat /\ crashes \in Nat /\ reactivations \in Nat

\* Bytes a queued sample stands for: a first reading is the account's whole
\* counter, any other the agent's own delta.
Worth(s) == IF s.first THEN Bytes(s.ctr) ELSE s.delta

InFlight(b) ==
    Total([i \in {j \in DOMAIN queue : Reports(j, b)} |-> Worth(queue[i][b])])

\* Every byte an account has carried is billed, in the queue, not yet read, or
\* was wiped from Xray's counters before anyone read it: nothing else is lost
\* and nothing is billed twice, whatever the resets, cut-offs, crashes,
\* disables and deletions.  The agent's deltas and the control plane's, which
\* are computed independently, therefore agree.  Of bindings that were brought
\* back less can be said: see NoOvercharge.
MeteringExact ==
    reactivations = 0 => \A s \in Subscriptions :
        LET mine == {b \in Bindings : SubscriptionOf[b] = s}
        IN  used[s] + Total([b \in mine |-> InFlight(b) + lost[b]
                                              + Bytes(Minus(live[b], read[b]))])
            = Total([b \in mine |-> carried[b]])

\* The oldest unsettled batch is never refused for a counter going backwards in
\* its generation: the refusal is permanent, and every later batch of the node
\* waits behind it.
HeadAccountable ==
    queue # <<>> => \A b \in Bindings :
        Reports(1, b) /\ Accepted(b) => ~Conflict(b, queue[1][b])

\* Once a terminal command has reported its boundary, no batch beyond it holds
\* traffic of that binding: what applyDirectBatch drops there is nothing.
NothingBeyondBoundary ==
    \A b \in Bindings : status[b] # "active" /\ watermark[b] # NoWatermark =>
        \A i \in DOMAIN queue : settled + i > watermark[b] => ~Reports(i, b)

\* When every command of a binding has been answered, the agent agrees with the
\* control plane about it, in whatever order commands, refreshes and failures
\* came: a binding taken down is not served, one brought back has its row.
CaughtUp ==
    \A b \in Bindings : (\A c \in commands : c.binding # b) =>
        IF status[b] = "active" THEN HasRow(b) ELSE ~Enabled(b)

\* A subscription is never billed more than its accounts have carried.
NoOvercharge ==
    \A s \in Subscriptions :
        used[s] <= Total([b \in {x \in Bindings : SubscriptionOf[x] = s} |-> carried[b]])

----------------------------------------------------------------------------
\* The inductive invariant behind HeadAccountable and NothingBeyondBoundary,
\* for bindings that are not brought back (MaxReactivations = 0)

\* y can follow x in one account's readings.
Follows(x, y) == \/ x.gen < y.gen
                 \/ x.gen = y.gen /\ ~Lower(y.ctr, x.ctr)

\* A binding the agent has never metered.
Untouched(b) ==
    /\ snapshot[b] = [gen |-> 0, ctr |-> Zero]
    /\ \A i \in DOMAIN queue : ~Reports(i, b)

\* The snapshot, the queued samples and the agent's row are one ascending chain.
Chain(b) ==
    /\ \A i \in DOMAIN queue : Reports(i, b) =>
        /\ Follows(snapshot[b], queue[i][b])
        /\ HasRow(b) => Follows(queue[i][b], row[b])
        /\ \A j \in DOMAIN queue : i < j /\ Reports(j, b)
                                     => Follows(queue[i][b], queue[j][b])
    /\ HasRow(b) => Follows(snapshot[b], row[b])
    /\ HasRow(b) => (IF row[b].init THEN TRUE
                     ELSE Untouched(b) /\ row[b].gen = 0 /\ row[b].ctr = Zero)
    /\ ~HasRow(b) /\ seen[b] <= 1 => Untouched(b)

\* A terminal order carries a revision above the first one; once the agent has
\* acted on one it never serves or meters the binding again.
Terminal(b) ==
    /\ IF status[b] = "active" THEN revision[b] = 1 ELSE revision[b] >= 2
    /\ seen[b] >= 2 => status[b] # "active" /\ ~Enabled(b)
    /\ op.kind = "refresh" /\ b \in op.want => seen[b] <= 1 /\ op.at[b] <= 1
    /\ op.kind = "refresh" /\ b \in op.on => op.at[b] >= 2
    /\ op.kind = "refresh" /\ op.at[b] >= 2 => b \notin op.want /\ status[b] # "active"
    /\ op.kind = "refresh" /\ op.at[b] >= 2 /\ HasRow(b) => b \in op.on
    /\ op.kind \in {"DISABLE_USER", "REMOVE_USER"} /\ op.at[b] # 0
            => op.at[b] >= 2 /\ status[b] # "active"

Orders ==
    /\ \A c \in commands :
        IF c.type = "ENSURE_USER" THEN c.revision = 1
        ELSE c.revision >= 2 /\ status[c.binding] # "active"
    /\ \A r \in reports :
        /\ seen[r.binding] >= 2
        /\ \A i \in DOMAIN queue :
            settled + i > r.through => ~Reports(i, r.binding)
    /\ \A b \in Bindings : watermark[b] # NoWatermark =>
        /\ seen[b] >= 2
        /\ \A i \in DOMAIN queue : settled + i > watermark[b] => ~Reports(i, b)

MeteringInvariant == TypeOK /\ Orders /\ \A b \in Bindings : Chain(b) /\ Terminal(b)

============================================================================
