---------------------------- MODULE TrafficReset ----------------------------
(***************************************************************************)
(* Resetting the traffic of a subscription while its nodes keep metering.  *)
(*                                                                         *)
(* One subscription and its users, each with one binding on a node of its  *)
(* own.  A reset quiesces the bindings of its target, waits until their    *)
(* last usage batches are accounted, and clears the counters; provisioning *)
(* syncs, reconnecting clients, usage batches, manual adjustments and      *)
(* disconnects go on at the same time, in this or another API process.     *)
(* What keeps them apart are the provisioning lock and the usage lock.     *)
(*                                                                         *)
(* Traffic comes in units; a batch is one unit and carries, as a history   *)
(* value, the number of resets its user had seen when it was produced.     *)
(* Steps a handler makes while it holds the usage lock and that no other   *)
(* handler can observe half-done are one action.                           *)
(***************************************************************************)
EXTENDS Integers, Sequences, FiniteSets

CONSTANTS Users,           \* owners of the bindings: one, or a team's members
          ResetProcs,      \* concurrent handlers
          Quota,           \* total traffic of the subscription
          MaxUnits,        \* bound: units a user produces
          MaxResets, MaxAdjusts,
          MaxUpsets,       \* bound: kicks by an administrator, and API crashes
          Nobody, NoMark

ASSUME ResetAssumption ==
    /\ Quota \in Nat \ {0} /\ MaxUnits \in Nat /\ MaxResets \in Nat
    /\ MaxAdjusts \in Nat /\ MaxUpsets \in Nat
    /\ IsFiniteSet(Users) /\ IsFiniteSet(ResetProcs)
    /\ Nobody \notin ResetProcs /\ NoMark \notin Nat

VARIABLES sub,             \* the Subscription row
          ledger,          \* ledger[u]: TrafficLedger rows of u, summed
          binding,         \* PanelClientBinding: status and disable watermark
          node,            \* the agent: serving, commands, results, batches
          provLock, usageLock,
          handler,         \* handler[p]: the request p is in
          deferred,        \* follow-ups queued in memory after a save
          epoch,           \* history: resets of u so far
          charged,         \* history: units of u ever added to the counters
          budget           \* what is left of the bounds

resetVars == <<sub, ledger, binding, node, provLock, usageLock, handler,
               deferred, epoch, charged, budget>>

States == {"active", "paused", "exhausted", "expired"}
Idle == [op |-> "idle", step |-> "none", target |-> {}, todo |-> {}, read |-> [state |-> "active", used |-> 0]]

(* The traffic all ledger rows stand for: as many units as user u has in  *)
(* its rows, for every u.                                                 *)
SumLedger(l) == Cardinality(UNION {{u} \X (1..l[u]) : u \in Users})

(* resolveSubscriptionState: a preference other than "active" wins. *)
ResolveState(preferred, used) ==
    IF preferred # "active" THEN preferred
    ELSE IF used >= Quota THEN "exhausted" ELSE "active"

(* shouldProvisionPanelClients / assertSubscriptionConnectable. *)
Eligible == ResolveState(sub.state, sub.used) = "active"

Accounted(u) == node[u].made - Len(node[u].queue)

(* assertDirectTerminalWatermarksSettled. *)
Settled(u) == binding[u].mark # NoMark /\ Accounted(u) >= binding[u].mark

-----------------------------------------------------------------------------
ResetInit ==
    /\ sub = [state |-> "active", used |-> 0]
    /\ ledger = [u \in Users |-> 0]
    /\ binding = [u \in Users |-> [status |-> "active", mark |-> NoMark]]
    /\ node = [u \in Users |-> [serving |-> TRUE, commands |-> <<>>, results |-> <<>>,
                                made |-> 0, queue |-> <<>>]]
    /\ provLock = Nobody
    /\ usageLock = Nobody
    /\ handler = [p \in ResetProcs |-> Idle]
    /\ deferred = {}
    /\ epoch = [u \in Users |-> 0]
    /\ charged = [u \in Users |-> 0]
    /\ budget = [resets |-> MaxResets, adjusts |-> MaxAdjusts, upsets |-> MaxUpsets]

-----------------------------------------------------------------------------
(* The node agents (external to this component; see Metering).              *)

Produce(u) ==
    /\ node[u].serving
    /\ node[u].made < MaxUnits
    /\ node' = [node EXCEPT ![u].made = @ + 1, ![u].queue = Append(@, epoch[u])]
    /\ UNCHANGED <<sub, ledger, binding, provLock, usageLock, handler, deferred, epoch, charged, budget>>

(* A disable cuts the user off and reports how far its queue reaches; with *)
(* nothing queued it reports no watermark at all, which is settled.        *)
AgentCommand(u) ==
    /\ node[u].commands # <<>>
    /\ node' = [node EXCEPT
         ![u].commands = Tail(@),
         ![u].serving = Head(node[u].commands) = "ENSURE_USER",
         ![u].results = IF Head(node[u].commands) = "ENSURE_USER" THEN @
                        ELSE Append(@, IF node[u].queue = <<>> THEN 0 ELSE node[u].made)]
    /\ UNCHANGED <<sub, ledger, binding, provLock, usageLock, handler, deferred, epoch, charged, budget>>

(* completeCommand of a DISABLE_USER stores the watermark. *)
CompleteDisable(u) ==
    /\ node[u].results # <<>>
    /\ node' = [node EXCEPT ![u].results = Tail(@)]
    /\ binding' = [binding EXCEPT ![u].mark = Head(node[u].results)]
    /\ UNCHANGED <<sub, ledger, provLock, usageLock, handler, deferred, epoch, charged, budget>>

-----------------------------------------------------------------------------
(* Binding changes, with the command each of them queues.                   *)

ActiveIn(S) == {u \in S : binding[u].status = "active"}

DisableIn(S) == [u \in Users |-> IF u \in ActiveIn(S)
                                 THEN [status |-> "disabled", mark |-> NoMark] ELSE binding[u]]

CommandIn(S, command) ==
    [u \in Users |-> IF u \in S THEN [node[u] EXCEPT !.commands = Append(@, command)] ELSE node[u]]

(* ensurePanelClientBinding refuses a binding whose disable is unsettled. *)
CanEnsure(u) == binding[u].status = "active" \/ Settled(u)

EnsureBinding(u) ==
    /\ CanEnsure(u)
    /\ binding' = [binding EXCEPT ![u] = [status |-> "active", mark |-> NoMark]]
    /\ node' = CommandIn({u}, "ENSURE_USER")

-----------------------------------------------------------------------------
(* Usage batches.                                                           *)

(* Fault: the batch at the watermark is thrown away as well. *)
PastWatermarkInclusive(u) ==
    /\ binding[u].status = "disabled"
    /\ binding[u].mark # NoMark
    /\ Accounted(u) + 1 >= binding[u].mark

(* The head batch of u is past the watermark of its disabled binding. *)
PastWatermark(u) ==
    /\ binding[u].status = "disabled"
    /\ binding[u].mark # NoMark
    /\ Accounted(u) + 1 > binding[u].mark

(* ingestUsageBatch: one serializable transaction under the usage lock.     *)
(* Exhausting the quota disables every binding in the same transaction.     *)
IngestBatch(u) ==
    LET delta == IF PastWatermark(u) THEN 0 ELSE 1
        used  == sub.used + delta
        state == IF sub.state = "active" THEN ResolveState("active", used) ELSE sub.state
        drained == [node EXCEPT ![u].queue = Tail(@)]
        stops == IF delta > 0 /\ state # "active" THEN ActiveIn(Users) ELSE {}
    IN  /\ node[u].queue # <<>>
        /\ usageLock = Nobody
        /\ sub' = [state |-> state, used |-> used]
        /\ ledger' = [ledger EXCEPT ![u] = @ + delta]
        /\ charged' = [charged EXCEPT ![u] = @ + delta]
        /\ binding' = DisableIn(stops)
        /\ node' = [v \in Users |->
             IF v \in stops THEN [drained[v] EXCEPT !.commands = Append(@, "DISABLE_USER")]
             ELSE drained[v]]
        /\ UNCHANGED <<provLock, usageLock, handler, deferred, epoch, budget>>

-----------------------------------------------------------------------------
(* Waiting for the provisioning lock, and giving up.                        *)

Release(p) == provLock' = IF provLock = p THEN Nobody ELSE provLock

End(p) == handler' = [handler EXCEPT ![p] = Idle]

GotoStep(p, step) == handler' = [handler EXCEPT ![p].step = step]

(* Fault: the sync or the reset goes on without the provisioning lock. *)
SkipProvisioning(p) ==
    /\ handler[p].step = "lock"
    /\ GotoStep(p, IF handler[p].op = "sync" THEN "plan" ELSE "quiesce")
    /\ UNCHANGED <<sub, ledger, binding, node, provLock, usageLock, deferred, epoch, charged, budget>>

TakeProvisioning(p) ==
    /\ handler[p].step = "lock"
    /\ provLock = Nobody
    /\ provLock' = p
    /\ GotoStep(p, IF handler[p].op = "sync" THEN "plan" ELSE "quiesce")
    /\ UNCHANGED <<sub, ledger, binding, node, usageLock, deferred, epoch, charged, budget>>

(* A lock's deadline, or the reset's settlement deadline, passes. *)
GiveUp(p) ==
    /\ \/ handler[p].step = "lock" /\ provLock # Nobody
       \/ handler[p].step = "settle" /\ \E u \in handler[p].todo : ~Settled(u)
       \/ handler[p].step \in {"counters", "chunk"} /\ usageLock # Nobody
    /\ End(p)
    /\ Release(p)
    /\ UNCHANGED <<sub, ledger, binding, node, usageLock, deferred, epoch, charged, budget>>

-----------------------------------------------------------------------------
(* resetSubscriptionTrafficCounters.  A renewal resets everybody and makes  *)
(* the subscription active again; a member reset keeps a pause.             *)

StartReset(p, target, op) ==
    /\ handler[p].op = "idle"
    /\ budget.resets > 0
    /\ handler' = [handler EXCEPT ![p] = [Idle EXCEPT !.op = op, !.step = "lock", !.target = target]]
    /\ budget' = [budget EXCEPT !.resets = @ - 1]
    /\ UNCHANGED <<sub, ledger, binding, node, provLock, usageLock, deferred, epoch, charged>>

Quiesce(p) ==
    /\ handler[p].step = "quiesce"
    /\ binding' = DisableIn(handler[p].target)
    /\ node' = CommandIn(ActiveIn(handler[p].target), "DISABLE_USER")
    /\ handler' = [handler EXCEPT ![p].step = "settle", ![p].todo = ActiveIn(handler[p].target)]
    /\ UNCHANGED <<sub, ledger, provLock, usageLock, deferred, epoch, charged, budget>>

AwaitSettled(p) ==
    /\ handler[p].step = "settle"
    /\ \A u \in handler[p].todo : Settled(u)
    /\ GotoStep(p, "counters")
    /\ UNCHANGED <<sub, ledger, binding, node, provLock, usageLock, deferred, epoch, charged, budget>>

Unsettled(S) == {u \in S : binding[u].status = "disabled" /\ ~Settled(u)}

(* What the used counter becomes once the target's ledger rows are gone. *)
UsedAfterReset(l) == SumLedger(l)

(* The counter transaction, under the usage lock.  A binding of the target  *)
(* that is disabled and not settled aborts it; the bindings stay disabled   *)
(* until a sync restores them.                                              *)
ResetCounters(p) ==
    LET target == handler[p].target
        kept   == [u \in Users |-> IF u \in target THEN 0 ELSE ledger[u]]
        prefer == IF handler[p].op = "renew" THEN "active"
                  ELSE IF sub.state = "paused" THEN "paused" ELSE "active"
    IN  /\ handler[p].step = "counters"
        /\ usageLock = Nobody
        /\ IF Unsettled(target) # {}
           THEN UNCHANGED <<sub, ledger, epoch, deferred>>
           ELSE /\ ledger' = kept
                /\ sub' = [state |-> ResolveState(prefer, UsedAfterReset(kept)),
                           used |-> UsedAfterReset(kept)]
                /\ epoch' = [u \in Users |-> IF u \in target THEN epoch[u] + 1 ELSE epoch[u]]
                /\ deferred' = deferred \cup {"sync"}
        /\ End(p)
        /\ Release(p)
        /\ UNCHANGED <<binding, node, usageLock, charged, budget>>

-----------------------------------------------------------------------------
(* Provisioning: a sync from a follow-up or from the reconciler's cron       *)
(* (which skips active bindings), and a client that connects.               *)

StartSync(p) ==
    /\ handler[p].op = "idle"
    /\ \/ "sync" \in deferred /\ deferred' = deferred \ {"sync"}
       \/ \E u \in Users : binding[u].status = "disabled" /\ UNCHANGED deferred
    /\ handler' = [handler EXCEPT ![p] = [Idle EXCEPT !.op = "sync", !.step = "lock"]]
    /\ UNCHANGED <<sub, ledger, binding, node, provLock, usageLock, epoch, charged, budget>>

(* The targets: not the ones whose disable has not settled yet. *)
PlanSync(p) ==
    /\ handler[p].step = "plan"
    /\ handler' = [handler EXCEPT ![p].step = "chunk",
         ![p].todo = IF Eligible THEN {u \in Users : binding[u].status = "disabled" /\ Settled(u)} ELSE {}]
    /\ UNCHANGED <<sub, ledger, binding, node, provLock, usageLock, deferred, epoch, charged, budget>>

(* Fault: a chunk trusts the eligibility computed when it was planned. *)
SyncChunkStale(p) ==
    \E u \in handler[p].todo :
        /\ handler[p].step = "chunk"
        /\ usageLock = Nobody
        /\ IF CanEnsure(u)
           THEN /\ EnsureBinding(u)
                /\ handler' = [handler EXCEPT ![p].todo = @ \ {u}]
                /\ UNCHANGED provLock
           ELSE /\ End(p) /\ Release(p) /\ UNCHANGED <<binding, node>>
        /\ UNCHANGED <<sub, ledger, usageLock, deferred, epoch, charged, budget>>

(* One chunk under the usage lock: the subscription is read again, and a     *)
(* disable that slipped in makes the whole sync fail.                        *)
SyncChunk(p) ==
    \E u \in handler[p].todo :
        /\ handler[p].step = "chunk"
        /\ usageLock = Nobody
        /\ IF ~Eligible
           THEN /\ handler' = [handler EXCEPT ![p].todo = @ \ {u}]
                /\ UNCHANGED <<binding, node, provLock>>
           ELSE IF CanEnsure(u)
           THEN /\ EnsureBinding(u)
                /\ handler' = [handler EXCEPT ![p].todo = @ \ {u}]
                /\ UNCHANGED provLock
           ELSE /\ End(p) /\ Release(p) /\ UNCHANGED <<binding, node>>
        /\ UNCHANGED <<sub, ledger, usageLock, deferred, epoch, charged, budget>>

EndSync(p) ==
    /\ handler[p].step = "chunk"
    /\ handler[p].todo = {}
    /\ End(p)
    /\ Release(p)
    /\ UNCHANGED <<sub, ledger, binding, node, usageLock, deferred, epoch, charged, budget>>

(* connect(): under both locks; a busy lock or an unsettled disable refuses *)
(* the client.                                                              *)
ConnectClient(u) ==
    /\ provLock = Nobody
    /\ usageLock = Nobody
    /\ Eligible
    /\ binding[u].status = "disabled"
    /\ EnsureBinding(u)
    /\ UNCHANGED <<sub, ledger, provLock, usageLock, handler, deferred, epoch, charged, budget>>

-----------------------------------------------------------------------------
(* Renew without reset, plan change and adjustment: the row is read and     *)
(* written in two steps under the usage lock.                               *)

(* Fault: the row is read before the usage lock is taken. *)
AdjustReadUnlocked(p) ==
    /\ handler[p].op = "idle"
    /\ budget.adjusts > 0
    /\ handler' = [handler EXCEPT ![p] = [Idle EXCEPT !.op = "adjust", !.step = "write", !.read = sub]]
    /\ budget' = [budget EXCEPT !.adjusts = @ - 1]
    /\ UNCHANGED <<sub, ledger, binding, node, provLock, usageLock, deferred, epoch, charged>>

AdjustRead(p) ==
    /\ handler[p].op = "idle"
    /\ budget.adjusts > 0
    /\ usageLock = Nobody
    /\ usageLock' = p
    /\ handler' = [handler EXCEPT ![p] = [Idle EXCEPT !.op = "adjust", !.step = "write", !.read = sub]]
    /\ budget' = [budget EXCEPT !.adjusts = @ - 1]
    /\ UNCHANGED <<sub, ledger, binding, node, provLock, deferred, epoch, charged>>

(* updateSubscription writes the counter it read; the follow-ups disconnect *)
(* a subscription that is no longer usable, and sync.                       *)
AdjustWrite(p, preferred) ==
    LET state == ResolveState(preferred, handler[p].read.used)
    IN  /\ handler[p].step = "write"
        /\ sub' = [state |-> state, used |-> handler[p].read.used]
        /\ usageLock' = IF usageLock = p THEN Nobody ELSE usageLock
        /\ deferred' = deferred \cup {"sync"} \cup (IF state = "active" THEN {} ELSE {"disconnect"})
        /\ End(p)
        /\ UNCHANGED <<ledger, binding, node, provLock, epoch, charged, budget>>

(* Disabling bindings takes no lock: a follow-up, or an administrator who   *)
(* kicks a member.                                                          *)
Disconnect(S) ==
    /\ ActiveIn(S) # {}
    /\ \/ S = Users /\ "disconnect" \in deferred
          /\ deferred' = deferred \ {"disconnect"} /\ UNCHANGED budget
       \/ budget.upsets > 0
          /\ budget' = [budget EXCEPT !.upsets = @ - 1] /\ UNCHANGED deferred
    /\ binding' = DisableIn(S)
    /\ node' = CommandIn(ActiveIn(S), "DISABLE_USER")
    /\ UNCHANGED <<sub, ledger, provLock, usageLock, handler, epoch, charged>>

(* The API process dies: its requests and follow-ups are gone and its lock  *)
(* connections close.                                                       *)
CrashApi ==
    /\ budget.upsets > 0
    /\ \E p \in ResetProcs : handler[p] # Idle
    /\ handler' = [p \in ResetProcs |-> Idle]
    /\ provLock' = Nobody
    /\ usageLock' = Nobody
    /\ deferred' = {}
    /\ budget' = [budget EXCEPT !.upsets = @ - 1]
    /\ UNCHANGED <<sub, ledger, binding, node, epoch, charged>>

ResetNext ==
    \/ \E u \in Users : Produce(u) \/ AgentCommand(u) \/ CompleteDisable(u)
                          \/ IngestBatch(u) \/ ConnectClient(u) \/ Disconnect({u})
    \/ \E p \in ResetProcs :
          \/ \E u \in Users : StartReset(p, {u}, "reset")
          \/ StartReset(p, Users, "renew")
          \/ TakeProvisioning(p) \/ GiveUp(p)
          \/ Quiesce(p) \/ AwaitSettled(p) \/ ResetCounters(p)
          \/ StartSync(p) \/ PlanSync(p) \/ SyncChunk(p) \/ EndSync(p)
          \/ AdjustRead(p)
          \/ \E s \in {"active", "paused"} : AdjustWrite(p, s)
    \/ Disconnect(Users)
    \/ CrashApi

ResetSpec == ResetInit /\ [][ResetNext]_resetVars

-----------------------------------------------------------------------------
(* Types of the reset model. *)
ResetTypeOK ==
    /\ sub \in [state : States, used : Nat]
    /\ ledger \in [Users -> Nat]
    /\ \A u \in Users : /\ binding[u].status \in {"active", "disabled"}
                        /\ binding[u].mark \in Nat \cup {NoMark}
                        /\ node[u].made \in 0..MaxUnits
                        /\ Len(node[u].queue) <= node[u].made
    /\ provLock \in ResetProcs \cup {Nobody}
    /\ usageLock \in ResetProcs \cup {Nobody}
    /\ deferred \subseteq {"sync", "disconnect"}
    /\ epoch \in [Users -> 0..MaxResets]
    /\ charged \in [Users -> Nat]

(* The quiescent accounting boundary: once a reset has cleared a user's     *)
(* counters, no unit that the user consumed before it is still on its way,  *)
(* so none can be charged to the fresh quota.                               *)
ResetBoundary ==
    \A u \in Users : \A i \in DOMAIN node[u].queue : node[u].queue[i] = epoch[u]

(* The subscription's counter is the sum of its members' ledgers after any  *)
(* interleaving of batches, member resets and adjustments that keep it.     *)
LedgerAgrees == sub.used = SumLedger(ledger)

(* No unit is lost: what the nodes produced has been charged or is queued,  *)
(* although batches past a disabled binding's watermark are discarded.      *)
UnitsConserved ==
    \A u \in Users : node[u].made = charged[u] + Len(node[u].queue)

(* Provisioning never overwrites a fresh metering or administrator decision: *)
(* a binding becomes active only under a subscription that is usable then.   *)
NoStaleActivation ==
    [][\A u \in Users : binding[u].status = "disabled" /\ binding'[u].status = "active"
                          => Eligible]_resetVars

(* The counters are in order: types, the ledger sums to the subscription's *)
(* usage and no produced unit is lost (resetSubscriptionTrafficCounters,   *)
(* applyDirectBatch).                                                      *)
TrafficInvariant == ResetTypeOK /\ LedgerAgrees /\ UnitsConserved
=============================================================================
