----------------------------- MODULE UsageLocks -----------------------------
(***************************************************************************)
(* The advisory locks of usage-lock.utils.ts and of the session service,   *)
(* and the nesting in which the control plane's handlers take them.        *)
(*                                                                         *)
(* Two backends exist.  With DATABASE_URL set a lock is a PostgreSQL       *)
(* advisory lock that is retried until a deadline ("pg").  Without it a    *)
(* lock is a chain of promises kept in a map of the process ("local"): a   *)
(* caller waits for the tail it found in the map and becomes the new tail. *)
(* The tail promise resolves when every caller of the chain has released,  *)
(* so the model keeps, per key, the set of callers the next one waits for. *)
(*                                                                         *)
(* A handler is the sequence of keys it takes, one inside the other; the   *)
(* work it does under them belongs to the other modules.                   *)
(***************************************************************************)
EXTENDS Integers, Sequences, FiniteSets

CONSTANTS LockProcs,       \* concurrent handlers
          LockSubs,        \* subscription ids, ordered like the strings
          MaxGiveUps,      \* bound: keys on which a queued caller times out
          NoProc

ASSUME LockAssumption ==
    /\ LockSubs \subseteq Nat /\ MaxGiveUps \in Nat /\ NoProc \notin LockProcs
    /\ IsFiniteSet(LockProcs)

VARIABLES lockBackend,     \* "pg" or "local"
          lockPlan,        \* lockPlan[p]: keys p still has to take
          lockHeld,        \* lockHeld[p]: keys p's task runs under
          lockPhase,       \* "idle", "acquiring" (or running) or "queued"
          lockWait,        \* local: the callers p waits for
          lockAhead,       \* local: the callers behind the tail in the map
          lockTail,        \* local: the caller whose promise is in the map
          lockGaveUp       \* history: keys a queued caller timed out on

lockVars == <<lockBackend, lockPlan, lockHeld, lockPhase, lockWait,
              lockAhead, lockTail, lockGaveUp>>

Usage(s)        == <<"usage", s>>
Provisioning(s) == <<"provisioning", s>>
NodeUsage       == <<"node-usage", 0>>
TeamOwner       == <<"owner:team", 0>>
PersonalOwner   == <<"owner:personal", 0>>
UserLease       == <<"connect", 0>>

LockKeys == {NodeUsage, TeamOwner, PersonalOwner, UserLease}
              \cup {Usage(s) : s \in LockSubs} \cup {Provisioning(s) : s \in LockSubs}

-----------------------------------------------------------------------------
(* The nesting of each handler.                                            *)

(* Fault: the connect path takes the usage lock outside the other one. *)
ConnectUsageFirst(s) == <<UserLease, Usage(s), Provisioning(s)>>

(* connect(): the user's connect lock, then provisioning, then usage. *)
ConnectLocks(s) == <<UserLease, Provisioning(s), Usage(s)>>

(* A provisioning sync holds the provisioning lock across its chunks and *)
(* the usage lock around each of them.                                   *)
SyncLocks(s) == <<Provisioning(s), Usage(s)>>

(* A traffic reset takes the usage lock for its counter transaction. *)
ResetLocks(s) == <<Provisioning(s), Usage(s)>>

(* Renew, plan change and manual adjustment. *)
AdjustLocks(s) == <<Usage(s)>>

(* A usage batch locks its node, then every subscription in it in id order. *)
BatchLocks(ids) == <<NodeUsage>> \o [i \in DOMAIN ids |-> Usage(ids[i])]
BatchIds ==
    {ids \in UNION {[1..n -> LockSubs] : n \in 0..Cardinality(LockSubs)} :
        \A i, j \in DOMAIN ids : i < j => ids[i] < ids[j]}

(* Transferring a team takes both owner keys; creating a subscription *)
(* provisions while the owner key is held.                            *)
TransferOwnerLocks      == <<TeamOwner, PersonalOwner>>
CreateTeamSubLocks(s)   == <<TeamOwner, Provisioning(s), Usage(s)>>
CreatePersonalLocks(s)  == <<PersonalOwner, Provisioning(s), Usage(s)>>

PlansOf(s) == {ConnectLocks(s), SyncLocks(s), ResetLocks(s), AdjustLocks(s),
               CreateTeamSubLocks(s), CreatePersonalLocks(s)}

LockPlans ==
    {TransferOwnerLocks} \cup {BatchLocks(ids) : ids \in BatchIds}
      \cup UNION {PlansOf(s) : s \in LockSubs}

-----------------------------------------------------------------------------
LockInit ==
    /\ lockBackend \in {"pg", "local"}
    /\ lockPlan = [p \in LockProcs |-> <<>>]
    /\ lockHeld = [p \in LockProcs |-> {}]
    /\ lockPhase = [p \in LockProcs |-> "idle"]
    /\ lockWait = [p \in LockProcs |-> {}]
    /\ lockAhead = [k \in LockKeys |-> {}]
    /\ lockTail = [k \in LockKeys |-> NoProc]
    /\ lockGaveUp = {}

NextKey(p) == Head(lockPlan[p])

Acquiring(p) == lockPhase[p] = "acquiring" /\ lockPlan[p] # <<>>

BeginHandler(p, plan) ==
    /\ lockPhase[p] = "idle"
    /\ lockPlan' = [lockPlan EXCEPT ![p] = plan]
    /\ lockPhase' = [lockPhase EXCEPT ![p] = "acquiring"]
    /\ UNCHANGED <<lockBackend, lockHeld, lockWait, lockAhead, lockTail, lockGaveUp>>

TakeKey(p, k) ==
    /\ lockHeld' = [lockHeld EXCEPT ![p] = @ \cup {k}]
    /\ lockPlan' = [lockPlan EXCEPT ![p] = Tail(@)]

(* Fault: pg_try_advisory_lock is taken for granted. *)
PgAcquireBlind(p) ==
    /\ lockBackend = "pg"
    /\ Acquiring(p)
    /\ TakeKey(p, NextKey(p))
    /\ UNCHANGED <<lockBackend, lockPhase, lockWait, lockAhead, lockTail, lockGaveUp>>

(* pg_try_advisory_lock answers true: nobody else holds the key. *)
PgAcquire(p) ==
    /\ lockBackend = "pg"
    /\ Acquiring(p)
    /\ \A q \in LockProcs \ {p} : NextKey(p) \notin lockHeld[q]
    /\ TakeKey(p, NextKey(p))
    /\ UNCHANGED <<lockBackend, lockPhase, lockWait, lockAhead, lockTail, lockGaveUp>>

(* Fault: the chain is used although the database is there to lock in. *)
LocalEnqueueAny(p) ==
    /\ Acquiring(p)
    /\ lockPhase' = [lockPhase EXCEPT ![p] = "queued"]
    /\ lockWait' = [lockWait EXCEPT ![p] = lockAhead[NextKey(p)]]
    /\ lockAhead' = [lockAhead EXCEPT ![NextKey(p)] = @ \cup {p}]
    /\ lockTail' = [lockTail EXCEPT ![NextKey(p)] = p]
    /\ UNCHANGED <<lockBackend, lockPlan, lockHeld, lockGaveUp>>

(* The caller finds the tail of the chain, becomes the tail and waits. *)
LocalEnqueue(p) ==
    /\ lockBackend = "local"
    /\ Acquiring(p)
    /\ lockPhase' = [lockPhase EXCEPT ![p] = "queued"]
    /\ lockWait' = [lockWait EXCEPT ![p] = lockAhead[NextKey(p)]]
    /\ lockAhead' = [lockAhead EXCEPT ![NextKey(p)] = @ \cup {p}]
    /\ lockTail' = [lockTail EXCEPT ![NextKey(p)] = p]
    /\ UNCHANGED <<lockBackend, lockPlan, lockHeld, lockGaveUp>>

LocalGranted(p) ==
    /\ lockPhase[p] = "queued"
    /\ lockWait[p] = {}
    /\ TakeKey(p, NextKey(p))
    /\ lockPhase' = [lockPhase EXCEPT ![p] = "acquiring"]
    /\ UNCHANGED <<lockBackend, lockWait, lockAhead, lockTail, lockGaveUp>>

(* The finally blocks, innermost first: every promise of p resolves, and an *)
(* entry of the map that is still p's is deleted with all it stood for.     *)
ReleaseAll(p) ==
    /\ lockHeld' = [lockHeld EXCEPT ![p] = {}]
    /\ lockPlan' = [lockPlan EXCEPT ![p] = <<>>]
    /\ lockPhase' = [lockPhase EXCEPT ![p] = "idle"]
    /\ lockWait' = [q \in LockProcs |-> IF q = p THEN {} ELSE lockWait[q] \ {p}]
    /\ lockAhead' = [k \in LockKeys |-> IF lockTail[k] = p THEN {} ELSE lockAhead[k] \ {p}]
    /\ lockTail' = [k \in LockKeys |-> IF lockTail[k] = p THEN NoProc ELSE lockTail[k]]

(* The task ran under all its keys and ended, normally or by throwing. *)
FinishTask(p) ==
    /\ lockPhase[p] = "acquiring"
    /\ lockPlan[p] = <<>>
    /\ ReleaseAll(p)
    /\ UNCHANGED <<lockBackend, lockGaveUp>>

(* The deadline passed while another handler held the key: a 409 unwinds *)
(* through the handlers' finally blocks.                                 *)
PgTimeout(p) ==
    /\ lockBackend = "pg"
    /\ Acquiring(p)
    /\ \E q \in LockProcs \ {p} : NextKey(p) \in lockHeld[q]
    /\ ReleaseAll(p)
    /\ UNCHANGED <<lockBackend, lockGaveUp>>

(* Fault: a timed-out caller leaves its unresolved promise in the chain. *)
LocalTimeoutLeaks(p) ==
    /\ lockPhase[p] = "queued"
    /\ lockWait[p] # {}
    /\ lockHeld' = [lockHeld EXCEPT ![p] = {}]
    /\ lockPlan' = [lockPlan EXCEPT ![p] = <<>>]
    /\ lockPhase' = [lockPhase EXCEPT ![p] = "idle"]
    /\ lockWait' = [lockWait EXCEPT ![p] = {}]
    /\ lockGaveUp' = lockGaveUp \cup {NextKey(p)}
    /\ UNCHANGED <<lockBackend, lockAhead, lockTail>>

(* The same in the process: the map entry is deleted although the holder *)
(* in front of the caller is still running.                              *)
LocalTimeout(p) ==
    /\ lockPhase[p] = "queued"
    /\ lockWait[p] # {}
    /\ Cardinality(lockGaveUp \cup {NextKey(p)}) <= MaxGiveUps
    /\ ReleaseAll(p)
    /\ lockGaveUp' = lockGaveUp \cup {NextKey(p)}
    /\ UNCHANGED lockBackend

LockNext ==
    \E p \in LockProcs :
        \/ \E plan \in LockPlans : BeginHandler(p, plan)
        \/ PgAcquire(p) \/ LocalEnqueue(p) \/ LocalGranted(p)
        \/ FinishTask(p) \/ PgTimeout(p) \/ LocalTimeout(p)

LockSpec == LockInit /\ [][LockNext]_lockVars

-----------------------------------------------------------------------------
(* Types of the lock tables. *)
LockTypeOK ==
    /\ lockBackend \in {"pg", "local"}
    /\ lockPlan \in [LockProcs -> Seq(LockKeys)]
    /\ lockHeld \in [LockProcs -> SUBSET LockKeys]
    /\ lockPhase \in [LockProcs -> {"idle", "acquiring", "queued"}]
    /\ \A p \in LockProcs : lockPhase[p] = "queued" => lockBackend = "local"
    /\ lockWait \in [LockProcs -> SUBSET LockProcs]
    /\ lockAhead \in [LockKeys -> SUBSET LockProcs]
    /\ lockTail \in [LockKeys -> LockProcs \cup {NoProc}]
    /\ lockGaveUp \subseteq LockKeys

(* Two handlers run under the same key only on the in-process backend, and *)
(* only for a key on which some queued caller had timed out before: with   *)
(* PostgreSQL, or as long as nobody times out, a lock excludes.            *)
LocksExclude ==
    \A p, q \in LockProcs : p # q => lockHeld[p] \cap lockHeld[q] \subseteq lockGaveUp

(* Who waits for whom in this state. *)
WaitsFor(p, q) ==
    \/ q \in lockWait[p]
    \/ lockBackend = "pg" /\ Acquiring(p) /\ NextKey(p) \in lockHeld[q]

(* No cycle of handlers waiting on each other: the nestings (owner before  *)
(* provisioning before usage, the node before its subscriptions, those in  *)
(* id order) are compatible, so progress never depends on a deadline.      *)
NoWaitCycle ==
    \E rank \in [LockProcs -> 1..Cardinality(LockProcs)] :
        \A p, q \in LockProcs : p # q /\ WaitsFor(p, q) => rank[q] < rank[p]

(* A handler that ended, normally or by a timeout, is in no chain and holds *)
(* no key, so nobody waits for it.                                          *)
EndedHoldsNothing ==
    \A p \in LockProcs : lockPhase[p] = "idle" =>
        /\ lockHeld[p] = {}
        /\ \A k \in LockKeys : p \notin lockAhead[k]
        /\ \A q \in LockProcs : p \notin lockWait[q]

(* The locks are in order: types, exclusion, and nothing left behind by a  *)
(* handler that ended or timed out (usage-lock.utils.ts).                  *)
LockInvariant == LockTypeOK /\ LocksExclude /\ EndedHoldsNothing
=============================================================================
