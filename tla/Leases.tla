------------------------------- MODULE Leases -------------------------------
(***************************************************************************)
(* The session leases of one user of one subscription: how a lease is      *)
(* granted, renewed, evicted, swept and revoked.                           *)
(*                                                                         *)
(* Time is reduced to what the code compares: a lease is inside its        *)
(* lifetime and grace period ("live") or past both ("lapsed").             *)
(* A heartbeat reads and checks, and writes later; connect evicts, and     *)
(* creates its lease later; a revocation job scans the leases, and revokes *)
(* them one by one.  The job table and the leases are durable, requests,   *)
(* workers and queued follow-ups are lost when the API process dies.       *)
(***************************************************************************)
EXTENDS Integers, FiniteSets

CONSTANTS LeaseIds,        \* leases ever issued
          LeaseProcs,      \* concurrent connect and enforcement requests
          Workers,         \* revocation workers, abandoned ones included
          MaxLimit,        \* the largest concurrency limit
          MaxSwitches,     \* bound: pauses, resumes, disables and limit changes
          MaxLeaseFaults   \* bound: timeouts, failed writes and crashes

ASSUME LeaseAssumption ==
    /\ LeaseIds \subseteq Nat /\ IsFiniteSet(LeaseIds)
    /\ MaxLimit \in Nat \ {0} /\ MaxSwitches \in Nat /\ MaxLeaseFaults \in Nat

VARIABLES lease,           \* lease[l]: NodeSessionLease status and age
          beating,         \* leases a checked heartbeat is about to renew
          usable,          \* the subscription is connectable
          userActive,      \* User.status
          bound,           \* the user's binding is active
          limit,           \* concurrent sessions allowed now
          leaseRequest,    \* leaseRequest[p]: connect or enforcement p is in
          leaseFollowUps,  \* in-memory follow-ups of a save
          job,             \* job[k]: LeaseRevocationJob by dedupe key
          worker,          \* worker[w]: the job it runs and the leases left
          renewedLate,     \* history: leases renewed after they had lapsed
          limitOwed,       \* history: the limit fell and nobody evicted since
          switches, leaseFaults

leaseVars == <<lease, beating, usable, userActive, bound, limit, leaseRequest,
               leaseFollowUps, job, worker, renewedLate, limitOwed, switches, leaseFaults>>

JobKeys     == {"subscription_paused", "user_disabled"}
NotIssued   == [status |-> "none", age |-> "live"]
NoLeaseWork == [op |-> "idle", limit |-> 0]
NoJob       == [key |-> "none", todo |-> {}, step |-> "idle", attached |-> FALSE]

(* The leases the code's queries see: active and not past the grace period. *)
Counted == {l \in LeaseIds : lease[l] = [status |-> "active", age |-> "live"]}

LeaseInit ==
    /\ lease = [l \in LeaseIds |-> NotIssued]
    /\ beating = {}
    /\ usable = TRUE /\ userActive = TRUE /\ bound = FALSE
    /\ limit \in 1..MaxLimit
    /\ leaseRequest = [p \in LeaseProcs |-> NoLeaseWork]
    /\ leaseFollowUps = {}
    /\ job = [k \in JobKeys |-> "none"]
    /\ worker = [w \in Workers |-> NoJob]
    /\ renewedLate = {} /\ limitOwed = FALSE
    /\ switches = 0 /\ leaseFaults = 0

(* revokeLease: only an active lease changes; an ended one has no age. *)
Revoke(L, status) ==
    [l \in LeaseIds |-> IF l \in L /\ lease[l].status = "active"
                        THEN [status |-> status, age |-> "live"] ELSE lease[l]]

-----------------------------------------------------------------------------
(* connect() and enforceUserConcurrentLeaseLimit(), under the user's lock.  *)

(* Lease ids are given out in order. *)
NextLease(l) ==
    lease[l] = NotIssued /\ \A m \in LeaseIds : lease[m] = NotIssued => l <= m

LeaseLockFree == \A p \in LeaseProcs : leaseRequest[p] = NoLeaseWork

(* Fault: the lease about to be granted is not counted. *)
EvictedUnreserved(max, reserved) ==
    {Revoke(V, "evicted") : V \in {W \in SUBSET Counted :
        Cardinality(W) = IF Cardinality(Counted) > max THEN Cardinality(Counted) - max ELSE 0}}

(* evictExceededUserLeases: as many leases as are too many.  The code takes *)
(* the least recently renewed ones; here it may be any.                     *)
Evicted(max, reserved) ==
    LET n == Cardinality(Counted) - max + reserved
    IN  {Revoke(V, "evicted") : V \in {W \in SUBSET Counted : Cardinality(W) = IF n > 0 THEN n ELSE 0}}

(* The checks, the eviction and the binding; the lease comes later. *)
Connect(p) ==
    /\ LeaseLockFree
    /\ userActive /\ usable
    /\ \E l \in LeaseIds : lease[l] = NotIssued
    /\ lease' \in Evicted(limit, 1)
    /\ bound' = TRUE
    /\ limitOwed' = FALSE
    /\ leaseRequest' = [leaseRequest EXCEPT ![p] = [op |-> "connect", limit |-> limit]]
    /\ UNCHANGED <<beating, usable, userActive, limit, leaseFollowUps, job, worker,
                   renewedLate, switches, leaseFaults>>

GrantLease(p) ==
    \E l \in LeaseIds :
        /\ leaseRequest[p].op = "connect"
        /\ NextLease(l)
        /\ lease' = [lease EXCEPT ![l].status = "active"]
        /\ leaseRequest' = [leaseRequest EXCEPT ![p] = NoLeaseWork]
        /\ UNCHANGED <<beating, usable, userActive, bound, limit, leaseFollowUps, job, worker,
                       renewedLate, limitOwed, switches, leaseFaults>>

(* The follow-up of a limit change evicts for the limit it was queued with. *)
EnforceLimit(max) ==
    /\ <<"limit", max>> \in leaseFollowUps
    /\ LeaseLockFree
    /\ lease' \in Evicted(max, 0)
    /\ leaseFollowUps' = leaseFollowUps \ {<<"limit", max>>}
    /\ limitOwed' = (limitOwed /\ max > limit)
    /\ UNCHANGED <<beating, usable, userActive, bound, limit, leaseRequest, job, worker,
                   renewedLate, switches, leaseFaults>>

-----------------------------------------------------------------------------
(* Time, heartbeats and disconnects.                                        *)

Lapse(l) ==
    /\ lease[l] = [status |-> "active", age |-> "live"]
    /\ lease' = [lease EXCEPT ![l].age = "lapsed"]
    /\ UNCHANGED <<beating, usable, userActive, bound, limit, leaseRequest, leaseFollowUps,
                   job, worker, renewedLate, limitOwed, switches, leaseFaults>>

(* Fault: a heartbeat does not look at the subscription again. *)
HeartbeatUnchecked(l) ==
    /\ userActive
    /\ lease[l].status = "active"
    /\ beating' = beating \cup {l}
    /\ UNCHANGED <<lease, usable, userActive, bound, limit, leaseRequest, leaseFollowUps, job,
                   worker, renewedLate, limitOwed, switches, leaseFaults>>

(* heartbeatSession up to its checks: a lapsed lease, or one whose           *)
(* subscription or binding is gone, is revoked instead.                      *)
Heartbeat(l) ==
    /\ userActive
    /\ lease[l].status = "active"
    /\ IF lease[l].age = "live" /\ usable /\ bound
       THEN beating' = beating \cup {l} /\ UNCHANGED lease
       ELSE lease' = Revoke({l}, "revoked") /\ UNCHANGED beating
    /\ UNCHANGED <<usable, userActive, bound, limit, leaseRequest, leaseFollowUps, job,
                   worker, renewedLate, limitOwed, switches, leaseFaults>>

(* Fault: the renewal does not ask whether the lease is still active. *)
RenewAnyway(l) ==
    /\ l \in beating
    /\ beating' = beating \ {l}
    /\ lease' = [lease EXCEPT ![l] = [status |-> "active", age |-> "live"]]
    /\ renewedLate' = IF lease[l].age = "lapsed" THEN renewedLate \cup {l} ELSE renewedLate
    /\ UNCHANGED <<usable, userActive, bound, limit, leaseRequest, leaseFollowUps, job, worker,
                   limitOwed, switches, leaseFaults>>

(* Its write: only while the lease is active, however old it is by now. *)
RenewLease(l) ==
    /\ l \in beating
    /\ beating' = beating \ {l}
    /\ IF lease[l].status = "active"
       THEN /\ lease' = [lease EXCEPT ![l].age = "live"]
            /\ renewedLate' = IF lease[l].age = "lapsed" THEN renewedLate \cup {l} ELSE renewedLate
       ELSE UNCHANGED <<lease, renewedLate>>
    /\ UNCHANGED <<usable, userActive, bound, limit, leaseRequest, leaseFollowUps, job, worker,
                   limitOwed, switches, leaseFaults>>

Disconnected(l) ==
    /\ userActive
    /\ lease[l].status = "active"
    /\ lease' = Revoke({l}, "revoked")
    /\ UNCHANGED <<beating, usable, userActive, bound, limit, leaseRequest, leaseFollowUps,
                   job, worker, renewedLate, limitOwed, switches, leaseFaults>>

SweepExpired(l) ==
    /\ lease[l] = [status |-> "active", age |-> "lapsed"]
    /\ lease' = Revoke({l}, "revoked")
    /\ UNCHANGED <<beating, usable, userActive, bound, limit, leaseRequest, leaseFollowUps,
                   job, worker, renewedLate, limitOwed, switches, leaseFaults>>

-----------------------------------------------------------------------------
(* What an administrator changes, and the follow-ups of the save.           *)

Switch == switches < MaxSwitches /\ switches' = switches + 1

(* Pausing, expiring or exhausting takes the usage lock a connect holds;     *)
(* disabling the account does not.                                           *)
BarUser(key) ==
    /\ Switch
    /\ \/ key = "subscription_paused" /\ usable /\ LeaseLockFree
          /\ usable' = FALSE /\ UNCHANGED userActive
       \/ key = "user_disabled" /\ userActive
          /\ userActive' = FALSE /\ UNCHANGED usable
    /\ leaseFollowUps' = leaseFollowUps \cup {<<key, 0>>}
    /\ UNCHANGED <<lease, beating, bound, limit, leaseRequest, job, worker, renewedLate,
                   limitOwed, leaseFaults>>

(* Resuming, or enabling the account, provisions the binding again. *)
UnbarUser ==
    /\ Switch
    /\ \/ ~usable /\ LeaseLockFree /\ usable' = TRUE /\ UNCHANGED userActive
       \/ ~userActive /\ userActive' = TRUE /\ UNCHANGED usable
    /\ bound' = (usable' /\ userActive')
    /\ UNCHANGED <<lease, beating, limit, leaseRequest, leaseFollowUps, job, worker,
                   renewedLate, limitOwed, leaseFaults>>

SetLimit(max) ==
    /\ Switch
    /\ max # limit
    /\ limit' = max
    /\ leaseFollowUps' = leaseFollowUps \cup {<<"limit", max>>}
    /\ limitOwed' = (limitOwed \/ max < limit)
    /\ UNCHANGED <<lease, beating, usable, userActive, bound, leaseRequest, job, worker,
                   renewedLate, leaseFaults>>

(* createOrRefreshLeaseRevocationJob: a job that is running keeps its row,  *)
(* and the new request leaves no trace.                                     *)
QueueRevocation(key) ==
    /\ <<key, 0>> \in leaseFollowUps
    /\ leaseFollowUps' = leaseFollowUps \ {<<key, 0>>}
    /\ bound' = FALSE
    /\ job' = IF job[key] = "running" THEN job ELSE [job EXCEPT ![key] = "pending"]
    /\ UNCHANGED <<lease, beating, usable, userActive, limit, leaseRequest, worker,
                   renewedLate, limitOwed, switches, leaseFaults>>

-----------------------------------------------------------------------------
(* retryPendingLeaseRevocationJobs.                                         *)

Abandoned(key) == \A w \in Workers : ~(worker[w].key = key /\ worker[w].attached)

(* A pending or failed job, or a running one whose lock has gone stale. *)
ClaimJob(w, key) ==
    /\ worker[w] = NoJob
    /\ job[key] \in {"pending", "failed"} \/ (job[key] = "running" /\ Abandoned(key))
    /\ job' = [job EXCEPT ![key] = "running"]
    /\ worker' = [worker EXCEPT ![w] = [key |-> key, todo |-> {}, step |-> "scan", attached |-> TRUE]]
    /\ UNCHANGED <<lease, beating, usable, userActive, bound, limit, leaseRequest,
                   leaseFollowUps, renewedLate, limitOwed, switches, leaseFaults>>

ScanLeases(w) ==
    /\ worker[w].step = "scan"
    /\ worker' = [worker EXCEPT ![w].step = "revoke", ![w].todo = Counted]
    /\ UNCHANGED <<lease, beating, usable, userActive, bound, limit, leaseRequest,
                   leaseFollowUps, job, renewedLate, limitOwed, switches, leaseFaults>>

(* A lease whose write fails is skipped. *)
RevokeNext(w) ==
    \E l \in worker[w].todo :
        /\ worker' = [worker EXCEPT ![w].todo = @ \ {l}]
        /\ \/ lease' = Revoke({l}, "revoked") /\ UNCHANGED leaseFaults
           \/ /\ leaseFaults < MaxLeaseFaults
              /\ leaseFaults' = leaseFaults + 1
              /\ UNCHANGED lease
        /\ UNCHANGED <<beating, usable, userActive, bound, limit, leaseRequest,
                       leaseFollowUps, job, renewedLate, limitOwed, switches>>

(* The effect is done: the job is completed, unless its time was over. *)
CompleteJob(w) ==
    /\ worker[w].step = "revoke"
    /\ worker[w].todo = {}
    /\ job' = IF worker[w].attached THEN [job EXCEPT ![worker[w].key] = "completed"] ELSE job
    /\ worker' = [worker EXCEPT ![w] = NoJob]
    /\ UNCHANGED <<lease, beating, usable, userActive, bound, limit, leaseRequest,
                   leaseFollowUps, renewedLate, limitOwed, switches, leaseFaults>>

(* The effect's budget is over: it goes on, but the job is to be retried. *)
TimeoutJob(w) ==
    /\ worker[w].attached
    /\ leaseFaults < MaxLeaseFaults
    /\ leaseFaults' = leaseFaults + 1
    /\ job' = [job EXCEPT ![worker[w].key] = "failed"]
    /\ worker' = [worker EXCEPT ![w].attached = FALSE]
    /\ UNCHANGED <<lease, beating, usable, userActive, bound, limit, leaseRequest,
                   leaseFollowUps, renewedLate, limitOwed, switches>>

(* The API process dies. *)
CrashLeases ==
    /\ leaseFaults < MaxLeaseFaults
    /\ leaseFaults' = leaseFaults + 1
    /\ leaseRequest' = [p \in LeaseProcs |-> NoLeaseWork]
    /\ beating' = {}
    /\ leaseFollowUps' = {}
    /\ worker' = [w \in Workers |-> NoJob]
    /\ UNCHANGED <<lease, usable, userActive, bound, limit, job, renewedLate,
                   limitOwed, switches>>

LeaseNext ==
    \/ \E p \in LeaseProcs : Connect(p) \/ GrantLease(p)
    \/ \E l \in LeaseIds : Lapse(l) \/ Heartbeat(l) \/ RenewLease(l) \/ Disconnected(l) \/ SweepExpired(l)
    \/ \E key \in JobKeys : BarUser(key) \/ QueueRevocation(key)
    \/ UnbarUser
    \/ \E max \in 1..MaxLimit : SetLimit(max) \/ EnforceLimit(max)
    \/ \E w \in Workers : \/ \E key \in JobKeys : ClaimJob(w, key)
                          \/ ScanLeases(w) \/ RevokeNext(w) \/ CompleteJob(w) \/ TimeoutJob(w)
    \/ CrashLeases

(* Time passes, a request that was let in finishes, and the sweeper's cron  *)
(* runs.  Nothing is assumed of the clients.                                *)
LeaseFairness ==
    /\ \A p \in LeaseProcs : WF_leaseVars(GrantLease(p))
    /\ \A l \in LeaseIds : WF_leaseVars(Lapse(l)) /\ WF_leaseVars(RenewLease(l)) /\ WF_leaseVars(SweepExpired(l))

LeaseSpec == LeaseInit /\ [][LeaseNext]_leaseVars

-----------------------------------------------------------------------------
(* Types of the lease tables. *)
LeaseTypeOK ==
    /\ lease \in [LeaseIds -> [status : {"none", "active", "evicted", "revoked"}, age : {"live", "lapsed"}]]
    /\ beating \subseteq LeaseIds /\ renewedLate \subseteq LeaseIds
    /\ limit \in 1..MaxLimit
    /\ job \in [JobKeys -> {"none", "pending", "running", "failed", "completed"}]
    /\ \A w \in Workers : worker[w].todo \subseteq LeaseIds

(* The user never holds more sessions than allowed: connects exclude each   *)
(* other and evict first.  Beyond the limit there are only leases that a    *)
(* heartbeat renewed although they had lapsed, and, after a lowered limit   *)
(* whose enforcement has not run, the old ones.                             *)
LimitRespected ==
    ~limitOwed => Cardinality(Counted) <= limit + Cardinality(renewedLate)

(* A lease that was evicted or revoked stays so, although a heartbeat that  *)
(* was checked before may write after it.                                   *)
EndedLeaseStays ==
    [][\A l \in LeaseIds : lease[l].status \in {"evicted", "revoked"} => lease'[l] = lease[l]]_leaseVars

(* A user who is barred for good ends up without a session, although the    *)
(* follow-up may be lost in a crash, dropped because the job was running,   *)
(* or its revocations may fail: heartbeats renew nothing any more and the   *)
(* sweeper collects what lapses.                                            *)
BarredUserLosesLeases ==
    <>[](~usable \/ ~userActive) => <>[](\A l \in LeaseIds : lease[l].status # "active")

(* The leases of a user are in order: types, and the concurrency limit for *)
(* what an eviction can see (evictExceededUserLeases).                     *)
LeaseInvariant == LeaseTypeOK /\ LimitRespected
=============================================================================
