--------------------------- MODULE SessionProofs ---------------------------
(***************************************************************************)
(* Proofs about sessions, for every value of the constants: the locks      *)
(* under which handlers run (UsageLocks), the leases of a user (Leases)    *)
(* and the desktop client's stored session (SessionStore).                 *)
(***************************************************************************)
EXTENDS UsageLocks, Leases, SessionStore, FiniteSetTheorems, TLAPS

-----------------------------------------------------------------------------
(* The locks.                                                              *)

(* p is queued for k, or runs under it. *)
Wants(p, k)   == lockPhase[p] = "queued" /\ NextKey(p) = k
InChain(p, k) == k \in lockHeld[p] \/ Wants(p, k)

(* The order all nestings follow: owners, the user, provisioning, the node, *)
(* its subscriptions by id.                                                 *)
Order(k) ==
    IF k[1] = "usage" THEN 5 + k[2]
    ELSE IF k[1] = "node-usage" THEN 4
    ELSE IF k[1] = "provisioning" THEN 3
    ELSE IF k[1] = "connect" THEN 2
    ELSE IF k[1] = "owner:personal" THEN 1 ELSE 0

Ascending(plan) == \A i, j \in DOMAIN plan : i < j => Order(plan[i]) < Order(plan[j])

(* What a handler still takes comes after all it has. *)
PlansAscend ==
    \A p \in LockProcs :
        /\ lockPhase[p] = "queued" => lockPlan[p] # <<>>
        /\ Ascending(lockPlan[p])
        /\ \A k \in lockHeld[p], i \in DOMAIN lockPlan[p] : Order(k) < Order(lockPlan[p][i])

(* In the process, a key nobody gave up on has one chain: whoever is in it *)
(* is behind the tail, of two one waits for the other, and the tail waits  *)
(* for everyone else.                                                      *)
Chained ==
    lockBackend = "local" =>
        \A k \in LockKeys \ lockGaveUp : \A p, q \in LockProcs :
            /\ InChain(p, k) => p \in lockAhead[k]
            /\ p # q /\ Wants(p, k) /\ InChain(q, k) =>
                 q \in lockWait[p] \/ (Wants(q, k) /\ p \in lockWait[q])
            /\ p # q /\ lockTail[k] = p /\ InChain(q, k) => Wants(p, k) /\ q \in lockWait[p]

(* Whoever is waited for is in the chain of that key, and a caller waits   *)
(* for all those its predecessors wait for.                                *)
WaitsBehind ==
    /\ \A p \in LockProcs : lockWait[p] # {} => lockPhase[p] = "queued"
    /\ \A p, q \in LockProcs : q \in lockWait[p] => q # p /\ InChain(q, NextKey(p))
    /\ \A k \in LockKeys, q \in LockProcs : q \in lockAhead[k] =>
         InChain(q, k) /\ (Wants(q, k) => lockWait[q] \subseteq lockAhead[k])
    /\ \A p, q, r \in LockProcs :
         q \in lockWait[p] /\ r \in lockWait[q] /\ NextKey(q) = NextKey(p) => r \in lockWait[p]

LockInv ==
    LockTypeOK /\ LocksExclude /\ EndedHoldsNothing /\ PlansAscend /\ Chained /\ WaitsBehind

(* The order of each key. *)
LEMMA KeyOrder ==
  /\ NodeUsage \in LockKeys /\ Order(NodeUsage) = 4
  /\ UserLease \in LockKeys /\ Order(UserLease) = 2
  /\ PersonalOwner \in LockKeys /\ Order(PersonalOwner) = 1
  /\ TeamOwner \in LockKeys /\ Order(TeamOwner) = 0
  /\ \A s \in LockSubs : Usage(s) \in LockKeys /\ Order(Usage(s)) = 5 + s
  /\ \A s \in LockSubs : Provisioning(s) \in LockKeys /\ Order(Provisioning(s)) = 3
  BY DEF NodeUsage, UserLease, PersonalOwner, TeamOwner, Usage, Provisioning, LockKeys, Order

(* Every key has a place in the order. *)
LEMMA OrderIsNat == \A k \in LockKeys : Order(k) \in Nat
  BY KeyOrder, LockAssumption DEF LockKeys

(* The kinds of handlers. *)
LEMMA PlanKinds ==
  ASSUME NEW plan \in LockPlans
  PROVE  \/ plan = TransferOwnerLocks
         \/ \E ids \in BatchIds : plan = BatchLocks(ids)
         \/ \E s \in LockSubs : plan \in PlansOf(s)
  <1>1. plan \in UNION {PlansOf(s) : s \in LockSubs} => \E s \in LockSubs : plan \in PlansOf(s)
    OBVIOUS
  <1> QED
    BY <1>1 DEF LockPlans

(* Every handler takes keys, in ascending order. *)
LEMMA PlanAscends ==
  ASSUME NEW plan \in LockPlans
  PROVE  plan \in Seq(LockKeys) /\ Ascending(plan)
  <1> USE KeyOrder, LockAssumption
  <1>1. CASE plan = TransferOwnerLocks
    BY <1>1 DEF TransferOwnerLocks, Ascending
  <1>2. ASSUME NEW s \in LockSubs, plan = ConnectLocks(s) PROVE plan \in Seq(LockKeys) /\ Ascending(plan)
    BY <1>2 DEF ConnectLocks, Ascending
  <1>3. ASSUME NEW s \in LockSubs, plan = <<Provisioning(s), Usage(s)>>
        PROVE plan \in Seq(LockKeys) /\ Ascending(plan)
    BY <1>3 DEF Ascending
  <1>4. ASSUME NEW s \in LockSubs, plan = AdjustLocks(s) PROVE plan \in Seq(LockKeys) /\ Ascending(plan)
    BY <1>4 DEF AdjustLocks, Ascending
  <1>5. ASSUME NEW s \in LockSubs, plan = CreateTeamSubLocks(s) PROVE plan \in Seq(LockKeys) /\ Ascending(plan)
    BY <1>5 DEF CreateTeamSubLocks, Ascending
  <1>6. ASSUME NEW s \in LockSubs, plan = CreatePersonalLocks(s) PROVE plan \in Seq(LockKeys) /\ Ascending(plan)
    BY <1>6 DEF CreatePersonalLocks, Ascending
  <1>7. ASSUME NEW ids \in BatchIds, plan = BatchLocks(ids) PROVE plan \in Seq(LockKeys) /\ Ascending(plan)
    <2> DEFINE rest == [i \in DOMAIN ids |-> Usage(ids[i])]
    <2>1. PICK n \in Nat : ids \in [1..n -> LockSubs]
      BY <1>7 DEF BatchIds
    <2>2. \A i, j \in 1..n : i < j => ids[i] < ids[j]
      BY <1>7, <2>1 DEF BatchIds
    <2>3. rest \in Seq(LockKeys) /\ Len(rest) = n
      <3>1. rest = [i \in 1..n |-> Usage(ids[i])]
        BY <2>1
      <3>2. \A i \in 1..n : Usage(ids[i]) \in LockKeys
        BY <2>1
      <3> HIDE DEF rest
      <3> QED
        BY <3>1, <3>2
    <2>4. plan = <<NodeUsage>> \o rest
      BY <1>7 DEF BatchLocks
    <2> HIDE DEF rest
    <2>5. plan \in Seq(LockKeys) /\ DOMAIN plan = 1..(n + 1)
      BY <2>3, <2>4
    <2>6. plan[1] = NodeUsage
      BY <2>3, <2>4
    <2>7. \A i \in 2..(n + 1) : plan[i] = Usage(ids[i - 1])
      <3> TAKE i \in 2..(n + 1)
      <3>1. plan[i] = rest[i - 1]
        BY <2>3, <2>4
      <3> QED
        BY <2>1, <3>1 DEF rest
    <2>8. \A i \in 2..(n + 1) : ids[i - 1] \in LockSubs /\ Order(plan[i]) = 5 + ids[i - 1]
      <3> TAKE i \in 2..(n + 1)
      <3>1. i - 1 \in 1..n
        OBVIOUS
      <3>2. ids[i - 1] \in LockSubs
        BY <2>1, <3>1
      <3> QED
        BY <2>7, <3>2
    <2>9. Order(plan[1]) = 4
      BY <2>6
    <2>10. ASSUME NEW i \in 1..(n + 1), NEW j \in 1..(n + 1), i < j PROVE Order(plan[i]) < Order(plan[j])
      <3>1. j - 1 \in 1..n /\ ids[j - 1] \in Nat /\ Order(plan[j]) = 5 + ids[j - 1]
        <4>1. j \in 2..(n + 1) /\ j - 1 \in 1..n
          BY <2>10
        <4> QED
          BY <2>8, <4>1
      <3>2. CASE i = 1
        BY <2>9, <3>1, <3>2
      <3>3. CASE i # 1
        <4>1. i - 1 \in 1..n /\ ids[i - 1] \in Nat /\ Order(plan[i]) = 5 + ids[i - 1]
          <5>1. i \in 2..(n + 1) /\ i - 1 \in 1..n
            BY <2>10, <3>3
          <5> QED
            BY <2>8, <5>1
        <4>2. ids[i - 1] < ids[j - 1]
          BY <2>2, <2>10, <3>1, <4>1
        <4> QED
          BY <3>1, <4>1, <4>2
      <3> QED
        BY <3>2, <3>3
    <2> QED
      BY <2>5, <2>10 DEF Ascending
  <1>9. ASSUME NEW s \in LockSubs,
               plan \in PlansOf(s)
        PROVE  plan \in Seq(LockKeys) /\ Ascending(plan)
    <2>1. SyncLocks(s) = <<Provisioning(s), Usage(s)>> /\ ResetLocks(s) = <<Provisioning(s), Usage(s)>>
      BY DEF SyncLocks, ResetLocks
    <2> QED
      BY <1>2, <1>3, <1>4, <1>5, <1>6, <1>9, <2>1, Zenon DEF PlansOf
  <1> QED
    BY <1>1, <1>7, <1>9, PlanKinds, Zenon

(* A handler with keys left has a next key, in order with what it has. *)
LEMMA NextKeyIs ==
  ASSUME LockInv, NEW p \in LockProcs, lockPlan[p] # <<>>
  PROVE  /\ NextKey(p) \in LockKeys /\ NextKey(p) = lockPlan[p][1] /\ 1 \in DOMAIN lockPlan[p]
         /\ Tail(lockPlan[p]) \in Seq(LockKeys)
         /\ DOMAIN Tail(lockPlan[p]) = 1..(Len(lockPlan[p]) - 1)
         /\ \A i \in DOMAIN Tail(lockPlan[p]) :
               i + 1 \in DOMAIN lockPlan[p] /\ Tail(lockPlan[p])[i] = lockPlan[p][i + 1]
         /\ NextKey(p) \notin lockHeld[p]
  <1> DEFINE s == lockPlan[p]
  <1>1. s \in Seq(LockKeys) /\ s # <<>>
    BY DEF LockInv, LockTypeOK
  <1>2. Head(s) = s[1] /\ s[1] \in LockKeys /\ 1 \in DOMAIN s
    BY <1>1
  <1>3. Tail(s) \in Seq(LockKeys) /\ DOMAIN Tail(s) = 1..(Len(s) - 1)
    BY <1>1
  <1>4. \A i \in DOMAIN Tail(s) : i + 1 \in DOMAIN s /\ Tail(s)[i] = s[i + 1]
    BY <1>1
  <1>5. s[1] \notin lockHeld[p]
    <2>1. \A k \in lockHeld[p] : Order(k) < Order(s[1])
      BY <1>2 DEF LockInv, PlansAscend
    <2>2. ~(Order(s[1]) < Order(s[1]))
      BY <1>2, OrderIsNat
    <2> QED
      BY <2>1, <2>2
  <1> QED
    BY <1>2, <1>3, <1>4, <1>5 DEF NextKey

(* A handler begins. *)
LEMMA BeginKeeps ==
  ASSUME LockInv, NEW p \in LockProcs, NEW plan \in LockPlans, BeginHandler(p, plan)
  PROVE  LockInv'
  <1> USE DEF LockInv, BeginHandler
  <1>1. plan \in Seq(LockKeys) /\ Ascending(plan)
    BY PlanAscends
  <1>2. LockTypeOK'
    BY <1>1 DEF LockTypeOK
  <1>3. \A q \in LockProcs : lockPhase'[q] = "queued" => lockPhase[q] = "queued" /\ lockPlan'[q] = lockPlan[q]
    BY DEF LockTypeOK
  <1>4. \A q \in LockProcs : \A k : (Wants(q, k) <=> Wants(q, k)') /\ (InChain(q, k) <=> InChain(q, k)')
    BY DEF LockTypeOK, Wants, InChain, NextKey
  <1>5. PlansAscend'
    BY <1>1, <1>3 DEF PlansAscend, LockTypeOK, EndedHoldsNothing
  <1>6. Chained'
    BY <1>4 DEF Chained
  <1>7. WaitsBehind'
    <2>1. \A q \in LockProcs : lockWait[q] # {} => lockPlan'[q] = lockPlan[q] /\ lockPhase'[q] = lockPhase[q]
      BY DEF WaitsBehind, LockTypeOK
    <2> QED
      BY <1>4, <2>1 DEF WaitsBehind, NextKey, LockTypeOK
  <1>8. LocksExclude' /\ EndedHoldsNothing'
    BY DEF LocksExclude, EndedHoldsNothing, LockTypeOK
  <1> QED
    BY <1>2, <1>5, <1>6, <1>7, <1>8

(* PostgreSQL grants a key. *)
LEMMA PgAcquireKeeps ==
  ASSUME LockInv, NEW p \in LockProcs, PgAcquire(p)
  PROVE  LockInv'
  <1> DEFINE k == NextKey(p)
  <1>0. lockPlan[p] # <<>> /\ lockPhase[p] = "acquiring"
    BY DEF PgAcquire, Acquiring
  <1>1. /\ k \in LockKeys /\ k = lockPlan[p][1] /\ 1 \in DOMAIN lockPlan[p]
        /\ Tail(lockPlan[p]) \in Seq(LockKeys) /\ k \notin lockHeld[p]
        /\ \A i \in DOMAIN Tail(lockPlan[p]) :
               i + 1 \in DOMAIN lockPlan[p] /\ Tail(lockPlan[p])[i] = lockPlan[p][i + 1]
    BY <1>0, NextKeyIs
  <1> HIDE DEF k
  <1>2. /\ lockHeld' = [lockHeld EXCEPT ![p] = @ \cup {k}]
        /\ lockPlan' = [lockPlan EXCEPT ![p] = Tail(@)]
        /\ lockBackend = "pg" /\ \A q \in LockProcs \ {p} : k \notin lockHeld[q]
        /\ UNCHANGED <<lockBackend, lockPhase, lockWait, lockAhead, lockTail, lockGaveUp>>
    BY DEF PgAcquire, TakeKey, k
  <1>3. LockTypeOK'
    BY <1>1, <1>2 DEF LockInv, LockTypeOK
  <1>4. \A q \in LockProcs : lockPhase[q] # "queued"
    BY <1>2 DEF LockInv, LockTypeOK
  <1>5. PlansAscend'
    BY <1>1, <1>2, <1>4, <1>0 DEF LockInv, LockTypeOK, PlansAscend, Ascending
  <1>6. Chained'
    BY <1>2 DEF Chained
  <1>7. \A q \in LockProcs : lockWait[q] = {}
    BY <1>4 DEF LockInv, WaitsBehind
  <1>8. WaitsBehind'
    BY <1>2, <1>7, <1>4 DEF LockInv, LockTypeOK, WaitsBehind, InChain, Wants
  <1>9. LocksExclude'
    BY <1>2 DEF LockInv, LockTypeOK, LocksExclude
  <1>10. EndedHoldsNothing'
    BY <1>0, <1>2 DEF LockInv, LockTypeOK, EndedHoldsNothing
  <1> QED
    BY <1>3, <1>5, <1>6, <1>8, <1>9, <1>10 DEF LockInv

(* In the process, a caller joins the chain of its next key. *)
LEMMA EnqueueKeeps ==
  ASSUME LockInv, NEW p \in LockProcs, LocalEnqueue(p)
  PROVE  LockInv'
  <1> DEFINE k == NextKey(p)
  <1>0. lockPlan[p] # <<>> /\ lockPhase[p] = "acquiring"
    BY DEF LocalEnqueue, Acquiring
  <1>1. k \in LockKeys /\ k \notin lockHeld[p]
    BY <1>0, NextKeyIs
  <1> HIDE DEF k
  <1>2. /\ lockPhase' = [lockPhase EXCEPT ![p] = "queued"]
        /\ lockWait' = [lockWait EXCEPT ![p] = lockAhead[k]]
        /\ lockAhead' = [lockAhead EXCEPT ![k] = @ \cup {p}]
        /\ lockTail' = [lockTail EXCEPT ![k] = p]
        /\ lockBackend = "local"
        /\ UNCHANGED <<lockBackend, lockPlan, lockHeld, lockGaveUp>>
    BY DEF LocalEnqueue, k
  <1>3. LockTypeOK'
    BY <1>1, <1>2 DEF LockInv, LockTypeOK
  <1>4. PlansAscend'
    BY <1>0, <1>2 DEF LockInv, LockTypeOK, PlansAscend
  <1>5. /\ \A q \in LockProcs : NextKey(q)' = NextKey(q)
        /\ \A j : (Wants(p, j)' <=> j = k) /\ ~Wants(p, j)
        /\ \A q \in LockProcs \ {p} : \A j : Wants(q, j)' <=> Wants(q, j)
    BY <1>0, <1>2 DEF LockInv, LockTypeOK, Wants, NextKey, k
  <1>6. /\ \A q \in LockProcs : \A j : InChain(q, j)' <=> InChain(q, j) \/ (q = p /\ j = k)
        /\ ~InChain(p, k)
    BY <1>1, <1>2, <1>5 DEF InChain
  <1>7. p \notin lockAhead[k] /\ \A q \in LockProcs, j \in LockKeys : q \in lockAhead[j] => InChain(q, j)
    BY <1>1, <1>6 DEF LockInv, WaitsBehind
  <1>8. lockWait[p] = {} /\ \A q \in LockProcs : p \in lockWait[q] => InChain(p, NextKey(q))
    BY <1>0 DEF LockInv, WaitsBehind
  <1>9. Chained'
    <2> SUFFICES ASSUME NEW j \in LockKeys \ lockGaveUp, NEW a \in LockProcs, NEW b \in LockProcs
                 PROVE  /\ InChain(a, j)' => a \in lockAhead'[j]
                        /\ a # b /\ Wants(a, j)' /\ InChain(b, j)' =>
                             b \in lockWait'[a] \/ (Wants(b, j)' /\ a \in lockWait'[b])
                        /\ a # b /\ lockTail'[j] = a /\ InChain(b, j)' => Wants(a, j)' /\ b \in lockWait'[a]
      BY <1>2 DEF Chained
    <2>1. /\ InChain(a, j) => a \in lockAhead[j]
          /\ InChain(b, j) => b \in lockAhead[j]
          /\ a # b /\ Wants(a, j) /\ InChain(b, j) => b \in lockWait[a] \/ (Wants(b, j) /\ a \in lockWait[b])
          /\ a # b /\ lockTail[j] = a /\ InChain(b, j) => Wants(a, j) /\ b \in lockWait[a]
      BY <1>2 DEF LockInv, Chained
    <2>2. InChain(a, j)' => a \in lockAhead'[j]
      BY <1>1, <1>2, <1>6, <2>1 DEF LockInv, LockTypeOK
    <2>3. ASSUME a # b, Wants(a, j)', InChain(b, j)'
          PROVE  b \in lockWait'[a] \/ (Wants(b, j)' /\ a \in lockWait'[b])
      <3>1. CASE a = p
        BY <1>1, <1>2, <1>5, <1>6, <2>1, <2>3, <3>1 DEF LockInv, LockTypeOK
      <3>2. CASE b = p
        <4>1. CASE j = k
          <5>1. Wants(a, j) /\ InChain(a, j)
            BY <1>5, <2>3, <3>2 DEF InChain
          <5> QED
            BY <1>2, <1>5, <2>1, <3>2, <4>1, <5>1 DEF LockInv, LockTypeOK
        <4>2. CASE j # k
          BY <1>2, <1>5, <1>6, <1>8, <2>1, <2>3, <3>2, <4>2 DEF LockInv, LockTypeOK
        <4> QED
          BY <4>1, <4>2
      <3>3. CASE a # p /\ b # p
        BY <1>2, <1>5, <1>6, <2>1, <2>3, <3>3 DEF LockInv, LockTypeOK
      <3> QED
        BY <3>1, <3>2, <3>3
    <2>4. ASSUME a # b, lockTail'[j] = a, InChain(b, j)' PROVE Wants(a, j)' /\ b \in lockWait'[a]
      <3>1. CASE j = k
        <4>1. a = p
          BY <1>1, <1>2, <2>4, <3>1 DEF LockInv, LockTypeOK
        <4> QED
          BY <1>2, <1>5, <1>6, <2>1, <2>4, <3>1, <4>1 DEF LockInv, LockTypeOK
      <3>2. CASE j # k
        <4>1. lockTail[j] = a /\ InChain(b, j)
          BY <1>2, <1>6, <2>4, <3>2 DEF LockInv, LockTypeOK
        <4>2. Wants(a, j) /\ b \in lockWait[a] /\ a # p
          BY <1>5, <2>1, <2>4, <4>1
        <4> QED
          BY <1>2, <1>5, <4>2 DEF LockInv, LockTypeOK
      <3> QED
        BY <3>1, <3>2
    <2> QED
      BY <2>2, <2>3, <2>4
  <1>10. WaitsBehind'
    <2>1. \A q \in LockProcs : lockWait'[q] # {} => lockPhase'[q] = "queued"
      BY <1>2 DEF LockInv, LockTypeOK, WaitsBehind
    <2>2. \A a, b \in LockProcs : b \in lockWait'[a] => b # a /\ InChain(b, NextKey(a))'
      <3> SUFFICES ASSUME NEW a \in LockProcs, NEW b \in LockProcs, b \in lockWait'[a]
                   PROVE  b # a /\ InChain(b, NextKey(a))'
        OBVIOUS
      <3>1. CASE a = p
        <4>1. b \in lockAhead[k]
          BY <1>2, <3>1 DEF LockInv, LockTypeOK
        <4> QED
          BY <1>1, <1>5, <1>6, <1>7, <3>1, <4>1 DEF k, InChain, Wants
      <3>2. CASE a # p
        <4>1. b \in lockWait[a]
          BY <1>2, <3>2 DEF LockInv, LockTypeOK
        <4>2. b # a /\ InChain(b, NextKey(a))
          BY <4>1 DEF LockInv, WaitsBehind
        <4> QED
          BY <1>5, <1>6, <4>2 DEF InChain, Wants
      <3> QED
        BY <3>1, <3>2
    <2>3. \A j \in LockKeys, q \in LockProcs : q \in lockAhead'[j] =>
             InChain(q, j)' /\ (Wants(q, j)' => lockWait'[q] \subseteq lockAhead'[j])
      <3> SUFFICES ASSUME NEW j \in LockKeys, NEW q \in LockProcs, q \in lockAhead'[j]
                   PROVE  InChain(q, j)' /\ (Wants(q, j)' => lockWait'[q] \subseteq lockAhead'[j])
        OBVIOUS
      <3>1. lockAhead[j] \subseteq lockAhead'[j]
        BY <1>2 DEF LockInv, LockTypeOK
      <3>2. CASE q = p /\ j = k
        BY <1>1, <1>2, <1>6, <3>2, <3>1 DEF LockInv, LockTypeOK
      <3>3. CASE q = p /\ j # k
        BY <1>2, <1>5, <1>6, <1>7, <3>3 DEF LockInv, LockTypeOK
      <3>4. CASE q # p
        <4>1. q \in lockAhead[j] /\ lockWait'[q] = lockWait[q]
          BY <1>2, <3>4 DEF LockInv, LockTypeOK
        <4>2. InChain(q, j) /\ (Wants(q, j) => lockWait[q] \subseteq lockAhead[j])
          BY <4>1 DEF LockInv, WaitsBehind
        <4> QED
          BY <1>5, <1>6, <3>1, <3>4, <4>1, <4>2
      <3> QED
        BY <3>2, <3>3, <3>4
    <2>4. \A a, b, c \in LockProcs :
             b \in lockWait'[a] /\ c \in lockWait'[b] /\ NextKey(b) = NextKey(a) => c \in lockWait'[a]
      <3> SUFFICES ASSUME NEW a \in LockProcs, NEW b \in LockProcs, NEW c \in LockProcs,
                          b \in lockWait'[a], c \in lockWait'[b], NextKey(b) = NextKey(a)
                   PROVE  c \in lockWait'[a]
        OBVIOUS
      <3>1. b # a
        BY <2>2
      <3>2. CASE a = p
        <4>1. b \in lockAhead[k] /\ c \in lockWait[b]
          BY <1>2, <3>1, <3>2 DEF LockInv, LockTypeOK
        <4>2. Wants(b, k)
          BY <3>2, <4>1 DEF LockInv, WaitsBehind, Wants, k
        <4>3. c \in lockAhead[k]
          BY <1>1, <4>1, <4>2 DEF LockInv, WaitsBehind
        <4> QED
          BY <1>2, <3>2, <4>3 DEF LockInv, LockTypeOK
      <3>3. CASE a # p
        <4>1. b \in lockWait[a]
          BY <1>2, <3>3 DEF LockInv, LockTypeOK
        <4>2. b # p
          <5> SUFFICES ASSUME b = p PROVE FALSE
            OBVIOUS
          <5>1. InChain(p, k)
            BY <4>1 DEF LockInv, WaitsBehind, k
          <5> QED
            BY <5>1, <1>6
        <4>3. c \in lockWait[b]
          BY <1>2, <4>2 DEF LockInv, LockTypeOK
        <4>4. c \in lockWait[a]
          BY <4>1, <4>3 DEF LockInv, WaitsBehind
        <4> QED
          BY <1>2, <3>3, <4>4 DEF LockInv, LockTypeOK
      <3> QED
        BY <3>2, <3>3
    <2>5. \A q \in LockProcs : NextKey(q)' = NextKey(q)
      BY <1>5
    <2> QED
      BY <2>1, <2>2, <2>3, <2>4, <2>5 DEF WaitsBehind
  <1>11. LocksExclude'
    BY <1>2 DEF LockInv, LocksExclude
  <1>12. EndedHoldsNothing'
    BY <1>0, <1>1, <1>2 DEF LockInv, LockTypeOK, EndedHoldsNothing
  <1> QED
    BY <1>3, <1>4, <1>9, <1>10, <1>11, <1>12 DEF LockInv

(* The chain in front of a caller is gone and it runs under the key. *)
LEMMA GrantKeeps ==
  ASSUME LockInv, NEW p \in LockProcs, LocalGranted(p)
  PROVE  LockInv'
  <1> DEFINE k == NextKey(p)
  <1>0. lockPlan[p] # <<>> /\ lockPhase[p] = "queued" /\ lockBackend = "local"
    BY DEF LocalGranted, LockInv, LockTypeOK, PlansAscend
  <1>1. /\ k \in LockKeys /\ k = lockPlan[p][1] /\ 1 \in DOMAIN lockPlan[p]
        /\ Tail(lockPlan[p]) \in Seq(LockKeys) /\ k \notin lockHeld[p]
        /\ \A i \in DOMAIN Tail(lockPlan[p]) :
               i + 1 \in DOMAIN lockPlan[p] /\ Tail(lockPlan[p])[i] = lockPlan[p][i + 1]
    BY <1>0, NextKeyIs
  <1> HIDE DEF k
  <1>2. /\ lockHeld' = [lockHeld EXCEPT ![p] = @ \cup {k}]
        /\ lockPlan' = [lockPlan EXCEPT ![p] = Tail(@)]
        /\ lockPhase' = [lockPhase EXCEPT ![p] = "acquiring"]
        /\ lockWait[p] = {}
        /\ UNCHANGED <<lockBackend, lockWait, lockAhead, lockTail, lockGaveUp>>
    BY DEF LocalGranted, TakeKey, k
  <1>3. LockTypeOK'
    BY <1>1, <1>2 DEF LockInv, LockTypeOK
  <1>4. PlansAscend'
    BY <1>0, <1>1, <1>2 DEF LockInv, LockTypeOK, PlansAscend, Ascending
  <1>5. /\ \A q \in LockProcs \ {p} : NextKey(q)' = NextKey(q)
        /\ \A j : ~Wants(p, j)' /\ (Wants(p, j) <=> j = k)
        /\ \A q \in LockProcs \ {p} : \A j : Wants(q, j)' <=> Wants(q, j)
    BY <1>0, <1>2 DEF LockInv, LockTypeOK, Wants, NextKey, k
  <1>6. \A q \in LockProcs : \A j : InChain(q, j)' <=> InChain(q, j)
    BY <1>2, <1>5 DEF LockInv, LockTypeOK, InChain
  <1>7. Chained'
    <2> SUFFICES ASSUME NEW j \in LockKeys \ lockGaveUp, NEW a \in LockProcs, NEW b \in LockProcs
                 PROVE  /\ InChain(a, j)' => a \in lockAhead[j]
                        /\ a # b /\ Wants(a, j)' /\ InChain(b, j)' =>
                             b \in lockWait[a] \/ (Wants(b, j)' /\ a \in lockWait[b])
                        /\ a # b /\ lockTail[j] = a /\ InChain(b, j)' => Wants(a, j)' /\ b \in lockWait[a]
      BY <1>2 DEF Chained
    <2>1. /\ InChain(a, j) => a \in lockAhead[j]
          /\ a # b /\ Wants(a, j) /\ InChain(b, j) => b \in lockWait[a] \/ (Wants(b, j) /\ a \in lockWait[b])
          /\ a # b /\ lockTail[j] = a /\ InChain(b, j) => Wants(a, j) /\ b \in lockWait[a]
      BY <1>0 DEF LockInv, Chained
    <2> QED
      BY <1>2, <1>5, <1>6, <2>1
  <1>8. WaitsBehind'
    <2>1. \A q \in LockProcs : lockWait'[q] # {} => lockPhase'[q] = "queued"
      BY <1>2 DEF LockInv, LockTypeOK, WaitsBehind
    <2>2. \A a, b \in LockProcs : b \in lockWait'[a] => b # a /\ InChain(b, NextKey(a))'
      <3> SUFFICES ASSUME NEW a \in LockProcs, NEW b \in LockProcs, b \in lockWait'[a]
                   PROVE  b # a /\ InChain(b, NextKey(a))'
        OBVIOUS
      <3>1. a # p /\ b \in lockWait[a] /\ NextKey(a)' = NextKey(a)
        BY <1>2, <1>5
      <3>2. b # a /\ InChain(b, NextKey(a))
        BY <3>1 DEF LockInv, WaitsBehind
      <3>3. \A j : InChain(b, j) => (j \in lockHeld'[b] \/ (lockPhase'[b] = "queued" /\ NextKey(b)' = j))
        BY <1>6 DEF InChain, Wants
      <3> QED
        BY <3>1, <3>2, <3>3 DEF InChain, Wants
    <2>3. \A j \in LockKeys, q \in LockProcs : q \in lockAhead'[j] =>
             InChain(q, j)' /\ (Wants(q, j)' => lockWait'[q] \subseteq lockAhead'[j])
      BY <1>2, <1>5, <1>6 DEF LockInv, WaitsBehind
    <2>4. \A a, b, c \in LockProcs :
             b \in lockWait'[a] /\ c \in lockWait'[b] /\ NextKey(b)' = NextKey(a)' => c \in lockWait'[a]
      BY <1>2, <1>5 DEF LockInv, WaitsBehind
    <2> QED
      BY <2>1, <2>2, <2>3, <2>4 DEF WaitsBehind
  <1>9. LocksExclude'
    <2>1. ASSUME NEW q \in LockProcs \ {p}, k \in lockHeld[q] PROVE k \in lockGaveUp
      <3>1. ~Wants(q, k)
        <4> SUFFICES ASSUME Wants(q, k) PROVE FALSE
          OBVIOUS
        <4>1. lockPlan[q] # <<>>
          BY DEF Wants, LockInv, PlansAscend
        <4>2. NextKey(q) \notin lockHeld[q]
          BY <4>1, NextKeyIs
        <4> QED
          BY <2>1, <4>2 DEF Wants
      <3>2. Wants(p, k) /\ InChain(q, k)
        BY <1>5, <2>1 DEF InChain
      <3> QED
        BY <1>0, <1>1, <1>2, <3>1, <3>2 DEF LockInv, Chained
    <2> QED
      BY <1>2, <2>1 DEF LockInv, LockTypeOK, LocksExclude
  <1>10. EndedHoldsNothing'
    BY <1>0, <1>2 DEF LockInv, LockTypeOK, EndedHoldsNothing
  <1> QED
    BY <1>3, <1>4, <1>7, <1>8, <1>9, <1>10 DEF LockInv

(* A handler ends, or times out on the key it gives up: it leaves every    *)
(* chain, and only the chain of that key loses its tail under others.      *)
LEMMA ReleaseKeeps ==
  ASSUME LockInv, NEW p \in LockProcs, ReleaseAll(p), UNCHANGED lockBackend,
         lockGaveUp \subseteq lockGaveUp', lockGaveUp' \subseteq LockKeys,
         lockPhase[p] = "queued" => NextKey(p) \in lockGaveUp'
  PROVE  LockInv'
  <1>1. /\ lockHeld' = [lockHeld EXCEPT ![p] = {}]
        /\ lockPlan' = [lockPlan EXCEPT ![p] = <<>>]
        /\ lockPhase' = [lockPhase EXCEPT ![p] = "idle"]
        /\ \A q \in LockProcs : lockWait'[q] = IF q = p THEN {} ELSE lockWait[q] \ {p}
        /\ \A k \in LockKeys : lockAhead'[k] = IF lockTail[k] = p THEN {} ELSE lockAhead[k] \ {p}
        /\ \A k \in LockKeys : lockTail'[k] = IF lockTail[k] = p THEN NoProc ELSE lockTail[k]
    BY DEF ReleaseAll
  <1>2. LockTypeOK'
    BY DEF LockInv, LockTypeOK, ReleaseAll
  <1>3. /\ \A q \in LockProcs \ {p} : NextKey(q)' = NextKey(q)
        /\ \A j : ~Wants(p, j)'
        /\ \A q \in LockProcs \ {p} : \A j : Wants(q, j)' <=> Wants(q, j)
    BY <1>1 DEF LockInv, LockTypeOK, Wants, NextKey
  <1>4. \A j : ~InChain(p, j)' /\ \A q \in LockProcs \ {p} : InChain(q, j)' <=> InChain(q, j)
    BY <1>1, <1>3 DEF LockInv, LockTypeOK, InChain
  <1>5. PlansAscend'
    BY <1>1 DEF LockInv, LockTypeOK, PlansAscend, Ascending
  <1>6. Chained'
    <2> SUFFICES ASSUME lockBackend = "local", NEW j \in LockKeys \ lockGaveUp',
                        NEW a \in LockProcs, NEW b \in LockProcs
                 PROVE  /\ InChain(a, j)' => a \in lockAhead'[j]
                        /\ a # b /\ Wants(a, j)' /\ InChain(b, j)' =>
                             b \in lockWait'[a] \/ (Wants(b, j)' /\ a \in lockWait'[b])
                        /\ a # b /\ lockTail'[j] = a /\ InChain(b, j)' => Wants(a, j)' /\ b \in lockWait'[a]
      BY DEF Chained
    <2>1. /\ InChain(a, j) => a \in lockAhead[j]
          /\ a # b /\ Wants(a, j) /\ InChain(b, j) => b \in lockWait[a] \/ (Wants(b, j) /\ a \in lockWait[b])
          /\ a # b /\ lockTail[j] = a /\ InChain(b, j) => Wants(a, j) /\ b \in lockWait[a]
          /\ p # a /\ lockTail[j] = p /\ InChain(a, j) => Wants(p, j)
      BY DEF LockInv, Chained
    <2>2. ~Wants(p, j)
      BY DEF Wants
    <2>3. InChain(a, j)' => a # p /\ InChain(a, j) /\ lockTail[j] # p
      BY <1>4, <2>1, <2>2
    <2>4. lockTail'[j] = a => a # p /\ lockTail[j] = a
      BY <1>1, LockAssumption
    <2> QED
      BY <1>1, <1>3, <1>4, <2>1, <2>3, <2>4
  <1>7. WaitsBehind'
    <2>1. \A q \in LockProcs : lockWait'[q] # {} => lockPhase'[q] = "queued"
      BY <1>1 DEF LockInv, LockTypeOK, WaitsBehind
    <2>2. \A a, b \in LockProcs : b \in lockWait'[a] => b # a /\ InChain(b, NextKey(a))'
      <3> SUFFICES ASSUME NEW a \in LockProcs, NEW b \in LockProcs, b \in lockWait'[a]
                   PROVE  b # a /\ InChain(b, NextKey(a))'
        OBVIOUS
      <3>1. a # p /\ b # p /\ b \in lockWait[a] /\ NextKey(a)' = NextKey(a)
        BY <1>1, <1>3
      <3>2. b # a /\ InChain(b, NextKey(a))
        BY <3>1 DEF LockInv, WaitsBehind
      <3>3. \A j : InChain(b, j) => (j \in lockHeld'[b] \/ (lockPhase'[b] = "queued" /\ NextKey(b)' = j))
        BY <1>4, <3>1 DEF InChain, Wants
      <3> QED
        BY <3>1, <3>2, <3>3 DEF InChain, Wants
    <2>3. \A j \in LockKeys, q \in LockProcs : q \in lockAhead'[j] =>
             InChain(q, j)' /\ (Wants(q, j)' => lockWait'[q] \subseteq lockAhead'[j])
      <3> SUFFICES ASSUME NEW j \in LockKeys, NEW q \in LockProcs, q \in lockAhead'[j]
                   PROVE  InChain(q, j)' /\ (Wants(q, j)' => lockWait'[q] \subseteq lockAhead'[j])
        OBVIOUS
      <3>1. q # p /\ q \in lockAhead[j] /\ lockAhead'[j] = lockAhead[j] \ {p}
        BY <1>1
      <3>2. InChain(q, j) /\ (Wants(q, j) => lockWait[q] \subseteq lockAhead[j])
        BY <3>1 DEF LockInv, WaitsBehind
      <3> QED
        BY <1>1, <1>3, <1>4, <3>1, <3>2
    <2>4. \A a, b, c \in LockProcs :
             b \in lockWait'[a] /\ c \in lockWait'[b] /\ NextKey(b)' = NextKey(a)' => c \in lockWait'[a]
      <3> SUFFICES ASSUME NEW a \in LockProcs, NEW b \in LockProcs, NEW c \in LockProcs,
                          b \in lockWait'[a], c \in lockWait'[b], NextKey(b)' = NextKey(a)'
                   PROVE  c \in lockWait'[a]
        OBVIOUS
      <3>1. /\ a # p /\ b # p /\ c # p /\ b \in lockWait[a] /\ c \in lockWait[b]
            /\ NextKey(b)' = NextKey(b) /\ NextKey(a)' = NextKey(a)
        BY <1>1, <1>3
      <3>2. c \in lockWait[a]
        BY <3>1 DEF LockInv, WaitsBehind
      <3> QED
        BY <1>1, <3>1, <3>2
    <2> QED
      BY <2>1, <2>2, <2>3, <2>4 DEF WaitsBehind
  <1>8. LocksExclude'
    BY <1>1 DEF LockInv, LockTypeOK, LocksExclude
  <1>9. EndedHoldsNothing'
    <2> SUFFICES ASSUME NEW q \in LockProcs, lockPhase'[q] = "idle"
                 PROVE  /\ lockHeld'[q] = {}
                        /\ \A k \in LockKeys : q \notin lockAhead'[k]
                        /\ \A r \in LockProcs : q \notin lockWait'[r]
      BY DEF EndedHoldsNothing
    <2>1. CASE q = p
      BY <1>1, <2>1 DEF LockInv, LockTypeOK
    <2>2. CASE q # p
      <3>1. lockHeld'[q] = lockHeld[q] /\ lockPhase[q] = "idle"
        BY <1>1, <2>2 DEF LockInv, LockTypeOK
      <3>2. /\ lockHeld[q] = {} /\ \A k \in LockKeys : q \notin lockAhead[k]
            /\ \A r \in LockProcs : q \notin lockWait[r]
        BY <3>1 DEF LockInv, EndedHoldsNothing
      <3> QED
        BY <1>1, <3>1, <3>2
    <2> QED
      BY <2>1, <2>2
  <1> QED
    BY <1>2, <1>5, <1>6, <1>7, <1>8, <1>9 DEF LockInv

(* Nobody has a key at the start. *)
LEMMA LockInitInv == LockInit => LockInv
  <1> SUFFICES ASSUME LockInit PROVE LockInv
    OBVIOUS
  <1>1. LockTypeOK
    BY DEF LockInit, LockTypeOK
  <1>2. LocksExclude /\ EndedHoldsNothing /\ PlansAscend
    BY DEF LockInit, LocksExclude, EndedHoldsNothing, PlansAscend, Ascending
  <1>3. \A p \in LockProcs : \A k : ~InChain(p, k) /\ ~Wants(p, k)
    BY DEF LockInit, InChain, Wants
  <1>4. Chained /\ WaitsBehind
    BY <1>3 DEF LockInit, Chained, WaitsBehind
  <1> QED
    BY <1>1, <1>2, <1>4 DEF LockInv

(* Every step of every handler keeps the invariant of the locks. *)
LEMMA LockStep ==
  ASSUME LockInv, [LockNext]_lockVars
  PROVE  LockInv'
  <1>1. CASE UNCHANGED lockVars
    BY <1>1 DEF lockVars, LockInv, LockTypeOK, LocksExclude, EndedHoldsNothing, PlansAscend, Ascending,
       Chained, WaitsBehind, InChain, Wants, NextKey
  <1>2. ASSUME NEW p \in LockProcs, NEW plan \in LockPlans, BeginHandler(p, plan) PROVE LockInv'
    BY <1>2, BeginKeeps
  <1>3. ASSUME NEW p \in LockProcs, PgAcquire(p) \/ LocalEnqueue(p) \/ LocalGranted(p) PROVE LockInv'
    BY <1>3, PgAcquireKeeps, EnqueueKeeps, GrantKeeps
  <1>4. ASSUME NEW p \in LockProcs, FinishTask(p) PROVE LockInv'
    <2>1. lockGaveUp' = lockGaveUp /\ lockGaveUp \subseteq LockKeys /\ lockPhase[p] = "acquiring"
      BY <1>4 DEF FinishTask, LockInv, LockTypeOK
    <2> QED
      BY <1>4, <2>1, ReleaseKeeps DEF FinishTask
  <1>5. ASSUME NEW p \in LockProcs, PgTimeout(p) PROVE LockInv'
    <2>1. lockGaveUp' = lockGaveUp /\ lockGaveUp \subseteq LockKeys /\ lockPhase[p] = "acquiring"
      BY <1>5 DEF PgTimeout, Acquiring, LockInv, LockTypeOK
    <2> QED
      BY <1>5, <2>1, ReleaseKeeps DEF PgTimeout
  <1>6. ASSUME NEW p \in LockProcs, LocalTimeout(p) PROVE LockInv'
    <2>1. lockPlan[p] # <<>>
      BY <1>6 DEF LocalTimeout, LockInv, PlansAscend
    <2>2. NextKey(p) \in LockKeys
      BY <2>1, NextKeyIs
    <2>3. lockGaveUp' = lockGaveUp \cup {NextKey(p)} /\ lockGaveUp \subseteq LockKeys
      BY <1>6 DEF LocalTimeout, LockInv, LockTypeOK
    <2> QED
      BY <1>6, <2>2, <2>3, ReleaseKeeps DEF LocalTimeout
  <1> QED
    BY <1>1, <1>2, <1>3, <1>4, <1>5, <1>6 DEF LockNext

(* The chains and nestings of the locks, in every state. *)
THEOREM LockInvHolds == LockSpec => []LockInv
  <1>1. LockInv /\ [LockNext]_lockVars => LockInv'
    BY LockStep
  <1> QED
    BY <1>1, LockInitInv, PTL DEF LockSpec

(* Two handlers run under one key only after some caller timed out on it   *)
(* in the process; whoever ended or timed out holds and blocks nothing     *)
(* (usage-lock.utils.ts).                                                  *)
THEOREM LockInvariantHolds == LockSpec => []LockInvariant
  <1>1. LockInv => LockInvariant
    BY DEF LockInv, LockInvariant
  <1> QED
    BY <1>1, LockInvHolds, PTL

(* Below is a strict order on handlers that contains waiting: who has keys *)
(* left is below who has none or wants a later key, and on the same key    *)
(* below those in front of it.                                             *)
Below(p, q) ==
    /\ lockPlan[p] # <<>>
    /\ \/ lockPlan[q] = <<>>
       \/ Order(NextKey(p)) < Order(NextKey(q))
       \/ NextKey(p) = NextKey(q) /\ q \in lockWait[p]

(* Whoever waits for a process is below it. *)
LEMMA WaitingIsBelow ==
  ASSUME LockInv, NEW p \in LockProcs, NEW q \in LockProcs, p # q, WaitsFor(p, q)
  PROVE  Below(p, q)
  <1>1. lockPlan[p] # <<>>
    BY DEF WaitsFor, Acquiring, LockInv, WaitsBehind, PlansAscend
  <1>2. ASSUME NextKey(p) \in lockHeld[q], lockPlan[q] # <<>>
        PROVE  Order(NextKey(p)) < Order(NextKey(q))
    BY <1>2, NextKeyIs DEF LockInv, PlansAscend
  <1>3. CASE q \in lockWait[p]
    BY <1>1, <1>2, <1>3 DEF Below, LockInv, WaitsBehind, InChain, Wants
  <1> QED
    BY <1>1, <1>2, <1>3 DEF Below, WaitsFor

(* Below is a strict order, so it has no cycle. *)
LEMMA BelowIsOrder ==
  ASSUME LockInv
  PROVE  /\ \A p \in LockProcs : ~Below(p, p)
         /\ \A p, q, r \in LockProcs : Below(p, q) /\ Below(q, r) => Below(p, r)
  <1>1. \A p \in LockProcs : lockPlan[p] # <<>> => Order(NextKey(p)) \in Nat
    BY NextKeyIs, OrderIsNat
  <1>2. \A p \in LockProcs : p \notin lockWait[p]
    BY DEF LockInv, WaitsBehind
  <1>3. \A p \in LockProcs : ~Below(p, p)
    BY <1>1, <1>2 DEF Below
  <1>4. ASSUME NEW p \in LockProcs, NEW q \in LockProcs, NEW r \in LockProcs, Below(p, q), Below(q, r)
        PROVE  Below(p, r)
    <2>1. CASE lockPlan[r] = <<>>
      BY <1>4, <2>1 DEF Below
    <2>2. CASE lockPlan[r] # <<>>
      <3>1. /\ Order(NextKey(p)) \in Nat /\ Order(NextKey(q)) \in Nat /\ Order(NextKey(r)) \in Nat
            /\ lockPlan[p] # <<>> /\ lockPlan[q] # <<>>
        BY <1>1, <1>4, <2>2 DEF Below
      <3>2. CASE NextKey(p) = NextKey(q) /\ q \in lockWait[p] /\ NextKey(q) = NextKey(r) /\ r \in lockWait[q]
        BY <3>1, <3>2 DEF Below, LockInv, WaitsBehind
      <3>3. CASE Order(NextKey(p)) < Order(NextKey(r))
        BY <3>1, <3>3 DEF Below
      <3> QED
        BY <1>4, <2>2, <3>1, <3>2, <3>3 DEF Below
    <2> QED
      BY <2>1, <2>2
  <1> QED
    BY <1>3, <1>4

(* Ranking each handler by how many are above it shows there is no cycle. *)
LEMMA NoCycleFromOrder ==
  ASSUME LockInv
  PROVE  NoWaitCycle
  <1> DEFINE above(p) == {q \in LockProcs : Below(p, q)}
             rank == [p \in LockProcs |-> Cardinality(above(p)) + 1]
  <1>1. ASSUME NEW p \in LockProcs
        PROVE  /\ IsFiniteSet(above(p)) /\ Cardinality(above(p)) \in Nat
               /\ Cardinality(above(p)) < Cardinality(LockProcs) /\ Cardinality(LockProcs) \in Nat
    <2>1. above(p) \in SUBSET LockProcs /\ p \notin above(p)
      BY BelowIsOrder
    <2> HIDE DEF above
    <2>2. /\ IsFiniteSet(above(p)) /\ Cardinality(above(p)) <= Cardinality(LockProcs)
          /\ Cardinality(LockProcs) = Cardinality(above(p)) => LockProcs = above(p)
      BY <2>1, FS_Subset, LockAssumption
    <2>3. Cardinality(above(p)) \in Nat /\ Cardinality(LockProcs) \in Nat
      BY <2>2, FS_CardinalityType, LockAssumption
    <2> QED
      BY <2>1, <2>2, <2>3
  <1>2. rank \in [LockProcs -> 1..Cardinality(LockProcs)]
    <2> HIDE DEF above
    <2> QED
      BY <1>1
  <1>3. ASSUME NEW p \in LockProcs, NEW q \in LockProcs, p # q, WaitsFor(p, q)
        PROVE  rank[q] < rank[p]
    <2>1. above(q) \in SUBSET above(p) /\ q \in above(p) /\ q \notin above(q)
      BY <1>3, WaitingIsBelow, BelowIsOrder
    <2> HIDE DEF above
    <2>2. /\ Cardinality(above(q)) <= Cardinality(above(p))
          /\ Cardinality(above(p)) = Cardinality(above(q)) => above(p) = above(q)
      BY <1>1, <2>1, FS_Subset
    <2> QED
      BY <1>1, <2>1, <2>2
  <1> HIDE DEF rank
  <1> QED
    BY <1>2, <1>3 DEF NoWaitCycle

(* No handlers wait for each other in a circle, for any number of handlers *)
(* and subscriptions and on both backends: progress never depends on a     *)
(* lock's deadline.                                                        *)
THEOREM NoWaitCycleHolds == LockSpec => []NoWaitCycle
  <1>1. LockInv => NoWaitCycle
    BY NoCycleFromOrder
  <1> QED
    BY <1>1, LockInvHolds, PTL

-----------------------------------------------------------------------------
(* The leases.                                                             *)

LeaseRecords  == [status : {"none", "active", "evicted", "revoked"}, age : {"live", "lapsed"}]
WorkerRecords == [key : JobKeys \cup {"none"}, todo : SUBSET LeaseIds,
                  step : {"idle", "scan", "revoke"}, attached : BOOLEAN]
RequestRecords == [op : {"idle", "connect"}, limit : 0..MaxLimit]

LeaseTyped ==
    /\ LeaseTypeOK /\ worker \in [Workers -> WorkerRecords]
    /\ leaseRequest \in [LeaseProcs -> RequestRecords] /\ limitOwed \in BOOLEAN

(* connect() holds the user's lock until its lease is written. *)
OneConnects ==
    \A p, q \in LeaseProcs :
        leaseRequest[p].op = "connect" /\ leaseRequest[q].op = "connect" => p = q

Connecting == \E p \in LeaseProcs : leaseRequest[p].op = "connect"

(* What an eviction could see: the sessions that never lapsed, and the     *)
(* place a connect has made for its own.                                   *)
Steady == Counted \ renewedLate
PlaceKept ==
    ~limitOwed => Cardinality(Steady) <= limit /\ (Connecting => Cardinality(Steady) < limit)

LeaseInv == LeaseTyped /\ OneConnects /\ PlaceKept

(* Revoking ends active leases and changes no other. *)
LEMMA RevokeIs ==
  ASSUME LeaseTypeOK, NEW L, NEW status \in {"evicted", "revoked"}
  PROVE  /\ Revoke(L, status) \in [LeaseIds -> LeaseRecords]
         /\ \A l \in LeaseIds : lease[l].status # "active" => Revoke(L, status)[l] = lease[l]
         /\ \A l \in LeaseIds : Revoke(L, status)[l] = lease[l] \/ Revoke(L, status)[l].status = status
         /\ \A l \in L \cap Counted : Revoke(L, status)[l].status = status
  BY DEF Revoke, LeaseRecords, LeaseTypeOK, Counted

(* Counted leases are a finite set. *)
LEMMA CountedFinite ==
  /\ IsFiniteSet(Counted) /\ Cardinality(Counted) \in Nat
  /\ IsFiniteSet(Steady) /\ Cardinality(Steady) \in Nat
  /\ Cardinality(Steady) <= Cardinality(Counted)
  <1>1. Counted \in SUBSET LeaseIds
    BY DEF Counted
  <1>2. Steady \in SUBSET Counted
    BY DEF Steady
  <1>3. IsFiniteSet(Counted)
    BY <1>1, FS_Subset, LeaseAssumption
  <1> QED
    BY <1>2, <1>3, FS_Subset, FS_CardinalityType

(* Evicting leaves at most max sessions, less the one reserved. *)
LEMMA EvictedLeaves ==
  ASSUME LeaseTypeOK, NEW max \in 1..MaxLimit, NEW reserved \in {0, 1}, lease' \in Evicted(max, reserved)
  PROVE  /\ lease' \in [LeaseIds -> LeaseRecords]
         /\ \A l \in LeaseIds : lease[l].status # "active" => lease'[l] = lease[l]
         /\ Counted' \subseteq Counted
         /\ Cardinality(Counted') <= max - reserved
  <1> DEFINE n == Cardinality(Counted) - max + reserved
  <1>1. PICK V \in SUBSET Counted : Cardinality(V) = (IF n > 0 THEN n ELSE 0) /\ lease' = Revoke(V, "evicted")
    BY DEF Evicted
  <1>2. Counted' = Counted \ V
    <2>1. \A l \in LeaseIds : lease'[l] = lease[l] \/ lease'[l].status = "evicted"
      BY <1>1, RevokeIs
    <2>2. \A l \in V : lease'[l].status = "evicted"
      BY <1>1, RevokeIs
    <2>3. \A l \in LeaseIds \ V : lease'[l] = lease[l]
      BY <1>1 DEF Revoke
    <2> QED
      BY <2>1, <2>2, <2>3, <1>1 DEF Counted
  <1>3. IsFiniteSet(Counted) /\ Cardinality(Counted) \in Nat /\ max \in Nat
    BY CountedFinite, LeaseAssumption
  <1>4. Cardinality(Counted \ V) = Cardinality(Counted) - Cardinality(V)
    <2>1. Counted \cap V = V
      BY <1>1
    <2> QED
      BY <1>3, <2>1, FS_Difference
  <1>5. lease' \in [LeaseIds -> LeaseRecords] /\ \A l \in LeaseIds : lease[l].status # "active" => lease'[l] = lease[l]
    BY <1>1, RevokeIs
  <1> QED
    BY <1>1, <1>2, <1>3, <1>4, <1>5

(* The types of the lease tables, step by step. *)
LEMMA LeaseTypeStep ==
  ASSUME LeaseTyped, [LeaseNext]_leaseVars
  PROVE  LeaseTyped'
  <1> USE DEF LeaseTyped
  <1>1. lease' \in [LeaseIds -> LeaseRecords]
    <2>1. \A L : Revoke(L, "revoked") \in [LeaseIds -> LeaseRecords]
      BY RevokeIs
    <2>2. ASSUME NEW p \in LeaseProcs, Connect(p) PROVE lease' \in [LeaseIds -> LeaseRecords]
      BY <2>2, EvictedLeaves DEF Connect, LeaseTypeOK
    <2>3. ASSUME NEW max \in 1..MaxLimit, EnforceLimit(max) PROVE lease' \in [LeaseIds -> LeaseRecords]
      BY <2>3, EvictedLeaves DEF EnforceLimit
    <2>4. ASSUME NEW p \in LeaseProcs, GrantLease(p) PROVE lease' \in [LeaseIds -> LeaseRecords]
      BY <2>4 DEF GrantLease, LeaseTypeOK, LeaseRecords
    <2>5. ASSUME NEW l \in LeaseIds, Lapse(l) \/ RenewLease(l) PROVE lease' \in [LeaseIds -> LeaseRecords]
      BY <2>5 DEF Lapse, RenewLease, LeaseTypeOK, LeaseRecords
    <2>6. CASE UNCHANGED lease \/ \E L : lease' = Revoke(L, "revoked")
      BY <2>1, <2>6 DEF LeaseTypeOK, LeaseRecords
    <2> QED
      BY <2>2, <2>3, <2>4, <2>5, <2>6
      DEF LeaseNext, leaseVars, Heartbeat, Disconnected, SweepExpired, BarUser, QueueRevocation, UnbarUser,
          SetLimit, ClaimJob, ScanLeases, RevokeNext, CompleteJob, TimeoutJob, CrashLeases
  <1> USE DEF LeaseNext, leaseVars, Connect, GrantLease, EnforceLimit, Lapse, Heartbeat, RenewLease,
          Disconnected, SweepExpired, BarUser, QueueRevocation, UnbarUser,
          SetLimit, ClaimJob, ScanLeases, RevokeNext, CompleteJob, TimeoutJob, CrashLeases
  <1>2. beating' \subseteq LeaseIds /\ renewedLate' \subseteq LeaseIds
    BY DEF LeaseTypeOK
  <1>3. limit' \in 1..MaxLimit
    BY DEF LeaseTypeOK
  <1>4. job' \in [JobKeys -> {"none", "pending", "running", "failed", "completed"}]
    <2>1. \A x : \A v \in {"pending", "running", "failed", "completed"} :
            [job EXCEPT ![x] = v] \in [JobKeys -> {"none", "pending", "running", "failed", "completed"}]
      BY DEF LeaseTypeOK
    <2>2. job' = job \/ \E x : \E v \in {"pending", "running", "failed", "completed"} : job' = [job EXCEPT ![x] = v]
      OBVIOUS
    <2> QED
      BY <2>1, <2>2 DEF LeaseTypeOK
  <1>5. worker' \in [Workers -> WorkerRecords]
    <2>1. NoJob \in WorkerRecords /\ Counted \in SUBSET LeaseIds
      BY DEF NoJob, WorkerRecords, Counted
    <2>2. \A key \in JobKeys : [key |-> key, todo |-> {}, step |-> "scan", attached |-> TRUE] \in WorkerRecords
      BY DEF WorkerRecords
    <2>3. ASSUME NEW w \in Workers, ScanLeases(w) PROVE worker' \in [Workers -> WorkerRecords]
      <3>1. [worker[w] EXCEPT !.step = "revoke", !.todo = Counted] \in WorkerRecords
        BY <2>1 DEF WorkerRecords
      <3>2. worker' = [worker EXCEPT ![w] = [worker[w] EXCEPT !.step = "revoke", !.todo = Counted]]
        BY <2>3 DEF WorkerRecords
      <3> QED
        BY <3>1, <3>2
    <2>4. ASSUME NEW w \in Workers, RevokeNext(w) PROVE worker' \in [Workers -> WorkerRecords]
      <3>1. PICK l \in worker[w].todo : worker' = [worker EXCEPT ![w].todo = @ \ {l}]
        BY <2>4
      <3>2. [worker[w] EXCEPT !.todo = worker[w].todo \ {l}] \in WorkerRecords
        BY DEF WorkerRecords
      <3>3. worker' = [worker EXCEPT ![w] = [worker[w] EXCEPT !.todo = worker[w].todo \ {l}]]
        BY <3>1
      <3> QED
        BY <3>2, <3>3
    <2>5. ASSUME NEW w \in Workers, TimeoutJob(w) PROVE worker' \in [Workers -> WorkerRecords]
      <3>1. [worker[w] EXCEPT !.attached = FALSE] \in WorkerRecords
        BY DEF WorkerRecords
      <3>2. worker' = [worker EXCEPT ![w] = [worker[w] EXCEPT !.attached = FALSE]]
        BY <2>5 DEF WorkerRecords
      <3> QED
        BY <3>1, <3>2
    <2>6. ASSUME NEW w \in Workers, CompleteJob(w) \/ \E key \in JobKeys : ClaimJob(w, key)
          PROVE  worker' \in [Workers -> WorkerRecords]
      BY <2>1, <2>2, <2>6
    <2>7. CASE CrashLeases \/ UNCHANGED worker
      BY <2>1, <2>7
    <2> QED
      BY <2>3, <2>4, <2>5, <2>6, <2>7
  <1>6. leaseRequest' \in [LeaseProcs -> RequestRecords]
    <2>1. NoLeaseWork \in RequestRecords /\ [op |-> "connect", limit |-> limit] \in RequestRecords
      BY LeaseAssumption DEF NoLeaseWork, RequestRecords, LeaseTypeOK
    <2> QED
      BY <2>1
  <1>7. limitOwed' \in BOOLEAN
    OBVIOUS
  <1> QED
    BY <1>1, <1>2, <1>3, <1>4, <1>5, <1>6, <1>7 DEF LeaseTypeOK, LeaseRecords, WorkerRecords

(* A step after which no more sessions are steady and no connect is new    *)
(* keeps the place.                                                        *)
LEMMA PlaceKeeps ==
  ASSUME LeaseInv, LeaseTyped', Steady' \subseteq Steady, Connecting' => Connecting,
         ~limitOwed' => ~limitOwed /\ limit' >= limit
  PROVE  PlaceKept'
  <1>1. limit \in Nat /\ limit' \in Nat
    BY LeaseAssumption DEF LeaseInv, LeaseTyped, LeaseTypeOK
  <1>2. IsFiniteSet(Steady) /\ Cardinality(Steady) \in Nat
    BY CountedFinite
  <1>3. Cardinality(Steady') <= Cardinality(Steady) /\ Cardinality(Steady') \in Nat
    BY <1>2, FS_Subset, FS_CardinalityType
  <1> QED
    BY <1>1, <1>2, <1>3 DEF LeaseInv, PlaceKept

(* Every step of requests, sweeper and workers keeps the invariant of the leases. *)
LEMMA LeaseStep ==
  ASSUME LeaseInv, [LeaseNext]_leaseVars
  PROVE  LeaseInv'
  <1>0. LeaseTyped' /\ LeaseTyped /\ LeaseTypeOK
    BY LeaseTypeStep DEF LeaseInv, LeaseTyped
  <1>1. OneConnects'
    <2>1. ASSUME NEW p \in LeaseProcs, Connect(p) PROVE OneConnects'
      BY <1>0, <2>1 DEF Connect, LeaseLockFree, NoLeaseWork, OneConnects, LeaseTyped, RequestRecords
    <2>2. ASSUME NEW p \in LeaseProcs, GrantLease(p) PROVE OneConnects'
      BY <1>0, <2>2 DEF GrantLease, NoLeaseWork, LeaseInv, OneConnects, LeaseTyped, RequestRecords
    <2>3. CASE CrashLeases
      BY <2>3 DEF CrashLeases, NoLeaseWork, OneConnects
    <2>4. CASE UNCHANGED leaseRequest
      BY <2>4 DEF LeaseInv, OneConnects
    <2> QED
      BY <2>1, <2>2, <2>3, <2>4
      DEF LeaseNext, leaseVars, EnforceLimit, Lapse, Heartbeat, RenewLease,
          Disconnected, SweepExpired, BarUser, QueueRevocation, UnbarUser,
          SetLimit, ClaimJob, ScanLeases, RevokeNext, CompleteJob, TimeoutJob
  <1>2. \A L : lease' = Revoke(L, "revoked") => Counted' \subseteq Counted
    <2>1. \A L : \A l \in LeaseIds : Revoke(L, "revoked")[l] = lease[l] \/ Revoke(L, "revoked")[l].status = "revoked"
      BY <1>0, RevokeIs
    <2> QED
      BY <2>1 DEF Counted
  <1>3. limit \in Nat /\ limit' \in Nat /\ limit # 0 /\ limit' # 0
    BY <1>0, LeaseAssumption DEF LeaseTyped, LeaseTypeOK
  <1>4. ASSUME NEW p \in LeaseProcs, Connect(p) PROVE PlaceKept'
    <2>1. Cardinality(Counted') <= limit - 1 /\ limit' = limit
      BY <1>0, <1>4, EvictedLeaves DEF Connect, LeaseTypeOK
    <2>2. Steady' \in SUBSET Counted' /\ Counted' \in SUBSET LeaseIds
      BY DEF Steady, Counted
    <2>3. IsFiniteSet(Counted') /\ Cardinality(Steady') <= Cardinality(Counted')
          /\ Cardinality(Counted') \in Nat /\ Cardinality(Steady') \in Nat
      BY <2>2, FS_Subset, FS_CardinalityType, LeaseAssumption
    <2> QED
      BY <1>3, <2>1, <2>3 DEF PlaceKept
  <1>5. ASSUME NEW max \in 1..MaxLimit, EnforceLimit(max) PROVE PlaceKept'
    <2>1. Cardinality(Counted') <= max /\ limit' = limit /\ Counted' \subseteq Counted /\ max \in Nat
      BY <1>0, <1>5, EvictedLeaves, LeaseAssumption DEF EnforceLimit
    <2>2. Steady' \subseteq Steady
      BY <1>5, <2>1 DEF Steady, EnforceLimit
    <2>3. Connecting' <=> Connecting
      BY <1>5 DEF EnforceLimit, Connecting
    <2>4. ~Connecting
      BY <1>5 DEF EnforceLimit, LeaseLockFree, Connecting, NoLeaseWork
    <2>5. CASE max > limit
      BY <1>0, <1>5, <1>3, <2>1, <2>2, <2>3, <2>5, PlaceKeeps DEF EnforceLimit, LeaseTyped
    <2>6. CASE ~(max > limit)
      <3>1. Steady' \in SUBSET Counted' /\ Counted' \in SUBSET LeaseIds
        BY DEF Steady, Counted
      <3>2. Cardinality(Steady') <= Cardinality(Counted') /\ Cardinality(Counted') \in Nat /\ Cardinality(Steady') \in Nat
        BY <3>1, FS_Subset, FS_CardinalityType, LeaseAssumption
      <3> QED
        BY <1>3, <2>1, <2>3, <2>4, <2>6, <3>2 DEF PlaceKept
    <2> QED
      BY <2>5, <2>6
  <1>6. ASSUME NEW p \in LeaseProcs, GrantLease(p) PROVE PlaceKept'
    <2>1. PICK l \in LeaseIds : lease' = [lease EXCEPT ![l].status = "active"]
      BY <1>6 DEF GrantLease
    <2>2. Steady' \in SUBSET (Steady \cup {l}) /\ renewedLate' = renewedLate
      BY <1>0, <1>6, <2>1 DEF GrantLease, Steady, Counted, LeaseTypeOK
    <2>3. Connecting /\ ~Connecting'
      BY <1>0, <1>6 DEF GrantLease, Connecting, LeaseInv, OneConnects, LeaseTyped, RequestRecords, NoLeaseWork
    <2>4. IsFiniteSet(Steady) /\ Cardinality(Steady) \in Nat
      BY CountedFinite
    <2>5. IsFiniteSet(Steady \cup {l}) /\ Cardinality(Steady \cup {l}) <= Cardinality(Steady) + 1
      <3>1. IsFiniteSet(Steady \cup {l})
            /\ Cardinality(Steady \cup {l}) = IF l \in Steady THEN Cardinality(Steady) ELSE Cardinality(Steady) + 1
        BY <2>4, FS_AddElement
      <3> QED
        BY <2>4, <3>1
    <2>6. Cardinality(Steady') <= Cardinality(Steady \cup {l}) /\ Cardinality(Steady') \in Nat
          /\ Cardinality(Steady \cup {l}) \in Nat
      BY <2>2, <2>5, FS_Subset, FS_CardinalityType
    <2>7. limit' = limit /\ limitOwed' = limitOwed
      BY <1>6 DEF GrantLease
    <2> QED
      BY <1>3, <2>3, <2>4, <2>5, <2>6, <2>7 DEF PlaceKept, LeaseInv
  <1>7. ASSUME NEW l \in LeaseIds, RenewLease(l) PROVE PlaceKept'
    <2>1. Steady' \subseteq Steady
      BY <1>0, <1>7 DEF RenewLease, Steady, Counted, LeaseTypeOK
    <2> QED
      BY <1>0, <1>3, <1>7, <2>1, PlaceKeeps DEF RenewLease, Connecting
  <1>8. ASSUME NEW l \in LeaseIds, Lapse(l) PROVE PlaceKept'
    <2>1. Steady' \subseteq Steady
      BY <1>0, <1>8 DEF Lapse, Steady, Counted, LeaseTypeOK
    <2> QED
      BY <1>0, <1>3, <1>8, <2>1, PlaceKeeps DEF Lapse, Connecting
  <1>9. ASSUME UNCHANGED lease \/ \E L : lease' = Revoke(L, "revoked"),
               UNCHANGED <<renewedLate, limit, limitOwed>>,
               leaseRequest' \in {leaseRequest, [p \in LeaseProcs |-> NoLeaseWork]}
        PROVE  PlaceKept'
    <2>1. Counted' \subseteq Counted
      BY <1>2, <1>9 DEF Counted
    <2>2. Steady' \subseteq Steady
      BY <1>9, <2>1 DEF Steady
    <2>3. Connecting' => Connecting
      BY <1>9 DEF Connecting, NoLeaseWork
    <2> QED
      <3>1. ~limitOwed' => ~limitOwed
        BY <1>9
      <3>2. limit' >= limit
        BY <1>3, <1>9
      <3>3. ~limitOwed' => ~limitOwed /\ limit' >= limit
        BY <3>1, <3>2, Zenon
      <3> QED
        BY <1>0, <2>2, <2>3, <3>3, PlaceKeeps
  <1>10. ASSUME NEW max \in 1..MaxLimit, SetLimit(max) PROVE PlaceKept'
    <2>1. Steady' \subseteq Steady /\ (Connecting' => Connecting)
      BY <1>10 DEF SetLimit, Steady, Counted, Connecting
    <2>2. max \in Nat
      BY LeaseAssumption
    <2>3. ~limitOwed' => ~limitOwed /\ limit' >= limit
      <3>1. ~limitOwed' => ~limitOwed /\ ~(max < limit)
        BY <1>10, Zenon DEF SetLimit
      <3>2. limit' = max
        BY <1>10 DEF SetLimit
      <3> QED
        BY <1>3, <2>2, <3>1, <3>2
    <2> QED
      BY <1>0, <2>1, <2>3, PlaceKeeps
  <1>11. PlaceKept'
    <2>1. ASSUME NEW l \in LeaseIds, Heartbeat(l) \/ Disconnected(l) \/ SweepExpired(l) PROVE PlaceKept'
      BY <1>9, <2>1, Zenon DEF Heartbeat, Disconnected, SweepExpired
    <2>2. CASE UnbarUser \/ \E key \in JobKeys : BarUser(key) \/ QueueRevocation(key)
      BY <1>9, <2>2, Zenon DEF UnbarUser, BarUser, QueueRevocation
    <2>3. ASSUME NEW w \in Workers, \/ \E key \in JobKeys : ClaimJob(w, key)
                                    \/ ScanLeases(w) \/ CompleteJob(w) \/ TimeoutJob(w)
          PROVE  PlaceKept'
      BY <1>9, <2>3, Zenon DEF ClaimJob, ScanLeases, CompleteJob, TimeoutJob
    <2>4. ASSUME NEW w \in Workers, RevokeNext(w) PROVE PlaceKept'
      BY <1>9, <2>4, Zenon DEF RevokeNext
    <2>5. CASE CrashLeases \/ UNCHANGED leaseVars
      BY <1>9, <2>5, Zenon DEF CrashLeases, leaseVars
    <2> QED
      BY <1>4, <1>5, <1>6, <1>7, <1>8, <1>10, <2>1, <2>2, <2>3, <2>4, <2>5 DEF LeaseNext
  <1> QED
    BY <1>0, <1>1, <1>11 DEF LeaseInv

(* No lease, no request, no job: the invariant holds at the start. *)
LEMMA LeaseInitInv == LeaseInit => LeaseInv
  <1> SUFFICES ASSUME LeaseInit PROVE LeaseInv
    OBVIOUS
  <1>1. NotIssued \in LeaseRecords /\ NoJob \in WorkerRecords
    BY DEF NotIssued, LeaseRecords, NoJob, WorkerRecords
  <1>2. NoLeaseWork \in RequestRecords
    BY LeaseAssumption DEF NoLeaseWork, RequestRecords
  <1>3. lease \in [LeaseIds -> LeaseRecords] /\ worker \in [Workers -> WorkerRecords]
        /\ leaseRequest \in [LeaseProcs -> RequestRecords]
    BY <1>1, <1>2 DEF LeaseInit
  <1>4. LeaseTyped
    BY <1>3 DEF LeaseInit, LeaseTyped, LeaseTypeOK, LeaseRecords, WorkerRecords
  <1>5. OneConnects /\ ~Connecting
    BY DEF LeaseInit, OneConnects, Connecting, NoLeaseWork
  <1>6. Steady = {} /\ limit \in Nat
    BY LeaseAssumption DEF LeaseInit, Steady, Counted, NotIssued
  <1>7. PlaceKept
    BY <1>5, <1>6, FS_EmptySet DEF PlaceKept
  <1> QED
    BY <1>4, <1>5, <1>7 DEF LeaseInv

(* connect() keeps the place it made until its lease is written. *)
THEOREM LeaseInvHolds == LeaseSpec => []LeaseInv
  <1>1. LeaseInv /\ [LeaseNext]_leaseVars => LeaseInv'
    BY LeaseStep
  <1> QED
    BY <1>1, LeaseInitInv, PTL DEF LeaseSpec

(* No user holds more sessions than allowed, but for leases renewed after  *)
(* they lapsed and a lowered limit not enforced yet                        *)
(* (evictExceededUserLeases).                                              *)
THEOREM LeaseInvariantHolds == LeaseSpec => []LeaseInvariant
  <1>1. ASSUME LeaseInv PROVE LeaseInvariant
    <2>1. IsFiniteSet(Steady) /\ Cardinality(Steady) \in Nat /\ limit \in Nat
      BY <1>1, CountedFinite, LeaseAssumption DEF LeaseInv, LeaseTyped, LeaseTypeOK
    <2>2. renewedLate \in SUBSET LeaseIds
      BY <1>1 DEF LeaseInv, LeaseTyped, LeaseTypeOK
    <2>3. IsFiniteSet(renewedLate) /\ Cardinality(renewedLate) \in Nat
      BY <2>2, LeaseAssumption, FS_Subset, FS_CardinalityType
    <2>4. /\ IsFiniteSet(Steady \cup renewedLate)
          /\ Cardinality(Steady \cup renewedLate)
               = Cardinality(Steady) + Cardinality(renewedLate) - Cardinality(Steady \cap renewedLate)
      BY <2>1, <2>3, FS_Union
    <2>5. Steady \cap renewedLate = {} /\ Counted \in SUBSET (Steady \cup renewedLate)
      BY DEF Steady
    <2>6. Cardinality(Counted) <= Cardinality(Steady \cup renewedLate) /\ Cardinality(Counted) \in Nat
      BY <2>4, <2>5, FS_Subset, CountedFinite
    <2>7. Cardinality(Steady \cup renewedLate) = Cardinality(Steady) + Cardinality(renewedLate)
      <3>1. Cardinality(Steady \cap renewedLate) = 0
        BY <2>5, FS_EmptySet
      <3> QED
        BY <2>1, <2>3, <2>4, <3>1
    <2> QED
      BY <1>1, <2>1, <2>3, <2>6, <2>7 DEF LeaseInvariant, LeaseInv, LeaseTyped, PlaceKept, LimitRespected
  <1> QED
    BY <1>1, LeaseInvHolds, PTL

(* An evicted or revoked lease never comes back, whatever heartbeat writes *)
(* late (renewLease).                                                      *)
THEOREM EndedLeaseStaysHolds == LeaseSpec => EndedLeaseStays
  <1>1. ASSUME LeaseInv, [LeaseNext]_leaseVars
        PROVE  [\A l \in LeaseIds : lease[l].status \in {"evicted", "revoked"} => lease'[l] = lease[l]]_leaseVars
    <2>1. LeaseTypeOK
      BY <1>1 DEF LeaseInv, LeaseTyped
    <2>2. \A L : \A l \in LeaseIds : lease[l].status # "active" => Revoke(L, "revoked")[l] = lease[l]
      BY <2>1, RevokeIs
    <2> DEFINE Stays == \A l \in LeaseIds : lease[l].status \in {"evicted", "revoked"} => lease'[l] = lease[l]
    <2>3. ASSUME NEW p \in LeaseProcs, Connect(p) PROVE Stays
      BY <2>1, <2>3, EvictedLeaves DEF Connect, LeaseTypeOK
    <2>4. ASSUME NEW max \in 1..MaxLimit, EnforceLimit(max) PROVE Stays
      BY <2>1, <2>4, EvictedLeaves DEF EnforceLimit
    <2>5. ASSUME NEW p \in LeaseProcs, GrantLease(p) PROVE Stays
      BY <2>1, <2>5 DEF GrantLease, NextLease, NotIssued, LeaseTypeOK
    <2>6. ASSUME NEW l \in LeaseIds, Lapse(l) \/ RenewLease(l) PROVE Stays
      BY <2>1, <2>6 DEF Lapse, RenewLease, LeaseTypeOK
    <2>7. ASSUME UNCHANGED lease \/ \E L : lease' = Revoke(L, "revoked") PROVE Stays
      BY <2>2, <2>7
    <2> HIDE DEF Stays
    <2>8. ASSUME NEW l \in LeaseIds, Heartbeat(l) \/ Disconnected(l) \/ SweepExpired(l) PROVE Stays
      BY <2>7, <2>8, Zenon DEF Heartbeat, Disconnected, SweepExpired
    <2>9. ASSUME UnbarUser \/ (\E key \in JobKeys : BarUser(key) \/ QueueRevocation(key))
                 \/ \E max \in 1..MaxLimit : SetLimit(max)
          PROVE  Stays
      BY <2>7, <2>9 DEF UnbarUser, BarUser, QueueRevocation, SetLimit
    <2>10. ASSUME NEW w \in Workers, \/ \E key \in JobKeys : ClaimJob(w, key)
                                     \/ ScanLeases(w) \/ RevokeNext(w) \/ CompleteJob(w) \/ TimeoutJob(w)
           PROVE  Stays
      BY <2>7, <2>10, Zenon DEF ClaimJob, ScanLeases, RevokeNext, CompleteJob, TimeoutJob
    <2>11. ASSUME CrashLeases \/ UNCHANGED leaseVars PROVE Stays
      BY <2>7, <2>11 DEF CrashLeases, leaseVars
    <2>12. Stays
      BY <1>1, <2>3, <2>4, <2>5, <2>6, <2>8, <2>9, <2>10, <2>11, Zenon DEF LeaseNext
    <2> QED
      BY <2>12 DEF Stays
  <1> QED
    BY <1>1, LeaseInvHolds, PTL DEF LeaseSpec, EndedLeaseStays

-----------------------------------------------------------------------------
(* The stored session.                                                     *)

Toks == Tokens \cup {NoTok}
Flows(pcs) == [pc : pcs, token : Toks, got : Toks, ticket : [epoch : Nat, order : Nat]]
NativeFlows   == Flows({"idle", "network", "granted", "refused", "lost"})
LoginFlows    == Flows({"idle", "save", "saving", "boot", "clearing", "discarding"})
RecoveryFlows == Flows({"idle", "native", "waiting", "http", "save", "saving", "boot", "keep", "keeping", "clearing"})

StoreTyped == StoreTypeOK /\ events \subseteq Tokens \X Tokens /\ voided \in Nat

(* Only tokens the server has issued are about; what a refresh or a login  *)
(* is going to save is a token, and a refresh's is a new one.              *)
TokensIssued ==
    /\ retired \subseteq 1..issued
    /\ {disk.token, login.got, recovery.got, native.got, native.token} \subseteq 1..issued \cup {NoTok}
    /\ native.pc # "idle" => native.token # NoTok
    /\ native.pc = "granted" => native.got # NoTok /\ native.got \notin retired \cup {native.token}
    /\ login.pc \in {"save", "saving"} => login.got # NoTok
    /\ {page, recovery.token} \subseteq 1..issued \cup {NoTok} /\ events \subseteq (1..issued) \X (1..issued)
    /\ recovery.pc # "idle" => recovery.token # NoTok
    /\ recovery.pc \in {"save", "saving", "boot", "keep", "keeping"} => recovery.got # NoTok

TicketsBehind ==
    native.ticket.order <= next /\ login.ticket.order <= next /\ recovery.ticket.order <= next

(* The epoch is the one the last sign-out made, or the even one after it. *)
EpochsAlternate ==
    /\ \/ voided = 0 /\ epoch = 0
       \/ Odd(voided) /\ epoch \in {voided, voided + 1}
    /\ writing.expected <= epoch
    /\ \A a \in Askers : clear[a].pc = "sent" => Odd(clear[a].expected)

(* At an even epoch the file is of a save asked for since the sign-out, a  *)
(* write that can still be published too, and it never holds a retired     *)
(* token.                                                                  *)
FileInOrder ==
    /\ ~Odd(epoch) => disk.token # NoTok /\ disk.epoch >= voided
    /\ writing.who # "none" => disk.token # NoTok /\ (writing.expected = epoch => disk.epoch >= voided)
    /\ writing.who = "native" => native.pc = "granted" /\ disk.token = native.got
    /\ disk.token \notin retired

StoreInv == StoreTyped /\ TokensIssued /\ TicketsBehind /\ EpochsAlternate /\ FileInOrder

(* Parity, as the tombstone epochs use it. *)
LEMMA Parity ==
  ASSUME NEW n \in Nat
  PROVE  /\ Odd(n) => ~Odd(n + 1) /\ Odd(n + 2) /\ n + (n % 2) = n + 1
         /\ ~Odd(n) => Odd(n + 1) /\ Odd(n + 3) /\ n + (n % 2) = n
  BY DEF Odd

(* What the server answers. *)
LEMMA RotateIs ==
  ASSUME StoreTyped, NEW t, NEW outcome, NEW got, Rotate(t, outcome, got)
  PROVE  /\ issued' \in Tokens /\ issued \in Nat /\ issued' >= issued /\ live' \subseteq 1..issued'
         /\ got \in 1..issued' \cup {NoTok} /\ got \in Toks
         /\ outcome \in {"granted", "refused", "lost"}
         /\ outcome = "granted" => got = issued + 1 /\ issued' = issued + 1 /\ t \in 1..issued
  <1>1. issued \in Nat /\ issued \in Tokens /\ live \subseteq 1..issued
    BY DEF StoreTyped, StoreTypeOK, Tokens
  <1>2. CASE /\ t \in live /\ issued < MaxTokens
             /\ issued' = issued + 1 /\ live' = (live \ {t}) \cup {issued'}
    <2>1. issued' \in Tokens
      BY <1>1, <1>2, StoreAssumption DEF Tokens
    <2> QED
      BY <1>1, <1>2, <2>1 DEF Rotate, Toks
  <1>3. CASE UNCHANGED <<issued, live>> /\ got = NoTok /\ outcome \in {"refused", "lost"}
    BY <1>1, <1>3 DEF Toks, Tokens
  <1> QED
    BY <1>2, <1>3 DEF Rotate

(* The server's tables. *)
LEMMA ServerStep ==
  ASSUME StoreTyped, [StoreNext]_storeVars
  PROVE  issued' \in Tokens /\ issued' >= issued /\ live' \subseteq 1..issued'
  <1>1. issued \in Nat /\ issued \in Tokens /\ live \subseteq 1..issued
    BY DEF StoreTyped, StoreTypeOK, Tokens
  <1>2. CASE NativeExchange
    BY <1>2, RotateIs DEF NativeExchange
  <1>3. CASE RecoverHttp
    BY <1>3, RotateIs DEF RecoverHttp
  <1>4. CASE BeginLogin
    BY <1>1, <1>4, StoreAssumption DEF BeginLogin, Tokens
  <1>5. CASE RevokeAllUserSessions \/ \E a \in Askers : Invalidate(a)
    <2>1. live' \subseteq live /\ issued' = issued
      BY <1>5 DEF Invalidate, RevokeAllUserSessions
    <2> QED
      BY <1>1, <2>1
  <1>6. CASE UNCHANGED <<issued, live>>
    BY <1>1, <1>6
  <1> QED
    BY <1>2, <1>3, <1>4, <1>5, <1>6
    DEF StoreNext, storeVars, HeartbeatRefresh, RecoverNative, NativeGivesUp, NativeWrite, NativePublish,
        DeliverEvent, StartRecovery, Reserve, SaveWrite, SavePublish, BootLogin, BootRecovery,
        SignOut, ClearFile, ClearFails, ForgetSession

(* A flow that rests is typed. *)
LEMMA RestingTyped == Resting \in NativeFlows /\ Resting \in LoginFlows /\ Resting \in RecoveryFlows
  BY DEF Resting, NativeFlows, LoginFlows, RecoveryFlows, Flows, Toks, NoTicket

(* Which steps touch a flow, and which put it to rest. *)
LEMMA FlowSteps ==
  ASSUME [StoreNext]_storeVars
  PROVE  /\ \/ NativeExchange \/ HeartbeatRefresh \/ RecoverNative
            \/ native' = Resting \/ (native' = native /\ retired' = retired)
         /\ \/ BeginLogin \/ Reserve \/ BootLogin \/ SavePublish
            \/ login' \in {login, Resting, [login EXCEPT !.pc = "discarding"]}
         /\ \/ RecoverNative \/ Reserve \/ NativePublish \/ NativeGivesUp \/ NativeWrite \/ StartRecovery
            \/ RecoverHttp \/ SavePublish \/ BootRecovery \/ (\E a \in Askers : ClearFails(a)) \/ recovery' \in {recovery, Resting}
  <1>1. \/ NativeExchange \/ HeartbeatRefresh \/ RecoverNative
        \/ native' = Resting \/ (native' = native /\ retired' = retired)
    BY Zenon DEF StoreNext, storeVars, NativeGivesUp, NativeWrite, NativePublish,
        DeliverEvent, StartRecovery, Reserve, SaveWrite, SavePublish, BootLogin, BootRecovery,
        Invalidate, ClearFile, ClearFails, ForgetSession, NativeFailed, BeginLogin, RecoverHttp, SignOut,
        RevokeAllUserSessions
  <1>2. \/ BeginLogin \/ Reserve \/ BootLogin \/ SavePublish
        \/ login' \in {login, Resting, [login EXCEPT !.pc = "discarding"]}
    BY Zenon DEF StoreNext, storeVars, HeartbeatRefresh, RecoverNative, NativeGivesUp, NativeWrite, NativePublish,
        DeliverEvent, StartRecovery, SaveWrite, BootRecovery, NativeExchange,
        Invalidate, ClearFile, ClearFails, ForgetSession, RecoverHttp, SignOut, RevokeAllUserSessions
  <1>3. \/ RecoverNative \/ Reserve \/ NativePublish \/ NativeGivesUp \/ NativeWrite \/ StartRecovery
        \/ RecoverHttp \/ SavePublish \/ BootRecovery \/ (\E a \in Askers : ClearFails(a)) \/ recovery' \in {recovery, Resting}
    BY Zenon DEF StoreNext, storeVars, HeartbeatRefresh, DeliverEvent, BeginLogin, SaveWrite, BootLogin, NativeExchange,
        Invalidate, ClearFile, ForgetSession, SignOut, RevokeAllUserSessions
  <1> QED
    BY <1>1, <1>2, <1>3

(* The flows keep their types. *)
LEMMA FlowStep ==
  ASSUME StoreTyped, [StoreNext]_storeVars
  PROVE  native' \in NativeFlows /\ login' \in LoginFlows /\ recovery' \in RecoveryFlows
  <1>1. /\ native \in NativeFlows /\ login \in LoginFlows /\ recovery \in RecoveryFlows
        /\ disk.token \in Toks /\ page \in Toks /\ Ticket \in [epoch : Nat, order : Nat] /\ issued \in Nat
    BY DEF StoreTyped, StoreTypeOK, NativeFlows, LoginFlows, RecoveryFlows, Flows, Toks, Ticket, Tokens
  <1>2. Ask \in NativeFlows
    BY <1>1 DEF Ask, NativeFlows, Flows, Toks
  <1>3. native.got \in Toks /\ login.got \in Toks /\ recovery.got \in Toks
    BY <1>1 DEF NativeFlows, LoginFlows, RecoveryFlows, Flows
  <1> HIDE DEF Ask
  <1>4. native' \in NativeFlows
    <2>1. CASE NativeExchange
      <3>1. PICK outcome \in {"granted", "refused", "lost"}, got \in Toks :
              native' = [native EXCEPT !.pc = outcome, !.got = got]
        BY <2>1, Zenon DEF NativeExchange, Toks
      <3> QED
        BY <1>1, <3>1 DEF NativeFlows, Flows
    <2>2. CASE native' \in {native, Resting, Ask}
      BY <1>1, <1>2, <2>2, RestingTyped DEF NativeFlows
    <2>3. HeartbeatRefresh \/ RecoverNative => native' \in {native, Ask}
      BY Zenon DEF HeartbeatRefresh, RecoverNative
    <2> QED
      BY <2>1, <2>2, <2>3, FlowSteps
  <1>5. login' \in LoginFlows
    <2>1. CASE BeginLogin
      <3>1. issued' \in Toks
        BY ServerStep DEF Toks
      <3> QED
        BY <1>1, <2>1, <3>1, RestingTyped DEF BeginLogin, LoginFlows, Flows
    <2>2. CASE Reserve
      BY <1>1, <2>2, RestingTyped DEF Reserve, LoginFlows, Flows
    <2>3. CASE BootLogin
      BY <1>1, <2>3, RestingTyped DEF BootLogin, LoginFlows, Flows
    <2>4. CASE SavePublish
      BY <1>1, <2>4, RestingTyped DEF SavePublish, LoginFlows, Flows
    <2>5. CASE login' \in {login, Resting, [login EXCEPT !.pc = "discarding"]}
      BY <1>1, <2>5, RestingTyped DEF LoginFlows, Flows
    <2> QED
      BY <2>1, <2>2, <2>3, <2>4, <2>5, FlowSteps
  <1>6. recovery' \in RecoveryFlows
    <2>1. CASE RecoverNative
      BY <1>1, <2>1, RestingTyped DEF RecoverNative, RecoveryFlows, Flows
    <2>2. CASE Reserve
      BY <1>1, <2>2, RestingTyped DEF Reserve, RecoveryFlows, Flows
    <2>3. CASE NativePublish
      BY <1>1, <1>3, <2>3, RestingTyped DEF NativePublish, NativeFailed, RecoveryFlows, Flows
    <2>4. CASE NativeGivesUp \/ NativeWrite
      BY <1>1, <2>4, RestingTyped DEF NativeGivesUp, NativeWrite, NativeFailed, RecoveryFlows, Flows
    <2>5. CASE StartRecovery
      BY <1>1, <2>5 DEF StartRecovery, RecoveryFlows, Flows, Resting, Toks, NoTicket
    <2>6. CASE RecoverHttp
      <3>1. \/ \E got \in Toks : recovery' = [recovery EXCEPT !.pc = "save", !.got = got]
            \/ recovery' = [recovery EXCEPT !.pc = "clearing"]
            \/ recovery' = Resting
        BY <2>6, Zenon DEF RecoverHttp, RecoveryClears, Toks
      <3>2. CASE \E got \in Toks : recovery' = [recovery EXCEPT !.pc = "save", !.got = got]
        BY <1>1, <3>2 DEF RecoveryFlows, Flows
      <3>3. CASE recovery' = [recovery EXCEPT !.pc = "clearing"]
        BY <1>1, <3>3 DEF RecoveryFlows, Flows
      <3>4. CASE recovery' = Resting
        BY <3>4, RestingTyped
      <3> QED
        BY <3>1, <3>2, <3>3, <3>4, Zenon
    <2>7. CASE SavePublish \/ BootRecovery
      BY <1>1, <2>7, RestingTyped DEF SavePublish, BootRecovery, RecoveryClears, RecoveryFlows, Flows
    <2>8. CASE recovery' \in {recovery, Resting, [recovery EXCEPT !.pc = "keep", !.got = recovery.token]}
      BY <1>1, <2>8, RestingTyped DEF RecoveryFlows, Flows
    <2>9. (\E a \in Askers : ClearFails(a))
             => recovery' \in {recovery, Resting, [recovery EXCEPT !.pc = "keep", !.got = recovery.token]}
      BY DEF ClearFails
    <2> QED
      BY <2>1, <2>2, <2>3, <2>4, <2>5, <2>6, <2>7, <2>8, <2>9, FlowSteps
  <1> QED
    BY <1>4, <1>5, <1>6

(* What a step can do to each of the store's own variables. *)
LEMMA StoreShapes ==
  ASSUME [StoreNext]_storeVars
  PROVE  /\ epoch' \in {epoch, epoch + (epoch % 2), epoch + 2, epoch + 3} /\ voided' \in {voided, epoch'}
         /\ next' \in {next, next + 1}
         /\ order' \in {order, native.ticket.order, login.ticket.order, recovery.ticket.order}
         /\ \/ writing' \in {writing, NoWrite}
            \/ \E who \in {"native", "login", "recovery"} : writing' = [who |-> who, expected |-> epoch]
         /\ \/ disk' \in {disk, [disk EXCEPT !.token = NoTok]}
            \/ \E f \in {native, login, recovery} : disk' = [token |-> f.got, epoch |-> f.ticket.epoch]
         /\ page' \in {page, NoTok, login.got, recovery.got, recovery.token} \/ \E e \in events : page' = e[2]
         /\ \/ clear' = clear
            \/ \E a \in Askers : clear' = [clear EXCEPT ![a] = Stopping] \/ clear' = [clear EXCEPT ![a] = NotClearing]
            \/ \E a \in Askers : clear' = [clear EXCEPT ![a].pc = "cleared"]
            \/ \E a \in Askers : clear' = [clear EXCEPT ![a].pc = "sent", ![a].expected = epoch']
         /\ \/ retired' = retired /\ events' \subseteq events
            \/ /\ writing.who = "native" /\ retired' = retired \cup {native.token}
               /\ events' \in {events, events \cup {<<native.token, native.got>>}}
  <1> DEFINE Quiet == UNCHANGED <<epoch, voided, order, writing, disk, retired>>
             Cleared == \/ clear' = clear
                        \/ \E a \in Askers : clear' = [clear EXCEPT ![a] = Stopping] \/ clear' = [clear EXCEPT ![a] = NotClearing]
                        \/ \E a \in Askers : clear' = [clear EXCEPT ![a].pc = "cleared"]
                        \/ \E a \in Askers : clear' = [clear EXCEPT ![a].pc = "sent", ![a].expected = epoch']
             Paged == page' \in {page, NoTok, login.got, recovery.got, recovery.token} \/ \E e \in events : page' = e[2]
  <1>1. Quiet \/ NativePublish \/ SavePublish \/ NativeWrite \/ SaveWrite \/ \E a \in Askers : Invalidate(a) \/ ClearFile(a)
    BY Zenon DEF StoreNext, storeVars, HeartbeatRefresh, RecoverNative, NativeExchange, NativeGivesUp, DeliverEvent,
        BeginLogin, StartRecovery, RecoverHttp, Reserve, BootLogin, BootRecovery, SignOut, RevokeAllUserSessions,
        ClearFails, ForgetSession, NativeFailed, RecoveryClears
  <1>2. epoch' \in {epoch, epoch + (epoch % 2), epoch + 2, epoch + 3} /\ voided' \in {voided, epoch'}
    BY <1>1 DEF NativePublish, SavePublish, NativeWrite, SaveWrite, Invalidate, ClearFile, Publish
  <1>3. order' \in {order, native.ticket.order, login.ticket.order, recovery.ticket.order}
    BY <1>1 DEF NativePublish, SavePublish, NativeWrite, SaveWrite, Invalidate, ClearFile, Publish
  <1>4. writing' \in {writing, NoWrite} \/ \E who \in {"native", "login", "recovery"} : writing' = [who |-> who, expected |-> epoch]
    BY <1>1 DEF NativePublish, SavePublish, NativeWrite, SaveWrite, Invalidate, ClearFile, Publish, Write, NativeFailed
  <1>5. \/ disk' \in {disk, [disk EXCEPT !.token = NoTok]}
        \/ \E f \in {native, login, recovery} : disk' = [token |-> f.got, epoch |-> f.ticket.epoch]
    BY <1>1 DEF NativePublish, SavePublish, NativeWrite, SaveWrite, Invalidate, ClearFile, Write, NativeFailed
  <1>6. next' = next + 1 \/ next' = next
    BY Zenon DEF StoreNext, storeVars, HeartbeatRefresh, RecoverNative, NativeExchange, NativeGivesUp, NativeWrite, NativePublish,
        DeliverEvent, BeginLogin, StartRecovery, RecoverHttp, Reserve, SaveWrite, SavePublish, BootLogin,
        BootRecovery, SignOut, RevokeAllUserSessions, Invalidate, ClearFile, ClearFails, ForgetSession,
        NativeFailed, RecoveryClears
  <1>7. Paged
    BY Zenon DEF StoreNext, storeVars, HeartbeatRefresh, RecoverNative, NativeExchange, NativeGivesUp, NativeWrite, NativePublish,
        DeliverEvent, BeginLogin, StartRecovery, RecoverHttp, Reserve, SaveWrite, SavePublish, BootLogin,
        BootRecovery, SignOut, RevokeAllUserSessions, Invalidate, ClearFile, ClearFails, ForgetSession,
        NativeFailed, RecoveryClears
  <1>8. Cleared
    <2>1. /\ \A a \in Askers : ForgetSession(a) => Cleared
          /\ \A a \in Askers : Invalidate(a) \/ ClearFile(a) \/ ClearFails(a) => Cleared
      BY DEF ForgetSession, Invalidate, ClearFile, ClearFails
    <2>2. BootLogin \/ BootRecovery \/ RecoverHttp \/ SignOut => Cleared
      <3>1. "user" \in Askers /\ "recovery" \in Askers
        BY DEF Askers
      <3> QED
        BY <3>1, Zenon DEF BootLogin, BootRecovery, RecoverHttp, SignOut, RecoveryClears
    <2>3. UNCHANGED clear => Cleared
      OBVIOUS
    <2> HIDE DEF Cleared
    <2> QED
      BY <2>1, <2>2, <2>3, Zenon DEF StoreNext, storeVars, HeartbeatRefresh, RecoverNative, NativeExchange,
        NativeGivesUp, NativeWrite, NativePublish, DeliverEvent, BeginLogin, StartRecovery, Reserve, SaveWrite,
        SavePublish, RevokeAllUserSessions
  <1>9. \/ retired' = retired /\ events' \subseteq events
        \/ /\ writing.who = "native" /\ retired' = retired \cup {native.token}
           /\ events' \in {events, events \cup {<<native.token, native.got>>}}
    <2>1. UNCHANGED <<retired, events>> \/ NativePublish \/ DeliverEvent
      BY Zenon DEF StoreNext, storeVars, HeartbeatRefresh, RecoverNative, NativeExchange, NativeGivesUp, NativeWrite,
        BeginLogin, StartRecovery, RecoverHttp, Reserve, SaveWrite, SavePublish, BootLogin, BootRecovery, SignOut,
        RevokeAllUserSessions, Invalidate, ClearFile, ClearFails, ForgetSession, NativeFailed, RecoveryClears
    <2>2. CASE NativePublish
      BY <2>2 DEF NativePublish, NativeFailed
    <2> QED
      BY <2>1, <2>2 DEF DeliverEvent
  <1> QED
    BY <1>2, <1>3, <1>4, <1>5, <1>6, <1>7, <1>8, <1>9, Zenon

(* So they keep their types, given the tickets' numbers. *)
LEMMA StoreTypeStep ==
  ASSUME StoreTyped, TicketsBehind, TokensIssued, FileInOrder, [StoreNext]_storeVars
  PROVE  StoreTyped'
  <1>1. native \in NativeFlows /\ login \in LoginFlows /\ recovery \in RecoveryFlows
    BY DEF StoreTyped, StoreTypeOK, NativeFlows, LoginFlows, RecoveryFlows, Flows, Toks
  <1>2. /\ epoch \in Nat /\ next \in Nat /\ order \in 0..next
        /\ writing \in [who : {"none", "native", "login", "recovery"}, expected : Nat]
        /\ disk \in [token : Toks, epoch : Nat] /\ page \in Toks /\ retired \subseteq Tokens
    BY DEF StoreTyped, StoreTypeOK, Toks
  <1>3. /\ clear \in [Askers -> [pc : {"idle", "stopping", "sent", "cleared"}, expected : Nat]]
        /\ events \subseteq Tokens \X Tokens /\ voided \in Nat
    BY DEF StoreTyped, StoreTypeOK
  <1>4. /\ native.ticket.order \in Nat /\ login.ticket.order \in Nat /\ recovery.ticket.order \in Nat
        /\ native.ticket.epoch \in Nat /\ login.ticket.epoch \in Nat /\ recovery.ticket.epoch \in Nat
        /\ native.got \in Toks /\ login.got \in Toks /\ recovery.got \in Toks /\ native.token \in Toks
        /\ recovery.token \in Toks
    BY <1>1 DEF NativeFlows, LoginFlows, RecoveryFlows, Flows
  <1>5. epoch + (epoch % 2) \in Nat
    BY <1>2
  <1>7. epoch' \in Nat /\ voided' \in Nat
    <2>1. epoch' \in {epoch, epoch + (epoch % 2), epoch + 2, epoch + 3} /\ voided' \in {voided, epoch'}
      BY StoreShapes
    <2> QED
      BY <1>2, <1>3, <1>5, <2>1
  <1>9. next' \in Nat /\ order' \in 0..next'
    <2>1. /\ next' \in {next, next + 1}
          /\ order' \in {order, native.ticket.order, login.ticket.order, recovery.ticket.order}
      BY StoreShapes
    <2> QED
      BY <1>2, <1>4, <2>1 DEF TicketsBehind
  <1>11. writing' \in [who : {"none", "native", "login", "recovery"}, expected : Nat]
    BY <1>2, StoreShapes DEF NoWrite
  <1>13. disk' \in [token : Toks, epoch : Nat]
    <2>1. \/ disk' \in {disk, [disk EXCEPT !.token = NoTok]}
          \/ \E f \in {native, login, recovery} : disk' = [token |-> f.got, epoch |-> f.ticket.epoch]
      BY StoreShapes
    <2> QED
      BY <1>2, <1>4, <2>1 DEF Toks
  <1>15. page' \in Toks
    BY <1>2, <1>3, <1>4, StoreShapes DEF Toks
  <1>16. clear' \in [Askers -> [pc : {"idle", "stopping", "sent", "cleared"}, expected : Nat]]
    <2>1. Stopping \in [pc : {"idle", "stopping", "sent", "cleared"}, expected : Nat]
          /\ NotClearing \in [pc : {"idle", "stopping", "sent", "cleared"}, expected : Nat]
      BY DEF Stopping, NotClearing
    <2>2. CASE \E a \in Askers : clear' = [clear EXCEPT ![a] = Stopping] \/ clear' = [clear EXCEPT ![a] = NotClearing]
      BY <1>3, <2>1, <2>2
    <2>3. CASE \E a \in Askers : clear' = [clear EXCEPT ![a].pc = "cleared"]
      BY <1>3, <2>3
    <2>4. CASE \E a \in Askers : clear' = [clear EXCEPT ![a].pc = "sent", ![a].expected = epoch']
      BY <1>3, <1>7, <2>4
    <2> QED
      BY <1>3, <2>2, <2>3, <2>4, StoreShapes
  <1>17. writing.who = "native" => native.token \in Tokens /\ native.got \in Tokens
    BY <1>4 DEF TokensIssued, FileInOrder, Toks
  <1>18. retired' \subseteq Tokens /\ events' \subseteq Tokens \X Tokens
    <2>1. \/ retired' = retired /\ events' \subseteq events
          \/ /\ writing.who = "native" /\ retired' = retired \cup {native.token}
             /\ events' \in {events, events \cup {<<native.token, native.got>>}}
      BY StoreShapes
    <2> QED
      BY <1>2, <1>3, <1>17, <2>1
  <1> QED
    BY <1>7, <1>9, <1>11, <1>13, <1>15, <1>16, <1>18, FlowStep, ServerStep
    DEF StoreTyped, StoreTypeOK, NativeFlows, LoginFlows, RecoveryFlows, Flows, Toks

(* What a step can do to the tokens and the tickets the flows carry. *)
LEMMA FlowShapes ==
  ASSUME StoreTyped, [StoreNext]_storeVars
  PROVE  /\ native'.ticket \in {native.ticket, NoTicket} \/ (native'.ticket = Ticket /\ next' = next + 1)
         /\ login'.ticket \in {login.ticket, NoTicket} \/ (login'.ticket = Ticket /\ next' = next + 1)
         /\ recovery'.ticket \in {recovery.ticket, NoTicket} \/ (recovery'.ticket = Ticket /\ next' = next + 1)
         /\ native'.got \in {native.got, NoTok} \cup 1..issued'
         /\ login'.got \in {login.got, NoTok} \cup 1..issued'
         /\ recovery'.got \in {recovery.got, NoTok, disk.token, native.got, recovery.token} \cup 1..issued'
         /\ recovery'.token \in {recovery.token, NoTok, page}
         /\ native'.token \in {native.token, NoTok, disk.token}
  <1>1. native \in NativeFlows /\ login \in LoginFlows /\ recovery \in RecoveryFlows /\ issued \in Nat
    BY DEF StoreTyped, StoreTypeOK, NativeFlows, LoginFlows, RecoveryFlows, Flows, Toks, Tokens
  <1>2. /\ native'.ticket \in {native.ticket, NoTicket} \/ (native'.ticket = Ticket /\ next' = next + 1)
        /\ native'.got \in {native.got, NoTok} \cup 1..issued'
        /\ native'.token \in {native.token, NoTok, disk.token}
    <2>1. CASE NativeExchange
      <3>1. PICK outcome \in {"granted", "refused", "lost"}, got \in Toks :
              /\ Rotate(native.token, outcome, got)
              /\ native' = [native EXCEPT !.pc = outcome, !.got = got]
        BY <2>1, Zenon DEF NativeExchange, Toks
      <3>2. got \in 1..issued' \cup {NoTok}
        BY <3>1, RotateIs
      <3> QED
        BY <1>1, <3>1, <3>2 DEF NativeFlows, Flows
    <2>2. CASE HeartbeatRefresh \/ RecoverNative
      BY <2>2 DEF HeartbeatRefresh, RecoverNative, Ask
    <2>3. CASE native' \in {native, Resting}
      BY <2>3 DEF Resting
    <2> QED
      BY <2>1, <2>2, <2>3, FlowSteps
  <1>3. /\ login'.ticket \in {login.ticket, NoTicket} \/ (login'.ticket = Ticket /\ next' = next + 1)
        /\ login'.got \in {login.got, NoTok} \cup 1..issued'
    <2>1. CASE BeginLogin
      BY <1>1, <2>1 DEF BeginLogin, LoginFlows, Flows
    <2>2. CASE Reserve
      BY <1>1, <2>2 DEF Reserve, LoginFlows, Flows
    <2>3. CASE BootLogin \/ SavePublish
      BY <1>1, <2>3 DEF BootLogin, SavePublish, LoginFlows, Flows, Resting
    <2>4. CASE login' \in {login, Resting, [login EXCEPT !.pc = "discarding"]}
      BY <1>1, <2>4 DEF LoginFlows, Flows, Resting
    <2> QED
      BY <2>1, <2>2, <2>3, <2>4, FlowSteps
  <1>4. /\ recovery'.ticket \in {recovery.ticket, NoTicket} \/ (recovery'.ticket = Ticket /\ next' = next + 1)
        /\ recovery'.got \in {recovery.got, NoTok, disk.token, native.got, recovery.token} \cup 1..issued'
        /\ recovery'.token \in {recovery.token, NoTok, page}
    <2>1. CASE RecoverNative \/ Reserve
      BY <1>1, <2>1 DEF RecoverNative, Reserve, RecoveryFlows, Flows
    <2>3. CASE NativePublish \/ NativeGivesUp \/ NativeWrite
      BY <1>1, <2>3 DEF NativePublish, NativeGivesUp, NativeWrite, NativeFailed, RecoveryFlows, Flows
    <2>5. CASE StartRecovery
      BY <1>1, <2>5 DEF StartRecovery, Resting
    <2>6. CASE RecoverHttp
      <3>1. PICK outcome \in {"granted", "refused", "lost"}, got \in Toks :
              /\ Rotate(recovery.token, outcome, got)
              /\ \/ recovery' = [recovery EXCEPT !.pc = "save", !.got = got]
                 \/ recovery' = [recovery EXCEPT !.pc = "clearing"]
                 \/ recovery' = Resting
        BY <2>6, Zenon DEF RecoverHttp, RecoveryClears, Toks
      <3>2. got \in 1..issued' \cup {NoTok}
        BY <3>1, RotateIs
      <3>3. \/ recovery' = [recovery EXCEPT !.pc = "save", !.got = got]
            \/ recovery' = [recovery EXCEPT !.pc = "clearing"]
            \/ recovery' = Resting
        BY <3>1, Zenon
      <3>4. CASE recovery' = [recovery EXCEPT !.pc = "save", !.got = got]
        BY <1>1, <3>2, <3>4 DEF RecoveryFlows, Flows
      <3>5. CASE recovery' = [recovery EXCEPT !.pc = "clearing"]
        BY <1>1, <3>5 DEF RecoveryFlows, Flows
      <3>6. CASE recovery' = Resting
        BY <3>6 DEF Resting
      <3> QED
        BY <3>3, <3>4, <3>5, <3>6
    <2>7. CASE SavePublish \/ BootRecovery
      BY <1>1, <2>7 DEF SavePublish, BootRecovery, RecoveryClears, RecoveryFlows, Flows, Resting
    <2>8. CASE recovery' \in {recovery, Resting}
      BY <1>1, <2>8 DEF Resting
    <2>9. CASE \E a \in Askers : ClearFails(a)
      <3>1. recovery' \in {recovery, Resting} \/ recovery' = [recovery EXCEPT !.pc = "keep", !.got = recovery.token]
        BY <2>9 DEF ClearFails
      <3>2. CASE recovery' = [recovery EXCEPT !.pc = "keep", !.got = recovery.token]
        BY <1>1, <3>2 DEF RecoveryFlows, Flows
      <3> QED
        BY <2>8, <3>1, <3>2
    <2> QED
      BY <2>1, <2>3, <2>5, <2>6, <2>7, <2>8, <2>9, FlowSteps
  <1> QED
    BY <1>2, <1>3, <1>4

(* SessionStore.reserve numbers tickets from its counter. *)
LEMMA TicketsStep ==
  ASSUME StoreTyped, TicketsBehind, [StoreNext]_storeVars
  PROVE  TicketsBehind'
  <1>1. next \in Nat /\ next' \in {next, next + 1}
    BY StoreShapes DEF StoreTyped, StoreTypeOK
  <1>2. NoTicket.order = 0 /\ Ticket.order = next + 1
    BY DEF NoTicket, Ticket
  <1>3. /\ native.ticket.order \in Nat /\ login.ticket.order \in Nat /\ recovery.ticket.order \in Nat
    BY DEF StoreTyped, StoreTypeOK
  <1> QED
    BY <1>1, <1>2, <1>3, FlowShapes DEF TicketsBehind

(* Only issued tokens get about, and a refresh brings a new one. *)
LEMMA TokensStep ==
  ASSUME StoreInv, [StoreNext]_storeVars
  PROVE  TokensIssued'
  <1> USE DEF StoreInv
  <1>1. /\ native \in NativeFlows /\ login \in LoginFlows /\ recovery \in RecoveryFlows
        /\ issued \in Nat /\ issued' \in Nat /\ issued <= issued' /\ NoTok \notin Nat
    <2>1. native \in NativeFlows /\ login \in LoginFlows /\ recovery \in RecoveryFlows
      BY DEF StoreTyped, StoreTypeOK, NativeFlows, LoginFlows, RecoveryFlows, Flows, Toks
    <2>2. issued \in Tokens /\ issued' \in Tokens /\ issued <= issued'
      BY ServerStep DEF StoreTyped, StoreTypeOK, Tokens
    <2> QED
      BY <2>1, <2>2, StoreAssumption DEF Tokens
  <1>2. 1..issued \subseteq 1..issued'
    BY <1>1
  <1>3. /\ {disk.token, login.got, recovery.got, native.got, native.token, page, recovery.token} \subseteq 1..issued' \cup {NoTok}
        /\ retired \subseteq 1..issued'
    BY <1>2 DEF TokensIssued
  <1>4. {login'.got, recovery'.got, native'.got, native'.token} \subseteq 1..issued' \cup {NoTok}
    BY <1>3, FlowShapes
  <1>5. disk'.token \in 1..issued' \cup {NoTok}
    <2>1. disk'.token \in {disk.token, NoTok, native.got, login.got, recovery.got}
      BY StoreShapes DEF StoreTyped, StoreTypeOK
    <2> QED
      BY <1>3, <2>1
  <1>6. writing.who = "native" => native.pc = "granted" /\ native.token \in 1..issued' /\ native.token # NoTok
    BY <1>3 DEF TokensIssued, FileInOrder
  <1>7. retired' \subseteq 1..issued'
    BY <1>3, <1>6, StoreShapes
  <1>8. /\ native'.pc # "idle" => native'.token # NoTok
        /\ native'.pc = "granted" => native'.got # NoTok /\ native'.got \notin retired' \cup {native'.token}
    <2>1. CASE NativeExchange
      <3>1. PICK outcome \in {"granted", "refused", "lost"}, got \in Toks :
              /\ Rotate(native.token, outcome, got)
              /\ native' = [native EXCEPT !.pc = outcome, !.got = got] /\ retired' = retired
        BY <2>1, Zenon DEF NativeExchange, Toks
      <3>2. outcome = "granted" => got = issued + 1 /\ native.token \in 1..issued
        BY <3>1, RotateIs
      <3>3. native'.pc = outcome /\ native'.got = got /\ native'.token = native.token
        BY <1>1, <3>1 DEF NativeFlows, Flows
      <3>4. native.token # NoTok
        BY <2>1 DEF TokensIssued, NativeExchange
      <3>5. issued + 1 \notin 1..issued /\ issued + 1 # NoTok
        BY <1>1
      <3>6. retired \subseteq 1..issued
        BY DEF TokensIssued
      <3> QED
        BY <3>1, <3>2, <3>3, <3>4, <3>5, <3>6
    <2>2. CASE HeartbeatRefresh \/ RecoverNative
      <3>1. (native' = Ask /\ disk.token # NoTok) \/ (native' = native /\ retired' = retired)
        BY <2>2 DEF HeartbeatRefresh, RecoverNative, Readable
      <3>2. retired' = retired
        BY <2>2 DEF HeartbeatRefresh, RecoverNative
      <3> QED
        BY <3>1, <3>2 DEF Ask, TokensIssued
    <2>3. CASE native' = Resting
      BY <2>3 DEF Resting
    <2>4. CASE native' = native /\ retired' = retired
      BY <2>4 DEF TokensIssued
    <2> QED
      BY <2>1, <2>2, <2>3, <2>4, FlowSteps
  <1>9. login'.pc \in {"save", "saving"} => login'.got # NoTok
    <2>1. CASE BeginLogin
      BY <1>1, <2>1 DEF BeginLogin, LoginFlows, Flows
    <2>2. CASE Reserve
      BY <1>1, <2>2 DEF Reserve, LoginFlows, Flows, TokensIssued
    <2>3. CASE BootLogin \/ SavePublish
      BY <1>1, <2>3 DEF BootLogin, SavePublish, LoginFlows, Flows, Resting, TokensIssued
    <2>4. CASE login' \in {login, Resting, [login EXCEPT !.pc = "discarding"]}
      BY <1>1, <2>4 DEF LoginFlows, Flows, Resting, TokensIssued
    <2> QED
      BY <2>1, <2>2, <2>3, <2>4, FlowSteps
  <1>10. /\ recovery'.pc \in {"save", "saving", "boot", "keep", "keeping"} => recovery'.got # NoTok
         /\ recovery'.pc # "idle" => recovery'.token # NoTok
    <2>1. CASE RecoverNative \/ Reserve
      BY <1>1, <2>1 DEF RecoverNative, Reserve, RecoveryFlows, Flows, TokensIssued, Readable
    <2>3. CASE NativePublish \/ NativeGivesUp \/ NativeWrite
      <3>1. writing.who = "native" => native.got # NoTok
        BY DEF TokensIssued, FileInOrder
      <3> QED
        BY <1>1, <2>3, <3>1 DEF NativePublish, NativeGivesUp, NativeWrite, NativeFailed, RecoveryFlows, Flows, TokensIssued
    <2>5. CASE StartRecovery
      BY <1>1, <2>5 DEF StartRecovery, Resting
    <2>6. CASE RecoverHttp
      <3>1. PICK outcome \in {"granted", "refused", "lost"}, got \in Toks :
              /\ Rotate(recovery.token, outcome, got)
              /\ \/ outcome = "granted" /\ recovery' = [recovery EXCEPT !.pc = "save", !.got = got]
                 \/ recovery' = [recovery EXCEPT !.pc = "clearing"]
                 \/ recovery' = Resting
        BY <2>6, Zenon DEF RecoverHttp, RecoveryClears, Toks
      <3>2. outcome = "granted" => got = issued + 1
        BY <3>1, RotateIs
      <3>3. \/ got = issued + 1 /\ recovery' = [recovery EXCEPT !.pc = "save", !.got = got]
            \/ recovery' = [recovery EXCEPT !.pc = "clearing"]
            \/ recovery' = Resting
        BY <3>1, <3>2, Zenon
      <3>7. recovery.token # NoTok
        BY <2>6 DEF RecoverHttp, TokensIssued
      <3>4. CASE got = issued + 1 /\ recovery' = [recovery EXCEPT !.pc = "save", !.got = got]
        BY <1>1, <3>4, <3>7 DEF RecoveryFlows, Flows
      <3>5. CASE recovery' = [recovery EXCEPT !.pc = "clearing"]
        BY <1>1, <3>5, <3>7 DEF RecoveryFlows, Flows
      <3>6. CASE recovery' = Resting
        BY <3>6 DEF Resting
      <3> QED
        BY <3>3, <3>4, <3>5, <3>6
    <2>7. CASE SavePublish \/ BootRecovery
      BY <1>1, <2>7 DEF SavePublish, BootRecovery, RecoveryClears, RecoveryFlows, Flows, Resting, TokensIssued
    <2>8. CASE recovery' \in {recovery, Resting}
      BY <1>1, <2>8 DEF Resting, TokensIssued
    <2>9. CASE \E a \in Askers : ClearFails(a)
      <3>1. \/ recovery' \in {recovery, Resting}
            \/ recovery.pc = "clearing" /\ recovery' = [recovery EXCEPT !.pc = "keep", !.got = recovery.token]
        BY <2>9 DEF ClearFails
      <3>2. CASE recovery.pc = "clearing" /\ recovery' = [recovery EXCEPT !.pc = "keep", !.got = recovery.token]
        BY <1>1, <3>2 DEF RecoveryFlows, Flows, TokensIssued
      <3> QED
        BY <2>8, <3>1, <3>2
    <2> QED
      BY <2>1, <2>3, <2>5, <2>6, <2>7, <2>8, <2>9, FlowSteps
  <1>11. {page', recovery'.token} \subseteq 1..issued' \cup {NoTok}
    <2>1. \A e \in events : e[2] \in 1..issued'
      BY <1>2 DEF TokensIssued
    <2> QED
      BY <1>3, <2>1, FlowShapes, StoreShapes
  <1>12. events' \subseteq (1..issued') \X (1..issued')
    <2>1. writing.who = "native" => native.token \in 1..issued' /\ native.got \in 1..issued'
      BY <1>3, <1>6 DEF TokensIssued
    <2>2. events \subseteq (1..issued') \X (1..issued')
      BY <1>2 DEF TokensIssued
    <2> QED
      BY <2>1, <2>2, StoreShapes
  <1> QED
    BY <1>4, <1>5, <1>7, <1>8, <1>9, <1>10, <1>11, <1>12 DEF TokensIssued

(* Which steps touch the epoch, the file and its lock; no other one lets go  *)
(* of a granted refresh.                                                     *)
LEMMA FileSteps ==
  ASSUME [StoreNext]_storeVars
  PROVE  \/ \E a \in Askers : Invalidate(a) \/ ClearFile(a)
         \/ NativePublish \/ SavePublish \/ NativeWrite \/ SaveWrite
         \/ /\ UNCHANGED <<epoch, voided, writing, disk, retired>>
            /\ native' = native \/ native.pc # "granted"
            /\ \/ clear' = clear
               \/ \E a \in Askers : clear' = [clear EXCEPT ![a] = Stopping] \/ clear' = [clear EXCEPT ![a] = NotClearing]
  <1>1. CASE HeartbeatRefresh \/ RecoverNative \/ NativeExchange \/ NativeGivesUp
    <2>1. native.pc \in {"idle", "network", "refused", "lost"}
      BY <1>1, Zenon DEF HeartbeatRefresh, RecoverNative, NativeExchange, NativeGivesUp
    <2>2. UNCHANGED <<epoch, voided, writing, disk, retired, clear>>
      BY <1>1, Zenon DEF HeartbeatRefresh, RecoverNative, NativeExchange, NativeGivesUp, NativeFailed
    <2> QED
      BY <2>1, <2>2
  <1>2. CASE \/ DeliverEvent \/ BeginLogin \/ StartRecovery \/ RecoverHttp \/ Reserve \/ BootLogin \/ BootRecovery
             \/ SignOut \/ RevokeAllUserSessions \/ UNCHANGED storeVars
             \/ \E a \in Askers : ForgetSession(a) \/ ClearFails(a)
    <2>1. UNCHANGED <<epoch, voided, writing, disk, retired, native>>
      BY <1>2, Zenon DEF DeliverEvent, BeginLogin, StartRecovery, RecoverHttp, Reserve, BootLogin, BootRecovery,
           SignOut, RevokeAllUserSessions, ForgetSession, ClearFails, RecoveryClears, storeVars
    <2>2. \/ clear' = clear
          \/ \E a \in Askers : clear' = [clear EXCEPT ![a] = Stopping] \/ clear' = [clear EXCEPT ![a] = NotClearing]
      BY <1>2, Zenon DEF DeliverEvent, BeginLogin, StartRecovery, RecoverHttp, Reserve, BootLogin, BootRecovery,
           SignOut, RevokeAllUserSessions, ForgetSession, ClearFails, RecoveryClears, storeVars, Askers
    <2> QED
      BY <2>1, <2>2
  <1> QED
    BY <1>1, <1>2, Zenon DEF StoreNext

(* compare_exchange on the epoch: a tombstone becomes the even epoch after   *)
(* it, and only one that no sign-out has replaced.                           *)
LEMMA EpochsStep ==
  ASSUME StoreInv, [StoreNext]_storeVars
  PROVE  EpochsAlternate'
  <1> USE DEF StoreInv
  <1>1. /\ epoch \in Nat /\ voided \in Nat /\ writing.expected \in Nat
        /\ clear \in [Askers -> [pc : {"idle", "stopping", "sent", "cleared"}, expected : Nat]]
    BY DEF StoreTyped, StoreTypeOK
  <1>2. /\ (voided = 0 /\ epoch = 0) \/ (Odd(voided) /\ epoch \in {voided, voided + 1})
        /\ writing.expected <= epoch /\ \A a \in Askers : clear[a].pc = "sent" => Odd(clear[a].expected)
    BY DEF EpochsAlternate
  <1>3. ASSUME NEW a \in Askers, Invalidate(a) PROVE EpochsAlternate'
    <2>1. epoch' = (IF Odd(epoch) THEN epoch + 2 ELSE epoch + 3) /\ voided' = epoch' /\ writing' = writing
      BY <1>3 DEF Invalidate
    <2>2. Odd(epoch') /\ epoch' >= epoch /\ epoch' \in Nat
      BY <1>1, <2>1, Parity
    <2>3. \A b \in Askers : clear'[b].pc = "sent" => Odd(clear'[b].expected)
      <3> SUFFICES ASSUME NEW b \in Askers, clear'[b].pc = "sent" PROVE Odd(clear'[b].expected)
        OBVIOUS
      <3>1. CASE b = a
        BY <1>1, <1>3, <2>2, <3>1 DEF Invalidate
      <3>2. CASE b # a
        BY <1>1, <1>2, <1>3, <3>2 DEF Invalidate
      <3> QED
        BY <3>1, <3>2
    <2> QED
      BY <1>1, <1>2, <2>1, <2>2, <2>3 DEF EpochsAlternate
  <1>4. ASSUME NEW a \in Askers, ClearFile(a) PROVE EpochsAlternate'
    <2>1. UNCHANGED <<epoch, voided, writing>> /\ clear' = [clear EXCEPT ![a].pc = "cleared"]
      BY <1>4 DEF ClearFile
    <2>2. \A b \in Askers : clear'[b].pc = "sent" => Odd(clear'[b].expected)
      BY <1>1, <1>2, <2>1
    <2> QED
      BY <1>2, <2>1, <2>2 DEF EpochsAlternate
  <1>5. ASSUME NativePublish \/ SavePublish PROVE EpochsAlternate'
    <2>1. /\ UNCHANGED <<voided, clear>> /\ writing' = NoWrite
          /\ epoch' = epoch \/ epoch' = epoch + (epoch % 2)
      BY <1>5 DEF NativePublish, SavePublish, Publish, NativeFailed
    <2>2. epoch' = epoch \/ (Odd(epoch) /\ epoch' = epoch + 1)
      BY <1>1, <2>1, Parity
    <2>3. Odd(epoch) => epoch # voided + 1
      BY <1>1, <1>2, Parity
    <2>4. ~Odd(0)
      BY DEF Odd
    <2> QED
      BY <1>1, <1>2, <2>1, <2>2, <2>3, <2>4 DEF EpochsAlternate, NoWrite
  <1>6. ASSUME NativeWrite \/ SaveWrite PROVE EpochsAlternate'
    <2>1. /\ UNCHANGED <<voided, clear, epoch>>
          /\ writing' = writing \/ writing'.expected = epoch
      BY <1>6 DEF NativeWrite, SaveWrite, Write, NativeFailed
    <2> QED
      BY <1>1, <1>2, <2>1 DEF EpochsAlternate
  <1>7. ASSUME /\ UNCHANGED <<epoch, voided, writing>>
               /\ \/ clear' = clear
                  \/ \E a \in Askers : clear' = [clear EXCEPT ![a] = Stopping] \/ clear' = [clear EXCEPT ![a] = NotClearing]
        PROVE  EpochsAlternate'
    <2>1. Stopping.pc = "stopping" /\ NotClearing.pc = "idle"
      BY DEF Stopping, NotClearing
    <2>2. \A b \in Askers : clear'[b].pc = "sent" => Odd(clear'[b].expected)
      BY <1>1, <1>2, <1>7, <2>1
    <2> QED
      BY <1>2, <1>7, <2>2 DEF EpochsAlternate
  <1> QED
    BY <1>3, <1>4, <1>5, <1>6, <1>7, FileSteps

(* save_inner and rotate write what SameLogin admits: the file is of a save  *)
(* asked for since the last sign-out, and of no retired token.               *)
LEMMA FileStep ==
  ASSUME StoreInv, [StoreNext]_storeVars
  PROVE  FileInOrder'
  <1> USE DEF StoreInv
  <1>1. /\ epoch \in Nat /\ voided \in Nat /\ writing.expected \in Nat /\ NoTok \notin Nat
        /\ native.ticket.epoch \in Nat /\ login.ticket.epoch \in Nat /\ recovery.ticket.epoch \in Nat
        /\ disk \in [token : Toks, epoch : Nat]
    BY StoreAssumption DEF StoreTyped, StoreTypeOK, Toks
  <1>2. /\ (voided = 0 /\ epoch = 0) \/ (Odd(voided) /\ epoch \in {voided, voided + 1})
        /\ writing.expected <= epoch /\ \A a \in Askers : clear[a].pc = "sent" => Odd(clear[a].expected)
    BY DEF EpochsAlternate
  <1>3. /\ ~Odd(epoch) => disk.token # NoTok /\ disk.epoch >= voided
        /\ writing.who # "none" => disk.token # NoTok /\ (writing.expected = epoch => disk.epoch >= voided)
        /\ writing.who = "native" => native.pc = "granted" /\ disk.token = native.got
        /\ disk.token \notin retired
    BY DEF FileInOrder
  <1>4. \A n \in Nat : SameLogin([epoch |-> n, order |-> 0]) => n >= voided
    <2> SUFFICES ASSUME NEW n \in Nat, epoch = n \/ (Odd(n) /\ epoch = n + 1) PROVE n >= voided
      BY DEF SameLogin
    <2>1. CASE epoch = n
      BY <1>1, <1>2, <2>1
    <2>2. CASE Odd(n) /\ epoch = n + 1
      <3>1. ~Odd(epoch)
        BY <2>2, Parity
      <3>2. epoch # voided \/ voided = 0
        BY <1>2, <3>1
      <3> QED
        BY <1>1, <1>2, <2>2, <3>2
    <2> QED
      BY <2>1, <2>2
  <1>5. ASSUME NEW a \in Askers, Invalidate(a) PROVE FileInOrder'
    <2>1. epoch' = (IF Odd(epoch) THEN epoch + 2 ELSE epoch + 3) /\ UNCHANGED <<writing, disk, native, retired>>
      BY <1>5 DEF Invalidate
    <2>2. Odd(epoch') /\ epoch' > epoch /\ epoch' \in Nat
      BY <1>1, <2>1, Parity
    <2>3. writing'.expected # epoch'
      BY <1>1, <1>2, <2>1, <2>2
    <2> QED
      BY <1>3, <2>1, <2>2, <2>3 DEF FileInOrder
  <1>6. ASSUME NEW a \in Askers, ClearFile(a) PROVE FileInOrder'
    <2>1. /\ UNCHANGED <<epoch, voided, writing, native, retired>> /\ writing.who = "none"
          /\ disk' = IF epoch = clear[a].expected THEN [disk EXCEPT !.token = NoTok] ELSE disk
      BY <1>6 DEF ClearFile, Unlocked
    <2>2. disk' # disk => Odd(epoch)
      BY <1>2, <1>6, <2>1 DEF ClearFile
    <2>3. NoTok \notin retired
      <3>1. retired \subseteq Tokens
        BY DEF StoreTyped, StoreTypeOK
      <3>2. Tokens \subseteq Nat
        BY StoreAssumption DEF Tokens
      <3> QED
        BY <1>1, <3>1, <3>2
    <2>4. disk'.token \notin retired
      BY <1>1, <1>3, <2>1, <2>3
    <2> QED
      BY <1>3, <2>1, <2>2, <2>4 DEF FileInOrder
  <1>7. ASSUME NativePublish \/ SavePublish PROVE FileInOrder'
    <2>1. /\ UNCHANGED <<voided, disk>> /\ writing' = NoWrite /\ writing.who # "none"
          /\ epoch' = epoch \/ (epoch = writing.expected /\ epoch' = epoch + (epoch % 2))
          /\ retired' = retired \/ (writing.who = "native" /\ retired' = retired \cup {native.token})
      BY <1>7 DEF NativePublish, SavePublish, Publish, Published, NativeFailed
    <2>2. ~Odd(epoch') => disk.token # NoTok /\ disk.epoch >= voided
      BY <1>3, <2>1
    <2>3. writing.who = "native" => disk.token # native.token
      BY <1>3 DEF TokensIssued
    <2> QED
      BY <1>3, <2>1, <2>2, <2>3 DEF FileInOrder, NoWrite
  <1>8. ASSUME NativeWrite PROVE FileInOrder'
    <2>1. /\ native.pc = "granted" /\ UNCHANGED <<epoch, voided, retired>> /\ writing.who = "none"
          /\ \/ /\ SameLogin(native.ticket) /\ native' = native
                /\ disk' = [token |-> native.got, epoch |-> native.ticket.epoch]
                /\ writing' = [who |-> "native", expected |-> epoch]
             \/ UNCHANGED <<disk, writing>>
      BY <1>8, Zenon DEF NativeWrite, Write, Replaces, NativeFailed, Unlocked
    <2>2. CASE /\ SameLogin(native.ticket) /\ native' = native
               /\ disk' = [token |-> native.got, epoch |-> native.ticket.epoch]
               /\ writing' = [who |-> "native", expected |-> epoch]
      <3>1. native.ticket.epoch >= voided
        BY <1>1, <1>4, <2>2 DEF SameLogin
      <3>2. native.got # NoTok /\ native.got \notin retired
        BY <2>1 DEF TokensIssued
      <3> QED
        BY <2>1, <2>2, <3>1, <3>2 DEF FileInOrder
    <2>3. CASE UNCHANGED <<disk, writing>>
      BY <1>3, <2>1, <2>3 DEF FileInOrder
    <2> QED
      BY <2>1, <2>2, <2>3
  <1>9. ASSUME SaveWrite PROVE FileInOrder'
    <2>1. UNCHANGED <<epoch, voided, retired, native>> /\ writing.who = "none"
      BY <1>9 DEF SaveWrite, Unlocked
    <2>2. CASE /\ login.pc = "saving" /\ Admits(login.got, login.ticket)
               /\ disk' = [token |-> login.got, epoch |-> login.ticket.epoch] /\ writing' = [who |-> "login", expected |-> epoch]
      <3>1. login.ticket.epoch >= voided /\ login.got # NoTok /\ login.got \notin retired
        BY <1>1, <1>4, <2>2 DEF Admits, SameLogin, TokensIssued
      <3> QED
        BY <2>1, <2>2, <3>1 DEF FileInOrder
    <2>3. CASE /\ recovery.pc \in {"saving", "keeping"} /\ Admits(recovery.got, recovery.ticket)
               /\ disk' = [token |-> recovery.got, epoch |-> recovery.ticket.epoch] /\ writing' = [who |-> "recovery", expected |-> epoch]
      <3>1. recovery.ticket.epoch >= voided /\ recovery.got # NoTok /\ recovery.got \notin retired
        BY <1>1, <1>4, <2>3 DEF Admits, SameLogin, TokensIssued
      <3> QED
        BY <2>1, <2>3, <3>1 DEF FileInOrder
    <2>4. CASE UNCHANGED <<disk, writing>>
      BY <1>3, <2>1, <2>4 DEF FileInOrder
    <2> QED
      BY <1>9, <2>2, <2>3, <2>4, Zenon DEF SaveWrite, Write
  <1>10. ASSUME /\ UNCHANGED <<epoch, voided, writing, disk, retired>>
                /\ native' = native \/ native.pc # "granted"
         PROVE  FileInOrder'
    BY <1>3, <1>10 DEF FileInOrder
  <1> QED
    BY <1>5, <1>6, <1>7, <1>8, <1>9, <1>10, FileSteps

(* The credential file at the start. *)
LEMMA StoreInitInv == StoreInit => StoreInv
  <1> SUFFICES ASSUME StoreInit PROVE StoreInv
    OBVIOUS
  <1> USE StoreAssumption DEF StoreInit
  <1>1. StoreTyped
    <2>1. Resting \in NativeFlows /\ Resting \in LoginFlows /\ Resting \in RecoveryFlows
      BY RestingTyped
    <2>2. NotClearing \in [pc : {"idle", "stopping", "sent", "cleared"}, expected : Nat]
      BY DEF NotClearing
    <2>3. 1 \in Tokens /\ NoWrite \in [who : {"none", "native", "login", "recovery"}, expected : Nat]
      BY DEF Tokens, NoWrite
    <2> QED
      BY <2>1, <2>2, <2>3 DEF StoreTyped, StoreTypeOK, NativeFlows, LoginFlows, RecoveryFlows, Flows, Toks
  <1>2. TokensIssued /\ TicketsBehind
    BY DEF TokensIssued, TicketsBehind, Resting, NoTicket
  <1>3. EpochsAlternate /\ FileInOrder
    BY DEF EpochsAlternate, FileInOrder, NoWrite, NotClearing, Resting
  <1> QED
    BY <1>1, <1>2, <1>3 DEF StoreInv

(* The inductive invariant of the session store. *)
THEOREM StoreInvHolds == StoreSpec => []StoreInv
  <1>1. StoreInv /\ [StoreNext]_storeVars => StoreInv'
    BY StoreTypeStep, TokensStep, TicketsStep, EpochsStep, FileStep DEF StoreInv
  <1> QED
    BY <1>1, StoreInitInv, PTL DEF StoreSpec

(* SessionStore.rotate and save_inner: a token the native refresher has      *)
(* rotated away never becomes the stored session again, for any number of    *)
(* logins, refreshes, sign-outs and lost answers.                            *)
THEOREM RetiredStaysRetiredHolds == StoreSpec => []RetiredStaysRetired
  <1>1. StoreInv => RetiredStaysRetired
    BY DEF StoreInv, FileInOrder, RetiredStaysRetired
  <1> QED
    BY <1>1, StoreInvHolds, PTL

(* session_store.rs: no save or native refresh whose ticket was reserved     *)
(* before a sign-out brings a session back, and a published login is never   *)
(* removed by an older clear, whatever write, removal or stop failed.        *)
THEOREM StoreInvariantHolds == StoreSpec => []StoreInvariant
  <1>1. StoreInv => StoreInvariant
    BY DEF StoreInv, StoreTyped, FileInOrder, StoreInvariant, ClearedStaysCleared, PublishedIsStored, Readable
  <1> QED
    BY <1>1, StoreInvHolds, PTL
=============================================================================
