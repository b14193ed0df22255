--------------------------- MODULE MeteringProofs ---------------------------
(***************************************************************************)
(* Proofs about module Metering: types, the ascending chain of readings    *)
(* and its boundaries, the orders of a binding, and the balance of bytes.  *)
(***************************************************************************)
EXTENDS Metering, FunctionTheorems, FiniteSetTheorems, TLAPS

(***************************************************************************)
(* Lemmas about the counters: the agent's row moves up the order Follows,  *)
(* and that order is transitive.                                           *)
(***************************************************************************)
LEMMA FollowsTransitive ==
    ASSUME NEW x, NEW y, NEW z,
           x.gen \in Nat, y.gen \in Nat, z.gen \in Nat,
           x.ctr \in Counter, y.ctr \in Counter, z.ctr \in Counter,
           Follows(x, y), Follows(y, z)
    PROVE  Follows(x, z)
BY DEF Follows, Lower, Counter

(* foldCounter gives a row of the same shape, which follows the old one. *)
LEMMA FoldFollows ==
    ASSUME NEW r \in Rows, NEW c \in Counter, NEW e \in BOOLEAN, r.init \/ r.ctr = Zero
    PROVE  /\ Fold(r, c, e) \in Rows
           /\ Follows(r, Fold(r, c, e))
BY DEF Rows, Counter, Fold, Follows, RolledBack, Lower, Zero

(* The sample foldCounter emits is the new row's generation and counters. *)
LEMMA SampleTyped ==
    ASSUME NEW r \in Rows, NEW c \in Counter
    PROVE  /\ SampleOf(r, c) \in Samples
           /\ SampleOf(r, c).gen = Fold(r, c, TRUE).gen
           /\ SampleOf(r, c).ctr = c
BY DEF Rows, Counter, Fold, RolledBack, Lower, Zero, SampleOf, Samples, Delta, Bytes, Minus

----------------------------------------------------------------------------
(***************************************************************************)
(* Types                                                                   *)
(***************************************************************************)

(* Counters stay counters when they are wiped. *)
LEMMA WipeTyped ==
    ASSUME TypeOK, NEW accounts, Wipe(accounts)
    PROVE  live' \in [Bindings -> Counter] /\ read' \in [Bindings -> Counter]
BY DEF TypeOK, Wipe, Counter, Zero

(* RemoveUser leaves accounts and counters well typed. *)
LEMMA UninstallTyped ==
    ASSUME TypeOK, NEW accounts, NEW added, added \subseteq Bindings,
           Uninstall(accounts, added)
    PROVE  /\ live' \in [Bindings -> Counter] /\ read' \in [Bindings -> Counter]
           /\ installed' \subseteq Bindings
<1>1. PICK dropped \in SUBSET (accounts \cap installed) : Wipe(dropped)
  BY DEF Uninstall
<1>2. live' \in [Bindings -> Counter] /\ read' \in [Bindings -> Counter]
  BY <1>1, WipeTyped
<1> QED  BY <1>2 DEF Uninstall, TypeOK

(* Every row read is folded, every batch recorded is well formed. *)
LEMMA RecordTyped ==
    ASSUME TypeOK, NEW cut, RecordSample(cut)
    PROVE  /\ row' \in [Bindings -> Rows \cup {NoRow}]
           /\ queue' \in Seq(Batches)
           /\ read' \in [Bindings -> Counter]
<1>1. \A b \in Readable : b \in Bindings /\ row[b] \in Rows /\ live[b] \in Counter
  BY DEF TypeOK, Readable, Enabled, HasRow
<1>2. \A b \in Readable : Fold(row[b], live[b], b \notin cut) \in Rows
  BY <1>1 DEF Fold, Rows, RolledBack
<1>3. row' \in [Bindings -> Rows \cup {NoRow}]
  BY <1>2 DEF RecordSample, TypeOK
<1>4. read' \in [Bindings -> Counter]
  BY <1>1 DEF RecordSample, TypeOK
<1>5. queue' \in Seq(Batches)
  <2> DEFINE emitting == {b \in Readable : Emits(row[b], live[b])}
             batch == [b \in Bindings |-> IF b \in emitting THEN SampleOf(row[b], live[b])
                                                           ELSE NoSample]
  <2>1. \A b \in emitting : SampleOf(row[b], live[b]) \in Samples
    BY <1>1, SampleTyped
  <2>2. batch \in Batches
    BY <2>1 DEF Batches
  <2>3. queue' = IF emitting = {} THEN queue ELSE Append(queue, batch)
    BY DEF RecordSample
  <2> QED  BY <2>2, <2>3 DEF TypeOK
<1> QED  BY <1>3, <1>4, <1>5

(* Order moves statuses, boundaries and revisions within their types. *)
LEMMA OrderTyped ==
    ASSUME TypeOK, NEW bs, bs \subseteq Bindings,
           NEW type \in {"ENSURE_USER", "DISABLE_USER", "REMOVE_USER"},
           NEW st \in {"active", "disabled", "deleted"},
           Order(bs, type, st)
    PROVE  /\ status' \in [Bindings -> {"active", "disabled", "deleted"}]
           /\ watermark' \in [Bindings -> Nat \cup {NoWatermark}]
           /\ revision' \in [Bindings -> Nat]
           /\ commands' \subseteq Commands
BY DEF TypeOK, Order, Commands

(* Steps of Xray and of the handlers that only touch it. *)
LEMMA TypeXray ==
    ASSUME TypeOK,
           Traffic \/ PanelReset \/ XrayRestart \/ UninstallExhausted \/ Fail \/ Reconcile
    PROVE  TypeOK'
<1> USE DEF xrayVars, agentVars, ledgerVars, serverVars, ghostVars, countVars
<1>0. Idle \in Handlers
  BY DEF Idle, Handler, Handlers, NoRevision
<1>1. CASE Traffic
  <2>1. PICK b \in installed :
          /\ carried' = [carried EXCEPT ![b] = @ + 1]
          /\ live' \in {[live EXCEPT ![b].up = @ + 1], [live EXCEPT ![b].down = @ + 1]}
    BY <1>1 DEF Traffic
  <2>2. b \in Bindings /\ live[b] \in Counter
    BY DEF TypeOK
  <2>3. /\ [live[b] EXCEPT !.up = @ + 1] \in Counter
        /\ [live[b] EXCEPT !.down = @ + 1] \in Counter
    BY <2>2 DEF Counter
  <2>4. live' \in [Bindings -> Counter]
    BY <2>1, <2>3 DEF TypeOK
  <2>5. carried' \in [Bindings -> Nat]
    BY <2>1, <2>2 DEF TypeOK
  <2> QED  BY <1>1, <2>4, <2>5 DEF Traffic, TypeOK
<1>2. CASE PanelReset
  <2>1. live' \in [Bindings -> Counter] /\ read' \in [Bindings -> Counter]
    BY <1>2, WipeTyped DEF PanelReset
  <2>2. /\ resets' = resets + 1
        /\ UNCHANGED <<installed, agentVars, ledgerVars, serverVars, reports, carried,
                       crashes, reactivations>>
    BY <1>2 DEF PanelReset
  <2> QED  BY <2>1, <2>2 DEF TypeOK
<1>3. CASE XrayRestart
  <2>1. live' \in [Bindings -> Counter] /\ read' \in [Bindings -> Counter]
    BY <1>3, WipeTyped DEF XrayRestart
  <2> QED  BY <1>3, <2>1 DEF XrayRestart, TypeOK
<1>4. CASE UninstallExhausted
  <2>1. /\ live' \in [Bindings -> Counter] /\ read' \in [Bindings -> Counter]
        /\ installed' \subseteq Bindings
    BY <1>4, UninstallTyped DEF UninstallExhausted
  <2> QED  BY <1>0, <1>4, <2>1 DEF UninstallExhausted, TypeOK
<1>5. CASE Fail
  BY <1>0, <1>5 DEF Fail, TypeOK
<1>6. CASE Reconcile
  <2>1. /\ live' \in [Bindings -> Counter] /\ read' \in [Bindings -> Counter]
        /\ installed' \subseteq Bindings
    BY <1>6, UninstallTyped DEF Reconcile
  <2> QED  BY <1>6, <2>1 DEF Reconcile, TypeOK
<1> QED  BY <1>1, <1>2, <1>3, <1>4, <1>5, <1>6

(* The steps that record a sample. *)
LEMMA TypeSample ==
    ASSUME TypeOK, Sample \/ (\E c \in commands : BeginTerminal(c)) \/ BeginRefresh
    PROVE  TypeOK'
<1> USE DEF xrayVars, agentVars, ledgerVars, serverVars, ghostVars, countVars
<1>0. NoRevision \in [Bindings -> Nat] /\ Readable \subseteq Bindings
  BY DEF NoRevision, Readable, TypeOK
<1>1. CASE Sample
  <2>1. PICK cut \in SUBSET Readable :
          /\ RecordSample(cut)
          /\ op' = IF cut = {} THEN Idle ELSE Handler("exhausted", cut, {}, NoRevision)
    BY <1>1 DEF Sample
  <2>2. op' \in Handlers
    BY <1>0, <2>1 DEF Idle, Handler, Handlers
  <2> QED  BY <1>1, <2>1, <2>2, RecordTyped DEF Sample, TypeOK
<1>2. CASE \E c \in commands : BeginTerminal(c)
  <2>1. PICK c \in commands : BeginTerminal(c)
    BY <1>2
  <2>2. PICK cut \in SUBSET Readable :
          /\ RecordSample(cut)
          /\ op' = Handler(c.type, cut \cup {c.binding}, {},
                           [NoRevision EXCEPT ![c.binding] = c.revision])
    BY <2>1 DEF BeginTerminal
  <2>3. c \in Commands /\ c.type # "ENSURE_USER"
    BY <2>1 DEF BeginTerminal, TypeOK
  <2>4. op' \in Handlers
    BY <1>0, <2>2, <2>3 DEF Commands, Handler, Handlers
  <2> QED  BY <2>1, <2>2, <2>4, RecordTyped DEF BeginTerminal, TypeOK
<1>3. CASE BeginRefresh
  <2>1. /\ row' \in [Bindings -> Rows \cup {NoRow}]
        /\ queue' \in Seq(Batches)
        /\ read' \in [Bindings -> Counter]
    BY <1>3, RecordTyped DEF BeginRefresh, TypeOK
  <2>2. op' \in Handlers
    BY <1>3 DEF BeginRefresh, Handler, Handlers, TypeOK
  <2> QED  BY <1>3, <2>1, <2>2 DEF BeginRefresh, TypeOK
<1> QED  BY <1>1, <1>2, <1>3

(* The steps that change the agent's rows by order of the control plane. *)
LEMMA TypeAgent ==
    ASSUME TypeOK, (\E c \in commands : EnsureUser(c)) \/ FinishTerminal \/ FinishRefresh
    PROVE  TypeOK'
<1> USE DEF xrayVars, agentVars, ledgerVars, serverVars, ghostVars, countVars
<1>0. Idle \in Handlers /\ NewRow \in Rows
  BY DEF Idle, Handler, Handlers, NoRevision, NewRow, Rows, Counter, Zero
<1>1. CASE \E c \in commands : EnsureUser(c)
  <2>1. PICK c \in commands : EnsureUser(c)
    BY <1>1
  <2>2. c \in Commands
    BY DEF TypeOK
  <2>3. CASE Superseded(c)
    BY <2>1, <2>3 DEF EnsureUser, TypeOK
  <2>4. CASE ~Superseded(c)
    <3>1. /\ row' = [row EXCEPT ![c.binding] = IF @ = NoRow THEN NewRow
                                               ELSE [@ EXCEPT !.enabled = TRUE]]
          /\ seen' = [seen EXCEPT ![c.binding] = c.revision]
          /\ installed' \subseteq installed \cup {c.binding} /\ commands' \subseteq commands
      BY <2>1, <2>4 DEF EnsureUser
    <3>2. row' \in [Bindings -> Rows \cup {NoRow}]
      <4>1. row \in [Bindings -> Rows \cup {NoRow}] /\ c.binding \in Bindings
        BY <2>2 DEF TypeOK, Commands
      <4>2. row[c.binding] # NoRow => [row[c.binding] EXCEPT !.enabled = TRUE] \in Rows
        BY <4>1 DEF Rows
      <4>3. \/ row' = [row EXCEPT ![c.binding] = NewRow]
            \/ /\ row[c.binding] # NoRow
               /\ row' = [row EXCEPT ![c.binding] = [row[c.binding] EXCEPT !.enabled = TRUE]]
        BY <3>1
      <4> QED  BY <1>0, <4>1, <4>2, <4>3
    <3> QED  BY <2>1, <2>2, <3>1, <3>2 DEF EnsureUser, TypeOK, Commands
  <2> QED  BY <2>3, <2>4
<1>2. CASE FinishTerminal
  <2>1. PICK b \in op.on :
          /\ op' = Idle
          /\ Uninstall(IF op.at[b] < seen[b] THEN op.on \ {b} ELSE op.on, {})
          /\ IF op.at[b] < seen[b]
             THEN UNCHANGED <<row, seen>>
             ELSE /\ row' = [row EXCEPT ![b] =
                              IF @ = NoRow \/ op.kind = "REMOVE_USER" THEN NoRow
                              ELSE [@ EXCEPT !.enabled = FALSE]]
                  /\ seen' = [seen EXCEPT ![b] = op.at[b]]
          /\ commands' = {c \in commands : c.binding # b \/ c.revision # op.at[b]}
          /\ reports' = reports \cup {[binding |-> b, through |-> Boundary]}
          /\ UNCHANGED <<ledgerVars, snapshot, status, watermark, revision, used,
                         ended, carried, countVars>>
    BY <1>2 DEF FinishTerminal
  <2>2. b \in Bindings /\ op.at[b] \in Nat
    BY DEF TypeOK, Handlers
  <2>3. /\ live' \in [Bindings -> Counter] /\ read' \in [Bindings -> Counter]
        /\ installed' \subseteq Bindings
    BY <2>1, UninstallTyped
  <2>4. row' \in [Bindings -> Rows \cup {NoRow}]
    <3>1. row[b] # NoRow => [row[b] EXCEPT !.enabled = FALSE] \in Rows
      BY <2>2 DEF TypeOK, Rows
    <3>2. row \in [Bindings -> Rows \cup {NoRow}]
      BY DEF TypeOK
    <3>3. \/ row' = row
          \/ row' = [row EXCEPT ![b] = NoRow]
          \/ row[b] # NoRow /\ row' = [row EXCEPT ![b] = [row[b] EXCEPT !.enabled = FALSE]]
      BY <2>1
    <3> QED  BY <3>1, <3>2, <3>3
  <2>5. seen' \in [Bindings -> Nat]
    BY <2>1, <2>2 DEF TypeOK
  <2>6. reports' \subseteq [binding : Bindings, through : Nat]
    <3>1. Boundary \in Nat
      BY DEF Boundary, TypeOK
    <3> QED  BY <2>1, <2>2, <3>1 DEF TypeOK
  <2>7. commands' \subseteq Commands /\ op' \in Handlers
    BY <1>0, <2>1 DEF TypeOK
  <2>8. UNCHANGED <<queue, settled, snapshot, status, watermark, revision, used, ended,
                    carried, resets, crashes, reactivations>>
    BY <2>1
  <2> QED  BY <2>3, <2>4, <2>5, <2>6, <2>7, <2>8 DEF TypeOK
<1>3. CASE FinishRefresh
  <2>1. PICK restored \in SUBSET {b \in op.want : HasRow(b) /\ ~Enabled(b)} :
          /\ row' = [b \in Bindings |->
                      IF b \in op.on THEN NoRow
                      ELSE IF b \in op.want /\ ~HasRow(b) THEN NewRow
                      ELSE IF b \in restored THEN [row[b] EXCEPT !.enabled = TRUE]
                      ELSE row[b]]
          /\ seen' = [b \in Bindings |-> IF seen[b] < op.at[b] THEN op.at[b] ELSE seen[b]]
          /\ \E wanted \in SUBSET Bindings : Uninstall(installed \ wanted, wanted)
          /\ op' = Idle
          /\ UNCHANGED <<ledgerVars, serverVars, reports, carried, countVars>>
    BY <1>3 DEF FinishRefresh
  <2>2. /\ live' \in [Bindings -> Counter] /\ read' \in [Bindings -> Counter]
        /\ installed' \subseteq Bindings
    BY <2>1, UninstallTyped
  <2>3. row' \in [Bindings -> Rows \cup {NoRow}]
    BY <1>0, <2>1 DEF TypeOK, Rows, HasRow
  <2>4. seen' \in [Bindings -> Nat]
    BY <2>1 DEF TypeOK, Handlers
  <2> QED  BY <1>0, <2>1, <2>2, <2>3, <2>4 DEF TypeOK
<1> QED  BY <1>1, <1>2, <1>3

(* The control plane's steps. *)
LEMMA TypeServer ==
    ASSUME TypeOK,
           \/ Account
           \/ \E s \in Subscriptions : DisableSubscription(s) \/ DeleteSubscription(s)
           \/ CompleteCommand
           \/ \E b \in Bindings : Reactivate(b)
    PROVE  TypeOK'
<1> USE DEF xrayVars, agentVars, ledgerVars, serverVars, ghostVars, countVars
<1>1. CASE Account
  <2> DEFINE accepted == {b \in Bindings : Head(queue)[b] # NoSample /\ Accepted(b)}
  <2>1. /\ queue # <<>> /\ queue' = Tail(queue) /\ settled' = settled + 1
        /\ snapshot' = [b \in Bindings |->
                         IF b \in accepted THEN [gen |-> Head(queue)[b].gen,
                                                 ctr |-> Head(queue)[b].ctr]
                                           ELSE snapshot[b]]
        /\ DOMAIN used' = Subscriptions
        /\ UNCHANGED <<xrayVars, agentVars, reports, ghostVars, countVars>>
    BY <1>1 DEF Account
  <2>2. ended' \in [Subscriptions -> BOOLEAN]
    BY <1>1 DEF Account, TypeOK
  <2>3. \E bs \in SUBSET Bindings : Order(bs, "DISABLE_USER", "disabled")
    BY <1>1 DEF Account
  <2>4. /\ status' \in [Bindings -> {"active", "disabled", "deleted"}]
        /\ watermark' \in [Bindings -> Nat \cup {NoWatermark}]
        /\ revision' \in [Bindings -> Nat]
        /\ commands' \subseteq Commands
    BY <2>3, OrderTyped
  <2>5. Head(queue) \in Batches /\ Tail(queue) \in Seq(Batches)
    BY <2>1 DEF TypeOK
  <2>6. snapshot' \in [Bindings -> [gen : Nat, ctr : Counter]]
    <3>1. \A b \in accepted : Head(queue)[b] \in Samples
      BY <2>5 DEF Batches
    <3> QED  BY <2>1, <3>1 DEF TypeOK, Samples
  <2> QED  BY <2>1, <2>2, <2>4, <2>5, <2>6 DEF TypeOK
<1>2. CASE \E s \in Subscriptions : DisableSubscription(s) \/ DeleteSubscription(s)
  <2>1. PICK s \in Subscriptions : DisableSubscription(s) \/ DeleteSubscription(s)
    BY <1>2
  <2>2. \E bs \in SUBSET Bindings : \/ Order(bs, "DISABLE_USER", "disabled")
                                    \/ Order(bs, "REMOVE_USER", "deleted")
    BY <2>1 DEF DisableSubscription, DeleteSubscription
  <2>3. /\ status' \in [Bindings -> {"active", "disabled", "deleted"}]
        /\ watermark' \in [Bindings -> Nat \cup {NoWatermark}]
        /\ revision' \in [Bindings -> Nat]
        /\ commands' \subseteq Commands
    BY <2>2, OrderTyped
  <2> QED  BY <2>1, <2>3 DEF DisableSubscription, DeleteSubscription, TypeOK
<1>3. CASE CompleteCommand
  BY <1>3 DEF CompleteCommand, TypeOK
<1>4. CASE \E b \in Bindings : Reactivate(b)
  <2>1. PICK b \in Bindings : Reactivate(b)
    BY <1>4
  <2>2. /\ status' \in [Bindings -> {"active", "disabled", "deleted"}]
        /\ watermark' \in [Bindings -> Nat \cup {NoWatermark}]
        /\ revision' \in [Bindings -> Nat]
        /\ commands' \subseteq Commands
    BY <2>1, OrderTyped DEF Reactivate
  <2>3. snapshot' \in [Bindings -> [gen : Nat, ctr : Counter]]
    <3>1. Zero \in Counter /\ snapshot[b] \in [gen : Nat, ctr : Counter]
      BY DEF TypeOK, Counter, Zero
    <3>2. [snapshot[b] EXCEPT !.ctr = Zero] \in [gen : Nat, ctr : Counter]
      BY <3>1
    <3>3. snapshot' = snapshot \/ snapshot' = [snapshot EXCEPT ![b].ctr = Zero]
      BY <2>1 DEF Reactivate
    <3> QED  BY <3>2, <3>3 DEF TypeOK
  <2>4. reactivations' \in Nat
    BY <2>1 DEF Reactivate, TypeOK
  <2>5. UNCHANGED <<live, installed, row, seen, op, queue, settled, used, ended,
                    reports, carried, read, resets, crashes>>
    BY <2>1 DEF Reactivate
  <2> QED  BY <2>2, <2>3, <2>4, <2>5 DEF TypeOK
<1> QED  BY <1>1, <1>2, <1>3, <1>4

(* Fresh bindings are well typed. *)
LEMMA TypeInit == Init => TypeOK
<1> SUFFICES ASSUME Init PROVE TypeOK
  OBVIOUS
<1>1. Idle \in Handlers
  BY DEF Idle, Handler, Handlers, NoRevision
<1>2. Zero \in Counter
  BY DEF Zero, Counter
<1>3. /\ live \in [Bindings -> Counter] /\ read \in [Bindings -> Counter]
      /\ snapshot \in [Bindings -> [gen : Nat, ctr : Counter]]
      /\ seen \in [Bindings -> Nat]
  BY <1>2 DEF Init, NoRevision
<1>4. commands \subseteq Commands
  BY DEF Init, Commands
<1>5. queue \in Seq(Batches)
  BY DEF Init
<1> QED  BY <1>1, <1>3, <1>4, <1>5 DEF Init, TypeOK

(* Every step of Xray, agent and control plane keeps the types. *)
LEMMA TypeStep == TypeOK /\ [Next]_vars => TypeOK'
<1> SUFFICES ASSUME TypeOK, [Next]_vars PROVE TypeOK'
  OBVIOUS
<1>1. CASE UNCHANGED vars
  BY <1>1 DEF vars, xrayVars, agentVars, ledgerVars, serverVars, ghostVars, countVars,
              TypeOK
<1>2. CASE Traffic \/ PanelReset \/ XrayRestart \/ UninstallExhausted \/ Fail \/ Reconcile
  BY <1>2, TypeXray
<1>3. CASE Sample \/ (\E c \in commands : BeginTerminal(c)) \/ BeginRefresh
  BY <1>3, TypeSample
<1>4. CASE (\E c \in commands : EnsureUser(c)) \/ FinishTerminal \/ FinishRefresh
  BY <1>4, TypeAgent
<1>5. CASE \/ Account
           \/ \E s \in Subscriptions : DisableSubscription(s) \/ DeleteSubscription(s)
           \/ CompleteCommand
           \/ \E b \in Bindings : Reactivate(b)
  BY <1>5, TypeServer
<1> QED  BY <1>1, <1>2, <1>3, <1>4, <1>5 DEF Next

(***************************************************************************)
(* Metering keeps its types in every behaviour; in particular foldCounter  *)
(* never emits a negative delta, whatever Xray's counters do.              *)
(***************************************************************************)
THEOREM MeteringTypeCorrect == Spec => []TypeOK
BY TypeInit, TypeStep, PTL DEF Spec

----------------------------------------------------------------------------
(***************************************************************************)
(* The invariant.  Recording a sample extends every binding's chain.       *)
(***************************************************************************)
LEMMA RecordChain ==
    ASSUME TypeOK, NEW cut, RecordSample(cut), UNCHANGED <<seen, snapshot>>,
           NEW b \in Bindings, Chain(b)
    PROVE  /\ Chain(b)'
           /\ HasRow(b)' <=> HasRow(b)
           /\ Enabled(b)' => Enabled(b)
           /\ \A i \in DOMAIN queue' :
                Reports(i, b)' => Enabled(b) \/ (i \in DOMAIN queue /\ Reports(i, b))
<1> DEFINE emitting == {x \in Readable : Emits(row[x], live[x])}
           batch == [x \in Bindings |-> IF x \in emitting THEN SampleOf(row[x], live[x])
                                                         ELSE NoSample]
           S == [gen : Nat, ctr : Counter]
<1>1. queue' = IF emitting = {} THEN queue ELSE Append(queue, batch)
  BY DEF RecordSample
<1>2. row'[b] = IF b \in Readable THEN Fold(row[b], live[b], b \notin cut) ELSE row[b]
  BY DEF RecordSample
<1>3. live[b] \in Counter /\ queue \in Seq(Batches)
  BY DEF TypeOK
<1>4. ASSUME b \in Readable
      PROVE  /\ HasRow(b) /\ Enabled(b) /\ row[b] \in Rows
             /\ row'[b] \in Rows /\ row'[b].init
             /\ Follows(row[b], row'[b])
             /\ HasRow(b)'
  <2>1. HasRow(b) /\ Enabled(b) /\ row[b] \in Rows
    BY <1>4 DEF Readable, Enabled, HasRow, TypeOK
  <2>2. row[b].init \/ row[b].ctr = Zero
    BY <2>1 DEF Chain
  <2>3. row'[b] \in Rows /\ Follows(row[b], row'[b])
    BY <1>2, <1>3, <1>4, <2>1, <2>2, FoldFollows
  <2>4. row'[b].init
    BY <1>2, <1>4 DEF Fold
  <2>5. NoRow \notin Rows
    BY MeteringAssumption DEF Rows, Counter
  <2> QED  BY <2>1, <2>3, <2>4, <2>5 DEF HasRow
<1>5. HasRow(b)' <=> HasRow(b)
  BY <1>2, <1>4 DEF HasRow
<1>6. Enabled(b)' => Enabled(b)
  BY <1>2, <1>4 DEF HasRow, Enabled
<1>7. \A i \in DOMAIN queue : i \in Nat /\ i >= 1 /\ i <= Len(queue) /\ queue[i] \in Batches
  BY <1>3
<1>8. CASE b \notin emitting
  <2>1. \A i \in DOMAIN queue' : Reports(i, b)' => /\ i \in DOMAIN queue /\ Reports(i, b)
                                                  /\ queue'[i][b] = queue[i][b]
    BY <1>1, <1>3, <1>8 DEF Reports
  <2>2. Untouched(b) => Untouched(b)'
    BY <2>1 DEF Untouched
  <2>3. \A i \in DOMAIN queue' : Reports(i, b)' =>
           /\ Follows(snapshot[b], queue'[i][b])
           /\ \A j \in DOMAIN queue' : i < j /\ Reports(j, b)'
                                         => Follows(queue'[i][b], queue'[j][b])
    BY <2>1 DEF Chain
  <2>4. CASE b \notin Readable
    <3>1. row'[b] = row[b]
      BY <1>2, <2>4
    <3> QED  BY <1>5, <1>6, <2>1, <2>2, <2>3, <3>1 DEF Chain, HasRow
  <2>5. CASE b \in Readable
    <3>1. Follows(snapshot[b], row'[b])
      <4>1. snapshot[b] \in S
        BY DEF TypeOK
      <4>2. Follows(snapshot[b], row[b])
        BY <1>4, <2>5 DEF Chain
      <4> QED  BY <1>4, <2>5, <4>1, <4>2, FollowsTransitive DEF Rows
    <3>2. \A i \in DOMAIN queue' : Reports(i, b)' => Follows(queue'[i][b], row'[b])
      <4> SUFFICES ASSUME NEW i \in DOMAIN queue', Reports(i, b)'
                   PROVE  Follows(queue'[i][b], row'[b])
        OBVIOUS
      <4>1. queue[i][b] \in Samples /\ queue'[i][b] = queue[i][b]
        BY <1>7, <2>1 DEF Batches, Reports
      <4>2. Follows(queue[i][b], row[b])
        BY <1>4, <2>1, <2>5 DEF Chain
      <4> QED  BY <1>4, <2>5, <4>1, <4>2, FollowsTransitive DEF Rows, Samples
    <3> QED  BY <1>4, <1>6, <2>1, <2>3, <2>5, <3>1, <3>2 DEF Chain, HasRow
  <2> QED  BY <2>4, <2>5
<1>9. CASE b \in emitting
  <2>1. b \in Readable
    BY <1>9
  <2>2. /\ queue' = Append(queue, batch) /\ Len(queue') = Len(queue) + 1
        /\ queue'[Len(queue) + 1][b] = SampleOf(row[b], live[b])
        /\ \A i \in DOMAIN queue : queue'[i] = queue[i]
        /\ \A i \in DOMAIN queue' : i \in DOMAIN queue \/ i = Len(queue) + 1
    BY <1>1, <1>3, <1>9
  <2> DEFINE new == SampleOf(row[b], live[b])
  <2>3. new \in Samples /\ new.gen = row'[b].gen /\ new.ctr = row'[b].ctr
    BY <1>2, <1>3, <1>4, <2>1, SampleTyped DEF Fold
  <2>4. Follows(snapshot[b], row'[b])
    <3>1. snapshot[b] \in S
      BY DEF TypeOK
    <3>2. Follows(snapshot[b], row[b])
      BY <1>4, <2>1 DEF Chain
    <3> QED  BY <1>4, <2>1, <3>1, <3>2, FollowsTransitive DEF Rows
  <2>5. \A i \in DOMAIN queue : Reports(i, b) => Follows(queue[i][b], row'[b])
    <3> SUFFICES ASSUME NEW i \in DOMAIN queue, Reports(i, b)
                 PROVE  Follows(queue[i][b], row'[b])
      OBVIOUS
    <3>1. queue[i][b] \in Samples
      BY <1>7 DEF Batches, Reports
    <3>2. Follows(queue[i][b], row[b])
      BY <1>4, <2>1 DEF Chain
    <3> QED  BY <1>4, <2>1, <3>1, <3>2, FollowsTransitive DEF Rows, Samples
  <2>6. /\ Follows(new, row'[b]) /\ Follows(snapshot[b], new)
        /\ \A i \in DOMAIN queue : Reports(i, b) => Follows(queue[i][b], new)
    BY <2>3, <2>4, <2>5 DEF Follows, Lower, Samples, Counter
  <2>7. \A i \in DOMAIN queue' : Reports(i, b)' =>
           /\ Follows(snapshot[b], queue'[i][b])
           /\ Follows(queue'[i][b], row'[b])
    BY <2>2, <2>5, <2>6 DEF Chain, Reports
  <2>8. \A i, j \in DOMAIN queue' : Reports(i, b)' /\ i < j /\ Reports(j, b)'
           => Follows(queue'[i][b], queue'[j][b])
    <3> SUFFICES ASSUME NEW i \in DOMAIN queue', NEW j \in DOMAIN queue',
                        Reports(i, b)', i < j, Reports(j, b)'
                 PROVE  Follows(queue'[i][b], queue'[j][b])
      OBVIOUS
    <3>1. i \in DOMAIN queue /\ Reports(i, b)
      BY <1>7, <1>3, <2>2 DEF Reports
    <3> QED  BY <2>2, <2>6, <3>1 DEF Chain, Reports
  <2>9. Chain(b)'
    BY <1>4, <2>1, <2>4, <2>7, <2>8 DEF Chain
  <2> QED  BY <1>4, <1>5, <2>1, <2>9
<1> QED  BY <1>8, <1>9

(* A step that leaves rows, batches and the control plane alone. *)
LEMMA FrameKeeps ==
    ASSUME MeteringInvariant, TypeOK',
           UNCHANGED <<row, seen, queue, settled, snapshot, status, watermark, revision,
                       commands, reports>>,
           op' = op \/ op'.kind \in {"idle", "exhausted"}
    PROVE  MeteringInvariant'
<1>1. Orders'
  BY DEF MeteringInvariant, Orders, Reports
<1>2. ASSUME NEW b \in Bindings PROVE Chain(b)'
  BY DEF MeteringInvariant, Chain, Untouched, HasRow, Reports
<1>3. ASSUME NEW b \in Bindings PROVE Terminal(b)'
  BY DEF MeteringInvariant, Terminal, Enabled, HasRow
<1> QED  BY <1>1, <1>2, <1>3 DEF MeteringInvariant

(* Recording a sample: boundaries that have been reported stay boundaries,     *)
(* because the agent no longer reads a binding it has taken down by order.     *)
LEMMA RecordKeeps ==
    ASSUME MeteringInvariant, NEW cut, RecordSample(cut),
           UNCHANGED <<seen, settled, snapshot, status, watermark, commands, reports>>
    PROVE  /\ Orders'
           /\ \A b \in Bindings : /\ Chain(b)'
                                  /\ HasRow(b)' <=> HasRow(b)
                                  /\ Enabled(b)' => Enabled(b)
<1>1. ASSUME NEW b \in Bindings
      PROVE  /\ Chain(b)'
             /\ HasRow(b)' <=> HasRow(b)
             /\ Enabled(b)' => Enabled(b)
             /\ \A i \in DOMAIN queue' :
                  Reports(i, b)' => Enabled(b) \/ (i \in DOMAIN queue /\ Reports(i, b))
  BY RecordChain DEF MeteringInvariant
<1>2. ASSUME NEW b \in Bindings, seen[b] >= 2
      PROVE  \A i \in DOMAIN queue' : Reports(i, b)' => i \in DOMAIN queue /\ Reports(i, b)
  BY <1>1, <1>2 DEF MeteringInvariant, Terminal
<1>3. \A r \in reports : r.binding \in Bindings
  BY DEF MeteringInvariant, TypeOK
<1>4. \A r \in reports : /\ seen[r.binding] >= 2
                         /\ \A i \in DOMAIN queue' :
                              settled + i > r.through => ~Reports(i, r.binding)'
  BY <1>2, <1>3 DEF MeteringInvariant, Orders
<1>5. \A b \in Bindings : watermark[b] # NoWatermark =>
         /\ seen[b] >= 2
         /\ \A i \in DOMAIN queue' : settled + i > watermark[b] => ~Reports(i, b)'
  BY <1>2 DEF MeteringInvariant, Orders
<1>6. \A c \in commands :
        IF c.type = "ENSURE_USER" THEN c.revision = 1
        ELSE c.revision >= 2 /\ status[c.binding] # "active"
  BY DEF MeteringInvariant, Orders
<1>7. Orders'
  BY <1>4, <1>5, <1>6 DEF Orders, Reports
<1> QED  BY <1>1, <1>7

(* The sampling ticker keeps the invariant. *)
LEMMA KeepsSample ==
    ASSUME MeteringInvariant, TypeOK', Sample
    PROVE  MeteringInvariant'
<1> USE DEF xrayVars, agentVars, ledgerVars, serverVars, ghostVars, countVars
<1>1. PICK cut \in SUBSET Readable :
        /\ RecordSample(cut)
        /\ op' = IF cut = {} THEN Idle ELSE Handler("exhausted", cut, {}, NoRevision)
  BY DEF Sample
<1>2. UNCHANGED <<seen, settled, snapshot, status, watermark, revision, commands, reports>>
  BY DEF Sample
<1>3. op'.kind \in {"idle", "exhausted"}
  BY <1>1 DEF Idle, Handler
<1>4. ASSUME NEW b \in Bindings PROVE Terminal(b)'
  BY <1>1, <1>2, <1>3, RecordKeeps DEF MeteringInvariant, Terminal
<1> QED  BY <1>1, <1>2, <1>4, RecordKeeps DEF MeteringInvariant

(* The sample before a terminal command keeps the invariant. *)
LEMMA KeepsBeginTerminal ==
    ASSUME MeteringInvariant, TypeOK', NEW c \in commands, BeginTerminal(c)
    PROVE  MeteringInvariant'
<1> USE DEF xrayVars, agentVars, ledgerVars, serverVars, ghostVars, countVars
<1>1. PICK cut \in SUBSET Readable :
        /\ RecordSample(cut)
        /\ op' = Handler(c.type, cut \cup {c.binding}, {},
                         [NoRevision EXCEPT ![c.binding] = c.revision])
  BY DEF BeginTerminal
<1>2. UNCHANGED <<seen, settled, snapshot, status, watermark, revision, commands, reports>>
  BY DEF BeginTerminal
<1>3. /\ c \in Commands /\ c.type # "ENSURE_USER"
      /\ c.revision >= 2 /\ status[c.binding] # "active"
  BY DEF BeginTerminal, MeteringInvariant, TypeOK, Orders
<1>4. /\ op'.kind # "refresh"
      /\ \A b \in Bindings : op'.at[b] # 0 => b = c.binding /\ op'.at[b] = c.revision
  BY <1>1, <1>3 DEF Handler, Commands, NoRevision
<1>5. ASSUME NEW b \in Bindings PROVE Terminal(b)'
  BY <1>1, <1>2, <1>3, <1>4, RecordKeeps DEF MeteringInvariant, Terminal
<1> QED  BY <1>1, <1>2, <1>5, RecordKeeps DEF MeteringInvariant

(* Fetching the active bindings and sampling before a refresh keeps it. *)
LEMMA KeepsBeginRefresh ==
    ASSUME MeteringInvariant, TypeOK', BeginRefresh
    PROVE  MeteringInvariant'
<1> USE DEF xrayVars, agentVars, ledgerVars, serverVars, ghostVars, countVars
<1> DEFINE want    == {b \in Bindings : status[b] = "active"}
           omitted == {b \in Bindings \ want : HasRow(b)}
<1>1. UNCHANGED <<seen, settled, snapshot, status, watermark, revision, commands, reports>>
  BY DEF BeginRefresh
<1>2. op'.kind = "refresh" /\ op'.on = omitted /\ op'.want = want /\ op'.at = revision
  BY DEF BeginRefresh, Handler
<1>3. /\ Orders'
      /\ \A b \in Bindings : /\ Chain(b)'
                             /\ HasRow(b)' <=> HasRow(b)
                             /\ Enabled(b)' => Enabled(b)
  <2>1. CASE \E b \in omitted : Enabled(b)
    <3>1. PICK cut \in SUBSET Readable : RecordSample(cut)
      BY <2>1 DEF BeginRefresh
    <3> QED  BY <1>1, <3>1, RecordKeeps
  <2>2. CASE ~\E b \in omitted : Enabled(b)
    <3>1. UNCHANGED <<row, queue>>
      BY <2>2 DEF BeginRefresh
    <3>2. Orders'
      BY <1>1, <3>1 DEF MeteringInvariant, Orders, Reports
    <3>3. ASSUME NEW b \in Bindings PROVE Chain(b)'
      BY <1>1, <3>1 DEF MeteringInvariant, Chain, Untouched, HasRow, Reports
    <3> QED  BY <3>1, <3>2, <3>3 DEF HasRow, Enabled
  <2> QED  BY <2>1, <2>2
<1>4. ASSUME NEW b \in Bindings PROVE Terminal(b)'
  <2>1. Terminal(b) /\ revision[b] \in Nat /\ seen[b] \in Nat
    BY DEF MeteringInvariant, TypeOK
  <2> QED  BY <1>1, <1>2, <1>3, <2>1 DEF Terminal
<1> QED  BY <1>3, <1>4 DEF MeteringInvariant

(* A row with the metering columns of an earlier one continues its chain. *)
LEMMA SameBaseline ==
    ASSUME NEW b \in Bindings, Chain(b), HasRow(b), HasRow(b)',
           row'[b].gen = row[b].gen, row'[b].ctr = row[b].ctr, row'[b].init = row[b].init,
           UNCHANGED <<queue, snapshot>>
    PROVE  Chain(b)'
BY DEF Chain, Follows, Untouched, Reports

(* A first row is inserted only for a binding that was never metered. *)
LEMMA FirstRow ==
    ASSUME NEW b \in Bindings, Untouched(b), row'[b] = NewRow, UNCHANGED <<queue, snapshot>>
    PROVE  Chain(b)'
BY DEF Chain, Follows, Untouched, Reports, NewRow, Zero, Lower

(* ensureUser inserts a row only for a binding that was never taken down. *)
LEMMA KeepsEnsureUser ==
    ASSUME MeteringInvariant, TypeOK', NEW c \in commands, EnsureUser(c)
    PROVE  MeteringInvariant'
<1> USE DEF xrayVars, agentVars, ledgerVars, serverVars, ghostVars, countVars
<1>1. /\ op = Idle /\ c.type = "ENSURE_USER"
      /\ UNCHANGED <<op, queue, settled, snapshot, status, watermark, revision, reports>>
      /\ commands' \subseteq commands
  BY DEF EnsureUser
<1>2. op.kind = "idle"
  BY <1>1 DEF Idle, Handler
<1>3. c.revision = 1 /\ c.binding \in Bindings
  BY <1>1 DEF MeteringInvariant, Orders, TypeOK, Commands
<1>4. CASE UNCHANGED <<row, seen>>
  <2>1. Orders'
    BY <1>1, <1>4 DEF MeteringInvariant, Orders, Reports
  <2>2. ASSUME NEW b \in Bindings PROVE Chain(b)' /\ Terminal(b)'
    BY <1>1, <1>4 DEF MeteringInvariant, Chain, Terminal, Untouched, HasRow, Enabled, Reports
  <2> QED  BY <2>1, <2>2 DEF MeteringInvariant
<1>5. CASE ~Superseded(c)
  <2> DEFINE b == c.binding
  <2>1. /\ row' = [row EXCEPT ![b] = IF @ = NoRow THEN NewRow
                                     ELSE [@ EXCEPT !.enabled = TRUE]]
        /\ seen' = [seen EXCEPT ![b] = 1]
    BY <1>3, <1>5 DEF EnsureUser
  <2>2. seen[b] <= 1 /\ seen'[b] = 1 /\ seen[b] \in Nat
    <3>1. seen \in [Bindings -> Nat]
      BY DEF MeteringInvariant, TypeOK
    <3>2. ~(c.revision < seen[b])
      BY <1>5 DEF Superseded
    <3> QED  BY <1>3, <2>1, <3>1, <3>2
  <2>3. Orders'
    <3>1. /\ \A r \in reports : r.binding # b
          /\ watermark[b] = NoWatermark
      BY <1>3, <2>2 DEF MeteringInvariant, Orders
    <3> QED  BY <1>1, <2>1, <3>1 DEF MeteringInvariant, Orders, Reports
  <2>4. ASSUME NEW x \in Bindings, x # b PROVE Chain(x)' /\ Terminal(x)'
    <3>1. row'[x] = row[x] /\ seen'[x] = seen[x]
      BY <2>1, <2>4 DEF MeteringInvariant, TypeOK
    <3> QED  BY <1>1, <3>1
             DEF MeteringInvariant, Chain, Terminal, Untouched, HasRow, Enabled, Reports
  <2>5. Terminal(b)'
    BY <1>1, <1>2, <1>3, <2>2 DEF MeteringInvariant, Terminal
  <2>6. Chain(b)'
    <3>1. Chain(b)
      BY <1>3 DEF MeteringInvariant
    <3>2. CASE row[b] = NoRow
      <4>1. Untouched(b)
        BY <2>2, <3>1, <3>2 DEF Chain, HasRow
      <4>2. row'[b] = NewRow
        BY <1>3, <2>1, <3>2 DEF MeteringInvariant, TypeOK
      <4> QED  BY <1>1, <1>3, <4>1, <4>2, FirstRow
    <3>3. CASE row[b] # NoRow
      <4>1. row[b] \in Rows /\ row'[b] = [row[b] EXCEPT !.enabled = TRUE]
        BY <1>3, <2>1, <3>3 DEF MeteringInvariant, TypeOK
      <4>2. /\ row'[b].gen = row[b].gen /\ row'[b].ctr = row[b].ctr
            /\ row'[b].init = row[b].init /\ row'[b] \in Rows
        BY <4>1 DEF Rows
      <4>3. HasRow(b) /\ HasRow(b)'
        BY <3>3, <4>2, MeteringAssumption DEF HasRow, Rows, Counter
      <4> QED  BY <1>1, <1>3, <3>1, <4>2, <4>3, SameBaseline
    <3> QED  BY <3>2, <3>3
  <2> QED  BY <2>3, <2>4, <2>5, <2>6 DEF MeteringInvariant
<1> QED  BY <1>4, <1>5 DEF EnsureUser

(* terminalUser reports a boundary that covers every recorded batch. *)
LEMMA KeepsFinishTerminal ==
    ASSUME MeteringInvariant, TypeOK', FinishTerminal
    PROVE  MeteringInvariant'
<1> USE DEF xrayVars, agentVars, ledgerVars, serverVars, ghostVars, countVars
<1>1. PICK b \in op.on :
        /\ op.kind \in {"DISABLE_USER", "REMOVE_USER"} /\ op.at[b] # 0
        /\ op' = Idle
        /\ IF op.at[b] < seen[b]
           THEN UNCHANGED <<row, seen>>
           ELSE /\ row' = [row EXCEPT ![b] =
                            IF @ = NoRow \/ op.kind = "REMOVE_USER" THEN NoRow
                            ELSE [@ EXCEPT !.enabled = FALSE]]
                /\ seen' = [seen EXCEPT ![b] = op.at[b]]
        /\ commands' \subseteq commands
        /\ reports' = reports \cup {[binding |-> b, through |-> Boundary]}
        /\ UNCHANGED <<queue, settled, snapshot, status, watermark, revision>>
  BY DEF FinishTerminal
<1>2. /\ b \in Bindings /\ op.at[b] \in Nat /\ seen[b] \in Nat
      /\ settled \in Nat /\ Len(queue) \in Nat /\ DOMAIN queue = 1 .. Len(queue)
  BY DEF MeteringInvariant, TypeOK, Handlers
<1>3. op.at[b] >= 2 /\ status[b] # "active"
  BY <1>1, <1>2 DEF MeteringInvariant, Terminal
<1>4. op'.kind = "idle"
  BY <1>1 DEF Idle, Handler
<1>5. seen'[b] >= 2 /\ \A x \in Bindings : x # b => seen'[x] = seen[x] /\ row'[x] = row[x]
  <2>1. row \in [Bindings -> Rows \cup {NoRow}] /\ seen \in [Bindings -> Nat]
    BY DEF MeteringInvariant, TypeOK
  <2>2. CASE op.at[b] < seen[b]
    BY <1>1, <1>2, <1>3, <2>2
  <2>3. CASE ~(op.at[b] < seen[b])
    <3>1. seen' = [seen EXCEPT ![b] = op.at[b]]
      BY <1>1, <2>3
    <3>2. \A x \in Bindings : x # b => row'[x] = row[x]
      BY <1>1, <2>1, <2>3
    <3> QED  BY <1>2, <1>3, <2>1, <3>1, <3>2
  <2> QED  BY <2>2, <2>3
<1>6. Orders'
  <2>1. \A i \in DOMAIN queue : ~(settled + i > Boundary)
    BY <1>2 DEF Boundary
  <2>2. \A x \in Bindings : seen[x] >= 2 => seen'[x] >= 2
    BY <1>5
  <2>3. \A r \in reports' :
          /\ seen'[r.binding] >= 2
          /\ \A i \in DOMAIN queue : settled + i > r.through => ~Reports(i, r.binding)
    <3>1. \A r \in reports :
            /\ r.binding \in Bindings /\ seen[r.binding] >= 2
            /\ \A i \in DOMAIN queue : settled + i > r.through => ~Reports(i, r.binding)
      BY DEF MeteringInvariant, TypeOK, Orders
    <3> QED  BY <1>1, <1>5, <2>1, <2>2, <3>1
  <2>4. \A x \in Bindings : watermark[x] # NoWatermark =>
          /\ seen'[x] >= 2
          /\ \A i \in DOMAIN queue : settled + i > watermark[x] => ~Reports(i, x)
    BY <2>2 DEF MeteringInvariant, Orders
  <2>5. \A c \in commands' :
          IF c.type = "ENSURE_USER" THEN c.revision = 1
          ELSE c.revision >= 2 /\ status[c.binding] # "active"
    BY <1>1 DEF MeteringInvariant, Orders
  <2> QED  BY <1>1, <2>3, <2>4, <2>5 DEF Orders, Reports
<1>7. ASSUME NEW x \in Bindings, x # b PROVE Chain(x)' /\ Terminal(x)'
  BY <1>1, <1>4, <1>5, <1>7
     DEF MeteringInvariant, Chain, Terminal, Untouched, HasRow, Enabled, Reports
<1>8. Chain(b)' /\ Terminal(b)'
  <2>0. Chain(b) /\ Terminal(b)
    BY <1>2 DEF MeteringInvariant
  <2>1. CASE op.at[b] < seen[b]
    BY <1>1, <1>4, <2>0, <2>1
       DEF Chain, Terminal, Untouched, HasRow, Enabled, Reports
  <2>2. CASE ~(op.at[b] < seen[b]) /\ row'[b] = NoRow
    <3>1. Chain(b)'
      <4>1. UNCHANGED <<queue, snapshot>> /\ ~(seen'[b] <= 1)
        BY <1>1, <1>2, <1>3, <1>5, <2>2 DEF MeteringInvariant, TypeOK
      <4> QED  BY <2>0, <2>2, <4>1 DEF Chain, HasRow, Reports
    <3>2. Terminal(b)'
      BY <1>1, <1>3, <1>4, <2>0, <2>2 DEF Terminal, HasRow, Enabled
    <3> QED  BY <3>1, <3>2
  <2>3. CASE ~(op.at[b] < seen[b]) /\ row'[b] # NoRow
    <3>1. row[b] \in Rows /\ row'[b] = [row[b] EXCEPT !.enabled = FALSE]
      BY <1>1, <1>2, <2>3 DEF MeteringInvariant, TypeOK
    <3>2. /\ row'[b].gen = row[b].gen /\ row'[b].ctr = row[b].ctr
          /\ row'[b].init = row[b].init /\ row'[b].enabled = FALSE
      BY <3>1 DEF Rows
    <3>3. HasRow(b) /\ HasRow(b)'
      BY <2>3, <3>1, MeteringAssumption DEF HasRow, Rows, Counter
    <3>4. Chain(b)'
      BY <1>1, <1>2, <2>0, <3>2, <3>3, SameBaseline
    <3>5. Terminal(b)'
      BY <1>1, <1>3, <1>4, <2>0, <3>2 DEF Terminal, Enabled
    <3> QED  BY <3>4, <3>5
  <2> QED  BY <2>1, <2>2, <2>3
<1> QED  BY <1>6, <1>7, <1>8 DEF MeteringInvariant

(* A refresh deletes only rows of bindings that were ordered down. *)
LEMMA KeepsFinishRefresh ==
    ASSUME MeteringInvariant, TypeOK', FinishRefresh
    PROVE  MeteringInvariant'
<1> USE DEF xrayVars, agentVars, ledgerVars, serverVars, ghostVars, countVars
<1>1. PICK restored \in SUBSET {b \in op.want : HasRow(b) /\ ~Enabled(b)} :
        /\ op.kind = "refresh"
        /\ row' = [b \in Bindings |->
                    IF b \in op.on THEN NoRow
                    ELSE IF b \in op.want /\ ~HasRow(b) THEN NewRow
                    ELSE IF b \in restored THEN [row[b] EXCEPT !.enabled = TRUE]
                    ELSE row[b]]
        /\ seen' = [b \in Bindings |-> IF seen[b] < op.at[b] THEN op.at[b] ELSE seen[b]]
        /\ op' = Idle
        /\ UNCHANGED <<queue, settled, snapshot, status, watermark, revision, commands,
                       reports>>
  BY DEF FinishRefresh
<1>2. op'.kind = "idle"
  BY <1>1 DEF Idle, Handler
<1>3. ASSUME NEW b \in Bindings
      PROVE  /\ seen[b] \in Nat /\ op.at[b] \in Nat
             /\ seen'[b] = IF seen[b] < op.at[b] THEN op.at[b] ELSE seen[b]
             /\ Chain(b) /\ Terminal(b)
  BY <1>1 DEF MeteringInvariant, TypeOK, Handlers
<1>4. Orders'
  <2>1. \A b \in Bindings : seen[b] >= 2 => seen'[b] >= 2
    BY <1>3
  <2> QED  BY <1>1, <2>1 DEF MeteringInvariant, TypeOK, Orders, Reports
<1>5. ASSUME NEW b \in Bindings PROVE Chain(b)' /\ Terminal(b)'
  <2>1. CASE b \in op.on
    <3>1. row'[b] = NoRow /\ ~(seen'[b] <= 1) /\ status[b] # "active"
      BY <1>1, <1>3, <2>1 DEF Terminal
    <3>2. Chain(b)'
      BY <1>1, <1>3, <3>1 DEF Chain, HasRow, Reports
    <3> QED  BY <1>1, <1>2, <1>3, <3>1, <3>2 DEF Terminal, HasRow, Enabled
  <2>2. CASE b \notin op.on /\ b \in op.want /\ ~HasRow(b)
    <3>1. row'[b] = NewRow /\ seen[b] <= 1 /\ seen'[b] <= 1
      BY <1>1, <1>3, <2>2 DEF Terminal
    <3>2. Untouched(b)
      BY <1>3, <2>2, <3>1 DEF Chain
    <3>3. Chain(b)'
      BY <1>1, <3>1, <3>2, FirstRow
    <3>4. Terminal(b)'
      BY <1>1, <1>2, <1>3, <3>1 DEF Terminal
    <3> QED  BY <3>3, <3>4
  <2>3. CASE b \notin op.on /\ b \in restored
    <3>1. b \in op.want /\ HasRow(b) /\ seen[b] <= 1 /\ seen'[b] <= 1
      BY <1>1, <1>3, <2>3 DEF Terminal
    <3>2. row[b] \in Rows /\ row'[b] = [row[b] EXCEPT !.enabled = TRUE]
      BY <1>1, <2>3, <3>1 DEF HasRow, MeteringInvariant, TypeOK
    <3>3. /\ row'[b].gen = row[b].gen /\ row'[b].ctr = row[b].ctr
          /\ row'[b].init = row[b].init /\ row'[b] \in Rows
      BY <3>2 DEF Rows
    <3>4. HasRow(b)'
      BY <3>3, MeteringAssumption DEF HasRow, Rows, Counter
    <3>5. Chain(b)'
      BY <1>1, <1>3, <3>1, <3>3, <3>4, SameBaseline
    <3>6. Terminal(b)'
      BY <1>1, <1>2, <1>3, <3>1 DEF Terminal
    <3> QED  BY <3>5, <3>6
  <2>4. CASE b \notin op.on /\ b \notin restored /\ ~(b \in op.want /\ ~HasRow(b))
    <3>1. row'[b] = row[b]
      BY <1>1, <2>4
    <3>2. seen'[b] >= 2 => status[b] # "active" /\ ~Enabled(b)
      BY <1>1, <1>3, <2>4 DEF Terminal, Enabled
    <3>3. Terminal(b)'
      BY <1>1, <1>2, <1>3, <3>1, <3>2 DEF Terminal, Enabled, HasRow
    <3>4. seen'[b] <= 1 => seen[b] <= 1
      BY <1>3
    <3>5. Chain(b)'
      BY <1>1, <1>3, <3>1, <3>4 DEF Chain, Untouched, HasRow, Reports
    <3> QED  BY <3>3, <3>5
  <2> QED  BY <2>1, <2>2, <2>3, <2>4
<1> QED  BY <1>4, <1>5 DEF MeteringInvariant

(* An order to take bindings down: statuses only leave "active", the revision  *)
(* of a terminal order is at least 2, and boundaries are only forgotten.       *)
LEMMA OrderKeeps ==
    ASSUME MeteringInvariant, NEW bs \in SUBSET Bindings, NEW type, NEW st,
           type # "ENSURE_USER", st # "active",
           Order(bs, type, st), UNCHANGED <<row, seen, op>>
    PROVE  /\ \A b \in Bindings : Terminal(b)'
           /\ \A c \in commands' :
                IF c.type = "ENSURE_USER" THEN c.revision = 1
                ELSE c.revision >= 2 /\ status'[c.binding] # "active"
           /\ \A b \in Bindings :
                watermark'[b] # NoWatermark => watermark'[b] = watermark[b]
<1>1. ASSUME NEW b \in Bindings
      PROVE  /\ status'[b] = IF b \in bs THEN st ELSE status[b]
             /\ revision'[b] = IF b \in bs THEN revision[b] + 1 ELSE revision[b]
             /\ watermark'[b] = IF b \in bs THEN NoWatermark ELSE watermark[b]
             /\ revision[b] \in Nat /\ revision[b] >= 1
             /\ Terminal(b)
  <2>1. revision[b] \in Nat /\ Terminal(b)
    BY DEF MeteringInvariant, TypeOK
  <2>2. revision[b] >= 1
    BY <2>1 DEF Terminal
  <2> QED  BY <2>1, <2>2 DEF Order
<1>2. ASSUME NEW b \in Bindings PROVE Terminal(b)'
  <2>1. IF status'[b] = "active" THEN revision'[b] = 1 ELSE revision'[b] >= 2
    BY <1>1 DEF Terminal
  <2>2. status[b] # "active" => status'[b] # "active"
    BY <1>1
  <2> QED  BY <1>1, <2>1, <2>2 DEF Terminal, Enabled, HasRow
<1>3. ASSUME NEW c \in commands'
      PROVE  IF c.type = "ENSURE_USER" THEN c.revision = 1
             ELSE c.revision >= 2 /\ status'[c.binding] # "active"
  <2>1. CASE c \in commands
    <3>1. c.binding \in Bindings
      BY <2>1 DEF MeteringInvariant, TypeOK, Commands
    <3> QED  BY <1>1, <2>1, <3>1 DEF MeteringInvariant, Orders
  <2>2. CASE c \notin commands
    <3>1. PICK b \in bs : c = [binding |-> b, type |-> type, revision |-> revision[b] + 1]
      BY <2>2 DEF Order
    <3>2. c.binding = b /\ c.type = type /\ c.revision = revision[b] + 1
      BY <3>1
    <3>3. c.revision >= 2 /\ status'[b] # "active"
      BY <1>1, <3>2
    <3> QED  BY <3>2, <3>3
  <2> QED  BY <2>1, <2>2
<1> QED  BY <1>1, <1>2, <1>3

(* Disabling or deleting a subscription's bindings. *)
LEMMA KeepsTakeDown ==
    ASSUME MeteringInvariant, TypeOK', NEW s \in Subscriptions,
           DisableSubscription(s) \/ DeleteSubscription(s)
    PROVE  MeteringInvariant'
<1> USE DEF xrayVars, agentVars, ledgerVars, serverVars, ghostVars, countVars
<1>1. UNCHANGED <<row, seen, op, queue, settled, snapshot, reports>>
  BY DEF DisableSubscription, DeleteSubscription
<1>2. \E bs \in SUBSET Bindings : \/ Order(bs, "DISABLE_USER", "disabled")
                                  \/ Order(bs, "REMOVE_USER", "deleted")
  BY DEF DisableSubscription, DeleteSubscription
<1>3. /\ \A b \in Bindings : Terminal(b)'
      /\ \A c \in commands' :
           IF c.type = "ENSURE_USER" THEN c.revision = 1
           ELSE c.revision >= 2 /\ status'[c.binding] # "active"
      /\ \A b \in Bindings : watermark'[b] # NoWatermark => watermark'[b] = watermark[b]
  BY <1>1, <1>2, OrderKeeps
<1>4. Orders'
  BY <1>1, <1>3 DEF MeteringInvariant, Orders, Reports
<1>5. ASSUME NEW b \in Bindings PROVE Chain(b)'
  BY <1>1 DEF MeteringInvariant, Chain, Untouched, HasRow, Reports
<1> QED  BY <1>3, <1>4, <1>5 DEF MeteringInvariant

(* A boundary that arrives was a boundary when it was reported and still is. *)
LEMMA KeepsComplete ==
    ASSUME MeteringInvariant, TypeOK', CompleteCommand
    PROVE  MeteringInvariant'
<1> USE DEF xrayVars, agentVars, ledgerVars, serverVars, ghostVars, countVars
<1>1. PICK r \in reports : /\ watermark' = [watermark EXCEPT ![r.binding] = r.through]
                           /\ reports' = reports \ {r}
  BY DEF CompleteCommand
<1>2. UNCHANGED <<row, seen, op, queue, settled, snapshot, status, revision, commands>>
  BY DEF CompleteCommand
<1>3. Orders'
  <2>1. \A b \in Bindings : watermark'[b] # NoWatermark =>
          /\ seen[b] >= 2
          /\ \A i \in DOMAIN queue : settled + i > watermark'[b] => ~Reports(i, b)
    <3>1. \A b \in Bindings : watermark'[b] = IF b = r.binding THEN r.through
                                                              ELSE watermark[b]
      BY <1>1 DEF MeteringInvariant, TypeOK
    <3>2. /\ seen[r.binding] >= 2
          /\ \A i \in DOMAIN queue : settled + i > r.through => ~Reports(i, r.binding)
      BY <1>1 DEF MeteringInvariant, Orders
    <3>3. \A b \in Bindings : watermark[b] # NoWatermark =>
            /\ seen[b] >= 2
            /\ \A i \in DOMAIN queue : settled + i > watermark[b] => ~Reports(i, b)
      BY DEF MeteringInvariant, Orders
    <3> QED  BY <3>1, <3>2, <3>3
  <2> QED  BY <1>1, <1>2, <2>1 DEF MeteringInvariant, Orders, Reports
<1>4. ASSUME NEW b \in Bindings PROVE Chain(b)' /\ Terminal(b)'
  BY <1>2 DEF MeteringInvariant, Chain, Terminal, Untouched, HasRow, Enabled, Reports
<1> QED  BY <1>3, <1>4 DEF MeteringInvariant

(* Accounting takes the head of every chain. *)
LEMMA KeepsAccount ==
    ASSUME MeteringInvariant, TypeOK', Account
    PROVE  MeteringInvariant'
<1> USE DEF xrayVars, agentVars, ledgerVars, serverVars, ghostVars, countVars
<1> DEFINE accepted == {b \in Bindings : Head(queue)[b] # NoSample /\ Accepted(b)}
<1>1. /\ queue # <<>> /\ queue' = Tail(queue) /\ settled' = settled + 1
      /\ snapshot' = [b \in Bindings |->
                       IF b \in accepted THEN [gen |-> Head(queue)[b].gen,
                                               ctr |-> Head(queue)[b].ctr]
                                         ELSE snapshot[b]]
      /\ UNCHANGED <<row, seen, op, reports>>
  BY DEF Account
<1>2. \E bs \in SUBSET Bindings : Order(bs, "DISABLE_USER", "disabled")
  BY DEF Account
<1>3. /\ \A b \in Bindings : Terminal(b)'
      /\ \A c \in commands' :
           IF c.type = "ENSURE_USER" THEN c.revision = 1
           ELSE c.revision >= 2 /\ status'[c.binding] # "active"
      /\ \A b \in Bindings : watermark'[b] # NoWatermark => watermark'[b] = watermark[b]
  BY <1>1, <1>2, OrderKeeps
<1>4. queue \in Seq(Batches) /\ settled \in Nat
  BY DEF MeteringInvariant, TypeOK
<1>5. /\ \A i \in DOMAIN queue' : i \in Nat /\ i + 1 \in DOMAIN queue /\ queue'[i] = queue[i + 1]
      /\ 1 \in DOMAIN queue /\ Head(queue) = queue[1]
      /\ \A i \in DOMAIN queue' : i >= 1
  BY <1>1, <1>4
<1>6. \A i \in DOMAIN queue', b \in Bindings : Reports(i, b)' => Reports(i + 1, b)
  BY <1>5 DEF Reports
<1>7. Orders'
  <2>1. \A i \in DOMAIN queue' : settled' + i = settled + (i + 1)
    BY <1>1, <1>4, <1>5
  <2>2. \A r \in reports : r.binding \in Bindings
    BY DEF MeteringInvariant, TypeOK
  <2>3. \A r \in reports' :
          /\ seen'[r.binding] >= 2
          /\ \A i \in DOMAIN queue' : settled' + i > r.through => ~Reports(i, r.binding)'
    BY <1>1, <1>5, <1>6, <2>1, <2>2 DEF MeteringInvariant, Orders
  <2>4. \A b \in Bindings : watermark'[b] # NoWatermark =>
          /\ seen'[b] >= 2
          /\ \A i \in DOMAIN queue' : settled' + i > watermark'[b] => ~Reports(i, b)'
    BY <1>1, <1>3, <1>5, <1>6, <2>1 DEF MeteringInvariant, Orders
  <2> QED  BY <1>3, <2>3, <2>4 DEF Orders, Reports
<1>8. ASSUME NEW b \in Bindings PROVE Chain(b)'
  <2>0. Chain(b)
    BY DEF MeteringInvariant
  <2>1. CASE b \in accepted
    <3>1. Reports(1, b) /\ snapshot'[b] = [gen |-> queue[1][b].gen, ctr |-> queue[1][b].ctr]
      BY <1>1, <1>5, <2>1 DEF Reports
    <3>2. /\ \A i \in DOMAIN queue' : Reports(i, b)' => Follows(queue[1][b], queue'[i][b])
          /\ HasRow(b) => Follows(queue[1][b], row[b]) /\ row[b].init
          /\ ~HasRow(b) => ~(seen[b] <= 1)
      BY <1>5, <1>6, <2>0, <3>1 DEF Chain, Untouched
    <3>3. /\ \A i \in DOMAIN queue' : Reports(i, b)' => Follows(snapshot'[b], queue'[i][b])
          /\ HasRow(b) => Follows(snapshot'[b], row[b])
      BY <3>1, <3>2 DEF Follows
    <3>4. \A i \in DOMAIN queue' : Reports(i, b)' =>
            /\ HasRow(b) => Follows(queue'[i][b], row[b])
            /\ \A j \in DOMAIN queue' : i < j /\ Reports(j, b)'
                                          => Follows(queue'[i][b], queue'[j][b])
      BY <1>5, <1>6, <2>0 DEF Chain
    <3> QED  BY <1>1, <3>2, <3>3, <3>4 DEF Chain, HasRow
  <2>2. CASE b \notin accepted
    <3>1. snapshot'[b] = snapshot[b]
      BY <1>1, <2>2
    <3>2. \A i \in DOMAIN queue' : Reports(i, b)' =>
            /\ Follows(snapshot[b], queue'[i][b])
            /\ HasRow(b) => Follows(queue'[i][b], row[b])
            /\ \A j \in DOMAIN queue' : i < j /\ Reports(j, b)'
                                          => Follows(queue'[i][b], queue'[j][b])
      BY <1>5, <1>6, <2>0 DEF Chain
    <3>3. Untouched(b) => Untouched(b)'
      BY <1>5, <1>6, <3>1 DEF Untouched
    <3> QED  BY <1>1, <2>0, <3>1, <3>2, <3>3 DEF Chain, HasRow
  <2> QED  BY <2>1, <2>2
<1> QED  BY <1>3, <1>7, <1>8 DEF MeteringInvariant

(* Fresh bindings have been neither metered nor ordered down. *)
LEMMA MeteringInit == Init => MeteringInvariant
<1> SUFFICES ASSUME Init PROVE MeteringInvariant
  OBVIOUS
<1>1. TypeOK
  BY TypeInit
<1>2. Orders
  BY DEF Init, Orders
<1>3. ASSUME NEW b \in Bindings PROVE Chain(b) /\ Terminal(b)
  BY DEF Init, Chain, Terminal, Untouched, HasRow, Enabled, Idle, Handler, NoRevision
<1> QED  BY <1>1, <1>2, <1>3 DEF MeteringInvariant

(* One step per action other than Reactivate. *)
LEMMA MeteringStep ==
    ASSUME MeteringInvariant, [Next]_vars, ~\E b \in Bindings : Reactivate(b)
    PROVE  MeteringInvariant'
<1>0. TypeOK'
  BY TypeStep DEF MeteringInvariant
<1> USE DEF xrayVars, agentVars, ledgerVars, serverVars, ghostVars, countVars
<1>1. CASE UNCHANGED vars
  BY <1>0, <1>1, FrameKeeps DEF vars
<1>2. CASE Traffic \/ PanelReset \/ XrayRestart \/ UninstallExhausted \/ Fail \/ Reconcile
  <2>1. UNCHANGED <<row, seen, queue, settled, snapshot, status, watermark, revision,
                    commands, reports>>
    BY <1>2 DEF Traffic, PanelReset, XrayRestart, UninstallExhausted, Fail, Reconcile
  <2>2. op' = op \/ op' = Idle
    BY <1>2 DEF Traffic, PanelReset, XrayRestart, UninstallExhausted, Fail, Reconcile
  <2>3. op' = op \/ op'.kind \in {"idle", "exhausted"}
    BY <2>2 DEF Idle, Handler
  <2> QED  BY <1>0, <2>1, <2>3, FrameKeeps
<1>3. CASE Sample
  BY <1>0, <1>3, KeepsSample
<1>4. CASE \E c \in commands : EnsureUser(c)
  BY <1>0, <1>4, KeepsEnsureUser
<1>5. CASE \E c \in commands : BeginTerminal(c)
  BY <1>0, <1>5, KeepsBeginTerminal
<1>6. CASE FinishTerminal
  BY <1>0, <1>6, KeepsFinishTerminal
<1>7. CASE BeginRefresh
  BY <1>0, <1>7, KeepsBeginRefresh
<1>8. CASE FinishRefresh
  BY <1>0, <1>8, KeepsFinishRefresh
<1>9. CASE Account
  BY <1>0, <1>9, KeepsAccount
<1>10. CASE \E s \in Subscriptions : DisableSubscription(s) \/ DeleteSubscription(s)
  BY <1>0, <1>10, KeepsTakeDown
<1>11. CASE CompleteCommand
  BY <1>0, <1>11, KeepsComplete
<1> QED  BY <1>1, <1>2, <1>3, <1>4, <1>5, <1>6, <1>7, <1>8, <1>9, <1>10, <1>11
         DEF Next

(***************************************************************************)
(* For bindings that are not brought back, the snapshot, the queued        *)
(* samples and the agent's baseline stay one ascending chain, and a        *)
(* reported boundary stays one, over any number of bindings, resets,       *)
(* crashes, batches and orders.                                            *)
(***************************************************************************)
THEOREM MeteringInvariantHolds ==
    ASSUME MaxReactivations = 0
    PROVE  Spec => []MeteringInvariant
<1>1. MeteringInvariant /\ [Next]_vars => MeteringInvariant'
  <2> SUFFICES ASSUME MeteringInvariant, [Next]_vars PROVE MeteringInvariant'
    OBVIOUS
  <2>1. reactivations \in Nat
    BY DEF MeteringInvariant, TypeOK
  <2>2. ASSUME NEW b \in Bindings, Reactivate(b) PROVE FALSE
    <3>1. reactivations < MaxReactivations
      BY <2>2 DEF Reactivate
    <3> QED  BY <2>1, <3>1
  <2> QED  BY <2>2, MeteringStep
<1> QED  BY <1>1, MeteringInit, PTL DEF Spec

(***************************************************************************)
(* applyDirectBatch never refuses the oldest unsettled batch for a counter *)
(* going backwards, so the node's metering always advances.                *)
(***************************************************************************)
THEOREM HeadAccountableHolds ==
    ASSUME MaxReactivations = 0
    PROVE  Spec => []HeadAccountable
<1>1. MeteringInvariant => HeadAccountable
  <2> SUFFICES ASSUME MeteringInvariant, queue # <<>>, NEW b \in Bindings, Reports(1, b)
               PROVE  ~Conflict(b, queue[1][b])
    BY DEF HeadAccountable
  <2>1. queue \in Seq(Batches)
    BY DEF MeteringInvariant, TypeOK
  <2>2. 1 \in DOMAIN queue /\ queue[1] \in Batches
    BY <2>1
  <2>3. Follows(snapshot[b], queue[1][b])
    BY <2>2 DEF MeteringInvariant, Chain
  <2>4. queue[1][b].gen \in Nat /\ snapshot[b].gen \in Nat
    BY <2>2 DEF Batches, Samples, Reports, MeteringInvariant, TypeOK
  <2> QED  BY <2>3, <2>4 DEF Follows, Conflict
<1> QED  BY <1>1, MeteringInvariantHolds, PTL

(***************************************************************************)
(* What applyDirectBatch drops beyond a settlement boundary is nothing: no *)
(* batch after it reports the binding.                                     *)
(***************************************************************************)
THEOREM NothingBeyondBoundaryHolds ==
    ASSUME MaxReactivations = 0
    PROVE  Spec => []NothingBeyondBoundary
<1>1. MeteringInvariant => NothingBeyondBoundary
  BY DEF MeteringInvariant, Orders, NothingBeyondBoundary
<1> QED  BY <1>1, MeteringInvariantHolds, PTL

----------------------------------------------------------------------------
(***************************************************************************)
(* CaughtUp, with bindings brought back any number of times.  By itself it *)
(* is not inductive: it says nothing while a command is outstanding, which *)
(* is when it can be broken.  The strengthening follows revisions.  The    *)
(* newest order of a binding is either still outstanding or the agent has  *)
(* acted on it, and then the row agrees with the status; a handler that is *)
(* half way carries a revision that cannot be mistaken for a newer one.    *)
(***************************************************************************)

\* The command at a binding's newest revision asks for its present status.
CommandsAgree ==
    \A c \in commands :
        /\ c.revision <= revision[c.binding]
        /\ c.revision = revision[c.binding]
             => (c.type = "ENSURE_USER" <=> status[c.binding] = "active")

\* The newest order is outstanding, or the agent's row agrees with it.
Answered(b) ==
    /\ seen[b] <= revision[b]
    /\ seen[b] < revision[b]
         => \E c \in commands : c.binding = b /\ c.revision = revision[b]
    /\ seen[b] = revision[b]
         => IF status[b] = "active" THEN HasRow(b) ELSE ~Enabled(b)

\* What a handler brought from its first step is of the revision it names.
HandlerAgrees(b) ==
    /\ op.at[b] <= revision[b]
    /\ op.kind = "refresh" =>
        /\ seen[b] <= op.at[b]
        /\ op.at[b] = revision[b] => (b \in op.want <=> status[b] = "active")
        /\ b \in op.on => b \notin op.want
        /\ HasRow(b) => b \in op.want \/ b \in op.on
    /\ op.kind \in {"DISABLE_USER", "REMOVE_USER"} /\ op.at[b] # 0 /\ op.at[b] = revision[b]
         => status[b] # "active"

CatchInv == TypeOK /\ CommandsAgree /\ \A b \in Bindings : Answered(b) /\ HandlerAgrees(b)

(* What the proofs need of the types. *)
LEMMA CatchTypes ==
    ASSUME TypeOK
    PROVE  /\ revision \in [Bindings -> Nat] /\ seen \in [Bindings -> Nat]
           /\ row \in [Bindings -> Rows \cup {NoRow}]
           /\ op.at \in [Bindings -> Nat]
           /\ \A c \in commands : c.binding \in Bindings /\ c.revision \in Nat
           /\ NoRow \notin Rows
BY MeteringAssumption DEF TypeOK, Handlers, Commands, Rows, Counter

(* Recording a sample keeps which rows there are and enables none. *)
LEMMA RecordRows ==
    ASSUME TypeOK, NEW cut, RecordSample(cut), NEW b \in Bindings
    PROVE  /\ HasRow(b)' <=> HasRow(b)
           /\ Enabled(b)' => Enabled(b)
<1>1. row'[b] = IF b \in Readable THEN Fold(row[b], live[b], b \notin cut) ELSE row[b]
  BY DEF RecordSample
<1>2. CASE b \notin Readable
  BY <1>1, <1>2 DEF HasRow, Enabled
<1>3. CASE b \in Readable
  <2>1. HasRow(b) /\ Enabled(b)
    BY <1>3 DEF Readable, Enabled
  <2>2. row'[b] \in Rows
    <3>1. row[b] \in Rows /\ live[b] \in Counter
      BY <2>1 DEF TypeOK, HasRow
    <3> DEFINE g == IF RolledBack(row[b], live[b]) THEN row[b].gen + 1 ELSE row[b].gen
               e == b \notin cut
    <3>2. g \in Nat /\ e \in BOOLEAN
      BY <3>1 DEF Rows
    <3>3. row'[b] = [gen |-> g, init |-> TRUE, ctr |-> live[b], enabled |-> e]
      BY <1>1, <1>3 DEF Fold
    <3> HIDE DEF g, e
    <3> QED  BY <3>1, <3>2, <3>3 DEF Rows
  <2> QED  BY <2>1, <2>2, CatchTypes DEF HasRow
<1> QED  BY <1>2, <1>3

(* A step that leaves rows, orders and the agent's memory alone. *)
LEMMA FrameCatch ==
    ASSUME CatchInv, TypeOK',
           UNCHANGED <<seen, status, revision, commands>>,
           \A b \in Bindings : (HasRow(b)' <=> HasRow(b)) /\ (Enabled(b)' => Enabled(b)),
           op' = op \/ (op'.kind \in {"idle", "exhausted"} /\ op'.at = NoRevision)
    PROVE  CatchInv'
<1>1. CommandsAgree'
  BY DEF CatchInv, CommandsAgree
<1>2. ASSUME NEW b \in Bindings PROVE Answered(b)'
  BY DEF CatchInv, Answered
<1>3. ASSUME NEW b \in Bindings PROVE HandlerAgrees(b)'
  <2>1. HandlerAgrees(b) /\ revision[b] \in Nat
    BY CatchTypes DEF CatchInv
  <2>2. CASE op' = op
    BY <2>1, <2>2 DEF HandlerAgrees
  <2>3. CASE op'.kind \in {"idle", "exhausted"} /\ op'.at = NoRevision
    BY <2>1, <2>3 DEF HandlerAgrees, NoRevision
  <2> QED  BY <2>2, <2>3
<1> QED  BY <1>1, <1>2, <1>3 DEF CatchInv

(* The sampling ticker. *)
LEMMA CatchSample ==
    ASSUME CatchInv, TypeOK', Sample
    PROVE  CatchInv'
<1> USE DEF xrayVars, agentVars, ledgerVars, serverVars, ghostVars, countVars
<1>1. PICK cut \in SUBSET Readable :
        /\ RecordSample(cut)
        /\ op' = IF cut = {} THEN Idle ELSE Handler("exhausted", cut, {}, NoRevision)
  BY DEF Sample
<1>2. UNCHANGED <<seen, status, revision, commands>>
  BY DEF Sample
<1>3. op'.kind \in {"idle", "exhausted"} /\ op'.at = NoRevision
  BY <1>1 DEF Idle, Handler
<1>4. \A b \in Bindings : (HasRow(b)' <=> HasRow(b)) /\ (Enabled(b)' => Enabled(b))
  BY <1>1, RecordRows DEF CatchInv
<1> QED  BY <1>2, <1>3, <1>4, FrameCatch

(* A terminal handler carries the revision of its command. *)
LEMMA CatchBeginTerminal ==
    ASSUME CatchInv, TypeOK', NEW c \in commands, BeginTerminal(c)
    PROVE  CatchInv'
<1> USE DEF xrayVars, agentVars, ledgerVars, serverVars, ghostVars, countVars
<1>1. PICK cut \in SUBSET Readable :
        /\ RecordSample(cut)
        /\ op' = Handler(c.type, cut \cup {c.binding}, {},
                         [NoRevision EXCEPT ![c.binding] = c.revision])
  BY DEF BeginTerminal
<1>2. UNCHANGED <<seen, status, revision, commands>>
  BY DEF BeginTerminal
<1>3. /\ c \in Commands /\ c.type # "ENSURE_USER" /\ c.revision <= revision[c.binding]
      /\ c.revision = revision[c.binding] => status[c.binding] # "active"
  BY DEF BeginTerminal, CatchInv, TypeOK, CommandsAgree
<1>4. \A b \in Bindings : (HasRow(b)' <=> HasRow(b)) /\ (Enabled(b)' => Enabled(b))
  BY <1>1, RecordRows DEF CatchInv
<1>5. /\ op'.kind # "refresh"
      /\ \A b \in Bindings : op'.at[b] = IF b = c.binding THEN c.revision ELSE 0
  BY <1>1, <1>3 DEF Handler, Commands, NoRevision
<1>6. CommandsAgree'
  BY <1>2 DEF CatchInv, CommandsAgree
<1>7. ASSUME NEW b \in Bindings PROVE Answered(b)'
  BY <1>2, <1>4 DEF CatchInv, Answered
<1>8. ASSUME NEW b \in Bindings PROVE HandlerAgrees(b)'
  BY <1>2, <1>3, <1>5, CatchTypes DEF CatchInv, HandlerAgrees
<1> QED  BY <1>6, <1>7, <1>8 DEF CatchInv

(* A refresh carries the statuses and revisions of one reading. *)
LEMMA CatchBeginRefresh ==
    ASSUME CatchInv, TypeOK', BeginRefresh
    PROVE  CatchInv'
<1> USE DEF xrayVars, agentVars, ledgerVars, serverVars, ghostVars, countVars
<1> DEFINE want    == {b \in Bindings : status[b] = "active"}
           omitted == {b \in Bindings \ want : HasRow(b)}
<1>1. UNCHANGED <<seen, status, revision, commands>>
  BY DEF BeginRefresh
<1>2. op'.kind = "refresh" /\ op'.on = omitted /\ op'.want = want /\ op'.at = revision
  BY DEF BeginRefresh, Handler
<1>3. \A b \in Bindings : (HasRow(b)' <=> HasRow(b)) /\ (Enabled(b)' => Enabled(b))
  <2>1. CASE \E b \in omitted : Enabled(b)
    <3>1. PICK cut \in SUBSET Readable : RecordSample(cut)
      BY <2>1 DEF BeginRefresh
    <3> QED  BY <3>1, RecordRows DEF CatchInv
  <2>2. CASE ~\E b \in omitted : Enabled(b)
    <3>1. UNCHANGED row
      BY <2>2 DEF BeginRefresh
    <3> QED  BY <3>1 DEF HasRow, Enabled
  <2> QED  BY <2>1, <2>2
<1>4. CommandsAgree'
  BY <1>1 DEF CatchInv, CommandsAgree
<1>5. ASSUME NEW b \in Bindings PROVE Answered(b)'
  BY <1>1, <1>3 DEF CatchInv, Answered
<1>6. ASSUME NEW b \in Bindings PROVE HandlerAgrees(b)'
  <2>1. seen[b] <= revision[b] /\ revision[b] \in Nat
    BY CatchTypes DEF CatchInv, Answered
  <2> QED  BY <1>1, <1>2, <1>3, <2>1 DEF HandlerAgrees
<1> QED  BY <1>4, <1>5, <1>6 DEF CatchInv

(* ensureUser acts on an order only when none newer has been acted on. *)
LEMMA CatchEnsureUser ==
    ASSUME CatchInv, TypeOK', NEW c \in commands, EnsureUser(c)
    PROVE  CatchInv'
<1> USE DEF xrayVars, agentVars, ledgerVars, serverVars, ghostVars, countVars
<1>1. /\ op = Idle /\ c.type = "ENSURE_USER"
      /\ UNCHANGED <<op, status, revision>>
      /\ commands' = commands \/ commands' = commands \ {c}
  BY DEF EnsureUser
<1>2. /\ op.kind = "idle" /\ op.at = NoRevision
      /\ c.binding \in Bindings /\ c.revision \in Nat
  BY <1>1, CatchTypes DEF Idle, Handler, CatchInv
<1>3. /\ c.revision <= revision[c.binding]
      /\ c.revision = revision[c.binding] => status[c.binding] = "active"
  BY <1>1 DEF CatchInv, CommandsAgree
<1>4. CommandsAgree'
  BY <1>1 DEF CatchInv, CommandsAgree
<1>5. ASSUME NEW b \in Bindings PROVE HandlerAgrees(b)'
  BY <1>1, <1>2, CatchTypes DEF CatchInv, HandlerAgrees, NoRevision
<1>6. CASE Superseded(c)
  <2>1. UNCHANGED <<row, seen>>
    BY <1>6 DEF EnsureUser
  <2>2. ASSUME NEW b \in Bindings PROVE Answered(b)'
    <3>1. Answered(b) /\ seen[b] \in Nat /\ revision[b] \in Nat
      BY CatchTypes DEF CatchInv
    <3>2. (HasRow(b)' <=> HasRow(b)) /\ (Enabled(b)' <=> Enabled(b))
      BY <2>1 DEF HasRow, Enabled
    <3>3. ASSUME seen[b] < revision[b]
          PROVE  \E d \in commands' : d.binding = b /\ d.revision = revision[b]
      <4>1. PICK d \in commands : d.binding = b /\ d.revision = revision[b]
        BY <3>1, <3>3 DEF Answered
      <4>2. b = c.binding => c.revision <= seen[b]
        BY <1>2, <1>6, <3>1 DEF Superseded
      <4>3. d # c
        BY <1>2, <3>1, <3>3, <4>1, <4>2
      <4> QED  BY <1>1, <4>1, <4>3
    <3> QED  BY <1>1, <2>1, <3>1, <3>2, <3>3 DEF Answered
  <2> QED  BY <1>4, <1>5, <2>2 DEF CatchInv
<1>7. CASE ~Superseded(c)
  <2> DEFINE b == c.binding
  <2>1. /\ row' = [row EXCEPT ![b] = IF @ = NoRow THEN NewRow
                                     ELSE [@ EXCEPT !.enabled = TRUE]]
        /\ seen' = [seen EXCEPT ![b] = c.revision]
    BY <1>7 DEF EnsureUser
  <2>2. row'[b] \in Rows
    BY <1>2, <2>1, CatchTypes DEF CatchInv, Rows, NewRow, Zero, Counter
  <2>3. HasRow(b)'
    BY <2>2, CatchTypes DEF HasRow, CatchInv
  <2>4. seen'[b] = c.revision /\ Answered(b) /\ revision[b] \in Nat /\ seen[b] \in Nat
    BY <1>2, <2>1, CatchTypes DEF CatchInv
  <2>5. Answered(b)'
    <3>1. ASSUME c.revision < revision[b]
          PROVE  \E d \in commands' : d.binding = b /\ d.revision = revision[b]
      <4>1. seen[b] <= c.revision
        BY <1>2, <1>7, <2>4 DEF Superseded
      <4>2. PICK d \in commands : d.binding = b /\ d.revision = revision[b]
        BY <1>2, <2>4, <3>1, <4>1 DEF Answered
      <4>3. d # c
        BY <1>2, <2>4, <3>1, <4>2
      <4> QED  BY <1>1, <4>2, <4>3
    <3> QED  BY <1>1, <1>3, <2>3, <2>4, <3>1 DEF Answered
  <2>6. ASSUME NEW x \in Bindings, x # b PROVE Answered(x)'
    <3>1. row'[x] = row[x] /\ seen'[x] = seen[x] /\ Answered(x)
      BY <2>1, <2>6, CatchTypes DEF CatchInv
    <3>2. \A d \in commands : d.binding = x => d \in commands'
      BY <1>1, <2>6
    <3> QED  BY <1>1, <3>1, <3>2 DEF Answered, HasRow, Enabled
  <2> QED  BY <1>4, <1>5, <2>5, <2>6 DEF CatchInv
<1> QED  BY <1>6, <1>7

(* A terminal command is stale exactly when a newer order was acted on. *)
LEMMA CatchFinishTerminal ==
    ASSUME CatchInv, TypeOK', FinishTerminal
    PROVE  CatchInv'
<1> USE DEF xrayVars, agentVars, ledgerVars, serverVars, ghostVars, countVars
<1>1. PICK b \in op.on :
        /\ op.kind \in {"DISABLE_USER", "REMOVE_USER"} /\ op.at[b] # 0
        /\ op' = Idle
        /\ IF op.at[b] < seen[b]
           THEN UNCHANGED <<row, seen>>
           ELSE /\ row' = [row EXCEPT ![b] =
                            IF @ = NoRow \/ op.kind = "REMOVE_USER" THEN NoRow
                            ELSE [@ EXCEPT !.enabled = FALSE]]
                /\ seen' = [seen EXCEPT ![b] = op.at[b]]
        /\ commands' = {c \in commands : c.binding # b \/ c.revision # op.at[b]}
        /\ UNCHANGED <<status, revision>>
  BY DEF FinishTerminal
<1>2. /\ b \in Bindings /\ op.at[b] \in Nat /\ seen[b] \in Nat /\ revision[b] \in Nat
      /\ Answered(b)
  BY CatchTypes DEF CatchInv, TypeOK, Handlers
<1>3. op.at[b] <= revision[b] /\ (op.at[b] = revision[b] => status[b] # "active")
  BY <1>1, <1>2 DEF CatchInv, HandlerAgrees
<1>4. op'.kind = "idle" /\ op'.at = NoRevision
  BY <1>1 DEF Idle, Handler
<1>5. CommandsAgree'
  BY <1>1 DEF CatchInv, CommandsAgree
<1>6. ASSUME NEW x \in Bindings PROVE HandlerAgrees(x)'
  BY <1>1, <1>4, CatchTypes DEF CatchInv, HandlerAgrees, NoRevision
<1>7. ASSUME NEW x \in Bindings, x # b PROVE Answered(x)'
  <2>1. row'[x] = row[x] /\ seen'[x] = seen[x] /\ Answered(x)
    BY <1>1, <1>7, CatchTypes DEF CatchInv
  <2>2. \A d \in commands : d.binding = x => d \in commands'
    BY <1>1, <1>7
  <2> QED  BY <1>1, <2>1, <2>2 DEF Answered, HasRow, Enabled
<1>8. ASSUME op.at[b] < revision[b], NEW d \in commands, d.binding = b,
             d.revision = revision[b]
      PROVE  d \in commands'
  BY <1>1, <1>2, <1>8
<1>9. CASE op.at[b] < seen[b]
  <2>1. UNCHANGED <<row, seen>> /\ op.at[b] < revision[b]
    BY <1>1, <1>2, <1>9 DEF Answered
  <2>2. Answered(b)'
    BY <1>1, <1>2, <1>8, <2>1 DEF Answered, HasRow, Enabled
  <2> QED  BY <1>5, <1>6, <1>7, <2>2 DEF CatchInv
<1>10. CASE ~(op.at[b] < seen[b])
  <2>1. /\ seen'[b] = op.at[b]
        /\ row'[b] = IF row[b] = NoRow \/ op.kind = "REMOVE_USER" THEN NoRow
                     ELSE [row[b] EXCEPT !.enabled = FALSE]
    BY <1>1, <1>2, <1>10, CatchTypes DEF CatchInv
  <2>2. ~Enabled(b)'
    <3>1. CASE row'[b] = NoRow
      BY <3>1 DEF Enabled, HasRow
    <3>2. CASE row'[b] # NoRow
      <4>1. row[b] \in Rows /\ row'[b] = [row[b] EXCEPT !.enabled = FALSE]
        BY <1>2, <2>1, <3>2, CatchTypes DEF CatchInv
      <4>2. row'[b].enabled = FALSE
        BY <4>1 DEF Rows
      <4> QED  BY <4>2 DEF Enabled
    <3> QED  BY <3>1, <3>2
  <2>3. ASSUME op.at[b] < revision[b]
        PROVE  \E d \in commands' : d.binding = b /\ d.revision = revision[b]
    <3>1. PICK d \in commands : d.binding = b /\ d.revision = revision[b]
      BY <1>2, <1>10, <2>3 DEF Answered
    <3> QED  BY <1>8, <2>3, <3>1
  <2>4. Answered(b)'
    BY <1>1, <1>2, <1>3, <2>1, <2>2, <2>3 DEF Answered
  <2> QED  BY <1>5, <1>6, <1>7, <2>4 DEF CatchInv
<1> QED  BY <1>9, <1>10

(* A refresh speaks for the revision it was read at and no newer one. *)
LEMMA CatchFinishRefresh ==
    ASSUME CatchInv, TypeOK', FinishRefresh
    PROVE  CatchInv'
<1> USE DEF xrayVars, agentVars, ledgerVars, serverVars, ghostVars, countVars
<1>1. PICK restored \in SUBSET {b \in op.want : HasRow(b) /\ ~Enabled(b)} :
        /\ op.kind = "refresh"
        /\ row' = [b \in Bindings |->
                    IF b \in op.on THEN NoRow
                    ELSE IF b \in op.want /\ ~HasRow(b) THEN NewRow
                    ELSE IF b \in restored THEN [row[b] EXCEPT !.enabled = TRUE]
                    ELSE row[b]]
        /\ seen' = [b \in Bindings |-> IF seen[b] < op.at[b] THEN op.at[b] ELSE seen[b]]
        /\ op' = Idle
        /\ UNCHANGED <<status, revision, commands>>
  BY DEF FinishRefresh
<1>2. op'.kind = "idle" /\ op'.at = NoRevision
  BY <1>1 DEF Idle, Handler
<1>3. CommandsAgree'
  BY <1>1 DEF CatchInv, CommandsAgree
<1>4. ASSUME NEW x \in Bindings PROVE HandlerAgrees(x)'
  BY <1>1, <1>2, CatchTypes DEF CatchInv, HandlerAgrees, NoRevision
<1>5. ASSUME NEW b \in Bindings PROVE Answered(b)'
  <2>1. /\ seen[b] \in Nat /\ op.at[b] \in Nat /\ revision[b] \in Nat
        /\ Answered(b) /\ HandlerAgrees(b)
    BY CatchTypes DEF CatchInv
  <2>2. seen'[b] = op.at[b] /\ op.at[b] <= revision[b]
    BY <1>1, <2>1 DEF HandlerAgrees
  <2>3. CASE op.at[b] < revision[b]
    <3>1. \E d \in commands' : d.binding = b /\ d.revision = revision[b]
      <4>1. seen[b] < revision[b]
        BY <1>1, <2>1, <2>3 DEF HandlerAgrees
      <4> QED  BY <1>1, <2>1, <4>1 DEF Answered
    <3> QED  BY <1>1, <2>1, <2>2, <2>3, <3>1 DEF Answered
  <2>4. CASE op.at[b] = revision[b] /\ status[b] = "active"
    <3>1. b \in op.want /\ b \notin op.on
      BY <1>1, <2>1, <2>4 DEF HandlerAgrees
    <3>2. row'[b] \in Rows
      BY <1>1, <3>1, CatchTypes DEF CatchInv, HasRow, Rows, NewRow, Zero, Counter
    <3>3. HasRow(b)'
      BY <3>2, CatchTypes DEF HasRow, CatchInv
    <3> QED  BY <1>1, <2>1, <2>2, <2>4, <3>3 DEF Answered
  <2>5. CASE op.at[b] = revision[b] /\ status[b] # "active"
    <3>1. b \notin op.want /\ (HasRow(b) => b \in op.on)
      BY <1>1, <2>1, <2>5 DEF HandlerAgrees
    <3>2. row'[b] = NoRow
      BY <1>1, <3>1 DEF HasRow
    <3>3. ~Enabled(b)'
      BY <3>2 DEF Enabled, HasRow
    <3> QED  BY <1>1, <2>1, <2>2, <2>5, <3>3 DEF Answered
  <2> QED  BY <2>1, <2>2, <2>3, <2>4, <2>5
<1> QED  BY <1>3, <1>4, <1>5 DEF CatchInv

(* An order leaves its command outstanding at a revision nobody has seen. *)
LEMMA CatchOrder ==
    ASSUME CatchInv, TypeOK', NEW bs \in SUBSET Bindings, NEW type, NEW st,
           type = "ENSURE_USER" <=> st = "active",
           Order(bs, type, st), UNCHANGED <<row, seen, op>>
    PROVE  CatchInv'
<1>1. ASSUME NEW b \in Bindings
      PROVE  /\ status'[b] = IF b \in bs THEN st ELSE status[b]
             /\ revision'[b] = IF b \in bs THEN revision[b] + 1 ELSE revision[b]
             /\ revision[b] \in Nat /\ seen[b] \in Nat /\ op.at[b] \in Nat
             /\ Answered(b) /\ HandlerAgrees(b)
  BY CatchTypes DEF Order, CatchInv
<1>2. commands \subseteq commands'
  BY DEF Order
<1>3. CommandsAgree'
  <2> SUFFICES ASSUME NEW c \in commands'
               PROVE  /\ c.revision <= revision'[c.binding]
                      /\ c.revision = revision'[c.binding]
                           => (c.type = "ENSURE_USER" <=> status'[c.binding] = "active")
    BY DEF CommandsAgree
  <2>1. CASE c \in commands
    <3>1. /\ c.binding \in Bindings /\ c.revision \in Nat
          /\ c.revision <= revision[c.binding]
          /\ c.revision = revision[c.binding]
               => (c.type = "ENSURE_USER" <=> status[c.binding] = "active")
      BY <2>1, CatchTypes DEF CatchInv, CommandsAgree
    <3> QED  BY <1>1, <3>1
  <2>2. CASE c \notin commands
    <3>1. PICK b \in bs : c = [binding |-> b, type |-> type, revision |-> revision[b] + 1]
      BY <2>2 DEF Order
    <3>2. c.binding = b /\ c.type = type /\ c.revision = revision[b] + 1
      BY <3>1
    <3> QED  BY <1>1, <3>2
  <2> QED  BY <2>1, <2>2
<1>4. ASSUME NEW b \in Bindings PROVE Answered(b)'
  <2>1. CASE b \in bs
    <3> DEFINE c == [binding |-> b, type |-> type, revision |-> revision[b] + 1]
    <3>1. c \in commands' /\ c.binding = b /\ c.revision = revision[b] + 1
      BY <2>1 DEF Order
    <3> HIDE DEF c
    <3>2. revision'[b] = revision[b] + 1 /\ seen'[b] < revision'[b]
      BY <1>1, <2>1 DEF Answered
    <3> QED  BY <1>1, <3>1, <3>2 DEF Answered
  <2>2. CASE b \notin bs
    BY <1>1, <1>2, <2>2 DEF Answered, HasRow, Enabled
  <2> QED  BY <2>1, <2>2
<1>5. ASSUME NEW b \in Bindings PROVE HandlerAgrees(b)'
  <2>1. CASE b \in bs
    BY <1>1, <2>1 DEF HandlerAgrees, HasRow
  <2>2. CASE b \notin bs
    BY <1>1, <2>2 DEF HandlerAgrees, HasRow
  <2> QED  BY <2>1, <2>2
<1> QED  BY <1>3, <1>4, <1>5 DEF CatchInv

(* The orders of the control plane. *)
LEMMA CatchOrders ==
    ASSUME CatchInv, TypeOK',
           \/ Account
           \/ \E s \in Subscriptions : DisableSubscription(s) \/ DeleteSubscription(s)
           \/ \E b \in Bindings : Reactivate(b)
    PROVE  CatchInv'
<1> USE DEF xrayVars, agentVars, ledgerVars, serverVars, ghostVars, countVars
<1>1. UNCHANGED <<row, seen, op>>
  BY DEF Account, DisableSubscription, DeleteSubscription, Reactivate
<1>2. \E bs \in SUBSET Bindings : \/ Order(bs, "DISABLE_USER", "disabled")
                                  \/ Order(bs, "REMOVE_USER", "deleted")
                                  \/ Order(bs, "ENSURE_USER", "active")
  <2>1. CASE Account
    BY <2>1 DEF Account
  <2>2. CASE \E s \in Subscriptions : DisableSubscription(s) \/ DeleteSubscription(s)
    BY <2>2 DEF DisableSubscription, DeleteSubscription
  <2>3. CASE \E b \in Bindings : Reactivate(b)
    <3>1. PICK b \in Bindings : Order({b}, "ENSURE_USER", "active")
      BY <2>3 DEF Reactivate
    <3> QED  BY <3>1
  <2> QED  BY <2>1, <2>2, <2>3
<1> QED  BY <1>1, <1>2, CatchOrder

(* Every order of a fresh binding is outstanding. *)
LEMMA CatchInit == Init => CatchInv
<1> SUFFICES ASSUME Init PROVE CatchInv
  OBVIOUS
<1>1. TypeOK
  BY TypeInit
<1>2. CommandsAgree
  BY DEF Init, CommandsAgree
<1>3. ASSUME NEW b \in Bindings PROVE Answered(b) /\ HandlerAgrees(b)
  <2> DEFINE c == [binding |-> b, type |-> "ENSURE_USER", revision |-> 1]
  <2>1. c \in commands /\ c.binding = b /\ c.revision = 1
    BY DEF Init
  <2> HIDE DEF c
  <2>2. seen[b] = 0 /\ revision[b] = 1 /\ op.kind = "idle" /\ op.at[b] = 0
    BY DEF Init, Idle, Handler, NoRevision
  <2> QED  BY <2>1, <2>2 DEF Answered, HandlerAgrees
<1> QED  BY <1>1, <1>2, <1>3 DEF CatchInv

(* One step per action. *)
LEMMA CatchStep == CatchInv /\ [Next]_vars => CatchInv'
<1> SUFFICES ASSUME CatchInv, [Next]_vars PROVE CatchInv'
  OBVIOUS
<1>0. TypeOK'
  BY TypeStep DEF CatchInv
<1> USE DEF xrayVars, agentVars, ledgerVars, serverVars, ghostVars, countVars
<1>1. CASE \/ Traffic \/ PanelReset \/ XrayRestart \/ UninstallExhausted \/ Fail
           \/ Reconcile \/ CompleteCommand \/ UNCHANGED vars
  <2>1. UNCHANGED <<row, seen, status, revision, commands>>
    BY <1>1 DEF Traffic, PanelReset, XrayRestart, UninstallExhausted, Fail, Reconcile,
                CompleteCommand, vars
  <2>2. op' = op \/ op' = Idle
    BY <1>1 DEF Traffic, PanelReset, XrayRestart, UninstallExhausted, Fail, Reconcile,
                CompleteCommand, vars
  <2>3. Idle.kind = "idle" /\ Idle.at = NoRevision
    BY DEF Idle, Handler
  <2>4. \A b \in Bindings : (HasRow(b)' <=> HasRow(b)) /\ (Enabled(b)' => Enabled(b))
    BY <2>1 DEF HasRow, Enabled
  <2>5. op' = op \/ (op'.kind \in {"idle", "exhausted"} /\ op'.at = NoRevision)
    <3>1. CASE op' = op
      BY <3>1
    <3>2. CASE op' = Idle
      BY <2>3, <3>2
    <3> QED  BY <2>2, <3>1, <3>2
  <2> QED  BY <1>0, <2>1, <2>4, <2>5, FrameCatch
<1>2. CASE Sample
  BY <1>0, <1>2, CatchSample
<1>3. CASE \E c \in commands : EnsureUser(c)
  BY <1>0, <1>3, CatchEnsureUser
<1>4. CASE \E c \in commands : BeginTerminal(c)
  BY <1>0, <1>4, CatchBeginTerminal
<1>5. CASE FinishTerminal
  BY <1>0, <1>5, CatchFinishTerminal
<1>6. CASE BeginRefresh
  BY <1>0, <1>6, CatchBeginRefresh
<1>7. CASE FinishRefresh
  BY <1>0, <1>7, CatchFinishRefresh
<1>8. CASE \/ Account
           \/ \E s \in Subscriptions : DisableSubscription(s) \/ DeleteSubscription(s)
           \/ \E b \in Bindings : Reactivate(b)
  BY <1>0, <1>8, CatchOrders
<1> QED  BY <1>1, <1>2, <1>3, <1>4, <1>5, <1>6, <1>7, <1>8 DEF Next

(***************************************************************************)
(* Orders, refreshes, failures and reactivations never leave the agent and *)
(* the control plane apart: the newest order of a binding is outstanding   *)
(* or the agent's row agrees with it.                                      *)
(***************************************************************************)
THEOREM CatchInvHolds == Spec => []CatchInv
BY CatchInit, CatchStep, PTL DEF Spec

(***************************************************************************)
(* When every command of a binding has been answered, a binding that is    *)
(* active has its row and one taken down is not served, for any number of  *)
(* bindings, orders, refreshes, crashes and reactivations (superseded      *)
(* orders of ensureUser and terminalUser, snapshots of refreshConfig).     *)
(***************************************************************************)
THEOREM CaughtUpHolds == Spec => []CaughtUp
<1>1. CatchInv => CaughtUp
  <2> SUFFICES ASSUME CatchInv, NEW b \in Bindings, \A c \in commands : c.binding # b
               PROVE  IF status[b] = "active" THEN HasRow(b) ELSE ~Enabled(b)
    BY DEF CaughtUp
  <2>1. Answered(b) /\ seen[b] \in Nat /\ revision[b] \in Nat
    BY CatchTypes DEF CatchInv
  <2>2. ~(seen[b] < revision[b])
    BY <2>1 DEF Answered
  <2>3. seen[b] = revision[b]
    BY <2>1, <2>2 DEF Answered
  <2> QED  BY <2>1, <2>3 DEF Answered
<1> QED  BY <1>1, CatchInvHolds, PTL

----------------------------------------------------------------------------
(***************************************************************************)
(* Sums.  Total counts the members of a disjoint union, so what it does to *)
(* sums of functions follows from cardinalities, without induction.        *)
(***************************************************************************)

\* The set Total counts.
Units(f) == UNION {{x} \X (1 .. f[x]) : x \in DOMAIN f}

(* Membership in the counted set. *)
LEMMA UnitsMember ==
    ASSUME NEW S, NEW f \in [S -> Nat], NEW u
    PROVE  u \in Units(f) <=> \E x \in S, n \in Nat : u = <<x, n>> /\ 1 <= n /\ n <= f[x]
<1>1. ASSUME u \in Units(f)
      PROVE  \E x \in S, n \in Nat : u = <<x, n>> /\ 1 <= n /\ n <= f[x]
  <2>1. PICK x \in S : u \in {x} \X (1 .. f[x])
    BY <1>1 DEF Units
  <2>2. PICK n \in 1 .. f[x] : u = <<x, n>>
    BY <2>1
  <2>3. n \in Nat /\ 1 <= n /\ n <= f[x]
    BY <2>2
  <2> QED  BY <2>2, <2>3
<1>2. ASSUME NEW x \in S, NEW n \in Nat, u = <<x, n>>, 1 <= n, n <= f[x]
      PROVE  u \in Units(f)
  <2>1. u \in {x} \X (1 .. f[x])
    BY <1>2
  <2> QED  BY <2>1 DEF Units
<1> QED  BY <1>1, <1>2

(* The counted set of a function on a finite set is finite. *)
LEMMA UnitsFinite ==
    ASSUME NEW S, IsFiniteSet(S), NEW f \in [S -> Nat]
    PROVE  IsFiniteSet(Units(f)) /\ Total(f) = Cardinality(Units(f)) /\ Total(f) \in Nat
<1> DEFINE F == [x \in S |-> {x} \X (1 .. f[x])]
           Family == {{x} \X (1 .. f[x]) : x \in S}
<1>1. F \in Surjection(S, Family)
  BY DEF Surjection
<1>2. IsFiniteSet(Family)
  BY <1>1, FS_Surjection
<1>3. ASSUME NEW x \in S PROVE IsFiniteSet({x} \X (1 .. f[x]))
  <2>1. f[x] \in Int /\ 1 \in Int
    OBVIOUS
  <2>2. IsFiniteSet(1 .. f[x]) /\ IsFiniteSet({x})
    BY <2>1, FS_Interval, FS_Singleton
  <2> QED  BY <2>2, FS_Product
<1>4. IsFiniteSet(UNION Family)
  BY <1>2, <1>3, FS_UNION
<1>5. UNION Family = Units(f) /\ Total(f) = Cardinality(Units(f))
  BY DEF Units, Total
<1> QED  BY <1>4, <1>5, FS_CardinalityType

(* Sums of disjoint parts add up. *)
LEMMA TotalSplit ==
    ASSUME NEW S, IsFiniteSet(S), NEW f \in [S -> Nat],
           NEW T, IsFiniteSet(T), NEW g \in [T -> Nat],
           NEW U, IsFiniteSet(U), NEW h \in [U -> Nat],
           Units(f) \subseteq Units(h),
           ExistsBijection(Units(g), Units(h) \ Units(f))
    PROVE  Total(h) = Total(f) + Total(g)
<1> DEFINE Image == Units(h) \ Units(f)
<1>2. ExistsBijection(Units(g), Image)
  OBVIOUS
<1>3. IsFiniteSet(Image) /\ Cardinality(Image) = Total(g)
  BY <1>2, UnitsFinite, FS_Bijection
<1>4. Units(h) = Units(f) \cup Image /\ Units(f) \cap Image = {}
  OBVIOUS
<1>5. IsFiniteSet(Units(f)) /\ Total(f) = Cardinality(Units(f)) /\ Total(f) \in Nat
  BY UnitsFinite
<1>6. Cardinality(Units(f) \cup Image) = Cardinality(Units(f)) + Cardinality(Image)
                                         - Cardinality(Units(f) \cap Image)
  BY <1>3, <1>5, FS_Union
<1>7. Cardinality(Units(f) \cap Image) = 0
  BY <1>4, FS_EmptySet
<1>8. Total(h) = Cardinality(Units(h)) /\ Total(g) \in Nat
  BY UnitsFinite
<1> HIDE DEF Image
<1> QED  BY <1>3, <1>4, <1>5, <1>6, <1>7, <1>8

\* The sum of two functions.
Plus(f, g) == [x \in DOMAIN f |-> f[x] + g[x]]

(* The sum of f + g is the sum of f and the sum of g. *)
LEMMA TotalAdd ==
    ASSUME NEW S, IsFiniteSet(S), NEW f \in [S -> Nat], NEW g \in [S -> Nat]
    PROVE  Total(Plus(f, g)) = Total(f) + Total(g)
<1> DEFINE h == Plus(f, g)
<1>h. h \in [S -> Nat] /\ \A x \in S : h[x] = f[x] + g[x]
  BY DEF Plus
<1> HIDE DEF h
<1> DEFINE m == [u \in Units(g) |-> <<u[1], f[u[1]] + u[2]>>]
<1>1. ASSUME NEW u \in Units(g)
      PROVE  \E x \in S, n \in Nat : /\ u = <<x, n>> /\ 1 <= n /\ n <= g[x]
                                     /\ m[u] = <<x, f[x] + n>> /\ m[u] \in Units(h)
                                     /\ m[u] \notin Units(f)
  <2>1. PICK x \in S, n \in Nat : u = <<x, n>> /\ 1 <= n /\ n <= g[x]
    BY UnitsMember
  <2>2. m[u] = <<x, f[x] + n>>
    BY <2>1
  <2>3. f[x] + n \in Nat /\ 1 <= f[x] + n /\ f[x] + n <= h[x] /\ ~(f[x] + n <= f[x])
    BY <1>h, <2>1
  <2>4. m[u] \in Units(h)
    BY <1>h, <2>2, <2>3, UnitsMember
  <2>5. m[u] \notin Units(f)
    <3> SUFFICES ASSUME m[u] \in Units(f) PROVE FALSE
      OBVIOUS
    <3>1. PICK y \in S, k \in Nat : m[u] = <<y, k>> /\ 1 <= k /\ k <= f[y]
      BY UnitsMember
    <3>2. y = x /\ k = f[x] + n
      BY <2>2, <3>1
    <3> QED  BY <2>3, <3>1, <3>2
  <2> QED  BY <2>1, <2>2, <2>4, <2>5
<1>2. m \in [Units(g) -> Units(h)]
  BY <1>1
<1>3. ASSUME NEW u \in Units(g), NEW v \in Units(g), m[u] = m[v] PROVE u = v
  <2>1. PICK x \in S, n \in Nat : u = <<x, n>> /\ m[u] = <<x, f[x] + n>>
    BY <1>1
  <2>2. PICK y \in S, k \in Nat : v = <<y, k>> /\ m[v] = <<y, f[y] + k>>
    BY <1>1
  <2>3. x = y /\ f[x] + n = f[y] + k
    BY <1>3, <2>1, <2>2
  <2>4. n = k
    BY <2>3
  <2> QED  BY <2>1, <2>2, <2>3, <2>4
<1> HIDE DEF m
<1>4. ASSUME NEW u \in Units(h), u \notin Units(f) PROVE \E v \in Units(g) : u = m[v]
  <2>1. PICK x \in S, n \in Nat : u = <<x, n>> /\ 1 <= n /\ n <= h[x]
    BY <1>h, UnitsMember
  <2>2. ~(n <= f[x])
    BY <1>4, <2>1, UnitsMember
  <2>3. n - f[x] \in Nat /\ 1 <= n - f[x] /\ n - f[x] <= g[x] /\ f[x] + (n - f[x]) = n
    BY <1>h, <2>1, <2>2
  <2>4. <<x, n - f[x]>> \in Units(g)
    BY <2>3, UnitsMember
  <2>5. m[<<x, n - f[x]>>] = <<x, f[x] + (n - f[x])>>
    BY <2>4 DEF m
  <2> QED  BY <2>1, <2>3, <2>4, <2>5
<1>5. ASSUME NEW u \in Units(h), NEW v \in Units(g), u = m[v] PROVE u \notin Units(f)
  BY <1>1, <1>5
<1>6. ASSUME NEW u \in Units(f) PROVE u \in Units(h)
  <2>1. PICK x \in S, n \in Nat : u = <<x, n>> /\ 1 <= n /\ n <= f[x]
    BY UnitsMember
  <2>2. n <= h[x]
    BY <1>h, <2>1
  <2> QED  BY <1>h, <2>1, <2>2, UnitsMember
<1>7. m \in Bijection(Units(g), Units(h) \ Units(f))
  <2>1. m \in [Units(g) -> Units(h) \ Units(f)]
    BY <1>2, <1>5
  <2> QED  BY <1>3, <1>4, <2>1 DEF Bijection, Injection, Surjection, IsInjective
<1>8. ExistsBijection(Units(g), Units(h) \ Units(f))
  BY <1>7 DEF ExistsBijection
<1>9. Units(f) \subseteq Units(h)
  BY <1>6
<1>10. Total(h) = Total(f) + Total(g)
  BY <1>h, <1>8, <1>9, TotalSplit
<1> QED  BY <1>10 DEF h

(* Zeros do not count. *)
LEMMA TotalNonzero ==
    ASSUME NEW S, NEW T, T \subseteq S, NEW f \in [S -> Nat], NEW g \in [T -> Nat],
           \A x \in T : g[x] = f[x], \A x \in S \ T : f[x] = 0
    PROVE  Total(f) = Total(g)
<1>1. ASSUME NEW u \in Units(f) PROVE u \in Units(g)
  <2>1. PICK x \in S, n \in Nat : u = <<x, n>> /\ 1 <= n /\ n <= f[x]
    BY UnitsMember
  <2>2. x \in T /\ n <= g[x]
    BY <2>1
  <2> QED  BY <2>1, <2>2, UnitsMember
<1>2. ASSUME NEW u \in Units(g) PROVE u \in Units(f)
  <2>1. PICK x \in T, n \in Nat : u = <<x, n>> /\ 1 <= n /\ n <= g[x]
    BY UnitsMember
  <2> QED  BY <2>1, UnitsMember
<1>3. Units(f) = Units(g)
  BY <1>1, <1>2
<1> QED  BY <1>3 DEF Total, Units

\* f and one more summand.
Extend(f, z, w) == [x \in DOMAIN f \cup {z} |-> IF x = z THEN w ELSE f[x]]

(* One more summand. *)
LEMMA TotalOneMore ==
    ASSUME NEW S, IsFiniteSet(S), NEW f \in [S -> Nat], NEW z, z \notin S, NEW w \in Nat
    PROVE  Total(Extend(f, z, w)) = Total(f) + w
<1> DEFINE R == S \cup {z}
           h == Extend(f, z, w)
<1>h. h \in [R -> Nat] /\ h[z] = w /\ \A x \in S : h[x] = f[x]
  BY DEF Extend
<1> HIDE DEF h
<1> DEFINE g == [n \in 1 .. w |-> 1]
           m == [u \in Units(g) |-> <<z, u[1]>>]
<1>0. w \in Nat /\ IsFiniteSet(R) /\ IsFiniteSet(1 .. w) /\ Cardinality(1 .. w) = w
  BY FS_AddElement, FS_Interval
<1>1. ASSUME NEW u PROVE u \in Units(g) <=> \E n \in 1 .. w : u = <<n, 1>>
  <2>1. g \in [1 .. w -> Nat]
    OBVIOUS
  <2>2. u \in Units(g) <=> \E x \in 1 .. w, n \in Nat : u = <<x, n>> /\ 1 <= n /\ n <= g[x]
    BY <1>h, <2>1, UnitsMember
  <2>3. \A x \in 1 .. w : g[x] = 1
    OBVIOUS
  <2> HIDE DEF g
  <2> QED  BY <2>2, <2>3
<1>2. Total(g) = w
  <2>1. [n \in 1 .. w |-> <<n, 1>>] \in Bijection(1 .. w, Units(g))
    <3> DEFINE k == [n \in 1 .. w |-> <<n, 1>>]
    <3> HIDE DEF g
    <3>1. k \in [1 .. w -> Units(g)]
      BY <1>1
    <3>2. \A a, b \in 1 .. w : k[a] = k[b] => a = b
      OBVIOUS
    <3>3. \A u \in Units(g) : \E a \in 1 .. w : k[a] = u
      BY <1>1
    <3> QED  BY <3>1, <3>2, <3>3 DEF Bijection, Injection, Surjection, IsInjective
  <2>2. ExistsBijection(1 .. w, Units(g))
    BY <2>1 DEF ExistsBijection
  <2>3. Cardinality(Units(g)) = w
    BY <1>0, <2>2, FS_Bijection
  <2> QED  BY <2>3 DEF Total, Units
<1>3. \A u \in Units(g) : m[u] = <<z, u[1]>>
  OBVIOUS
<1>4. ASSUME NEW u
      PROVE  u \in Units(h) <=> u \in Units(f) \/ \E n \in 1 .. w : u = <<z, n>>
  <2>1. ASSUME u \in Units(h) PROVE u \in Units(f) \/ \E n \in 1 .. w : u = <<z, n>>
    <3>1. PICK x \in R, n \in Nat : u = <<x, n>> /\ 1 <= n /\ n <= h[x]
      BY <1>h, <2>1, UnitsMember
    <3>2. CASE x = z
      BY <1>h, <1>0, <3>1, <3>2
    <3>3. CASE x \in S
      BY <1>h, <3>1, <3>3, UnitsMember
    <3> QED  BY <3>2, <3>3
  <2>2. ASSUME u \in Units(f) PROVE u \in Units(h)
    <3>1. PICK x \in S, n \in Nat : u = <<x, n>> /\ 1 <= n /\ n <= f[x]
      BY <2>2, UnitsMember
    <3>2. x \in R /\ n <= h[x]
      BY <1>h, <3>1
    <3> QED  BY <1>h, <3>1, <3>2, UnitsMember
  <2>3. ASSUME NEW n \in 1 .. w, u = <<z, n>> PROVE u \in Units(h)
    <3>1. n \in Nat /\ 1 <= n /\ n <= h[z] /\ z \in R
      BY <1>h, <1>0, <2>3
    <3> QED  BY <1>h, <2>3, <3>1, UnitsMember
  <2> QED  BY <2>1, <2>2, <2>3
<1>5. \A n : <<z, n>> \notin Units(f)
  BY UnitsMember
<1>6. g \in [1 .. w -> Nat]
  OBVIOUS
<1>7. m \in [Units(g) -> Units(h)] /\ \A u, v \in Units(g) : m[u] = m[v] => u = v
  <2> HIDE DEF g
  <2>1. ASSUME NEW u \in Units(g) PROVE m[u] \in Units(h)
    BY <1>1, <1>3, <1>4
  <2>2. ASSUME NEW u \in Units(g), NEW v \in Units(g), m[u] = m[v] PROVE u = v
    BY <1>1, <1>3, <2>2
  <2> QED  BY <2>1, <2>2
<1> HIDE DEF g, m, R
<1>8. \A u \in Units(h) : u \notin Units(f) <=> \E v \in Units(g) : u = m[v]
  <2>1. ASSUME NEW u \in Units(h), u \notin Units(f) PROVE \E v \in Units(g) : u = m[v]
    <3>1. PICK n \in 1 .. w : u = <<z, n>>
      BY <1>4, <2>1
    <3>2. <<n, 1>> \in Units(g)
      BY <1>1
    <3>3. m[<<n, 1>>] = <<z, n>>
      BY <1>3, <3>2
    <3> QED  BY <3>1, <3>2, <3>3
  <2>2. ASSUME NEW v \in Units(g) PROVE m[v] \notin Units(f)
    BY <1>3, <1>5
  <2> QED  BY <2>1, <2>2
<1>9. Units(f) \subseteq Units(h)
  BY <1>4
<1>10. m \in Bijection(Units(g), Units(h) \ Units(f))
  <2>1. m \in [Units(g) -> Units(h) \ Units(f)]
    BY <1>7, <1>8
  <2>2. \A u \in Units(h) \ Units(f) : \E v \in Units(g) : m[v] = u
    BY <1>8
  <2> QED  BY <1>7, <2>1, <2>2 DEF Bijection, Injection, Surjection, IsInjective
<1>11. ExistsBijection(Units(g), Units(h) \ Units(f))
  BY <1>10 DEF ExistsBijection
<1>12. Total(h) = Total(f) + Total(g)
  BY <1>h, <1>0, <1>6, <1>9, <1>11, TotalSplit
<1> QED  BY <1>2, <1>12 DEF h

\* f with its summands numbered from one higher.
Shift(f) == [j \in {i + 1 : i \in DOMAIN f} |-> f[j - 1]]

(* Renumbering the summands. *)
LEMMA TotalShift ==
    ASSUME NEW S \in SUBSET Nat, IsFiniteSet(S), NEW f \in [S -> Nat]
    PROVE  Total(Shift(f)) = Total(f)
<1> DEFINE T == {i + 1 : i \in S}
           g == Shift(f)
<1>g. g \in [T -> Nat] /\ \A i \in S : g[i + 1] = f[i]
  <2>1. \A i \in S : (i + 1) - 1 = i /\ i + 1 \in T
    OBVIOUS
  <2>2. DOMAIN f = S /\ g = [j \in T |-> f[j - 1]]
    BY DEF Shift
  <2>3. \A j \in T : \E i \in S : j = i + 1 /\ g[j] = f[i]
    BY <2>1, <2>2
  <2> QED  BY <2>1, <2>2, <2>3
<1> HIDE DEF g
<1>0. \A u : u \in Units(f) => \E i \in S, n \in Nat : u = <<i, n>> /\ 1 <= n /\ n <= f[i]
  BY ONLY f \in [S -> Nat], UnitsMember
<1> DEFINE m == [u \in Units(f) |-> <<u[1] + 1, u[2]>>]
<1>1. ASSUME NEW u \in Units(f)
      PROVE  \E i \in S, n \in Nat : /\ u = <<i, n>> /\ m[u] = <<i + 1, n>>
                                     /\ m[u] \in Units(g)
  <2>1. PICK i \in S, n \in Nat : u = <<i, n>> /\ 1 <= n /\ n <= f[i]
    BY <1>0
  <2>2. m[u] = <<i + 1, n>> /\ i + 1 \in T /\ n <= g[i + 1]
    BY <1>g, <2>1
  <2>3. m[u] \in Units(g)
    BY <1>g, <2>1, <2>2, UnitsMember
  <2> QED  BY <2>1, <2>2, <2>3
<1>2. m \in [Units(f) -> Units(g)]
  BY <1>1
<1>3. ASSUME NEW u \in Units(f), NEW v \in Units(f), m[u] = m[v] PROVE u = v
  <2>1. PICK i \in S, n \in Nat : u = <<i, n>> /\ m[u] = <<i + 1, n>>
    BY <1>1
  <2>2. PICK j \in S, k \in Nat : v = <<j, k>> /\ m[v] = <<j + 1, k>>
    BY <1>1
  <2>3. i + 1 = j + 1 /\ n = k /\ i \in Nat /\ j \in Nat
    BY <1>3, <2>1, <2>2
  <2>4. i = j
    BY <2>3
  <2> QED  BY <2>1, <2>2, <2>3, <2>4
<1> HIDE DEF m
<1>4. ASSUME NEW u \in Units(g) PROVE \E v \in Units(f) : m[v] = u
  <2>1. PICK j \in T, n \in Nat : u = <<j, n>> /\ 1 <= n /\ n <= g[j]
    BY <1>g, UnitsMember
  <2>2. PICK i \in S : j = i + 1
    OBVIOUS
  <2>3. <<i, n>> \in Units(f)
    BY <1>g, <2>1, <2>2, UnitsMember
  <2>4. m[<<i, n>>] = <<i + 1, n>>
    BY <2>3 DEF m
  <2> QED  BY <2>1, <2>2, <2>3, <2>4
<1>5. m \in Bijection(Units(f), Units(g))
  BY <1>2, <1>3, <1>4 DEF Bijection, Injection, Surjection, IsInjective
<1>6. ExistsBijection(Units(f), Units(g))
  BY <1>5 DEF ExistsBijection
<1>7. Cardinality(Units(g)) = Cardinality(Units(f))
  BY <1>6, UnitsFinite, FS_Bijection
<1> QED  BY <1>7 DEF Total, Units, g

----------------------------------------------------------------------------
(***************************************************************************)
(* MeteringExact.  The balance of a subscription is kept by the accounting *)
(* step only if the control plane charges a sample what the agent measured *)
(* when it recorded it.  So the invariant says, binding by binding, that   *)
(* each queued sample is worth its distance from the reading before it     *)
(* (Linked) and that the row and the counters tell which bytes have been   *)
(* read (Unread).                                                          *)
(***************************************************************************)

\* What a reading adds to the one before it.
Gain(x, y) == IF x.gen = y.gen THEN Bytes(Minus(y.ctr, x.ctr)) ELSE Bytes(y.ctr)

\* The readings of b on record: the snapshot, at 0, and the queued samples.
Marks(b) == {0} \cup {i \in DOMAIN queue : Reports(i, b)}
Reading(b, i) == IF i = 0 THEN snapshot[b] ELSE queue[i][b]

Linked(b) ==
    /\ \A i, j \in Marks(b) :
        i < j /\ (\A k \in Marks(b) : k <= i \/ j <= k)
          => Worth(queue[j][b]) = Gain(Reading(b, i), queue[j][b])
    /\ HasRow(b) => \A i \in Marks(b) :
        (\A k \in Marks(b) : k <= i)
          => row[b].gen = Reading(b, i).gen /\ row[b].ctr = Reading(b, i).ctr

Unread(b) ==
    /\ ~Lower(live[b], read[b])
    /\ masked[b] => read[b] = Zero
    /\ HasRow(b) => IF row[b].init THEN masked[b] \/ read[b] = row[b].ctr
                                   ELSE read[b] = Zero
    /\ ~HasRow(b) /\ seen[b] <= 1 => read[b] = Zero

GhostTyped == /\ used \in [Subscriptions -> Nat] /\ lost \in [Bindings -> Nat]
              /\ masked \in [Bindings -> BOOLEAN]

\* Bytes of b that are not billed yet, or never will be.
Unbilled(b) == InFlight(b) + lost[b] + Bytes(Minus(live[b], read[b]))

Mine(s) == {b \in Bindings : SubscriptionOf[b] = s}

Balanced ==
    \A s \in Subscriptions : used[s] + Total([b \in Mine(s) |-> Unbilled(b)])
                             = Total([b \in Mine(s) |-> carried[b]])

Exact == /\ MeteringInvariant /\ GhostTyped /\ Balanced
         /\ \A b \in Bindings : Linked(b) /\ Unread(b)

(* A subscription's bindings are finitely many. *)
LEMMA MineFinite ==
    ASSUME NEW s PROVE IsFiniteSet(Mine(s)) /\ Mine(s) \subseteq Bindings
<1>1. Mine(s) \in SUBSET Bindings
  BY DEF Mine
<1> QED  BY <1>1, MeteringAssumption, FS_Subset

(* A sample is worth its distance from the row it was taken against. *)
LEMMA WorthIsGain ==
    ASSUME NEW r \in Rows, NEW c \in Counter, r.init \/ r.ctr = Zero
    PROVE  /\ Worth(SampleOf(r, c)) = Gain(r, SampleOf(r, c))
           /\ Worth(SampleOf(r, c)) \in Nat
<1> USE DEF Rows, Counter
<1>0. r.ctr \in Counter /\ r.gen \in Nat
  OBVIOUS
<1>1. CASE ~r.init
  <2>1. SampleOf(r, c).gen = r.gen /\ SampleOf(r, c).ctr = c /\ r.ctr = Zero
    BY <1>1 DEF SampleOf, Fold, RolledBack
  <2>2. Worth(SampleOf(r, c)) = Bytes(c)
    BY <1>1 DEF Worth, SampleOf
  <2>3. Bytes(Minus(c, Zero)) = Bytes(c) /\ Bytes(c) \in Nat
    BY DEF Bytes, Minus, Zero
  <2> QED  BY <2>1, <2>2, <2>3 DEF Gain
<1>2. CASE r.init /\ Lower(c, r.ctr)
  BY <1>2 DEF Worth, SampleOf, Gain, Fold, RolledBack, Delta, Bytes
<1>3. CASE r.init /\ ~Lower(c, r.ctr)
  <2>1. SampleOf(r, c).gen = r.gen /\ SampleOf(r, c).ctr = c
    BY <1>3 DEF SampleOf, Fold, RolledBack
  <2>2. Worth(SampleOf(r, c)) = Bytes(Minus(c, r.ctr))
    BY <1>3 DEF Worth, SampleOf, RolledBack, Delta
  <2>3. Bytes(Minus(c, r.ctr)) \in Nat
    BY <1>0, <1>3 DEF Bytes, Minus, Lower
  <2> QED  BY <2>1, <2>2, <2>3 DEF Gain
<1> QED  BY <1>1, <1>2, <1>3

\* The bytes a reset hides from a reading c against the row r.
HiddenBy(r, c, m) == IF r.init /\ m /\ ~Lower(c, r.ctr) THEN Bytes(r.ctr) ELSE 0

(* A reading accounts for every byte since the last one, sample or hidden. *)
LEMMA ReadingCovers ==
    ASSUME NEW r \in Rows, NEW c \in Counter, NEW d \in Counter, NEW m \in BOOLEAN,
           ~Lower(c, d), m => d = Zero,
           IF r.init THEN m \/ d = r.ctr ELSE d = Zero /\ r.ctr = Zero
    PROVE  /\ HiddenBy(r, c, m) \in Nat
           /\ Emits(r, c)
                => Worth(SampleOf(r, c)) + HiddenBy(r, c, m) = Bytes(Minus(c, d))
           /\ ~Emits(r, c) => /\ HiddenBy(r, c, m) = Bytes(Minus(c, d))
                              /\ r.init /\ ~RolledBack(r, c) /\ c = r.ctr
<1> USE DEF Rows, Counter
<1>0. r.init \in BOOLEAN /\ r.ctr \in Counter
  OBVIOUS
<1>1. CASE ~r.init
  <2>1. HiddenBy(r, c, m) = 0 /\ Emits(r, c) /\ d = Zero
    BY <1>1 DEF HiddenBy, Emits
  <2>2. Worth(SampleOf(r, c)) = Bytes(c)
    BY <1>1 DEF Worth, SampleOf
  <2>3. Bytes(Minus(c, Zero)) = Bytes(c) /\ Bytes(c) \in Nat
    BY DEF Bytes, Minus, Zero
  <2> QED  BY <2>1, <2>2, <2>3
<1>2. CASE r.init /\ Lower(c, r.ctr)
  <2>1. HiddenBy(r, c, m) = 0 /\ RolledBack(r, c) /\ Emits(r, c)
    BY <1>2 DEF HiddenBy, Emits, RolledBack
  <2>2. Worth(SampleOf(r, c)) = Bytes(c)
    BY <1>2, <2>1 DEF Worth, SampleOf, Delta
  <2>3. d = Zero
    BY <1>2
  <2>4. Bytes(Minus(c, Zero)) = Bytes(c) /\ Bytes(c) \in Nat
    BY DEF Bytes, Minus, Zero
  <2> QED  BY <2>1, <2>2, <2>3, <2>4
<1>3. CASE r.init /\ ~Lower(c, r.ctr)
  <2>1. ~RolledBack(r, c) /\ Delta(r, c) = Minus(c, r.ctr)
    BY <1>3 DEF RolledBack, Delta
  <2>2. Worth(SampleOf(r, c)) = Bytes(Minus(c, r.ctr))
    BY <1>3, <2>1 DEF Worth, SampleOf
  <2>3. Emits(r, c) <=> Bytes(Minus(c, r.ctr)) > 0
    BY <1>3, <2>1 DEF Emits
  <2>4. Bytes(r.ctr) \in Nat /\ Bytes(Minus(c, r.ctr)) \in Nat
    BY <1>3 DEF Bytes, Minus, Lower
  <2>5. Bytes(Minus(c, r.ctr)) = 0 => c = r.ctr
    <3> SUFFICES ASSUME Bytes(Minus(c, r.ctr)) = 0 PROVE c = r.ctr
      OBVIOUS
    <3>1. PICK d0 \in Counter : d0 = r.ctr
      BY <1>0
    <3>2. ~(c.up < d0.up) /\ ~(c.down < d0.down) /\ (c.up - d0.up) + (c.down - d0.down) = 0
      BY <1>3, <3>1 DEF Bytes, Minus, Lower
    <3>3. c.up \in Nat /\ c.down \in Nat /\ d0.up \in Nat /\ d0.down \in Nat
      OBVIOUS
    <3>4. c.up = d0.up /\ c.down = d0.down
      BY <3>2, <3>3
    <3> QED  BY <3>1, <3>4
  <2>6. Bytes(Minus(c, r.ctr)) + HiddenBy(r, c, m) = Bytes(Minus(c, d))
    <3>1. CASE m
      <4>1. HiddenBy(r, c, m) = Bytes(r.ctr) /\ d = Zero
        BY <1>3, <3>1 DEF HiddenBy
      <4>2. Bytes(Minus(c, r.ctr)) + Bytes(r.ctr) = Bytes(Minus(c, Zero))
        BY DEF Bytes, Minus, Zero
      <4> QED  BY <4>1, <4>2
    <3>2. CASE ~m
      <4>1. HiddenBy(r, c, m) = 0 /\ d = r.ctr
        BY <1>3, <3>2 DEF HiddenBy
      <4> QED  BY <2>4, <4>1
    <3> QED  BY <3>1, <3>2
  <2>7. HiddenBy(r, c, m) \in Nat
    BY <2>4 DEF HiddenBy
  <2> HIDE DEF Rows, Counter
  <2> QED  BY <1>3, <2>1, <2>2, <2>3, <2>4, <2>5, <2>6, <2>7
<1> QED  BY <1>0, <1>1, <1>2, <1>3

----------------------------------------------------------------------------
\* Bytes of b in a sequence of batches.
Weight(x)    == IF x = NoSample THEN 0 ELSE Worth(x)
Flight(q, b) == Total([i \in {j \in DOMAIN q : q[j][b] # NoSample} |-> Worth(q[i][b])])

(* A sample weighs a natural number. *)
LEMMA WeightNat ==
    ASSUME NEW x \in Batches, NEW b \in Bindings
    PROVE  Weight(x[b]) \in Nat /\ (x[b] # NoSample => Worth(x[b]) \in Nat /\ x[b] \in Samples)
<1>1. x[b] \in Samples \cup {NoSample}
  BY DEF Batches
<1>2. ASSUME x[b] \in Samples PROVE Worth(x[b]) \in Nat
  BY <1>2 DEF Samples, Worth, Bytes, Counter
<1> QED  BY <1>1, <1>2 DEF Weight

(* The batches that have a sample of b. *)
LEMMA FlightDomain ==
    ASSUME NEW q \in Seq(Batches), NEW b \in Bindings
    PROVE  LET S == {j \in DOMAIN q : q[j][b] # NoSample}
               f == [i \in S |-> Worth(q[i][b])]
           IN  /\ S \in SUBSET Nat /\ IsFiniteSet(S) /\ f \in [S -> Nat]
               /\ Flight(q, b) = Total(f) /\ Flight(q, b) \in Nat
<1> DEFINE S == {j \in DOMAIN q : q[j][b] # NoSample}
           f == [i \in S |-> Worth(q[i][b])]
<1>1. S \in SUBSET (1 .. Len(q)) /\ Len(q) \in Nat
  OBVIOUS
<1>2. IsFiniteSet(1 .. Len(q))
  BY <1>1, FS_Interval
<1>3. IsFiniteSet(S)
  BY <1>1, <1>2, FS_Subset
<1>4. ASSUME NEW i \in S PROVE Worth(q[i][b]) \in Nat
  BY <1>1, WeightNat
<1>5. f \in [S -> Nat]
  BY <1>4
<1>6. Flight(q, b) = Total(f)
  BY DEF Flight
<1>7. S \in SUBSET Nat
  BY <1>1
<1> HIDE DEF S, f
<1>8. Total(f) \in Nat
  BY <1>3, <1>5, UnitsFinite
<1> QED  BY <1>3, <1>5, <1>6, <1>7, <1>8 DEF S, f

(* A recorded batch adds what it weighs. *)
LEMMA FlightAppend ==
    ASSUME NEW q \in Seq(Batches), NEW x \in Batches, NEW b \in Bindings
    PROVE  Flight(Append(q, x), b) = Flight(q, b) + Weight(x[b])
<1> DEFINE n == Len(q) + 1
           p == Append(q, x)
           S == {j \in DOMAIN q : q[j][b] # NoSample}
           T == {j \in DOMAIN p : p[j][b] # NoSample}
           f == [i \in S |-> Worth(q[i][b])]
           h == [i \in T |-> Worth(p[i][b])]
<1>1. /\ p \in Seq(Batches) /\ n \notin DOMAIN q /\ p[n] = x
      /\ \A i \in DOMAIN q : p[i] = q[i]
      /\ DOMAIN p = DOMAIN q \cup {n}
  OBVIOUS
<1>2. /\ IsFiniteSet(S) /\ f \in [S -> Nat] /\ Flight(q, b) = Total(f) /\ Flight(q, b) \in Nat
      /\ h \in [T -> Nat] /\ Flight(p, b) = Total(h)
  BY <1>1, FlightDomain
<1>3. T = IF x[b] = NoSample THEN S ELSE S \cup {n}
  BY <1>1
<1>4. \A i \in S : i \in DOMAIN q /\ i \in T /\ h[i] = f[i]
  BY <1>1
<1>5. n \notin S
  BY <1>1
<1> HIDE DEF n, p
<1>6. CASE x[b] = NoSample
  <2>1. S = T
    BY <1>3, <1>6
  <2>2. h = f
    BY <1>2, <1>4, <2>1
  <2>3. Flight(p, b) = Flight(q, b) + 0
    BY <1>2, <2>2
  <2> QED  BY <1>6, <2>3 DEF Weight, p
<1>7. CASE x[b] # NoSample
  <2>1. T = S \cup {n}
    BY <1>3, <1>7
  <2>2. h[n] = Worth(x[b])
    BY <1>1, <2>1
  <2> HIDE DEF S, T, f, h
  <2>3. IsFiniteSet(S) /\ f \in [S -> Nat] /\ h \in [T -> Nat] /\ \A i \in S : h[i] = f[i]
    BY <1>2, <1>4
  <2>4. h = Extend(f, n, Worth(x[b]))
    BY <2>1, <2>2, <2>3 DEF Extend
  <2>5. Worth(x[b]) \in Nat
    BY <1>7, WeightNat
  <2>6. Total(h) = Total(f) + Worth(x[b])
    BY <1>5, <2>3, <2>4, <2>5, TotalOneMore
  <2> QED  BY <1>2, <1>7, <2>6 DEF Weight, p
<1> QED  BY <1>6, <1>7

(* Settling the oldest batch takes away what it weighs. *)
LEMMA FlightTail ==
    ASSUME NEW q \in Seq(Batches), q # <<>>, NEW b \in Bindings
    PROVE  Flight(q, b) = Flight(Tail(q), b) + Weight(q[1][b])
<1> DEFINE p == Tail(q)
           S == {j \in DOMAIN p : p[j][b] # NoSample}
           U == {i + 1 : i \in S}
           T == {j \in DOMAIN q : q[j][b] # NoSample}
           f == [i \in S |-> Worth(p[i][b])]
           g == [i \in U |-> Worth(q[i][b])]
           h == [i \in T |-> Worth(q[i][b])]
<1>1. /\ p \in Seq(Batches) /\ 1 \in DOMAIN q
      /\ \A i \in DOMAIN p : i \in Nat /\ i >= 1 /\ i + 1 \in DOMAIN q /\ p[i] = q[i + 1]
      /\ \A j \in DOMAIN q : j \in Nat /\ j >= 1
      /\ \A j \in DOMAIN q : j # 1 => j - 1 \in DOMAIN p /\ (j - 1) + 1 = j
  OBVIOUS
<1>2. /\ S \in SUBSET Nat /\ IsFiniteSet(S) /\ f \in [S -> Nat] /\ Flight(p, b) = Total(f)
      /\ IsFiniteSet(T) /\ h \in [T -> Nat] /\ Flight(q, b) = Total(h) /\ Flight(q, b) \in Nat
      /\ Flight(p, b) \in Nat
  BY <1>1, FlightDomain
<1>3. ASSUME NEW j \in T, j # 1 PROVE j \in U
  <2>1. j - 1 \in DOMAIN p /\ (j - 1) + 1 = j /\ p[j - 1] = q[j]
    BY <1>1, <1>3
  <2>2. j - 1 \in S
    BY <2>1, <1>3
  <2> QED  BY <2>1, <2>2
<1>4. ASSUME NEW i \in S PROVE i + 1 \in T /\ i + 1 # 1 /\ p[i] = q[i + 1]
  BY <1>1
<1>5. \A j \in U : j \in T /\ j # 1
  BY <1>4
<1>6. T = IF q[1][b] = NoSample THEN U ELSE U \cup {1}
  BY <1>1, <1>3, <1>5
<1>7. /\ g \in [U -> Nat] /\ \A i \in S : g[i + 1] = f[i]
      /\ \A j \in U : h[j] = g[j]
  <2>1. \A j \in U : h[j] = g[j] /\ g[j] \in Nat
    BY <1>2, <1>5
  <2>2. ASSUME NEW i \in S PROVE g[i + 1] = f[i]
    BY <1>4
  <2> QED  BY <2>1, <2>2
<1>8. 1 \notin U
  BY <1>5
<1> HIDE DEF p, S, f
<1>9. Total(g) = Total(f)
  <2>1. g = Shift(f)
    <3>1. \A i \in S : (i + 1) - 1 = i
      BY <1>2
    <3>2. DOMAIN f = S
      BY <1>2
    <3>3. \A j \in U : g[j] = f[j - 1]
      <4> HIDE DEF g
      <4> SUFFICES ASSUME NEW j \in U PROVE g[j] = f[j - 1]
        OBVIOUS
      <4>1. PICK i \in S : j = i + 1
        OBVIOUS
      <4>2. j - 1 = i
        BY <3>1, <4>1
      <4> QED  BY <1>7, <4>1, <4>2
    <3> QED  BY <1>7, <3>2, <3>3 DEF Shift
  <2> HIDE DEF g
  <2> QED  BY <1>2, <2>1, TotalShift
<1>10. U \in SUBSET T
  BY <1>5
<1>11. IsFiniteSet(U)
  <2> HIDE DEF U, T
  <2> QED  BY <1>2, <1>10, FS_Subset
<1>12. CASE q[1][b] = NoSample
  <2>1. T = U
    BY <1>6, <1>12
  <2>2. h = g
    BY <1>2, <1>7, <2>1
  <2> HIDE DEF g, h, T, U
  <2>3. Flight(q, b) = Flight(p, b) + 0
    BY <1>2, <1>9, <2>2
  <2> QED  BY <1>12, <2>3 DEF Weight, p
<1>13. CASE q[1][b] # NoSample
  <2>1. T = U \cup {1}
    BY <1>6, <1>13
  <2>2. h[1] = Worth(q[1][b])
    BY <2>1
  <2> HIDE DEF T, U, g, h
  <2>3. g \in [U -> Nat] /\ h \in [T -> Nat] /\ \A j \in U : h[j] = g[j]
    BY <1>2, <1>7
  <2>4. h = Extend(g, 1, Worth(q[1][b]))
    BY <2>1, <2>2, <2>3 DEF Extend
  <2>5. q[1] \in Batches /\ Worth(q[1][b]) \in Nat
    BY <1>1, <1>13, WeightNat
  <2>6. Total(h) = Total(g) + Worth(q[1][b])
    BY <1>8, <1>11, <2>3, <2>4, <2>5, TotalOneMore
  <2> QED  BY <1>2, <1>9, <1>13, <2>6 DEF Weight, p
<1> QED  BY <1>12, <1>13

----------------------------------------------------------------------------
(* What the proofs need of the types. *)
LEMMA ExactTypes ==
    ASSUME TypeOK, GhostTyped, NEW b \in Bindings, Unread(b)
    PROVE  /\ live[b] \in Counter /\ read[b] \in Counter /\ lost[b] \in Nat
           /\ Bytes(Minus(live[b], read[b])) \in Nat
           /\ InFlight(b) = Flight(queue, b) /\ InFlight(b) \in Nat
           /\ Unbilled(b) \in Nat /\ carried[b] \in Nat
<1>1. live[b] \in Counter /\ read[b] \in Counter /\ lost[b] \in Nat /\ carried[b] \in Nat
  BY DEF TypeOK, GhostTyped
<1>2. Bytes(Minus(live[b], read[b])) \in Nat
  BY <1>1 DEF Unread, Lower, Bytes, Minus, Counter
<1>3. InFlight(b) = Flight(queue, b)
  BY DEF InFlight, Flight, Reports
<1>4. Flight(queue, b) \in Nat
  BY FlightDomain DEF TypeOK
<1> QED  BY <1>1, <1>2, <1>3, <1>4 DEF Unbilled

(* The same after a step. *)
LEMMA ExactTypesNext ==
    ASSUME TypeOK', GhostTyped', NEW b \in Bindings, Unread(b)'
    PROVE  /\ live'[b] \in Counter /\ read'[b] \in Counter /\ lost'[b] \in Nat
           /\ Bytes(Minus(live'[b], read'[b])) \in Nat
           /\ InFlight(b)' = Flight(queue', b) /\ InFlight(b)' \in Nat
           /\ Unbilled(b)' = InFlight(b)' + lost'[b] + Bytes(Minus(live'[b], read'[b]))
           /\ Unbilled(b)' \in Nat
<1>1. live'[b] \in Counter /\ read'[b] \in Counter /\ lost'[b] \in Nat
  BY DEF TypeOK, GhostTyped
<1>2. Bytes(Minus(live'[b], read'[b])) \in Nat
  BY <1>1 DEF Unread, Lower, Bytes, Minus, Counter
<1>3. InFlight(b)' = Flight(queue', b)
  BY DEF InFlight, Flight, Reports
<1>4. Flight(queue', b) \in Nat
  BY FlightDomain DEF TypeOK
<1>5. Unbilled(b)' = InFlight(b)' + lost'[b] + Bytes(Minus(live'[b], read'[b]))
  BY DEF Unbilled, Bytes, Minus
<1> QED  BY <1>1, <1>2, <1>3, <1>4, <1>5

\* A row that keeps its baseline, goes for good, or is inserted for the first time.
RowMoves(b) ==
    \/ row'[b] = NoRow /\ (seen'[b] <= 1 => ~HasRow(b) /\ seen[b] <= 1)
    \/ /\ HasRow(b) /\ HasRow(b)'
       /\ row'[b].gen = row[b].gen /\ row'[b].ctr = row[b].ctr /\ row'[b].init = row[b].init
    \/ row'[b] = NewRow /\ ~HasRow(b) /\ seen[b] <= 1

\* Counters that stay, or are wiped.
CountersMove(b) ==
    \/ /\ live'[b] = live[b] /\ read'[b] = read[b]
       /\ masked'[b] = masked[b] /\ lost'[b] = lost[b]
    \/ /\ live'[b] = Zero /\ read'[b] = Zero /\ masked'[b] = TRUE
       /\ lost'[b] = lost[b] + Bytes(Minus(live[b], read[b]))

(* The readings on record stay linked under such moves. *)
LEMMA LinkedMoves ==
    ASSUME NEW b \in Bindings, Linked(b), Chain(b), RowMoves(b), UNCHANGED <<queue, snapshot>>
    PROVE  Linked(b)'
<1>1. Marks(b)' = Marks(b) /\ \A i : Reading(b, i)' = Reading(b, i)
  BY DEF Marks, Reading, Reports
<1>2. \A i, j \in Marks(b) :
        i < j /\ (\A k \in Marks(b) : k <= i \/ j <= k)
          => Worth(queue[j][b]) = Gain(Reading(b, i), queue[j][b])
  BY DEF Linked
<1>3. ASSUME HasRow(b)', NEW i \in Marks(b), \A k \in Marks(b) : k <= i
      PROVE  row'[b].gen = Reading(b, i).gen /\ row'[b].ctr = Reading(b, i).ctr
  <2>1. CASE /\ HasRow(b)
             /\ row'[b].gen = row[b].gen /\ row'[b].ctr = row[b].ctr
    BY <1>3, <2>1 DEF Linked
  <2>2. CASE row'[b] = NewRow /\ ~HasRow(b) /\ seen[b] <= 1
    <3>1. Untouched(b)
      BY <2>2 DEF Chain
    <3>2. i = 0 /\ Reading(b, i) = snapshot[b] /\ snapshot[b] = [gen |-> 0, ctr |-> Zero]
      BY <3>1 DEF Untouched, Marks, Reading
    <3> QED  BY <2>2, <3>2 DEF NewRow
  <2> QED  BY <1>3, <2>1, <2>2 DEF RowMoves, HasRow
<1> QED  BY <1>1, <1>2, <1>3 DEF Linked

(* What has been read stays known under such moves. *)
LEMMA UnreadMoves ==
    ASSUME NEW b \in Bindings, Unread(b), RowMoves(b), CountersMove(b)
    PROVE  Unread(b)'
<1>1. ~Lower(live'[b], read'[b])
  BY DEF CountersMove, Unread, Lower, Zero
<1>2. masked'[b] => read'[b] = Zero
  BY DEF CountersMove, Unread
<1>3. read[b] = Zero => read'[b] = Zero
  BY DEF CountersMove
<1>4. CASE row'[b] = NoRow /\ (seen'[b] <= 1 => ~HasRow(b) /\ seen[b] <= 1)
  <2>1. ~HasRow(b)' /\ (seen'[b] <= 1 => read'[b] = Zero)
    BY <1>3, <1>4 DEF HasRow, Unread
  <2> QED  BY <1>1, <1>2, <2>1 DEF Unread
<1>5. CASE /\ HasRow(b) /\ HasRow(b)'
           /\ row'[b].ctr = row[b].ctr /\ row'[b].init = row[b].init
  <2>1. IF row'[b].init THEN masked'[b] \/ read'[b] = row'[b].ctr ELSE read'[b] = Zero
    BY <1>3, <1>5 DEF Unread, CountersMove
  <2> QED  BY <1>1, <1>2, <1>5, <2>1 DEF Unread
<1>6. CASE row'[b] = NewRow /\ ~HasRow(b) /\ seen[b] <= 1
  <2>1. read'[b] = Zero /\ row'[b].init = FALSE
    BY <1>3, <1>6 DEF Unread, NewRow
  <2> QED  BY <1>1, <1>2, <2>1 DEF Unread
<1> QED  BY <1>4, <1>5, <1>6 DEF RowMoves

(* What a wipe adds to the losses it takes from the unread bytes. *)
LEMMA UnbilledMoves ==
    ASSUME TypeOK, TypeOK', GhostTyped, GhostTyped', NEW b \in Bindings, Unread(b), Unread(b)',
           CountersMove(b), UNCHANGED queue
    PROVE  Unbilled(b)' = Unbilled(b)
<1>1. InFlight(b)' = InFlight(b)
  BY ExactTypes, ExactTypesNext
<1>2. Bytes(Minus(Zero, Zero)) = 0
  BY DEF Bytes, Minus, Zero
<1>3. lost'[b] + Bytes(Minus(live'[b], read'[b])) = lost[b] + Bytes(Minus(live[b], read[b]))
  BY <1>2, ExactTypes DEF CountersMove
<1>4. Unbilled(b) = InFlight(b) + lost[b] + Bytes(Minus(live[b], read[b]))
  BY DEF Unbilled
<1> QED  BY <1>1, <1>3, <1>4, ExactTypes, ExactTypesNext

(* A balance in which no binding's part changes. *)
LEMMA BalanceKept ==
    ASSUME Balanced, UNCHANGED <<used, carried>>,
           \A b \in Bindings : Unbilled(b)' = Unbilled(b)
    PROVE  Balanced'
<1> SUFFICES ASSUME NEW s \in Subscriptions
             PROVE  used'[s] + Total([b \in Mine(s) |-> Unbilled(b)'])
                    = Total([b \in Mine(s) |-> carried'[b]])
  BY DEF Balanced, Mine
<1>1. [b \in Mine(s) |-> Unbilled(b)'] = [b \in Mine(s) |-> Unbilled(b)]
  BY DEF Mine
<1>2. [b \in Mine(s) |-> carried'[b]] = [b \in Mine(s) |-> carried[b]]
  OBVIOUS
<1> QED  BY <1>1, <1>2 DEF Balanced

(* Steps that record nothing, bill nothing and carry nothing. *)
LEMMA QuietExact ==
    ASSUME Exact, MeteringInvariant', GhostTyped', UNCHANGED <<queue, snapshot, used, carried>>,
           \A b \in Bindings : RowMoves(b) /\ CountersMove(b)
    PROVE  Exact'
<1>1. ASSUME NEW b \in Bindings PROVE Linked(b)'
  BY LinkedMoves DEF Exact, MeteringInvariant
<1>2. ASSUME NEW b \in Bindings PROVE Unread(b)'
  BY UnreadMoves DEF Exact
<1>3. ASSUME NEW b \in Bindings PROVE Unbilled(b)' = Unbilled(b)
  BY <1>2, UnbilledMoves DEF Exact, MeteringInvariant
<1>4. Balanced'
  BY <1>3, BalanceKept DEF Exact
<1> QED  BY <1>1, <1>2, <1>4 DEF Exact

(* Rows nobody touches. *)
LEMMA RowsStay ==
    ASSUME UNCHANGED <<row, seen>>, NEW b \in Bindings
    PROVE  RowMoves(b)
BY DEF RowMoves, HasRow

(* Counters nobody touches. *)
LEMMA CountersStay ==
    ASSUME UNCHANGED <<live, read, masked, lost>>, NEW b \in Bindings
    PROVE  CountersMove(b)
BY DEF CountersMove

(* Wiped counters. *)
LEMMA WipeMoves ==
    ASSUME Exact, NEW accounts, Wipe(accounts), UNCHANGED used
    PROVE  GhostTyped' /\ \A b \in Bindings : CountersMove(b)
<1>1. ASSUME NEW b \in Bindings
      PROVE  /\ CountersMove(b)
             /\ lost[b] \in Nat /\ Bytes(Minus(live[b], read[b])) \in Nat
  <2>1. CountersMove(b)
    BY DEF Wipe, CountersMove, Exact, GhostTyped
  <2> QED  BY <2>1, ExactTypes DEF Exact, MeteringInvariant
<1>2. lost' \in [Bindings -> Nat]
  BY <1>1 DEF Wipe
<1>3. masked' \in [Bindings -> BOOLEAN]
  BY DEF Wipe, Exact, GhostTyped
<1> QED  BY <1>1, <1>2, <1>3 DEF Exact, GhostTyped

(* Taking accounts out of the inbound. *)
LEMMA UninstallMoves ==
    ASSUME Exact, NEW accounts, NEW added, Uninstall(accounts, added), UNCHANGED used
    PROVE  GhostTyped' /\ \A b \in Bindings : CountersMove(b)
<1>1. PICK dropped \in SUBSET (accounts \cap installed) : Wipe(dropped)
  BY DEF Uninstall
<1> QED  BY <1>1, WipeMoves

(* ensureUser keeps a baseline or inserts a first row. *)
LEMMA EnsureUserRows ==
    ASSUME MeteringInvariant, NEW c \in commands, EnsureUser(c), NEW x \in Bindings
    PROVE  RowMoves(x)
<1> DEFINE b == c.binding
<1>0. /\ row \in [Bindings -> Rows \cup {NoRow}] /\ seen \in [Bindings -> Nat]
      /\ c.binding \in Bindings /\ c.type = "ENSURE_USER" /\ c.revision = 1
  BY DEF MeteringInvariant, TypeOK, Commands, Orders, EnsureUser
<1>1. CASE Superseded(c)
  BY <1>1, RowsStay DEF EnsureUser
<1>2. CASE ~Superseded(c)
  <2>1. /\ row' = [row EXCEPT ![b] = IF @ = NoRow THEN NewRow
                                     ELSE [@ EXCEPT !.enabled = TRUE]]
        /\ seen' = [seen EXCEPT ![b] = 1]
    BY <1>0, <1>2 DEF EnsureUser
  <2>2. seen[b] <= 1
    BY <1>0, <1>2 DEF Superseded
  <2>3. CASE x # b
    BY <1>0, <2>1, <2>3 DEF RowMoves, HasRow
  <2>4. CASE x = b /\ row[b] = NoRow
    BY <1>0, <2>1, <2>2, <2>4 DEF RowMoves, HasRow
  <2>5. CASE x = b /\ row[b] # NoRow
    <3>1. row[b] \in Rows /\ row'[b] = [row[b] EXCEPT !.enabled = TRUE]
      BY <1>0, <2>1, <2>5
    <3>2. /\ row'[b].gen = row[b].gen /\ row'[b].ctr = row[b].ctr
          /\ row'[b].init = row[b].init /\ row'[b] \in Rows
      BY <3>1 DEF Rows
    <3>3. NoRow \notin Rows
      BY MeteringAssumption DEF Rows, Counter
    <3> QED  BY <2>5, <3>2, <3>3 DEF RowMoves, HasRow
  <2> QED  BY <2>3, <2>4, <2>5
<1> QED  BY <1>1, <1>2

(* terminalUser deletes a row only by an order that nothing follows. *)
LEMMA FinishTerminalRows ==
    ASSUME MeteringInvariant, FinishTerminal, NEW x \in Bindings
    PROVE  RowMoves(x)
<1>1. PICK b \in op.on :
        /\ op.kind \in {"DISABLE_USER", "REMOVE_USER"} /\ op.at[b] # 0
        /\ IF op.at[b] < seen[b]
           THEN UNCHANGED <<row, seen>>
           ELSE /\ row' = [row EXCEPT ![b] =
                            IF @ = NoRow \/ op.kind = "REMOVE_USER" THEN NoRow
                            ELSE [@ EXCEPT !.enabled = FALSE]]
                /\ seen' = [seen EXCEPT ![b] = op.at[b]]
  BY DEF FinishTerminal
<1>2. /\ b \in Bindings /\ op.at[b] \in Nat
      /\ row \in [Bindings -> Rows \cup {NoRow}] /\ seen \in [Bindings -> Nat]
  BY DEF MeteringInvariant, TypeOK, Handlers
<1>3. op.at[b] >= 2
  BY <1>1, <1>2 DEF MeteringInvariant, Terminal
<1>4. CASE op.at[b] < seen[b]
  BY <1>1, <1>4, RowsStay
<1>5. CASE ~(op.at[b] < seen[b])
  <2>1. /\ row' = [row EXCEPT ![b] = IF @ = NoRow \/ op.kind = "REMOVE_USER" THEN NoRow
                                     ELSE [@ EXCEPT !.enabled = FALSE]]
        /\ seen' = [seen EXCEPT ![b] = op.at[b]]
    BY <1>1, <1>5
  <2>2. CASE x # b
    BY <1>2, <2>1, <2>2 DEF RowMoves, HasRow
  <2>3. CASE x = b /\ row'[b] = NoRow
    <3>1. ~(seen'[b] <= 1)
      BY <1>2, <1>3, <2>1
    <3> QED  BY <2>3, <3>1 DEF RowMoves
  <2>4. CASE x = b /\ row'[b] # NoRow
    <3>1. row[b] \in Rows /\ row'[b] = [row[b] EXCEPT !.enabled = FALSE]
      BY <1>2, <2>1, <2>4
    <3>2. /\ row'[b].gen = row[b].gen /\ row'[b].ctr = row[b].ctr
          /\ row'[b].init = row[b].init
      BY <3>1 DEF Rows
    <3>3. NoRow \notin Rows
      BY MeteringAssumption DEF Rows, Counter
    <3> QED  BY <2>4, <3>1, <3>2, <3>3 DEF RowMoves, HasRow
  <2> QED  BY <2>2, <2>3, <2>4
<1> QED  BY <1>4, <1>5

(* A refresh deletes rows for good and inserts first ones. *)
LEMMA FinishRefreshRows ==
    ASSUME MeteringInvariant, FinishRefresh, NEW b \in Bindings
    PROVE  RowMoves(b)
<1>1. PICK restored \in SUBSET {x \in op.want : HasRow(x) /\ ~Enabled(x)} :
        /\ op.kind = "refresh"
        /\ row' = [x \in Bindings |->
                    IF x \in op.on THEN NoRow
                    ELSE IF x \in op.want /\ ~HasRow(x) THEN NewRow
                    ELSE IF x \in restored THEN [row[x] EXCEPT !.enabled = TRUE]
                    ELSE row[x]]
        /\ seen' = [x \in Bindings |-> IF seen[x] < op.at[x] THEN op.at[x] ELSE seen[x]]
  BY DEF FinishRefresh
<1>2. /\ seen[b] \in Nat /\ op.at[b] \in Nat /\ Terminal(b)
      /\ seen'[b] = IF seen[b] < op.at[b] THEN op.at[b] ELSE seen[b]
      /\ row[b] \in Rows \cup {NoRow} /\ NoRow \notin Rows
  BY <1>1, MeteringAssumption DEF MeteringInvariant, TypeOK, Handlers, Rows, Counter
<1>3. CASE b \in op.on
  <2>1. row'[b] = NoRow /\ ~(seen'[b] <= 1)
    BY <1>1, <1>2, <1>3 DEF Terminal
  <2> QED  BY <2>1 DEF RowMoves
<1>4. CASE b \notin op.on /\ b \in op.want /\ ~HasRow(b)
  <2>1. row'[b] = NewRow /\ seen[b] <= 1
    BY <1>1, <1>2, <1>4 DEF Terminal
  <2> QED  BY <1>4, <2>1 DEF RowMoves
<1>5. CASE b \notin op.on /\ b \in restored
  <2>1. HasRow(b) /\ row[b] \in Rows /\ row'[b] = [row[b] EXCEPT !.enabled = TRUE]
    BY <1>1, <1>2, <1>5 DEF HasRow
  <2>2. /\ row'[b].gen = row[b].gen /\ row'[b].ctr = row[b].ctr
        /\ row'[b].init = row[b].init /\ row'[b] \in Rows
    BY <2>1 DEF Rows
  <2> QED  BY <1>2, <2>1, <2>2 DEF RowMoves, HasRow
<1>6. CASE b \notin op.on /\ b \notin restored /\ ~(b \in op.want /\ ~HasRow(b))
  <2>1. row'[b] = row[b] /\ (seen'[b] <= 1 => seen[b] <= 1)
    BY <1>1, <1>2, <1>6
  <2> QED  BY <2>1 DEF RowMoves, HasRow
<1> QED  BY <1>3, <1>4, <1>5, <1>6

(* One binding's part in a recorded sample: the sample, if there is one, links *)
(* up with the reading before it, and no byte goes missing.                    *)
LEMMA RecordReading ==
    ASSUME Exact, TypeOK', NEW cut, RecordSample(cut), UNCHANGED <<live, seen, snapshot>>,
           NEW b \in Bindings
    PROVE  /\ Linked(b)' /\ Unread(b)'
           /\ lost'[b] \in Nat /\ masked'[b] \in BOOLEAN
           /\ Flight(queue', b) + lost'[b] + Bytes(Minus(live'[b], read'[b])) = Unbilled(b)
<1> DEFINE emitting == {x \in Readable : Emits(row[x], live[x])}
           batch == [x \in Bindings |-> IF x \in emitting THEN SampleOf(row[x], live[x])
                                                         ELSE NoSample]
           gap == Bytes(Minus(live[b], read[b]))
<1>1. /\ queue' = IF emitting = {} THEN queue ELSE Append(queue, batch)
      /\ row'[b] = IF b \in Readable THEN Fold(row[b], live[b], b \notin cut) ELSE row[b]
      /\ lost'[b] = lost[b] + Hidden(b)
      /\ read'[b] = IF b \in Readable THEN live[b] ELSE read[b]
      /\ masked'[b] = IF b \in Readable THEN FALSE ELSE masked[b]
  BY DEF RecordSample
<1>2. /\ live[b] \in Counter /\ read[b] \in Counter /\ lost[b] \in Nat /\ gap \in Nat
      /\ masked[b] \in BOOLEAN /\ queue \in Seq(Batches)
      /\ InFlight(b) = Flight(queue, b) /\ InFlight(b) \in Nat
      /\ Unbilled(b) = InFlight(b) + lost[b] + gap
      /\ Linked(b) /\ Unread(b) /\ Chain(b) /\ TypeOK
  BY ExactTypes DEF Exact, MeteringInvariant, TypeOK, GhostTyped, Unbilled
<1>n. PICK n \in Nat : n = Len(queue) + 1
  BY <1>2
<1>3. Bytes(Minus(live[b], live[b])) = 0 /\ ~Lower(live[b], live[b])
  BY <1>2 DEF Bytes, Minus, Lower, Counter
<1>4. batch \in Batches
  <2>1. ASSUME NEW x \in Readable PROVE row[x] \in Rows /\ live[x] \in Counter
    BY <1>2 DEF Readable, Enabled, HasRow, TypeOK
  <2>2. \A x \in emitting : SampleOf(row[x], live[x]) \in Samples
    BY <2>1, SampleTyped
  <2> QED  BY <2>2 DEF Batches
<1>5. batch[b] = IF b \in emitting THEN SampleOf(row[b], live[b]) ELSE NoSample
  OBVIOUS
<1>6. b \in emitting <=> b \in Readable /\ Emits(row[b], live[b])
  OBVIOUS
<1>7. b \in emitting => emitting # {}
  OBVIOUS
<1> HIDE DEF emitting, batch
<1>8. ASSUME b \notin emitting
      PROVE  /\ Flight(queue', b) = Flight(queue, b)
             /\ Marks(b)' = Marks(b)
             /\ \A i \in Marks(b) : Reading(b, i)' = Reading(b, i)
             /\ \A i \in Marks(b) : i # 0 => queue'[i][b] = queue[i][b]
  <2>1. CASE queue' = queue
    BY <2>1 DEF Marks, Reading, Reports
  <2>2. CASE queue' = Append(queue, batch)
    <3>1. /\ \A i \in DOMAIN queue : queue'[i] = queue[i] /\ i # 0
          /\ DOMAIN queue' = DOMAIN queue \cup {n} /\ queue'[n] = batch
      BY <1>2, <1>4, <1>n, <2>2
    <3>2. batch[b] = NoSample
      BY <1>5, <1>8
    <3>3. \A i : i \in Marks(b)' <=> i \in Marks(b)
      BY <3>1, <3>2 DEF Marks, Reports
    <3>4. Flight(queue', b) = Flight(queue, b) + Weight(batch[b])
      BY <1>2, <1>4, <2>2, FlightAppend
    <3>5. Weight(batch[b]) = 0
      BY <3>2 DEF Weight
    <3>6. Flight(queue', b) = Flight(queue, b)
      BY <1>2, <3>4, <3>5
    <3>7. Marks(b)' = Marks(b)
      BY <3>3
    <3> QED  BY <3>1, <3>6, <3>7 DEF Marks, Reading
  <2> QED  BY <1>1, <2>1, <2>2
<1>9. CASE b \notin Readable
  <2>1. /\ row'[b] = row[b] /\ read'[b] = read[b] /\ masked'[b] = masked[b]
        /\ Hidden(b) = 0 /\ b \notin emitting
    BY <1>1, <1>6, <1>9 DEF Hidden
  <2>2. lost'[b] = lost[b]
    BY <1>1, <1>2, <2>1
  <2>3. Unread(b)'
    BY <1>2, <2>1 DEF Unread, HasRow
  <2>4. Linked(b)'
    <3>1. \A j \in Marks(b) : \A i \in Marks(b) : i < j => j # 0
      BY <1>2 DEF Marks
    <3> QED  BY <1>2, <1>8, <2>1, <3>1 DEF Linked, HasRow
  <2>5. Flight(queue', b) + lost'[b] + Bytes(Minus(live'[b], read'[b])) = Unbilled(b)
    BY <1>2, <1>8, <2>1, <2>2
  <2> QED  BY <1>2, <2>1, <2>2, <2>3, <2>4, <2>5
<1>10. CASE b \in Readable
  <2> DEFINE r == row[b]
             c == live[b]
             H == HiddenBy(r, c, masked[b])
  <2>1. HasRow(b) /\ r \in Rows
    BY <1>2, <1>10 DEF Readable, Enabled, HasRow, TypeOK
  <2>2. IF r.init THEN masked[b] \/ read[b] = r.ctr ELSE read[b] = Zero /\ r.ctr = Zero
    BY <1>2, <2>1 DEF Unread, Chain
  <2>3. ~Lower(c, read[b]) /\ (masked[b] => read[b] = Zero)
    BY <1>2 DEF Unread
  <2>4. /\ H \in Nat
        /\ Emits(r, c) => Worth(SampleOf(r, c)) + H = gap
        /\ ~Emits(r, c) => H = gap /\ r.init /\ ~RolledBack(r, c) /\ c = r.ctr
    BY <1>2, <2>1, <2>2, <2>3, ReadingCovers
  <2>5. Hidden(b) = H
    BY <1>10 DEF Hidden, HiddenBy
  <2>6. /\ lost'[b] = lost[b] + H /\ lost'[b] \in Nat
        /\ read'[b] = c /\ live'[b] = c /\ masked'[b] = FALSE
        /\ row'[b] = Fold(r, c, b \notin cut)
    BY <1>1, <1>2, <1>10, <2>4, <2>5
  <2>7. row'[b].init /\ row'[b].ctr = c /\ row'[b].gen = SampleOf(r, c).gen
    BY <2>6 DEF Fold, SampleOf
  <2>8. HasRow(b)'
    BY <1>10, <2>1, RecordRows, <1>2
  <2>9. Unread(b)'
    BY <1>3, <2>6, <2>7, <2>8 DEF Unread
  <2>10. CASE ~Emits(r, c)
    <3>1. b \notin emitting
      BY <1>6, <2>10
    <3>2. row'[b].gen = r.gen /\ row'[b].ctr = r.ctr
      BY <2>4, <2>6, <2>10 DEF Fold
    <3>3. \A i, j \in Marks(b) : i < j => j # 0
      BY <1>2 DEF Marks
    <3>4. Linked(b)'
      <4>1. \A i, j \in Marks(b)' :
              i < j /\ (\A k \in Marks(b)' : k <= i \/ j <= k)
                => Worth(queue'[j][b]) = Gain(Reading(b, i)', queue'[j][b])
        BY <1>2, <1>8, <3>1, <3>3 DEF Linked
      <4>2. \A i \in Marks(b)' : (\A k \in Marks(b)' : k <= i)
              => row'[b].gen = Reading(b, i)'.gen /\ row'[b].ctr = Reading(b, i)'.ctr
        BY <1>2, <1>8, <2>1, <3>1, <3>2 DEF Linked
      <4> QED  BY <4>1, <4>2 DEF Linked
    <3>5. Flight(queue', b) + lost'[b] + Bytes(Minus(live'[b], read'[b])) = Unbilled(b)
      <4>1. Flight(queue', b) = InFlight(b) /\ lost'[b] = lost[b] + gap
        BY <1>2, <1>8, <2>4, <2>6, <2>10, <3>1
      <4>2. Bytes(Minus(live'[b], read'[b])) = 0
        BY <1>3, <2>6
      <4> HIDE DEF gap
      <4> QED  BY <1>2, <4>1, <4>2
    <3> QED  BY <2>6, <2>9, <3>4, <3>5
  <2>11. CASE Emits(r, c)
    <3> DEFINE new == SampleOf(r, c)
    <3>1. b \in emitting /\ queue' = Append(queue, batch) /\ batch[b] = new
      BY <1>1, <1>5, <1>6, <1>7, <1>10, <2>11
    <3>2. new \in Samples /\ new.ctr = c /\ new # NoSample
      <4>1. NoSample \notin Samples
        BY MeteringAssumption DEF Samples, Counter
      <4>2. new \in Samples /\ new.ctr = c
        BY <1>2, <2>1, SampleTyped
      <4> QED  BY <4>1, <4>2
    <3>3. Worth(new) = Gain(r, new) /\ Worth(new) \in Nat
      BY <1>2, <2>1, <2>2, WorthIsGain
    <3>4. /\ \A i \in DOMAIN queue : /\ queue'[i] = queue[i] /\ i \in Nat
                                     /\ i # 0 /\ i < n /\ i # n
          /\ DOMAIN queue' = DOMAIN queue \cup {n} /\ queue'[n] = batch
          /\ n \in Nat /\ 0 < n /\ n # 0
      BY <1>2, <1>4, <1>n, <3>1
    <3> HIDE DEF new
    <3>5. \A i : i \in Marks(b)' <=> i \in Marks(b) \/ i = n
      BY <3>1, <3>2, <3>4 DEF Marks, Reports
    <3>6. /\ \A i \in Marks(b) : i < n /\ i # n /\ i \in Nat
          /\ \A i \in Marks(b) : Reading(b, i)' = Reading(b, i)
          /\ \A i \in Marks(b) : i # 0 => queue'[i][b] = queue[i][b]
          /\ queue'[n][b] = new /\ Reading(b, n)' = new
      <4>1. \A i \in Marks(b) : i = 0 \/ i \in DOMAIN queue
        BY DEF Marks
      <4>2. \A i \in Marks(b) : i < n /\ i # n /\ i \in Nat
        BY <3>4, <4>1
      <4>3. \A i \in Marks(b) : i # 0 => queue'[i][b] = queue[i][b]
        BY <3>4, <4>1
      <4>4. \A i \in Marks(b) : Reading(b, i)' = Reading(b, i)
        BY <4>3 DEF Reading
      <4>5. queue'[n][b] = new
        BY <3>1, <3>4
      <4>6. Reading(b, n)' = queue'[n][b]
        BY <3>4 DEF Reading
      <4> QED  BY <4>2, <4>3, <4>4, <4>5, <4>6
    <3>7. ASSUME NEW i \in Marks(b)', NEW j \in Marks(b)', i < j,
                 \A k \in Marks(b)' : k <= i \/ j <= k
          PROVE  Worth(queue'[j][b]) = Gain(Reading(b, i)', queue'[j][b])
      <4>0. i \in Marks(b)
        BY <3>4, <3>5, <3>6, <3>7
      <4>1. CASE j = n
        <5>1. \A k \in Marks(b) : k <= i
          BY <3>4, <3>5, <3>6, <3>7, <4>1
        <5>2. r.gen = Reading(b, i).gen /\ r.ctr = Reading(b, i).ctr
          BY <1>2, <2>1, <4>0, <5>1 DEF Linked
        <5>3. Gain(Reading(b, i), new) = Gain(r, new)
          BY <5>2 DEF Gain
        <5> QED  BY <3>3, <3>6, <4>0, <4>1, <5>3
      <4>2. CASE j \in Marks(b)
        <5>1. j # 0
          BY <3>6, <3>7, <4>0, <4>2
        <5>2. \A k \in Marks(b) : k <= i \/ j <= k
          BY <3>5, <3>7
        <5>3. Worth(queue[j][b]) = Gain(Reading(b, i), queue[j][b])
          BY <1>2, <3>7, <4>0, <4>2, <5>2 DEF Linked
        <5> QED  BY <3>6, <4>0, <4>2, <5>1, <5>3
      <4> QED  BY <3>5, <4>1, <4>2
    <3>8. ASSUME NEW i \in Marks(b)', \A k \in Marks(b)' : k <= i
          PROVE  row'[b].gen = Reading(b, i)'.gen /\ row'[b].ctr = Reading(b, i)'.ctr
      <4>1. i = n
        BY <3>4, <3>5, <3>6, <3>8
      <4>2. row'[b].gen = new.gen /\ row'[b].ctr = new.ctr
        BY <2>7, <3>2 DEF new
      <4> QED  BY <3>6, <4>1, <4>2
    <3>9. Linked(b)'
      BY <3>7, <3>8 DEF Linked
    <3>10. Flight(queue', b) + lost'[b] + Bytes(Minus(live'[b], read'[b])) = Unbilled(b)
      <4>1. Flight(queue', b) = InFlight(b) + Worth(new)
        <5>1. Flight(queue', b) = Flight(queue, b) + Weight(batch[b])
          BY <1>2, <1>4, <3>1, FlightAppend
        <5>2. Weight(batch[b]) = Worth(new)
          BY <3>1, <3>2 DEF Weight
        <5> QED  BY <1>2, <5>1, <5>2
      <4>2. Bytes(Minus(live'[b], read'[b])) = 0
        BY <1>3, <2>6
      <4>3. Worth(new) + H = gap
        BY <2>4, <2>11 DEF new
      <4> HIDE DEF gap, H
      <4> QED  BY <1>2, <2>4, <2>6, <3>3, <4>1, <4>2, <4>3
    <3> QED  BY <2>6, <2>9, <3>9, <3>10
  <2> QED  BY <2>10, <2>11
<1> QED  BY <1>9, <1>10

(* Recording a sample. *)
LEMMA RecordExact ==
    ASSUME Exact, MeteringInvariant', NEW cut, RecordSample(cut),
           UNCHANGED <<live, seen, snapshot, used, carried>>
    PROVE  Exact'
<1>1. TypeOK'
  BY DEF MeteringInvariant
<1>2. ASSUME NEW b \in Bindings
      PROVE  /\ Linked(b)' /\ Unread(b)'
             /\ lost'[b] \in Nat /\ masked'[b] \in BOOLEAN
             /\ Flight(queue', b) + lost'[b] + Bytes(Minus(live'[b], read'[b])) = Unbilled(b)
  BY <1>1, RecordReading
<1>3. GhostTyped'
  <2>1. lost' \in [Bindings -> Nat]
    BY <1>2 DEF RecordSample
  <2>2. masked' \in [Bindings -> BOOLEAN]
    BY <1>2 DEF RecordSample
  <2> QED  BY <2>1, <2>2 DEF Exact, GhostTyped
<1>4. ASSUME NEW b \in Bindings PROVE Unbilled(b)' = Unbilled(b)
  BY <1>1, <1>2, <1>3, ExactTypesNext
<1>5. Balanced'
  BY <1>4, BalanceKept DEF Exact
<1> QED  BY <1>2, <1>3, <1>5 DEF Exact

(* Traffic adds one byte to what is carried and to what is unread. *)
LEMMA TrafficExact ==
    ASSUME Exact, MeteringInvariant', Traffic
    PROVE  Exact'
<1> USE DEF xrayVars, agentVars, ledgerVars, serverVars, ghostVars, countVars
<1>1. PICK a \in installed :
        /\ carried' = [carried EXCEPT ![a] = @ + 1]
        /\ live' \in {[live EXCEPT ![a].up = @ + 1], [live EXCEPT ![a].down = @ + 1]}
  BY DEF Traffic
<1>2. /\ UNCHANGED <<row, seen, queue, snapshot, used, read, masked, lost>>
      /\ a \in Bindings /\ TypeOK /\ TypeOK'
  BY DEF Traffic, Exact, MeteringInvariant, TypeOK
<1>3. /\ live[a] \in Counter
      /\ \/ live'[a] = [up |-> live[a].up + 1, down |-> live[a].down]
         \/ live'[a] = [up |-> live[a].up, down |-> live[a].down + 1]
      /\ \A b \in Bindings : b # a => live'[b] = live[b]
  <2>1. live \in [Bindings -> Counter]
    BY <1>2 DEF TypeOK
  <2>2. CASE live' = [live EXCEPT ![a].up = @ + 1]
    BY <1>2, <2>1, <2>2 DEF Counter
  <2>3. CASE live' = [live EXCEPT ![a].down = @ + 1]
    BY <1>2, <2>1, <2>3 DEF Counter
  <2> QED  BY <1>1, <2>2, <2>3
<1>4. GhostTyped'
  BY <1>2 DEF Exact, GhostTyped
<1>5. ASSUME NEW b \in Bindings PROVE Linked(b)'
  <2>1. Linked(b)
    BY DEF Exact
  <2> QED  BY <1>2, <2>1 DEF Linked, Marks, Reading, Reports, HasRow
<1>6. ASSUME NEW b \in Bindings PROVE Unread(b)'
  <2>1. Unread(b) /\ read[b] \in Counter
    BY <1>2 DEF Exact, TypeOK
  <2>2. ~Lower(live'[b], read[b])
    <3>1. CASE b = a
      BY <1>3, <2>1, <3>1 DEF Unread, Lower, Counter
    <3>2. CASE b # a
      BY <1>3, <2>1, <3>2 DEF Unread
    <3> QED  BY <3>1, <3>2
  <2> QED  BY <1>2, <2>1, <2>2 DEF Unread, HasRow
<1> DEFINE one(b) == IF b = a THEN 1 ELSE 0
<1>7. ASSUME NEW b \in Bindings
      PROVE  /\ Unbilled(b) \in Nat /\ Unbilled(b)' = Unbilled(b) + one(b)
             /\ carried[b] \in Nat /\ carried'[b] = carried[b] + one(b)
  <2>1. /\ live[b] \in Counter /\ read[b] \in Counter /\ lost[b] \in Nat
        /\ InFlight(b) = Flight(queue, b) /\ InFlight(b) \in Nat
        /\ Unbilled(b) \in Nat /\ carried[b] \in Nat
        /\ Bytes(Minus(live[b], read[b])) \in Nat
    BY <1>2, ExactTypes DEF Exact
  <2>2. /\ InFlight(b)' = Flight(queue', b)
        /\ Unbilled(b)' = InFlight(b)' + lost'[b] + Bytes(Minus(live'[b], read'[b]))
    BY <1>2, <1>4, <1>6, ExactTypesNext
  <2>3. Bytes(Minus(live'[b], read[b])) = Bytes(Minus(live[b], read[b])) + one(b)
    <3>1. CASE b = a
      BY <1>3, <2>1, <3>1 DEF Bytes, Minus, Counter
    <3>2. CASE b # a
      BY <1>3, <2>1, <3>2
    <3> QED  BY <3>1, <3>2
  <2>4. carried'[b] = carried[b] + one(b)
    <3>1. carried \in [Bindings -> Nat]
      BY <1>2 DEF TypeOK
    <3> QED  BY <1>1, <2>1, <3>1
  <2>5. Unbilled(b) = InFlight(b) + lost[b] + Bytes(Minus(live[b], read[b]))
    BY DEF Unbilled
  <2>6. one(b) \in Nat
    OBVIOUS
  <2> HIDE DEF one
  <2>7. Unbilled(b)' = Unbilled(b) + one(b)
    BY <1>2, <2>1, <2>2, <2>3, <2>5, <2>6
  <2> QED  BY <2>1, <2>4, <2>7
<1>8. Balanced'
  <2> SUFFICES ASSUME NEW s \in Subscriptions
               PROVE  used'[s] + Total([b \in Mine(s) |-> Unbilled(b)'])
                      = Total([b \in Mine(s) |-> carried'[b]])
    BY DEF Balanced, Mine
  <2> DEFINE S == Mine(s)
             F == [b \in S |-> Unbilled(b)]
             G == [b \in S |-> Unbilled(b)']
             C == [b \in S |-> carried[b]]
             D == [b \in S |-> carried'[b]]
             E == [b \in S |-> one(b)]
  <2>1. IsFiniteSet(S) /\ S \subseteq Bindings
    BY MineFinite
  <2>2. \A b \in S : one(b) \in Nat
    OBVIOUS
  <2> HIDE DEF S, one
  <2>3. /\ F \in [S -> Nat] /\ G \in [S -> Nat] /\ C \in [S -> Nat] /\ D \in [S -> Nat]
        /\ E \in [S -> Nat]
        /\ \A b \in S : G[b] = F[b] + E[b]
        /\ \A b \in S : D[b] = C[b] + E[b]
    BY <1>7, <2>1, <2>2
  <2>4. used'[s] = used[s] /\ used[s] \in Nat /\ used[s] + Total(F) = Total(C)
    BY <1>2 DEF Exact, Balanced, GhostTyped, S
  <2> HIDE DEF F, G, C, D, E
  <2>5. Total(G) = Total(F) + Total(E)
    <3>1. G = Plus(F, E)
      BY <2>3 DEF Plus
    <3> QED  BY <2>1, <2>3, <3>1, TotalAdd
  <2>6. Total(D) = Total(C) + Total(E)
    <3>1. D = Plus(C, E)
      BY <2>3 DEF Plus
    <3> QED  BY <2>1, <2>3, <3>1, TotalAdd
  <2>7. Total(F) \in Nat /\ Total(C) \in Nat /\ Total(E) \in Nat
    BY <2>1, <2>3, UnitsFinite
  <2>8. used'[s] + Total(G) = Total(D)
    BY <2>4, <2>5, <2>6, <2>7
  <2> QED  BY <2>8 DEF G, D, S
<1> QED  BY <1>4, <1>5, <1>6, <1>8 DEF Exact

(* A sample that is settled was accepted, and it is charged what it is worth:  *)
(* nothing of b lies beyond a boundary, and the first queued sample links up   *)
(* with the snapshot.                                                          *)
LEMMA HeadCharged ==
    ASSUME Exact, queue # <<>>, NEW b \in Bindings, Reports(1, b)
    PROVE  /\ Accepted(b) /\ 1 \in DOMAIN queue /\ Head(queue) = queue[1]
           /\ Charge(b, queue[1][b]) = Worth(queue[1][b]) /\ Worth(queue[1][b]) \in Nat
<1>1. queue \in Seq(Batches) /\ settled \in Nat /\ watermark[b] \in Nat \cup {NoWatermark}
  BY DEF Exact, MeteringInvariant, TypeOK
<1>2. 1 \in DOMAIN queue /\ Head(queue) = queue[1] /\ queue[1] \in Batches
  BY <1>1
<1>3. Accepted(b)
  <2>1. watermark[b] # NoWatermark => ~(settled + 1 > watermark[b])
    BY <1>2 DEF Exact, MeteringInvariant, Orders
  <2> QED  BY <1>1, <2>1 DEF Accepted
<1>4. Charge(b, queue[1][b]) = Gain(Reading(b, 0), queue[1][b])
  BY DEF Charge, Gain, Reading
<1>5. 0 \in Marks(b) /\ 1 \in Marks(b) /\ \A k \in Marks(b) : k <= 0 \/ 1 <= k
  BY <1>1, <1>2 DEF Marks
<1>6. Worth(queue[1][b]) = Gain(Reading(b, 0), queue[1][b])
  BY <1>5 DEF Exact, Linked
<1>7. Worth(queue[1][b]) \in Nat
  BY <1>2, WeightNat DEF Reports
<1> QED  BY <1>2, <1>3, <1>4, <1>6, <1>7

(* Settling a batch moves the snapshot one reading up the chain. *)
LEMMA AccountLinked ==
    ASSUME Exact, Account, NEW b \in Bindings
    PROVE  Linked(b)'
<1> USE DEF xrayVars, agentVars, ledgerVars, serverVars, ghostVars, countVars
<1> DEFINE accepted == {x \in Bindings : Head(queue)[x] # NoSample /\ Accepted(x)}
<1>1. /\ queue # <<>> /\ queue' = Tail(queue)
      /\ snapshot' = [x \in Bindings |->
                       IF x \in accepted THEN [gen |-> Head(queue)[x].gen,
                                               ctr |-> Head(queue)[x].ctr]
                                         ELSE snapshot[x]]
      /\ UNCHANGED row
  BY DEF Account
<1>2. queue \in Seq(Batches)
  BY DEF Exact, MeteringInvariant, TypeOK
<1>3. /\ \A i \in DOMAIN queue' : /\ i \in Nat /\ i >= 1 /\ i + 1 \in DOMAIN queue
                                  /\ queue'[i] = queue[i + 1]
      /\ 1 \in DOMAIN queue /\ Head(queue) = queue[1]
      /\ \A j \in DOMAIN queue : j \in Nat /\ j >= 1
      /\ \A j \in DOMAIN queue : j # 1 => j - 1 \in DOMAIN queue' /\ (j - 1) + 1 = j
  BY <1>1, <1>2
\* Where a reading on record was before the step.
<1> DEFINE up(i) == IF i = 0 THEN (IF Reports(1, b) THEN 1 ELSE 0) ELSE i + 1
<1>4. Reports(1, b) => b \in accepted
  BY <1>1, <1>3, HeadCharged DEF Reports
<1>5. ~Reports(1, b) => b \notin accepted
  BY <1>3 DEF Reports
<1>6. /\ Reports(1, b) => /\ snapshot'[b].gen = queue[1][b].gen
                          /\ snapshot'[b].ctr = queue[1][b].ctr
      /\ ~Reports(1, b) => snapshot'[b] = snapshot[b]
  <2>1. CASE Reports(1, b)
    <3>1. snapshot'[b] = [gen |-> queue[1][b].gen, ctr |-> queue[1][b].ctr]
      BY <1>1, <1>3, <1>4, <2>1
    <3> QED  BY <2>1, <3>1
  <2>2. CASE ~Reports(1, b)
    BY <1>1, <1>5, <2>2
  <2> QED  BY <2>1, <2>2
<1> HIDE DEF accepted
<1>7. ASSUME NEW i \in Marks(b)'
      PROVE  /\ i \in Nat /\ up(i) \in Marks(b) /\ up(i) \in Nat
             /\ Reading(b, i)'.gen = Reading(b, up(i)).gen
             /\ Reading(b, i)'.ctr = Reading(b, up(i)).ctr
             /\ i # 0 => up(i) = i + 1 /\ queue'[i][b] = queue[up(i)][b]
  <2>1. CASE i = 0
    <3>1. Reading(b, i)' = snapshot'[b]
      BY <2>1 DEF Reading
    <3>2. CASE Reports(1, b)
      <4>1. up(i) = 1 /\ Reading(b, 1) = queue[1][b] /\ 1 \in Marks(b)
        BY <1>3, <2>1, <3>2 DEF Reading, Marks
      <4> QED  BY <1>6, <2>1, <3>1, <3>2, <4>1
    <3>3. CASE ~Reports(1, b)
      <4>1. up(i) = 0 /\ Reading(b, 0) = snapshot[b] /\ 0 \in Marks(b)
        BY <2>1, <3>3 DEF Reading, Marks
      <4> QED  BY <1>6, <2>1, <3>1, <3>3, <4>1
    <3> QED  BY <3>2, <3>3
  <2>2. CASE i # 0
    <3>1. i \in DOMAIN queue' /\ queue'[i][b] # NoSample
      BY <2>2 DEF Marks, Reports
    <3>2. up(i) = i + 1 /\ i \in Nat /\ i + 1 \in DOMAIN queue /\ queue'[i] = queue[i + 1]
      BY <1>3, <2>2, <3>1
    <3>3. i + 1 \in Marks(b) /\ i + 1 # 0
      BY <3>1, <3>2 DEF Marks, Reports
    <3>4. Reading(b, i)' = queue'[i][b] /\ Reading(b, i + 1) = queue[i + 1][b]
      BY <2>2, <3>3 DEF Reading
    <3> QED  BY <3>2, <3>3, <3>4
  <2> QED  BY <2>1, <2>2
<1>8. ASSUME NEW k \in Marks(b)
      PROVE  \/ k = 0
             \/ k = 1 /\ Reports(1, b)
             \/ k \in Nat /\ k - 1 \in Marks(b)' /\ k - 1 # 0 /\ up(k - 1) = k
  <2>1. CASE k # 0 /\ k # 1
    <3>1. k \in DOMAIN queue /\ queue[k][b] # NoSample
      BY <2>1 DEF Marks, Reports
    <3>2. k \in Nat /\ k - 1 \in DOMAIN queue' /\ (k - 1) + 1 = k /\ k - 1 # 0
      BY <1>3, <2>1, <3>1
    <3>3. queue'[k - 1] = queue[k]
      BY <1>3, <3>2
    <3>4. k - 1 \in Marks(b)'
      BY <3>1, <3>2, <3>3 DEF Marks, Reports
    <3> QED  BY <3>2, <3>4
  <2>2. CASE k = 1
    BY <2>2 DEF Marks
  <2> QED  BY <2>1, <2>2
<1>9. ASSUME NEW i \in Marks(b)', NEW k \in Marks(b)', k <= i PROVE up(k) <= up(i)
  <2>1. i \in Nat /\ k \in Nat
    BY <1>7
  <2> QED  BY <1>9, <2>1
<1>10. 0 \in Marks(b)' /\ \A i \in Marks(b)' : up(0) <= up(i) /\ 0 <= up(i)
  <2>1. 0 \in Marks(b)'
    BY DEF Marks
  <2>2. ASSUME NEW i \in Marks(b)' PROVE up(0) <= up(i) /\ 0 <= up(i)
    <3>1. 0 <= i /\ up(i) \in Nat
      BY <1>7
    <3> QED  BY <1>9, <2>1, <3>1
  <2> QED  BY <2>1, <2>2
<1>11. Reports(1, b) => up(0) = 1
  OBVIOUS
<1>12. ASSUME NEW i \in Marks(b)', NEW j \in Marks(b)', i < j PROVE up(i) < up(j) /\ j # 0
  <2>1. i \in Nat /\ j \in Nat
    BY <1>7
  <2> QED  BY <1>12, <2>1
<1> HIDE DEF up
<1>13. ASSUME NEW i \in Marks(b)', NEW j \in Marks(b)', i < j,
              \A k \in Marks(b)' : k <= i \/ j <= k
       PROVE  Worth(queue'[j][b]) = Gain(Reading(b, i)', queue'[j][b])
  <2>1. up(i) < up(j) /\ j # 0
    BY <1>12, <1>13
  <2>2. ASSUME NEW k \in Marks(b) PROVE k <= up(i) \/ up(j) <= k
    <3>1. CASE k = 0
      BY <1>10, <3>1
    <3>2. CASE k = 1 /\ Reports(1, b)
      BY <1>10, <1>11, <3>2
    <3>3. CASE k - 1 \in Marks(b)' /\ up(k - 1) = k
      BY <1>9, <1>13, <3>3
    <3> QED  BY <1>8, <3>1, <3>2, <3>3
  <2>3. Worth(queue[up(j)][b]) = Gain(Reading(b, up(i)), queue[up(j)][b])
    BY <1>7, <2>1, <2>2 DEF Exact, Linked
  <2>4. Gain(Reading(b, i)', queue'[j][b]) = Gain(Reading(b, up(i)), queue'[j][b])
    BY <1>7 DEF Gain
  <2> QED  BY <1>7, <2>1, <2>3, <2>4
<1>14. ASSUME HasRow(b)', NEW i \in Marks(b)', \A k \in Marks(b)' : k <= i
       PROVE  row'[b].gen = Reading(b, i)'.gen /\ row'[b].ctr = Reading(b, i)'.ctr
  <2>1. ASSUME NEW k \in Marks(b) PROVE k <= up(i)
    <3>1. CASE k = 0
      BY <1>10, <3>1
    <3>2. CASE k = 1 /\ Reports(1, b)
      BY <1>10, <1>11, <3>2
    <3>3. CASE k - 1 \in Marks(b)' /\ up(k - 1) = k
      BY <1>9, <1>14, <3>3
    <3> QED  BY <1>8, <3>1, <3>2, <3>3
  <2>2. HasRow(b) /\ row'[b] = row[b]
    BY <1>1, <1>14 DEF HasRow
  <2>3. row[b].gen = Reading(b, up(i)).gen /\ row[b].ctr = Reading(b, up(i)).ctr
    BY <1>7, <2>1, <2>2 DEF Exact, Linked
  <2> QED  BY <1>7, <2>2, <2>3
<1> QED  BY <1>13, <1>14 DEF Linked

(* Settling a batch bills exactly what leaves the queue. *)
LEMMA AccountExact ==
    ASSUME Exact, MeteringInvariant', Account
    PROVE  Exact'
<1> USE DEF xrayVars, agentVars, ledgerVars, serverVars, ghostVars, countVars
<1> DEFINE batch == Head(queue)
           accepted == {b \in Bindings : batch[b] # NoSample /\ Accepted(b)}
           charged(s) == {b \in accepted : SubscriptionOf[b] = s /\ Charge(b, batch[b]) > 0}
           worth(b) == Weight(queue[1][b])
<1>1. /\ queue # <<>> /\ queue' = Tail(queue)
      /\ used' = [s \in Subscriptions |->
                   used[s] + Total([b \in charged(s) |-> Charge(b, batch[b])])]
      /\ UNCHANGED <<row, seen, live, read, masked, lost, carried>>
  BY DEF Account
<1>2. queue \in Seq(Batches) /\ TypeOK /\ TypeOK'
  BY DEF Exact, MeteringInvariant, TypeOK
<1>3. 1 \in DOMAIN queue /\ batch = queue[1] /\ queue[1] \in Batches
  BY <1>1, <1>2
<1>4. ASSUME NEW b \in Bindings
      PROVE  /\ worth(b) \in Nat
             /\ b \in accepted => Charge(b, batch[b]) = worth(b)
             /\ b \notin accepted => worth(b) = 0
  <2>1. CASE Reports(1, b)
    <3>1. /\ b \in accepted /\ Charge(b, batch[b]) = Worth(queue[1][b])
          /\ Worth(queue[1][b]) \in Nat
      BY <1>1, <1>3, <2>1, HeadCharged DEF Reports
    <3> QED  BY <2>1, <3>1 DEF Weight, Reports
  <2>2. CASE ~Reports(1, b)
    BY <1>3, <2>2 DEF Weight, Reports
  <2> QED  BY <2>1, <2>2
<1>5. ASSUME NEW s \in Subscriptions
      PROVE  LET S == Mine(s)
                 W == [b \in S |-> worth(b)]
             IN  /\ IsFiniteSet(S) /\ S \subseteq Bindings /\ W \in [S -> Nat]
                 /\ Total(W) \in Nat /\ used'[s] = used[s] + Total(W)
  <2> DEFINE S == Mine(s)
             T == charged(s)
             W == [b \in S |-> worth(b)]
             V == [b \in T |-> Charge(b, batch[b])]
  <2>1. IsFiniteSet(S) /\ S \subseteq Bindings
    BY MineFinite
  <2>2. W \in [S -> Nat]
    BY <1>4, <2>1
  <2>3. T \subseteq S
    BY DEF Mine
  <2>4. \A b \in T : b \in Bindings /\ b \in accepted
    OBVIOUS
  <2>5. \A b \in T : V[b] = worth(b) /\ worth(b) \in Nat
    BY <1>4, <2>4
  <2>6. V \in [T -> Nat] /\ \A b \in T : V[b] = W[b]
    BY <2>3, <2>5
  <2>7. ASSUME NEW b \in S \ T PROVE W[b] = 0
    <3>1. b \in Bindings /\ SubscriptionOf[b] = s /\ W[b] = worth(b)
      BY DEF Mine
    <3>2. CASE b \notin accepted
      BY <1>4, <3>1, <3>2
    <3>3. CASE b \in accepted
      <4>1. ~(Charge(b, batch[b]) > 0)
        BY <3>1, <3>3
      <4> HIDE DEF worth, W, V
      <4> QED  BY <1>4, <3>1, <3>3, <4>1
    <3> QED  BY <3>2, <3>3
  <2>8. used'[s] = used[s] + Total(V)
    BY <1>1
  <2> HIDE DEF S, T, W, V
  <2>9. Total(W) = Total(V)
    BY <2>2, <2>3, <2>6, <2>7, TotalNonzero
  <2>10. Total(W) \in Nat
    BY <2>1, <2>2, UnitsFinite
  <2> QED  BY <2>1, <2>2, <2>8, <2>9, <2>10 DEF S, W
<1>6. GhostTyped'
  <2>1. ASSUME NEW s \in Subscriptions PROVE used'[s] \in Nat
    <3>1. used[s] \in Nat
      BY DEF Exact, GhostTyped
    <3> DEFINE W == [b \in Mine(s) |-> worth(b)]
    <3>2. Total(W) \in Nat /\ used'[s] = used[s] + Total(W)
      BY <1>5
    <3> HIDE DEF W
    <3>3. PICK w \in Nat : used'[s] = used[s] + w
      BY <3>2
    <3> QED  BY <3>1, <3>3
  <2>2. used' \in [Subscriptions -> Nat]
    BY <1>1, <2>1
  <2> QED  BY <1>1, <2>2 DEF Exact, GhostTyped
<1>7. ASSUME NEW b \in Bindings PROVE Linked(b)'
  BY AccountLinked
<1>8. ASSUME NEW b \in Bindings PROVE Unread(b)'
  <2>1. Unread(b)
    BY DEF Exact
  <2> QED  BY <1>1, <2>1 DEF Unread, HasRow
<1> HIDE DEF batch, accepted, charged
<1>9. ASSUME NEW b \in Bindings
      PROVE  /\ Unbilled(b)' \in Nat /\ worth(b) \in Nat
             /\ Unbilled(b) = Unbilled(b)' + worth(b)
  <2>1. /\ lost[b] \in Nat /\ Bytes(Minus(live[b], read[b])) \in Nat
        /\ InFlight(b) = Flight(queue, b)
    BY <1>2, ExactTypes DEF Exact
  <2>2. /\ InFlight(b)' = Flight(queue', b) /\ InFlight(b)' \in Nat /\ Unbilled(b)' \in Nat
        /\ Unbilled(b)' = InFlight(b)' + lost'[b] + Bytes(Minus(live'[b], read'[b]))
    BY <1>2, <1>6, <1>8, ExactTypesNext
  <2>3. Flight(queue, b) = Flight(queue', b) + worth(b)
    BY <1>1, <1>2, FlightTail
  <2>4. Unbilled(b) = InFlight(b) + lost[b] + Bytes(Minus(live[b], read[b]))
    BY DEF Unbilled
  <2>5. worth(b) \in Nat
    BY <1>4
  <2> HIDE DEF worth
  <2> QED  BY <1>1, <2>1, <2>2, <2>3, <2>4, <2>5
<1>10. Balanced'
  <2> SUFFICES ASSUME NEW s \in Subscriptions
               PROVE  used'[s] + Total([b \in Mine(s) |-> Unbilled(b)'])
                      = Total([b \in Mine(s) |-> carried'[b]])
    BY DEF Balanced, Mine
  <2> DEFINE S == Mine(s)
             W == [b \in S |-> worth(b)]
             F == [b \in S |-> Unbilled(b)]
             G == [b \in S |-> Unbilled(b)']
             C == [b \in S |-> carried[b]]
  <2>1. /\ IsFiniteSet(S) /\ S \subseteq Bindings /\ W \in [S -> Nat]
        /\ Total(W) \in Nat /\ used'[s] = used[s] + Total(W)
    BY <1>5
  <2>2. used[s] \in Nat /\ used[s] + Total(F) = Total(C)
    BY DEF Exact, Balanced, GhostTyped
  <2>3. [b \in Mine(s) |-> carried'[b]] = C
    BY <1>1
  <2> HIDE DEF S, worth
  <2>4. G \in [S -> Nat] /\ F = Plus(G, W)
    BY <1>9, <2>1 DEF Plus
  <2> HIDE DEF W, F, G, C
  <2>5. Total(F) = Total(G) + Total(W) /\ Total(G) \in Nat
    BY <2>1, <2>4, TotalAdd, UnitsFinite
  <2>6. used'[s] + Total(G) = Total(C)
    BY <2>1, <2>2, <2>5
  <2> QED  BY <2>3, <2>6 DEF G, S
<1> QED  BY <1>6, <1>7, <1>8, <1>10 DEF Exact

(* Fresh bindings have carried nothing and owe nothing. *)
LEMMA ExactInit == Init => Exact
<1> SUFFICES ASSUME Init PROVE Exact
  OBVIOUS
<1>1. MeteringInvariant /\ TypeOK
  BY MeteringInit DEF MeteringInvariant
<1>2. GhostTyped
  BY DEF Init, GhostTyped
<1>3. ASSUME NEW b \in Bindings PROVE Linked(b) /\ Unread(b)
  <2>1. Marks(b) = {0} /\ ~HasRow(b)
    BY DEF Init, Marks, HasRow
  <2>2. Linked(b)
    BY <2>1 DEF Linked
  <2>3. live[b] = Zero /\ read[b] = Zero
    BY DEF Init
  <2>4. Unread(b)
    BY <2>1, <2>3 DEF Unread, Lower, Zero
  <2> QED  BY <2>2, <2>4
<1>4. ASSUME NEW b \in Bindings PROVE Unbilled(b) = 0 /\ carried[b] = 0
  <2>1. queue = <<>> /\ live[b] = Zero /\ read[b] = Zero /\ lost[b] = 0 /\ carried[b] = 0
    BY DEF Init
  <2>2. Bytes(Minus(Zero, Zero)) = 0
    BY DEF Bytes, Minus, Zero
  <2>3. InFlight(b) = 0
    <3> DEFINE f == [i \in {j \in DOMAIN queue : Reports(j, b)} |-> Worth(queue[i][b])]
    <3>1. UNION {{x} \X (1 .. f[x]) : x \in DOMAIN f} = {}
      BY <2>1
    <3>2. Total(f) = 0
      BY <3>1, FS_EmptySet DEF Total
    <3> QED  BY <3>2 DEF InFlight
  <2> QED  BY <2>1, <2>2, <2>3 DEF Unbilled
<1>5. Balanced
  <2> SUFFICES ASSUME NEW s \in Subscriptions
               PROVE  used[s] + Total([b \in Mine(s) |-> Unbilled(b)])
                      = Total([b \in Mine(s) |-> carried[b]])
    BY DEF Balanced
  <2> DEFINE F == [b \in Mine(s) |-> Unbilled(b)]
             C == [b \in Mine(s) |-> carried[b]]
  <2>1. F = C /\ C \in [Mine(s) -> Nat]
    BY <1>4 DEF Mine
  <2>2. used[s] = 0
    BY DEF Init
  <2> HIDE DEF F, C
  <2>3. Total(C) \in Nat
    BY <2>1, MineFinite, UnitsFinite
  <2>4. used[s] + Total(F) = Total(C)
    BY <2>1, <2>2, <2>3
  <2> QED  BY <2>4 DEF F, C
<1> QED  BY <1>1, <1>2, <1>3, <1>5 DEF Exact

(* One step per action other than Reactivate. *)
LEMMA ExactStep ==
    ASSUME Exact, [Next]_vars, ~\E b \in Bindings : Reactivate(b)
    PROVE  Exact'
<1>0. MeteringInvariant' /\ MeteringInvariant
  BY MeteringStep DEF Exact
<1> USE DEF xrayVars, agentVars, ledgerVars, serverVars, ghostVars, countVars
<1>1. CASE \/ Fail \/ CompleteCommand \/ UNCHANGED vars
           \/ \E s \in Subscriptions : DisableSubscription(s) \/ DeleteSubscription(s)
  <2>1. UNCHANGED <<row, seen, queue, snapshot, used, carried, live, read, masked, lost>>
    BY <1>1 DEF Fail, CompleteCommand, vars, DisableSubscription, DeleteSubscription
  <2>2. GhostTyped'
    BY <2>1 DEF Exact, GhostTyped
  <2> QED  BY <1>0, <2>1, <2>2, QuietExact, RowsStay, CountersStay
<1>2. CASE PanelReset \/ XrayRestart
  <2>1. UNCHANGED <<row, seen, queue, snapshot, used, carried>>
    BY <1>2 DEF PanelReset, XrayRestart
  <2>2. \E accounts : Wipe(accounts)
    BY <1>2 DEF PanelReset, XrayRestart
  <2>3. GhostTyped' /\ \A b \in Bindings : CountersMove(b)
    BY <2>1, <2>2, WipeMoves
  <2> QED  BY <1>0, <2>1, <2>3, QuietExact, RowsStay
<1>3. CASE UninstallExhausted \/ Reconcile
  <2>1. UNCHANGED <<row, seen, queue, snapshot, used, carried>>
    BY <1>3 DEF UninstallExhausted, Reconcile
  <2>2. \E accounts, added : Uninstall(accounts, added)
    BY <1>3 DEF UninstallExhausted, Reconcile
  <2>3. GhostTyped' /\ \A b \in Bindings : CountersMove(b)
    BY <2>1, <2>2, UninstallMoves
  <2> QED  BY <1>0, <2>1, <2>3, QuietExact, RowsStay
<1>4. CASE \E c \in commands : EnsureUser(c)
  <2>1. PICK c \in commands : EnsureUser(c)
    BY <1>4
  <2>2. UNCHANGED <<queue, snapshot, used, carried, live, read, masked, lost>>
    BY <2>1 DEF EnsureUser
  <2>3. GhostTyped'
    BY <2>2 DEF Exact, GhostTyped
  <2>4. \A b \in Bindings : RowMoves(b) /\ CountersMove(b)
    BY <1>0, <2>1, <2>2, EnsureUserRows, CountersStay
  <2> QED  BY <1>0, <2>2, <2>3, <2>4, QuietExact
<1>5. CASE FinishTerminal
  <2>1. UNCHANGED <<queue, snapshot, used, carried>>
    BY <1>5 DEF FinishTerminal
  <2>2. \E accounts, added : Uninstall(accounts, added)
    BY <1>5 DEF FinishTerminal
  <2>3. GhostTyped' /\ \A b \in Bindings : CountersMove(b)
    BY <2>1, <2>2, UninstallMoves
  <2>4. \A b \in Bindings : RowMoves(b)
    BY <1>0, <1>5, FinishTerminalRows
  <2> QED  BY <1>0, <2>1, <2>3, <2>4, QuietExact
<1>6. CASE FinishRefresh
  <2>1. UNCHANGED <<queue, snapshot, used, carried>>
    BY <1>6 DEF FinishRefresh
  <2>2. \E accounts, added : Uninstall(accounts, added)
    BY <1>6 DEF FinishRefresh
  <2>3. GhostTyped' /\ \A b \in Bindings : CountersMove(b)
    BY <2>1, <2>2, UninstallMoves
  <2>4. \A b \in Bindings : RowMoves(b)
    BY <1>0, <1>6, FinishRefreshRows
  <2> QED  BY <1>0, <2>1, <2>3, <2>4, QuietExact
<1>7. CASE Sample \/ \E c \in commands : BeginTerminal(c)
  <2>1. UNCHANGED <<live, seen, snapshot, used, carried>>
    BY <1>7 DEF Sample, BeginTerminal
  <2>2. \E cut : RecordSample(cut)
    BY <1>7 DEF Sample, BeginTerminal
  <2> QED  BY <1>0, <2>1, <2>2, RecordExact
<1>8. CASE BeginRefresh
  <2>1. UNCHANGED <<live, seen, snapshot, used, carried>>
    BY <1>8 DEF BeginRefresh
  <2>2. CASE \E cut : RecordSample(cut)
    BY <1>0, <2>1, <2>2, RecordExact
  <2>3. CASE UNCHANGED <<row, queue, lost, read, masked>>
    <3>1. GhostTyped'
      BY <2>1, <2>3 DEF Exact, GhostTyped
    <3> QED  BY <1>0, <2>1, <2>3, <3>1, QuietExact, RowsStay, CountersStay
  <2>4. (\E cut : RecordSample(cut)) \/ UNCHANGED <<row, queue, lost, read, masked>>
    BY <1>8 DEF BeginRefresh
  <2> QED  BY <2>2, <2>3, <2>4
<1>9. CASE Traffic
  BY <1>0, <1>9, TrafficExact
<1>10. CASE Account
  BY <1>0, <1>10, AccountExact
<1> QED  BY <1>1, <1>2, <1>3, <1>4, <1>5, <1>6, <1>7, <1>8, <1>9, <1>10 DEF Next

\* The balance and what it rests on, until the first binding is brought back.
ExactInv == TypeOK /\ (reactivations = 0 => Exact)

(***************************************************************************)
(* Until a binding is brought back, every reading on record is linked to   *)
(* the one before it, the agent's row tells which bytes have been read,    *)
(* and every subscription is in balance.                                   *)
(***************************************************************************)
THEOREM ExactInvHolds == Spec => []ExactInv
<1>1. Init => ExactInv
  BY TypeInit, ExactInit DEF ExactInv
<1>2. ExactInv /\ [Next]_vars => ExactInv'
  <2> SUFFICES ASSUME ExactInv, [Next]_vars PROVE ExactInv'
    OBVIOUS
  <2>1. TypeOK'
    BY TypeStep DEF ExactInv
  <2>2. ASSUME reactivations' = 0 PROVE Exact'
    <3>1. ASSUME NEW b \in Bindings, Reactivate(b) PROVE FALSE
      <4>1. reactivations' = reactivations + 1 /\ reactivations \in Nat
        BY <3>1 DEF Reactivate, ExactInv, TypeOK
      <4> QED  BY <2>2, <4>1
    <3>2. reactivations' = reactivations
      <4> USE DEF xrayVars, agentVars, ledgerVars, serverVars, ghostVars, countVars
      <4>1. CASE UNCHANGED vars
        BY <4>1 DEF vars
      <4>2. CASE \/ Traffic \/ PanelReset \/ XrayRestart \/ Sample \/ UninstallExhausted
                 \/ Fail \/ Reconcile \/ CompleteCommand \/ Account
        BY <4>2 DEF Traffic, PanelReset, XrayRestart, Sample, UninstallExhausted, Fail,
                    Reconcile, CompleteCommand, Account
      <4>3. CASE \/ FinishTerminal \/ BeginRefresh \/ FinishRefresh
                 \/ \E c \in commands : EnsureUser(c) \/ BeginTerminal(c)
                 \/ \E s \in Subscriptions : DisableSubscription(s) \/ DeleteSubscription(s)
        BY <4>3 DEF FinishTerminal, BeginRefresh, FinishRefresh, EnsureUser, BeginTerminal,
                    DisableSubscription, DeleteSubscription
      <4> QED  BY <3>1, <4>1, <4>2, <4>3 DEF Next
    <3> QED  BY <2>2, <3>1, <3>2, ExactStep DEF ExactInv
  <2> QED  BY <2>1, <2>2 DEF ExactInv
<1> QED  BY <1>1, <1>2, PTL DEF Spec

(***************************************************************************)
(* Every byte an account has carried is billed to its subscription, in the *)
(* queue, not yet read, or was wiped from Xray's counters unread: for any  *)
(* number of bindings, subscriptions, resets, restarts, cut-offs, crashes, *)
(* disables and deletions, until a binding is brought back (foldCounter    *)
(* and RecordSample against applyDirectBatch).                             *)
(***************************************************************************)
THEOREM MeteringExactHolds == Spec => []MeteringExact
<1>1. ExactInv => MeteringExact
  BY DEF ExactInv, Exact, Balanced, Unbilled, Mine, MeteringExact
<1> QED  BY <1>1, ExactInvHolds, PTL
=============================================================================
