-------------------------- MODULE CommandJobsProofs --------------------------
(***************************************************************************)
(* Proofs about the orders of the control plane (module CommandJobs): the  *)
(* newest inbound wins, what was given up is shown until it is replaced,   *)
(* and an order that is completed is what the agent does.                  *)
(***************************************************************************)
EXTENDS CommandJobs, TLAPS

(* The table of jobs: inbound jobs name a panel inbound and the others a   *)
(* binding; a committed order has drawn its revision, and only a job that  *)
(* was given up can be dismissed.                                          *)
JobsFit ==
    \A i \in DOMAIN jobs :
        /\ jobs[i].type = "ENSURE_INBOUND" => jobs[i].target \in Specs /\ jobs[i].status # "absent"
        /\ jobs[i].type # "ENSURE_INBOUND" => jobs[i].target \in Bindings
        /\ jobs[i].revision >= 1
        /\ jobs[i].status # "absent" => jobs[i].revision <= revision
        /\ i \in dismissed => jobs[i].status = "cancelled"
        /\ aborts = 0 => jobs[i].status # "absent"

(* The binding's row is the newest order's: its revision, and whether it   *)
(* is to be served.                                                        *)
Speaks(i, b) == jobs[i].target = b /\ jobs[i].status # "absent"

BindingsAgree ==
    \A b \in Bindings :
        /\ directRevision[b] <= revision
        /\ directRevision[b] # 0 => \E i \in DOMAIN jobs : Speaks(i, b) /\ jobs[i].revision = directRevision[b]
        /\ \A i \in DOMAIN jobs : Speaks(i, b) =>
             /\ jobs[i].revision <= directRevision[b]
             /\ jobs[i].revision = directRevision[b] =>
                  (jobs[i].type = "ENSURE_USER" <=> status[b] = "active")

(* No validated deployment is newer than the applied one, which is one of  *)
(* them.                                                                   *)
Applied ==
    /\ \A i \in Inbounds : jobs[i].status = "completed" => jobs[i].revision <= appliedRevision
    /\ appliedRevision # 0 =>
         \E i \in Inbounds : jobs[i].status = "completed" /\ jobs[i].revision = appliedRevision

(* What is reported and recorded as completed is in the agent's journal.   *)
Journaled ==
    /\ \A i \in DOMAIN jobs : jobs[i].status = "completed" => i \in journal
    /\ \A r \in late \cup ({report} \ {None}) : r.status = "completed" => r.job \in journal

(* The agent is never ahead of the control plane.                          *)
NotAhead ==
    /\ snapshotRevision <= configRevision /\ configRevision <= revision
    /\ \A b \in Bindings : seen[b] <= revision

(* A config response: what it says of a binding is the binding's row, or   *)
(* the binding was ordered anew after the node was read.                   *)
SnapshotFits(s) ==
    /\ s.revision \in Nat /\ s.revision <= revision
    /\ s.users # None => \A b \in Bindings :
         IF b \in s.users
         THEN \/ s.at[b] = directRevision[b] /\ status[b] = "active"
              \/ s.at[b] < directRevision[b] /\ s.revision < directRevision[b]
         ELSE directRevision[b] <= s.revision => status[b] # "active"

(* The agent has heard of the newest order of b, from a command or from a  *)
(* snapshot; then it does what the order says.                             *)
Heard(b) == seen[b] >= directRevision[b] \/ snapshotRevision >= directRevision[b]

AgentAgrees ==
    \A b \in Bindings :
        /\ Heard(b) => (row[b] = "on" <=> status[b] = "active")
        /\ status[b] = "active" => seen[b] <= directRevision[b]
        /\ \A i \in journal : jobs[i].target = b /\ jobs[i].revision = directRevision[b] => Heard(b)

(* What only holds as long as nothing was published and then rolled back.  *)
AgentInv ==
    aborts = 0 => NotAhead /\ (\A s \in snapshots : SnapshotFits(s)) /\ AgentAgrees

JobInv ==
    /\ TypeOK /\ JobsFit /\ BindingsAgree /\ Applied /\ LastRequestWins
    /\ ResolutionAgrees /\ Journaled /\ AgentInv

-----------------------------------------------------------------------------
(* The table as a sequence.                                                *)

(* A job is a row of the table. *)
LEMMA JobIsRow ==
  ASSUME NEW s \in Seq(Jobs)
  PROVE  DOMAIN s = 1..Len(s) /\ Len(s) \in Nat /\ \A i \in DOMAIN s : s[i] \in Jobs
  OBVIOUS

(* A job is added. *)
LEMMA AppendJob ==
  ASSUME NEW s \in Seq(Jobs), NEW e \in Jobs
  PROVE  /\ Append(s, e) \in Seq(Jobs) /\ Len(Append(s, e)) = Len(s) + 1
         /\ DOMAIN Append(s, e) = 1..(Len(s) + 1)
         /\ \A t \in DOMAIN s : Append(s, e)[t] = s[t]
         /\ Append(s, e)[Len(s) + 1] = e
  OBVIOUS

(* One job is changed. *)
LEMMA ChangeJob ==
  ASSUME NEW s \in Seq(Jobs), NEW t \in DOMAIN s, NEW e \in Jobs
  PROVE  LET c == [s EXCEPT ![t] = e] IN
         /\ c \in Seq(Jobs) /\ Len(c) = Len(s) /\ DOMAIN c = DOMAIN s
         /\ c[t] = e /\ \A u \in DOMAIN s \ {t} : c[u] = s[u]
  OBVIOUS

(* Every job is rewritten in place. *)
LEMMA RewriteJobs ==
  ASSUME NEW s \in Seq(Jobs), NEW c, c = [i \in DOMAIN s |-> c[i]], \A i \in DOMAIN s : c[i] \in Jobs
  PROVE  c \in Seq(Jobs) /\ Len(c) = Len(s) /\ DOMAIN c = DOMAIN s
  OBVIOUS

(* What a new order closes (resolveExhaustedCommands). *)
Replaced(j, job) ==
    /\ j.status = "cancelled" /\ j.type \in ResolvedBy(job.type)
    /\ job.type # "ENSURE_INBOUND" => j.target = job.target

(* The order a job stands for. *)
SameOrder(j, k) == j.type = k.type /\ j.target = k.target /\ j.revision = k.revision

(* The jobs are those of all with n behind them, which closes what it      *)
(* replaces.                                                               *)
GrownFrom(new, all, n) ==
    /\ new \in Seq(Jobs) /\ Len(new) = Len(all) + 1 /\ DOMAIN new = 1..(Len(all) + 1)
    /\ new[Len(all) + 1] = n
    /\ \A i \in DOMAIN all :
         /\ SameOrder(new[i], all[i]) /\ new[i].status = all[i].status
         /\ new[i].resolved <=> all[i].resolved \/ Replaced(all[i], n)

(* Insert adds the job and closes what it replaces. *)
LEMMA InsertGrows ==
  ASSUME NEW all \in Seq(Jobs), NEW n \in Jobs
  PROVE  GrownFrom(Insert(all, n), all, n)
  <1> DEFINE closed == [i \in DOMAIN all |->
                 IF Replaced(all[i], n) THEN [all[i] EXCEPT !.resolved = TRUE] ELSE all[i]]
  <1>1. Insert(all, n) = Append(closed, n)
    BY DEF Insert, Replaced
  <1>2. \A i \in DOMAIN all : all[i] \in Jobs
    BY JobIsRow
  <1>3. \A i \in DOMAIN all : closed[i] = IF Replaced(all[i], n) THEN [all[i] EXCEPT !.resolved = TRUE] ELSE all[i]
    OBVIOUS
  <1>4. \A i \in DOMAIN all :
          /\ closed[i] \in Jobs /\ SameOrder(closed[i], all[i]) /\ closed[i].status = all[i].status
          /\ closed[i].resolved <=> all[i].resolved \/ Replaced(all[i], n)
    BY <1>2, <1>3 DEF Jobs, SameOrder
  <1>5. closed = [i \in DOMAIN all |-> closed[i]]
    OBVIOUS
  <1> HIDE DEF closed
  <1>6. closed \in Seq(Jobs) /\ Len(closed) = Len(all) /\ DOMAIN closed = DOMAIN all
    BY <1>4, <1>5, RewriteJobs
  <1>7. /\ Append(closed, n) \in Seq(Jobs) /\ Len(Append(closed, n)) = Len(all) + 1
        /\ DOMAIN Append(closed, n) = 1..(Len(all) + 1)
        /\ \A t \in DOMAIN all : Append(closed, n)[t] = closed[t]
        /\ Append(closed, n)[Len(all) + 1] = n
    BY <1>6, AppendJob
  <1> QED
    BY <1>1, <1>4, <1>7 DEF GrownFrom

(* What a binding's target and an inbound's can be.                        *)
LEMMA JobFields ==
  ASSUME JobInv, NEW i \in DOMAIN jobs
  PROVE  /\ jobs[i] \in Jobs /\ jobs[i].revision \in Nat /\ jobs[i].attempts \in Nat
         /\ jobs[i].type \in BindingTypes \cup {"ENSURE_INBOUND"}
         /\ jobs[i].type # "ENSURE_INBOUND" <=> jobs[i].target \in Bindings
         /\ jobs[i].keyed \in BOOLEAN /\ jobs[i].resolved \in BOOLEAN
         /\ jobs[i].status \in {"pending", "running", "failed", "completed", "cancelled", "absent"}
         /\ i \in 1..Len(jobs) /\ Len(jobs) \in Nat /\ DOMAIN jobs = 1..Len(jobs)
  <1>1. jobs \in Seq(Jobs)
    BY DEF JobInv, TypeOK
  <1>2. jobs[i] \in Jobs /\ DOMAIN jobs = 1..Len(jobs) /\ Len(jobs) \in Nat
    BY <1>1, JobIsRow
  <1> QED
    BY <1>2, CommandJobsAssumption DEF JobInv, JobsFit, Jobs

(* A new order leaves the table in order: it has the newest revision and   *)
(* closes exactly what it replaces.                                        *)
LEMMA GrownFits ==
  ASSUME JobInv, NEW n \in Jobs, GrownFrom(jobs', jobs, n), n.status = "pending",
         n.type # "ENSURE_INBOUND" <=> n.target \in Bindings,
         n.type = "ENSURE_INBOUND" => n.target \in Specs,
         n.revision = revision + 1, revision' = revision + 1,
         UNCHANGED <<dismissed, aborts, appliedRevision, journal, late, report>>
  PROVE  JobsFit' /\ ResolutionAgrees' /\ Applied' /\ Journaled'
  <1>l. PICK len \in Nat : len = Len(jobs)
    BY JobIsRow DEF JobInv, TypeOK
  <1>0. len \in Nat /\ DOMAIN jobs = 1..len /\ revision \in Nat /\ dismissed \subseteq DOMAIN jobs
    BY <1>l, JobIsRow DEF JobInv, TypeOK
  <1>1. /\ DOMAIN jobs' = 1..(len + 1) /\ jobs'[len + 1] = n
        /\ \A i \in DOMAIN jobs : SameOrder(jobs'[i], jobs[i]) /\ jobs'[i].status = jobs[i].status
        /\ \A i \in DOMAIN jobs : jobs'[i].resolved <=> jobs[i].resolved \/ Replaced(jobs[i], n)
    BY <1>l DEF GrownFrom
  <1>2. \A i \in DOMAIN jobs :
          /\ jobs[i].revision \in Nat /\ jobs[i].type \in BindingTypes \cup {"ENSURE_INBOUND"}
          /\ jobs[i].type # "ENSURE_INBOUND" <=> jobs[i].target \in Bindings
    BY JobFields
  <1>3. JobsFit'
    <2>1. ASSUME NEW i \in DOMAIN jobs
          PROVE  /\ jobs'[i].type = "ENSURE_INBOUND" => jobs'[i].target \in Specs /\ jobs'[i].status # "absent"
                 /\ jobs'[i].type # "ENSURE_INBOUND" => jobs'[i].target \in Bindings
                 /\ jobs'[i].revision >= 1
                 /\ jobs'[i].status # "absent" => jobs'[i].revision <= revision'
                 /\ i \in dismissed => jobs'[i].status = "cancelled"
                 /\ aborts = 0 => jobs'[i].status # "absent"
      BY <1>0, <1>1, <1>2 DEF JobInv, JobsFit, SameOrder
    <2>2. len + 1 \notin dismissed /\ n.revision >= 1 /\ n.revision <= revision'
      BY <1>0
    <2> QED
      BY <1>0, <1>1, <2>1, <2>2 DEF JobsFit
  <1>4. ResolutionAgrees'
    <2> SUFFICES ASSUME NEW i \in DOMAIN jobs', jobs'[i].status = "cancelled"
                 PROVE  jobs'[i].resolved <=> i \in dismissed' \/ \E j \in DOMAIN jobs' : Replaces(j, i)'
      BY DEF ResolutionAgrees
    <2>1. i \in DOMAIN jobs /\ jobs[i].status = "cancelled"
      BY <1>0, <1>1
    <2>2. \A j \in DOMAIN jobs : Replaces(j, i)' <=> Replaces(j, i)
      BY <1>1, <2>1 DEF Replaces, SameOrder
    <2>3. jobs[i].revision < revision + 1
      BY <1>0, <1>2, <2>1 DEF JobInv, JobsFit
    <2>4. Replaces(len + 1, i)' <=> Replaced(jobs[i], n)
      <3>1. Replaces(len + 1, i)' <=>
              \/ jobs[i].type = "ENSURE_INBOUND" /\ n.type = "ENSURE_INBOUND"
              \/ /\ jobs[i].target = n.target
                 /\ \/ n.type = jobs[i].type
                    \/ n.type = "REMOVE_USER"
                    \/ n.type = "DISABLE_USER" /\ jobs[i].type = "ENSURE_USER"
        BY <1>1, <2>1, <2>3 DEF Replaces, SameOrder
      <3>2. n.type \in {"ENSURE_USER", "DISABLE_USER", "REMOVE_USER", "ENSURE_INBOUND"}
        BY DEF Jobs, BindingTypes, Terminals
      <3> QED
        BY <1>2, <2>1, <3>1, <3>2 DEF Replaced, ResolvedBy, BindingTypes, Terminals
    <2>5. (\E j \in DOMAIN jobs' : Replaces(j, i)') <=> (\E j \in DOMAIN jobs : Replaces(j, i)) \/ Replaced(jobs[i], n)
      BY <1>0, <1>1, <2>2, <2>4
    <2> QED
      BY <1>1, <2>1, <2>5 DEF JobInv, ResolutionAgrees
  <1>5. Applied'
    BY <1>0, <1>1 DEF JobInv, Applied, Inbounds, SameOrder
  <1>6. Journaled'
    BY <1>0, <1>1 DEF JobInv, Journaled
  <1> QED
    BY <1>3, <1>4, <1>5, <1>6

-----------------------------------------------------------------------------
(* What stays as it is.                                                    *)

(* The agent and the config responses still agree with the control plane   *)
(* when none of them changes what they say.                                *)
LEMMA AgentSame ==
  ASSUME JobInv, UNCHANGED <<directRevision, status, snapshots, storeVars, aborts, journal>>,
         revision' \in Nat, revision <= revision',
         \A i \in DOMAIN jobs : SameOrder(jobs'[i], jobs[i])
  PROVE  AgentInv'
  <1>1. journal \subseteq DOMAIN jobs
    BY DEF JobInv, TypeOK
  <1>t. revision \in Nat /\ configRevision \in Nat /\ seen \in [Bindings -> Nat]
    BY DEF JobInv, TypeOK
  <1>2. NotAhead => NotAhead'
    BY <1>t DEF NotAhead, storeVars
  <1>3. ASSUME NEW s, SnapshotFits(s)
        PROVE  SnapshotFits(s)'
    <2>1. s.revision \in Nat /\ s.revision <= revision
      BY <1>3 DEF SnapshotFits
    <2>2. s.revision <= revision'
      BY <1>t, <2>1
    <2> QED
      BY <1>3, <2>2 DEF SnapshotFits
  <1>4. AgentAgrees => AgentAgrees'
    BY <1>1 DEF AgentAgrees, Heard, storeVars, SameOrder
  <1> QED
    BY <1>2, <1>3, <1>4 DEF JobInv, AgentInv

(* The table still fits when no job changes the order it stands for, only  *)
(* jobs outside of it are absent, and what was dismissed stays given up.   *)
LEMMA TableSame ==
  ASSUME JobInv, UNCHANGED <<status, directRevision, aborts>>, revision' \in Nat, revision <= revision',
         DOMAIN jobs' = DOMAIN jobs,
         \A i \in DOMAIN jobs : /\ SameOrder(jobs'[i], jobs[i])
                                /\ jobs'[i].status = "absent" <=> jobs[i].status = "absent"
                                /\ i \in dismissed' => jobs'[i].status = "cancelled"
  PROVE  /\ JobsFit' /\ BindingsAgree' /\ (UNCHANGED lastRequest => LastRequestWins')
         /\ \A i, j \in DOMAIN jobs : Replaces(j, i)' <=> Replaces(j, i)
  <1>t. revision \in Nat /\ directRevision \in [Bindings -> Nat] /\ \A i \in DOMAIN jobs : jobs[i].revision \in Nat
    BY JobFields DEF JobInv, TypeOK
  <1>r. /\ \A i \in DOMAIN jobs : jobs[i].revision <= revision => jobs[i].revision <= revision'
        /\ \A b \in Bindings : directRevision[b] <= revision => directRevision[b] <= revision'
    BY <1>t
  <1>1. JobsFit'
    BY <1>r DEF JobInv, JobsFit, SameOrder
  <1>2. \A i \in DOMAIN jobs, b \in Bindings : Speaks(i, b)' <=> Speaks(i, b)
    BY DEF Speaks, SameOrder
  <1>3. BindingsAgree'
    BY <1>2, <1>r DEF JobInv, BindingsAgree, SameOrder
  <1>4. UNCHANGED lastRequest => LastRequestWins'
    BY DEF JobInv, LastRequestWins, Inbounds, SameOrder
  <1>5. \A i, j \in DOMAIN jobs : Replaces(j, i)' <=> Replaces(j, i)
    BY DEF Replaces, SameOrder
  <1> QED
    BY <1>1, <1>3, <1>4, <1>5

(* A step that leaves the table and the binding rows alone keeps what the  *)
(* server side says.                                                       *)
LEMMA JobsSame ==
  ASSUME JobInv, UNCHANGED <<revision, jobs, status, directRevision, lastRequest, dismissed, aborts, appliedRevision>>
  PROVE  JobsFit' /\ BindingsAgree' /\ Applied' /\ LastRequestWins' /\ ResolutionAgrees'
  <1>0. revision' \in Nat /\ revision <= revision' /\ \A i \in DOMAIN jobs : i \in dismissed => jobs[i].status = "cancelled"
    BY DEF JobInv, TypeOK, JobsFit
  <1>1. /\ JobsFit' /\ BindingsAgree' /\ LastRequestWins'
        /\ \A i, j \in DOMAIN jobs : Replaces(j, i)' <=> Replaces(j, i)
    BY <1>0, TableSame DEF SameOrder
  <1>2. Applied'
    BY DEF JobInv, Applied, Inbounds
  <1>3. ResolutionAgrees'
    BY <1>1 DEF JobInv, ResolutionAgrees
  <1> QED
    BY <1>1, <1>2, <1>3

-----------------------------------------------------------------------------
(* Orders.                                                                 *)

(* A new order of a binding: nobody can have heard of it, and everything   *)
(* under way is older.                                                     *)
LEMMA OrderKeeps ==
  ASSUME JobInv, NEW b \in Bindings, NEW type \in BindingTypes, NEW s \in {"active", "disabled", "deleted"},
         s = "active" <=> type = "ENSURE_USER", Order(b, type, s)
  PROVE  JobInv'
  <1> DEFINE n == NewJob(type, b, revision + 1)
  <1>l. PICK len \in Nat : len = Len(jobs) /\ DOMAIN jobs = 1..len
    BY JobIsRow DEF JobInv, TypeOK
  <1>0. /\ revision' = revision + 1 /\ revision \in Nat /\ len < MaxJobs /\ MaxJobs \in Nat
        /\ status' = [status EXCEPT ![b] = s] /\ directRevision' = [directRevision EXCEPT ![b] = revision + 1]
        /\ boundaryKnown' = [boundaryKnown EXCEPT ![b] = FALSE] /\ Publish({len + 1})
        /\ UNCHANGED <<isActive, appliedRevision, connected, late, snapshots, report, journal, row, seen,
                       snapshotRevision, configRevision, lastRequest, dismissed, aborts>>
        /\ jobs' = Insert(jobs, n) /\ jobs \in Seq(Jobs)
    BY <1>l, CommandJobsAssumption
       DEF Order, CanOrder, inboundVars, agentVars, storeVars, ghostVars, JobInv, TypeOK
  <1>1. /\ n \in Jobs /\ n.type = type /\ n.target = b /\ n.revision = revision + 1 /\ n.status = "pending"
        /\ n.type # "ENSURE_INBOUND" /\ n.target \in Bindings
    BY <1>0 DEF NewJob, Jobs, BindingTypes, Terminals
  <1> HIDE DEF n
  <1>2. GrownFrom(jobs', jobs, n)
    BY <1>0, <1>1, InsertGrows
  <1>3. /\ jobs' \in Seq(Jobs) /\ Len(jobs') = len + 1 /\ DOMAIN jobs' = 1..(len + 1) /\ jobs'[len + 1] = n
        /\ \A i \in DOMAIN jobs : SameOrder(jobs'[i], jobs[i]) /\ jobs'[i].status = jobs[i].status
    BY <1>l, <1>2 DEF GrownFrom
  <1>4. TypeOK'
    BY <1>l, <1>0, <1>3 DEF JobInv, TypeOK, Publish
  <1>5. JobsFit' /\ ResolutionAgrees' /\ Applied' /\ Journaled'
    BY <1>0, <1>1, <1>2, GrownFits
  <1>f. \A i \in DOMAIN jobs : jobs[i].revision \in Nat
    BY JobFields
  <1>6. BindingsAgree'
    <2> SUFFICES ASSUME NEW c \in Bindings
                 PROVE  /\ directRevision'[c] <= revision'
                        /\ directRevision'[c] # 0 =>
                             \E i \in DOMAIN jobs' : Speaks(i, c)' /\ jobs'[i].revision = directRevision'[c]
                        /\ \A i \in DOMAIN jobs' : Speaks(i, c)' =>
                             /\ jobs'[i].revision <= directRevision'[c]
                             /\ jobs'[i].revision = directRevision'[c] =>
                                  (jobs'[i].type = "ENSURE_USER" <=> status'[c] = "active")
      BY DEF BindingsAgree
    <2>t. directRevision \in [Bindings -> Nat] /\ status \in [Bindings -> {"new", "active", "disabled", "deleted"}]
      BY DEF JobInv, TypeOK
    <2>1. \A i \in DOMAIN jobs : Speaks(i, c)' <=> Speaks(i, c)
      BY <1>3 DEF Speaks, SameOrder
    <2>2. Speaks(len + 1, c)' <=> c = b
      BY <1>1, <1>3 DEF Speaks
    <2>3. CASE c # b
      <3>1. directRevision'[c] = directRevision[c] /\ status'[c] = status[c]
        BY <1>0, <2>3, <2>t
      <3>2. /\ directRevision[c] <= revision
            /\ directRevision[c] # 0 => \E i \in DOMAIN jobs : Speaks(i, c) /\ jobs[i].revision = directRevision[c]
            /\ \A i \in DOMAIN jobs : Speaks(i, c) =>
                 /\ jobs[i].revision <= directRevision[c]
                 /\ jobs[i].revision = directRevision[c] => (jobs[i].type = "ENSURE_USER" <=> status[c] = "active")
        BY DEF JobInv, BindingsAgree
      <3>3. directRevision'[c] <= revision'
        BY <1>0, <2>t, <3>1, <3>2
      <3>4. directRevision'[c] # 0 =>
              \E i \in DOMAIN jobs' : Speaks(i, c)' /\ jobs'[i].revision = directRevision'[c]
        BY <1>l, <1>3, <2>1, <3>1, <3>2 DEF SameOrder
      <3>5. \A i \in DOMAIN jobs' : Speaks(i, c)' => i \in DOMAIN jobs
        BY <1>l, <1>3, <2>2, <2>3
      <3> QED
        BY <1>3, <2>1, <3>1, <3>2, <3>3, <3>4, <3>5 DEF SameOrder
    <2>4. CASE c = b
      <3>1. directRevision'[c] = revision + 1 /\ status'[c] = s
        BY <1>0, <2>4, <2>t
      <3>2. \A i \in DOMAIN jobs : Speaks(i, c) => jobs[i].revision <= revision
        BY DEF JobInv, JobsFit, Speaks
      <3>3. \A i \in DOMAIN jobs : Speaks(i, c)' => jobs'[i].revision < revision + 1
        BY <1>0, <1>3, <1>f, <2>1, <3>2 DEF SameOrder
      <3>4. len + 1 \in DOMAIN jobs' /\ \A i \in DOMAIN jobs' : i \in DOMAIN jobs \/ i = len + 1
        BY <1>l, <1>3
      <3>5. jobs'[len + 1].revision = revision + 1 /\ jobs'[len + 1].type = type
        BY <1>1, <1>3
      <3>6. directRevision'[c] <= revision'
        BY <1>0, <3>1
      <3>7. \E i \in DOMAIN jobs' : Speaks(i, c)' /\ jobs'[i].revision = directRevision'[c]
        BY <2>2, <2>4, <3>1, <3>4, <3>5
      <3>8. ASSUME NEW i \in DOMAIN jobs', Speaks(i, c)'
            PROVE  /\ jobs'[i].revision <= directRevision'[c]
                   /\ jobs'[i].revision = directRevision'[c] =>
                        (jobs'[i].type = "ENSURE_USER" <=> status'[c] = "active")
        <4>1. CASE i = len + 1
          BY <1>0, <3>1, <3>5, <4>1
        <4>2. CASE i \in DOMAIN jobs
          <5>1. jobs'[i].revision \in Nat /\ jobs'[i].revision < revision + 1
            BY <1>3, <1>f, <3>3, <3>8, <4>2 DEF SameOrder
          <5> QED
            BY <1>0, <3>1, <5>1
        <4> QED
          BY <3>4, <4>1, <4>2
      <3> QED
        BY <3>6, <3>7, <3>8
    <2> QED
      BY <2>3, <2>4
  <1>7. LastRequestWins'
    <2>1. Inbounds' = Inbounds
      BY <1>l, <1>1, <1>3 DEF Inbounds, SameOrder
    <2> QED
      BY <1>0, <1>3, <2>1 DEF JobInv, LastRequestWins, Inbounds, SameOrder
  <1>8. AgentInv'
    <2> SUFFICES ASSUME aborts = 0
                 PROVE  NotAhead' /\ (\A x \in snapshots : SnapshotFits(x)') /\ AgentAgrees'
      BY <1>0 DEF AgentInv
    <2>t. /\ directRevision \in [Bindings -> Nat] /\ seen \in [Bindings -> Nat]
          /\ snapshotRevision \in Nat /\ configRevision \in Nat
          /\ status \in [Bindings -> {"new", "active", "disabled", "deleted"}]
          /\ snapshots \subseteq Snapshots /\ journal \subseteq DOMAIN jobs
      BY DEF JobInv, TypeOK
    <2>a. NotAhead /\ (\A x \in snapshots : SnapshotFits(x)) /\ AgentAgrees
      BY DEF JobInv, AgentInv
    <2>b. \A c \in Bindings : directRevision[c] <= revision
      BY DEF JobInv, BindingsAgree
    <2>c. /\ directRevision'[b] = revision + 1 /\ status'[b] = s
          /\ \A c \in Bindings \ {b} : directRevision'[c] = directRevision[c] /\ status'[c] = status[c]
      BY <1>0, <2>t
    <2>1. NotAhead'
      BY <1>0, <2>t, <2>a DEF NotAhead
    <2>2. ASSUME NEW x \in snapshots PROVE SnapshotFits(x)'
      <3>1. SnapshotFits(x) /\ x.at \in [Bindings -> Nat]
        BY <2>a, <2>t DEF Snapshots
      <3>2. x.revision \in Nat /\ x.revision <= revision
        BY <3>1 DEF SnapshotFits
      <3>3. x.revision <= revision' /\ x.revision < directRevision'[b]
        BY <1>0, <2>c, <3>2
      <3>4. b \in x.users /\ x.users # None => x.at[b] < directRevision'[b]
        <4>1. b \in x.users /\ x.users # None => x.at[b] <= directRevision[b]
          BY <2>t, <3>1 DEF SnapshotFits
        <4> QED
          BY <1>0, <2>b, <2>c, <2>t, <3>1, <4>1
      <3>5. ~(directRevision'[b] <= x.revision)
        BY <1>0, <2>c, <3>2
      <3> QED
        BY <2>c, <3>1, <3>2, <3>3, <3>4, <3>5 DEF SnapshotFits
    <2>3. AgentAgrees'
      <3> SUFFICES ASSUME NEW c \in Bindings
                   PROVE  /\ Heard(c)' => (row[c] = "on" <=> status'[c] = "active")
                          /\ status'[c] = "active" => seen[c] <= directRevision'[c]
                          /\ \A i \in journal : jobs'[i].target = c /\ jobs'[i].revision = directRevision'[c] => Heard(c)'
        BY <1>0 DEF AgentAgrees
      <3>1. CASE c = b
        <4>1. ~Heard(c)' /\ seen[c] <= directRevision'[c]
          BY <1>0, <2>t, <2>a, <2>c, <3>1 DEF Heard, NotAhead
        <4>2. \A i \in journal : jobs'[i].target = c => jobs'[i].revision # directRevision'[c]
          BY <1>0, <1>3, <1>f, <2>t, <2>c, <3>1 DEF JobInv, JobsFit, SameOrder
        <4> QED
          BY <4>1, <4>2
      <3>2. CASE c # b
        <4>1. Heard(c)' <=> Heard(c)
          BY <1>0, <2>c, <3>2 DEF Heard
        <4>2. \A i \in journal : SameOrder(jobs'[i], jobs[i])
          BY <1>3, <2>t
        <4>3. /\ Heard(c) => (row[c] = "on" <=> status[c] = "active")
              /\ status[c] = "active" => seen[c] <= directRevision[c]
              /\ \A i \in journal : jobs[i].target = c /\ jobs[i].revision = directRevision[c] => Heard(c)
          BY <2>a DEF AgentAgrees
        <4>4. directRevision'[c] = directRevision[c] /\ status'[c] = status[c]
          BY <2>c, <3>2
        <4>5. \A i \in journal : jobs'[i].target = c /\ jobs'[i].revision = directRevision'[c] => Heard(c)'
          BY <4>1, <4>2, <4>3, <4>4 DEF SameOrder
        <4> QED
          BY <4>1, <4>3, <4>4, <4>5
      <3> QED
        BY <3>1, <3>2
    <2> QED
      BY <2>1, <2>2, <2>3
  <1> QED
    BY <1>4, <1>5, <1>6, <1>7, <1>8 DEF JobInv

(* The orders an operation makes. *)
LEMMA OrdersKeep ==
  ASSUME JobInv
  PROVE  /\ \A b \in Bindings : EnsureBinding(b) \/ DisableBinding(b) \/ DeleteBinding(b) => JobInv'
         /\ \A i \in DOMAIN jobs : RetryJob(i) => JobInv'
  <1>t. "ENSURE_USER" \in BindingTypes /\ "DISABLE_USER" \in BindingTypes /\ "REMOVE_USER" \in BindingTypes
    BY DEF BindingTypes, Terminals
  <1>1. ASSUME NEW b \in Bindings, EnsureBinding(b) PROVE JobInv'
    BY <1>1, <1>t, OrderKeeps DEF EnsureBinding
  <1>2. ASSUME NEW b \in Bindings, DisableBinding(b) PROVE JobInv'
    BY <1>2, <1>t, OrderKeeps DEF DisableBinding
  <1>3. ASSUME NEW b \in Bindings, DeleteBinding(b) PROVE JobInv'
    BY <1>3, <1>t, OrderKeeps DEF DeleteBinding
  <1>4. ASSUME NEW i \in DOMAIN jobs, RetryJob(i) PROVE JobInv'
    <2>1. jobs[i].target \in Bindings
      BY <1>4, JobFields DEF RetryJob
    <2>2. Order(jobs[i].target, "ENSURE_USER", "active")
      BY <1>4 DEF RetryJob
    <2> QED
      BY <1>t, <2>1, <2>2, OrderKeeps
  <1> QED
    BY <1>1, <1>2, <1>3, <1>4

(* An order that is rolled back leaves an id nobody looks up. *)
LEMMA RolledBackOrderKeeps ==
  ASSUME JobInv, NEW b \in Bindings, RolledBackOrder(b)
  PROVE  JobInv'
  <1>l. PICK len \in Nat : len = Len(jobs) /\ DOMAIN jobs = 1..len
    BY JobIsRow DEF JobInv, TypeOK
  <1>0. /\ aborts' = aborts + 1 /\ aborts \in Nat /\ len < MaxJobs /\ MaxJobs \in Nat /\ Publish({len + 1})
        /\ UNCHANGED <<revision, status, directRevision, boundaryKnown, isActive, appliedRevision, connected,
                       late, snapshots, report, journal, row, seen, snapshotRevision, configRevision,
                       lastRequest, dismissed>>
        /\ jobs \in Seq(Jobs) /\ revision \in Nat
    BY <1>l, CommandJobsAssumption
       DEF RolledBackOrder, CanOrder, inboundVars, agentVars, storeVars, JobInv, TypeOK
  <1>1. PICK type \in BindingTypes : jobs' = Append(jobs, [NewJob(type, b, revision + 1) EXCEPT !.status = "absent"])
    BY DEF RolledBackOrder
  <1> DEFINE n == [NewJob(type, b, revision + 1) EXCEPT !.status = "absent"]
  <1>2. /\ n \in Jobs /\ n.type = type /\ n.target = b /\ n.revision = revision + 1 /\ n.status = "absent"
        /\ n.type # "ENSURE_INBOUND"
    <2> DEFINE m == NewJob(type, b, revision + 1)
    <2>1. m \in Jobs /\ m.type = type /\ m.target = b /\ m.revision = revision + 1
      BY <1>0 DEF NewJob, Jobs
    <2>2. n = [m EXCEPT !.status = "absent"]
      OBVIOUS
    <2> HIDE DEF m, n
    <2> QED
      BY <2>1, <2>2 DEF Jobs, BindingTypes, Terminals
  <1>n. jobs' = Append(jobs, n)
    BY <1>1
  <1> HIDE DEF n
  <1>3. /\ jobs' \in Seq(Jobs) /\ Len(jobs') = len + 1 /\ DOMAIN jobs' = 1..(len + 1) /\ jobs'[len + 1] = n
        /\ \A i \in DOMAIN jobs : jobs'[i] = jobs[i]
    BY <1>l, <1>0, <1>2, <1>n, AppendJob
  <1>4. TypeOK'
    BY <1>l, <1>0, <1>3 DEF JobInv, TypeOK, Publish
  <1>5. JobsFit'
    <2>1. len + 1 \notin dismissed /\ aborts' # 0 /\ n.revision >= 1
      BY <1>l, <1>0, <1>2 DEF JobInv, TypeOK
    <2>2. \A i \in DOMAIN jobs' : i \in DOMAIN jobs \/ i = len + 1
      BY <1>l, <1>3
    <2> QED
      BY <1>0, <1>2, <1>3, <2>1, <2>2 DEF JobInv, JobsFit
  <1>6. BindingsAgree'
    <2>1. \A i \in DOMAIN jobs, c \in Bindings : Speaks(i, c)' <=> Speaks(i, c)
      BY <1>3 DEF Speaks
    <2>2. \A c \in Bindings : ~Speaks(len + 1, c)'
      BY <1>2, <1>3 DEF Speaks
    <2>3. \A c \in Bindings, i \in DOMAIN jobs' : Speaks(i, c)' => i \in DOMAIN jobs
      BY <1>l, <1>3, <2>2
    <2>4. DOMAIN jobs \subseteq DOMAIN jobs'
      BY <1>l, <1>3
    <2> QED
      BY <1>0, <1>3, <2>1, <2>3, <2>4 DEF JobInv, BindingsAgree
  <1>7. Inbounds' = Inbounds
    BY <1>l, <1>2, <1>3 DEF Inbounds
  <1>8. Applied' /\ LastRequestWins'
    BY <1>0, <1>3, <1>7 DEF JobInv, Applied, LastRequestWins, Inbounds
  <1>9. ResolutionAgrees'
    <2> SUFFICES ASSUME NEW i \in DOMAIN jobs', jobs'[i].status = "cancelled"
                 PROVE  jobs'[i].resolved <=> i \in dismissed' \/ \E j \in DOMAIN jobs' : Replaces(j, i)'
      BY DEF ResolutionAgrees
    <2>1. i \in DOMAIN jobs /\ jobs[i].status = "cancelled"
      BY <1>l, <1>2, <1>3
    <2>2. \A j \in DOMAIN jobs : Replaces(j, i)' <=> Replaces(j, i)
      BY <1>3, <2>1 DEF Replaces
    <2>3. ~Replaces(len + 1, i)'
      BY <1>2, <1>3 DEF Replaces
    <2>4. (\E j \in DOMAIN jobs' : Replaces(j, i)') <=> (\E j \in DOMAIN jobs : Replaces(j, i))
      BY <1>l, <1>3, <2>2, <2>3
    <2> QED
      BY <1>0, <1>3, <2>1, <2>4 DEF JobInv, ResolutionAgrees
  <1>10. Journaled'
    BY <1>l, <1>0, <1>2, <1>3 DEF JobInv, Journaled
  <1>11. AgentInv'
    BY <1>0 DEF AgentInv
  <1> QED
    BY <1>4, <1>5, <1>6, <1>8, <1>9, <1>10, <1>11 DEF JobInv

(* A request for an inbound: it joins the newest deployment if that is the *)
(* same, and else becomes the newest one.                                  *)
LEMMA QueueInboundKeeps ==
  ASSUME JobInv, NEW s \in Specs, QueueInbound(s)
  PROVE  JobInv'
  <1> DEFINE holders == {i \in Inbounds : jobs[i].keyed /\ jobs[i].target = s}
             freed   == [i \in DOMAIN jobs |->
                          IF i \in holders THEN [jobs[i] EXCEPT !.keyed = FALSE] ELSE jobs[i]]
             joined  == {i \in holders : Joinable(i)}
             n       == NewJob("ENSURE_INBOUND", s, revision + 1)
  <1>l. PICK len \in Nat : len = Len(jobs) /\ DOMAIN jobs = 1..len
    BY JobIsRow DEF JobInv, TypeOK
  <1>0. /\ revision' = revision + 1 /\ revision \in Nat /\ len < MaxJobs /\ MaxJobs \in Nat /\ lastRequest' = s
        /\ UNCHANGED <<status, directRevision, boundaryKnown, isActive, appliedRevision, connected, late,
                       snapshots, report, journal, row, seen, snapshotRevision, configRevision, dismissed, aborts>>
        /\ jobs \in Seq(Jobs) /\ s # None
    BY <1>l, CommandJobsAssumption
       DEF QueueInbound, CanOrder, inboundVars, agentVars, storeVars, JobInv, TypeOK
  <1>f. \A i \in DOMAIN jobs : jobs[i] \in Jobs /\ jobs[i].revision \in Nat
    BY JobFields
  <1>1. ASSUME joined # {}, jobs' = jobs, Publish(joined)
        PROVE  JobInv'
    <2>1. PICK i \in DOMAIN jobs : i \in Inbounds /\ jobs[i].target = s /\ Joinable(i)
      BY <1>1 DEF Inbounds
    <2>2. joined \subseteq DOMAIN jobs
      BY DEF Inbounds
    <2> HIDE DEF joined
    <2>3. TypeOK'
      BY <1>0, <1>1, <2>2 DEF JobInv, TypeOK, Publish
    <2>4. revision' \in Nat /\ revision <= revision' /\ \A k \in DOMAIN jobs : k \in dismissed => jobs[k].status = "cancelled"
      BY <1>0 DEF JobInv, JobsFit
    <2>5. JobsFit' /\ BindingsAgree' /\ \A k, j \in DOMAIN jobs : Replaces(j, k)' <=> Replaces(j, k)
      BY <1>0, <1>1, <2>4, TableSame DEF SameOrder
    <2>6. Applied' /\ Journaled'
      BY <1>0, <1>1 DEF JobInv, Applied, Journaled, Inbounds
    <2>7. ResolutionAgrees'
      BY <1>0, <1>1, <2>5 DEF JobInv, ResolutionAgrees
    <2>8. LastRequestWins'
      BY <1>0, <1>1, <2>1 DEF LastRequestWins, Inbounds, Joinable
    <2>9. AgentInv'
      BY <1>0, <1>1, <2>4, AgentSame DEF SameOrder, storeVars
    <2> QED
      BY <2>3, <2>5, <2>6, <2>7, <2>8, <2>9 DEF JobInv
  <1>2. ASSUME jobs' = Insert(freed, n), Publish({len + 1})
        PROVE  JobInv'
    <2>1. /\ n \in Jobs /\ n.type = "ENSURE_INBOUND" /\ n.target = s /\ n.revision = revision + 1
          /\ n.status = "pending" /\ n.target \notin Bindings
      BY <1>0, CommandJobsAssumption DEF NewJob, Jobs
    <2>2. \A i \in DOMAIN jobs : freed[i] = IF i \in holders THEN [jobs[i] EXCEPT !.keyed = FALSE] ELSE jobs[i]
      OBVIOUS
    <2>3. \A i \in DOMAIN jobs : /\ freed[i] \in Jobs /\ SameOrder(freed[i], jobs[i])
                                 /\ freed[i].status = jobs[i].status /\ freed[i].resolved = jobs[i].resolved
      BY <1>f, <2>2 DEF Jobs, SameOrder
    <2>4. freed = [i \in DOMAIN jobs |-> freed[i]]
      OBVIOUS
    <2> HIDE DEF freed, n
    <2>5. freed \in Seq(Jobs) /\ Len(freed) = len /\ DOMAIN freed = DOMAIN jobs
      BY <1>l, <1>0, <2>3, <2>4, RewriteJobs
    <2>6. GrownFrom(jobs', freed, n)
      BY <1>2, <2>1, <2>5, InsertGrows
    <2>7. GrownFrom(jobs', jobs, n)
      <3>1. \A i \in DOMAIN jobs : Replaced(freed[i], n) <=> Replaced(jobs[i], n)
        BY <2>3 DEF Replaced, SameOrder
      <3> QED
        BY <1>l, <2>3, <2>5, <2>6, <3>1 DEF GrownFrom, SameOrder
    <2>8. /\ jobs' \in Seq(Jobs) /\ Len(jobs') = len + 1 /\ DOMAIN jobs' = 1..(len + 1) /\ jobs'[len + 1] = n
          /\ \A i \in DOMAIN jobs : SameOrder(jobs'[i], jobs[i]) /\ jobs'[i].status = jobs[i].status
      BY <1>l, <2>7 DEF GrownFrom
    <2>9. TypeOK'
      BY <1>l, <1>0, <1>2, <2>8 DEF JobInv, TypeOK, Publish
    <2>10. JobsFit' /\ ResolutionAgrees' /\ Applied' /\ Journaled'
      BY <1>0, <2>1, <2>7, GrownFits
    <2>11. BindingsAgree'
      <3>1. \A i \in DOMAIN jobs, c \in Bindings : Speaks(i, c)' <=> Speaks(i, c)
        BY <2>8 DEF Speaks, SameOrder
      <3>2. \A c \in Bindings : ~Speaks(len + 1, c)'
        BY <2>1, <2>8 DEF Speaks
      <3>3. \A c \in Bindings, i \in DOMAIN jobs' : Speaks(i, c)' => i \in DOMAIN jobs
        BY <1>l, <2>8, <3>2
      <3>4. DOMAIN jobs \subseteq DOMAIN jobs'
        BY <1>l, <2>8
      <3>5. \A c \in Bindings : directRevision[c] <= revision'
        BY <1>0 DEF JobInv, BindingsAgree, TypeOK
      <3>6. \A c \in Bindings : directRevision[c] # 0 =>
              \E i \in DOMAIN jobs' : Speaks(i, c)' /\ jobs'[i].revision = directRevision[c]
        BY <2>8, <3>1, <3>4 DEF JobInv, BindingsAgree, SameOrder
      <3>7. \A c \in Bindings : \A i \in DOMAIN jobs' : Speaks(i, c)' =>
              /\ jobs'[i].revision <= directRevision[c]
              /\ jobs'[i].revision = directRevision[c] => (jobs'[i].type = "ENSURE_USER" <=> status[c] = "active")
        BY <2>8, <3>1, <3>3 DEF JobInv, BindingsAgree, SameOrder
      <3> QED
        BY <1>0, <3>5, <3>6, <3>7 DEF BindingsAgree
    <2>12. LastRequestWins'
      <3>1. len + 1 \in Inbounds' /\ jobs'[len + 1].target = s /\ jobs'[len + 1].revision = revision + 1
        BY <1>l, <2>1, <2>8 DEF Inbounds
      <3>2. \A i \in Inbounds' : jobs'[i].revision <= revision + 1
        <4>1. ASSUME NEW i \in DOMAIN jobs, jobs'[i].type = "ENSURE_INBOUND" PROVE jobs'[i].revision <= revision + 1
          BY <1>0, <1>f, <2>8, <4>1 DEF JobInv, JobsFit, SameOrder
        <4> QED
          BY <1>l, <1>0, <2>8, <3>1, <4>1 DEF Inbounds
      <3> QED
        BY <1>0, <3>1, <3>2 DEF LastRequestWins
    <2>13. AgentInv'
      <3>1. revision' \in Nat /\ revision <= revision'
        BY <1>0
      <3> QED
        BY <1>0, <2>8, <3>1, AgentSame DEF storeVars
    <2> QED
      BY <2>9, <2>10, <2>11, <2>12, <2>13 DEF JobInv
  <1>3. (joined # {} /\ jobs' = jobs /\ Publish(joined)) \/ (jobs' = Insert(freed, n) /\ Publish({len + 1}))
    BY <1>l, Zenon DEF QueueInbound
  <1> QED
    BY <1>1, <1>2, <1>3, Zenon

(* An administrator switches the node. *)
LEMMA ToggleActiveKeeps ==
  ASSUME JobInv, ToggleActive
  PROVE  JobInv'
  <1>0. /\ isActive' \in BOOLEAN
        /\ UNCHANGED <<revision, jobs, status, directRevision, boundaryKnown, appliedRevision, connected, stream,
                       late, snapshots, report, journal, row, seen, snapshotRevision, configRevision,
                       lastRequest, dismissed, aborts>>
    BY DEF ToggleActive, jobVars, streamVars, agentVars, storeVars, ghostVars, JobInv, TypeOK
  <1>1. TypeOK' /\ Journaled'
    BY <1>0 DEF JobInv, TypeOK, Journaled
  <1>2. JobsFit' /\ BindingsAgree' /\ Applied' /\ LastRequestWins' /\ ResolutionAgrees'
    BY <1>0, JobsSame
  <1>3. AgentInv'
    BY <1>0, AgentSame DEF SameOrder, storeVars, JobInv, TypeOK
  <1> QED
    BY <1>1, <1>2, <1>3 DEF JobInv

-----------------------------------------------------------------------------
(* A job that is out changes its state, not its order.                     *)

(* What a change of one job leaves alone. *)
LEMMA TouchKeeps ==
  ASSUME JobInv, NEW i \in DOMAIN jobs, NEW j \in Jobs, jobs' = [jobs EXCEPT ![i] = j],
         SameOrder(j, jobs[i]), j.status # "absent", jobs[i].status # "absent",
         UNCHANGED <<revision, status, directRevision, lastRequest, aborts, snapshots, storeVars, journal>>,
         \A k \in dismissed' : k \in dismissed \/ k = i, i \in dismissed' => j.status = "cancelled"
  PROVE  /\ JobsFit' /\ BindingsAgree' /\ LastRequestWins' /\ AgentInv'
         /\ \A k, l \in DOMAIN jobs : Replaces(l, k)' <=> Replaces(l, k)
         /\ jobs' \in Seq(Jobs) /\ Len(jobs') = Len(jobs) /\ DOMAIN jobs' = DOMAIN jobs
         /\ jobs'[i] = j /\ \A k \in DOMAIN jobs \ {i} : jobs'[k] = jobs[k]
  <1>1. /\ jobs' \in Seq(Jobs) /\ Len(jobs') = Len(jobs) /\ DOMAIN jobs' = DOMAIN jobs
        /\ jobs'[i] = j /\ \A k \in DOMAIN jobs \ {i} : jobs'[k] = jobs[k]
    BY ChangeJob DEF JobInv, TypeOK
  <1>2. \A k \in DOMAIN jobs : /\ SameOrder(jobs'[k], jobs[k])
                               /\ jobs'[k].status = "absent" <=> jobs[k].status = "absent"
                               /\ k \in dismissed' => jobs'[k].status = "cancelled"
    BY <1>1 DEF SameOrder, JobInv, JobsFit
  <1>3. revision' \in Nat /\ revision <= revision'
    BY DEF JobInv, TypeOK
  <1>4. /\ JobsFit' /\ BindingsAgree' /\ LastRequestWins'
        /\ \A k, l \in DOMAIN jobs : Replaces(l, k)' <=> Replaces(l, k)
    BY <1>1, <1>2, <1>3, TableSame
  <1>5. AgentInv'
    BY <1>2, <1>3, AgentSame
  <1> QED
    BY <1>1, <1>4, <1>5

(* The administrator closes a job that was given up. *)
LEMMA DismissJobKeeps ==
  ASSUME JobInv, NEW i \in DOMAIN jobs, DismissJob(i)
  PROVE  JobInv'
  <1> DEFINE j == [jobs[i] EXCEPT !.resolved = TRUE]
  <1>0. /\ jobs' = [jobs EXCEPT ![i] = j] /\ jobs[i].status = "cancelled" /\ dismissed' = dismissed \cup {i}
        /\ UNCHANGED <<revision, status, directRevision, boundaryKnown, isActive, appliedRevision, connected, stream,
                       late, snapshots, report, journal, row, seen, snapshotRevision, configRevision,
                       lastRequest, aborts>>
    BY DEF DismissJob, inboundVars, streamVars, agentVars, storeVars
  <1>1. j \in Jobs /\ SameOrder(j, jobs[i]) /\ j.status = "cancelled" /\ j.resolved = TRUE
    BY <1>0, JobFields DEF Jobs, SameOrder
  <1> HIDE DEF j
  <1>2. /\ JobsFit' /\ BindingsAgree' /\ LastRequestWins' /\ AgentInv'
        /\ \A k, l \in DOMAIN jobs : Replaces(l, k)' <=> Replaces(l, k)
        /\ jobs' \in Seq(Jobs) /\ Len(jobs') = Len(jobs) /\ DOMAIN jobs' = DOMAIN jobs
        /\ jobs'[i] = j /\ \A k \in DOMAIN jobs \ {i} : jobs'[k] = jobs[k]
    BY <1>0, <1>1, TouchKeeps DEF storeVars
  <1>3. TypeOK'
    BY <1>0, <1>2 DEF JobInv, TypeOK
  <1>4. Applied' /\ Journaled'
    BY <1>0, <1>1, <1>2 DEF JobInv, Applied, Journaled, Inbounds, SameOrder
  <1>5. ResolutionAgrees'
    BY <1>0, <1>1, <1>2 DEF JobInv, ResolutionAgrees
  <1> QED
    BY <1>2, <1>3, <1>4, <1>5 DEF JobInv

(* The cron job claims a job again. *)
LEMMA ClaimDueKeeps ==
  ASSUME JobInv, NEW i \in DOMAIN jobs, ClaimDue(i)
  PROVE  JobInv'
  <1> DEFINE j == Claimed(jobs[i])
  <1>0. /\ jobs' = [jobs EXCEPT ![i] = j] /\ Outstanding(i) /\ Publish({i})
        /\ UNCHANGED <<revision, status, directRevision, boundaryKnown, isActive, appliedRevision, connected,
                       late, snapshots, report, journal, row, seen, snapshotRevision, configRevision,
                       lastRequest, dismissed, aborts>>
    BY DEF ClaimDue, inboundVars, agentVars, storeVars, ghostVars
  <1>1. j \in Jobs /\ SameOrder(j, jobs[i]) /\ j.status = "running"
    <2>1. jobs[i] \in Jobs /\ jobs[i].attempts + 1 \in Nat
      BY JobFields
    <2>2. j = [[jobs[i] EXCEPT !.status = "running"] EXCEPT !.attempts = jobs[i].attempts + 1]
      BY <2>1 DEF Claimed, Jobs
    <2> HIDE DEF j
    <2>3. [jobs[i] EXCEPT !.status = "running"] \in Jobs /\ SameOrder([jobs[i] EXCEPT !.status = "running"], jobs[i])
      BY <2>1 DEF Jobs, SameOrder
    <2> QED
      BY <2>1, <2>2, <2>3 DEF Jobs, SameOrder
  <1> HIDE DEF j
  <1>2. jobs[i].status \in {"pending", "running", "failed"} /\ i \notin dismissed
    BY <1>0 DEF Outstanding, JobInv, JobsFit
  <1>3. /\ JobsFit' /\ BindingsAgree' /\ LastRequestWins' /\ AgentInv'
        /\ \A k, l \in DOMAIN jobs : Replaces(l, k)' <=> Replaces(l, k)
        /\ jobs' \in Seq(Jobs) /\ Len(jobs') = Len(jobs) /\ DOMAIN jobs' = DOMAIN jobs
        /\ jobs'[i] = j /\ \A k \in DOMAIN jobs \ {i} : jobs'[k] = jobs[k]
    BY <1>0, <1>1, <1>2, TouchKeeps DEF storeVars
  <1>4. TypeOK'
    BY <1>0, <1>3 DEF JobInv, TypeOK, Publish
  <1>5. Applied' /\ Journaled'
    BY <1>0, <1>1, <1>2, <1>3 DEF JobInv, Applied, Journaled, Inbounds, SameOrder
  <1>6. ResolutionAgrees'
    BY <1>0, <1>1, <1>3 DEF JobInv, ResolutionAgrees
  <1> QED
    BY <1>3, <1>4, <1>5, <1>6 DEF JobInv

(* The sweep gives a job up and finds out whether a newer order replaced   *)
(* it.                                                                     *)
LEMMA SweepExhaustedKeeps ==
  ASSUME JobInv, NEW i \in DOMAIN jobs, SweepExhausted(i)
  PROVE  JobInv'
  <1> DEFINE j == [[[jobs[i] EXCEPT !.status = "cancelled"] EXCEPT !.keyed = FALSE] EXCEPT !.resolved = Superseded(i)]
  <1>f. jobs[i] \in Jobs /\ jobs \in Seq(Jobs)
    BY JobFields DEF JobInv, TypeOK
  <1>0. /\ jobs' = [jobs EXCEPT ![i] = j] /\ Outstanding(i)
        /\ UNCHANGED <<revision, status, directRevision, boundaryKnown, isActive, appliedRevision, connected, stream,
                       late, snapshots, report, journal, row, seen, snapshotRevision, configRevision,
                       lastRequest, dismissed, aborts>>
    BY <1>f DEF SweepExhausted, inboundVars, streamVars, agentVars, storeVars, ghostVars
  <1>1. j \in Jobs /\ SameOrder(j, jobs[i]) /\ j.status = "cancelled" /\ (j.resolved <=> Superseded(i))
    <2>1. Superseded(i) \in BOOLEAN
      BY DEF Superseded
    <2> QED
      BY <1>f, <2>1 DEF Jobs, SameOrder
  <1> HIDE DEF j
  <1>2. jobs[i].status \in {"pending", "running", "failed"} /\ i \notin dismissed
    BY <1>0 DEF Outstanding, JobInv, JobsFit
  <1>3. /\ JobsFit' /\ BindingsAgree' /\ LastRequestWins' /\ AgentInv'
        /\ \A k, l \in DOMAIN jobs : Replaces(l, k)' <=> Replaces(l, k)
        /\ jobs' \in Seq(Jobs) /\ Len(jobs') = Len(jobs) /\ DOMAIN jobs' = DOMAIN jobs
        /\ jobs'[i] = j /\ \A k \in DOMAIN jobs \ {i} : jobs'[k] = jobs[k]
    BY <1>0, <1>1, <1>2, TouchKeeps DEF storeVars
  <1>4. TypeOK'
    BY <1>0, <1>3 DEF JobInv, TypeOK
  <1>5. Applied' /\ Journaled'
    BY <1>0, <1>1, <1>2, <1>3 DEF JobInv, Applied, Journaled, Inbounds, SameOrder
  <1>6. Superseded(i) <=> \E l \in DOMAIN jobs : Replaces(l, i)
    <2> SUFFICES ASSUME NEW l \in DOMAIN jobs
                 PROVE  Replaces(l, i) <=>
                          /\ jobs[l].status # "absent" /\ jobs[l].revision > jobs[i].revision
                          /\ IF jobs[i].type = "ENSURE_INBOUND" THEN jobs[l].type = "ENSURE_INBOUND"
                             ELSE jobs[l].target = jobs[i].target /\ jobs[l].type \in Superseding(jobs[i].type)
      BY DEF Superseded
    <2>1. /\ jobs[l].revision \in Nat /\ jobs[i].revision \in Nat
          /\ jobs[l].type \in BindingTypes \cup {"ENSURE_INBOUND"} /\ jobs[i].type \in BindingTypes \cup {"ENSURE_INBOUND"}
          /\ jobs[l].type # "ENSURE_INBOUND" <=> jobs[l].target \in Bindings
          /\ jobs[i].type # "ENSURE_INBOUND" <=> jobs[i].target \in Bindings
      BY JobFields
    <2> QED
      BY <2>1 DEF Replaces, Superseding, BindingTypes, Terminals
  <1>7. ResolutionAgrees'
    BY <1>0, <1>1, <1>2, <1>3, <1>6 DEF JobInv, ResolutionAgrees
  <1> QED
    BY <1>3, <1>4, <1>5, <1>7 DEF JobInv

(* A report is accepted: the job ends or fails, and a deployment that is   *)
(* validated becomes the applied one.                                      *)
LEMMA CompleteCommandKeeps ==
  ASSUME JobInv, NEW r \in late \cup ({report} \ {None}), Accepted(r), CompleteCommand(r),
         UNCHANGED <<snapshots, journal, storeVars, ghostVars>>
  PROVE  /\ JobsFit' /\ BindingsAgree' /\ Applied' /\ LastRequestWins' /\ ResolutionAgrees' /\ AgentInv'
         /\ \A i \in DOMAIN jobs' : jobs'[i].status = "completed" => i \in journal
         /\ jobs' \in Seq(Jobs) /\ Len(jobs') = Len(jobs) /\ DOMAIN jobs' = DOMAIN jobs
         /\ boundaryKnown' \in [Bindings -> BOOLEAN] /\ appliedRevision' \in Nat /\ isActive' \in BOOLEAN
         /\ UNCHANGED <<revision, status, directRevision>>
  <1> DEFINE i == r.job
             done == r.status = "completed"
             j == [[jobs[i] EXCEPT !.status = r.status] EXCEPT !.keyed = @ /\ ~done]
  <1>r. r \in Results /\ i \in DOMAIN jobs /\ r.status \in {"completed", "failed"} /\ (done => i \in journal)
    BY DEF JobInv, TypeOK, Journaled, Results
  <1>f. jobs[i] \in Jobs /\ jobs \in Seq(Jobs)
    BY <1>r, JobFields DEF JobInv, TypeOK
  <1>0. /\ jobs' = [jobs EXCEPT ![i] = j] /\ Outstanding(i)
        /\ UNCHANGED <<revision, status, directRevision, lastRequest, dismissed, aborts>>
    BY <1>r, <1>f DEF CompleteCommand, Accepted, ghostVars
  <1>1. j \in Jobs /\ SameOrder(j, jobs[i]) /\ j.status = r.status
    BY <1>r, <1>f DEF Jobs, SameOrder
  <1> HIDE DEF j
  <1>2. jobs[i].status \in {"pending", "running", "failed"} /\ i \notin dismissed
    BY <1>0, <1>r DEF Outstanding, JobInv, JobsFit
  <1>3. /\ JobsFit' /\ BindingsAgree' /\ LastRequestWins' /\ AgentInv'
        /\ \A k, l \in DOMAIN jobs : Replaces(l, k)' <=> Replaces(l, k)
        /\ jobs' \in Seq(Jobs) /\ Len(jobs') = Len(jobs) /\ DOMAIN jobs' = DOMAIN jobs
        /\ jobs'[i] = j /\ \A k \in DOMAIN jobs \ {i} : jobs'[k] = jobs[k]
    <2> HIDE DEF i
    <2> QED
      BY <1>0, <1>1, <1>2, <1>r, TouchKeeps
  <1>4. ResolutionAgrees'
    BY <1>0, <1>1, <1>3, <1>r DEF JobInv, ResolutionAgrees
  <1>5. \A k \in DOMAIN jobs' : jobs'[k].status = "completed" => k \in journal
    BY <1>1, <1>3, <1>r DEF JobInv, Journaled
  <1>t. /\ jobs[i].revision \in Nat /\ appliedRevision \in Nat /\ isActive \in BOOLEAN
        /\ boundaryKnown \in [Bindings -> BOOLEAN]
    BY <1>r, JobFields DEF JobInv, TypeOK
  <1>6. boundaryKnown' \in [Bindings -> BOOLEAN]
    BY <1>t DEF CompleteCommand
  <1>7. Applied' /\ appliedRevision' \in Nat /\ isActive' \in BOOLEAN
    <2>i. /\ Inbounds' = Inbounds
          /\ \A k \in DOMAIN jobs : SameOrder(jobs'[k], jobs[k])
          /\ \A k \in DOMAIN jobs \ {i} : jobs'[k].status = jobs[k].status
      BY <1>1, <1>3 DEF Inbounds, SameOrder
    <2>1. CASE done /\ jobs[i].type = "ENSURE_INBOUND"
      <3>1. /\ appliedRevision' = jobs[i].revision /\ isActive' = (Onboarding /\ appliedRevision = 0)
            /\ appliedRevision < jobs[i].revision
        BY <2>1 DEF CompleteCommand, Accepted, InboundCurrent
      <3>2. i \in Inbounds /\ jobs'[i].status = "completed" /\ jobs'[i].revision = appliedRevision'
        BY <1>1, <1>3, <1>r, <2>1, <3>1 DEF Inbounds, SameOrder
      <3>3. ASSUME NEW k \in Inbounds, jobs'[k].status = "completed"
            PROVE  jobs'[k].revision <= appliedRevision'
        <4>1. CASE k = i
          BY <1>t, <3>1, <3>2, <4>1
        <4>2. CASE k # i
          <5>1. k \in DOMAIN jobs /\ jobs'[k].revision = jobs[k].revision /\ jobs[k].status = "completed"
            BY <2>i, <3>3, <4>2 DEF Inbounds, SameOrder
          <5>2. jobs[k].revision <= appliedRevision /\ jobs[k].revision \in Nat
            BY <3>3, <5>1, JobFields DEF JobInv, Applied
          <5> QED
            BY <1>t, <3>1, <5>1, <5>2
        <4> QED
          BY <4>1, <4>2
      <3> QED
        BY <1>t, <2>i, <3>1, <3>2, <3>3, CommandJobsAssumption DEF Applied
    <2>2. CASE ~(done /\ jobs[i].type = "ENSURE_INBOUND")
      <3>1. UNCHANGED <<appliedRevision, isActive>>
        BY <2>2 DEF CompleteCommand, inboundVars
      <3>2. \A k \in Inbounds : jobs'[k].status = "completed" <=> jobs[k].status = "completed"
        BY <1>1, <1>2, <1>3, <1>r, <2>2, <2>i DEF Inbounds
      <3> QED
        BY <1>t, <2>i, <3>1, <3>2 DEF JobInv, Applied, Inbounds, SameOrder
    <2> QED
      BY <2>1, <2>2
  <1> QED
    BY <1>0, <1>3, <1>4, <1>5, <1>6, <1>7

-----------------------------------------------------------------------------
(* The stream and the reports.                                             *)

(* Steps that change only what is on the stream, the connection, and which *)
(* report is under way.                                                    *)
LEMMA StreamKeeps ==
  ASSUME JobInv, UNCHANGED <<jobVars, inboundVars, snapshots, journal, storeVars, ghostVars>>,
         connected' \in BOOLEAN, stream' \subseteq DOMAIN jobs, ~connected' => stream' = {},
         \A x \in late' \cup ({report'} \ {None}) : x \in late \cup ({report} \ {None})
  PROVE  JobInv'
  <1>0. UNCHANGED <<revision, jobs, status, directRevision, boundaryKnown, isActive, appliedRevision, snapshots,
                    journal, row, seen, snapshotRevision, configRevision, lastRequest, dismissed, aborts>>
    BY DEF jobVars, inboundVars, storeVars, ghostVars
  <1>1. late' \subseteq Results /\ report' \in Results \cup {None}
    BY DEF JobInv, TypeOK
  <1>2. TypeOK' /\ Journaled'
    BY <1>0, <1>1 DEF JobInv, TypeOK, Journaled
  <1>3. JobsFit' /\ BindingsAgree' /\ Applied' /\ LastRequestWins' /\ ResolutionAgrees'
    BY <1>0, JobsSame
  <1>4. AgentInv'
    BY <1>0, AgentSame DEF SameOrder, storeVars, JobInv, TypeOK
  <1> QED
    BY <1>2, <1>3, <1>4 DEF JobInv

(* Publishing again, connecting and hanging up. *)
LEMMA ConnectionKeeps ==
  ASSUME JobInv, RepublishPending \/ Connect \/ Disconnect
  PROVE  JobInv'
  <1>1. ASSUME RepublishPending PROVE JobInv'
    BY <1>1, StreamKeeps DEF RepublishPending, Publish, agentVars, JobInv, TypeOK
  <1>2. ASSUME Connect PROVE JobInv'
    BY <1>2, StreamKeeps DEF Connect, agentVars
  <1>3. ASSUME Disconnect PROVE JobInv'
    BY <1>3, StreamKeeps DEF Disconnect, Hangup, agentVars
  <1> QED
    BY <1>1, <1>2, <1>3

(* The report is lost, or arrives when nobody waits for the answer. *)
LEMMA LoseReportKeeps ==
  ASSUME JobInv, LoseReport
  PROVE  JobInv'
  BY StreamKeeps DEF LoseReport, Hangup

(* The control plane answers a report. *)
LEMMA ServeReportKeeps ==
  ASSUME JobInv, ServeReport
  PROVE  JobInv'
  <1>0. report # None /\ report' = None /\ UNCHANGED <<late, snapshots, journal, storeVars, ghostVars>>
    BY DEF ServeReport
  <1>1. ASSUME Accepted(report), CompleteCommand(report), UNCHANGED streamVars PROVE JobInv'
    <2>0. UNCHANGED <<connected, stream, snapshots, journal, row, seen, snapshotRevision, configRevision,
                      lastRequest, dismissed, aborts>>
      BY <1>0, <1>1 DEF streamVars, storeVars, ghostVars
    <2>1. /\ JobsFit' /\ BindingsAgree' /\ Applied' /\ LastRequestWins' /\ ResolutionAgrees' /\ AgentInv'
          /\ \A i \in DOMAIN jobs' : jobs'[i].status = "completed" => i \in journal
          /\ jobs' \in Seq(Jobs) /\ Len(jobs') = Len(jobs) /\ DOMAIN jobs' = DOMAIN jobs
          /\ boundaryKnown' \in [Bindings -> BOOLEAN] /\ appliedRevision' \in Nat /\ isActive' \in BOOLEAN
          /\ UNCHANGED <<revision, status, directRevision>>
      BY <1>0, <1>1, CompleteCommandKeeps
    <2>2. TypeOK' /\ Journaled'
      BY <1>0, <2>0, <2>1 DEF JobInv, TypeOK, Journaled
    <2> QED
      BY <2>1, <2>2 DEF JobInv
  <1>2. ASSUME Hangup, UNCHANGED <<jobVars, inboundVars>> PROVE JobInv'
    BY <1>0, <1>2, StreamKeeps DEF Hangup
  <1> QED
    BY <1>1, <1>2, Zenon DEF ServeReport

(* A report that was given up on arrives after all. *)
LEMMA ServeLateReportKeeps ==
  ASSUME JobInv, ServeLateReport
  PROVE  JobInv'
  <1>0. UNCHANGED <<connected, stream, snapshots, report, journal, row, seen, snapshotRevision, configRevision,
                    lastRequest, dismissed, aborts>>
    BY DEF ServeLateReport, streamVars, agentVars, storeVars, ghostVars
  <1>1. PICK r \in late : /\ late' = late \ {r}
                          /\ IF Accepted(r) THEN CompleteCommand(r) ELSE UNCHANGED <<jobVars, inboundVars>>
    BY Zenon DEF ServeLateReport
  <1>2. ASSUME Accepted(r), CompleteCommand(r) PROVE JobInv'
    <2>1. /\ JobsFit' /\ BindingsAgree' /\ Applied' /\ LastRequestWins' /\ ResolutionAgrees' /\ AgentInv'
          /\ \A i \in DOMAIN jobs' : jobs'[i].status = "completed" => i \in journal
          /\ jobs' \in Seq(Jobs) /\ Len(jobs') = Len(jobs) /\ DOMAIN jobs' = DOMAIN jobs
          /\ boundaryKnown' \in [Bindings -> BOOLEAN] /\ appliedRevision' \in Nat /\ isActive' \in BOOLEAN
          /\ UNCHANGED <<revision, status, directRevision>>
      BY <1>0, <1>2, CompleteCommandKeeps DEF storeVars, ghostVars
    <2>2. TypeOK' /\ Journaled'
      BY <1>0, <1>1, <2>1 DEF JobInv, TypeOK, Journaled
    <2> QED
      BY <2>1, <2>2 DEF JobInv
  <1>3. ASSUME UNCHANGED <<jobVars, inboundVars>> PROVE JobInv'
    <2>1. connected \in BOOLEAN /\ stream \subseteq DOMAIN jobs /\ (~connected => stream = {})
      BY DEF JobInv, TypeOK
    <2> QED
      BY <1>0, <1>1, <1>3, <2>1, StreamKeeps DEF storeVars, ghostVars
  <1> QED
    BY <1>1, <1>2, <1>3, Zenon

-----------------------------------------------------------------------------
(* The agent executes a command.                                           *)

Executed(i) == Done(i) \/ Refused(i) \/ Died(i)

(* What ends the execution of a command leaves on the stream, in the       *)
(* journal and in the report.                                              *)
LEMMA ExecutedParts ==
  ASSUME JobInv, NEW i \in stream, Executed(i)
  PROVE  /\ connected' \in BOOLEAN /\ stream' \subseteq stream /\ (~connected' => stream' = {})
         /\ i \in DOMAIN jobs /\ report' \in Results \cup {None}
         /\ report' # None => report'.job = i /\ (report'.status = "completed" => i \in journal')
         /\ journal \subseteq journal' /\ journal' \subseteq journal \cup {i}
         /\ configRevision' \in {configRevision, Raised(jobs[i].revision)}
  <1>0. /\ connected \in BOOLEAN /\ stream \subseteq DOMAIN jobs /\ (~connected => stream = {})
        /\ i \in 1..MaxJobs /\ report \in Results \cup {None} /\ Len(jobs) \in Nat /\ Len(jobs) <= MaxJobs
    BY JobFields, CommandJobsAssumption DEF JobInv, TypeOK
  <1>1. ASSUME NEW st \in {"completed", "failed"}
        PROVE  LET x == [job |-> i, status |-> st] IN x \in Results /\ x # None /\ x.job = i /\ x.status = st
    BY <1>0, NoneAssumption DEF Results
  <1>2. CASE Done(i)
    BY <1>0, <1>1, <1>2 DEF Done, Take
  <1>3. CASE Refused(i)
    BY <1>0, <1>1, <1>3 DEF Refused, Take
  <1>4. CASE Died(i)
    BY <1>0, <1>4 DEF Died, Hangup
  <1> QED
    BY <1>2, <1>3, <1>4 DEF Executed

(* A command is executed: the rest of the invariant follows once the       *)
(* agent's rows agree with the orders.                                     *)
LEMMA CommandKeeps ==
  ASSUME JobInv, NEW i \in stream, Executed(i),
         UNCHANGED <<jobVars, inboundVars, late, snapshots, snapshotRevision, ghostVars>>,
         row' \in [Bindings -> {"none", "off", "on"}], seen' \in [Bindings -> Nat],
         aborts = 0 => AgentAgrees' /\ \A b \in Bindings : seen'[b] <= revision
  PROVE  JobInv'
  <1>0. UNCHANGED <<revision, jobs, status, directRevision, boundaryKnown, isActive, appliedRevision, late,
                    snapshots, snapshotRevision, lastRequest, dismissed, aborts>>
    BY DEF jobVars, inboundVars, ghostVars
  <1>1. /\ connected' \in BOOLEAN /\ stream' \subseteq stream /\ (~connected' => stream' = {})
        /\ i \in DOMAIN jobs /\ report' \in Results \cup {None}
        /\ report' # None => report'.job = i /\ (report'.status = "completed" => i \in journal')
        /\ journal \subseteq journal' /\ journal' \subseteq journal \cup {i}
        /\ configRevision' \in {configRevision, Raised(jobs[i].revision)}
    BY ExecutedParts
  <1>2. jobs[i].revision \in Nat /\ configRevision \in Nat /\ configRevision' \in Nat
    BY <1>1, JobFields DEF JobInv, TypeOK, Raised
  <1>3. TypeOK'
    BY <1>0, <1>1, <1>2 DEF JobInv, TypeOK
  <1>4. Journaled'
    BY <1>0, <1>1 DEF JobInv, Journaled
  <1>5. JobsFit' /\ BindingsAgree' /\ Applied' /\ LastRequestWins' /\ ResolutionAgrees'
    BY <1>0, JobsSame
  <1>6. AgentInv'
    <2> SUFFICES ASSUME aborts = 0
                 PROVE  NotAhead' /\ (\A x \in snapshots : SnapshotFits(x)') /\ AgentAgrees'
      BY <1>0 DEF AgentInv
    <2>1. NotAhead /\ \A x \in snapshots : SnapshotFits(x)
      BY DEF JobInv, AgentInv
    <2>2. jobs[i].revision <= revision /\ revision \in Nat /\ snapshotRevision \in Nat
      BY <1>1 DEF JobInv, JobsFit, TypeOK
    <2>3. snapshotRevision <= configRevision' /\ configRevision' <= revision
      BY <1>1, <1>2, <2>1, <2>2 DEF NotAhead, Raised
    <2>4. NotAhead'
      BY <1>0, <2>3 DEF NotAhead
    <2>5. \A x \in snapshots : SnapshotFits(x)'
      BY <1>0, <2>1 DEF SnapshotFits
    <2> QED
      BY <2>4, <2>5
  <1> QED
    BY <1>3, <1>4, <1>5, <1>6 DEF JobInv

(* A command that an adopted snapshot or a newer command has overtaken     *)
(* changes nothing, and has been heard of.                                 *)
LEMMA DroppedAgrees ==
  ASSUME JobInv, aborts = 0, NEW i \in DOMAIN jobs, UNCHANGED <<jobs, status, directRevision, row, seen, snapshotRevision>>,
         journal' \subseteq journal \cup {i},
         jobs[i].target \in Bindings =>
            jobs[i].revision <= snapshotRevision \/ jobs[i].revision <= seen[jobs[i].target]
  PROVE  AgentAgrees' /\ \A b \in Bindings : seen'[b] <= revision
  <1>1. AgentAgrees /\ \A b \in Bindings : seen[b] <= revision
    BY DEF JobInv, AgentInv, NotAhead
  <1>2. \A b \in Bindings : Heard(b)' <=> Heard(b)
    BY DEF Heard
  <1>3. ASSUME NEW b \in Bindings, jobs[i].target = b, jobs[i].revision = directRevision[b] PROVE Heard(b)
    <2>1. directRevision[b] \in Nat /\ seen[b] \in Nat /\ snapshotRevision \in Nat
      BY DEF JobInv, TypeOK
    <2> QED
      BY <1>3, <2>1 DEF Heard
  <1> QED
    BY <1>1, <1>2, <1>3 DEF AgentAgrees

(* A command that is obeyed is the newest one, or an order that the agent  *)
(* has not heard of is still to come.                                      *)
LEMMA ObeyedAgrees ==
  ASSUME JobInv, aborts = 0, NEW i \in DOMAIN jobs, NEW b \in Bindings, jobs[i].target = b,
         NEW v \in {"none", "off", "on"}, v = "on" <=> jobs[i].type = "ENSURE_USER",
         jobs[i].revision >= snapshotRevision, jobs[i].revision >= seen[b],
         row' = [row EXCEPT ![b] = v], seen' = [seen EXCEPT ![b] = jobs[i].revision],
         UNCHANGED <<jobs, status, directRevision, snapshotRevision>>, journal' \subseteq journal \cup {i}
  PROVE  AgentAgrees' /\ \A c \in Bindings : seen'[c] <= revision
  <1>t. /\ row \in [Bindings -> {"none", "off", "on"}] /\ seen \in [Bindings -> Nat] /\ directRevision \in [Bindings -> Nat]
        /\ snapshotRevision \in Nat /\ revision \in Nat /\ journal \subseteq DOMAIN jobs /\ jobs[i].revision \in Nat
    BY JobFields DEF JobInv, TypeOK
  <1>a. AgentAgrees /\ \A c \in Bindings : seen[c] <= revision
    BY DEF JobInv, AgentInv, NotAhead
  <1>s. Speaks(i, b) /\ jobs[i].revision <= revision
    BY DEF Speaks, JobInv, JobsFit
  <1>b. /\ jobs[i].revision <= directRevision[b]
        /\ jobs[i].revision = directRevision[b] => (jobs[i].type = "ENSURE_USER" <=> status[b] = "active")
    BY <1>s DEF JobInv, BindingsAgree
  <1>c. /\ row'[b] = v /\ seen'[b] = jobs[i].revision
        /\ \A c \in Bindings \ {b} : row'[c] = row[c] /\ seen'[c] = seen[c]
    BY <1>t
  <1>1. \A c \in Bindings : seen'[c] <= revision
    BY <1>a, <1>c, <1>s
  <1>2. ASSUME NEW c \in Bindings, c # b
        PROVE  /\ Heard(c)' => (row'[c] = "on" <=> status'[c] = "active")
               /\ status'[c] = "active" => seen'[c] <= directRevision'[c]
               /\ \A k \in journal' : jobs'[k].target = c /\ jobs'[k].revision = directRevision'[c] => Heard(c)'
    <2>1. Heard(c)' <=> Heard(c)
      BY <1>2, <1>c DEF Heard
    <2> QED
      BY <1>2, <1>a, <1>c, <2>1 DEF AgentAgrees
  <1>3. /\ Heard(b)' => (row'[b] = "on" <=> status'[b] = "active")
        /\ status'[b] = "active" => seen'[b] <= directRevision'[b]
        /\ \A k \in journal' : jobs'[k].target = b /\ jobs'[k].revision = directRevision'[b] => Heard(b)'
    <2>1. CASE jobs[i].revision = directRevision[b]
      <3>1. Heard(b)' /\ seen'[b] <= directRevision'[b]
        BY <1>t, <1>c, <2>1 DEF Heard
      <3> QED
        BY <1>b, <1>c, <2>1, <3>1
    <2>2. CASE jobs[i].revision # directRevision[b]
      <3>1. jobs[i].revision < directRevision[b]
        BY <1>t, <1>b, <2>2
      <3>2. ~Heard(b) /\ ~Heard(b)' /\ seen'[b] <= directRevision'[b]
        BY <1>t, <1>c, <3>1 DEF Heard
      <3>3. \A k \in journal : jobs[k].target = b => jobs[k].revision # directRevision[b]
        BY <1>a, <3>2 DEF AgentAgrees
      <3> QED
        BY <2>2, <3>2, <3>3
    <2> QED
      BY <2>1, <2>2
  <1>4. AgentAgrees'
    BY <1>2, <1>3 DEF AgentAgrees
  <1> QED
    BY <1>1, <1>4

(* Answers from the journal, and commands that fail before they store. *)
LEMMA RefusedKeeps ==
  ASSUME JobInv, NEW i \in stream, Replay(i) \/ FailCommand(i)
  PROVE  JobInv'
  <1>1. ASSUME Replay(i) PROVE JobInv'
    <2>0. UNCHANGED <<revision, jobs, status, directRevision, boundaryKnown, isActive, appliedRevision, late, journal,
                      snapshots, row, seen, snapshotRevision, configRevision, lastRequest, dismissed, aborts, connected>>
      BY <1>1 DEF Replay, jobVars, inboundVars, storeVars, ghostVars
    <2>1. i \in 1..MaxJobs /\ i \in DOMAIN jobs
      BY JobFields, CommandJobsAssumption DEF JobInv, TypeOK
    <2>2. report' \in Results /\ report'.job = i /\ i \in journal /\ stream' \subseteq stream
      BY <1>1, <2>1 DEF Replay, Take, Results
    <2>3. TypeOK' /\ Journaled'
      BY <2>0, <2>1, <2>2 DEF JobInv, TypeOK, Journaled
    <2>4. JobsFit' /\ BindingsAgree' /\ Applied' /\ LastRequestWins' /\ ResolutionAgrees'
      BY <2>0, JobsSame
    <2>5. AgentInv'
      BY <2>0, AgentSame DEF SameOrder, storeVars, JobInv, TypeOK
    <2> QED
      BY <2>3, <2>4, <2>5 DEF JobInv
  <1>2. ASSUME FailCommand(i) PROVE JobInv'
    <2>0. /\ UNCHANGED <<jobVars, inboundVars, late, snapshots, row, seen, snapshotRevision, ghostVars>>
          /\ Executed(i) /\ UNCHANGED journal
      BY <1>2 DEF FailCommand, Executed, Refused
    <2>1. row \in [Bindings -> {"none", "off", "on"}] /\ seen \in [Bindings -> Nat]
      BY DEF JobInv, TypeOK
    <2>2. UNCHANGED <<jobs, status, directRevision>>
      BY <2>0 DEF jobVars
    <2>3. aborts = 0 => AgentAgrees' /\ \A b \in Bindings : seen'[b] <= revision
      BY <2>0, <2>2 DEF JobInv, AgentInv, NotAhead, AgentAgrees, Heard
    <2> QED
      BY <2>0, <2>1, <2>3, CommandKeeps
  <1> QED
    BY <1>1, <1>2

(* ensureUser. *)
LEMMA EnsureUserKeeps ==
  ASSUME JobInv, NEW i \in stream, EnsureUser(i)
  PROVE  JobInv'
  <1> DEFINE b == jobs[i].target
             r == jobs[i].revision
  <1>i. /\ i \in DOMAIN jobs /\ jobs[i].type = "ENSURE_USER" /\ b \in Bindings /\ r \in Nat
        /\ row \in [Bindings -> {"none", "off", "on"}] /\ seen \in [Bindings -> Nat] /\ snapshotRevision \in Nat
    BY JobFields DEF EnsureUser, JobInv, TypeOK
  <1>0. UNCHANGED <<jobVars, inboundVars, late, snapshots, snapshotRevision, ghostVars>>
    BY DEF EnsureUser
  <1>u. UNCHANGED <<jobs, status, directRevision, snapshotRevision>>
    BY <1>0 DEF jobVars
  <1>1. ASSUME r < snapshotRevision \/ Stale(b, r), Done(i) \/ Died(i), UNCHANGED <<row, seen>>
        PROVE  JobInv'
    <2>1. Executed(i)
      BY <1>1 DEF Executed
    <2>2. journal' \subseteq journal \cup {i}
      BY <2>1, ExecutedParts
    <2>3. r <= snapshotRevision \/ r <= seen[b]
      BY <1>1, <1>i DEF Stale
    <2>4. aborts = 0 => AgentAgrees' /\ \A c \in Bindings : seen'[c] <= revision
      BY <1>1, <1>i, <1>u, <2>2, <2>3, DroppedAgrees
    <2>5. row' \in [Bindings -> {"none", "off", "on"}] /\ seen' \in [Bindings -> Nat]
      BY <1>1, <1>i
    <2> QED
      BY <1>0, <2>1, <2>4, <2>5, CommandKeeps
  <1>2. ASSUME ~(r < snapshotRevision \/ Stale(b, r)), Done(i) \/ Refused(i) \/ Died(i),
               row' = [row EXCEPT ![b] = "on"], seen' = [seen EXCEPT ![b] = r]
        PROVE  JobInv'
    <2>1. Executed(i)
      BY <1>2 DEF Executed
    <2>2. journal' \subseteq journal \cup {i}
      BY <2>1, ExecutedParts
    <2>3. r >= snapshotRevision /\ r >= seen[b]
      BY <1>2, <1>i DEF Stale
    <2>4. aborts = 0 => AgentAgrees' /\ \A c \in Bindings : seen'[c] <= revision
      BY <1>2, <1>i, <1>u, <2>2, <2>3, ObeyedAgrees
    <2>5. row' \in [Bindings -> {"none", "off", "on"}] /\ seen' \in [Bindings -> Nat]
      BY <1>2, <1>i
    <2> QED
      BY <1>0, <2>1, <2>4, <2>5, CommandKeeps
  <1> QED
    BY <1>1, <1>2, Zenon DEF EnsureUser

(* terminalUser. *)
LEMMA TerminalUserKeeps ==
  ASSUME JobInv, NEW i \in stream, TerminalUser(i)
  PROVE  JobInv'
  <1> DEFINE b == jobs[i].target
             r == jobs[i].revision
  <1>i. /\ i \in DOMAIN jobs /\ jobs[i].type \in Terminals /\ b \in Bindings /\ r \in Nat
        /\ row \in [Bindings -> {"none", "off", "on"}] /\ seen \in [Bindings -> Nat] /\ snapshotRevision \in Nat
        /\ jobs[i].type # "ENSURE_USER"
    BY JobFields DEF TerminalUser, Terminals, JobInv, TypeOK
  <1>0. UNCHANGED <<jobVars, inboundVars, late, snapshots, snapshotRevision, ghostVars>> /\ Executed(i)
    BY DEF TerminalUser, Executed
  <1>u. UNCHANGED <<jobs, status, directRevision, snapshotRevision>>
    BY <1>0 DEF jobVars
  <1>j. journal' \subseteq journal \cup {i}
    BY <1>0, ExecutedParts
  <1>1. ASSUME r < snapshotRevision \/ r < seen[b], UNCHANGED <<row, seen>>
        PROVE  JobInv'
    <2>1. r <= snapshotRevision \/ r <= seen[b]
      BY <1>1, <1>i
    <2>2. aborts = 0 => AgentAgrees' /\ \A c \in Bindings : seen'[c] <= revision
      BY <1>1, <1>i, <1>u, <1>j, <2>1, DroppedAgrees
    <2>3. row' \in [Bindings -> {"none", "off", "on"}] /\ seen' \in [Bindings -> Nat]
      BY <1>1, <1>i
    <2> QED
      BY <1>0, <2>2, <2>3, CommandKeeps
  <1>2. ASSUME ~(r < snapshotRevision \/ r < seen[b]), seen' = [seen EXCEPT ![b] = r],
               row' = [row EXCEPT ![b] =
                         IF @ = "none" \/ jobs[i].type = "REMOVE_USER" THEN "none" ELSE "off"]
        PROVE  JobInv'
    <2>1. PICK v \in {"none", "off"} : row' = [row EXCEPT ![b] = v]
      BY <1>2
    <2>2. r >= snapshotRevision /\ r >= seen[b]
      BY <1>2, <1>i
    <2>3. aborts = 0 => AgentAgrees' /\ \A c \in Bindings : seen'[c] <= revision
      BY <1>2, <1>i, <1>u, <1>j, <2>1, <2>2, ObeyedAgrees
    <2>4. row' \in [Bindings -> {"none", "off", "on"}] /\ seen' \in [Bindings -> Nat]
      BY <1>2, <1>i, <2>1
    <2> QED
      BY <1>0, <2>3, <2>4, CommandKeeps
  <1> QED
    BY <1>1, <1>2, Zenon DEF TerminalUser

(* ENSURE_INBOUND only reads. *)
LEMMA ValidatePanelKeeps ==
  ASSUME JobInv, NEW i \in stream, ValidatePanel(i)
  PROVE  JobInv'
  <1>0. /\ UNCHANGED <<jobVars, inboundVars, late, snapshots, snapshotRevision, ghostVars>> /\ Executed(i)
        /\ UNCHANGED <<row, seen>>
    BY DEF ValidatePanel, Executed
  <1>1. i \in DOMAIN jobs /\ jobs[i].target \notin Bindings
    BY JobFields DEF ValidatePanel, JobInv, TypeOK
  <1>2. journal' \subseteq journal \cup {i} /\ UNCHANGED <<jobs, status, directRevision, snapshotRevision>>
    BY <1>0, ExecutedParts DEF jobVars
  <1>3. aborts = 0 => AgentAgrees' /\ \A c \in Bindings : seen'[c] <= revision
    BY <1>0, <1>1, <1>2, DroppedAgrees
  <1>4. row' \in [Bindings -> {"none", "off", "on"}] /\ seen' \in [Bindings -> Nat]
    BY <1>0 DEF JobInv, TypeOK
  <1> QED
    BY <1>0, <1>3, <1>4, CommandKeeps

-----------------------------------------------------------------------------
(* The agent refreshes its configuration.                                  *)

(* Steps of a config response: the rest of the invariant follows once the  *)
(* responses fit and the agent's rows agree with the orders.               *)
LEMMA RefreshKeeps ==
  ASSUME JobInv, UNCHANGED <<jobVars, inboundVars, streamVars, late, report, journal, ghostVars>>,
         snapshots' \subseteq Snapshots, row' \in [Bindings -> {"none", "off", "on"}], seen' \in [Bindings -> Nat],
         snapshotRevision' \in Nat, configRevision' \in Nat,
         aborts = 0 => NotAhead' /\ (\A s \in snapshots' : SnapshotFits(s)) /\ AgentAgrees'
  PROVE  JobInv'
  <1>0. UNCHANGED <<revision, jobs, status, directRevision, boundaryKnown, isActive, appliedRevision, connected,
                    stream, late, report, journal, lastRequest, dismissed, aborts>>
    BY DEF jobVars, inboundVars, streamVars, ghostVars
  <1>1. TypeOK' /\ Journaled'
    BY <1>0 DEF JobInv, TypeOK, Journaled
  <1>2. JobsFit' /\ BindingsAgree' /\ Applied' /\ LastRequestWins' /\ ResolutionAgrees'
    BY <1>0, JobsSame
  <1>3. ASSUME NEW s, SnapshotFits(s) PROVE SnapshotFits(s)'
    BY <1>0, <1>3 DEF SnapshotFits
  <1>4. AgentInv'
    BY <1>0, <1>3 DEF AgentInv
  <1> QED
    BY <1>1, <1>2, <1>4 DEF JobInv

(* The same when the agent's store is left alone. *)
LEMMA FetchKeeps ==
  ASSUME JobInv, UNCHANGED <<jobVars, inboundVars, streamVars, late, agentVars, ghostVars>>,
         snapshots' \subseteq Snapshots,
         aborts = 0 => \A s \in snapshots' : SnapshotFits(s)
  PROVE  JobInv'
  <1>0. /\ UNCHANGED <<jobVars, inboundVars, streamVars, late, report, journal, ghostVars>>
        /\ UNCHANGED <<revision, jobs, status, directRevision, journal, row, seen, snapshotRevision, configRevision>>
    BY DEF agentVars, storeVars, jobVars
  <1>1. /\ row' \in [Bindings -> {"none", "off", "on"}] /\ seen' \in [Bindings -> Nat]
        /\ snapshotRevision' \in Nat /\ configRevision' \in Nat
    BY <1>0 DEF JobInv, TypeOK
  <1>2. aborts = 0 => NotAhead' /\ AgentAgrees'
    BY <1>0 DEF JobInv, AgentInv, NotAhead, AgentAgrees, Heard
  <1> QED
    BY <1>0, <1>1, <1>2, RefreshKeeps

(* getConfig reads the node. *)
LEMMA FetchConfigKeeps ==
  ASSUME JobInv, FetchConfig
  PROVE  JobInv'
  <1> DEFINE s == ReadNext(Unread)
  <1>0. /\ snapshots' = snapshots \cup {s} /\ snapshots \subseteq Snapshots /\ revision \in Nat
        /\ UNCHANGED <<jobVars, inboundVars, streamVars, late, agentVars, ghostVars>>
    BY DEF FetchConfig, JobInv, TypeOK
  <1>1. s = [revision |-> revision, users |-> None, at |-> [b \in Bindings |-> 0]]
    BY DEF ReadNext, Unread, ReadNode
  <1> HIDE DEF s
  <1>2. s \in Snapshots /\ s.users = None /\ s.revision = revision
    BY <1>0, <1>1 DEF Snapshots
  <1>3. SnapshotFits(s)
    BY <1>0, <1>2 DEF SnapshotFits
  <1>4. aborts = 0 => \A x \in snapshots' : SnapshotFits(x)
    BY <1>0, <1>3 DEF JobInv, AgentInv
  <1> QED
    BY <1>0, <1>2, <1>4, FetchKeeps

(* getConfig then reads the active bindings: what they say is their row.   *)
LEMMA FinishConfigKeeps ==
  ASSUME JobInv, FinishConfig
  PROVE  JobInv'
  <1>0. /\ snapshots \subseteq Snapshots /\ revision \in Nat
        /\ UNCHANGED <<jobVars, inboundVars, streamVars, late, agentVars, ghostVars>>
        /\ directRevision \in [Bindings -> Nat]
    BY DEF FinishConfig, JobInv, TypeOK
  <1>1. PICK s \in snapshots : ~Complete(s) /\ snapshots' = (snapshots \ {s}) \cup {ReadNext(s)}
    BY Zenon DEF FinishConfig
  <1>s. s \in Snapshots
    BY <1>0
  <1> DEFINE users == {b \in Bindings : status[b] = "active"}
             at == [b \in Bindings |-> IF status[b] = "active" THEN directRevision[b] ELSE 0]
  <1>2. users \in SUBSET Bindings /\ at \in [Bindings -> Nat] /\ \A b \in users : at[b] = directRevision[b]
    BY <1>0
  <1>u. ReadBindings(s) = [[s EXCEPT !.users = users] EXCEPT !.at = at]
    BY <1>s DEF ReadBindings, Snapshots
  <1>b. \A b \in Bindings : b \in users <=> status[b] = "active"
    OBVIOUS
  <1> HIDE DEF users, at
  <1>3. /\ ReadBindings(s) \in Snapshots /\ ReadBindings(s).users = users /\ ReadBindings(s).at = at
        /\ ReadBindings(s).revision = s.revision
    BY <1>s, <1>2, <1>u DEF Snapshots
  <1>4. ReadNode(s) \in Snapshots
    BY <1>s, <1>0 DEF ReadNode, Snapshots
  <1>5. ReadNext(s) \in Snapshots
    BY <1>3, <1>4 DEF ReadNext
  <1>6. ASSUME aborts = 0 PROVE \A x \in snapshots' : SnapshotFits(x)
    <2>1. \A x \in snapshots : SnapshotFits(x)
      BY <1>6 DEF JobInv, AgentInv
    <2>2. s.revision \in Nat /\ s.revision <= revision /\ s.revision # None
      BY <2>1, NoneAssumption DEF SnapshotFits
    <2>3. ReadNext(s) = ReadBindings(s)
      BY <2>2 DEF ReadNext
    <2>4. SnapshotFits(ReadBindings(s))
      BY <1>2, <1>3, <1>b, <2>2 DEF SnapshotFits
    <2> QED
      BY <1>1, <2>1, <2>3, <2>4
  <1> QED
    BY <1>0, <1>1, <1>5, <1>6, FetchKeeps

(* A response is dropped. *)
LEMMA DropSnapshotKeeps ==
  ASSUME JobInv, DropSnapshot
  PROVE  JobInv'
  BY FetchKeeps DEF DropSnapshot, JobInv, TypeOK, AgentInv

(* What a response that the agent may adopt says of a binding: it carries  *)
(* the newest order, or the agent has not heard of that order.             *)
LEMMA CarriedFits ==
  ASSUME JobInv, aborts = 0, NEW s \in snapshots, Adoptable(s), NEW b \in Bindings
  PROVE  /\ s.users \in SUBSET Bindings /\ s.at \in [Bindings -> Nat] /\ s.revision \in Nat
         /\ s.revision <= revision /\ configRevision <= s.revision /\ snapshotRevision <= s.revision
         /\ b \in s.users /\ s.at[b] = directRevision[b] => status[b] = "active" /\ b \in Carried(s)
         /\ b \in s.users /\ s.at[b] # directRevision[b] =>
              s.at[b] < directRevision[b] /\ s.revision < directRevision[b]
         /\ b \in Carried(s) => b \in s.users /\ seen[b] <= s.at[b]
         /\ b \notin s.users /\ directRevision[b] <= s.revision => status[b] # "active"
         /\ directRevision[b] \in Nat /\ seen[b] \in Nat /\ snapshotRevision \in Nat
  <1>t. /\ snapshots \subseteq Snapshots /\ seen \in [Bindings -> Nat] /\ directRevision \in [Bindings -> Nat]
        /\ snapshotRevision \in Nat /\ configRevision \in Nat
    BY DEF JobInv, TypeOK
  <1>a. SnapshotFits(s) /\ AgentAgrees /\ NotAhead
    BY DEF JobInv, AgentInv
  <1>1. s.users # None /\ configRevision <= s.revision
    BY DEF Adoptable, Complete
  <1>2. s.users \in SUBSET Bindings /\ s.at \in [Bindings -> Nat] /\ s.revision \in Nat /\ s.revision <= revision
    BY <1>t, <1>a, <1>1 DEF Snapshots, SnapshotFits
  <1>3. snapshotRevision <= s.revision
    BY <1>t, <1>a, <1>1, <1>2 DEF NotAhead
  <1>4. IF b \in s.users
        THEN \/ s.at[b] = directRevision[b] /\ status[b] = "active"
             \/ s.at[b] < directRevision[b] /\ s.revision < directRevision[b]
        ELSE directRevision[b] <= s.revision => status[b] # "active"
    BY <1>a, <1>1 DEF SnapshotFits
  <1>5. b \in s.users /\ s.at[b] = directRevision[b] => b \in Carried(s)
    <2> SUFFICES ASSUME b \in s.users, s.at[b] = directRevision[b] PROVE ~Stale(b, s.at[b])
      BY DEF Carried
    <2>1. status[b] = "active"
      BY <1>t, <1>4
    <2>2. seen[b] <= directRevision[b] /\ (seen[b] = directRevision[b] => row[b] = "on")
      BY <1>t, <1>a, <2>1 DEF AgentAgrees, Heard
    <2> QED
      BY <1>t, <2>2 DEF Stale
  <1>6. b \in Carried(s) => b \in s.users /\ seen[b] <= s.at[b]
    BY <1>t, <1>2 DEF Carried, Stale
  <1> QED
    BY <1>t, <1>1, <1>2, <1>3, <1>4, <1>5, <1>6

(* The carried rows are stored, and the snapshot is adopted or not: b says *)
(* what its newest order says if the agent has heard of it.                *)
LEMMA BindingAgrees ==
  ASSUME JobInv, aborts = 0, NEW s \in snapshots, Adoptable(s), NEW b \in Bindings,
         UNCHANGED <<revision, jobs, status, directRevision, journal>>,
         b \in Carried(s) => row'[b] = "on" /\ seen'[b] = s.at[b],
         b \notin Carried(s) =>
            \/ row'[b] = row[b] /\ seen'[b] = seen[b]
               /\ (snapshotRevision' = snapshotRevision \/ b \notin Omitted(s))
            \/ b \in Omitted(s) /\ row'[b] = "none" /\ seen'[b] = s.revision /\ snapshotRevision' = s.revision,
         snapshotRevision' \in {snapshotRevision, s.revision}
  PROVE  /\ Heard(b)' => (row'[b] = "on" <=> status'[b] = "active")
         /\ status'[b] = "active" => seen'[b] <= directRevision'[b]
         /\ \A i \in journal' : jobs'[i].target = b /\ jobs'[i].revision = directRevision'[b] => Heard(b)'
         /\ seen'[b] <= revision
  <1> DEFINE D == directRevision[b]
  <1>0. /\ s.users \in SUBSET Bindings /\ s.at \in [Bindings -> Nat] /\ s.revision \in Nat
        /\ s.revision <= revision /\ configRevision <= s.revision /\ snapshotRevision <= s.revision
        /\ b \in s.users /\ s.at[b] = D => status[b] = "active" /\ b \in Carried(s)
        /\ b \in s.users /\ s.at[b] # D => s.at[b] < D /\ s.revision < D
        /\ b \in Carried(s) => b \in s.users /\ seen[b] <= s.at[b]
        /\ b \notin s.users /\ D <= s.revision => status[b] # "active"
        /\ D \in Nat /\ seen[b] \in Nat /\ snapshotRevision \in Nat
    BY CarriedFits
  <1>a. /\ Heard(b) => (row[b] = "on" <=> status[b] = "active")
        /\ status[b] = "active" => seen[b] <= D
        /\ \A i \in journal : jobs[i].target = b /\ jobs[i].revision = D => Heard(b)
        /\ seen[b] <= revision /\ D <= revision /\ revision \in Nat
    BY DEF JobInv, AgentInv, AgentAgrees, NotAhead, BindingsAgree, TypeOK
  <1>h. /\ Heard(b) <=> seen[b] >= D \/ snapshotRevision >= D
        /\ Heard(b)' <=> seen'[b] >= D \/ snapshotRevision' >= D
    BY DEF Heard
  <1>1. CASE b \in Carried(s) /\ s.at[b] = D
    BY <1>0, <1>a, <1>h, <1>1
  <1>2. CASE b \in Carried(s) /\ s.at[b] # D
    <2>1. ~Heard(b) /\ ~Heard(b)' /\ seen'[b] <= D /\ seen'[b] \in Nat
      BY <1>0, <1>a, <1>h, <1>2
    <2> QED
      BY <1>0, <1>a, <2>1
  <1>3. CASE b \notin Carried(s) /\ b \in s.users
    <2>1. s.revision < D /\ b \notin Omitted(s)
      BY <1>0, <1>3 DEF Omitted
    <2>2. row'[b] = row[b] /\ seen'[b] = seen[b]
      BY <1>3, <2>1
    <2>3. Heard(b)' <=> Heard(b)
      BY <1>0, <1>h, <2>1, <2>2
    <2> QED
      BY <1>a, <2>2, <2>3
  <1>4. CASE b \notin Carried(s) /\ b \notin s.users /\ D <= s.revision
    <2>1. status[b] # "active"
      BY <1>0, <1>4
    <2>2. CASE b \in Omitted(s) /\ row'[b] = "none" /\ seen'[b] = s.revision
      BY <1>0, <1>a, <1>h, <1>4, <2>1, <2>2
    <2>3. CASE row'[b] = row[b] /\ seen'[b] = seen[b] /\ (snapshotRevision' = snapshotRevision \/ b \notin Omitted(s))
      <3>1. CASE snapshotRevision' = snapshotRevision
        BY <1>a, <1>h, <2>1, <2>3, <3>1
      <3>2. CASE b \notin Omitted(s)
        <4>1. row[b] = "none" \/ seen[b] >= D
          BY <1>0, <1>4, <3>2 DEF Omitted
        <4>2. row[b] # "on"
          BY <1>a, <1>h, <2>1, <4>1
        <4>3. \A i \in journal' : jobs'[i].target = b /\ jobs'[i].revision = directRevision'[b] => Heard(b)'
          BY <1>0, <1>a, <1>h, <1>4, <2>3
        <4> QED
          BY <1>a, <2>1, <2>3, <4>2, <4>3
      <3> QED
        BY <2>3, <3>1, <3>2
    <2> QED
      BY <1>4, <2>2, <2>3
  <1>5. CASE b \notin Carried(s) /\ b \notin s.users /\ ~(D <= s.revision)
    <2>1. s.revision < D
      BY <1>0, <1>5
    <2>2. CASE b \in Omitted(s) /\ row'[b] = "none" /\ seen'[b] = s.revision
      <3>1. seen[b] <= s.revision
        BY <2>2 DEF Omitted
      <3>2. ~Heard(b) /\ ~Heard(b)' /\ seen'[b] <= D
        BY <1>0, <1>h, <2>1, <2>2, <3>1
      <3> QED
        BY <1>0, <1>a, <2>2, <3>2
    <2>3. CASE row'[b] = row[b] /\ seen'[b] = seen[b]
      <3>1. Heard(b)' <=> Heard(b)
        BY <1>0, <1>h, <2>1, <2>3
      <3> QED
        BY <1>a, <2>3, <3>1
    <2> QED
      BY <1>5, <2>2, <2>3
  <1> QED
    BY <1>1, <1>2, <1>3, <1>4, <1>5

(* Reconcile stores the carried rows and fails. *)
LEMMA ReconcileFailsKeeps ==
  ASSUME JobInv, ReconcileFails
  PROVE  JobInv'
  <1>1. PICK s \in snapshots :
          /\ Adoptable(s) /\ snapshots' = snapshots \ {s}
          /\ row' = [b \in Bindings |-> IF b \in Carried(s) THEN "on" ELSE row[b]]
          /\ seen' = [b \in Bindings |-> IF b \in Carried(s) THEN s.at[b] ELSE seen[b]]
    BY Zenon DEF ReconcileFails
  <1>0. /\ UNCHANGED <<jobVars, inboundVars, streamVars, late, report, journal, ghostVars>>
        /\ UNCHANGED <<revision, jobs, status, directRevision, journal, snapshotRevision, configRevision>>
    BY DEF ReconcileFails, jobVars
  <1>t. /\ snapshots \subseteq Snapshots /\ row \in [Bindings -> {"none", "off", "on"}] /\ seen \in [Bindings -> Nat]
        /\ snapshotRevision \in Nat /\ configRevision \in Nat
    BY DEF JobInv, TypeOK
  <1>2. row' \in [Bindings -> {"none", "off", "on"}] /\ seen' \in [Bindings -> Nat] /\ snapshots' \subseteq Snapshots
    BY <1>1, <1>t DEF Snapshots
  <1>3. ASSUME aborts = 0 PROVE NotAhead' /\ (\A x \in snapshots' : SnapshotFits(x)) /\ AgentAgrees'
    <2>1. ASSUME NEW b \in Bindings
          PROVE  /\ Heard(b)' => (row'[b] = "on" <=> status'[b] = "active")
                 /\ status'[b] = "active" => seen'[b] <= directRevision'[b]
                 /\ \A i \in journal' : jobs'[i].target = b /\ jobs'[i].revision = directRevision'[b] => Heard(b)'
                 /\ seen'[b] <= revision
      <3>1. /\ b \in Carried(s) => row'[b] = "on" /\ seen'[b] = s.at[b]
            /\ b \notin Carried(s) => row'[b] = row[b] /\ seen'[b] = seen[b]
        BY <1>1
      <3> QED
        BY <1>0, <1>1, <1>3, <3>1, BindingAgrees
    <2>2. AgentAgrees'
      BY <2>1 DEF AgentAgrees
    <2>3. NotAhead'
      BY <1>0, <1>3, <2>1 DEF JobInv, AgentInv, NotAhead
    <2> QED
      BY <1>1, <1>3, <2>2, <2>3 DEF JobInv, AgentInv
  <1> QED
    BY <1>0, <1>2, <1>3, <1>t, RefreshKeeps

(* ApplySnapshot. *)
LEMMA AdoptSnapshotKeeps ==
  ASSUME JobInv, AdoptSnapshot
  PROVE  JobInv'
  <1>1. PICK s \in snapshots :
          /\ Adoptable(s) /\ snapshots' = snapshots \ {s}
          /\ row' = [b \in Bindings |-> CASE b \in Carried(s) -> "on"
                                          [] b \in Omitted(s) -> "none"
                                          [] OTHER            -> row[b]]
          /\ seen' = [b \in Bindings |-> CASE b \in Carried(s) -> s.at[b]
                                           [] b \in Omitted(s) -> s.revision
                                           [] OTHER            -> seen[b]]
          /\ snapshotRevision' = s.revision /\ configRevision' = s.revision
    BY Zenon DEF AdoptSnapshot
  <1>0. /\ UNCHANGED <<jobVars, inboundVars, streamVars, late, report, journal, ghostVars>>
        /\ UNCHANGED <<revision, jobs, status, directRevision, journal>>
    BY DEF AdoptSnapshot, jobVars
  <1>t. /\ snapshots \subseteq Snapshots /\ row \in [Bindings -> {"none", "off", "on"}] /\ seen \in [Bindings -> Nat]
        /\ revision \in Nat
    BY DEF JobInv, TypeOK
  <1>s. s.revision \in Nat /\ s.at \in [Bindings -> Nat] /\ \A b \in Omitted(s) : b \notin Carried(s)
    BY <1>1, <1>t DEF Snapshots, Adoptable, Complete, Omitted, Carried
  <1>v. \A b \in Bindings :
          /\ b \in Carried(s) => row'[b] = "on" /\ seen'[b] = s.at[b]
          /\ b \notin Carried(s) /\ b \in Omitted(s) => row'[b] = "none" /\ seen'[b] = s.revision
          /\ b \notin Carried(s) /\ b \notin Omitted(s) => row'[b] = row[b] /\ seen'[b] = seen[b]
    BY <1>1, <1>s
  <1>2. row' \in [Bindings -> {"none", "off", "on"}] /\ seen' \in [Bindings -> Nat] /\ snapshots' \subseteq Snapshots
    <2>1. \A b \in Bindings : row'[b] \in {"none", "off", "on"} /\ seen'[b] \in Nat
      BY <1>t, <1>s, <1>v
    <2>2. DOMAIN row' = Bindings /\ DOMAIN seen' = Bindings
      BY <1>1
    <2>3. row' = [b \in Bindings |-> row'[b]] /\ seen' = [b \in Bindings |-> seen'[b]]
      BY <1>1
    <2> QED
      BY <1>1, <1>t, <2>1, <2>3
  <1>3. ASSUME aborts = 0 PROVE NotAhead' /\ (\A x \in snapshots' : SnapshotFits(x)) /\ AgentAgrees'
    <2>1. ASSUME NEW b \in Bindings
          PROVE  /\ Heard(b)' => (row'[b] = "on" <=> status'[b] = "active")
                 /\ status'[b] = "active" => seen'[b] <= directRevision'[b]
                 /\ \A i \in journal' : jobs'[i].target = b /\ jobs'[i].revision = directRevision'[b] => Heard(b)'
                 /\ seen'[b] <= revision
      BY <1>0, <1>1, <1>3, <1>v, BindingAgrees
    <2>2. AgentAgrees'
      BY <2>1 DEF AgentAgrees
    <2>3. \A x \in snapshots : SnapshotFits(x)
      BY <1>3 DEF JobInv, AgentInv
    <2>4. NotAhead'
      BY <1>0, <1>1, <1>s, <2>1, <2>3 DEF NotAhead, SnapshotFits
    <2> QED
      BY <1>1, <2>2, <2>3, <2>4
  <1> QED
    BY <1>0, <1>1, <1>2, <1>3, <1>s, RefreshKeeps

-----------------------------------------------------------------------------
(* The invariant and what it means.                                        *)

(* There are no orders yet. *)
LEMMA JobInitInv ==
  ASSUME Init
  PROVE  JobInv
  <1> USE CommandJobsAssumption, NoneAssumption DEF Init
  <1>a. /\ jobs \in Seq(Jobs) /\ Len(jobs) <= MaxJobs /\ DOMAIN jobs = {}
        /\ revision \in Nat /\ appliedRevision \in Nat /\ aborts \in Nat
        /\ snapshotRevision \in Nat /\ configRevision \in Nat
    OBVIOUS
  <1>b. /\ status \in [Bindings -> {"new", "active", "disabled", "deleted"}]
        /\ directRevision \in [Bindings -> Nat] /\ seen \in [Bindings -> Nat]
        /\ row \in [Bindings -> {"none", "off", "on"}]
    OBVIOUS
  <1>c. boundaryKnown \in [Bindings -> BOOLEAN] /\ isActive \in BOOLEAN /\ connected \in BOOLEAN
    BY Zenon
  <1>d. /\ stream \subseteq DOMAIN jobs /\ (~connected => stream = {})
        /\ journal \subseteq DOMAIN jobs /\ dismissed \subseteq DOMAIN jobs
        /\ late \subseteq Results /\ report \in Results \cup {None} /\ snapshots \subseteq Snapshots
        /\ late \cup ({report} \ {None}) = {} /\ lastRequest \in Specs \cup {None}
    OBVIOUS
  <1>1. TypeOK
    BY <1>a, <1>b, <1>c, <1>d DEF TypeOK
  <1>2. JobsFit /\ BindingsAgree /\ Applied /\ LastRequestWins /\ ResolutionAgrees /\ Journaled
    BY DEF JobsFit, BindingsAgree, Applied, Inbounds, LastRequestWins, ResolutionAgrees, Journaled
  <1>3. AgentInv
    BY DEF AgentInv, NotAhead, AgentAgrees, Heard
  <1> QED
    BY <1>1, <1>2, <1>3 DEF JobInv

(* JobInv is inductive. *)
LEMMA JobStep ==
  ASSUME JobInv, [Next]_vars
  PROVE  JobInv'
  <1>1. CASE Next
    BY <1>1, OrdersKeep, RolledBackOrderKeeps, QueueInboundKeeps, ToggleActiveKeeps, DismissJobKeeps,
       ClaimDueKeeps, SweepExhaustedKeeps, ConnectionKeeps, RefusedKeeps, EnsureUserKeeps,
       TerminalUserKeeps, ValidatePanelKeeps, ServeReportKeeps, LoseReportKeeps, ServeLateReportKeeps,
       FetchConfigKeeps, FinishConfigKeeps, ReconcileFailsKeeps, AdoptSnapshotKeeps,
       DropSnapshotKeeps, Zenon DEF Next
  <1>2. CASE UNCHANGED vars
    <2>1. connected' \in BOOLEAN /\ stream' \subseteq DOMAIN jobs /\ (~connected' => stream' = {})
      BY <1>2 DEF vars, streamVars, JobInv, TypeOK
    <2> QED
      BY <1>2, <2>1, StreamKeeps DEF vars, agentVars, streamVars
  <1> QED
    BY <1>1, <1>2

(* JobInv is the inductive invariant of the orders: the table, the agent's *)
(* rows and everything under way between them.                             *)
THEOREM JobInvHolds == Spec => []JobInv
  BY JobInitInv, JobStep, PTL DEF Spec

(* LastRequestWins, for every number of inbounds, jobs and attempts.       *)
THEOREM LastRequestWinsHolds == Spec => []LastRequestWins
  <1>1. JobInv => LastRequestWins
    BY DEF JobInv
  <1> QED
    BY <1>1, JobInvHolds, PTL

(* ResolutionAgrees: the sweep and the enqueue never disagree on what was  *)
(* replaced.                                                               *)
THEOREM ResolutionAgreesHolds == Spec => []ResolutionAgrees
  <1>1. JobInv => ResolutionAgrees
    BY DEF JobInv
  <1> QED
    BY <1>1, JobInvHolds, PTL

(* InboundInvariant: types, and the node shows the newest deployment that  *)
(* was validated.                                                          *)
THEOREM InboundInvariantHolds == Spec => []InboundInvariant
  <1>1. ASSUME JobInv PROVE AppliedIsNewest
    <2> DEFINE validated == {jobs[i].revision : i \in {j \in Inbounds : jobs[j].status = "completed"}}
    <2>1. appliedRevision \in Nat /\ \A v \in validated : v \in Nat /\ v >= 1 /\ v <= appliedRevision
      BY <1>1, JobFields DEF JobInv, Applied, Inbounds, TypeOK, JobsFit
    <2>2. appliedRevision # 0 => appliedRevision \in validated
      BY <1>1 DEF JobInv, Applied
    <2>3. AppliedIsNewest <=> appliedRevision = IF validated = {} THEN 0 ELSE Max(validated)
      BY DEF AppliedIsNewest
    <2> HIDE DEF validated
    <2>4. CASE validated = {}
      BY <2>2, <2>3, <2>4
    <2>5. CASE validated # {}
      <3>1. appliedRevision \in validated
        BY <2>1, <2>2, <2>5
      <3>2. \A v \in validated : (\A y \in validated : v >= y) => v = appliedRevision
        BY <2>1, <3>1
      <3>3. \A y \in validated : appliedRevision >= y
        BY <2>1
      <3>4. Max(validated) = appliedRevision
        BY <3>1, <3>2, <3>3 DEF Max
      <3> QED
        BY <2>3, <2>5, <3>4
    <2> QED
      BY <2>4, <2>5
  <1>2. JobInv => InboundInvariant
    BY <1>1 DEF InboundInvariant, JobInv
  <1> QED
    BY <1>2, JobInvHolds, PTL

(* An order that is completed and has none after it is what the agent      *)
(* does, unless something was published and rolled back.                   *)
LEMMA NewestIsDone ==
  ASSUME JobInv
  PROVE  CommittedOrdersDone
  <1> SUFFICES ASSUME aborts = 0, NEW b \in Bindings, NEW i \in DOMAIN jobs, Newest(b, i), jobs[i].status = "completed"
               PROVE  row[b] = "on" <=> jobs[i].type = "ENSURE_USER"
    BY DEF CommittedOrdersDone, CompletedMeansDone
  <1>1. Speaks(i, b) /\ jobs[i].revision \in Nat /\ jobs[i].revision >= 1 /\ directRevision[b] \in Nat
    BY JobFields DEF Newest, Speaks, JobInv, JobsFit, TypeOK
  <1>2. jobs[i].revision <= directRevision[b]
    BY <1>1 DEF JobInv, BindingsAgree
  <1>3. PICK k \in DOMAIN jobs : Speaks(k, b) /\ jobs[k].revision = directRevision[b]
    BY <1>1, <1>2 DEF JobInv, BindingsAgree
  <1>4. jobs[k].revision <= jobs[i].revision
    BY <1>3 DEF Newest, Speaks
  <1>5. jobs[i].revision = directRevision[b]
    BY <1>1, <1>2, <1>3, <1>4
  <1>6. i \in journal /\ jobs[i].target = b
    BY <1>1 DEF JobInv, Journaled, Speaks
  <1>7. Heard(b) => (row[b] = "on" <=> status[b] = "active")
    BY DEF JobInv, AgentInv, AgentAgrees
  <1>8. Heard(b)
    BY <1>5, <1>6 DEF JobInv, AgentInv, AgentAgrees
  <1>9. jobs[i].type = "ENSURE_USER" <=> status[b] = "active"
    BY <1>1, <1>5 DEF JobInv, BindingsAgree
  <1> QED
    BY <1>7, <1>8, <1>9

(* CommittedOrdersDone: late, repeated and reordered commands, crashes     *)
(* before the journal and overtaken config responses never undo an order   *)
(* that was completed, as long as nothing published was rolled back.       *)
THEOREM CommittedOrdersDoneHolds == Spec => []CommittedOrdersDone
  BY NewestIsDone, JobInvHolds, PTL

(* Without rolled back transactions the property needs no such condition.  *)
THEOREM CompletedMeansDoneHolds ==
  ASSUME MaxAborts = 0
  PROVE  Spec => []CompletedMeansDone
  <1> DEFINE NoAborts == JobInv /\ aborts = 0
  <1>1. Init => NoAborts
    BY JobInitInv DEF Init
  <1>2. NoAborts /\ [Next]_vars => NoAborts'
    <2> SUFFICES ASSUME NoAborts, [Next]_vars PROVE aborts' = 0
      BY JobStep
    <2>1. ASSUME NEW b, RolledBackOrder(b) PROVE FALSE
      BY <2>1 DEF RolledBackOrder
    <2>2. CASE UNCHANGED vars
      BY <2>2 DEF vars, ghostVars
    <2>3. CASE Next
      BY <2>1, <2>3
         DEF Next, EnsureBinding, DisableBinding, DeleteBinding, RetryJob, Order, QueueInbound, ToggleActive,
             DismissJob, ClaimDue, SweepExhausted, RepublishPending, Connect, Disconnect, Replay, FailCommand,
             EnsureUser, TerminalUser, ValidatePanel, ServeReport, LoseReport, ServeLateReport, FetchConfig,
             FinishConfig, ReconcileFails, AdoptSnapshot, DropSnapshot, ghostVars
    <2> QED
      BY <2>2, <2>3
  <1>3. NoAborts => CompletedMeansDone
    BY NewestIsDone DEF CommittedOrdersDone
  <1> QED
    BY <1>1, <1>2, <1>3, PTL DEF Spec

==============================================================================
