---------------------------- MODULE CommandJobs ----------------------------
(***************************************************************************)
(* How an order of the control plane reaches a node and comes back as a    *)
(* result: the NodeCommandJob table with its retries, cancellations and    *)
(* resolutions (agent-events.service.ts, node-command-job.utils.ts,        *)
(* agent.service.ts), the event stream, and the Go agent's execution,      *)
(* journal and config refresh (runner.go, processor.go, store.go).         *)
(*                                                                         *)
(* One node with one credential.  A job's id is its place in jobs.  The    *)
(* stream is a set: a command published while the backlog of a new         *)
(* connection is being loaded overtakes it, so the agent may see commands  *)
(* in any order and more than once.  What a command does to Xray and to    *)
(* metering is the business of module Metering; here a binding has a row   *)
(* in the agent's store or not, at a revision; its subscription is active. *)
(***************************************************************************)
EXTENDS Naturals, Sequences, FiniteSets, FiniteSetsExt

CONSTANTS
    Bindings,        \* PanelClientBinding rows of the node
    Specs,           \* panel inbounds an operator may ask for
    None,
    Onboarding,      \* the node is a new one, without a validated inbound
    MaxAttempts,     \* claims before a job is given up (8 in the code)
    MaxJobs,         \* bound: ids drawn
    MaxRevision,     \* bound: Node.agentConfigRevision
    MaxLate,         \* bound: abandoned reports still under way
    MaxSnapshots,    \* bound: config responses under way
    MaxAborts        \* bound: transactions rolled back after they published

ASSUME CommandJobsAssumption ==
    /\ Bindings \cap Specs = {} /\ None \notin Bindings \cup Specs
    /\ Onboarding \in BOOLEAN /\ MaxAttempts \in Nat \ {0}
    /\ MaxJobs \in Nat /\ MaxRevision \in Nat /\ MaxLate \in Nat
    /\ MaxSnapshots \in Nat /\ MaxAborts \in Nat

VARIABLES
    \* --- control plane ---
    revision,         \* Node.agentConfigRevision
    jobs,             \* NodeCommandJob
    status,           \* PanelClientBinding.status
    directRevision,   \* PanelClientBinding.directRevision
    boundaryKnown,    \* directDisableWatermarks is not NULL
    isActive,         \* Node.isActive
    appliedRevision,  \* Node.inboundAppliedRevision
    \* --- network ---
    connected,        \* the agent's event stream is open
    stream,           \* commands on it
    late,             \* reports the agent gave up on, still under way
    snapshots,        \* config responses on their way to the state lock
    \* --- agent ---
    report,           \* the result handleCommand is reporting
    journal,          \* commands_v2 rows with a completed result
    row,              \* desired_users_v2: "none", "off" or "on"
    seen,             \* the row's revision, or the binding's tombstone
    snapshotRevision, \* meta snapshot_revision
    configRevision,   \* meta config_revision
    \* --- history ---
    lastRequest,      \* the inbound the operator asked for last
    dismissed,        \* jobs an administrator has closed
    aborts

jobVars     == <<revision, jobs, status, directRevision, boundaryKnown>>
inboundVars == <<isActive, appliedRevision>>
streamVars  == <<connected, stream>>
storeVars   == <<row, seen, snapshotRevision, configRevision>>
agentVars   == <<report, journal, storeVars>>
ghostVars   == <<lastRequest, dismissed, aborts>>
vars == <<jobVars, inboundVars, streamVars, late, snapshots, agentVars, ghostVars>>

Terminals    == {"DISABLE_USER", "REMOVE_USER"}
BindingTypes == {"ENSURE_USER"} \cup Terminals

\* keyed: the job still holds the dedupe key of its inbound.  A job is "absent"
\* when the transaction that drew its id was rolled back.  Whether nextRunAt has
\* passed is a free choice.
Jobs == [type : BindingTypes \cup {"ENSURE_INBOUND"}, target : Bindings \cup Specs,
         revision : Nat,
         status : {"pending", "running", "failed", "completed", "cancelled", "absent"},
         attempts : Nat, keyed : BOOLEAN, resolved : BOOLEAN]

NewJob(type, target, r) ==
    [type |-> type, target |-> target, revision |-> r, status |-> "pending",
     attempts |-> 0, keyed |-> type = "ENSURE_INBOUND", resolved |-> FALSE]

Results   == [job : 1..MaxJobs, status : {"completed", "failed"}]
Snapshots == [revision : Nat \cup {None}, users : (SUBSET Bindings) \cup {None}, at : [Bindings -> Nat]]

ASSUME NoneAssumption == None \notin Nat \cup Results /\ \A bs \in SUBSET Bindings : bs # None

Outstanding(i) == jobs[i].status \in {"pending", "running", "failed"}
Inbounds       == {i \in DOMAIN jobs : jobs[i].type = "ENSURE_INBOUND"}

----------------------------------------------------------------------------
\* Which command makes which other one moot

\* Fault: only a command of the same type counts.
ResolvedBySameType(type) == {type}

\* bindingCommandTypesResolvedBy: what a new order settles on its binding.
ResolvedBy(type) ==
    CASE type = "REMOVE_USER"  -> BindingTypes
      [] type = "DISABLE_USER" -> {"DISABLE_USER", "ENSURE_USER"}
      [] OTHER                 -> {type}

\* bindingCommandTypesSuperseding: what an exhausted job is settled by.
Superseding(type) ==
    {type, "REMOVE_USER"} \cup (IF type = "ENSURE_USER" THEN {"DISABLE_USER"} ELSE {})

\* resolveExhaustedCommands, then the INSERT: a new order closes the given-up
\* jobs it replaces.  Inbound jobs are matched on the node, not on the target.
Insert(all, job) ==
    LET replaced(j) == /\ j.status = "cancelled"
                       /\ j.type \in ResolvedBy(job.type)
                       /\ job.type # "ENSURE_INBOUND" => j.target = job.target
    IN  Append([i \in DOMAIN all |->
                  IF replaced(all[i]) THEN [all[i] EXCEPT !.resolved = TRUE] ELSE all[i]],
               job)

\* Fault: a command is kept for a subscription that has ended.
PublishAlways(ids) == stream' = stream \cup ids

\* publish: nothing happens when nobody listens.
Publish(ids) == stream' = IF connected THEN stream \cup ids ELSE stream

----------------------------------------------------------------------------
\* Orders

\* isNodeOnboardingReady: a new node has a validated inbound.
Ready == Onboarding => appliedRevision > 0

CanOrder == Len(jobs) < MaxJobs /\ revision < MaxRevision

\* queueDirectBindingCommand: revision, binding and job in the caller's
\* transaction.
Order(b, type, s) ==
    /\ CanOrder
    /\ revision' = revision + 1
    /\ jobs' = Insert(jobs, NewJob(type, b, revision + 1))
    /\ status' = [status EXCEPT ![b] = s]
    /\ directRevision' = [directRevision EXCEPT ![b] = revision + 1]
    /\ boundaryKnown' = [boundaryKnown EXCEPT ![b] = FALSE]
    /\ Publish({Len(jobs) + 1})
    /\ UNCHANGED <<inboundVars, connected, late, snapshots, agentVars, ghostVars>>

\* ensurePanelClientBindingLocally: a binding that was taken down waits for its
\* settlement boundary.  The caller has looked at isActive before the transaction,
\* so the node may be off by now.
MayEnsure(b) ==
    /\ Ready
    /\ status[b] \in {"new", "active"} \/ boundaryKnown[b]

EnsureBinding(b) == MayEnsure(b) /\ Order(b, "ENSURE_USER", "active")

\* queuePanelDisableJobsForSubscriptionTx, quiesceDirectBindingsForTrafficReset.
DisableBinding(b) == status[b] = "active" /\ Order(b, "DISABLE_USER", "disabled")

\* queuePanelDeleteJobsForSubscriptionTx.
DeleteBinding(b) ==
    status[b] \in {"active", "disabled"} /\ Order(b, "REMOVE_USER", "deleted")

\* queueDirectBindingCommand publishes while the transaction that holds the row
\* is still open; here it fails afterwards (another binding's node has no agent,
\* a serialization conflict).  The revision it drew will be drawn again.
RolledBackOrder(b) ==
    /\ aborts < MaxAborts /\ aborts' = aborts + 1
    /\ CanOrder
    /\ \E type \in BindingTypes :
        /\ type = "ENSURE_USER" => MayEnsure(b)
        /\ type = "DISABLE_USER" => status[b] = "active"
        /\ type = "REMOVE_USER" => status[b] \in {"active", "disabled"}
        /\ jobs' = Append(jobs, [NewJob(type, b, revision + 1) EXCEPT !.status = "absent"])
    /\ Publish({Len(jobs) + 1})
    /\ UNCHANGED <<revision, status, directRevision, boundaryKnown, inboundVars,
                   connected, late, snapshots, agentVars, lastRequest, dismissed>>

\* Fault: an identical outstanding request is always joined.
JoinableAlways(i) == jobs[i].status \in {"pending", "running"}

\* queueCommand: an identical request joins the outstanding job only while that
\* one is the newest deployment of the node and has not failed.
Joinable(i) ==
    /\ jobs[i].status \in {"pending", "running"}
    /\ \A j \in Inbounds : jobs[j].revision <= jobs[i].revision

\* queueCommand for an ENSURE_INBOUND (mode validate_panel).  Every request
\* draws a revision, joined or not; a key held by a job that cannot be joined
\* is released.
QueueInbound(s) ==
    LET holders == {i \in Inbounds : jobs[i].keyed /\ jobs[i].target = s}
        freed   == [i \in DOMAIN jobs |->
                     IF i \in holders THEN [jobs[i] EXCEPT !.keyed = FALSE] ELSE jobs[i]]
        joined  == {i \in holders : Joinable(i)}
    IN  /\ CanOrder /\ ~isActive
        /\ revision' = revision + 1
        /\ IF joined # {}
           THEN jobs' = jobs /\ Publish(joined)
           ELSE /\ jobs' = Insert(freed, NewJob("ENSURE_INBOUND", s, revision + 1))
                /\ Publish({Len(jobs) + 1})
        /\ lastRequest' = s
        /\ UNCHANGED <<status, directRevision, boundaryKnown, inboundVars, connected,
                       late, snapshots, agentVars, dismissed, aborts>>

\* updateNode: an administrator switches the node on or off; a new node without
\* a validated inbound cannot be switched on.  The orders that follow for its
\* bindings are transactions of their own, and may fail.
ToggleActive ==
    /\ Ready
    /\ isActive' = ~isActive
    /\ UNCHANGED <<jobVars, appliedRevision, streamVars, late, snapshots, agentVars,
                   ghostVars>>

\* retryNodeCommandJob: a fresh order from the binding's present state.
RetryJob(i) ==
    /\ jobs[i].status = "cancelled" /\ ~jobs[i].resolved
    /\ jobs[i].type = "ENSURE_USER" /\ status[jobs[i].target] = "active" /\ isActive
    /\ Order(jobs[i].target, "ENSURE_USER", "active")

\* dismissNodeCommandJob.
DismissJob(i) ==
    /\ jobs[i].status = "cancelled" /\ ~jobs[i].resolved
    /\ jobs' = [jobs EXCEPT ![i].resolved = TRUE]
    /\ dismissed' = dismissed \cup {i}
    /\ UNCHANGED <<revision, status, directRevision, boundaryKnown, inboundVars,
                   streamVars, late, snapshots, agentVars, lastRequest, aborts>>

----------------------------------------------------------------------------
\* retryDueCommands

\* Fault: a claim is not counted.
ClaimedUncounted(j) == [j EXCEPT !.status = "running"]

Claimed(j) == [j EXCEPT !.status = "running", !.attempts = @ + 1]

\* The scan and its compare-and-swap on status and attempts.
ClaimDue(i) ==
    /\ Outstanding(i) /\ jobs[i].attempts < MaxAttempts
    /\ jobs' = [jobs EXCEPT ![i] = Claimed(@)]
    /\ Publish({i})
    /\ UNCHANGED <<revision, status, directRevision, boundaryKnown, inboundVars,
                   connected, late, snapshots, agentVars, ghostVars>>

\* A newer order has taken the place of job i.
Superseded(i) ==
    \E j \in DOMAIN jobs :
        /\ jobs[j].status # "absent" /\ jobs[j].revision > jobs[i].revision
        /\ IF jobs[i].type = "ENSURE_INBOUND" THEN jobs[j].type = "ENSURE_INBOUND"
           ELSE jobs[j].target = jobs[i].target /\ jobs[j].type \in Superseding(jobs[i].type)

\* The sweep gives an exhausted job up, under the node's row lock.
SweepExhausted(i) ==
    /\ Outstanding(i) /\ jobs[i].attempts >= MaxAttempts
    /\ jobs' = [jobs EXCEPT ![i].status = "cancelled", ![i].keyed = FALSE,
                            ![i].resolved = Superseded(i)]
    /\ UNCHANGED <<revision, status, directRevision, boundaryKnown, inboundVars,
                   streamVars, late, snapshots, agentVars, ghostVars>>

\* ingestUsageBatch ends by publishing the pending jobs again.
RepublishPending ==
    /\ connected /\ \E i \in DOMAIN jobs : jobs[i].status = "pending" /\ i \notin stream
    /\ Publish({i \in DOMAIN jobs : jobs[i].status = "pending"})
    /\ UNCHANGED <<jobVars, inboundVars, connected, late, snapshots, agentVars, ghostVars>>

----------------------------------------------------------------------------
\* The event stream

\* stream and loadPending: a new subscription is sent the outstanding jobs.  One
\* whose nextRunAt lies ahead is left out in the code; here it may stay untaken
\* until the stream ends.
Connect ==
    /\ ~connected /\ report = None /\ connected' = TRUE
    /\ stream' = {i \in DOMAIN jobs : Outstanding(i)}
    /\ UNCHANGED <<jobVars, inboundVars, late, snapshots, agentVars, ghostVars>>

Hangup == connected' = FALSE /\ stream' = {}

Disconnect ==
    /\ connected /\ report = None /\ Hangup
    /\ UNCHANGED <<jobVars, inboundVars, late, snapshots, agentVars, ghostVars>>

----------------------------------------------------------------------------
\* The agent: handleCommand, one command at a time

Raised(r) == IF configRevision < r THEN r ELSE configRevision

Take(i) == i \in stream /\ report = None /\ stream' = stream \ {i}

\* Execute stores the completed result before it is reported.
Done(i) ==
    /\ Take(i)
    /\ journal' = journal \cup {i}
    /\ configRevision' = Raised(jobs[i].revision)
    /\ report' = [job |-> i, status |-> "completed"]
    /\ UNCHANGED connected

Refused(i) ==
    /\ Take(i)
    /\ report' = [job |-> i, status |-> "failed"]
    /\ UNCHANGED <<connected, journal, configRevision>>

\* The process dies, or the store fails, before the result is stored.
Died(i) ==
    /\ i \in stream /\ report = None /\ Hangup
    /\ configRevision' \in {configRevision, Raised(jobs[i].revision)}
    /\ UNCHANGED <<report, journal>>

\* CompletedCommand: a redelivery is answered from the journal.
Replay(i) ==
    /\ i \in journal /\ Take(i)
    /\ report' = [job |-> i, status |-> "completed"]
    /\ UNCHANGED <<jobVars, inboundVars, connected, late, snapshots, journal, storeVars,
                   ghostVars>>

\* The sample before a removal, a preflight or Xray fails before anything is
\* stored.
FailCommand(i) ==
    /\ i \notin journal /\ Refused(i)
    /\ UNCHANGED <<jobVars, inboundVars, late, snapshots, row, seen, snapshotRevision,
                   ghostVars>>

\* Fault: a command is not compared with the history of its binding.
StaleNever(b, r) == FALSE

\* supersededForBinding: a newer instruction has spoken, or this revision has
\* taken the binding down.
Stale(b, r) == r < seen[b] \/ (r = seen[b] /\ row[b] # "on")

\* ensureUser: the row is stored before the account is installed, so a failed
\* installation leaves it.
EnsureUser(i) ==
    LET b == jobs[i].target
        r == jobs[i].revision
    IN  /\ i \notin journal /\ jobs[i].type = "ENSURE_USER"
        /\ IF r < snapshotRevision \/ Stale(b, r)
           THEN (Done(i) \/ Died(i)) /\ UNCHANGED <<row, seen>>
           ELSE /\ Done(i) \/ Refused(i) \/ Died(i)
                /\ row' = [row EXCEPT ![b] = "on"]
                /\ seen' = [seen EXCEPT ![b] = r]
        /\ UNCHANGED <<jobVars, inboundVars, late, snapshots, snapshotRevision, ghostVars>>

\* terminalUser: the account first, then row and tombstone in one transaction.
TerminalUser(i) ==
    LET b == jobs[i].target
        r == jobs[i].revision
    IN  /\ i \notin journal /\ jobs[i].type \in Terminals
        /\ Done(i) \/ Died(i)
        /\ IF r < snapshotRevision \/ r < seen[b]
           THEN UNCHANGED <<row, seen>>
           ELSE /\ row' = [row EXCEPT ![b] =
                            IF @ = "none" \/ jobs[i].type = "REMOVE_USER" THEN "none" ELSE "off"]
                /\ seen' = [seen EXCEPT ![b] = r]
        /\ UNCHANGED <<jobVars, inboundVars, late, snapshots, snapshotRevision, ghostVars>>

\* ENSURE_INBOUND in mode validate_panel only reads.
ValidatePanel(i) ==
    /\ i \notin journal /\ jobs[i].type = "ENSURE_INBOUND"
    /\ Done(i) \/ Died(i)
    /\ UNCHANGED <<jobVars, inboundVars, late, snapshots, row, seen, snapshotRevision,
                   ghostVars>>

----------------------------------------------------------------------------
\* completeCommand

\* Fault: an older report may overwrite a newer deployment.
InboundCurrentAlways(i) == ~isActive

\* applyInboundReport: the first validation, or a newer one of a node that is
\* switched off; anything else is refused and rolled back.
InboundCurrent(i) == ~isActive /\ appliedRevision < jobs[i].revision

Accepted(r) ==
    /\ Outstanding(r.job)
    /\ jobs[r.job].type = "ENSURE_INBOUND" /\ r.status = "completed" => InboundCurrent(r.job)

\* One transaction: the job, and what its result means.  The first validated
\* report of a new node switches it on.
CompleteCommand(r) ==
    LET job  == jobs[r.job]
        done == r.status = "completed"
    IN  /\ jobs' = [jobs EXCEPT
                     ![r.job].status = r.status,
                     ![r.job].keyed  = @ /\ ~done]
        /\ boundaryKnown' = IF done /\ job.type \in Terminals
                            THEN [boundaryKnown EXCEPT ![job.target] = TRUE]
                            ELSE boundaryKnown
        /\ IF done /\ job.type = "ENSURE_INBOUND"
           THEN /\ appliedRevision' = job.revision
                /\ isActive' = (Onboarding /\ appliedRevision = 0)
           ELSE UNCHANGED inboundVars
        /\ UNCHANGED <<revision, status, directRevision>>

\* The report is answered: accepted, or refused (ended, unknown, outdated), and
\* then the error tears the stream down.
ServeReport ==
    /\ report # None /\ report' = None
    /\ \/ Accepted(report) /\ CompleteCommand(report) /\ UNCHANGED streamVars
       \/ ~Accepted(report) /\ Hangup /\ UNCHANGED <<jobVars, inboundVars>>
    /\ UNCHANGED <<late, snapshots, journal, storeVars, ghostVars>>

\* The connection fails or the process dies while it reports; the request may
\* still arrive.
LoseReport ==
    /\ report # None /\ report' = None /\ Hangup
    /\ \/ late' = late
       \/ Cardinality(late) < MaxLate /\ late' = late \cup {report}
    /\ UNCHANGED <<jobVars, inboundVars, snapshots, journal, storeVars, ghostVars>>

ServeLateReport ==
    /\ \E r \in late :
        /\ late' = late \ {r}
        /\ IF Accepted(r) THEN CompleteCommand(r) ELSE UNCHANGED <<jobVars, inboundVars>>
    /\ UNCHANGED <<streamVars, snapshots, agentVars, ghostVars>>

----------------------------------------------------------------------------
\* refreshConfig

ReadNode(s) == [s EXCEPT !.revision = revision]

ReadBindings(s) ==
    [s EXCEPT !.users = {b \in Bindings : status[b] = "active"},
              !.at = [b \in Bindings |-> IF status[b] = "active" THEN directRevision[b] ELSE 0]]

\* Fault: the bindings are read first.
ReadNextSwapped(s) == IF s.users = None THEN ReadBindings(s) ELSE ReadNode(s)

\* getConfig reads the node and then its active bindings, in two statements.
ReadNext(s) == IF s.revision = None THEN ReadNode(s) ELSE ReadBindings(s)

Unread == [revision |-> None, users |-> None, at |-> [b \in Bindings |-> 0]]

Complete(s) == s.revision # None /\ s.users # None

FetchConfig ==
    /\ Cardinality(snapshots) < MaxSnapshots
    /\ snapshots' = snapshots \cup {ReadNext(Unread)}
    /\ UNCHANGED <<jobVars, inboundVars, streamVars, late, agentVars, ghostVars>>

FinishConfig ==
    /\ \E s \in snapshots :
        /\ ~Complete(s)
        /\ snapshots' = (snapshots \ {s}) \cup {ReadNext(s)}
    /\ UNCHANGED <<jobVars, inboundVars, streamVars, late, agentVars, ghostVars>>

\* A snapshot older than what the agent has acted on is dropped.
Adoptable(s) == Complete(s) /\ configRevision <= s.revision

\* mergeNewerBindings: what the snapshot carries, unless the binding has newer
\* history.
Carried(s) == {b \in s.users : ~Stale(b, s.at[b])}

\* ... and the rows it omits, unless they were added after it was built.
Omitted(s) == {b \in Bindings \ s.users : row[b] # "none" /\ seen[b] <= s.revision}

\* Reconcile stores the carried rows and then goes to Xray; when that fails the
\* snapshot is not adopted and nothing is deleted.
ReconcileFails ==
    /\ \E s \in snapshots :
        /\ Adoptable(s)
        /\ snapshots' = snapshots \ {s}
        /\ row' = [b \in Bindings |-> IF b \in Carried(s) THEN "on" ELSE row[b]]
        /\ seen' = [b \in Bindings |-> IF b \in Carried(s) THEN s.at[b] ELSE seen[b]]
    /\ UNCHANGED <<jobVars, inboundVars, streamVars, late, report, journal,
                   snapshotRevision, configRevision, ghostVars>>

\* ApplySnapshot: omitted rows become tombstones of the snapshot's revision.
AdoptSnapshot ==
    /\ \E s \in snapshots :
        /\ Adoptable(s)
        /\ snapshots' = snapshots \ {s}
        /\ row' = [b \in Bindings |-> CASE b \in Carried(s) -> "on"
                                        [] b \in Omitted(s) -> "none"
                                        [] OTHER            -> row[b]]
        /\ seen' = [b \in Bindings |-> CASE b \in Carried(s) -> s.at[b]
                                         [] b \in Omitted(s) -> s.revision
                                         [] OTHER            -> seen[b]]
        /\ snapshotRevision' = s.revision
        /\ configRevision' = s.revision
    /\ UNCHANGED <<jobVars, inboundVars, streamVars, late, report, journal, ghostVars>>

\* The request fails, or the response is older than the agent's state.
DropSnapshot ==
    /\ \E s \in snapshots : snapshots' = snapshots \ {s}
    /\ UNCHANGED <<jobVars, inboundVars, streamVars, late, agentVars, ghostVars>>

----------------------------------------------------------------------------
Init ==
    /\ revision = 0 /\ jobs = <<>>
    /\ status = [b \in Bindings |-> "new"]
    /\ directRevision = [b \in Bindings |-> 0]
    /\ boundaryKnown = [b \in Bindings |-> FALSE]
    /\ isActive = ~Onboarding /\ appliedRevision = 0
    /\ connected = FALSE /\ stream = {} /\ late = {} /\ snapshots = {}
    /\ report = None /\ journal = {}
    /\ row = [b \in Bindings |-> "none"] /\ seen = [b \in Bindings |-> 0]
    /\ snapshotRevision = 0 /\ configRevision = 0
    /\ lastRequest = None /\ dismissed = {} /\ aborts = 0

Next ==
    \/ \E b \in Bindings : EnsureBinding(b)
    \/ \E b \in Bindings : DisableBinding(b)
    \/ \E b \in Bindings : DeleteBinding(b)
    \/ \E b \in Bindings : RolledBackOrder(b)
    \/ \E s \in Specs : QueueInbound(s)
    \/ ToggleActive
    \/ \E i \in DOMAIN jobs : RetryJob(i)
    \/ \E i \in DOMAIN jobs : DismissJob(i)
    \/ \E i \in DOMAIN jobs : ClaimDue(i)
    \/ \E i \in DOMAIN jobs : SweepExhausted(i)
    \/ RepublishPending
    \/ Connect
    \/ Disconnect
    \/ \E i \in stream : Replay(i)
    \/ \E i \in stream : FailCommand(i)
    \/ \E i \in stream : EnsureUser(i)
    \/ \E i \in stream : TerminalUser(i)
    \/ \E i \in stream : ValidatePanel(i)
    \/ ServeReport
    \/ LoseReport
    \/ ServeLateReport
    \/ FetchConfig
    \/ FinishConfig
    \/ ReconcileFails
    \/ AdoptSnapshot
    \/ DropSnapshot

Spec == Init /\ [][Next]_vars
\* The 30-second cron keeps running and meets every outstanding job.  Nothing is
\* assumed of the agent.
Fairness ==
    \A i \in 1..MaxJobs :
        /\ WF_vars(i \in DOMAIN jobs /\ ClaimDue(i))
        /\ WF_vars(i \in DOMAIN jobs /\ SweepExhausted(i))

FairSpec == Spec /\ Fairness

----------------------------------------------------------------------------
\* Properties

\* Types, and that a command is only ever on an open stream.
TypeOK ==
    /\ revision \in Nat /\ appliedRevision \in Nat /\ aborts \in Nat
    /\ jobs \in Seq(Jobs) /\ Len(jobs) <= MaxJobs
    /\ status \in [Bindings -> {"new", "active", "disabled", "deleted"}]
    /\ directRevision \in [Bindings -> Nat]
    /\ boundaryKnown \in [Bindings -> BOOLEAN]
    /\ isActive \in BOOLEAN /\ connected \in BOOLEAN
    /\ stream \subseteq DOMAIN jobs /\ (~connected => stream = {})
    /\ journal \subseteq DOMAIN jobs
    /\ dismissed \subseteq DOMAIN jobs
    /\ late \subseteq Results /\ report \in Results \cup {None}
    /\ \A r \in late \cup ({report} \ {None}) : r.job \in DOMAIN jobs
    /\ snapshots \subseteq Snapshots
    /\ row \in [Bindings -> {"none", "off", "on"}] /\ seen \in [Bindings -> Nat]
    /\ snapshotRevision \in Nat /\ configRevision \in Nat
    /\ lastRequest \in Specs \cup {None}

\* The inbound an operator asked for last is the newest deployment of the node,
\* however its requests were repeated, joined, failed or given up: the agent's
\* and the server's revision guards then let it win.
LastRequestWins ==
    lastRequest # None =>
        \E i \in Inbounds : /\ jobs[i].target = lastRequest
                            /\ \A j \in Inbounds : jobs[j].revision <= jobs[i].revision

\* The node shows the newest deployment that was validated, in whatever order
\* the reports arrive.
AppliedIsNewest ==
    LET validated == {jobs[i].revision : i \in {j \in Inbounds : jobs[j].status = "completed"}}
    IN  appliedRevision = IF validated = {} THEN 0 ELSE Max(validated)

\* Order j has taken the place of order i: it is newer and either repeats it or
\* takes the user out of service for whom i still had something to deliver.
Replaces(j, i) ==
    /\ jobs[j].status # "absent" /\ jobs[i].revision < jobs[j].revision
    /\ \/ jobs[i].type = "ENSURE_INBOUND" /\ jobs[j].type = "ENSURE_INBOUND"
       \/ /\ jobs[i].target = jobs[j].target
          /\ \/ jobs[j].type = jobs[i].type
             \/ jobs[j].type = "REMOVE_USER"
             \/ jobs[j].type = "DISABLE_USER" /\ jobs[i].type = "ENSURE_USER"

\* A job that was given up is shown to the administrator until a newer order
\* replaces it or somebody dismisses it, and no longer: the sweep and the
\* enqueue decide this in different transactions and must not disagree.
ResolutionAgrees ==
    \A i \in DOMAIN jobs : jobs[i].status = "cancelled" =>
        (jobs[i].resolved <=> i \in dismissed \/ \E j \in DOMAIN jobs : Replaces(j, i))

Newest(b, i) ==
    /\ jobs[i].target = b /\ jobs[i].status # "absent"
    /\ \A j \in DOMAIN jobs : jobs[j].target = b /\ jobs[j].status # "absent"
                                => jobs[j].revision <= jobs[i].revision

\* When the newest order of a binding is completed, the agent does what it says:
\* late, repeated and reordered commands, crashes before the journal is written
\* and config responses that were overtaken have not undone it.
CompletedMeansDone ==
    \A b \in Bindings : \A i \in DOMAIN jobs :
        Newest(b, i) /\ jobs[i].status = "completed"
            => (row[b] = "on" <=> jobs[i].type = "ENSURE_USER")

\* The same beside inbound deployments, with more orders, as long as no
\* transaction that had published a command was rolled back (the agent then has
\* a command the server knows nothing of).
CommittedOrdersDone == aborts = 0 => CompletedMeansDone

\* Every order ends, completed or given up and shown: whatever the agent does,
\* a job is not retried for ever.
EventuallyFinal ==
    \A i \in 1..MaxJobs :
        (i \in DOMAIN jobs /\ Outstanding(i)) ~> (i \in DOMAIN jobs /\ ~Outstanding(i))

\* The inbound deployments are in order: types, and the applied revision is
\* that of the newest validated deployment (applyInboundReport).
InboundInvariant == TypeOK /\ AppliedIsNewest
============================================================================
