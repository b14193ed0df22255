# ChordV: a TLA+ development

ChordV sells metered proxy access. A control plane (`apps/api`, NestJS on
PostgreSQL) owns customers, subscriptions, nodes and the bindings of a
subscription to a node. On every node a Go agent (`apps/agent`) drives an Xray
process: it installs and removes users, samples Xray's traffic counters and
uploads the readings as numbered batches. A desktop client (`apps/desktop`) signs
a customer in, leases a session and runs a local kernel process. The control
plane updates itself under a supervisor (`deploy/backend/entrypoint.sh`) and hands
out client releases and runtime files.

This directory models these programs where they are concurrent, distributed or
must survive a crash, checks the models with TLC and proves their safety
properties with TLAPS for every value of the constants. The core are two paths
between control plane and node:

- the **metering path**: a byte counted by Xray becomes a sample, a batch, a row of
  `NodeUsageBatch`, and finally part of `Subscription.usedTrafficBytes`;
- the **order path**: a decision of the control plane (provision, disable, delete,
  deploy an inbound) becomes a `NodeCommandJob`, an event on the agent's stream, a
  change of Xray, and a report that closes the job.

They meet twice. An exhausted subscription turns metering into orders, and the
report of a terminal command carries the settlement boundary that says which
batches of the binding still count. Both paths cross an unreliable link, both
ends crash, and each end has one durable store.

## Inventory

| Component | State | Operations | Interacts with | Hard because | Correct when |
|---|---|---|---|---|---|
| Agent store, runner (`store.go`, `runner.go`) | sqlite: desired users with counter baselines, batches, journal, tombstones; boot id, locks | RecordSample, AckThrough, ApplyConfigSnapshot, upload, heartbeat, refresh | API, Xray | crash between transactions; network calls outside the lock | a batch leaves only when billed |
| Agent command processor (`processor.go`) | none of its own | ENSURE_USER, DISABLE_USER, REMOVE_USER, ENSURE_INBOUND, ... | store, Xray | redelivery, stale commands | a late command undoes no newer one |
| Usage ingest (`agent.service.ts`) | watermark and boot of `NodeAgent`, `NodeUsageBatch` | ingestUsageBatch, heartbeat, createCredential | accounting, retention | retries, boots, rotation | billed once, in order |
| Direct metering (`agent-direct-metering.ts`) | `TrafficSnapshot`, usage, boundaries | applyDirectBatch, disableDirectBindings | ingest, bindings, jobs | absolute counters that are reset; sharing | every byte billed once or never readable |
| Metering retention | payloads of settled rows | redactSettledUsagePayloads | ingest | clears rows the ingest walks over | unsettled rows keep their payload |
| Command jobs (`agent-events.service.ts`, `node-command-job.utils.ts`) | `NodeCommandJob`, subscribers | queue, publish, claim, sweep, complete, resolve, retry | stream, bindings, inbound | claim against completion, supersession | completed means done; every order ends |
| Inbound provisioning (`panel-inbound.ts`) | applied revision, dedupe keys | queueCommand, applyInboundReport | jobs, admin | joined and late requests | the last request wins |
| Usage locks (`usage-lock.utils.ts`) | advisory locks, promise chains | nested acquisition with deadlines | everything that bills | lock order, timeouts, two backends | exclusion, no wait cycle |
| Sessions and leases (`runtime-session.service.ts`) | leases, revocation jobs | connect, heartbeat, evict, sweep, revoke | clients, locks, jobs | check and write are apart; jobs are lost or deduplicated | the limit holds; ended stays ended; barred users lose their leases |
| Subscriptions and teams (`admin-subscription.service.ts`) | subscriptions, teams, members | create, convert, transfer, renew, end | leases, bindings | decisions read before a lock or without one | one effective subscription per owner |
| Traffic reset, adjustment, access sync | counters, member ledger, bindings | reset, adjust, sync, disconnect | metering, jobs | traffic goes on during a reset | nothing consumed before is charged after |
| Registration (`credentials.go`, `durable.go`, `agent-register.service.ts`) | tokens, agents; files of the host | issue, register, save, archive, resume | store | crash and power loss between durable writes | a registration is never lost; an agent runs on its own state |
| Desktop session (`session_store.rs`, `desktopSessionRecovery.ts`) | credential file, epoch, retired tokens | save, refresh, recover, clear | auth | four writers of one file | a spent token is never stored again |
| Desktop runtime (`lib.rs`, `useRuntimeActions.ts`) | kernel process, proxy, connection generation | connect, disconnect, sign out, exit | leases | a queued start after a stop | stop wins; nothing is left behind |
| System update (`system-update.service.ts`, `entrypoint.sh`) | operations, marker files, releases, schema | stage, drain, hand over, snapshot, migrate, promote, roll back | itself | either process may be killed at any step | what is reported runs; every operation settles |
| Releases and runtime files (`release-center.service.ts`, `runtime-version.service.ts`, `file-maintenance.service.ts`) | releases, packages, versions, files, cleanup jobs | publish, promote, upload, replace, fetch, activate, prune, clean up | download pages | files and rows have no common transaction | what a row hands out exists; no file is forgotten |
| Presence, tickets, mirrors, image bed, admin console, legacy agent, scripts | rows, files, pages | CRUD, I/O, rendering | – | mostly not | – |

## Modules

| Module | Models | Uses |
|---|---|---|
| `UsageLedger` | the contract: recorded in order, settled once and in that order, released only when settled | – |
| `UsageUpload` | the upload path of one node: agent queue, transport, ingest, heartbeat, credentials, retention | implements `UsageLedger` |
| `Metering` | counters, baselines, sampling, cut-off, terminal commands, config refresh, accounting, reactivation | relies on the contract of `UsageLedger` |
| `CommandJobs` | job table, event stream, execution and journal, completion, inbound deployments, config responses | – |
| `UsageLocks` | lock keys, both lock backends, the nestings in which eight kinds of handlers take them | – |
| `Leases` | leases, heartbeats, evictions, sweeps, revocation jobs | – |
| `Ownership` | accounts, teams, memberships, subscriptions under concurrent administrators | – |
| `TrafficReset` | reset, adjustment, sync and connect against the metering of one subscription | – |
| `Registration` | registration tokens, identity files and state database of a host | – |
| `SessionStore` | the desktop's refresh tokens and session file | – |
| `DesktopRuntime` | the desktop's kernel process, page handlers and exit | – |
| `SystemUpdate` | API and supervisor through marker files | – |
| `ManagedFiles` | files on disk and their cleanup jobs | – |
| `ReleaseCenter`, `RuntimeVersions` | releases and packages; runtime versions and their downloads | `ManagedFiles` |
| `Storage` | both over the same files | `ReleaseCenter`, `RuntimeVersions` |
| `UsageUploadProofs`, `MeteringProofs`, `CommandJobsProofs` | theorems about the modules of these names | TLAPS |
| `SessionProofs` | theorems about `UsageLocks`, `Leases`, `SessionStore` | TLAPS |
| `SubscriptionProofs` | theorems about `Ownership`, `TrafficReset` | TLAPS |
| `EndpointProofs` | theorems about `DesktopRuntime`, `Registration` | TLAPS |
| `StorageProofs`, `SystemUpdateProofs` | theorems about `Storage` and its parts, and `SystemUpdate` | TLAPS |
| `MC*` | instances for TLC | |

Each `Fault: ...` operator stands before the definition it is a plausible wrong
version of. No specification uses them; they are the material for checking that
a property notices the mistake.

Time is a free choice throughout: a deadline, a due date or a retention period
may be over whenever the model wants it to be.

### UsageUpload

A batch is opaque and identified by `(boot, seq)`; boots are numbered in the order
of the process starts, so that the sqlite rowid order is the lexicographic one.

- *Agent.* `RecordSample` commits batch and sequence number together. `Restart` is a
  crash at any point: new boot, old queue, possibly a newly configured token. An
  upload round (`BeginUploadRound`, `UploadBatch`, `ReceiveUploadAck`) lists at
  most `ListLimit` batches, keeps those of the oldest boot and stops when a reply is
  behind the batch it answers. `SendHeartbeat` names the oldest pending boot. Both
  share the transport lock, hence the single `phase`.
- *Link.* `CallFails` abandons a call; a request that was travelling may be kept in
  `late` and served after its caller has gone (`ServeLateUpload`,
  `ServeLateHeartbeat`), or lost. A reply can be lost after the commit.
- *Control plane.* `IngestUsageBatch` is one serializable transaction under the node's
  lock: store the row unless it exists, choose the starting watermark (0 when the
  boot changed), walk a gap-free run of at most `MaxContiguousBatches` rows of
  *this credential's* record, bill the ones without `accountedAt`, move the
  watermark. `Heartbeat` adopts a boot. `CreateCredential` gives the node a new
  record with an empty watermark. `RedactSettledUsagePayloads` is the retention job.

### Metering

One node, several bindings, counters with two directions. `RecordSample` translates
`foldCounter`: first reading, roll-back (a new generation), delta, emission.
Handlers that take accounts down are split into a sampling step and a removal
step, because traffic goes on in between and the process may die there (`op`,
`Fail`). `Account` is `applyDirectBatch` for the head of the queue, against the
control plane's own snapshot, with its conflict, its charges, the exhaustion of
the subscription and the orders that follow in the same transaction.
`CompleteCommand` stores a boundary without looking at the binding's present
state, as the code does; `Reactivate` is `ensurePanelClientBindingLocally` on a
binding that was taken down. Xray is external: a counter grows only while its
account is installed, a reset drops both directions at once, and the counters may
or may not survive the removal of the account. The history variables `carried`,
`read`, `masked`, `lost` follow the bytes, and `Total` sums them by counting units,
a form of sum the provers can reason about; a reset that the counter has outgrown
before the next reading cannot be seen by anyone and is accounted as lost.

### CommandJobs

One node with one credential. A job has a type, a target, a revision, a status,
its attempts, its dedupe key and whether its failure is resolved. Orders
(`EnsureBinding`, `DisableBinding`, `DeleteBinding`, `QueueInbound`, `RetryJob`)
draw a node revision and insert a job in one transaction, and the insert resolves
the given-up jobs it replaces; `RolledBackOrder` is the transaction that publishes
and then fails. `ClaimDue` and `SweepExhausted` are the two halves of
`retryDueCommands`. The stream is a set, because a publication can overtake the
backlog of a new connection and a command can be on it several times over a
job's life. The agent takes one command at a time: answered from the journal
(`Replay`), refused (`FailCommand`), or executed (`EnsureUser`, `TerminalUser`,
`ValidatePanel`), where the process may die after the row is stored and before the
result is. A report is served, lost, or served late. A config response is read by
the control plane in two statements (`FetchConfig`, `FinishConfig`) and adopted,
half-adopted (`ReconcileFails`) or dropped by the agent at any later time.

### UsageLocks

A handler is the sequence of keys it takes, one inside the other (`ConnectLocks`,
`SyncLocks`, `BatchLocks` over the ascending sequences `BatchIds`, ...). With
PostgreSQL a key is retried until a deadline; without `DATABASE_URL` a caller waits
for the promise chain it found in the map and becomes its tail. A waiter that times
out takes the tail with it (`LocalTimeout`), so the next caller does not wait for
the holder in front: on that backend exclusion holds only for keys nobody has timed
out on, and `LocksExclude` says so.

### Leases

One user of one subscription. `Connect` evicts under the user's lease lock and
`GrantLease` adds the row later; `Heartbeat` checks and `RenewLease` writes later;
a worker claims a revocation job, scans, and revokes one lease at a time. A job
with the same key that is already running swallows a new request, workers time
out, and a crash loses requests, workers and follow-ups. `renewedLate` and
`limitOwed` name the two cases in which the code may exceed the limit.

### Ownership

Handlers are a decision (`CreateSubscription`, `CreateTeam`, `CreateTeamMember`,
`ConvertToTeam`, `TransferTeam`, `PromoteMember`, ...) and a write
(`WriteSubscription`, `WriteJoin`, `WriteOwner`, `WriteMember`) with the owner locks
the code holds in between. `ReviveSubscription` is renew, change and update on an
ended row, which check nothing; the owners it touched are in `bypassed`.

### TrafficReset

One subscription, a binding per user on a node of its own. A reset takes the
provisioning lock, quiesces, waits for the settlement boundaries, and clears
under the usage lock after checking again; a sync plans chunks and applies them
later; an adjustment reads and writes under one lock. Each batch carries, as a
history value, the number of resets its user had seen.

### Registration

A file is what the running system sees (`seen`) and what the disk shows after a
power loss (`safe`); a directory sync makes them agree. The host archives a
foreign state by a journal and renames, persists its secret, registers, and
saves its identity; answers are lost, tokens expire or are replaced, the operator
changes the environment. `Crash` keeps what is seen; `PowerLoss`, at any step, leaves
each file as seen or as safe. A resumed reset does not sync the journal it found, so
a power loss can take the journal back and keep the renames: `undone` records that.

### SessionStore and DesktopRuntime

The page is one thread and runs from one await to the next; native commands run
on workers. `SessionStore` has the server's single-use refresh tokens, the native
refresher, the page's recovery, log-in and sign-out, and the file behind its lock
with reservation tickets, the tombstone epoch and the retired tokens. A write, a
removal or the stop before it may fail (`StoreFault`), after which the page keeps what
it had; a bootstrap may end in a sign-out or in saving the session again.
`DesktopRuntime` has the connect flow through lease, launch, proxy and clean-up,
the stop that joins an earlier stop, sign-out, and the exit gate. A status or log
read (`RefreshChildState`) runs whenever the mutex is free: it turns "connecting" into
"connected" (`polled`), or lets go of a kernel that has ended, cannot be asked or has
closed its ports (`LetGo`; one that still runs is `stray` until the recorded pid is
stopped).

### SystemUpdate

The API side stages a release, drains and writes the pending marker; the
supervisor turns it into a promoting journal, snapshots, migrates, launches,
waits for health and stability, writes last-good, result and approval, or rolls
back. Every marker write is a step, and either process may be killed between any
two. One bounded fault stands for everything that goes wrong, lost database writes
(`UpdateFails`, `unclosed`) and a journal that cannot be written (`LandingUnwritten`)
included. Whether snapshots are taken before migrations is a setting (`snapshotOn`).
The first start of an installation lies before `SysInit`.

### ManagedFiles, ReleaseCenter, RuntimeVersions, Storage

`ManagedFiles` has the files, the cleanup jobs with their revision check and the
nightly scan; what refers to a path is a parameter. `ReleaseCenter` has releases,
the line lock, and uploads whose commit may be answered by an error.
`RuntimeVersions` has the delivery policy, and downloads that go on writing after
their row was declared failed or deleted. `Storage` puts them over the same files
and adds the crash of the process. `forsaken` names the files that only the scan
can find again.

## Runs

Modules without common state share a run: a variable `focus` is chosen initially
and only that module moves, so that the run explores each of them completely and
the properties of all are checked.

| Run | Instance | Shows |
|---|---|---|
| `upload_safety` | 2 boots, 3 batches each, 2 credentials, 2 late requests, list and scan limit 2 | `NeverLost`, `UnsettledKeepsPayload`, the inductive `UploadInvariant` (with billed-once and in-order), the refinement `LedgerSpec` |
| `upload_liveness` | `FairSpec`, 2 boots, 2 batches, 1 credential, scan limit 1 | `EventuallySettled` |
| `upload_rotation` | the same with 2 credentials | **violated**: finding 1 |
| `metering_exact` | 1 binding, 2 bytes, 2 resets, 3 batches, 1 crash, no reactivation | `MeteringExact`, `HeadAccountable`, `NothingBeyondBoundary` |
| `metering_shared` | 2 bindings on one subscription, 1 reactivation | `MeteringExact` when one binding's batch exhausts the other's quota, `CaughtUp` when one is brought back |
| `jobs_refresh` | `FairSpec`, 1 binding, 2 orders, 1 config response under way | `CompletedMeansDone`, `EventuallyFinal` |
| `jobs_inbound` | a new node, a binding and 2 inbounds, 3 jobs, 1 late report, 1 rolled-back transaction | `CommittedOrdersDone`, `LastRequestWins`, `InboundInvariant`, `ResolutionAgrees` |
| `jobs_rollback` | 1 rolled-back transaction | **violated**: finding 2 |
| `sessions` | locks: 3 handlers, 2 subscriptions, both backends, 1 time-out; leases: 2 leases, 2 requests, 2 workers, limit 1 or 2, 1 fault; session file: 3 tokens, 2 refreshes, 1 sign-out, 1 fault (lost answer, revocation, failed write, removal or stop) | `LockInvariant`, `NoWaitCycle`, `LeaseInvariant`, `EndedLeaseStays`, `RetiredStaysRetired`, `StoreInvariant` |
| `subscriptions` | 2 users, 1 team, 2 administrators; 2 users with a binding each, quota 2, 1 reset, 1 adjustment, 1 crash or similar | `OneEffectiveRow`, `MembershipInvariant`, `ResetBoundary`, `TrafficInvariant`, `NoStaleActivation` |
| `endpoints` | 2 nodes, 2 tokens, 2 secrets, 2 crashes, power losses or lost answers; 2 connects, 2 stops, 1 failed stop or proxy restore, status reads at any time; 2 releases, 2 packages, 2 uploads, 2 runtime versions, 2 fetchers | `RegistrationRecoverable`, `RunsOnOwnState`, `TokenInvariant`, `StopWins`, `RuntimeInvariant`, `ReferencedExists`, `StorageInvariant`, `LineOnlyRises` |
| `operations` | `MCFairSpec`; 2 leases, 1 worker, 1 fault; 3 versions, 2 operations, 3 faults, snapshots on or off | `ReportedIsRunning`, `UpdateInvariant`, `BarredUserLosesLeases`, `SnapshotFirst`, `OperationSettles` |

### Bounds

Two boots are the least for an acknowledgement of one to meet the queue of
another, two credentials the least for a rotation; three batches with a scan limit
of two make a reply fall behind its batch. Two bytes and two resets let a counter
be reset, outgrow its old value in one direction and be reset again. Three inbound
jobs for two targets are the A, B, A sequence the dedupe rule is about.
`MaxAttempts` (8 in the code) is 1: what matters is that a job can be claimed and can
be exhausted, and that it can be completed in either state.

Three handlers over two subscriptions are the least for a cycle that is longer
than a pair, and for a caller behind a waiter that timed out behind a holder. Two
leases with a limit of one or two allow an eviction, a lowered limit and a lapsed
lease that comes back. Three tokens are log-in, refresh and a second log-in. Two
administrators and two users make every pair of handlers meet. Two host faults
are a crash or power loss of an installation and one of its repetition, so that a
resumed reset meets either. Three versions, two operations and three faults let a
rollback be interrupted and the operation after it meet what is left. Two releases
are a line that can be crossed; two runtime versions with two fetchers are a
download that was given up and its successor. `KeepNewest` (20 in the code) is 1.
The storage models are explored as release line, packages of one release, and
runtime versions, the first and last with one fault, since together they are
beyond TLC's reach; all three have the cleaner and the crash.

The proofs do not depend on these values. Runs
without deadlock checking are those whose bounds let the system run out of work.
Symmetry is used for processes and model values no definition distinguishes, and
in no run with a liveness property.

### Fairness

- `UsageUpload!FairSpec`: the upload loop runs on a ticker and its mutex is fair, so a
  round is begun again and again; every call ends by its timeout; a call that is
  tried for ever is served and answered at some point. Nothing is assumed of
  heartbeats, restarts, retention or late requests.
- `CommandJobs!FairSpec`: the 30-second cron of `retryDueCommands` meets every
  outstanding job. Nothing is assumed of the agent, which may be gone for good.
- `Leases!LeaseFairness`: time passes, a request that was let in ends, and the
  sweeper's cron runs. Nothing is assumed of clients, follow-ups or workers: the
  property rests on the heartbeat's check and the sweep.
- `SystemUpdate!SysFairness`: the supervisor's loop goes on (Docker restarts it), the
  process goes on with what it started, and the console polls an operation until
  it is settled, as the page does. Faults are bounded. Nothing makes the process try
  a lost closing write again: `OperationSettles` waits for its next boot.

## Findings

1. **A credential rotation strands stored batches** (`upload_rotation`). Rows are
   walked per `NodeAgent` record; rows stored but not accounted under the replaced
   record are a gap the new one never closes, and the queue stops.
2. **An order that was never made is executed** (`jobs_rollback`).
   `queueDirectBindingCommand` publishes inside the open transaction, against the
   rule stated in `retryNodeCommandJob`.

`PROJECT.json` quotes the lines that say otherwise.

### Known departures

What the models also show, or what reading the code for them brought up, and
where it is. A formula named here is defined in its module and holds for the
code only with the restriction given.

| Where | What | How the models treat it |
|---|---|---|
| `Metering!HeadAccountable` with reactivations | a refresh deletes a disabled row with its counter generation; the new row starts at generation 0 while the snapshot is ahead, and a lower reading in it is refused for ever (1 binding, 1 reset, 1 reactivation) | checked and proved for bindings that are not brought back |
| `Metering!NoOvercharge` with reactivations | the snapshot of a deleted binding is zeroed although Xray may have kept the counter: the bytes are billed twice | `MeteringExact` is stated, and proved, until a binding is brought back |
| `Metering!NothingBeyondBoundary` with reactivations | `completeCommand` stores the boundary of any completed terminal command; a late one moves the boundary back and traffic in between is skipped (6 orders) | as above |
| `desktopSessionRecovery.ts:113` | a recovery begun for one log-in can replace or sign out a later one of the same page, where `session_store.rs:84` says "Never stop or clear a newer login." | modelled (`RecoveryClears`); not claimed |
| `desktopSessionRecovery.ts:101`, `lib.rs:723`, `session_store.rs:49` | a recovery whose refresh was granted before a sign-out reserves its ticket after the tombstone and is admitted: the session is back | modelled (`Reserve`); `ClearedStaysCleared` speaks of tickets reserved before the sign-out |
| `session_store.rs:86` | a removal that fails leaves the file under a tombstone that lives in memory only: the next start of the client reads it | `ClearFails`; the restart of the client and its start-up restore are not modelled |
| `lib.rs:5645`, `:3481` | a status read between the failure of a start and its cleanup makes it "connected"; the cleanup then leaves it, a kernel without the proxy, until the page stops it | modelled (`RefreshChildState`); excepted by `polled` |
| `DesktopRuntime!SignedOutIsStopped` | a connect begun while a sign-out is stopping the runtime can end connected after it: the check at `useRuntimeActions.ts:852` ("must never start a local connection") runs before the native start, the one behind it only ends the lease | not claimed |
| `Ownership!OwnerIsMember` | `deleteTeamMember` and the demotion take no lock, and the team can change hands to the member in between | not claimed |
| `Ownership!ReviveSubscription` | renew, change and update check nothing, so an ended row becomes effective beside another | excepted by `bypassed` |
| `UsageLocks!LocalTimeout` | a waiter that times out removes the tail of the in-process chain | excepted by `lockGaveUp` |
| `usage-lock.utils.ts:17` | the set of held keys is inherited by tasks that are deferred past the release | not modelled |
| `admin-subscription.service.ts:1066` | bindings already marked deleted are not in the reset's settlement check | not modelled |
| revocation jobs | a pending job is not cancelled when the user is unbarred; follow-ups live in timers of the process | `UnbarUser`, `CrashLeases` |
| `auth-session.service.ts` | a lost answer to a refresh costs the session | modelled (`Rotate`) |
| `createCredential` | two at once, under read committed, may leave two live agents | `CommitCredential` |
| a fenced shutdown whose pending marker cannot be removed | is promoted by the next container start | modelled; `OperationSettles` excepts the fence |
| `credentials.go:213` | the resumed reset does not sync the journal it found: a power loss can take it back and keep some renames, and the agent then runs with a foreign database or log | modelled (`PowerLoss`); excepted by `undone` |
| `system-update.service.ts:546`, `:569`, `:1376` | a failed `finishOperation` is swallowed: the row stays running while the process lives | `UpdateFails`; `OperationSettles` excepts it until the next boot |
| `system-update.service.ts:451` | `startRestart` marks its row outside any `try`: an error there leaves row and lock as they are, and no exit is scheduled | `UpdateFails` ("held"); as above |
| `entrypoint.sh:738`-`750` | when the landing's marker cannot be written, the failed version is tried again with itself as `rollbackFrom`; if it comes up it is reported as "rolledback", against the comment at 967 | modelled (`LandingUnwritten`); `ReportedIsRunning` compares versions only |
| `entrypoint.sh:89`-`120` | a later failure then writes a journal whose `rollbackFrom` is its own version, which `parse_journal` refuses: the next start of the supervisor stops there | modelled (`Readable`); it waits for the operator |
| `entrypoint.sh:546` | the snapshot can be switched off (`docs/prd/backend-self-update.md:33`) | modelled (`snapshotOn`); `SnapshotFirst` is about installations that have it on |
| `release-center.service.ts:335`, `:939` | the publish check runs before the lock, so the package can be deleted before the release is out | `BeginEdit` and `EditWrite` are separate; no property claims a package |
| `release-center.service.ts:532` | an external package is written without the release's lock and can join a published release | `CommitLink` |
| `release-center.service.ts:592` | `updateReleaseArtifact` decides on the source it read before the lock | hashes are not modelled |
| `runtime-version.service.ts:195` | late progress revives a row that was declared failed, and an older download may be activated after a newer one | modelled (`Progress`, `AutoActivate`); no property claims the order |
| `runtime-version.service.ts:173` | a version switched away and back within one flush clears the mark of the second notification | not modelled |

## Proofs

Every safety invariant and every action property of the runs is a theorem, for all
values of the constants. Each is derived from an inductive invariant, stated in the
proof module (in `UsageUpload` and, as `MeteringInvariant`, in `Metering` itself) as a
conjunction of named parts. The invariants were checked with TLC on the runs'
instances before they were proved. The step lemmas have one case per action.

| Module | Invariant | Theorems |
|---|---|---|
| `UsageUploadProofs` | `UploadInvariant` | `TypeOK`, `NeverLost`, `BilledAtMostOnce`, `AccountedInOrder`, `UnsettledKeepsPayload`, the refinement `LedgerSpec` |
| `MeteringProofs` | `MeteringInvariant`, `ExactInv`, `CatchInv` | `TypeOK`, `HeadAccountable`, `NothingBeyondBoundary`, `MeteringExact`, `CaughtUp` |
| `CommandJobsProofs` | `JobInv` | `LastRequestWins`, `ResolutionAgrees`, `InboundInvariant`, `CommittedOrdersDone`, `CompletedMeansDone` |
| `SessionProofs` | `LockInv`, `LeaseInv`, `StoreInv` | `LockInvariant`, `NoWaitCycle`; `LeaseInvariant`, `EndedLeaseStays`; `RetiredStaysRetired`, `StoreInvariant` |
| `SubscriptionProofs` | `OwnInv`, `TrafficInv` | `OneEffectiveRow`, `MembershipInvariant`; `ResetBoundary`, `TrafficInvariant`, `NoStaleActivation` |
| `EndpointProofs` | `DesktopInv`, `RegInv` | `StopWins`, `RuntimeInvariant`; `RegistrationRecoverable`, `RunsOnOwnState`, `TokenInvariant` |
| `StorageProofs` | `StorageInv` | `ReferencedExists`, `StorageInvariant`, `LineOnlyRises` |
| `SystemUpdateProofs` | `SysInv` | `UpdateInvariant`, `ReportedIsRunning`, `SnapshotFirst` |

### The arguments

*UsageUpload.* That a deleted batch is billed depends on what every acknowledgement
under way stands on. `UploadInvariant` adds `QueueInv` (what has left the queue is
recorded, and every older boot is settled) and `ServerInv` (every watermark, every
answer under way and every settled batch stands on a billed prefix of its boot; a
batch has been applied once if it is accounted and never otherwise). The argument
turns on `IngestKeepsServerInv`, that a gap-free run starting at a settled watermark
ends at a settled watermark whatever the boot was before, and on `HeadIsSendable`,
that the oldest pending boot may be sent because everything older has left the queue.

*Metering.* `TypeOK` needs no assumption (in particular no delta is negative).
`MeteringInvariant` consists of `Chain` (snapshot, queued samples and the agent's row
ascend in generation and counter), `Terminal` (a binding the agent has taken down by
order is never metered again) and `Orders` (a boundary under way already is one). It
is proved for `MaxReactivations = 0`, and the restriction is the code's, see Known
departures.

`MeteringExact` is a balance of sums over all bindings of a subscription. `ExactInv`
says it is kept until a reactivation, with what makes it inductive: `Linked` (the
delta of every queued sample is its gain over the reading before it, and the last
one is the agent's baseline) and `Unread` (what the counter shows above that baseline
is what has been carried and not read). A batch leaving the queue then bills exactly
what it took out (`AccountExact`). The sums are finite because `Bindings` is, and are
taken apart by the `Total...` lemmas; no induction over data is needed since `Total` is
a cardinality.

`CaughtUp` holds with reactivations. `CatchInv` adds `CommandsAgree` (the command at a
binding's newest revision asks for its present status), `Answered` (the newest order is
outstanding, or the agent's row agrees with it) and `HandlerAgrees` (what a terminal
command or a refresh brought from its first step belongs to the revision it names).

*CommandJobs.* `JobInv` adds to the properties that are inductive themselves
(`LastRequestWins`, `ResolutionAgrees`) the shape of the table (`JobsFit`), its
agreement with the bindings (`BindingsAgree`) and the inbound (`Applied`), that what
is reported or recorded as completed is in the agent's journal (`Journaled`), and
`AgentInv`: the agent is not ahead of the control plane, a config response says of a
binding what its row says or is older than it, and an agent that has heard of the
newest order does what it says. `AgentInv` is conditional on the absence of
rolled-back transactions, as finding 2 requires; `CompletedMeansDone` is proved
under `MaxAborts = 0`, `CommittedOrdersDone` without that assumption.

*UsageLocks.* `Order` ranks the keys (owner, lease, provisioning, node, subscriptions by
id), and every plan ascends in it. `LockInv` says for the in-process backend what the
promise chains are: whoever holds or wants a key is in its chain, and waits only for
those before it. `NoWaitCycle` follows because waiting is contained in the strict order
`Below`, and a finite set of processes has a maximal element in it.

*Leases.* The limit is kept because one connect at a time is between eviction and
grant (`OneConnects`) and the place it made stays free (`PlaceKept`). Ended leases stay
because every late write looks at the status again.

*SessionStore.* What a refresh is going to save is a new token (`TokensIssued`), a ticket
is older than the next one (`TicketsBehind`), epochs are odd after a sign-out and even
after a save (`EpochsAlternate`), and at an even epoch the file is of a save asked for
since the sign-out (`FileInOrder`).

*Ownership.* `Decided` says that what a handler read under its owner locks is still
true when it writes, for each kind of handler; `KeysExclude`, `MembersFit`, `RowsFit` and
`RowsWhole` are what this takes. `AtMostOne` is the property in inductive form.

*TrafficReset.* Every binding is in one of four phases: on, about to be cut off, cut off
with its report ahead, settled (`Phases`). `HandlersOk` says which phases a reset, sync
or adjustment may rely on at each of its steps. `TrafficInvariant`'s sum is counted like
`Total` (`SumLedger`).

*DesktopRuntime.* `WorkerHolds` and `AttemptIsMine` relate the native worker's mutex to
the attempt it made, `StoppedBefore` bounds the generation of the last stop, and
`NothingLeaks` says what is left of kernel and proxy at each step of a start, also when
a status read has come before its cleanup. `StrayReplaced` says that a start has stopped
a kernel without a handle before it goes on.

*Registration.* `HostInOrder` says what the process may rely on at each step, `Backed`
that what this host has sent is still in its pending file, as seen and as safe, and
that nothing is about to remove it. `Journaled` carries a reset over power losses: where
the host sees no journal, or one that a power loss may take back before a rename
depends on it (`RenamePending`), database and log are on disk and belong together
(`StateSettled`); and the renames are on disk before the journal goes.

*Storage.* `PackagesFit` and `VersionsFit` say for each upload and each download which
file it owns at its step, and that a path that was queued for removal is not used
again for another row; `Queued` is the property with the files that are growing;
`LineHeld` is the release line's lock.

*SystemUpdate.* `Together` relates the API's step to the marker it has written, `Driven`
the supervisor's step to journal and generation (`Retried` is the generation whose
landing could not be written), `Landed` and `Migrated` what holds of
releases, snapshots and schema, `Numbered` the order of the operations, and
`ReportedRuns` and `Recorded` what results and rows may say. A kill of either process
only changes its step, so each part is stated for what survives.

### Assumptions

The constants' assumptions stand in the modules that declare them. Bounds are
naturals, or positive where a limit of zero would not be a system; model values for
"none" are not members of the data they stand beside (`NoFileAssumption`,
`NoMarkAssumption` and `NoneAssumption` say this of records and sets). The sets that
sums and counts range over (bindings, leases, processes) are finite, and users are
not teams. Two theorem groups have a hypothesis of their own, `MaxReactivations = 0`
and `MaxAborts = 0`; both are satisfied by a run, and both exclude what the findings
or the known departures show to break the property.

### Only model-checked

The liveness properties `EventuallySettled`, `EventuallyFinal`, `BarredUserLosesLeases`
and `OperationSettles` stay with TLC: fairness and ENABLED are beyond this prover.

## Not modelled

- *Size.* The repository has some 80 000 lines of implementation. The models stand
  for the part that has state others depend on. The larger part is user interface
  (`apps/admin`, `apps/desktop/src`: pages, forms, tables, translations), type
  declarations and DTOs (`packages/shared`), request validation, formatting and error
  texts, single-transaction CRUD (plans, policies, notices, tickets), development
  seed data (`dev-data.service.ts`), and process, file and HTTP plumbing. None of it
  has a behaviour over several steps that a model checker would add something to,
  so a map of 30 % of all lines is out of reach without mapping what is not modelled.
- Components whose status in `PROJECT.json` is `not_modelled`, each with the reason.
- *UsageUpload*: revoking a credential without replacing it; abandoning a foreign
  store; the lock and serialization retries of the ingest (they end as `CallFails`).
- *Metering*: a reset of one direction alone; when quota and offline allowance are
  met (a free choice of the sample); team ledger rows (`TrafficReset` has them).
- *CommandJobs*: ENABLE_USER, REFRESH_QUOTA, RECONCILE_USERS and caller-supplied keys;
  the local cut-off of a row; the legacy inbound deployment; the scan and the
  claim of `retryDueCommands` as separate steps (the claim compares status and
  attempts again); the node's degraded flag; a second credential.
- *Leases*: several users or subscriptions; node access; the SSE notifications.
- *Ownership*: plans, prices, periods; deletion of users and teams.
- *TrafficReset*: how a node loses its agent; several subscriptions.
- *Registration*: file permissions, the legacy import, the content of a database.
- *SessionStore*, *DesktopRuntime*: the key chain's own failures, probing, routing,
  TUN mode, the restart and the updates of the client. Commands sent over IPC are taken to arrive in the
  order they were sent.
- *SystemUpdate*: checking for versions, download and signature, progress stream.
- *Storage*: archived releases, mirrors, the image bed, component files of the former
  upload form, hard links, client notifications. No request runs for a day (`Young`),
  and a commit answered by an error is decided when the rows are asked. That unwanted
  files are removed in the end is checked as the safety property that each has a job.

## Plan

1. A ranking argument for the liveness properties, as far as it is safety: the step
   each fairness condition forces leads closer to the goal and no other step leads
   away from it (`EventuallyFinal`, `OperationSettles`).
2. The safety part of the known departures: which weaker statement the code keeps
   where a formula needs its restriction (a recovery that outlives its log-in,
   `Ownership!OwnerIsMember`, the boundaries of a reactivated binding).
3. `BindingCommands`: ownership of accounts, provisioning intents and ledger,
   with a crash between the steps of an installation.
4. `QuotaGuard`: remaining quota and offline allowance as functions, against a
   reference definition.
5. A composition of `Metering` and `CommandJobs` over the terminal reports.
