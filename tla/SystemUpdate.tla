---------------------------- MODULE SystemUpdate ----------------------------
(***************************************************************************)
(* The self-update of the control plane: the API's operations and their    *)
(* audit rows (system-update.service.ts, work-lifecycle.ts,                *)
(* promotion-admission.ts) and the container's supervisor, which promotes, *)
(* snapshots, migrates, health-gates and rolls back (entrypoint.sh).  They *)
(* speak through marker files on the state volume.                         *)
(*                                                                         *)
(* A release is its version number; the schema is the newest version whose *)
(* migrations are applied.  The progress phases, which decide nothing, are *)
(* left out.  One fault is anything that goes wrong: a killed process, a   *)
(* restarted container, an unhealthy release, a failed snapshot, migration *)
(* or write, a lost lock, a database that does not answer.                 *)
(***************************************************************************)
EXTENDS Integers, FiniteSets, FiniteSetsExt

CONSTANTS MaxVersion,   \* the newest release the manifest offers
          MaxSysOps,    \* operations the administrators start
          MaxSysFaults, \* faults
          KeepReleases, \* CHORDV_SYSTEM_UPDATE_KEEP_RELEASES
          NoMark        \* a model value: no marker, operation or version

ASSUME SysAssumption ==
    /\ {MaxVersion, MaxSysOps, KeepReleases} \subseteq Nat \ {0}
    /\ MaxSysFaults \in Nat /\ NoMark \notin Int

Versions == 1..MaxVersion
SysOps == 1..MaxSysOps
Kinds == {"update", "rollback", "restart"}

(* What pending.json and promoting.json hold, when they are there.          *)
VersionOrNone == Versions \cup {NoMark}
Marks == [version : Versions, op : SysOps, kind : Kinds, mig : BOOLEAN]
Journals == [version : Versions, op : SysOps, kind : Kinds, mig : BOOLEAN,
             from : VersionOrNone, failure : VersionOrNone]

ASSUME NoMarkAssumption == NoMark \notin Marks \cup Journals

VARIABLES
    releases,   \* the release directories
    rows,       \* SystemUpdateOperation rows: kind and status
    pending,    \* pending.json
    promoting,  \* promoting.json
    results,    \* operation-result.<op>.json
    desired,    \* desired-version
    lastGood,   \* last-good-version
    previous,   \* last-good-version.previous
    schema,     \* the migrations that are applied
    snapshots,  \* operations with a snapshot of the database
    snapshotOn, \* CHORDV_SYSTEM_UPDATE_SNAPSHOT, on unless switched off
    sup,        \* where the supervisor is
    gen,        \* the GEN_ variables of the supervisor
    app,        \* the API process
    outcome,    \* history: the last result the supervisor wrote
    staged,     \* history: operations that got past the manifest check
    unclosed,   \* history: operations this process could not close
    sysFaults

markers == <<pending, promoting, results>>
disk == <<releases, desired, lastGood, previous>>
db == <<schema, snapshots, snapshotOn>>
supVars == <<sup, gen>>
history == <<outcome, staged, unclosed>>
sysVars == <<releases, rows, pending, promoting, results, desired, lastGood, previous,
             schema, snapshots, snapshotOn, sup, gen, app, outcome, staged, unclosed, sysFaults>>

NoOutcome == [status |-> "none", version |-> NoMark]
Ordinary(v) == [version |-> v, op |-> NoMark, kind |-> NoMark, promotion |-> FALSE,
                mig |-> FALSE, from |-> NoMark]
NoApp == [pc |-> "gone", version |-> NoMark, approved |-> FALSE, op |-> NoMark,
          kind |-> NoMark, to |-> NoMark, mig |-> FALSE]

SysInit ==
    /\ releases = {1} /\ rows = [o \in SysOps |-> [kind |-> NoMark, status |-> "none"]]
    /\ pending = NoMark /\ promoting = NoMark
    /\ results = [o \in SysOps |-> NoOutcome]
    /\ desired = 1 /\ lastGood = 1 /\ previous = NoMark
    /\ schema = 1 /\ snapshots = {} /\ snapshotOn \in BOOLEAN
    /\ sup = "serving" /\ gen = Ordinary(1)
    /\ app = [NoApp EXCEPT !.pc = "up", !.version = 1, !.approved = TRUE]
    /\ outcome = [o \in SysOps |-> NoOutcome] /\ staged = {} /\ unclosed = {}
    /\ sysFaults = 0

Fault == sysFaults < MaxSysFaults /\ sysFaults' = sysFaults + 1
NoFault == UNCHANGED sysFaults
Settle(o, status) == rows' = [rows EXCEPT ![o].status = status]
NewOp == {o \in SysOps : rows[o].status = "none" /\ \A p \in 1..(o - 1) : rows[p].status # "none"}

-----------------------------------------------------------------------------
(* The API.                                                                *)

(* A result's status as the row takes it over.                             *)
StatusOf(result) == CASE result.status = "success" -> "succeeded"
                      [] result.status = "rolledback" -> "rolled_back"
                      [] OTHER -> "failed"

(* What a boot makes of an operation without a result.                     *)
(* Fault: an interrupted operation is left as it is.                       *)
InterruptedIgnored(o) == "running"

Interrupted(o) ==
    IF promoting # NoMark /\ promoting.op = o THEN "running"
    ELSE IF rows[o].kind = "restart" THEN "succeeded" ELSE "failed"

(* reconcileOperationsOnBoot takes over the results, then closes what is   *)
(* interrupted.  The database may fail for any of the writes: a result     *)
(* then stays for a later poll.                                            *)
Boot ==
    /\ app.pc = "booting" /\ app' = [app EXCEPT !.pc = "up"]
    /\ \E taken, closed \in SUBSET SysOps :
        LET told == {o \in taken : results[o] # NoOutcome}
            cut == {o \in closed \ told : rows[o].status = "running"} IN
        /\ IF taken = SysOps /\ closed = SysOps THEN NoFault ELSE Fault
        /\ rows' = [o \in SysOps |->
               [rows[o] EXCEPT !.status = IF o \in told THEN StatusOf(results[o])
                                          ELSE IF o \in cut THEN Interrupted(o) ELSE @]]
        /\ results' = [o \in SysOps |-> IF o \in told THEN NoOutcome ELSE results[o]]
        /\ unclosed' = {o \in SysOps \ (closed \cup told) : rows[o].status = "running"}
    /\ UNCHANGED <<pending, promoting, disk, db, supVars, outcome, staged>>

(* consumeResultMarker on a poll.                                          *)
ConsumeResult(o) ==
    /\ app.pc # "gone" /\ app.pc # "booting" /\ app.approved /\ results[o] # NoOutcome
    /\ Settle(o, StatusOf(results[o]))
    /\ results' = [results EXCEPT ![o] = NoOutcome]
    /\ UNCHANGED <<pending, promoting, disk, db, supVars, app, history, sysFaults>>

(* startUpdate, startRollback, startRestart: an approved process that is   *)
(* not draining, no promotion under way, no other operation of this        *)
(* process.                                                                *)
(* Fault: a promotion that is not finished does not count.                 *)
PromotionIgnored == TRUE

NoPromotionInFlight == promoting = NoMark

StartOperation(o, kind) ==
    /\ app.pc = "up" /\ app.approved /\ NoPromotionInFlight /\ o \in NewOp
    /\ \E to \in CASE kind = "rollback" -> releases \ {app.version}
                   [] kind = "restart" -> {app.version}
                   [] OTHER -> {v \in Versions : v > app.version} \cup {NoMark} :
        app' = [app EXCEPT !.op = o, !.kind = kind, !.to = to, !.mig = FALSE, !.pc = "working"]
    /\ rows' = [rows EXCEPT ![o] = [kind |-> kind, status |-> "running"]]
    /\ UNCHANGED <<markers, disk, db, supVars, history, sysFaults>>

(* runUpdateInBackground, runRollbackInBackground: nothing newer; the      *)
(* manifest, the download, the row or the lock fails; or the release is    *)
(* staged and the process drains.  The write that closes a failed          *)
(* operation may fail too, and nobody looks at that (finishOperation's     *)
(* catch).  A restart whose row cannot be marked keeps its lock: the       *)
(* process serves on, never exits and starts no other operation.           *)
NothingNewer ==
    /\ app.pc = "working" /\ app.to = NoMark
    /\ Settle(app.op, "succeeded") /\ app' = [app EXCEPT !.pc = "up"]
    /\ UNCHANGED <<markers, disk, db, supVars, history, sysFaults>>

UpdateFails ==
    /\ app.pc = "working" /\ Fault
    /\ \/ Settle(app.op, "failed") /\ app' = [app EXCEPT !.pc = "up"] /\ UNCHANGED unclosed
       \/ /\ unclosed' = unclosed \cup {app.op} /\ UNCHANGED rows
          /\ app' = [app EXCEPT !.pc = "up"]
       \/ /\ app.kind = "restart" /\ unclosed' = unclosed \cup {app.op} /\ UNCHANGED rows
          /\ app' = [app EXCEPT !.pc = "held"]
    /\ \/ UNCHANGED releases
       \/ app.kind = "update" /\ app.to # NoMark /\ releases' = releases \cup {app.to}
    /\ UNCHANGED <<markers, desired, lastGood, previous, db, supVars, outcome, staged>>

StageRelease ==
    /\ app.pc = "working" /\ app.to # NoMark
    /\ IF app.kind = "update"
       THEN /\ releases' = releases \cup {app.to} /\ staged' = staged \cup {app.op}
            /\ app' = [app EXCEPT !.pc = "draining", !.mig = app.to > schema]
       ELSE app' = [app EXCEPT !.pc = "draining"] /\ UNCHANGED <<releases, staged>>
    /\ UNCHANGED <<rows, markers, desired, lastGood, previous, db, supVars, outcome, unclosed, sysFaults>>

(* drainAndExit: the intent is written only after the work is drained, and *)
(* revoked before anything else when the shutdown fails.                   *)
WritePending ==
    /\ app.pc = "draining" /\ app' = [app EXCEPT !.pc = "marked"]
    /\ pending' = [version |-> app.to, op |-> app.op, kind |-> app.kind, mig |-> app.mig]
    /\ UNCHANGED <<rows, promoting, results, disk, db, supVars, history, sysFaults>>

ExitForPromotion ==
    /\ app.pc = "marked" /\ app' = NoApp
    /\ UNCHANGED <<rows, markers, disk, db, supVars, history, sysFaults>>

ShutdownFails ==
    /\ app.pc \in {"draining", "marked"} /\ Fault /\ app' = [app EXCEPT !.pc = "failing"]
    /\ UNCHANGED <<rows, markers, disk, db, supVars, history>>

RevokePending ==
    /\ app.pc = "failing"
    /\ \/ pending' = NoMark /\ NoFault /\ app' = [app EXCEPT !.pc = "revoked"]
       \/ Fault /\ app' = [app EXCEPT !.pc = "fenced"] /\ UNCHANGED pending
    /\ UNCHANGED <<rows, promoting, results, disk, db, supVars, history>>

(* The failure is published unless a result is there already; the process  *)
(* exits, or stays fenced: the drain was cancelled, or nothing published.  *)
AuditFailure ==
    /\ app.pc = "revoked"
    /\ \/ /\ results' = [results EXCEPT ![app.op] =
                            IF @ = NoOutcome THEN [status |-> "failed", version |-> NoMark] ELSE @]
          /\ \/ NoFault /\ app' = NoApp
             \/ Fault /\ app' = [app EXCEPT !.pc = "fenced"]
       \/ Fault /\ app' = [app EXCEPT !.pc = "fenced"] /\ UNCHANGED results
    /\ UNCHANGED <<rows, pending, promoting, disk, db, supVars, history>>

AppKilled ==
    /\ app.pc # "gone" /\ Fault /\ app' = NoApp
    /\ UNCHANGED <<rows, markers, disk, db, supVars, history>>

-----------------------------------------------------------------------------
(* The supervisor.                                                         *)

(* consume_pending writes promoting.json before it removes pending.json.   *)
Journal(m) == [version |-> m.version, op |-> m.op, kind |-> m.kind, mig |-> m.mig,
               from |-> NoMark, failure |-> NoMark]
GenOf(j) == [version |-> j.version, op |-> j.op, kind |-> j.kind, promotion |-> TRUE,
             mig |-> j.mig, from |-> j.from]

(* parse_journal: a resumed journal goes back from another release, in a   *)
(* rollback, or from none; any other stops the supervisor.                 *)
Readable(j) == j.from # NoMark => j.kind = "rollback" /\ j.from # j.version

Handoff ==
    /\ sup = "handoff" /\ sup' = "taken" /\ gen' = GenOf(Journal(pending))
    /\ promoting' = Journal(pending)
    /\ UNCHANGED <<rows, pending, results, disk, db, app, history, sysFaults>>

RemovePending ==
    /\ sup = "taken" /\ sup' = "promote" /\ pending' = NoMark
    /\ UNCHANGED <<rows, promoting, results, disk, db, gen, app, history, sysFaults>>

(* persist_failed_promotion: the decision is journalled, then published,   *)
(* and the journal stays as an interlock.                                  *)
FailureJournal(g, attempted, mig) ==
    [version |-> g.version, op |-> g.op, kind |-> g.kind, mig |-> mig, from |-> g.from,
     failure |-> attempted]
Failing(g, attempted, mig) ==
    /\ sup' = "failed" /\ gen' = g /\ promoting' = FailureJournal(g, attempted, mig)

PublishFailure ==
    /\ sup = "failed" /\ sup' = "down"
    /\ results' = [results EXCEPT ![gen.op] = [status |-> "failed", version |-> promoting.failure]]
    /\ outcome' = [outcome EXCEPT ![gen.op] = [status |-> "failed", version |-> promoting.failure]]
    /\ UNCHANGED <<rows, pending, promoting, disk, db, gen, app, staged, unclosed, sysFaults>>

(* handle_failed_promotion: back to the last good release, or, when that   *)
(* is this one, to the one before it, but never to the one that failed.    *)
LastGood == LET good == IF lastGood = gen.version THEN previous ELSE lastGood IN
            IF good \in {gen.from, gen.version} THEN NoMark ELSE good
Attempted == IF gen.from # NoMark THEN gen.from ELSE gen.version

LandingJournal(mig) ==
    [version |-> LastGood, op |-> gen.op, kind |-> "rollback", mig |-> mig,
     from |-> gen.version, failure |-> NoMark]

HandleFailedPromotion(mig) ==
    \/ /\ ~gen.promotion /\ sup' = "promote" /\ gen' = Ordinary(gen.version)
       /\ UNCHANGED promoting
    \/ /\ gen.promotion /\ gen.kind = "restart" /\ Failing(gen, gen.version, mig)
    \/ /\ gen.promotion /\ gen.kind # "restart" /\ LastGood \notin releases
       /\ Failing(gen, Attempted, mig)
    \/ /\ gen.promotion /\ gen.kind # "restart" /\ LastGood \in releases
       /\ sup' = "landing" /\ gen' = [gen EXCEPT !.mig = mig]
       /\ promoting' = LandingJournal(mig)

(* Its journal cannot be written, or not be synced: the failed release is  *)
(* tried again, and from now on it counts as what is rolled back from.     *)
LandingUnwritten(mig) ==
    /\ gen.promotion /\ gen.kind # "restart" /\ LastGood \in releases /\ Fault
    /\ sup' = "promote" /\ gen' = [gen EXCEPT !.from = gen.version]
    /\ promoting' \in {promoting, LandingJournal(mig)}

(* The journal names the landing: flip to it and discard a downloaded      *)
(* release that failed.                                                    *)
Land ==
    /\ sup = "landing" /\ sup' = "promote"
    /\ desired' = promoting.version
    /\ releases' = IF gen.kind = "update" THEN releases \ {gen.version} ELSE releases
    /\ gen' = GenOf(promoting)
    /\ UNCHANGED <<rows, markers, lastGood, previous, db, app, history, sysFaults>>

(* Start-up: an interrupted promotion is resumed, one that has failed is   *)
(* only published again.                                                   *)
StartVersion == IF desired \in releases THEN desired ELSE lastGood

StartSupervisor ==
    /\ sup = "down" /\ app.pc = "gone" /\ (promoting # NoMark => Readable(promoting))
    /\ \/ /\ promoting # NoMark /\ pending # NoMark
          /\ Journal(pending) = promoting /\ pending' = NoMark
          /\ UNCHANGED <<sup, gen, promoting>>
       \/ /\ promoting # NoMark /\ pending = NoMark /\ promoting.failure # NoMark
          /\ Failing(GenOf(promoting), promoting.failure, promoting.mig) /\ UNCHANGED pending
       \/ /\ promoting # NoMark /\ pending = NoMark /\ promoting.failure = NoMark
          /\ promoting.version \in releases
          /\ sup' = "promote" /\ gen' = GenOf(promoting) /\ UNCHANGED <<pending, promoting>>
       \/ /\ promoting # NoMark /\ pending = NoMark /\ promoting.failure = NoMark
          /\ promoting.version \notin releases /\ UNCHANGED pending
          /\ Failing(GenOf(promoting),
                     IF promoting.from # NoMark THEN promoting.from ELSE promoting.version,
                     promoting.mig)
       \/ /\ promoting = NoMark /\ pending # NoMark /\ sup' = "handoff"
          /\ UNCHANGED <<gen, pending, promoting>>
       \/ /\ promoting = NoMark /\ pending = NoMark
          /\ sup' = "promote" /\ gen' = Ordinary(StartVersion) /\ UNCHANGED <<pending, promoting>>
    /\ UNCHANGED <<rows, results, disk, db, app, history, sysFaults>>

(* atomic_promote and the check of the release, which comes after it.      *)
NeedsSnapshot == gen.promotion /\ gen.kind # "rollback" /\ gen.mig

AtomicPromote ==
    /\ sup = "promote"
    /\ \/ /\ gen.version \in releases /\ desired' = gen.version /\ NoFault
          /\ sup' = IF NeedsSnapshot THEN "snapshot" ELSE "migrate"
          /\ UNCHANGED <<gen, promoting>>
       \/ /\ gen.version \notin releases /\ gen.promotion /\ desired' = gen.version
          /\ (NoFault /\ HandleFailedPromotion(FALSE)) \/ LandingUnwritten(FALSE)
       \/ /\ gen.promotion /\ Fault /\ desired' \in {desired, gen.version}
          /\ HandleFailedPromotion(FALSE) \/ LandingUnwritten(FALSE)
    /\ UNCHANGED <<releases, rows, pending, results, lastGood, previous, db, app, history>>

(* Fault: a snapshot that fails is passed over.                            *)
RunSnapshotOptional ==
    /\ sup = "snapshot" /\ sup' = "migrate"
    /\ \/ snapshots' = snapshots \cup {gen.op} /\ NoFault
       \/ Fault /\ UNCHANGED snapshots
    /\ UNCHANGED <<rows, markers, disk, schema, snapshotOn, gen, app, history>>

(* run_snapshot, which does nothing when snapshots are switched off.       *)
RunSnapshot ==
    /\ sup = "snapshot"
    /\ \/ snapshotOn /\ snapshots' = snapshots \cup {gen.op} /\ sup' = "migrate" /\ NoFault
          /\ UNCHANGED <<gen, promoting>>
       \/ ~snapshotOn /\ sup' = "migrate" /\ NoFault /\ UNCHANGED <<gen, promoting, snapshots>>
       \/ /\ snapshotOn /\ Fault /\ UNCHANGED snapshots
          /\ HandleFailedPromotion(FALSE) \/ LandingUnwritten(FALSE)
    /\ UNCHANGED <<rows, pending, results, disk, schema, snapshotOn, app, history>>

(* run_migrate, skipped for a rollback, then the launch.  A migration that *)
(* fails may have changed the schema.                                      *)
RunMigrate ==
    LET applied == IF gen.kind = "rollback" \/ gen.version <= schema THEN schema ELSE gen.version IN
    /\ sup = "migrate"
    /\ \/ /\ schema' = applied /\ sup' = "gate" /\ NoFault
          /\ app' = [NoApp EXCEPT !.pc = "booting", !.version = gen.version]
          /\ UNCHANGED <<gen, promoting>>
       \/ /\ gen.kind # "rollback" /\ Fault /\ schema' \in {schema, applied}
          /\ HandleFailedPromotion(TRUE) \/ LandingUnwritten(TRUE)
          /\ UNCHANGED app
    /\ UNCHANGED <<rows, pending, results, disk, snapshots, snapshotOn, history>>

(* wait_healthy and confirm_stable: a release whose migrations are missing *)
(* is never ready.                                                         *)
BecomeStable ==
    /\ sup = "gate" /\ app.pc = "up" /\ schema >= gen.version /\ sup' = "stable"
    /\ UNCHANGED <<rows, markers, disk, db, gen, app, history, sysFaults>>

(* stop_failed_candidate: one that does not stop in time is killed, after  *)
(* the failure is journalled.                                              *)
StopFailedCandidate ==
    /\ sup = "gate" /\ app' = NoApp
    /\ \/ /\ IF app.pc = "gone" \/ schema < gen.version THEN NoFault ELSE Fault
          /\ \/ HandleFailedPromotion(gen.mig)
             \/ /\ gen.promotion /\ app.pc # "gone" /\ sup' = "killed" /\ UNCHANGED gen
                /\ promoting' = FailureJournal(gen, Attempted, gen.mig)
       \/ LandingUnwritten(gen.mig)
    /\ UNCHANGED <<rows, pending, results, disk, db, history>>

AfterKill ==
    /\ sup = "killed"
    /\ (NoFault /\ HandleFailedPromotion(gen.mig)) \/ LandingUnwritten(gen.mig)
    /\ UNCHANGED <<rows, pending, results, disk, db, app, history>>

(* Finalisation, while the process lives: the predecessor, the last good   *)
(* release, the result, the approval and the pruning, and only then the    *)
(* end of the promotion.                                                   *)
Alive == app.pc # "gone"

SavePrevious ==
    /\ sup = "stable" /\ Alive /\ sup' = "previous"
    /\ previous' = IF lastGood # gen.version THEN lastGood ELSE previous
    /\ UNCHANGED <<releases, rows, markers, desired, lastGood, db, gen, app, history, sysFaults>>

(* Fault: a last good release that cannot be recorded is passed over.      *)
WriteLastGoodSkipped ==
    /\ sup = "previous" /\ Alive /\ sup' = "good"
    /\ UNCHANGED <<disk, rows, markers, db, gen, app, history, sysFaults>>

WriteLastGood ==
    /\ sup = "previous" /\ Alive /\ sup' = "good" /\ lastGood' = gen.version
    /\ UNCHANGED <<releases, rows, markers, desired, previous, db, gen, app, history, sysFaults>>

WriteResult ==
    LET result == [status |-> IF gen.from # NoMark THEN "rolledback" ELSE "success",
                   version |-> gen.version] IN
    /\ sup = "good" /\ Alive /\ sup' = "published"
    /\ IF gen.op = NoMark THEN UNCHANGED <<results, outcome>>
       ELSE /\ results' = [results EXCEPT ![gen.op] = result]
            /\ outcome' = [outcome EXCEPT ![gen.op] = result]
    /\ UNCHANGED <<rows, pending, promoting, disk, db, gen, app, staged, unclosed, sysFaults>>

(* prune_releases keeps the current and the previous release and the       *)
(* newest of the others.                                                   *)
Pruned ==
    LET protected == {gen.version, previous} \cap releases
        others == releases \ protected
        room == IF KeepReleases > Cardinality(protected)
                THEN KeepReleases - Cardinality(protected) ELSE 0 IN
    protected \cup {v \in others : Cardinality({w \in others : w > v}) < room}

Approve ==
    /\ sup = "published" /\ Alive /\ sup' = "approved" /\ app' = [app EXCEPT !.approved = TRUE]
    /\ releases' = IF gen.kind = "update" /\ gen.from = NoMark THEN Pruned ELSE releases
    /\ UNCHANGED <<rows, markers, desired, lastGood, previous, db, gen, history, sysFaults>>

ClearPromoting ==
    /\ sup = "approved" /\ Alive /\ sup' = "serving" /\ promoting' = NoMark
    /\ gen' = Ordinary(gen.version)
    /\ UNCHANGED <<rows, pending, results, disk, db, app, history, sysFaults>>

(* The process is gone: before the end of the promotion it is gated again, *)
(* afterwards a pending operation is taken up or the release restarted.    *)
AppExited ==
    /\ app.pc = "gone" /\ sup \in {"stable", "previous", "good", "published", "approved", "serving"}
    /\ sup' = IF sup = "serving" /\ pending # NoMark THEN "handoff" ELSE "promote"
    /\ UNCHANGED <<rows, markers, disk, db, gen, app, history, sysFaults>>

(* The container goes down, the API with it.                               *)
SupervisorKilled ==
    /\ sup # "down" /\ Fault /\ sup' = "down" /\ app' = NoApp
    /\ UNCHANGED <<rows, markers, disk, db, gen, history>>

-----------------------------------------------------------------------------
AppNext ==
    \/ Boot \/ NothingNewer \/ UpdateFails \/ StageRelease \/ WritePending
    \/ ExitForPromotion \/ ShutdownFails \/ RevokePending \/ AuditFailure \/ AppKilled
    \/ \E o \in SysOps : ConsumeResult(o) \/ \E kind \in Kinds : StartOperation(o, kind)

SupNext ==
    \/ Handoff \/ RemovePending \/ PublishFailure \/ Land \/ StartSupervisor \/ AtomicPromote
    \/ RunSnapshot \/ RunMigrate \/ BecomeStable \/ StopFailedCandidate \/ AfterKill
    \/ SavePrevious \/ WriteLastGood \/ WriteResult \/ Approve \/ ClearPromoting \/ AppExited
    \/ SupervisorKilled

SysNext == AppNext \/ SupNext
SysSpec == SysInit /\ [][SysNext]_sysVars

(* The supervisor loop goes on, the process goes on with what it started,  *)
(* and the console polls an operation until it is settled.                 *)
AppProgress ==
    \/ Boot \/ NothingNewer \/ StageRelease \/ WritePending \/ ExitForPromotion
    \/ RevokePending \/ AuditFailure \/ \E o \in SysOps : ConsumeResult(o)
SysFairness == WF_sysVars(SupNext) /\ WF_sysVars(AppProgress)

-----------------------------------------------------------------------------
(* The values the state may have.                                          *)
SysTypeOK ==
    /\ releases \subseteq Versions /\ schema \in Versions /\ lastGood \in Versions
    /\ desired \in Versions /\ previous \in Versions \cup {NoMark}
    /\ \A o \in SysOps : rows[o].status \in {"none", "running", "succeeded", "failed", "rolled_back"}
    /\ pending = NoMark \/ pending.op \in SysOps
    /\ promoting = NoMark \/ promoting.op \in SysOps
    /\ app.pc \in {"gone", "booting", "up", "working", "draining", "marked", "failing",
                   "revoked", "fenced", "held"}
    /\ gen.version \in Versions

(* With snapshots switched on, the schema of a database that has been set  *)
(* up (by the first start, before Init) changes only in a promotion that   *)
(* has its own snapshot, also after a restart in the middle of one         *)
(* (run_snapshot, run_migrate).                                            *)
SnapshotFirst == [][schema' # schema /\ snapshotOn => gen.op \in snapshots]_sysVars

(* Once a promotion is over, what it reported is what runs: the newest     *)
(* operation reported as successful or rolled back names the last good and *)
(* the desired release (the finalisation in entrypoint.sh).                *)
ReportedIsRunning ==
    LET reported == {o \in SysOps : outcome[o].status \in {"success", "rolledback"}} IN
    promoting = NoMark /\ reported # {} =>
        LET o == Max(reported) IN lastGood = outcome[o].version /\ desired = outcome[o].version

(* A failure the supervisor has reported is final: its journal keeps every *)
(* release from being launched until an operator steps in                  *)
(* (persist_failed_promotion).                                             *)
FailureIsFinal ==
    \A o \in SysOps : outcome[o].status = "failed" =>
        /\ promoting # NoMark /\ promoting.op = o /\ promoting.failure # NoMark
        /\ app.pc = "gone"

(* An update is not on record as succeeded before the supervisor has seen  *)
(* it through health check and stabilisation (reconcileOperationsOnBoot).  *)
NoPrematureSuccess ==
    \A o \in staged : rows[o].status = "succeeded" => outcome[o] # NoOutcome

(* A process that has lost the write closing an operation leaves it open   *)
(* for as long as it runs, which may be for ever: finishOperation is not   *)
(* tried again, and a restart that could not be marked never exits.        *)
LostToThisProcess(o) == o \in unclosed /\ app.pc \notin {"gone", "booting"}

(* Every operation is settled on record in the end, by its own process, a  *)
(* poll or the next boot (reconcileOperationsOnBoot), unless it waits for  *)
(* the operator, behind the interlock of a failed promotion or a fenced    *)
(* shutdown, or its closing write was lost to the process still running.   *)
(* Once that process is gone, the next boot owes it again.                 *)
OperationSettles ==
    \A o \in SysOps : rows[o].status = "running" ~>
        \/ rows[o].status # "running" \/ app.pc = "fenced" \/ LostToThisProcess(o)
        \/ promoting # NoMark /\ promoting.failure # NoMark

(* The two journals never disagree: a pending operation beside a promotion *)
(* is the one being handed over (consume_pending, assertNoPromotionInFlight). *)
JournalsAgree ==
    pending # NoMark /\ promoting # NoMark => Journal(pending) = promoting

(* The records of an update are in order: types, a reported failure is     *)
(* final, no success before the supervisor's, and journals that agree.     *)
UpdateInvariant == SysTypeOK /\ FailureIsFinal /\ NoPrematureSuccess /\ JournalsAgree
=============================================================================
