-------------------------- MODULE SystemUpdateProofs -------------------------
(***************************************************************************)
(* Proofs about the self-update of the control plane (SystemUpdate), for   *)
(* any number of releases, operations and faults.                          *)
(***************************************************************************)
EXTENDS SystemUpdate, TLAPS

Gens == [version : Versions, op : SysOps \cup {NoMark}, kind : Kinds \cup {NoMark},
         promotion : BOOLEAN, mig : BOOLEAN, from : VersionOrNone]
Outcomes == [status : {"none", "success", "rolledback", "failed"}, version : VersionOrNone]
Rows == [kind : Kinds \cup {NoMark},
         status : {"none", "running", "succeeded", "failed", "rolled_back"}]
Busy == {"working", "draining", "marked", "failing", "revoked", "fenced"}
Apps == [pc : {"gone", "booting", "up", "held"} \cup Busy, version : VersionOrNone, approved : BOOLEAN,
         op : SysOps \cup {NoMark}, kind : Kinds \cup {NoMark}, to : VersionOrNone, mig : BOOLEAN]

(* The supervisor drives a generation, and in the later part of that it    *)
(* watches the process.                                                    *)
Watching == {"gate", "stable", "previous", "good", "published", "approved", "serving"}
Active == {"taken", "promote", "snapshot", "migrate", "gate", "stable", "previous", "good",
           "published", "approved"}
SupStates == Active \cup {"down", "handoff", "landing", "failed", "killed", "serving"}

SysTyped ==
    /\ releases \subseteq Versions /\ schema \in Versions /\ lastGood \in Versions
    /\ desired \in Versions /\ previous \in VersionOrNone
    /\ rows \in [SysOps -> Rows] /\ pending \in Marks \cup {NoMark}
    /\ promoting \in Journals \cup {NoMark}
    /\ results \in [SysOps -> Outcomes] /\ outcome \in [SysOps -> Outcomes]
    /\ app \in Apps /\ gen \in Gens /\ sup \in SupStates /\ staged \subseteq SysOps

(* A process is only there while the supervisor watches it, an operation   *)
(* only runs in an approved process without a promotion, and both journals *)
(* are only there during the handover.                                     *)
Together ==
    /\ app.pc = "gone" => app = NoApp
    /\ app.pc # "gone" => sup \in Watching /\ app.version = gen.version
    /\ app.approved => sup \in {"approved", "serving"}
    /\ app.pc \in Busy => /\ app.approved /\ promoting = NoMark /\ app.op \in SysOps /\ app.kind \in Kinds
                          /\ app.pc # "working" => app.to # NoMark
    /\ pending # NoMark /\ promoting # NoMark =>
         Journal(pending) = promoting /\ sup \in {"taken", "down"}
    /\ sup = "handoff" => pending # NoMark /\ promoting = NoMark

(* The generation the supervisor drives is the journal's, or one whose     *)
(* landing could not be journalled and which it tries again (Retried), or  *)
(* the last good release when there is no promotion.  Unless it is tried   *)
(* again, a failure on record keeps it from driving any.                   *)
Retried == gen.promotion /\ gen.from = gen.version /\ gen.kind # "restart"
Driven ==
    /\ sup \in Active /\ gen.promotion =>
         /\ promoting # NoMark /\ promoting.op = gen.op /\ gen.kind \in Kinds
         /\ Retried \/ (gen = GenOf(promoting) /\ promoting.failure = NoMark)
    /\ sup \in Active \cup {"serving"} /\ ~gen.promotion =>
         promoting = NoMark /\ gen = Ordinary(gen.version) /\ gen.version = lastGood
    /\ sup = "serving" => ~gen.promotion
    /\ sup = "taken" => gen.promotion
    /\ sup = "landing" => /\ gen.promotion /\ promoting # NoMark /\ promoting.op = gen.op
                          /\ promoting.failure = NoMark /\ promoting.kind = "rollback"
    /\ sup \in {"killed", "failed"} =>
         /\ gen.promotion /\ promoting # NoMark /\ promoting.failure # NoMark
         /\ promoting.op = gen.op /\ promoting.kind = gen.kind
    /\ promoting # NoMark /\ promoting.failure # NoMark =>
         sup \in {"failed", "killed", "down"} \/ (sup \in Active /\ Retried)

(* The version files follow the generation as it gets on. *)
Landed ==
    /\ promoting = NoMark => desired = lastGood
    /\ sup \in {"snapshot", "migrate"} \cup Watching => desired = gen.version
    /\ sup \in {"good", "published", "approved", "serving"} => lastGood = gen.version

(* What runs or has run has its migrations; who promises to need none has  *)
(* them too; and who needs some has its snapshot before they are applied.  *)
Migrated ==
    /\ lastGood <= schema
    /\ sup \in Watching \ {"gate"} => gen.version <= schema
    /\ app.pc \in Busy \ {"working"} /\ app.kind # "rollback" /\ ~app.mig => app.to <= schema
    /\ app.pc = "working" => ~app.mig /\ (app.kind = "restart" => app.to = app.version)
    /\ pending # NoMark /\ pending.kind # "rollback" /\ ~pending.mig => pending.version <= schema
    /\ promoting # NoMark /\ promoting.failure = NoMark /\ promoting.kind # "rollback" /\ ~promoting.mig
         => promoting.version <= schema
    /\ sup \in Active \cup {"killed"} /\ gen.promotion /\ gen.kind # "rollback" /\ ~gen.mig
         => gen.version <= schema
    /\ sup = "migrate" /\ NeedsSnapshot /\ snapshotOn => gen.op \in snapshots

(* Operations are numbered as they start, and one that is still to be      *)
(* reported is newer than every one that has been.                         *)
Told(o) == outcome[o] # NoOutcome
Numbered ==
    /\ \A o, p \in SysOps : p < o /\ rows[o].status # "none" => rows[p].status # "none"
    /\ \A o \in SysOps : Told(o) \/ results[o] # NoOutcome \/ o \in staged => rows[o].status # "none"
    /\ app.pc \in Busy => rows[app.op].status # "none" /\ \A o \in SysOps : Told(o) => o < app.op
    /\ pending # NoMark => rows[pending.op].status # "none" /\ \A o \in SysOps : Told(o) => o < pending.op
    /\ promoting # NoMark =>
         rows[promoting.op].status # "none" /\ \A o \in SysOps : Told(o) => o <= promoting.op

(* The newest report names the last good release, unless a promotion is on *)
(* its way; a reported failure has its journal.                            *)
Reported == {o \in SysOps : outcome[o].status \in {"success", "rolledback"}}
ReportedRuns ==
    /\ promoting = NoMark /\ Reported # {} =>
         \E o \in Reported : outcome[o].version = lastGood /\ \A p \in Reported : p <= o
    /\ sup \in {"published", "approved"} /\ gen.promotion =>
         gen.op \in Reported /\ outcome[gen.op].version = gen.version
    /\ \A o \in SysOps : outcome[o].status = "failed" =>
         promoting # NoMark /\ promoting.op = o /\ promoting.failure # NoMark /\ sup \in {"failed", "down"}

(* The audit rows: a success on its way is the supervisor's, and a staged  *)
(* update's success is one it has reported.                                *)
Recorded ==
    /\ \A o \in SysOps : results[o].status = "success" => Told(o)
    /\ \A o \in staged : rows[o].kind = "update" /\ (rows[o].status = "succeeded" => Told(o))
    /\ app.pc = "working" => /\ rows[app.op] = [kind |-> app.kind, status |-> "running"]
                             /\ results[app.op] = NoOutcome /\ app.op \notin staged

SysInv == SysTyped /\ Together /\ Driven /\ Landed /\ Migrated /\ Numbered /\ ReportedRuns /\ Recorded

(* The records the steps put into the state are of their types. *)
LEMMA RecordsTyped ==
  /\ NoApp \in Apps /\ NoOutcome \in Outcomes /\ [status |-> "failed", version |-> NoMark] \in Outcomes
  /\ \A v \in Versions : Ordinary(v) \in Gens
  /\ \A m \in Marks : Journal(m) \in Journals
  /\ \A j \in Journals : GenOf(j) \in Gens
  BY DEF NoApp, Apps, Busy, NoOutcome, Outcomes, Ordinary, Gens, Journal, Marks, Journals, GenOf, VersionOrNone, Kinds

(* A status of its row is a status. *)
LEMMA StatusTyped ==
  ASSUME NEW o \in SysOps, NEW s \in {"none", "running", "succeeded", "failed", "rolled_back"},
         rows \in [SysOps -> Rows]
  PROVE  [rows EXCEPT ![o].status = s] \in [SysOps -> Rows]
  BY DEF Rows

(* runUpdateInBackground: nothing newer is offered. *)
LEMMA NothingNewerKeeps ==
  ASSUME SysInv, NothingNewer
  PROVE  SysInv'
  <1> USE SysAssumption, NoMarkAssumption DEF SysInv, Retried, NothingNewer, Settle, NoFault, Fault, disk, db, supVars,
     markers, history, Alive, Busy, Active, Watching, SupStates, NoApp, Journal, GenOf, Ordinary
  <1>1. SysTyped'
    <2>1. app.op \in SysOps /\ app' \in Apps
      BY RecordsTyped DEF SysTyped, Together, Apps
    <2>2. rows' \in [SysOps -> Rows]
      BY <2>1, StatusTyped DEF SysTyped
    <2> QED
      BY <2>1, <2>2 DEF SysTyped
  <1>2. Together'
    BY DEF SysTyped, Marks, Journals, Apps, Gens, Together, Driven
  <1>3. Driven'
    BY DEF SysTyped, Together, Driven, Landed
  <1>4. Landed'
    BY DEF SysTyped, Together, Driven, Landed
  <1>5. Migrated'
    BY DEF SysTyped, Together, Driven, Landed, Migrated, NeedsSnapshot, Versions
  <1>6. Numbered'
    BY DEF SysTyped, Together, Driven, Numbered, Told, SysOps
  <1>7. ReportedRuns'
    BY DEF SysTyped, Together, Driven, Landed, Numbered, ReportedRuns, Reported, Told
  <1>8. Recorded'
    BY DEF SysTyped, Together, Recorded, Numbered, Told
  <1> QED
    BY <1>1, <1>2, <1>3, <1>4, <1>5, <1>6, <1>7, <1>8

(* runUpdateInBackground: the update fails before the handover. *)
LEMMA UpdateFailsKeeps ==
  ASSUME SysInv, UpdateFails
  PROVE  SysInv'
  <1> USE SysAssumption, NoMarkAssumption DEF SysInv, Retried, Busy, Active, Watching, SupStates, NoApp, Journal, GenOf,
     Ordinary
  <1>0. /\ app.pc = "working" /\ app.op \in SysOps /\ app \in Apps
        /\ UNCHANGED <<pending, promoting, results, desired, lastGood, previous, schema, snapshots, snapshotOn, sup, gen,
                       outcome, staged>>
        /\ rows' = rows \/ rows' = [rows EXCEPT ![app.op].status = "failed"]
    BY DEF SysTyped, Together, UpdateFails, Settle, markers, db, supVars
  <1>a. releases' \subseteq Versions
    BY <1>0 DEF UpdateFails, SysTyped, Apps, VersionOrNone
  <1>b. app' \in Apps /\ app'.pc \in {"up", "held"} /\ app'.version = app.version /\ app'.approved = app.approved
    BY <1>0 DEF UpdateFails, Apps
  <1>c. /\ rows' \in [SysOps -> Rows]
        /\ \A o \in SysOps : /\ rows'[o].kind = rows[o].kind
                             /\ rows'[o].status = "none" <=> rows[o].status = "none"
                             /\ rows'[o].status = "succeeded" => rows[o].status = "succeeded"
    <2>1. CASE rows' = rows
      BY <2>1 DEF SysTyped
    <2>2. CASE rows' = [rows EXCEPT ![app.op].status = "failed"]
      <3>1. rows' \in [SysOps -> Rows]
        BY <1>0, <2>2, StatusTyped DEF SysTyped
      <3>2. rows[app.op].status = "running"
        BY <1>0 DEF Recorded
      <3> QED
        BY <1>0, <2>2, <3>1, <3>2 DEF SysTyped, Rows
    <2> QED
      BY <1>0, <2>1, <2>2
  <1>1. SysTyped'
    BY <1>0, <1>a, <1>b, <1>c DEF SysTyped
  <1>2. Together'
    BY <1>0, <1>b DEF Together
  <1>3. Driven' /\ Landed' /\ ReportedRuns'
    BY <1>0 DEF Driven, Landed, ReportedRuns, Reported
  <1>4. Migrated'
    BY <1>0, <1>b DEF Migrated, NeedsSnapshot
  <1>5. Numbered'
    BY <1>0, <1>b, <1>c DEF Numbered, Told, SysTyped, Marks, Journals
  <1>6. Recorded'
    BY <1>0, <1>b, <1>c DEF Recorded, Told, SysTyped
  <1> QED
    BY <1>1, <1>2, <1>3, <1>4, <1>5, <1>6

(* drainAndExit writes the intent. *)
LEMMA WritePendingKeeps ==
  ASSUME SysInv, WritePending
  PROVE  SysInv'
  <1> USE SysAssumption, NoMarkAssumption DEF SysInv, Retried, WritePending, Settle, NoFault, Fault, disk, db, supVars,
     markers, history, Alive, Busy, Active, Watching, SupStates, NoApp, Journal, GenOf, Ordinary
  <1>1. SysTyped'
    <2>1. app' \in Apps /\ sup' \in SupStates
      BY RecordsTyped DEF SysTyped, Apps, VersionOrNone
    <2>2. pending' \in Marks \cup {NoMark} /\ promoting' \in Journals \cup {NoMark} /\ gen' \in Gens
      BY RecordsTyped DEF SysTyped, Marks, Apps, VersionOrNone, Together, Gens
    <2> QED
      BY <2>1, <2>2 DEF SysTyped, Gens, VersionOrNone, Pruned
  <1>2. Together'
    BY DEF SysTyped, Marks, Journals, Apps, Gens, Together, Driven
  <1>3. Driven'
    BY DEF SysTyped, Together, Driven, Landed
  <1>4. Landed'
    BY DEF SysTyped, Together, Driven, Landed
  <1>5. Migrated'
    BY DEF SysTyped, Together, Driven, Landed, Migrated, NeedsSnapshot, Versions
  <1>6. Numbered'
    BY DEF SysTyped, Together, Driven, Numbered, Told, SysOps
  <1>7. ReportedRuns'
    BY DEF SysTyped, Together, Driven, Landed, Numbered, ReportedRuns, Reported, Told
  <1>8. Recorded'
    BY DEF SysTyped, Together, Recorded, Numbered, Told
  <1> QED
    BY <1>1, <1>2, <1>3, <1>4, <1>5, <1>6, <1>7, <1>8

(* drainAndExit: the process exits. *)
LEMMA ExitKeeps ==
  ASSUME SysInv, ExitForPromotion
  PROVE  SysInv'
  <1> USE SysAssumption, NoMarkAssumption DEF SysInv, Retried, ExitForPromotion, Settle, NoFault, Fault, disk, db, supVars,
     markers, history, Alive, Busy, Active, Watching, SupStates, NoApp, Journal, GenOf, Ordinary
  <1>1. SysTyped'
    <2>1. app' \in Apps /\ sup' \in SupStates
      BY RecordsTyped DEF SysTyped, Apps, VersionOrNone
    <2>2. pending' \in Marks \cup {NoMark} /\ promoting' \in Journals \cup {NoMark} /\ gen' \in Gens
      BY RecordsTyped DEF SysTyped, Marks, Apps, VersionOrNone, Together, Gens
    <2> QED
      BY <2>1, <2>2 DEF SysTyped, Gens, VersionOrNone, Pruned
  <1>2. Together'
    BY DEF SysTyped, Marks, Journals, Apps, Gens, Together, Driven
  <1>3. Driven'
    BY DEF SysTyped, Together, Driven, Landed
  <1>4. Landed'
    BY DEF SysTyped, Together, Driven, Landed
  <1>5. Migrated'
    BY DEF SysTyped, Together, Driven, Landed, Migrated, NeedsSnapshot, Versions
  <1>6. Numbered'
    BY DEF SysTyped, Together, Driven, Numbered, Told, SysOps
  <1>7. ReportedRuns'
    BY DEF SysTyped, Together, Driven, Landed, Numbered, ReportedRuns, Reported, Told
  <1>8. Recorded'
    BY DEF SysTyped, Together, Recorded, Numbered, Told
  <1> QED
    BY <1>1, <1>2, <1>3, <1>4, <1>5, <1>6, <1>7, <1>8

(* drainAndExit: the shutdown fails. *)
LEMMA ShutdownFailsKeeps ==
  ASSUME SysInv, ShutdownFails
  PROVE  SysInv'
  <1> USE SysAssumption, NoMarkAssumption DEF SysInv, Retried, ShutdownFails, Settle, NoFault, Fault, disk, db, supVars,
     markers, history, Alive, Busy, Active, Watching, SupStates, NoApp, Journal, GenOf, Ordinary
  <1>1. SysTyped'
    <2>1. app' \in Apps /\ sup' \in SupStates
      BY RecordsTyped DEF SysTyped, Apps, VersionOrNone
    <2>2. pending' \in Marks \cup {NoMark} /\ promoting' \in Journals \cup {NoMark} /\ gen' \in Gens
      BY RecordsTyped DEF SysTyped, Marks, Apps, VersionOrNone, Together, Gens
    <2> QED
      BY <2>1, <2>2 DEF SysTyped, Gens, VersionOrNone, Pruned
  <1>2. Together'
    BY DEF SysTyped, Marks, Journals, Apps, Gens, Together, Driven
  <1>3. Driven'
    BY DEF SysTyped, Together, Driven, Landed
  <1>4. Landed'
    BY DEF SysTyped, Together, Driven, Landed
  <1>5. Migrated'
    BY DEF SysTyped, Together, Driven, Landed, Migrated, NeedsSnapshot, Versions
  <1>6. Numbered'
    BY DEF SysTyped, Together, Driven, Numbered, Told, SysOps
  <1>7. ReportedRuns'
    BY DEF SysTyped, Together, Driven, Landed, Numbered, ReportedRuns, Reported, Told
  <1>8. Recorded'
    BY DEF SysTyped, Together, Recorded, Numbered, Told
  <1> QED
    BY <1>1, <1>2, <1>3, <1>4, <1>5, <1>6, <1>7, <1>8

(* A process or the container dies; the supervisor sees its process gone. *)
LEMMA GoneKeeps ==
  ASSUME SysInv, AppKilled \/ SupervisorKilled \/ AppExited
  PROVE  SysInv'
  <1> USE SysAssumption, NoMarkAssumption DEF SysInv, Retried, AppKilled, SupervisorKilled, AppExited, Settle, NoFault, Fault,
     disk, db, supVars, markers, history, Alive, Busy, Active, Watching, SupStates, NoApp, Journal, GenOf, Ordinary
  <1>1. SysTyped'
    <2>1. app' \in Apps /\ sup' \in SupStates
      BY RecordsTyped DEF SysTyped, Apps, VersionOrNone
    <2>2. pending' \in Marks \cup {NoMark} /\ promoting' \in Journals \cup {NoMark} /\ gen' \in Gens
      BY RecordsTyped DEF SysTyped, Marks, Apps, VersionOrNone, Together, Gens
    <2> QED
      BY <2>1, <2>2 DEF SysTyped, Gens, VersionOrNone, Pruned
  <1>2. Together'
    BY DEF SysTyped, Marks, Journals, Apps, Gens, Together, Driven
  <1>3. Driven'
    BY DEF SysTyped, Together, Driven, Landed
  <1>4. Landed'
    BY DEF SysTyped, Together, Driven, Landed
  <1>5. Migrated'
    BY DEF SysTyped, Together, Driven, Landed, Migrated, NeedsSnapshot, Versions
  <1>6. Numbered'
    BY DEF SysTyped, Together, Driven, Numbered, Told, SysOps
  <1>7. ReportedRuns'
    BY DEF SysTyped, Together, Driven, Landed, Numbered, ReportedRuns, Reported, Told
  <1>8. Recorded'
    BY DEF SysTyped, Together, Recorded, Numbered, Told
  <1> QED
    BY <1>1, <1>2, <1>3, <1>4, <1>5, <1>6, <1>7, <1>8

(* The gate is passed and the version files are written (entrypoint.sh). *)
LEMMA FinalKeeps ==
  ASSUME SysInv, BecomeStable \/ SavePrevious \/ WriteLastGood
  PROVE  SysInv'
  <1> USE SysAssumption, NoMarkAssumption DEF SysInv, Retried, BecomeStable, SavePrevious, WriteLastGood, Settle, NoFault,
     Fault, disk, db, supVars, markers, history, Alive, Busy, Active, Watching, SupStates, NoApp, Journal, GenOf,
     Ordinary
  <1>1. SysTyped'
    <2>1. app' \in Apps /\ sup' \in SupStates
      BY RecordsTyped DEF SysTyped, Apps, VersionOrNone
    <2>2. pending' \in Marks \cup {NoMark} /\ promoting' \in Journals \cup {NoMark} /\ gen' \in Gens
      BY RecordsTyped DEF SysTyped, Marks, Apps, VersionOrNone, Together, Gens
    <2> QED
      BY <2>1, <2>2 DEF SysTyped, Gens, VersionOrNone, Pruned
  <1>2. Together'
    BY DEF SysTyped, Marks, Journals, Apps, Gens, Together, Driven
  <1>3. Driven'
    BY DEF SysTyped, Together, Driven, Landed
  <1>4. Landed'
    BY DEF SysTyped, Together, Driven, Landed
  <1>5. Migrated'
    BY DEF SysTyped, Together, Driven, Landed, Migrated, NeedsSnapshot, Versions
  <1>6. Numbered'
    BY DEF SysTyped, Together, Driven, Numbered, Told, SysOps
  <1>7. ReportedRuns'
    BY DEF SysTyped, Together, Driven, Landed, Numbered, ReportedRuns, Reported, Told
  <1>8. Recorded'
    BY DEF SysTyped, Together, Recorded, Numbered, Told
  <1> QED
    BY <1>1, <1>2, <1>3, <1>4, <1>5, <1>6, <1>7, <1>8

(* consume_pending journals the promotion. *)
LEMMA HandoffKeeps ==
  ASSUME SysInv, Handoff
  PROVE  SysInv'
  <1> USE SysAssumption, NoMarkAssumption DEF SysInv, Retried, Handoff, Settle, NoFault, Fault, disk, db, supVars, markers,
     history, Alive, Busy, Active, Watching, SupStates, NoApp, Journal, GenOf, Ordinary
  <1>0. pending # NoMark /\ pending \in Marks /\ promoting = NoMark /\ app = NoApp
    BY DEF SysTyped, Together
  <1>1. SysTyped'
    <2>1. app' \in Apps /\ sup' \in SupStates
      BY RecordsTyped DEF SysTyped, Apps, VersionOrNone
    <2>2. pending' \in Marks \cup {NoMark} /\ promoting' \in Journals \cup {NoMark} /\ gen' \in Gens
      BY RecordsTyped DEF SysTyped, Marks, Apps, VersionOrNone, Together, Gens
    <2> QED
      BY <2>1, <2>2 DEF SysTyped, Gens, VersionOrNone, Pruned
  <1>2. Together'
    BY DEF SysTyped, Marks, Journals, Apps, Gens, Together, Driven
  <1>3. Driven'
    <2>1. gen' = GenOf(promoting') /\ gen'.promotion /\ promoting'.failure = NoMark /\ promoting' # NoMark
      BY <1>0, RecordsTyped DEF Journals
    <2>2. promoting'.op = gen'.op /\ gen'.kind \in Kinds
      BY <1>0 DEF Marks
    <2> QED
      BY <2>1, <2>2 DEF Driven
  <1>4. Landed'
    BY DEF SysTyped, Together, Driven, Landed
  <1>5. Migrated'
    BY DEF SysTyped, Together, Driven, Landed, Migrated, NeedsSnapshot, Versions
  <1>6. Numbered'
    <2>1. promoting'.op = pending.op
      OBVIOUS
    <2>2. \A o \in SysOps : o \in Int
      BY DEF SysOps
    <2>3. pending.op \in SysOps
      BY <1>0 DEF Marks
    <2> QED
      BY <1>0, <2>1, <2>2, <2>3 DEF Numbered, Told
  <1>7. ReportedRuns'
    BY DEF SysTyped, Together, Driven, Landed, Numbered, ReportedRuns, Reported, Told
  <1>8. Recorded'
    BY DEF SysTyped, Together, Recorded, Numbered, Told
  <1> QED
    BY <1>1, <1>2, <1>3, <1>4, <1>5, <1>6, <1>7, <1>8

(* consume_pending removes the intent. *)
LEMMA RemovePendingKeeps ==
  ASSUME SysInv, RemovePending
  PROVE  SysInv'
  <1> USE SysAssumption, NoMarkAssumption DEF SysInv, Retried, RemovePending, Settle, NoFault, Fault, disk, db, supVars,
     markers, history, Alive, Busy, Active, Watching, SupStates, NoApp, Journal, GenOf, Ordinary
  <1>1. SysTyped'
    <2>1. app' \in Apps /\ sup' \in SupStates
      BY RecordsTyped DEF SysTyped, Apps, VersionOrNone
    <2>2. pending' \in Marks \cup {NoMark} /\ promoting' \in Journals \cup {NoMark} /\ gen' \in Gens
      BY RecordsTyped DEF SysTyped, Marks, Apps, VersionOrNone, Together, Gens
    <2> QED
      BY <2>1, <2>2 DEF SysTyped, Gens, VersionOrNone, Pruned
  <1>2. Together'
    BY DEF SysTyped, Marks, Journals, Apps, Gens, Together, Driven
  <1>3. Driven'
    BY DEF SysTyped, Together, Driven, Landed
  <1>4. Landed'
    BY DEF SysTyped, Together, Driven, Landed
  <1>5. Migrated'
    BY DEF SysTyped, Together, Driven, Landed, Migrated, NeedsSnapshot, Versions
  <1>6. Numbered'
    BY DEF SysTyped, Together, Driven, Numbered, Told, SysOps
  <1>7. ReportedRuns'
    BY DEF SysTyped, Together, Driven, Landed, Numbered, ReportedRuns, Reported, Told
  <1>8. Recorded'
    BY DEF SysTyped, Together, Recorded, Numbered, Told
  <1> QED
    BY <1>1, <1>2, <1>3, <1>4, <1>5, <1>6, <1>7, <1>8

(* The process is approved. *)
LEMMA ApproveKeeps ==
  ASSUME SysInv, Approve
  PROVE  SysInv'
  <1> USE SysAssumption, NoMarkAssumption DEF SysInv, Retried, Approve, Settle, NoFault, Fault, disk, db, supVars, markers,
     history, Alive, Busy, Active, Watching, SupStates, NoApp, Journal, GenOf, Ordinary
  <1>1. SysTyped'
    <2>1. app' \in Apps /\ sup' \in SupStates
      BY RecordsTyped DEF SysTyped, Apps, VersionOrNone
    <2>2. pending' \in Marks \cup {NoMark} /\ promoting' \in Journals \cup {NoMark} /\ gen' \in Gens
      BY RecordsTyped DEF SysTyped, Marks, Apps, VersionOrNone, Together, Gens
    <2> QED
      BY <2>1, <2>2 DEF SysTyped, Gens, VersionOrNone, Pruned
  <1>2. Together'
    BY DEF SysTyped, Marks, Journals, Apps, Gens, Together, Driven
  <1>3. Driven'
    BY DEF SysTyped, Together, Driven, Landed
  <1>4. Landed'
    BY DEF SysTyped, Together, Driven, Landed
  <1>5. Migrated'
    BY DEF SysTyped, Together, Driven, Landed, Migrated, NeedsSnapshot, Versions
  <1>6. Numbered'
    BY DEF SysTyped, Together, Driven, Numbered, Told, SysOps
  <1>7. ReportedRuns'
    BY DEF SysTyped, Together, Driven, Landed, Numbered, ReportedRuns, Reported, Told
  <1>8. Recorded'
    BY DEF SysTyped, Together, Recorded, Numbered, Told
  <1> QED
    BY <1>1, <1>2, <1>3, <1>4, <1>5, <1>6, <1>7, <1>8

(* The promotion is over. *)
LEMMA ClearPromotingKeeps ==
  ASSUME SysInv, ClearPromoting
  PROVE  SysInv'
  <1> USE SysAssumption, NoMarkAssumption DEF SysInv, Retried, ClearPromoting, Settle, NoFault, Fault, disk, db, supVars,
     markers, history, Alive, Busy, Active, Watching, SupStates, NoApp, Journal, GenOf, Ordinary
  <1>1. SysTyped'
    <2>1. app' \in Apps /\ sup' \in SupStates
      BY RecordsTyped DEF SysTyped, Apps, VersionOrNone
    <2>2. pending' \in Marks \cup {NoMark} /\ promoting' \in Journals \cup {NoMark} /\ gen' \in Gens
      BY RecordsTyped DEF SysTyped, Marks, Apps, VersionOrNone, Together, Gens
    <2> QED
      BY <2>1, <2>2 DEF SysTyped, Gens, VersionOrNone, Pruned
  <1>2. Together'
    BY DEF SysTyped, Marks, Journals, Apps, Gens, Together, Driven
  <1>3. Driven'
    <2>1. gen' = Ordinary(gen'.version) /\ gen'.version = lastGood /\ ~gen'.promotion
      BY DEF Landed
    <2> QED
      BY <2>1 DEF Driven
  <1>4. Landed'
    BY DEF SysTyped, Together, Driven, Landed
  <1>5. Migrated'
    BY DEF SysTyped, Together, Driven, Landed, Migrated, NeedsSnapshot, Versions
  <1>6. Numbered'
    BY DEF SysTyped, Together, Driven, Numbered, Told, SysOps
  <1>7. ReportedRuns'
    <2>1. gen.version = lastGood /\ outcome' = outcome /\ lastGood' = lastGood
      BY DEF Landed
    <2>2. CASE gen.promotion
      <3>1. gen.op \in Reported /\ outcome[gen.op].version = lastGood /\ promoting # NoMark /\ promoting.op = gen.op
        BY <2>1, <2>2 DEF ReportedRuns, Driven
      <3>2. \A o \in Reported : o <= gen.op
        BY <3>1 DEF Numbered, Told, Reported, NoOutcome
      <3>3. \A o \in SysOps : outcome[o].status # "failed"
        BY DEF ReportedRuns
      <3> QED
        BY <2>1, <3>1, <3>2, <3>3 DEF ReportedRuns, Reported
    <2>3. CASE ~gen.promotion
      <3>1. promoting = NoMark
        BY <2>3 DEF Driven
      <3> QED
        BY <2>1, <3>1 DEF ReportedRuns, Reported
    <2> QED
      BY <2>2, <2>3
  <1>8. Recorded'
    BY DEF SysTyped, Together, Recorded, Numbered, Told
  <1> QED
    BY <1>1, <1>2, <1>3, <1>4, <1>5, <1>6, <1>7, <1>8

(* runUpdateInBackground stages the release it has downloaded. *)
LEMMA StageUpdateKeeps ==
  ASSUME SysInv, app.kind = "update", StageRelease
  PROVE  SysInv'
  <1> USE SysAssumption, NoMarkAssumption DEF SysInv, Retried, StageRelease, Settle, NoFault, Fault, disk, db, supVars,
     markers, history, Alive, Busy, Active, Watching, SupStates, NoApp, Journal, GenOf, Ordinary
  <1>0. /\ app.op \in SysOps /\ app.to \in Versions /\ schema \in Int /\ app \in Apps
        /\ app' = [app EXCEPT !.pc = "draining", !.mig = app.to > schema]
        /\ releases' = releases \cup {app.to} /\ staged' = staged \cup {app.op}
    BY DEF SysTyped, Together, Apps, VersionOrNone, Versions
  <1>1. SysTyped'
    <2>0. (app.to > schema) \in BOOLEAN
      OBVIOUS
    <2>1. PICK m \in BOOLEAN : app' = [app EXCEPT !.pc = "draining", !.mig = m]
      BY <1>0, <2>0, Zenon
    <2>2. app' \in Apps
      BY <1>0, <2>1 DEF Apps
    <2> QED
      BY <1>0, <2>2 DEF SysTyped
  <1>2. Together'
    BY <1>0 DEF SysTyped, Marks, Journals, Apps, Gens, Together, Driven
  <1>3. Driven'
    BY <1>0 DEF SysTyped, Together, Driven, Landed, Apps
  <1>4. Landed'
    BY <1>0 DEF SysTyped, Together, Driven, Landed, Apps
  <1>5. Migrated'
    BY <1>0 DEF SysTyped, Together, Driven, Landed, Migrated, NeedsSnapshot, Versions, Apps
  <1>6. Numbered'
    BY <1>0 DEF SysTyped, Together, Driven, Numbered, Told, SysOps, Apps
  <1>7. ReportedRuns'
    BY <1>0 DEF SysTyped, Together, Driven, Landed, Numbered, ReportedRuns, Reported, Told, Apps
  <1>8. Recorded'
    BY <1>0 DEF SysTyped, Together, Recorded, Numbered, Told, Apps
  <1> QED
    BY <1>1, <1>2, <1>3, <1>4, <1>5, <1>6, <1>7, <1>8

(* A rollback or a restart has nothing to stage. *)
LEMMA StageOtherKeeps ==
  ASSUME SysInv, app.kind # "update", StageRelease
  PROVE  SysInv'
  <1> USE SysAssumption, NoMarkAssumption DEF SysInv, Retried, StageRelease, Settle, NoFault, Fault, disk, db, supVars,
     markers, history, Alive, Busy, Active, Watching, SupStates, NoApp, Journal, GenOf, Ordinary
  <1>0. /\ app.op \in SysOps /\ app.to \in Versions /\ schema \in Int /\ app \in Apps
        /\ app' = [app EXCEPT !.pc = "draining"] /\ UNCHANGED <<releases, staged>>
    BY DEF SysTyped, Together, Apps, VersionOrNone, Versions
  <1>1. SysTyped'
    <2>1. app' \in Apps
      BY <1>0 DEF Apps
    <2> QED
      BY <1>0, <2>1 DEF SysTyped
  <1>2. Together'
    BY <1>0 DEF SysTyped, Marks, Journals, Apps, Gens, Together, Driven
  <1>3. Driven'
    BY <1>0 DEF SysTyped, Together, Driven, Landed, Apps
  <1>4. Landed'
    BY <1>0 DEF SysTyped, Together, Driven, Landed, Apps
  <1>5. Migrated'
    <2>1. app.kind # "rollback" => app.to <= schema
      BY <1>0 DEF SysTyped, Apps, Together, Migrated, Kinds
    <2>2. app'.to = app.to /\ app'.kind = app.kind /\ app'.pc = "draining" /\ app'.mig = app.mig
      BY <1>0 DEF Apps
    <2> QED
      BY <2>1, <2>2 DEF Migrated, NeedsSnapshot
  <1>6. Numbered'
    BY <1>0 DEF SysTyped, Together, Driven, Numbered, Told, SysOps, Apps
  <1>7. ReportedRuns'
    BY <1>0 DEF SysTyped, Together, Driven, Landed, Numbered, ReportedRuns, Reported, Told, Apps
  <1>8. Recorded'
    BY <1>0 DEF SysTyped, Together, Recorded, Numbered, Told, Apps
  <1> QED
    BY <1>1, <1>2, <1>3, <1>4, <1>5, <1>6, <1>7, <1>8

(* drainAndExit revokes the intent, or is fenced. *)
LEMMA RevokePendingKeeps ==
  ASSUME SysInv, RevokePending
  PROVE  SysInv'
  <1> USE SysAssumption, NoMarkAssumption DEF SysInv, Retried, RevokePending, Settle, NoFault, Fault, disk, db, supVars,
     markers, history, Alive, Busy, Active, Watching, SupStates, NoApp, Journal, GenOf, Ordinary
  <1>0. /\ app \in Apps /\ app.op \in SysOps
        /\ \/ pending' = NoMark /\ app' = [app EXCEPT !.pc = "revoked"]
           \/ pending' = pending /\ app' = [app EXCEPT !.pc = "fenced"]
    BY DEF SysTyped, Together
  <1>1. SysTyped'
    <2>1. app' \in Apps /\ sup' \in SupStates
      BY RecordsTyped DEF SysTyped, Apps, VersionOrNone
    <2>2. pending' \in Marks \cup {NoMark} /\ promoting' \in Journals \cup {NoMark} /\ gen' \in Gens
      BY RecordsTyped DEF SysTyped, Marks, Apps, VersionOrNone, Together, Gens
    <2> QED
      BY <2>1, <2>2 DEF SysTyped, Gens, VersionOrNone, Pruned
  <1>2. Together'
    BY <1>0 DEF SysTyped, Marks, Journals, Apps, Gens, Together, Driven
  <1>3. Driven'
    BY <1>0 DEF SysTyped, Together, Driven, Landed, Apps
  <1>4. Landed'
    BY <1>0 DEF SysTyped, Together, Driven, Landed, Apps
  <1>5. Migrated'
    BY <1>0 DEF SysTyped, Together, Driven, Landed, Migrated, NeedsSnapshot, Versions, Apps
  <1>6. Numbered'
    BY <1>0 DEF SysTyped, Together, Driven, Numbered, Told, SysOps, Apps
  <1>7. ReportedRuns'
    BY <1>0 DEF SysTyped, Together, Driven, Landed, Numbered, ReportedRuns, Reported, Told, Apps
  <1>8. Recorded'
    BY <1>0 DEF SysTyped, Together, Recorded, Numbered, Told, Apps
  <1> QED
    BY <1>1, <1>2, <1>3, <1>4, <1>5, <1>6, <1>7, <1>8

(* drainAndExit publishes its failure. *)
LEMMA AuditFailureKeeps ==
  ASSUME SysInv, AuditFailure
  PROVE  SysInv'
  <1> USE SysAssumption, NoMarkAssumption DEF SysInv, Retried, AuditFailure, Settle, NoFault, Fault, disk, db, supVars,
     markers, history, Alive, Busy, Active, Watching, SupStates, NoApp, Journal, GenOf, Ordinary
  <1>0. /\ app \in Apps /\ app.op \in SysOps
        /\ app' = NoApp \/ app' = [app EXCEPT !.pc = "fenced"]
        /\ \/ results' = results
           \/ results' = [results EXCEPT ![app.op] = [status |-> "failed", version |-> NoMark]]
    BY DEF SysTyped, Together
  <1>1. SysTyped'
    <2>1. app' \in Apps
      BY <1>0, RecordsTyped DEF Apps
    <2>2. results' \in [SysOps -> Outcomes]
      BY <1>0, RecordsTyped DEF SysTyped
    <2> QED
      BY <1>0, <2>1, <2>2 DEF SysTyped
  <1>2. Together'
    BY <1>0 DEF SysTyped, Marks, Journals, Apps, Gens, Together, Driven
  <1>3. Driven'
    BY <1>0 DEF SysTyped, Together, Driven, Landed, Apps
  <1>4. Landed'
    BY <1>0 DEF SysTyped, Together, Driven, Landed, Apps
  <1>5. Migrated'
    BY <1>0 DEF SysTyped, Together, Driven, Landed, Migrated, NeedsSnapshot, Versions, Apps
  <1>6. Numbered'
    BY <1>0 DEF SysTyped, Together, Driven, Numbered, Told, SysOps, Apps
  <1>7. ReportedRuns'
    BY <1>0 DEF SysTyped, Together, Driven, Landed, Numbered, ReportedRuns, Reported, Told, Apps
  <1>8. Recorded'
    BY <1>0 DEF SysTyped, Together, Recorded, Numbered, Told, Apps
  <1> QED
    BY <1>1, <1>2, <1>3, <1>4, <1>5, <1>6, <1>7, <1>8

(* persist_failed_promotion publishes the failure. *)
LEMMA PublishFailureKeeps ==
  ASSUME SysInv, PublishFailure
  PROVE  SysInv'
  <1> USE SysAssumption, NoMarkAssumption DEF SysInv, Retried, PublishFailure, Settle, NoFault, Fault, disk, db, supVars,
     markers, history, Alive, Busy, Active, Watching, SupStates, NoApp, Journal, GenOf, Ordinary
  <1>0. /\ gen.op \in SysOps /\ promoting \in Journals /\ promoting.op = gen.op /\ promoting.failure # NoMark
        /\ [status |-> "failed", version |-> promoting.failure] \in Outcomes /\ app = NoApp
        /\ [status |-> "failed", version |-> promoting.failure] # NoOutcome
    BY DEF SysTyped, Together, Driven, Journals, Outcomes, NoOutcome
  <1>1. SysTyped'
    BY <1>0 DEF SysTyped
  <1>2. Together'
    BY <1>0 DEF SysTyped, Marks, Journals, Apps, Gens, Together, Driven
  <1>3. Driven'
    BY <1>0 DEF SysTyped, Together, Driven, Landed
  <1>4. Landed'
    BY <1>0 DEF SysTyped, Together, Driven, Landed
  <1>5. Migrated'
    BY <1>0 DEF SysTyped, Together, Driven, Landed, Migrated, NeedsSnapshot, Versions
  <1>6. Numbered'
    BY <1>0 DEF SysTyped, Together, Driven, Numbered, Told, SysOps
  <1>7. ReportedRuns'
    BY <1>0 DEF SysTyped, Together, Driven, Landed, Numbered, ReportedRuns, Reported, Told
  <1>8. Recorded'
    BY <1>0 DEF SysTyped, Together, Recorded, Numbered, Told
  <1> QED
    BY <1>1, <1>2, <1>3, <1>4, <1>5, <1>6, <1>7, <1>8

(* handle_failed_promotion flips to the landing. *)
LEMMA LandKeeps ==
  ASSUME SysInv, Land
  PROVE  SysInv'
  <1> USE SysAssumption, NoMarkAssumption DEF SysInv, Retried, Land, Settle, NoFault, Fault, disk, db, supVars, markers,
     history, Alive, Busy, Active, Watching, SupStates, NoApp, Journal, GenOf, Ordinary
  <1>0. promoting \in Journals /\ gen.version \in Versions
    BY DEF SysTyped, Driven, Gens
  <1>1. SysTyped'
    <2>1. gen' \in Gens
      BY <1>0, RecordsTyped
    <2>2. desired' \in Versions
      BY <1>0 DEF Journals
    <2> QED
      BY <2>1, <2>2 DEF SysTyped
  <1>2. Together'
    BY DEF SysTyped, Marks, Journals, Apps, Gens, Together, Driven
  <1>3. Driven'
    <2>1. /\ gen' = GenOf(promoting) /\ promoting # NoMark /\ promoting.failure = NoMark /\ promoting.kind = "rollback"
          /\ sup' = "promote" /\ UNCHANGED <<promoting, lastGood>>
      BY DEF Driven
    <2>2. gen'.promotion /\ gen'.op = promoting.op /\ gen'.kind \in Kinds
      BY <2>1 DEF Kinds
    <2> QED
      BY <2>1, <2>2 DEF Driven
  <1>4. Landed'
    BY DEF SysTyped, Together, Driven, Landed
  <1>5. Migrated'
    BY DEF SysTyped, Together, Driven, Landed, Migrated, NeedsSnapshot, Versions
  <1>6. Numbered'
    BY DEF SysTyped, Together, Driven, Numbered, Told, SysOps
  <1>7. ReportedRuns'
    BY DEF SysTyped, Together, Driven, Landed, Numbered, ReportedRuns, Reported, Told
  <1>8. Recorded'
    BY DEF SysTyped, Together, Recorded, Numbered, Told
  <1> QED
    BY <1>1, <1>2, <1>3, <1>4, <1>5, <1>6, <1>7, <1>8

(* The supervisor reports a promotion it has seen through. *)
LEMMA WriteResultKeeps ==
  ASSUME SysInv, gen.promotion, WriteResult
  PROVE  SysInv'
  <1> USE SysAssumption, NoMarkAssumption DEF SysInv, Retried, WriteResult, Settle, NoFault, Fault, disk, db, supVars,
     markers, history, Alive, Busy, Active, Watching, SupStates, NoApp, Journal, GenOf, Ordinary
  <1> DEFINE result == [status |-> IF gen.from # NoMark THEN "rolledback" ELSE "success", version |-> gen.version]
  <1>0. /\ gen.op \in SysOps /\ gen.op # NoMark /\ promoting \in Journals /\ promoting.op = gen.op /\ promoting # NoMark
        /\ gen.version \in Versions /\ pending = NoMark
    BY DEF SysTyped, Together, Driven, Journals, Gens, SysOps
  <1>a. /\ result \in Outcomes /\ result # NoOutcome /\ result.status \in {"success", "rolledback"}
        /\ result.version = gen.version
    BY <1>0 DEF Outcomes, NoOutcome, VersionOrNone
  <1>b. /\ results' = [results EXCEPT ![gen.op] = result] /\ outcome' = [outcome EXCEPT ![gen.op] = result]
        /\ UNCHANGED <<rows, pending, promoting, releases, desired, lastGood, previous, schema, snapshots, snapshotOn, gen, app, staged>>
        /\ sup = "good" /\ sup' = "published"
    BY <1>0
  <1> HIDE DEF result, WriteResult
  <1>1. SysTyped'
    BY <1>0, <1>a, <1>b DEF SysTyped
  <1>2. Together'
    BY <1>0, <1>a, <1>b DEF SysTyped, Marks, Journals, Apps, Gens, Together, Driven
  <1>3. Driven'
    BY <1>0, <1>a, <1>b DEF SysTyped, Together, Driven, Landed
  <1>4. Landed'
    BY <1>0, <1>a, <1>b DEF SysTyped, Together, Driven, Landed
  <1>5. Migrated'
    BY <1>0, <1>a, <1>b DEF SysTyped, Together, Driven, Landed, Migrated, NeedsSnapshot, Versions
  <1>6. Numbered'
    BY <1>0, <1>a, <1>b DEF SysTyped, Together, Driven, Numbered, Told, SysOps
  <1>7. ReportedRuns'
    BY <1>0, <1>a, <1>b DEF SysTyped, Together, Driven, Landed, Numbered, ReportedRuns, Reported, Told
  <1>8. Recorded'
    BY <1>0, <1>a, <1>b DEF SysTyped, Together, Recorded, Numbered, Told
  <1> QED
    BY <1>1, <1>2, <1>3, <1>4, <1>5, <1>6, <1>7, <1>8

(* An ordinary start reports nothing. *)
LEMMA WriteNoResultKeeps ==
  ASSUME SysInv, ~gen.promotion, WriteResult
  PROVE  SysInv'
  <1> USE SysAssumption, NoMarkAssumption DEF SysInv, Retried, WriteResult, Settle, NoFault, Fault, disk, db, supVars,
     markers, history, Alive, Busy, Active, Watching, SupStates, NoApp, Journal, GenOf, Ordinary
  <1>0. gen.op = NoMark
    BY DEF Driven
  <1>1. SysTyped'
    BY <1>0 DEF SysTyped
  <1>2. Together'
    BY <1>0 DEF SysTyped, Marks, Journals, Apps, Gens, Together, Driven
  <1>3. Driven'
    BY <1>0 DEF SysTyped, Together, Driven, Landed
  <1>4. Landed'
    BY <1>0 DEF SysTyped, Together, Driven, Landed
  <1>5. Migrated'
    BY <1>0 DEF SysTyped, Together, Driven, Landed, Migrated, NeedsSnapshot, Versions
  <1>6. Numbered'
    BY <1>0 DEF SysTyped, Together, Driven, Numbered, Told, SysOps
  <1>7. ReportedRuns'
    BY <1>0 DEF SysTyped, Together, Driven, Landed, Numbered, ReportedRuns, Reported, Told
  <1>8. Recorded'
    BY <1>0 DEF SysTyped, Together, Recorded, Numbered, Told
  <1> QED
    BY <1>1, <1>2, <1>3, <1>4, <1>5, <1>6, <1>7, <1>8

(* consumeResultMarker settles the row. *)
LEMMA ConsumeResultKeeps ==
  ASSUME SysInv, NEW o \in SysOps, ConsumeResult(o)
  PROVE  SysInv'
  <1> USE SysAssumption, NoMarkAssumption DEF SysInv, Retried, ConsumeResult, Settle, NoFault, Fault, disk, db, supVars,
     markers, history, Alive, Busy, Active, Watching, SupStates, NoApp, Journal, GenOf, Ordinary
  <1>0. /\ results[o] \in Outcomes /\ results[o] # NoOutcome
        /\ StatusOf(results[o]) \in {"succeeded", "failed", "rolled_back"}
        /\ StatusOf(results[o]) = "succeeded" => results[o].status = "success"
    BY DEF SysTyped, StatusOf
  <1>a. PICK s \in {"succeeded", "failed", "rolled_back"} :
          /\ rows' = [rows EXCEPT ![o].status = s] /\ (s = "succeeded" => results[o].status = "success")
    BY <1>0
  <1>d. /\ results' = [results EXCEPT ![o] = NoOutcome]
        /\ UNCHANGED <<pending, promoting, releases, desired, lastGood, previous, schema, snapshots, snapshotOn, sup, gen, app, outcome, staged>>
    OBVIOUS
  <1>e. rows \in [SysOps -> Rows] /\ results \in [SysOps -> Outcomes]
    BY DEF SysTyped
  <1> HIDE DEF ConsumeResult
  <1>b. /\ results' = [results EXCEPT ![o] = NoOutcome]
        /\ \A p \in SysOps : rows'[p].kind = rows[p].kind /\ rows'[p].status = IF p = o THEN s ELSE rows[p].status
    BY <1>a, <1>d, <1>e DEF Rows
  <1>c. rows[o].status # "none"
    BY <1>0 DEF Numbered
  <1>1. SysTyped'
    <2>1. rows' \in [SysOps -> Rows]
      BY <1>a, <1>e, StatusTyped
    <2>2. results' \in [SysOps -> Outcomes]
      BY <1>d, <1>e, RecordsTyped
    <2> QED
      BY <1>d, <2>1, <2>2 DEF SysTyped
  <1>2. Together'
    BY <1>d DEF SysTyped, Marks, Journals, Apps, Gens, Together, Driven
  <1>3. Driven'
    BY <1>d DEF SysTyped, Together, Driven, Landed
  <1>4. Landed'
    BY <1>d DEF SysTyped, Together, Driven, Landed
  <1>5. Migrated'
    BY <1>d DEF SysTyped, Together, Driven, Landed, Migrated, NeedsSnapshot, Versions
  <1>6. Numbered'
    BY <1>b, <1>c, <1>d DEF Numbered, Told, SysTyped, Marks, Journals, Together
  <1>7. ReportedRuns'
    BY <1>d DEF SysTyped, Together, Driven, Landed, Numbered, ReportedRuns, Reported, Told
  <1>8. Recorded'
    <2>1. \A p \in SysOps : results'[p].status = "success" => Told(p)'
      BY <1>d, <1>b DEF Recorded, Told, NoOutcome, SysTyped
    <2>2. \A p \in staged : rows[p].kind = "update" /\ (rows'[p].status = "succeeded" => Told(p)')
      BY <1>0, <1>a, <1>b, <1>d DEF Recorded, Told, SysTyped
    <2>3. app.pc = "working" => app.op # o /\ app.op \in SysOps
      BY <1>d, <1>0 DEF Recorded, Together
    <2>4. app.pc = "working" => rows'[app.op] = rows[app.op] /\ results'[app.op] = results[app.op]
      BY <1>d, <1>a, <1>b, <2>3 DEF SysTyped
    <2> QED
      BY <1>d, <1>b, <2>1, <2>2, <2>4 DEF Recorded, SysTyped
  <1> QED
    BY <1>1, <1>2, <1>3, <1>4, <1>5, <1>6, <1>7, <1>8

(* startUpdate, startRollback and startRestart. *)
LEMMA StartOperationKeeps ==
  ASSUME SysInv, NEW o \in SysOps, NEW kind \in Kinds, StartOperation(o, kind)
  PROVE  SysInv'
  <1> USE SysAssumption, NoMarkAssumption DEF SysInv, Retried, StartOperation, NoPromotionInFlight, Settle, NoFault, Fault,
     disk, db, supVars, markers, history, Alive, Busy, Active, Watching, SupStates, NoApp, Journal, GenOf, Ordinary
  <1>0. PICK to \in VersionOrNone :
          /\ app' = [app EXCEPT !.op = o, !.kind = kind, !.to = to, !.mig = FALSE, !.pc = "working"]
          /\ kind = "restart" => to = app.version
    BY DEF Kinds, VersionOrNone, SysTyped, Apps
  <1>a. /\ app' \in Apps /\ app'.op = o /\ app'.kind = kind /\ app'.to = to /\ app'.mig = FALSE /\ app'.pc = "working"
        /\ app'.version = app.version /\ app'.approved = app.approved
    BY <1>0 DEF SysTyped, Apps
  <1>b. rows[o].status = "none" /\ \A p \in 1..(o - 1) : rows[p].status # "none"
    BY DEF NewOp
  <1>c. /\ \A p \in SysOps : rows'[p] = IF p = o THEN [kind |-> kind, status |-> "running"] ELSE rows[p]
        /\ rows' \in [SysOps -> Rows]
    BY DEF SysTyped, Rows
  <1>d. /\ UNCHANGED <<pending, promoting, results, releases, desired, lastGood, previous, schema, snapshots, snapshotOn, sup, gen, outcome, staged>>
        /\ app.pc = "up" /\ app.approved /\ promoting = NoMark /\ sup \in {"approved", "serving"}
    BY DEF Together
  <1> HIDE DEF StartOperation
  <1>1. SysTyped'
    BY <1>a, <1>c, <1>d DEF SysTyped
  <1>2. Together'
    BY <1>a, <1>d DEF Together
  <1>3. Driven'
    BY <1>d DEF Driven
  <1>4. Landed'
    BY <1>d DEF Landed
  <1>5. Migrated'
    BY <1>0, <1>a, <1>d DEF Migrated, NeedsSnapshot
  <1>6. Numbered'
    <2>1. \A p \in SysOps : p < o => rows[p].status # "none"
      BY <1>b DEF SysOps
    <2>2. \A p \in SysOps : rows[p].status # "none" => p < o
      BY <1>b DEF Numbered, SysOps
    <2>3. \A p \in SysOps : rows[p].status # "none" => rows'[p].status # "none"
      BY <1>c
    <2>4. \A p, q \in SysOps : q < p /\ rows'[p].status # "none" => rows'[q].status # "none"
      BY <1>c, <2>1, <2>2, <2>3 DEF SysOps
    <2> QED
      BY <1>a, <1>c, <1>d, <2>2, <2>3, <2>4 DEF Numbered, Told, SysTyped, Marks
  <1>7. ReportedRuns'
    BY <1>d DEF ReportedRuns, Reported
  <1>8. Recorded'
    <2>1. results[o] = NoOutcome /\ o \notin staged /\ \A p \in staged : rows'[p] = rows[p]
      BY <1>b, <1>c DEF Numbered, SysTyped
    <2> QED
      BY <1>a, <1>c, <1>d, <2>1 DEF Recorded, Told
  <1> QED
    BY <1>1, <1>2, <1>3, <1>4, <1>5, <1>6, <1>7, <1>8

(* persist_failed_promotion journals the failure. *)
LEMMA FailingKeeps ==
  ASSUME SysInv, NEW g \in Gens, NEW attempted \in Versions, NEW mig \in BOOLEAN, Failing(g, attempted, mig),
         promoting # NoMark, pending = NoMark, g.promotion, g.op = promoting.op, g.kind \in Kinds,
         UNCHANGED <<releases, rows, pending, results, lastGood, previous, outcome, staged>>,
         schema' \in Versions, schema' >= schema, app' = NoApp, desired' \in Versions
  PROVE  SysInv'
  <1> USE SysAssumption, NoMarkAssumption DEF SysInv, Retried, Busy, Active, Watching, SupStates, NoApp, Journal, GenOf, Ordinary
  <1> DEFINE j == [version |-> g.version, op |-> g.op, kind |-> g.kind, mig |-> mig,
                   from |-> g.from, failure |-> attempted]
  <1>0. sup' = "failed" /\ gen' = g /\ promoting' = j /\ promoting \in Journals
    BY DEF Failing, FailureJournal, SysTyped
  <1>a. /\ j \in Journals /\ j.op = g.op /\ j.op = promoting.op /\ j.failure # NoMark /\ j # NoMark /\ j.kind = g.kind
    <2>1. j \in Journals
      BY <1>0 DEF Journals, Gens, VersionOrNone
    <2> QED
      BY <2>1 DEF Versions
  <1> HIDE DEF j
  <1>1. SysTyped'
    BY <1>0, <1>a, RecordsTyped DEF SysTyped
  <1>2. Together'
    BY <1>0, <1>a DEF SysTyped, Marks, Journals, Apps, Gens, Together, Driven
  <1>3. Driven'
    BY <1>0, <1>a DEF SysTyped, Together, Driven, Landed
  <1>4. Landed'
    BY <1>0, <1>a DEF SysTyped, Together, Driven, Landed
  <1>5. Migrated'
    BY <1>0, <1>a DEF SysTyped, Together, Driven, Landed, Migrated, NeedsSnapshot, Versions
  <1>6. Numbered'
    BY <1>0, <1>a DEF SysTyped, Together, Driven, Numbered, Told, SysOps
  <1>7. ReportedRuns'
    BY <1>0, <1>a DEF SysTyped, Together, Driven, Landed, Numbered, ReportedRuns, Reported, Told
  <1>8. Recorded'
    BY <1>0, <1>a DEF SysTyped, Together, Recorded, Numbered, Told
  <1> QED
    BY <1>1, <1>2, <1>3, <1>4, <1>5, <1>6, <1>7, <1>8

(* handle_failed_promotion journals the landing before it flips. *)
LEMMA LandingKeeps ==
  ASSUME SysInv, NEW mig \in BOOLEAN, sup \in {"promote", "snapshot", "migrate", "gate", "killed"},
         gen.promotion, gen.kind # "restart", LastGood \in releases, sup' = "landing", gen' = [gen EXCEPT !.mig = mig],
         promoting' = LandingJournal(mig),
         UNCHANGED <<releases, rows, pending, results, lastGood, previous, outcome, staged>>,
         schema' \in Versions, schema' >= schema, app' = NoApp, desired' \in Versions
  PROVE  SysInv'
  <1> USE SysAssumption, NoMarkAssumption DEF SysInv, Retried, Busy, Active, Watching, SupStates, NoApp, Journal, GenOf, Ordinary
  <1> DEFINE j == [version |-> LastGood, op |-> gen.op, kind |-> "rollback", mig |-> mig,
                   from |-> gen.version, failure |-> NoMark]
  <1>0. /\ promoting \in Journals /\ promoting # NoMark /\ pending = NoMark /\ gen.op = promoting.op /\ gen \in Gens
        /\ gen' \in Gens /\ gen'.op = gen.op /\ gen'.promotion /\ promoting' = j
    BY DEF SysTyped, Together, Driven, Gens, LandingJournal
  <1>a. /\ j \in Journals /\ j.op = gen.op /\ j.failure = NoMark /\ j # NoMark /\ j.kind = "rollback"
    <2>1. j \in Journals
      BY <1>0 DEF SysTyped, Journals, Gens, VersionOrNone, Kinds
    <2> QED
      BY <2>1
  <1> HIDE DEF j
  <1>1. SysTyped'
    BY <1>0, <1>a, RecordsTyped DEF SysTyped
  <1>2. Together'
    BY <1>0, <1>a DEF SysTyped, Marks, Journals, Apps, Gens, Together, Driven
  <1>3. Driven'
    BY <1>0, <1>a DEF SysTyped, Together, Driven, Landed
  <1>4. Landed'
    BY <1>0, <1>a DEF SysTyped, Together, Driven, Landed
  <1>5. Migrated'
    BY <1>0, <1>a DEF SysTyped, Together, Driven, Landed, Migrated, NeedsSnapshot, Versions
  <1>6. Numbered'
    BY <1>0, <1>a DEF SysTyped, Together, Driven, Numbered, Told, SysOps
  <1>7. ReportedRuns'
    <2>1. \A o \in SysOps : outcome[o].status # "failed"
      <3>1. sup = "killed" => \A o \in SysOps : outcome[o].status # "failed"
        BY DEF ReportedRuns
      <3> QED
        BY <3>1 DEF ReportedRuns
    <2> QED
      BY <1>0, <1>a, <2>1 DEF ReportedRuns
  <1>8. Recorded'
    BY <1>0, <1>a DEF SysTyped, Together, Recorded, Numbered, Told
  <1> QED
    BY <1>1, <1>2, <1>3, <1>4, <1>5, <1>6, <1>7, <1>8

(* handle_failed_promotion cannot journal the landing: the failed release is tried again. *)
LEMMA LandingUnwrittenKeeps ==
  ASSUME SysInv, NEW mig \in BOOLEAN, LandingUnwritten(mig), sup \in {"promote", "snapshot", "migrate", "gate", "killed"},
         UNCHANGED <<releases, rows, pending, results, lastGood, previous, outcome, staged>>,
         schema' \in Versions, schema' >= schema, app' = NoApp, desired' \in Versions
  PROVE  SysInv'
  <1> USE SysAssumption, NoMarkAssumption DEF SysInv, Retried, Busy, Active, Watching, SupStates, NoApp, Journal, GenOf, Ordinary
  <1>0. /\ promoting \in Journals /\ promoting # NoMark /\ pending = NoMark /\ gen.op = promoting.op /\ gen \in Gens
        /\ gen.promotion /\ gen.kind # "restart" /\ gen.kind \in Kinds /\ LastGood \in Versions /\ sup' = "promote"
        /\ gen.version \in Versions /\ gen.op \in SysOps
    BY DEF SysTyped, Together, Driven, Journals, Gens, LandingUnwritten
  <1>a. /\ gen' \in Gens /\ gen'.op = gen.op /\ gen'.promotion /\ gen'.kind = gen.kind /\ gen'.version = gen.version
        /\ gen'.from = gen.version /\ gen'.mig = gen.mig
    BY <1>0 DEF LandingUnwritten, Gens, VersionOrNone
  <1>b. LandingJournal(mig) \in Journals
    BY <1>0 DEF LandingJournal, Journals, VersionOrNone, Kinds
  <1>c. /\ promoting' \in Journals /\ promoting' # NoMark /\ promoting'.op = gen.op
        /\ promoting' = promoting \/ (promoting'.kind = "rollback" /\ promoting'.failure = NoMark)
    <2>1. CASE promoting' = promoting
      BY <1>0, <2>1
    <2>2. CASE promoting' = LandingJournal(mig)
      BY <1>0, <1>b, <2>2 DEF LandingJournal
    <2> QED
      BY <2>1, <2>2 DEF LandingUnwritten
  <1>1. SysTyped'
    BY <1>0, <1>a, <1>c, RecordsTyped DEF SysTyped
  <1>2. Together'
    BY <1>0, <1>a, <1>c DEF Together
  <1>3. Driven'
    BY <1>0, <1>a, <1>c DEF Driven, Retried
  <1>4. Landed'
    BY <1>0, <1>a, <1>c DEF Landed
  <1>5. Migrated'
    <2>1. /\ schema' \in Int /\ schema \in Int /\ lastGood \in Int /\ gen.version \in Int /\ promoting.version \in Int
      BY <1>0 DEF SysTyped, Versions, Journals
    <2>2. gen.kind # "rollback" /\ ~gen.mig => gen.version <= schema
      BY <1>0 DEF Migrated
    <2> QED
      BY <1>0, <1>a, <1>c, <2>1, <2>2 DEF Migrated
  <1>6. Numbered'
    BY <1>0, <1>a, <1>c DEF Numbered, Told
  <1>7. ReportedRuns'
    <2>1. \A o \in SysOps : outcome[o].status # "failed"
      BY DEF ReportedRuns
    <2> QED
      BY <1>0, <1>a, <1>c, <2>1 DEF ReportedRuns
  <1>8. Recorded'
    BY <1>0, <1>a, <1>c DEF Recorded, Told
  <1> QED
    BY <1>1, <1>2, <1>3, <1>4, <1>5, <1>6, <1>7, <1>8

(* handle_failed_promotion, wherever it is called from. *)
LEMMA FailKeeps ==
  ASSUME SysInv, NEW mig \in BOOLEAN, HandleFailedPromotion(mig) \/ LandingUnwritten(mig),
         sup \in {"promote", "snapshot", "migrate", "gate", "killed"},
         UNCHANGED <<releases, rows, pending, results, lastGood, previous, outcome, staged>>,
         schema' \in Versions, schema' >= schema, app' = NoApp,
         desired' \in Versions, gen.promotion \/ desired' = desired
  PROVE  SysInv'
  <1> USE SysAssumption, NoMarkAssumption DEF SysInv, Retried, Busy, Active, Watching, SupStates, NoApp, Journal, GenOf, Ordinary
  <1>0. gen \in Gens /\ gen.version \in Versions /\ gen.from \in VersionOrNone
    BY DEF SysTyped, Gens
  <1>1. CASE ~gen.promotion /\ sup' = "promote" /\ gen' = Ordinary(gen.version) /\ UNCHANGED promoting
    <2>1. sup # "killed" /\ promoting = NoMark /\ gen' = gen /\ gen.version = lastGood
      BY <1>1 DEF Driven
    <2>2. SysTyped' /\ Together' /\ Driven' /\ Landed'
      BY <1>1, <2>1, RecordsTyped DEF SysTyped, Together, Driven, Landed
    <2>3. Migrated' /\ Numbered' /\ ReportedRuns' /\ Recorded'
      BY <1>1, <2>1 DEF Migrated, Numbered, ReportedRuns, Recorded, Told, Reported, NoApp, Busy, Watching,
         NeedsSnapshot,
                        SysTyped, Marks, Versions
    <2> QED
      BY <2>2, <2>3
  <1>2. ASSUME gen.promotion
        PROVE  promoting # NoMark /\ pending = NoMark /\ gen.op = promoting.op /\ gen.kind \in Kinds
    BY <1>2 DEF SysTyped, Journals, Together, Driven
  <1>3. ASSUME gen.promotion, NEW attempted \in Versions, Failing(gen, attempted, mig) PROVE SysInv'
    BY <1>0, <1>2, <1>3, FailingKeeps
  <1>4. Attempted \in Versions
    BY <1>0 DEF Attempted, VersionOrNone
  <1> HIDE DEF SysInv
  <1> QED
    BY <1>0, <1>1, <1>3, <1>4, LandingKeeps, LandingUnwrittenKeeps DEF HandleFailedPromotion, LandingUnwritten

(* atomic_promote: the release is there, or the promotion fails. *)
LEMMA AtomicPromoteKeeps ==
  ASSUME SysInv, AtomicPromote
  PROVE  SysInv'
  <1> USE SysAssumption, NoMarkAssumption DEF SysInv, Retried, Busy, Active, Watching, SupStates, NoApp, Journal, GenOf, Ordinary
  <1>0. /\ schema \in Versions /\ schema \in Int /\ schema >= schema /\ gen.mig \in BOOLEAN /\ desired \in Versions
        /\ sup \notin Watching => app = NoApp
    BY DEF SysTyped, Gens, Together, Versions
  <1>1. ASSUME sup = "promote", desired' = gen.version, sup' = (IF NeedsSnapshot THEN "snapshot" ELSE "migrate"),
               UNCHANGED <<releases, rows, pending, promoting, results, lastGood, previous, schema, snapshots, snapshotOn,
                           gen, app, outcome, staged>>
        PROVE  SysInv'
    <2>1. SysTyped'
      BY <1>0, <1>1, RecordsTyped DEF SysTyped, Gens
    <2>2. Together'
      BY <1>0, <1>1 DEF SysTyped, Marks, Journals, Apps, Gens, Together, Driven
    <2>3. Driven'
      BY <1>0, <1>1 DEF SysTyped, Together, Driven, Landed
    <2>4. Landed'
      BY <1>0, <1>1 DEF SysTyped, Together, Driven, Landed
    <2>5. Migrated'
      BY <1>0, <1>1 DEF SysTyped, Together, Driven, Landed, Migrated, NeedsSnapshot, Versions
    <2>6. Numbered'
      BY <1>0, <1>1 DEF SysTyped, Together, Driven, Numbered, Told, SysOps
    <2>7. ReportedRuns'
      BY <1>0, <1>1 DEF SysTyped, Together, Driven, Landed, Numbered, ReportedRuns, Reported, Told
    <2>8. Recorded'
      BY <1>0, <1>1 DEF SysTyped, Together, Recorded, Numbered, Told
    <2> QED
      BY <2>1, <2>2, <2>3, <2>4, <2>5, <2>6, <2>7, <2>8
  <1>2. ASSUME AtomicPromote, HandleFailedPromotion(FALSE) \/ LandingUnwritten(FALSE), gen.promotion,
               desired' \in {desired, gen.version}
        PROVE  SysInv'
    <2>1. /\ UNCHANGED <<releases, rows, pending, results, lastGood, previous, schema, outcome, staged, app>>
          /\ sup = "promote" /\ desired' \in Versions
      BY <1>2 DEF AtomicPromote, db, history, SysTyped, Gens
    <2>2. app = NoApp
      BY <1>0, <2>1
    <2> HIDE DEF SysInv
    <2> QED
      BY <1>0, <1>2, <2>1, <2>2, FailKeeps
  <1> QED
    BY <1>1, <1>2 DEF AtomicPromote, db, history

(* run_snapshot. *)
LEMMA RunSnapshotKeeps ==
  ASSUME SysInv, RunSnapshot
  PROVE  SysInv'
  <1> USE SysAssumption, NoMarkAssumption DEF SysInv, Retried, Busy, Active, Watching, SupStates, NoApp, Journal, GenOf, Ordinary
  <1>0. /\ schema \in Versions /\ schema \in Int /\ schema >= schema /\ gen.mig \in BOOLEAN /\ desired \in Versions
        /\ sup \notin Watching => app = NoApp
    BY DEF SysTyped, Gens, Together, Versions
  <1>1. ASSUME sup = "snapshot", IF snapshotOn THEN snapshots' = snapshots \cup {gen.op} ELSE snapshots' = snapshots,
               sup' = "migrate", UNCHANGED <<releases, rows, pending, promoting, results, desired, lastGood, previous,
                           schema, snapshotOn, gen, app, outcome, staged>>
        PROVE  SysInv'
    <2>1. SysTyped'
      BY <1>0, <1>1, RecordsTyped DEF SysTyped
    <2>2. Together'
      BY <1>0, <1>1 DEF SysTyped, Marks, Journals, Apps, Gens, Together, Driven
    <2>3. Driven'
      BY <1>0, <1>1 DEF SysTyped, Together, Driven, Landed
    <2>4. Landed'
      BY <1>0, <1>1 DEF SysTyped, Together, Driven, Landed
    <2>5. Migrated'
      BY <1>0, <1>1 DEF SysTyped, Together, Driven, Landed, Migrated, NeedsSnapshot, Versions
    <2>6. Numbered'
      BY <1>0, <1>1 DEF SysTyped, Together, Driven, Numbered, Told, SysOps
    <2>7. ReportedRuns'
      BY <1>0, <1>1 DEF SysTyped, Together, Driven, Landed, Numbered, ReportedRuns, Reported, Told
    <2>8. Recorded'
      BY <1>0, <1>1 DEF SysTyped, Together, Recorded, Numbered, Told
    <2> QED
      BY <2>1, <2>2, <2>3, <2>4, <2>5, <2>6, <2>7, <2>8
  <1>2. ASSUME RunSnapshot, HandleFailedPromotion(FALSE) \/ LandingUnwritten(FALSE) PROVE SysInv'
    <2>1. /\ UNCHANGED <<releases, rows, pending, results, desired, lastGood, previous, schema, outcome, staged, app>>
          /\ sup = "snapshot"
      BY <1>2 DEF RunSnapshot, disk, history
    <2>2. app = NoApp
      BY <1>0, <2>1
    <2> HIDE DEF SysInv
    <2> QED
      BY <1>0, <1>2, <2>1, <2>2, FailKeeps
  <1> QED
    BY <1>1, <1>2 DEF RunSnapshot, disk, history

(* run_migrate and the launch. *)
LEMMA RunMigrateKeeps ==
  ASSUME SysInv, RunMigrate
  PROVE  SysInv'
  <1> USE SysAssumption, NoMarkAssumption DEF SysInv, Retried, Busy, Active, Watching, SupStates, NoApp, Journal, GenOf, Ordinary
  <1>0. /\ schema \in Versions /\ schema \in Int /\ schema >= schema /\ gen.mig \in BOOLEAN /\ desired \in Versions
        /\ sup \notin Watching => app = NoApp
    BY DEF SysTyped, Gens, Together, Versions
  <1> DEFINE applied == IF gen.kind = "rollback" \/ gen.version <= schema THEN schema ELSE gen.version
  <1>a. applied \in Versions /\ applied >= schema /\ applied \in Int
    BY DEF SysTyped, Gens, Versions
  <1>b. [NoApp EXCEPT !.pc = "booting", !.version = gen.version] \in Apps
    BY RecordsTyped DEF SysTyped, Gens, Apps, VersionOrNone
  <1>1. ASSUME sup = "migrate", schema' \in Versions, schema' >= schema, sup' = "gate",
               app' = [NoApp EXCEPT !.pc = "booting", !.version = gen.version],
               UNCHANGED <<releases, rows, pending, promoting, results, desired, lastGood, previous, snapshots, snapshotOn,
                           gen, outcome, staged>>
        PROVE  SysInv'
    <2>1. SysTyped'
      BY <1>0, <1>b, <1>1, RecordsTyped DEF SysTyped
    <2>2. Together'
      BY <1>0, <1>b, <1>1 DEF SysTyped, Marks, Journals, Apps, Gens, Together, Driven
    <2>3. Driven'
      BY <1>0, <1>b, <1>1 DEF SysTyped, Together, Driven, Landed
    <2>4. Landed'
      BY <1>0, <1>b, <1>1 DEF SysTyped, Together, Driven, Landed
    <2>5. Migrated'
      <3>1. /\ schema' \in Int /\ schema \in Int /\ lastGood \in Int
            /\ pending # NoMark => pending.version \in Int
            /\ promoting # NoMark => promoting.version \in Int
            /\ gen.version \in Int
        BY <1>1 DEF SysTyped, Versions, Marks, Journals, Gens
      <3>2. app'.pc = "booting"
        BY <1>1
      <3> QED
        BY <1>1, <3>1, <3>2 DEF Migrated
    <2>6. Numbered'
      BY <1>0, <1>b, <1>1 DEF SysTyped, Together, Driven, Numbered, Told, SysOps
    <2>7. ReportedRuns'
      BY <1>0, <1>b, <1>1 DEF SysTyped, Together, Driven, Landed, Numbered, ReportedRuns, Reported, Told
    <2>8. Recorded'
      BY <1>0, <1>b, <1>1 DEF SysTyped, Together, Recorded, Numbered, Told
    <2> QED
      BY <2>1, <2>2, <2>3, <2>4, <2>5, <2>6, <2>7, <2>8
  <1>2. ASSUME RunMigrate, HandleFailedPromotion(TRUE) \/ LandingUnwritten(TRUE), schema' \in {schema, applied}, app' = app PROVE SysInv'
    <2>1. /\ UNCHANGED <<releases, rows, pending, results, desired, lastGood, previous, outcome, staged>>
          /\ sup = "migrate"
      BY <1>2 DEF RunMigrate, disk, history
    <2>2. app = NoApp
      BY <1>0, <2>1
    <2>3. schema' \in Versions /\ schema' >= schema
      BY <1>0, <1>a, <1>2
    <2> HIDE DEF SysInv
    <2> QED
      BY <1>0, <1>2, <2>1, <2>2, <2>3, FailKeeps
  <1> QED
    BY <1>a, <1>1, <1>2 DEF RunMigrate, disk, history

(* stop_failed_candidate: a candidate that does not stop is killed after the failure is journalled. *)
LEMMA StopFailedCandidateKeeps ==
  ASSUME SysInv, StopFailedCandidate
  PROVE  SysInv'
  <1> USE SysAssumption, NoMarkAssumption DEF SysInv, Retried, Busy, Active, Watching, SupStates, NoApp, Journal, GenOf, Ordinary
  <1>0. /\ schema \in Versions /\ schema \in Int /\ schema >= schema /\ gen.mig \in BOOLEAN /\ desired \in Versions
        /\ sup \notin Watching => app = NoApp
    BY DEF SysTyped, Gens, Together, Versions
  <1>a. gen.promotion => Attempted \in Versions
    BY DEF Attempted, SysTyped, Gens, VersionOrNone
  <1>b. ASSUME sup = "gate", gen.promotion
        PROVE  /\ promoting \in Journals /\ promoting # NoMark /\ pending = NoMark
               /\ gen.op = promoting.op /\ gen.kind \in Kinds
    BY <1>b DEF SysTyped, Together, Driven
  <1>c. ASSUME sup = "gate", gen.promotion, promoting' = FailureJournal(gen, Attempted, gen.mig)
        PROVE  /\ promoting' \in Journals /\ promoting' # NoMark /\ promoting'.failure # NoMark
               /\ promoting'.op = promoting.op /\ promoting'.kind = gen.kind
    <2>1. promoting' \in Journals
      BY <1>a, <1>b, <1>c DEF FailureJournal, SysTyped, Gens, Journals, VersionOrNone
    <2> QED
      BY <1>a, <1>b, <1>c, <2>1 DEF FailureJournal, Versions
  <1>1. ASSUME sup = "gate", gen.promotion, sup' = "killed", app' = NoApp,
               promoting' = FailureJournal(gen, Attempted, gen.mig),
               UNCHANGED <<releases, rows, pending, results, desired, lastGood, previous, schema, snapshots, snapshotOn,
                           gen, outcome, staged>>
        PROVE  SysInv'
    <2>1. SysTyped'
      BY <1>0, <1>b, <1>c, <1>1, RecordsTyped DEF SysTyped
    <2>2. Together'
      BY <1>0, <1>b, <1>c, <1>1 DEF SysTyped, Marks, Journals, Apps, Gens, Together, Driven
    <2>3. Driven'
      BY <1>0, <1>b, <1>c, <1>1 DEF SysTyped, Together, Driven, Landed
    <2>4. Landed'
      BY <1>0, <1>b, <1>c, <1>1 DEF SysTyped, Together, Driven, Landed
    <2>5. Migrated'
      BY <1>0, <1>b, <1>c, <1>1 DEF SysTyped, Together, Driven, Landed, Migrated, NeedsSnapshot, Versions
    <2>6. Numbered'
      BY <1>0, <1>b, <1>c, <1>1 DEF SysTyped, Together, Driven, Numbered, Told, SysOps
    <2>7. ReportedRuns'
      BY <1>0, <1>b, <1>c, <1>1 DEF SysTyped, Together, Driven, Landed, Numbered, ReportedRuns, Reported, Told
    <2>8. Recorded'
      BY <1>0, <1>b, <1>c, <1>1 DEF SysTyped, Together, Recorded, Numbered, Told
    <2> QED
      BY <2>1, <2>2, <2>3, <2>4, <2>5, <2>6, <2>7, <2>8
  <1>2. ASSUME StopFailedCandidate, HandleFailedPromotion(gen.mig) \/ LandingUnwritten(gen.mig) PROVE SysInv'
    <2>1. /\ UNCHANGED <<releases, rows, pending, results, desired, lastGood, previous, schema, outcome, staged>>
          /\ sup = "gate" /\ app' = NoApp
      BY <1>2 DEF StopFailedCandidate, disk, db, history
    <2> HIDE DEF SysInv
    <2> QED
      BY <1>0, <1>2, <2>1, FailKeeps
  <1> QED
    BY <1>1, <1>2 DEF StopFailedCandidate, disk, db, history

(* handle_failed_promotion after the candidate is killed. *)
LEMMA AfterKillKeeps ==
  ASSUME SysInv, AfterKill
  PROVE  SysInv'
  <1> USE SysAssumption, NoMarkAssumption DEF SysInv, Retried, Busy, Active, Watching, SupStates, NoApp, Journal, GenOf, Ordinary
  <1>0. /\ schema \in Versions /\ schema \in Int /\ schema >= schema /\ gen.mig \in BOOLEAN /\ desired \in Versions
        /\ sup \notin Watching => app = NoApp
    BY DEF SysTyped, Gens, Together, Versions
  <1>2. /\ UNCHANGED <<releases, rows, pending, results, desired, lastGood, previous, schema, outcome, staged, app>>
        /\ sup = "killed" /\ (HandleFailedPromotion(gen.mig) \/ LandingUnwritten(gen.mig))
    BY DEF AfterKill, disk, db, history
  <1>3. app = NoApp
    BY <1>0, <1>2
  <1> HIDE DEF SysInv
  <1> QED
    BY <1>0, <1>2, <1>3, FailKeeps

(* Start-up of the supervisor: what it finds in the two journals decides. *)
LEMMA StartSupervisorKeeps ==
  ASSUME SysInv, StartSupervisor
  PROVE  SysInv'
  <1> USE SysAssumption, NoMarkAssumption DEF SysInv, Retried, Busy, Active, Watching, SupStates, NoApp, Journal, GenOf, Ordinary
  <1>0. /\ schema \in Versions /\ schema >= schema /\ app = NoApp /\ desired \in Versions /\ lastGood \in Versions
        /\ promoting # NoMark => promoting \in Journals /\ GenOf(promoting) \in Gens
    BY RecordsTyped DEF SysTyped, Together, Versions, StartSupervisor
  <1>1. ASSUME promoting # NoMark, pending' = NoMark, UNCHANGED <<sup, gen, promoting>>,
               sup = "down", app = NoApp, UNCHANGED <<releases, rows, results, desired, lastGood, previous,
                           schema, snapshots, snapshotOn, app, outcome, staged>>
        PROVE  SysInv'
    <2>1. SysTyped'
      BY <1>0, <1>1, RecordsTyped DEF SysTyped
    <2>2. Together'
      BY <1>0, <1>1 DEF SysTyped, Marks, Journals, Apps, Gens, Together, Driven
    <2>3. Driven'
      BY <1>0, <1>1 DEF SysTyped, Together, Driven, Landed
    <2>4. Landed'
      BY <1>0, <1>1 DEF SysTyped, Together, Driven, Landed
    <2>5. Migrated'
      BY <1>0, <1>1 DEF SysTyped, Together, Driven, Landed, Migrated, NeedsSnapshot, Versions
    <2>6. Numbered'
      BY <1>0, <1>1 DEF SysTyped, Together, Driven, Numbered, Told, SysOps
    <2>7. ReportedRuns'
      BY <1>0, <1>1 DEF SysTyped, Together, Driven, Landed, Numbered, ReportedRuns, Reported, Told
    <2>8. Recorded'
      BY <1>0, <1>1 DEF SysTyped, Together, Recorded, Numbered, Told
    <2> QED
      BY <2>1, <2>2, <2>3, <2>4, <2>5, <2>6, <2>7, <2>8
  <1>2. ASSUME promoting # NoMark, pending = NoMark, NEW attempted \in Versions, NEW mig \in BOOLEAN,
               Failing(GenOf(promoting), attempted, mig), pending' = pending,
               UNCHANGED <<releases, rows, results, desired, lastGood, previous, schema, app, outcome, staged>>
        PROVE  SysInv'
    <2>1. GenOf(promoting) \in Gens /\ GenOf(promoting).promotion /\ GenOf(promoting).op = promoting.op /\ GenOf(promoting).kind \in Kinds
      BY <1>0, <1>2 DEF Journals
    <2> HIDE DEF SysInv
    <2> QED
      BY <1>0, <1>2, <2>1, FailingKeeps
  <1>3. ASSUME promoting # NoMark, pending = NoMark, promoting.failure = NoMark,
               sup' = "promote", gen' = GenOf(promoting), UNCHANGED <<pending, promoting>>,
               sup = "down", app = NoApp, UNCHANGED <<releases, rows, results, desired, lastGood, previous,
                           schema, snapshots, snapshotOn, app, outcome, staged>>
        PROVE  SysInv'
    <2>1. SysTyped'
      BY <1>0, <1>3, RecordsTyped DEF SysTyped
    <2>2. Together'
      BY <1>0, <1>3 DEF SysTyped, Marks, Journals, Apps, Gens, Together, Driven
    <2>3. Driven'
      <3>1. gen'.promotion /\ gen'.op = promoting.op /\ gen'.kind \in Kinds
        BY <1>0, <1>3 DEF Journals
      <3> QED
        BY <1>0, <1>3, <3>1 DEF Driven
    <2>4. Landed'
      BY <1>0, <1>3 DEF SysTyped, Together, Driven, Landed
    <2>5. Migrated'
      BY <1>0, <1>3 DEF SysTyped, Together, Driven, Landed, Migrated, NeedsSnapshot, Versions
    <2>6. Numbered'
      BY <1>0, <1>3 DEF SysTyped, Together, Driven, Numbered, Told, SysOps
    <2>7. ReportedRuns'
      BY <1>0, <1>3 DEF SysTyped, Together, Driven, Landed, Numbered, ReportedRuns, Reported, Told
    <2>8. Recorded'
      BY <1>0, <1>3 DEF SysTyped, Together, Recorded, Numbered, Told
    <2> QED
      BY <2>1, <2>2, <2>3, <2>4, <2>5, <2>6, <2>7, <2>8
  <1>4. ASSUME promoting = NoMark, pending # NoMark, sup' = "handoff", UNCHANGED <<gen, pending, promoting>>,
               sup = "down", app = NoApp, UNCHANGED <<releases, rows, results, desired, lastGood, previous,
                           schema, snapshots, snapshotOn, app, outcome, staged>>
        PROVE  SysInv'
    <2>1. SysTyped'
      BY <1>0, <1>4, RecordsTyped DEF SysTyped
    <2>2. Together'
      BY <1>0, <1>4 DEF SysTyped, Marks, Journals, Apps, Gens, Together, Driven
    <2>3. Driven'
      BY <1>0, <1>4 DEF SysTyped, Together, Driven, Landed
    <2>4. Landed'
      BY <1>0, <1>4 DEF SysTyped, Together, Driven, Landed
    <2>5. Migrated'
      BY <1>0, <1>4 DEF SysTyped, Together, Driven, Landed, Migrated, NeedsSnapshot, Versions
    <2>6. Numbered'
      BY <1>0, <1>4 DEF SysTyped, Together, Driven, Numbered, Told, SysOps
    <2>7. ReportedRuns'
      BY <1>0, <1>4 DEF SysTyped, Together, Driven, Landed, Numbered, ReportedRuns, Reported, Told
    <2>8. Recorded'
      BY <1>0, <1>4 DEF SysTyped, Together, Recorded, Numbered, Told
    <2> QED
      BY <2>1, <2>2, <2>3, <2>4, <2>5, <2>6, <2>7, <2>8
  <1>5. ASSUME promoting = NoMark, pending = NoMark, sup' = "promote", gen' = Ordinary(StartVersion),
               UNCHANGED <<pending, promoting>>,
               sup = "down", app = NoApp, UNCHANGED <<releases, rows, results, desired, lastGood, previous,
                           schema, snapshots, snapshotOn, app, outcome, staged>>
        PROVE  SysInv'
    <2>1. SysTyped'
      BY <1>0, <1>5, RecordsTyped DEF SysTyped, StartVersion
    <2>2. Together'
      BY <1>0, <1>5 DEF SysTyped, Marks, Journals, Apps, Gens, Together, Driven
    <2>3. Driven'
      <3>1. StartVersion = lastGood
        BY <1>5 DEF StartVersion, Landed
      <3>2. gen' = Ordinary(gen'.version) /\ gen'.version = lastGood /\ ~gen'.promotion
        BY <1>5, <3>1
      <3> QED
        BY <1>5, <3>2 DEF Driven
    <2>4. Landed'
      BY <1>0, <1>5 DEF SysTyped, Together, Driven, Landed
    <2>5. Migrated'
      BY <1>0, <1>5 DEF SysTyped, Together, Driven, Landed, Migrated, NeedsSnapshot, Versions
    <2>6. Numbered'
      BY <1>0, <1>5 DEF SysTyped, Together, Driven, Numbered, Told, SysOps
    <2>7. ReportedRuns'
      BY <1>0, <1>5 DEF SysTyped, Together, Driven, Landed, Numbered, ReportedRuns, Reported, Told
    <2>8. Recorded'
      BY <1>0, <1>5 DEF SysTyped, Together, Recorded, Numbered, Told
    <2> QED
      BY <2>1, <2>2, <2>3, <2>4, <2>5, <2>6, <2>7, <2>8
  <1>6. UNCHANGED <<releases, rows, results, desired, lastGood, previous, schema, snapshots, snapshotOn, app, outcome, staged>> /\ sup = "down"
    BY DEF StartSupervisor, disk, db, history
  <1>7. promoting # NoMark => /\ promoting.mig \in BOOLEAN /\ promoting.version \in Versions
                              /\ promoting.failure # NoMark => promoting.failure \in Versions
                              /\ promoting.from # NoMark => promoting.from \in Versions
    BY <1>0 DEF Journals, VersionOrNone
  <1> HIDE DEF SysInv
  <1> QED
    BY <1>0, <1>1, <1>2, <1>3, <1>4, <1>5, <1>6, <1>7 DEF StartSupervisor

(* reconcileOperationsOnBoot: results are taken over, what is interrupted is *)
(* closed, and nothing of an update succeeds that the supervisor has not     *)
(* reported.                                                                 *)
LEMMA BootKeeps ==
  ASSUME SysInv, Boot
  PROVE  SysInv'
  <1> USE SysAssumption, NoMarkAssumption DEF SysInv, Retried
  <1>1. PICK told \in SUBSET SysOps, cut \in SUBSET SysOps :
          /\ \A o \in told : results[o] # NoOutcome
          /\ \A o \in cut : rows[o].status = "running"
          /\ rows' = [o \in SysOps |->
               [rows[o] EXCEPT !.status = IF o \in told THEN StatusOf(results[o])
                                          ELSE IF o \in cut THEN Interrupted(o) ELSE rows[o].status]]
          /\ results' = [o \in SysOps |-> IF o \in told THEN NoOutcome ELSE results[o]]
    <2>1. PICK taken \in SUBSET SysOps, closed \in SUBSET SysOps :
            LET told == {o \in taken : results[o] # NoOutcome}
                cut == {o \in closed \ told : rows[o].status = "running"} IN
            /\ rows' = [o \in SysOps |->
                 [rows[o] EXCEPT !.status = IF o \in told THEN StatusOf(results[o])
                                            ELSE IF o \in cut THEN Interrupted(o) ELSE @]]
            /\ results' = [o \in SysOps |-> IF o \in told THEN NoOutcome ELSE results[o]]
      BY DEF Boot
    <2> DEFINE told == {o \in taken : results[o] # NoOutcome}
               cut == {o \in closed \ told : rows[o].status = "running"}
    <2>2. /\ told \in SUBSET SysOps /\ cut \in SUBSET SysOps
          /\ \A o \in told : results[o] # NoOutcome
          /\ \A o \in cut : rows[o].status = "running"
      OBVIOUS
    <2>3. /\ rows' = [o \in SysOps |->
                 [rows[o] EXCEPT !.status = IF o \in told THEN StatusOf(results[o])
                                            ELSE IF o \in cut THEN Interrupted(o) ELSE rows[o].status]]
          /\ results' = [o \in SysOps |-> IF o \in told THEN NoOutcome ELSE results[o]]
      BY <2>1
    <2> HIDE DEF told, cut
    <2> QED
      BY <2>2, <2>3
  <1>2. /\ UNCHANGED <<pending, promoting, releases, desired, lastGood, previous, schema, snapshots, snapshotOn, sup, gen, outcome, staged>>
        /\ app.pc = "booting" /\ app' = [app EXCEPT !.pc = "up"] /\ app \in Apps
    BY DEF Boot, disk, db, supVars, SysTyped
  <1>3. \A o \in SysOps :
        /\ rows'[o].kind = rows[o].kind
        /\ rows'[o].status = IF o \in told THEN StatusOf(results[o])
            ELSE IF o \in cut THEN Interrupted(o) ELSE rows[o].status
        /\ rows'[o] = [kind |-> rows'[o].kind, status |-> rows'[o].status]
        /\ results'[o] = IF o \in told THEN NoOutcome ELSE results[o]
    <2> SUFFICES ASSUME NEW o \in SysOps
                 PROVE
                        /\ rows'[o].kind = rows[o].kind
                        /\ rows'[o].status = IF o \in told THEN StatusOf(results[o])
                                                ELSE IF o \in cut THEN Interrupted(o) ELSE rows[o].status
                        /\ rows'[o] = [kind |-> rows'[o].kind, status |-> rows'[o].status]
                        /\ results'[o] = IF o \in told THEN NoOutcome ELSE results[o]
      OBVIOUS
    <2>1. PICK s : rows'[o] = [rows[o] EXCEPT !.status = s] /\ s = IF o \in told THEN StatusOf(results[o])
                                                ELSE IF o \in cut THEN Interrupted(o) ELSE rows[o].status
      BY <1>1
    <2>2. rows[o] \in Rows
      BY DEF SysTyped
    <2> QED
      BY <1>1, <2>1, <2>2 DEF Rows
  <1>4. \A o \in SysOps :
        /\ StatusOf(results[o]) \in {"succeeded", "failed", "rolled_back"}
        /\ StatusOf(results[o]) = "succeeded" => results[o].status = "success"
        /\ Interrupted(o) \in {"running", "succeeded", "failed"}
        /\ Interrupted(o) = "succeeded" => rows[o].kind = "restart"
        /\ rows[o] \in Rows /\ results[o] \in Outcomes
    BY DEF StatusOf, Interrupted, SysTyped
  <1>5. \A o \in SysOps : rows'[o] \in Rows /\ results'[o] \in Outcomes /\ (rows[o].status # "none" => rows'[o].status # "none")
    <2> SUFFICES ASSUME NEW o \in SysOps
                 PROVE  rows'[o] \in Rows /\ results'[o] \in Outcomes /\ (rows[o].status # "none" => rows'[o].status # "none")
      OBVIOUS
    <2>1. rows'[o].status \in {"none", "running", "succeeded", "failed", "rolled_back"} /\ (rows[o].status # "none" => rows'[o].status # "none")
      BY <1>3, <1>4 DEF Rows
    <2>2. rows'[o].kind \in Kinds \cup {NoMark}
      BY <1>3, <1>4 DEF Rows
    <2>3. rows'[o] \in Rows
      <3>1. PICK k \in Kinds \cup {NoMark}, s \in {"none", "running", "succeeded", "failed", "rolled_back"} :
              rows'[o] = [kind |-> k, status |-> s]
        BY <1>3, <2>1, <2>2
      <3> QED
        BY <3>1 DEF Rows
    <2> QED
      BY <1>3, <1>4, <2>1, <2>3, RecordsTyped
  <1>6. app' \in Apps /\ app'.pc = "up" /\ app'.approved = app.approved /\ app'.version = app.version
    BY <1>2 DEF Apps
  <1>7. DOMAIN rows' = SysOps /\ DOMAIN results' = SysOps
    BY <1>1
  <1>8. rows' \in [SysOps -> Rows] /\ results' \in [SysOps -> Outcomes]
    BY <1>1, <1>5, <1>7
  <1>9. SysTyped'
    BY <1>2, <1>6, <1>8 DEF SysTyped
  <1>10. Together' /\ Driven' /\ Landed' /\ Migrated' /\ ReportedRuns'
    BY <1>2, <1>6 DEF Together, Driven, Landed, Migrated, ReportedRuns, Reported, Busy, NeedsSnapshot
  <1>11. \A o \in SysOps : rows'[o].status # "none" => rows[o].status # "none"
    <2> SUFFICES ASSUME NEW o \in SysOps, rows'[o].status # "none" PROVE rows[o].status # "none"
      OBVIOUS
    <2>1. CASE o \in told
      BY <1>1, <2>1 DEF Numbered
    <2>2. CASE o \in cut
      BY <1>1, <2>2
    <2>3. CASE o \notin told /\ o \notin cut
      BY <1>3, <2>3
    <2> QED
      BY <2>1, <2>2, <2>3
  <1>12. \A o \in SysOps : results'[o] # NoOutcome => results'[o] = results[o]
    BY <1>3
  <1>13. Numbered'
    BY <1>2, <1>5, <1>6, <1>11, <1>12 DEF Numbered, Told, Busy, SysTyped, Marks, Journals
  <1>14. Recorded'
    <2>1. \A o \in staged : o \in SysOps
      BY DEF SysTyped
    <2>2. ASSUME NEW o \in staged, rows'[o].status = "succeeded" PROVE Told(o)
      <3>1. rows[o].kind = "update" /\ (rows[o].status = "succeeded" => Told(o))
        BY DEF Recorded
      <3>2. results[o].status = "success" => Told(o)
        BY <2>1 DEF Recorded
      <3>3. o \in SysOps
        BY <2>1
      <3>4. Interrupted(o) # "succeeded"
        BY <1>4, <3>1, <3>3
      <3>5. CASE o \in told
        BY <1>3, <1>4, <2>2, <3>2, <3>3, <3>5
      <3>6. CASE o \notin told
        BY <1>3, <2>2, <3>1, <3>3, <3>4, <3>6
      <3> QED
        BY <3>5, <3>6
    <2>3. ASSUME NEW o \in SysOps, results'[o].status = "success" PROVE Told(o)
      <3>1. results'[o] = results[o]
        <4>1. results'[o] # NoOutcome
          BY <2>3 DEF NoOutcome
        <4> QED
          BY <1>12, <4>1
      <3> QED
        BY <2>3, <3>1 DEF Recorded
    <2> QED
      BY <1>2, <1>3, <1>6, <2>1, <2>2, <2>3 DEF Recorded, Told
  <1> QED
    BY <1>9, <1>10, <1>13, <1>14

(* A deployment starts with release 1 running and nothing on record. *)
LEMMA SysInitInv == SysInit => SysInv
  <1> SUFFICES ASSUME SysInit PROVE SysInv
    OBVIOUS
  <1> USE SysAssumption, NoMarkAssumption DEF SysInit
  <1>1. 1 \in Versions /\ app \in Apps /\ gen \in Gens /\ \A o \in SysOps : rows[o] \in Rows
    <2>1. 1 \in Versions
      BY DEF Versions
    <2>2. app \in Apps
      BY <2>1, RecordsTyped DEF Apps, VersionOrNone
    <2>3. [kind |-> NoMark, status |-> "none"] \in Rows
      BY DEF Rows
    <2> QED
      BY <2>1, <2>2, <2>3, RecordsTyped
  <1>2. SysTyped
    BY <1>1, RecordsTyped DEF SysTyped, SupStates, Active, VersionOrNone
  <1>3. app.pc = "up" /\ app.approved /\ app.version = 1 /\ gen.version = 1 /\ ~gen.promotion
    BY DEF NoApp, Ordinary
  <1>4. Together /\ Driven /\ Landed /\ Migrated
    BY <1>3 DEF Together, Watching, Busy, Driven, Landed, Migrated, NeedsSnapshot
  <1>5. Numbered /\ ReportedRuns /\ Recorded
    BY <1>3 DEF Numbered, Told, Busy, ReportedRuns, Reported, Recorded, NoOutcome
  <1> QED
    BY <1>2, <1>4, <1>5 DEF SysInv

(* Every step of the API and of the supervisor keeps the invariant. *)
LEMMA SysStep == SysInv /\ [SysNext]_sysVars => SysInv'
  <1> SUFFICES ASSUME SysInv, [SysNext]_sysVars PROVE SysInv'
    OBVIOUS
  <1>1. CASE AppNext
    BY <1>1, BootKeeps, NothingNewerKeeps, UpdateFailsKeeps, StageUpdateKeeps, StageOtherKeeps, WritePendingKeeps,
       ExitKeeps, ShutdownFailsKeeps, RevokePendingKeeps, AuditFailureKeeps, GoneKeeps, ConsumeResultKeeps,
       StartOperationKeeps DEF AppNext
  <1>2. CASE SupNext
    BY <1>2, HandoffKeeps, RemovePendingKeeps, PublishFailureKeeps, LandKeeps, StartSupervisorKeeps, AtomicPromoteKeeps,
       RunSnapshotKeeps, RunMigrateKeeps, FinalKeeps, StopFailedCandidateKeeps, AfterKillKeeps, WriteResultKeeps,
       WriteNoResultKeeps, ApproveKeeps, ClearPromotingKeeps, GoneKeeps DEF SupNext
  <1>3. CASE UNCHANGED sysVars
    <2>1. SysTyped' /\ Together' /\ Driven' /\ Landed'
      BY <1>3 DEF SysInv, sysVars, SysTyped, Together, Driven, Retried, Landed
    <2>2. Migrated' /\ Numbered' /\ ReportedRuns' /\ Recorded'
      BY <1>3 DEF SysInv, sysVars, Migrated, NeedsSnapshot, Numbered, Told, ReportedRuns, Reported, Recorded
    <2> QED
      BY <2>1, <2>2 DEF SysInv
  <1> QED
    BY <1>1, <1>2, <1>3 DEF SysNext

(* The inductive invariant of the self-update. *)
THEOREM SysInvHolds == SysSpec => []SysInv
  BY SysInitInv, SysStep, PTL DEF SysSpec

(* persist_failed_promotion, reconcileOperationsOnBoot, consume_pending: a   *)
(* reported failure is final, no update succeeds on record before the        *)
(* supervisor has seen it through, and the two journals agree, after any     *)
(* number of crashes of either side.                                         *)
THEOREM UpdateInvariantHolds == SysSpec => []UpdateInvariant
  <1>1. SysInv => UpdateInvariant
    <2> SUFFICES ASSUME SysInv PROVE UpdateInvariant
      OBVIOUS
    <2> USE DEF SysInv
    <2>1. SysTypeOK
      BY DEF SysTyped, SysTypeOK, Rows, Marks, Journals, Apps, Busy, Gens, VersionOrNone
    <2>2. FailureIsFinal
      BY DEF FailureIsFinal, ReportedRuns, Together, Watching
    <2>3. NoPrematureSuccess /\ JournalsAgree
      BY DEF NoPrematureSuccess, JournalsAgree, Recorded, Told, Together
    <2> QED
      BY <2>1, <2>2, <2>3 DEF UpdateInvariant
  <1> QED
    BY <1>1, SysInvHolds, PTL

(* The finalisation in entrypoint.sh: once a promotion is over, the newest   *)
(* operation reported as done names the last good and the desired release.   *)
THEOREM ReportedIsRunningHolds == SysSpec => []ReportedIsRunning
  <1>1. SysInv => ReportedIsRunning
    <2> SUFFICES ASSUME SysInv, promoting = NoMark, Reported # {}
                 PROVE  lastGood = outcome[Max(Reported)].version /\ desired = outcome[Max(Reported)].version
      BY DEF ReportedIsRunning, Reported
    <2>1. PICK o \in Reported : outcome[o].version = lastGood /\ \A p \in Reported : p <= o
      BY DEF SysInv, ReportedRuns
    <2>2. Reported \subseteq Int
      BY SysAssumption DEF Reported, SysOps
    <2>3. o \in Reported /\ \A p \in Reported : o >= p
      BY <2>1, <2>2
    <2>4. PICK m \in Reported : m = Max(Reported) /\ \A p \in Reported : m >= p
      BY <2>3 DEF Max
    <2>5. m = o
      BY <2>2, <2>3, <2>4
    <2> QED
      BY <2>1, <2>4, <2>5 DEF SysInv, Landed
  <1> QED
    BY <1>1, SysInvHolds, PTL

(* run_snapshot before run_migrate: with snapshots switched on, no step      *)
(* changes the schema outside a promotion that has its own snapshot, also    *)
(* after a restart in the middle and when a failed release is tried again.   *)
THEOREM SnapshotFirstHolds == SysSpec => SnapshotFirst
  <1>1. SysInv /\ [SysNext]_sysVars => [schema' # schema /\ snapshotOn => gen.op \in snapshots]_sysVars
    <2> SUFFICES ASSUME SysInv, SysNext, schema' # schema, snapshotOn PROVE gen.op \in snapshots
      OBVIOUS
    <2>1. RunMigrate
      BY DEF SysNext, AppNext, SupNext, Boot, NothingNewer, UpdateFails, StageRelease, WritePending, ExitForPromotion,
         ShutdownFails, RevokePending, AuditFailure, AppKilled, ConsumeResult, StartOperation, Handoff, RemovePending,
         PublishFailure, Land, StartSupervisor, AtomicPromote, RunSnapshot, BecomeStable, StopFailedCandidate, AfterKill,
         SavePrevious, WriteLastGood, WriteResult, Approve, ClearPromoting, AppExited, SupervisorKilled, db
    <2>2. sup = "migrate" /\ gen.kind # "rollback" /\ ~(gen.version <= schema)
      BY <2>1 DEF RunMigrate
    <2>3. gen.promotion
      BY <2>2 DEF SysInv, Driven, Active, Migrated
    <2>5. gen.mig
      BY <2>2, <2>3 DEF SysInv, Migrated, Active
    <2> QED
      BY <2>2, <2>3, <2>5 DEF SysInv, Migrated, NeedsSnapshot
  <1> QED
    BY <1>1, SysInvHolds, PTL DEF SysSpec, SnapshotFirst
=============================================================================
