-------------------------- MODULE RuntimeVersions --------------------------
(***************************************************************************)
(* The files of one runtime component (Xray or a rule set) that the API    *)
(* downloads and hands to the clients (runtime-version.service.ts,         *)
(* runtime-version-files.ts).  Unlike a package, a version has the same    *)
(* two paths for its whole life, the download and the finished file.       *)
(*                                                                         *)
(* Every change of the delivery policy is a transaction under the          *)
(* component's row lock and one step.  A download works outside of it, and *)
(* writes its row whatever has become of it since.  Dates are a free       *)
(* choice: retention is over whenever the model wants it to be.  The       *)
(* notification of clients is left out.                                    *)
(***************************************************************************)
EXTENDS ManagedFiles, Sequences, SequencesExt

CONSTANTS MaxVersionRow,   \* RuntimeComponentVersion rows 1..MaxVersionRow
          Fetchers,        \* API processes that run processPending
          Sources,         \* download addresses
          KeepNewest       \* rows pruneVersions always keeps: 20

ASSUME VersionAssumption == MaxVersionRow \in Nat /\ KeepNewest \in Nat

VersionRows == 1..MaxVersionRow
FinalPath(v) == <<"version", v>>
PartPath(v)  == <<"part", v>>
PathsOf(vs)  == {FinalPath(v) : v \in vs} \union {PartPath(v) : v \in vs}
NoFetch   == [pc |-> "idle", v |-> 0]
Unused    == [status |-> "none", auto |-> FALSE, source |-> 0]

VARIABLES version,         \* version[v]: its row; downloading and verifying are "busy"
          policy,          \* RuntimeComponentDelivery and the component
          fetcher,         \* fetcher[w]: the download it runs
          served           \* versions in the order they were last activated

versionVars == <<version, policy, fetcher, served>>

VersionInit ==
    /\ version = [v \in VersionRows |-> Unused]
    /\ policy = [component |-> TRUE, source |-> 0, auto |-> FALSE, active |-> 0]
    /\ fetcher = [w \in Fetchers |-> NoFetch]
    /\ served = <<>>

StatusIs(ss) == {v \in VersionRows : version[v].status \in ss}
NextRow == {v \in StatusIs({"none"}) : \A u \in 1..(v - 1) : version[u].status # "none"}
InProgress == StatusIs({"queued", "busy"})
VersionPaths == {FinalPath(v) : v \in StatusIs({"queued", "busy", "ready"})}
                \union {PartPath(v) : v \in InProgress}
FetchedPaths == PathsOf({fetcher[w].v : w \in Fetchers})
SetStatus(v, s) == version' = [version EXCEPT ![v].status = s]
Row(v) == version[v].status \notin {"none", "gone"}

-----------------------------------------------------------------------------
(* acquire: one download at a time; a saved file of the source is reused. *)
Acquire(source, auto) ==
    /\ policy.component /\ InProgress = {}
    /\ policy' = [policy EXCEPT !.source = source, !.auto = auto]
    /\ \/ ~auto /\ (\E v \in StatusIs({"ready"}) : version[v].source = source
                                                   /\ FinalPath(v) \in files)
          /\ UNCHANGED version
       \/ \E v \in NextRow :
            version' = [version EXCEPT ![v] = [status |-> "queued", auto |-> auto, source |-> source]]
    /\ UNCHANGED <<fetcher, served>> /\ UNCHANGED fileVars

SetAutoLatest(on) ==
    /\ policy.component /\ policy.source # 0
    /\ policy' = [policy EXCEPT !.auto = on]
    /\ UNCHANGED <<version, fetcher, served>> /\ UNCHANGED fileVars

ScheduleLatest ==
    /\ policy.component /\ policy.auto /\ InProgress = {}
    /\ \E v \in NextRow : version' = [version EXCEPT
            ![v] = [status |-> "queued", auto |-> TRUE, source |-> policy.source]]
    /\ UNCHANGED <<policy, fetcher, served>> /\ UNCHANGED fileVars

-----------------------------------------------------------------------------
(* processPending: a download that has been silent for 15 minutes has      *)
(* failed, even if its process is only slow,                               *)
FailStale(v) ==
    /\ version[v].status = "busy" /\ SetStatus(v, "failed")
    /\ IF \E w \in Fetchers : fetcher[w].v = v
       THEN FileFault /\ UNCHANGED <<files, cleanup, cleaner, forsaken>>
       ELSE UNCHANGED fileVars
    /\ UNCHANGED <<policy, fetcher, served>>

(* and the oldest queued one is claimed. *)
Claim(w) ==
    /\ fetcher[w] = NoFetch
    /\ \E v \in StatusIs({"queued"}) :
         /\ \A u \in StatusIs({"queued"}) : v <= u
         /\ SetStatus(v, "busy")
         /\ fetcher' = [fetcher EXCEPT ![w] = [pc |-> "claimed", v |-> v]]
    /\ UNCHANGED <<policy, served>> /\ UNCHANGED fileVars

To(w, pc) == fetcher' = [fetcher EXCEPT ![w].pc = pc]
Stop(w) == fetcher' = [fetcher EXCEPT ![w] = NoFetch]

(* prepareRuntimeVersion: the download is opened, *)
OpenPart(w) ==
    /\ fetcher[w].pc = "claimed" /\ To(w, "fetching")
    /\ files' = files \union {PartPath(fetcher[w].v)}
    /\ UNCHANGED <<version, policy, served, cleanup, cleaner, forsaken, fileFaults>>

(* reports its progress, which makes the row busy again, *)
Progress(w) ==
    /\ fetcher[w].pc = "fetching" /\ Row(fetcher[w].v)
    /\ SetStatus(fetcher[w].v, "busy") /\ To(w, "fetched")
    /\ UNCHANGED <<policy, served>> /\ UNCHANGED fileVars

(* is verified and gets its name, if it is still there, *)
RenamePart(w) ==
    LET v == fetcher[w].v IN
    /\ fetcher[w].pc = "fetched" /\ PartPath(v) \in files
    /\ files' = (files \ {PartPath(v)}) \union {FinalPath(v)} /\ To(w, "prepared")
    /\ UNCHANGED <<version, policy, served, cleanup, cleaner, forsaken, fileFaults>>

(* or fails, then or when the row is written, and the download is removed. *)
FetchFails(w) ==
    /\ fetcher[w].pc \in {"claimed", "fetching", "fetched", "prepared"} /\ To(w, "failed")
    /\ files' = files \ {PartPath(fetcher[w].v)}
    /\ UNCHANGED <<version, policy, served, cleanup, cleaner, forsaken, fileFaults>>

(* The content is what clients have already. *)
FoundUnchanged(w) ==
    LET v == fetcher[w].v IN
    /\ fetcher[w].pc = "prepared" /\ Row(v) /\ version[v].auto /\ policy.active # 0
    /\ SetStatus(v, "unchanged") /\ Enqueue({FinalPath(v)}, FALSE) /\ Stop(w)
    /\ UNCHANGED <<policy, served, files, forsaken, fileFaults>>

FoundReady(w) ==
    LET v == fetcher[w].v IN
    /\ fetcher[w].pc = "prepared" /\ Row(v) /\ SetStatus(v, "ready")
    /\ IF version[v].auto THEN To(w, "ready") ELSE Stop(w)
    /\ UNCHANGED <<policy, served>> /\ UNCHANGED fileVars

(* The row was deleted meanwhile: the update throws, and what is on disk   *)
(* is left to whoever deleted the row or to the nightly scan.              *)
RowGone(w) ==
    LET v == fetcher[w].v IN
    /\ fetcher[w].pc \in {"prepared", "failed"} /\ ~Row(v) /\ Stop(w)
    /\ forsaken' = forsaken \union (PathsOf({v}) \cap files)
    /\ UNCHANGED <<version, policy, served, files, cleanup, cleaner, fileFaults>>

RecordFailure(w) ==
    LET v == fetcher[w].v IN
    /\ fetcher[w].pc = "failed" /\ Row(v) /\ SetStatus(v, "failed") /\ To(w, "clean")
    /\ UNCHANGED <<policy, served>> /\ UNCHANGED fileVars

CleanFailed(w, refs) ==
    /\ fetcher[w].pc = "clean" /\ Stop(w)
    /\ RemoveOrQueue(PathsOf({fetcher[w].v}), refs)
    /\ UNCHANGED <<version, policy, served>>

-----------------------------------------------------------------------------
(* activate, by an administrator or, if the policy still wants it, at the  *)
(* end of a download.                                                      *)
Serve(v) ==
    /\ policy' = [policy EXCEPT !.active = v]
    /\ served' = Append(SelectSeq(served, LAMBDA u : u # v), v)
Ready(v) == version[v].status = "ready" /\ FinalPath(v) \in files

Activate(v) ==
    /\ Ready(v) /\ Serve(v) /\ UNCHANGED <<version, fetcher>> /\ UNCHANGED fileVars

AutoActivate(w) ==
    LET v == fetcher[w].v IN
    /\ fetcher[w].pc = "ready" /\ Stop(w)
    /\ IF Ready(v) /\ policy.auto /\ policy.source = version[v].source
       THEN Serve(v) ELSE UNCHANGED <<policy, served>>
    /\ UNCHANGED version /\ UNCHANGED fileVars

DropRows(vs) ==
    /\ version' = [v \in VersionRows |-> IF v \in vs THEN [version[v] EXCEPT !.status = "gone"]
                                         ELSE version[v]]
    /\ Enqueue(PathsOf(vs), FALSE)
    /\ UNCHANGED <<fetcher, served, files, forsaken, fileFaults>>

DeleteVersion(v) ==
    /\ Row(v) /\ v \notin InProgress /\ v # policy.active
    /\ DropRows({v}) /\ UNCHANGED policy

(* The version that was served before the present one, to return to. *)
PreviousServed ==
    LET others == SelectSeq(served, LAMBDA u : u # policy.active /\ version[u].status = "ready") IN
    IF others = <<>> THEN {} ELSE {Last(others)}

NewestRows ==
    {v \in VersionRows : Row(v) /\ Cardinality({u \in VersionRows : Row(u) /\ u > v}) < KeepNewest}

(* pruneVersions deletes what retention has released, except the version   *)
(* in use and, for a component that follows the latest release, the one    *)
(* before it, for any other the newest rows.                               *)
PruneVersions ==
    LET kept == {policy.active} \union (IF policy.auto THEN PreviousServed ELSE NewestRows) IN
    /\ policy.component /\ policy.source # 0
    /\ \E vs \in SUBSET (StatusIs({"ready", "failed", "unchanged"}) \ kept) :
         vs # {} /\ DropRows(vs)
    /\ UNCHANGED policy

(* deleteAdminRuntimeComponent takes every version with it, a running      *)
(* download included.                                                      *)
DeleteComponent ==
    /\ policy.component /\ DropRows({v \in VersionRows : Row(v)})
    /\ policy' = [policy EXCEPT !.component = FALSE, !.source = 0, !.active = 0]

AbandonFetches ==
    fetcher' = [w \in Fetchers |-> NoFetch] /\ UNCHANGED <<version, policy, served>>

VersionNext(refs) ==
    \/ \E s \in Sources, auto \in BOOLEAN : Acquire(s, auto)
    \/ \E on \in BOOLEAN : SetAutoLatest(on)
    \/ ScheduleLatest \/ PruneVersions \/ DeleteComponent
    \/ \E v \in VersionRows : FailStale(v) \/ Activate(v) \/ DeleteVersion(v)
    \/ \E w \in Fetchers :
         \/ Claim(w) \/ OpenPart(w) \/ Progress(w) \/ RenamePart(w) \/ FetchFails(w)
         \/ FoundUnchanged(w) \/ FoundReady(w) \/ RowGone(w) \/ RecordFailure(w)
         \/ CleanFailed(w, refs) \/ AutoActivate(w)

=============================================================================
