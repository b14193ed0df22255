--------------------------- MODULE ReleaseCenter ---------------------------
(***************************************************************************)
(* The client releases of one platform and their packages                  *)
(* (release-center.service.ts).  A release is its version: the table is    *)
(* unique in it, and compareSemver orders releases as the numbers do.      *)
(*                                                                         *)
(* A step is a transaction or a read outside of one.  Handlers that only   *)
(* repeat under the row lock what they checked before it are one step;     *)
(* those that check outside and write later are several, and the release   *)
(* line's advisory lock (line) is held from the first read of its          *)
(* transaction to the write.  Titles, minimum versions and the primary     *)
(* flag decide nothing here; archived releases are read-only and left out. *)
(***************************************************************************)
EXTENDS ManagedFiles

CONSTANTS MaxRelease,      \* releases 1..MaxRelease
          MaxArtifact,     \* ReleaseArtifact rows 1..MaxArtifact
          MaxUploads,      \* bound: files received
          AdminProcs,      \* administrators' requests
          NoAdmin          \* a model value: nobody

ASSUME ReleaseAssumption ==
    /\ {MaxRelease, MaxArtifact, MaxUploads} \subseteq Nat /\ NoAdmin \notin AdminProcs

Releases  == 1..MaxRelease
Artifacts == 1..MaxArtifact
Package(n) == <<"package", n>>
Link      == <<"link", 0>>       \* the stored path of an external artifact
NoRelease == [status |-> "none", channel |-> "beta"]
NoArtifact == [release |-> 0, path |-> NoPath]
NoRequest == [op |-> "idle"]

VARIABLES release,         \* release[r]: status and channel
          artifact,        \* artifact[a]: its release and stored path
          admin,           \* admin[p]: the request p is in
          line,            \* who holds the release line's lock
          uploads          \* files received so far

releaseVars == <<release, artifact, admin, line, uploads>>
noFileChange == UNCHANGED fileVars

Exists(r) == release[r].status # "none"
Draft(r)  == release[r].status = "draft"
ArtifactsOf(r) == {a \in Artifacts : artifact[a].release = r}
FreeArtifacts  == {a \in Artifacts : artifact[a] = NoArtifact}
StoredPaths(as) == {artifact[a].path : a \in as} \ {Link, NoPath}
ArtifactPaths   == StoredPaths(Artifacts)
ReceivedPaths   == {admin[p].path : p \in {q \in AdminProcs : admin[q].op = "upload"}}

ReleaseInit ==
    /\ release = [r \in Releases |-> NoRelease]
    /\ artifact = [a \in Artifacts |-> NoArtifact]
    /\ admin = [p \in AdminProcs |-> NoRequest]
    /\ line = NoAdmin /\ uploads = 0

Begin(p, request) == admin[p] = NoRequest /\ admin' = [admin EXCEPT ![p] = request]
Done(p) == admin' = [admin EXCEPT ![p] = NoRequest]
At(p, op, pc) == admin[p].op = op /\ admin[p].pc = pc

-----------------------------------------------------------------------------
CreateRelease(r, channel, linked) ==
    /\ ~Exists(r)
    /\ release' = [release EXCEPT ![r] = [status |-> "draft", channel |-> channel]]
    /\ IF linked THEN \E a \in FreeArtifacts :
                         artifact' = [artifact EXCEPT ![a] = [release |-> r, path |-> Link]]
       ELSE UNCHANGED artifact
    /\ UNCHANGED <<admin, line, uploads>> /\ noFileChange

(* assertReleasePublishable, before any lock: a package that can be read. *)
Publishable(r) == \E a \in ArtifactsOf(r) : artifact[a].path \in files \union {Link}

(* updateRelease, and publishRelease, which is the edit that changes the   *)
(* status alone.                                                           *)
BeginEdit(p, r, channel, status) ==
    /\ Exists(r) /\ (status = "published" => Publishable(r))
    /\ Begin(p, [op |-> "edit", pc |-> "begun", r |-> r, channel |-> channel, status |-> status])
    /\ UNCHANGED <<release, artifact, line, uploads>> /\ noFileChange

(* The channel of a release that is out is not edited. *)
ChannelAllowed(r, channel) ==
    channel \in {"same", release[r].channel} \/ Draft(r)

(* writeReleaseEdit: the lock and the check, *)
EditRead(p) ==
    /\ At(p, "edit", "begun") /\ line = NoAdmin
    /\ LET r == admin[p].r IN
       IF Exists(r) /\ ChannelAllowed(r, admin[p].channel)
       THEN line' = p /\ admin' = [admin EXCEPT ![p].pc = "read"]
       ELSE line' = line /\ Done(p)
    /\ UNCHANGED <<release, artifact, uploads>> /\ noFileChange

(* and the write, which fails when the row is gone. *)
EditWrite(p) ==
    /\ At(p, "edit", "read")
    /\ LET r == admin[p].r
           old == release[r]
           new == [status  |-> IF admin[p].status = "same" THEN old.status ELSE admin[p].status,
                   channel |-> IF admin[p].channel = "same" THEN old.channel ELSE admin[p].channel] IN
       release' = IF Exists(r) THEN [release EXCEPT ![r] = new] ELSE release
    /\ line' = NoAdmin /\ Done(p)
    /\ UNCHANGED <<artifact, uploads>> /\ noFileChange

InBeta(r) == release[r] = [status |-> "published", channel |-> "beta"]
StableLine == {r \in Releases : release[r] = [status |-> "published", channel |-> "stable"]}

BeginPromote(p, r) ==
    /\ InBeta(r)
    /\ Begin(p, [op |-> "promote", pc |-> "begun", r |-> r])
    /\ UNCHANGED <<release, artifact, line, uploads>> /\ noFileChange

(* Fault: the stable line is read while another request holds the lock. *)
PromoteReadUnlocked(p) ==
    /\ At(p, "promote", "begun")
    /\ IF Exists(admin[p].r) /\ \A s \in StableLine : s < admin[p].r
       THEN line' = p /\ admin' = [admin EXCEPT ![p].pc = "read"]
       ELSE line' = line /\ Done(p)
    /\ UNCHANGED <<release, artifact, uploads>> /\ noFileChange

(* promoteRelease: under the lock the release must be above the stable line, *)
PromoteRead(p) ==
    /\ At(p, "promote", "begun") /\ line = NoAdmin
    /\ IF Exists(admin[p].r) /\ \A s \in StableLine : s < admin[p].r
       THEN line' = p /\ admin' = [admin EXCEPT ![p].pc = "read"]
       ELSE line' = line /\ Done(p)
    /\ UNCHANGED <<release, artifact, uploads>> /\ noFileChange

(* and it is moved if it is still a published beta. *)
PromoteWrite(p) ==
    /\ At(p, "promote", "read")
    /\ release' = IF InBeta(admin[p].r)
                  THEN [release EXCEPT ![admin[p].r].channel = "stable"] ELSE release
    /\ line' = NoAdmin /\ Done(p)
    /\ UNCHANGED <<artifact, uploads>> /\ noFileChange

(* unpublishRelease takes no lock. *)
UnpublishRelease(r) ==
    /\ Exists(r) /\ release' = [release EXCEPT ![r].status = "draft"]
    /\ UNCHANGED <<artifact, admin, line, uploads>> /\ noFileChange

DeleteRelease(r) ==
    /\ Exists(r)
    /\ release' = [release EXCEPT ![r] = NoRelease]
    /\ artifact' = [a \in Artifacts |-> IF a \in ArtifactsOf(r) THEN NoArtifact ELSE artifact[a]]
    /\ Enqueue(StoredPaths(ArtifactsOf(r)), FALSE)
    /\ UNCHANGED <<admin, line, uploads, files, forsaken, fileFaults>>

-----------------------------------------------------------------------------
(* createReleaseArtifact: an external package, checked first, *)
BeginLink(p, r) ==
    /\ Draft(r) /\ Begin(p, [op |-> "link", pc |-> "begun", r |-> r])
    /\ UNCHANGED <<release, artifact, line, uploads>> /\ noFileChange

(* and written without a lock on the release. *)
CommitLink(p) ==
    /\ At(p, "link", "begun") /\ Done(p)
    /\ IF Exists(admin[p].r)
       THEN \E a \in FreeArtifacts :
               artifact' = [artifact EXCEPT ![a] = [release |-> admin[p].r, path |-> Link]]
       ELSE UNCHANGED artifact
    /\ UNCHANGED <<release, line, uploads>> /\ noFileChange

(* uploadReleaseArtifact (a = 0) and replaceReleaseArtifactUpload, for a   *)
(* file sent, imported or reused: it gets a path of its own.               *)
BeginUpload(p, r, a) ==
    /\ Draft(r) /\ a \in ArtifactsOf(r) \union {0} /\ uploads < MaxUploads
    /\ Begin(p, [op |-> "upload", pc |-> "stored", r |-> r, a |-> a, path |-> Package(uploads + 1)])
    /\ uploads' = uploads + 1 /\ files' = files \union {Package(uploads + 1)}
    /\ UNCHANGED <<release, artifact, line, cleanup, cleaner, forsaken, fileFaults>>

(* The row an upload writes: the one it replaces, one of the same content, *)
(* or a new one.                                                           *)
UploadRows(p) ==
    LET mine == ArtifactsOf(admin[p].r) IN
    IF admin[p].a # 0 THEN {admin[p].a} \cap mine
    ELSE FreeArtifacts \union {a \in mine : artifact[a].path # Link}

WriteUpload(p, a) ==
    /\ Draft(admin[p].r) /\ a \in UploadRows(p)
    /\ artifact' = [artifact EXCEPT ![a] = [release |-> admin[p].r, path |-> admin[p].path]]
    /\ Enqueue(StoredPaths({a}), FALSE)

CommitUpload(p, a) ==
    /\ At(p, "upload", "stored") /\ WriteUpload(p, a) /\ Done(p)
    /\ UNCHANGED <<release, line, uploads, files, forsaken, fileFaults>>

(* The answer to the commit is lost, and the handler takes it for a failure. *)
CommitUnanswered(p, a) ==
    /\ At(p, "upload", "stored") /\ FileFault /\ WriteUpload(p, a)
    /\ admin' = [admin EXCEPT ![p].pc = "failed"]
    /\ UNCHANGED <<release, line, uploads, files, forsaken>>

(* The package is not acceptable, or the release is no longer a draft. *)
UploadFails(p) ==
    /\ At(p, "upload", "stored") /\ admin' = [admin EXCEPT ![p].pc = "failed"]
    /\ UNCHANGED <<release, artifact, line, uploads>> /\ noFileChange

(* cleanupFailedReleaseArtifactUpload, with refs what all rows refer to. *)
CleanUpload(p, refs) ==
    /\ At(p, "upload", "failed") /\ Done(p) /\ RemoveOrQueue({admin[p].path}, refs)
    /\ UNCHANGED <<release, artifact, line, uploads>>

(* updateReleaseArtifact to an external source, deleteReleaseArtifact. *)
RetireFile(a, row) ==
    /\ artifact[a] # NoArtifact /\ Draft(artifact[a].release)
    /\ artifact' = [artifact EXCEPT ![a] = row]
    /\ Enqueue(StoredPaths({a}), FALSE)
    /\ UNCHANGED <<release, admin, line, uploads, files, forsaken, fileFaults>>
SwitchToLink(a) == RetireFile(a, [artifact[a] EXCEPT !.path = Link])
DeleteReleaseArtifact(a) == RetireFile(a, NoArtifact)

(* What a crash of the process takes with it. *)
AbandonRequests ==
    admin' = [p \in AdminProcs |-> NoRequest] /\ line' = NoAdmin
    /\ UNCHANGED <<release, artifact, uploads>>

ReleaseNext(refs) ==
    \/ \E r \in Releases :
         \/ \E ch \in {"beta", "stable"}, linked \in BOOLEAN : CreateRelease(r, ch, linked)
         \/ UnpublishRelease(r) \/ DeleteRelease(r)
         \/ \E p \in AdminProcs :
              \/ \E ch \in {"same", "beta", "stable"}, st \in {"same", "published", "draft"} :
                    BeginEdit(p, r, ch, st)
              \/ BeginPromote(p, r) \/ BeginLink(p, r)
              \/ \E a \in Artifacts \union {0} : BeginUpload(p, r, a)
    \/ \E p \in AdminProcs :
         \/ EditRead(p) \/ EditWrite(p) \/ PromoteRead(p) \/ PromoteWrite(p)
         \/ CommitLink(p) \/ UploadFails(p) \/ CleanUpload(p, refs)
         \/ \E a \in Artifacts : CommitUpload(p, a) \/ CommitUnanswered(p, a)
    \/ \E a \in Artifacts : SwitchToLink(a) \/ DeleteReleaseArtifact(a)

-----------------------------------------------------------------------------
(* A release that is out changes its channel only by promotion, from beta  *)
(* to stable and above everything that is stable then (writeReleaseEdit,   *)
(* promoteRelease, withReleaseLineLock).                                   *)
LineOnlyRises ==
    [][\A r \in Releases :
         release[r].status = "published" /\ release'[r].status = "published"
            /\ release'[r].channel # release[r].channel
         => release[r].channel = "beta" /\ \A s \in StableLine : s < r]_releaseVars

=============================================================================
