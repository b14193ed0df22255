------------------------------ MODULE Storage ------------------------------
(***************************************************************************)
(* Releases and runtime versions over the same managed files: a path is    *)
(* removed only when neither refers to it.                                 *)
(***************************************************************************)
EXTENDS ReleaseCenter, RuntimeVersions

storageVars == <<fileVars, releaseVars, versionVars>>

(* references: the rows a path is looked up in before it is removed. *)
References == ArtifactPaths \union VersionPaths

(* Files a running request or download has changed: no request runs for a day. *)
Young == ReceivedPaths \union FetchedPaths

StorageInit == FilesInit /\ ReleaseInit /\ VersionInit

(* The API process dies: requests, downloads and cleaners are gone, rows   *)
(* and files are not.                                                      *)
StorageCrash ==
    /\ FileFault /\ AbandonRequests /\ AbandonFetches
    /\ cleaner' = [c \in Cleaners |-> NoClean]
    /\ forsaken' = forsaken \union (Young \cap files)
    /\ UNCHANGED <<files, cleanup>>

ReleaseStep == ReleaseNext(References) /\ UNCHANGED versionVars
VersionStep == VersionNext(References) /\ UNCHANGED releaseVars
CleanupStep == CleanupNext(References, Young) /\ UNCHANGED <<releaseVars, versionVars>>

StorageNext == ReleaseStep \/ VersionStep \/ CleanupStep \/ StorageCrash
StorageSpec == StorageInit /\ [][StorageNext]_storageVars

-----------------------------------------------------------------------------
Paths == {Package(n) : n \in 1..MaxUploads} \union PathsOf(VersionRows)

StorageTypeOK ==
    /\ files \subseteq Paths /\ QueuedPaths \subseteq Paths /\ forsaken \subseteq Paths
    /\ \A c \in Cleaners : cleaner[c].pc \in {"idle", "taken", "unlink", "done"}
    /\ line \in AdminProcs \union {NoAdmin} /\ uploads \in 0..MaxUploads
    /\ \A a \in Artifacts : artifact[a].path \in Paths \union {Link, NoPath}
    /\ policy.active \in VersionRows \union {0}

(* What a row hands out is on disk: a stored package, a version that is    *)
(* ready, and in particular the one clients are told to fetch.             *)
ReferencedExists ==
    /\ ArtifactPaths \subseteq files
    /\ \A v \in StatusIs({"ready"}) : FinalPath(v) \in files
    /\ policy.active # 0 => Ready(policy.active)

(* A file nothing refers to has a job; only a crash, a failed job or a row *)
(* deleted under a download leaves it to the scan.                         *)
UnwantedIsQueued == files \ (References \union Young \union forsaken) \subseteq QueuedPaths

(* The cleanup loses nothing: types, and every unwanted file is accounted  *)
(* for (enqueue, removeOrQueue, processJob and its revision check).        *)
StorageInvariant == StorageTypeOK /\ UnwantedIsQueued

=============================================================================
