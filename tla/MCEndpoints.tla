----------------------------- MODULE MCEndpoints -----------------------------
(***************************************************************************)
(* The ends of the system, for TLC: an agent's host that registers         *)
(* (Registration), the desktop client that connects (DesktopRuntime), and  *)
(* the releases and runtime files clients download (Storage).  They share  *)
(* no state; an initial state picks the one it explores.  Of Storage it    *)
(* picks the release line, with external packages only, the packages of    *)
(* one release, or the runtime versions; the first and the last with one   *)
(* fault.                                                                  *)
(***************************************************************************)
EXTENDS Registration, DesktopRuntime, Storage, TLC

VARIABLE focus

MCInit ==
    /\ RegInit /\ DesktopInit /\ StorageInit
    /\ focus \in {"registration", "runtime", "line", "packages", "versions"}

LineNext == (ReleaseStep \/ CleanupStep \/ StorageCrash) /\ uploads' = 0 /\ fileFaults' <= 1
PackagesNext ==
    /\ ReleaseStep \/ CleanupStep \/ StorageCrash
    /\ \A r \in Releases \ {1} : release'[r] = NoRelease
    /\ \A p \in AdminProcs : admin'[p].op \in {"idle", "upload"}
VersionsNext == (VersionStep \/ CleanupStep \/ StorageCrash) /\ fileFaults' <= 1

MCNext ==
    \/ focus = "registration" /\ RegNext /\ UNCHANGED <<focus, desktopVars, storageVars>>
    \/ focus = "runtime" /\ DesktopNext /\ UNCHANGED <<focus, regVars, storageVars>>
    \/ focus = "line" /\ LineNext /\ UNCHANGED <<focus, regVars, desktopVars>>
    \/ focus = "packages" /\ PackagesNext /\ UNCHANGED <<focus, regVars, desktopVars>>
    \/ focus = "versions" /\ VersionsNext /\ UNCHANGED <<focus, regVars, desktopVars>>

MCSpec == MCInit /\ [][MCNext]_<<focus, regVars, desktopVars, storageVars>>

Symmetry == Permutations(AdminProcs) \cup Permutations(Fetchers)

=============================================================================
