---------------------------- MODULE MCOperations ----------------------------
(***************************************************************************)
(* The long-running operations of the API, for TLC: ending the leases of   *)
(* an account that may no longer connect (Leases) and updating the         *)
(* deployment itself (SystemUpdate).  They share no state; an initial      *)
(* state picks the one it explores.                                        *)
(***************************************************************************)
EXTENDS Leases, SystemUpdate

VARIABLE focus

MCInit ==
    /\ LeaseInit /\ SysInit
    /\ focus \in {"leases", "update"}
    /\ focus = "update" => limit = 1
    /\ focus = "leases" => snapshotOn

MCNext ==
    \/ focus = "leases" /\ LeaseNext /\ UNCHANGED <<focus, sysVars>>
    \/ focus = "update" /\ SysNext /\ UNCHANGED <<focus, leaseVars>>

MCSpec == MCInit /\ [][MCNext]_<<focus, leaseVars, sysVars>>

MCFairSpec ==
    /\ MCSpec
    /\ focus = "leases" => LeaseFairness
    /\ focus = "update" => SysFairness

=============================================================================
