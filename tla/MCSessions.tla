----------------------------- MODULE MCSessions -----------------------------
(***************************************************************************)
(* Sessions, for TLC: the locks under which requests run (UsageLocks), the *)
(* leases they hand out (Leases), and the signed-in session of the desktop *)
(* client (SessionStore).  An initial state picks the one it explores.     *)
(***************************************************************************)
EXTENDS UsageLocks, Leases, SessionStore, TLC

VARIABLE focus

MCInit ==
    /\ LockInit /\ LeaseInit /\ StoreInit
    /\ focus \in {"locks", "leases", "store"}
    /\ focus # "locks" => lockBackend = "pg"
    /\ focus # "leases" => limit = 1

MCNext ==
    \/ focus = "locks" /\ LockNext /\ UNCHANGED <<focus, leaseVars, storeVars>>
    \/ focus = "leases" /\ LeaseNext /\ UNCHANGED <<focus, lockVars, storeVars>>
    \/ focus = "store" /\ StoreNext /\ UNCHANGED <<focus, lockVars, leaseVars>>

MCSpec == MCInit /\ [][MCNext]_<<focus, lockVars, leaseVars, storeVars>>

Symmetry == Permutations(LockProcs)

=============================================================================
