--------------------------- MODULE MCSubscriptions ---------------------------
(***************************************************************************)
(* Subscription administration for TLC: who owns a subscription            *)
(* (Ownership) and what its counters say (TrafficReset).  The two share    *)
(* no state; an initial state picks the one it explores.                   *)
(***************************************************************************)
EXTENDS Ownership, TrafficReset, TLC

VARIABLE focus

MCInit == OwnInit /\ ResetInit /\ focus \in {"ownership", "traffic"}

MCNext ==
    \/ focus = "ownership" /\ OwnNext /\ UNCHANGED <<focus, resetVars>>
    \/ focus = "traffic" /\ ResetNext /\ UNCHANGED <<focus, ownVars>>

MCSpec == MCInit /\ [][MCNext]_<<focus, ownVars, resetVars>>

Symmetry == Permutations(OwnUsers) \cup Permutations(OwnProcs)

=============================================================================
