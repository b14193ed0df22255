----------------------------- MODULE MCMetering -----------------------------
(***************************************************************************)
(* Instances of Metering for TLC: two bindings that draw on one            *)
(* subscription.                                                           *)
(***************************************************************************)
EXTENDS Metering, TLC

CONSTANTS b1, b2, s1

OneSubscription == [b \in Bindings |-> s1]

Symmetry == Permutations(Bindings)

=============================================================================
