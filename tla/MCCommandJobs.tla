--------------------------- MODULE MCCommandJobs ---------------------------
(* Instances of CommandJobs for TLC. *)
EXTENDS CommandJobs, TLC

Symmetry == Permutations(Specs)

=============================================================================
