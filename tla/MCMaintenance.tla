--------------------------- MODULE MCMaintenance ---------------------------
(* Small directories; every quantity of policy.rs scaled down.             *)
EXTENDS Maintenance, TLC

Symmetry == Permutations(Commands) \cup Permutations(Workers)
=============================================================================
