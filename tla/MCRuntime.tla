------------------------------ MODULE MCRuntime ------------------------------
(* Instances of ModuleRuntime for TLC. *)
EXTENDS ModuleRuntime, TLC

Symmetry == Permutations(Calls)

=============================================================================
