--------------------------- MODULE MCModuleCache ---------------------------
(* Instances of ModuleCache for TLC. *)
EXTENDS ModuleCache, TLC

Symmetry == Permutations(Procs) \cup Permutations(Inodes)
============================================================================
