----------------------------- MODULE MCMachines -----------------------------
(* Instances of Machines for TLC: a small and a large type of vGPU, on a card *)
(* with room for two small ones or one large one.                             *)
EXTENDS Machines, TLC

CONSTANTS small, large

Sizes    == [f \in Profiles |-> IF f = large THEN 2 ELSE 1]
Symmetry == Permutations(Commands) \cup Permutations(Machines) \cup Permutations(Pids)
=============================================================================
