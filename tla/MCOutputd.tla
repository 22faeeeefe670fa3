----------------------------- MODULE MCOutputd -----------------------------
(* Instances of Outputd for TLC: machines, slots, framebuffer ids and       *)
(* pointer positions are interchangeable.                                   *)
EXTENDS Outputd, TLC

Symmetry == Permutations(Names) \cup Permutations(Slots) \cup Permutations(FBs) \cup Permutations(Positions)
AllFaults == FaultKinds
=============================================================================
