---------------------------- MODULE MCStreamKms ----------------------------
(* An instance of StreamKms for TLC: scanouts of three sizes, the monitor has *)
(* a mode for two of them.                                                    *)
EXTENDS StreamKms, TLC

CONSTANTS small, next, wide, odd

Sizes     == [i \in Scanouts |-> CASE i \in {small, next} -> 1 [] i = wide -> 2 [] OTHER -> 3]
AllFaults == FaultKinds
Symmetry  == Permutations(Bufs) \cup Permutations(FBs) \cup Permutations(Cursors)
=============================================================================
