----------------------------- MODULE MCDesktops -----------------------------
(* Instances of Desktops for TLC, with the ports of the two desktops that   *)
(* config.py defines.                                                       *)
EXTENDS Desktops, TLC

CONSTANTS vm1, vm2

Machine(n, s, i, v, m) ==
  [name |-> n, port |-> [k \in Kinds |-> CASE k = "spice" -> s [] k = "input" -> i [] OTHER -> v], mac |-> m]

Baseline == { Machine(vm1, 5900, 5905, 5004, 1), Machine(vm2, 5901, 5906, 5008, 2) }

FirstPort == [k \in Kinds |-> CASE k = "spice" -> 5900 [] k = "input" -> 5905 [] OTHER -> 5004]
PortStep  == [k \in Kinds |-> IF k = "video" THEN 2 ELSE 1]

AllFaults == {"image", "output", "save", "script"}
NoFaults  == {}
\* Bound: what happens after two saves have overlapped is left to MCDesktops_saves.
SavesApart == ~overlapped
Symmetry  == Permutations(Threads) \cup Permutations(Ids) \cup Permutations(Names \ {vm1, vm2})
=============================================================================
