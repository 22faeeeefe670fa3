---------------------------- MODULE Switchboard ----------------------------
(***************************************************************************)
(* What gvt-outputd promises to those who select machines, while the       *)
(* kernel refuses nothing: it joins one machine at a time to the monitor.  *)
(* There is no table, no framebuffer and no device here; Outputd           *)
(* implements this module.                                                 *)
(***************************************************************************)
CONSTANTS Names, Nobody

VARIABLES
  drawn,     \* the machines that have a picture
  selected,  \* the machine that the monitor is meant for, or Nobody
  shown      \* the machine that the monitor shows: a set of at most one

vars == <<drawn, selected, shown>>

Init == drawn = {} /\ selected = Nobody /\ shown = {}

\* The machine draws.  One that was left on the monitor because the selected
\* one has no picture yet goes off it with the picture that it replaces.
Draw(n) ==
  /\ drawn'    = drawn \cup {n}
  /\ selected' = IF selected = Nobody THEN n ELSE selected
  /\ shown'    = IF selected' = n THEN {n} ELSE shown \ {n}

\* The picture of the last machine stays until the new one has its own.
Select(n) ==
  /\ selected' = n
  /\ shown'    = IF n \in drawn THEN {n} ELSE shown
  /\ UNCHANGED drawn

\* The monitor goes dark when the selected machine leaves, even if it shows
\* another one.
Withdraw(n) ==
  /\ drawn'    = drawn \ {n}
  /\ selected' = IF selected = n THEN Nobody ELSE selected
  /\ shown'    = IF selected = n THEN {} ELSE shown \ {n}

\* A restart forgets who was selected, and every picture.
Reset == drawn' = {} /\ selected' = Nobody /\ shown' = {}

Next == Reset \/ \E n \in Names : Draw(n) \/ Select(n) \/ Withdraw(n)

Spec == Init /\ [][Next]_vars
=============================================================================
